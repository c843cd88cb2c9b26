------------------------ MODULE LauncherConfigProofs ------------------------
(***************************************************************************)
(* Proofs about LauncherConfig for any databases, workers, backends,       *)
(* faults and bounds: its steps are steps of Launcher, its variables have  *)
(* their types, the argument of a worker loses nothing, and the            *)
(* configuration a worker ends with is the committed one but for the       *)
(* exceptions ConfigSettles names.                                         *)
(***************************************************************************)
EXTENDS LauncherConfig, LauncherOrderProofs

-----------------------------------------------------------------------------
(* The argument of a worker.                                               *)

(* Two numbers below Base are the digits of a number below its square. *)
LEMMA Digits ==
  ASSUME NEW b \in Nat, b > 0, NEW hi \in 0 .. b - 1, NEW lo \in 0 .. b - 1
  PROVE  /\ hi * b + lo \in 0 .. b * b - 1
         /\ (hi * b + lo) \div b = hi
         /\ (hi * b + lo) % b = lo
<1>1. hi * b \in Nat /\ hi * b <= (b - 1) * b
  BY SMT
<1>2. hi * b + lo \in 0 .. b * b - 1
  BY <1>1, SMT
<1>3. (hi * b + lo) \div b = hi /\ (hi * b + lo) % b = lo
  BY <1>1, SMT
<1>4. QED
  BY <1>2, <1>3

(* What the launcher packs, the worker unpacks: OID and handle arrive as   *)
(* they were, whichever of their highest bits are set (pack_oid_dsmh_to_i64*)
(* and unpack_i64_to_oid_dsmh in src/utils.rs).                            *)
THEOREM PackingLosesNothing == ArgRoundTrip
<1> SUFFICES ASSUME NEW oid \in U32, NEW dsmh \in U32
             PROVE  RoundTrip(oid, dsmh)
  BY DEF ArgRoundTrip
<1>1. Base \in Nat /\ Base > 0 /\ Base = 2 * Half /\ Half \in Nat
  BY HalfAssumption DEF Base
<1>2. Half * Base \in Nat /\ Base * Base = 2 * (Half * Base)
  BY <1>1, SMT
<1> DEFINE v == oid * Base + dsmh
<1>3. /\ v \in 0 .. Base * Base - 1
      /\ v \div Base = oid
      /\ v % Base = dsmh
  BY <1>1, Digits DEF U32
<1>4. AsI64(v) \in I64 /\ AsU64(AsI64(v)) = v
  <2> HIDE DEF v
  <2>1. \A h, q, n \in Nat : q = 2 * h /\ n < q =>
          /\ (IF n < h THEN n ELSE n - q) \in -h .. h - 1
          /\ (IF (IF n < h THEN n ELSE n - q) >= 0 THEN (IF n < h THEN n ELSE n - q)
              ELSE (IF n < h THEN n ELSE n - q) + q) = n
    BY SMT
  <2>2. v \in Nat /\ v < Base * Base /\ Base * Base \in Nat
    BY <1>2, <1>3, SMT
  <2>3. QED
    BY <1>2, <2>1, <2>2 DEF AsI64, AsU64, I64
<1>5. QED
  BY <1>3, <1>4 DEF RoundTrip, Pack, UnpackOid, UnpackDsmh

(* A worker that runs finds its database and its segment in its argument,  *)
(* whatever their numbers.                                                 *)
THEOREM WorkersKnowThemselves == ConfigSpec => []WorkerKnowsItself
<1>1. WorkerKnowsItself
  BY PackingLosesNothing DEF ArgRoundTrip, WorkerKnowsItself
<1> QED
  BY <1>1, PTL

-----------------------------------------------------------------------------
(* The steps are those of Launcher.                                        *)

LEMMA StepOfLauncher == [ConfigNext]_allvars => [Next]_vars
<1> SUFFICES ASSUME [ConfigNext]_allvars PROVE [Next]_vars
  OBVIOUS
<1> USE DEF Next, SystemStep
<1>1. CASE UNCHANGED allvars
  BY <1>1 DEF allvars
<1>2. CASE LauncherConfigStep
  BY <1>2 DEF LauncherConfigStep, ForwardConfig, OtherLauncherStep, LauncherStep, Handle
<1>3. ASSUME NEW w \in Worker, WorkerConfigStep(w) PROVE [Next]_vars
  BY <1>3 DEF WorkerConfigStep, FetchConfig, ConnectFetched, ReceiveConfig, EndConfig,
              OtherWorkerStep, WorkerStep, Fault
<1>4. ASSUME NEW b \in Backend, BackendConfigStep(b) PROVE [Next]_vars
  BY <1>4 DEF BackendConfigStep, TryConfig, GiveUpConfig, CommitConfig, AbortConfig,
              BackendStep, CatalogStep
<1>5. CASE OtherEnvironmentStep
  BY <1>5 DEF OtherEnvironmentStep, Fault, CatalogStep
<1> QED
  BY <1>1, <1>2, <1>3, <1>4, <1>5 DEF ConfigNext

(* The supervision with configurations is the supervision: every theorem   *)
(* about Launcher holds of it.                                             *)
THEOREM ConfigImplementsLauncher == ConfigSpec => Spec
<1>1. ConfigInit => Init
  BY DEF ConfigInit
<1> QED
  BY <1>1, StepOfLauncher, PTL DEF ConfigSpec, Spec

-----------------------------------------------------------------------------
(* Type correctness.                                                       *)

LEMMA InitConfigType == ConfigInit => ConfigTypeOK
BY DEF ConfigInit, Init, ConfigTypeOK, Config

(* Only the steps of a backend on its own statement change where it is     *)
(* and what it has sent.                                                   *)
LEMMA KeepsStatements ==
  ASSUME ConfigTypeOK, bpc' = bpc, UNCHANGED options
  PROVE  /\ committed' \in [Db -> Nat] /\ ddl' \in [Backend -> Nat]
         /\ \A b \in Backend : ddl'[b] # 0 <=> bpc'[b] = "committing"
         /\ doomed' \in [Backend -> BOOLEAN]
BY DEF ConfigTypeOK, options

LEMMA KeepsLearned ==
  ASSUME ConfigTypeOK, UNCHANGED learned
  PROVE  /\ config' \in [Worker -> Config] /\ fetched' \in [Worker -> Config]
         /\ forwarded' \in [Worker -> SUBSET Nat] /\ refused' \in [Worker -> SUBSET Nat]
BY DEF ConfigTypeOK, learned

LEMMA NextConfigType == TypeOK /\ ConfigTypeOK /\ [ConfigNext]_allvars => ConfigTypeOK'
<1> SUFFICES ASSUME TypeOK, ConfigTypeOK, [ConfigNext]_allvars PROVE ConfigTypeOK'
  OBVIOUS
<1>1. CASE UNCHANGED allvars
  BY <1>1, KeepsStatements, KeepsLearned DEF allvars, vars, bvars, cvars, ConfigTypeOK
<1>2. CASE ForwardConfig
  <2>1. Head(bus).n \in Nat /\ bpc' = bpc
    <3>1. HandleForward
      BY <1>2 DEF ForwardConfig
    <3>2. Head(bus) \in Message
      BY <3>1, TakeType DEF HandleForward, TypeOK
    <3> QED
      BY <3>1, <3>2 DEF HandleForward, Message, bvars
  <2> QED
    BY <1>2, <2>1, KeepsStatements DEF ForwardConfig, ConfigTypeOK
<1>3. CASE OtherLauncherStep
  <2>1. bpc' = bpc
    BY <1>3 DEF OtherLauncherStep, Boot, Reap, Wake, Reaped, Drained, HandleExist, HandleShutdown,
                HandleNewConfigStart, HandleDropped, SendDone, SendDetached, LauncherRestart, bvars
  <2> QED
    BY <1>3, <2>1, KeepsStatements, KeepsLearned DEF OtherLauncherStep, cvars, ConfigTypeOK
<1>4. ASSUME NEW w \in Worker, FetchConfig(w) PROVE ConfigTypeOK'
  <2>1. InCatalog(dbOf[w]) \in Config
    BY DEF TypeOK, ConfigTypeOK, InCatalog, Config
  <2> QED
    BY <1>4, <2>1, KeepsStatements DEF FetchConfig, vars, bvars, ConfigTypeOK
<1>5. ASSUME NEW w \in Worker, ConnectFetched(w) \/ OtherWorkerStep(w) PROVE ConfigTypeOK'
  <2>1. bpc' = bpc
    BY <1>5 DEF ConnectFetched, OtherWorkerStep, Connect, ConnectFails, CheckStatus, SendStatus,
                EnterLoop, LeaveLoop, bvars
  <2> QED
    BY <1>5, <2>1, KeepsStatements, KeepsLearned
    DEF ConnectFetched, OtherWorkerStep, cvars, ConfigTypeOK
<1>6. ASSUME NEW w \in Worker, ReceiveConfig(w) PROVE ConfigTypeOK'
  <2>1. bpc' = bpc /\ mq[w].n \in Nat
    BY <1>6 DEF ReceiveConfig, Receive, TypeOK, Message, bvars
  <2>2. config' \in [Worker -> Config] /\ refused' \in [Worker -> SUBSET Nat]
    BY <1>6, <2>1 DEF ReceiveConfig, ApplyConfig, ConfigTypeOK, Config
  <2> QED
    BY <1>6, <2>1, <2>2, KeepsStatements DEF ReceiveConfig, ConfigTypeOK
<1>7. ASSUME NEW w \in Worker, EndConfig(w) PROVE ConfigTypeOK'
  <2>1. bpc' = bpc
    BY <1>7 DEF EndConfig, NeverStarts, Exit, WorkerCrash, bvars
  <2> QED
    BY <1>7, <2>1, KeepsStatements DEF EndConfig, ConfigTypeOK, Config
<1>8. ASSUME NEW b \in Backend, TryConfig(b) PROVE ConfigTypeOK'
  <2>1. CASE bpc'[b] = "committing"
    <3>1. /\ seq' \in Nat /\ seq' # 0 /\ ddl' = [ddl EXCEPT ![b] = seq']
          /\ \A c \in Backend : c # b => bpc'[c] = bpc[c]
      BY <1>8, <2>1 DEF TryConfig, Try, TypeOK
    <3> QED
      BY <1>8, <2>1, <3>1, KeepsLearned DEF TryConfig, ConfigTypeOK
  <2>2. CASE bpc'[b] # "committing"
    <3>1. /\ ddl' = ddl /\ bpc[b] # "committing"
          /\ \A c \in Backend : c # b => bpc'[c] = bpc[c]
      BY <1>8, <2>2 DEF TryConfig, Try, TypeOK
    <3> QED
      BY <1>8, <2>2, <3>1, KeepsLearned DEF TryConfig, ConfigTypeOK
  <2> QED
    BY <2>1, <2>2
<1>9. ASSUME NEW b \in Backend, GiveUpConfig(b) PROVE ConfigTypeOK'
  BY <1>9, KeepsLearned DEF GiveUpConfig, GiveUp, TypeOK, ConfigTypeOK
<1>10. ASSUME NEW b \in Backend, CommitConfig(b) PROVE ConfigTypeOK'
  <2>1. doomed' \in [Backend -> BOOLEAN]
    BY <1>10 DEF CommitConfig, Sets, ConfigTypeOK
  <2>2. /\ ddl' \in [Backend -> Nat] /\ committed' \in [Db -> Nat]
        /\ \A c \in Backend : ddl'[c] # 0 <=> bpc'[c] = "committing"
    BY <1>10 DEF CommitConfig, Commit, TypeOK, ConfigTypeOK
  <2> QED
    BY <1>10, <2>1, <2>2, KeepsLearned DEF CommitConfig, ConfigTypeOK
<1>11. ASSUME NEW b \in Backend, AbortConfig(b) PROVE ConfigTypeOK'
  <2>1. /\ ddl' = [ddl EXCEPT ![b] = 0] /\ bpc' = [bpc EXCEPT ![b] = "idle"]
        /\ doomed' = [doomed EXCEPT ![b] = FALSE] /\ committed' = committed
        /\ rolledBack' = rolledBack \cup {ddl[b]} /\ UNCHANGED learned
    BY <1>11 DEF AbortConfig, Abort
  <2>2. \A c \in Backend : ddl'[c] # 0 <=> bpc'[c] = "committing"
    BY <2>1 DEF TypeOK, ConfigTypeOK
  <2>3. ddl' \in [Backend -> Nat] /\ doomed' \in [Backend -> BOOLEAN] /\ rolledBack' \subseteq Nat
    BY <2>1 DEF ConfigTypeOK
  <2> QED
    BY <2>1, <2>2, <2>3, KeepsLearned DEF ConfigTypeOK
<1>12. CASE OtherEnvironmentStep
  <2>1. CASE Calls
    <3>1. PICK b \in Backend : bpc[b] = "idle" /\ bpc' = [bpc EXCEPT ![b] = "trying"]
      BY <2>1 DEF Calls, Call
    <3> QED
      BY <1>12, <3>1, KeepsLearned
      DEF OtherEnvironmentStep, cvars, options, TypeOK, ConfigTypeOK
  <2>2. CASE bpc' = bpc
    BY <1>12, <2>2, KeepsStatements, KeepsLearned DEF OtherEnvironmentStep, cvars, ConfigTypeOK
  <2> QED
    BY <1>12, <2>1, <2>2 DEF OtherEnvironmentStep, Sigterm, LauncherCrash, ChangeCatalog, bvars
<1> QED
  BY <1>1, <1>2, <1>3, <1>4, <1>5, <1>6, <1>7, <1>8, <1>9, <1>10, <1>11, <1>12
  DEF ConfigNext, LauncherConfigStep, WorkerConfigStep, BackendConfigStep

(* In every reachable state a backend has a configuration of its own       *)
(* exactly while its statement waits for the commit, and configurations    *)
(* are numbers or one of the two values that stand for none.               *)
THEOREM ConfigTypeCorrect == ConfigSpec => []ConfigTypeOK
<1>1. ConfigInit => TypeOK /\ ConfigTypeOK
  BY InitType, InitConfigType DEF ConfigInit
<1>2. TypeOK /\ ConfigTypeOK /\ [ConfigNext]_allvars => (TypeOK /\ ConfigTypeOK)'
  BY NextType, NextConfigType, StepOfLauncher
<1> QED
  BY <1>1, <1>2, PTL DEF ConfigSpec

-----------------------------------------------------------------------------
(* Which configuration a worker ends with.  The inductive invariant says   *)
(* of every number where its message is, or that the message is past, and  *)
(* of every worker what has become of the configurations it was given.     *)

(* The message with configuration n of database d waits for the launcher,  *)
(* or is being sent.                                                       *)
InLauncher(d, n) ==
  \/ \E i \in 1 .. Len(bus) : IsConfigFor(bus[i], d) /\ bus[i].n = n
  \/ lpc = "send" /\ IsConfigFor(sending, d) /\ sending.n = n

(* Or everything that the launcher still has to send is newer.             *)
Placed(d, n) == InLauncher(d, n) \/ Older(n)

(* A configuration is not newer than the committed one, its transaction    *)
(* was rolled back, or has not ended.                                      *)
Known(d, n) ==
  \/ n <= committed[d]
  \/ n \in rolledBack
  \/ \E b \in Backend : bpc[b] = "committing" /\ req[b].db = d /\ ddl[b] = n

EndedForgets ==
  \A w \in Worker : ~ Alive(w) =>
    config[w] = NotRead /\ fetched[w] = NotRead /\ forwarded[w] = {} /\ refused[w] = {}

(* A worker has no segment before it connects, and no message before it    *)
(* serves.                                                                 *)
NotBefore ==
  \A w \in Worker :
    /\ attached[w] => proc[w] \notin {"launched", "checked", "connecting"}
    /\ mq[w] # NoMessage => proc[w] = "serving"

(* A pending worker has been sent nothing. *)
PendingFresh ==
  \A d \in Db : \A w \in Worker :
    pending_workers[d] = w =>
      forwarded[w] = {} /\ config[w] = fetched[w] /\ mq[w] = NoMessage

(* A statement that can still commit has the newest configuration of its   *)
(* server.                                                                 *)
Statements ==
  \A b \in Backend : bpc[b] = "committing" =>
    /\ req[b].type = "NewConfig" /\ ddl[b] <= seq /\ Placed(req[b].db, ddl[b])
    /\ ~ doomed[b] => committed[req[b].db] < ddl[b]

CommittedPlaced == \A d \in Db : committed[d] <= seq /\ Placed(d, committed[d])

(* A number of a configuration of database d that a message or a worker    *)
(* has.                                                                    *)
Seen(d, n) ==
  \/ \E i \in 1 .. Len(bus) : IsConfigFor(bus[i], d) /\ bus[i].n = n
  \/ IsConfigFor(sending, d) /\ sending.n = n
  \/ \E w \in Worker : IsConfigFor(mq[w], d) /\ mq[w].n = n
  \/ \E w \in Worker : dbOf[w] = d /\ config[w] = n

Fates == \A d \in Db, n \in Nat : Seen(d, n) => Known(d, n)

(* The configuration n will still reach worker w, w could not reach its    *)
(* server, or w has it or a newer one, and all that w will be sent is      *)
(* newer.                                                                  *)
Coming(w, n) ==
  InLauncher(dbOf[w], n) \/ (IsConfigFor(mq[w], dbOf[w]) /\ mq[w].n = n)

Past(w, n) ==
  /\ config[w] \in Nat /\ n <= config[w]
  /\ Older(n) /\ (mq[w] # NoMessage => n < mq[w].n)

Accounted(w, n) == Coming(w, n) \/ n \in refused[w] \/ Past(w, n)

(* What the worker has found in the catalog or been sent. *)
Given(w) == forwarded[w] \cup ({fetched[w]} \cap Nat)

Active(d) == {pending_workers[d], workers[d]}

GivenAccounted ==
  \A d \in Db : \A w \in Worker :
    w \in Active(d) /\ proc[w] # "exiting" => \A n \in Given(w) : Accounted(w, n)

SettleInv ==
  /\ EndedForgets /\ NotBefore /\ PendingFresh
  /\ Statements /\ CommittedPlaced /\ Fates /\ GivenAccounted

-----------------------------------------------------------------------------
(* What a step does to the bus and to the send in progress.                *)

Posts(m) ==
  /\ bus' = Append(bus, m) /\ lpc # "send" /\ lpc' = lpc /\ sending' = sending
  /\ seq' \in Nat /\ seq <= seq'
  /\ Numbered(m) => seq < m.n

Takes ==
  /\ lpc = "drain" /\ bus # <<>> /\ bus' = Tail(bus) /\ seq' = seq
  /\ lpc' = "send" => sending' = Head(bus) /\ Numbered(Head(bus))

(* No configuration is on the bus that was not there before. *)
NothingNew ==
  \A i \in 1 .. Len(bus') : bus'[i].type = "NewConfig" =>
    \E j \in 1 .. Len(bus) : bus[j] = bus'[i]

(* A worker reports its status or its end: a message without a number.     *)
LEMMA ReportSteps ==
  ASSUME TypeOK, NEW w \in Worker, NEW type \in ExtensionStatus \cup {"SubscriberExit"},
         Post(Msg(type, dbOf[w], 0)), BusFree, UNCHANGED <<lvars, seq>>
  PROVE  (KeepsBus \/ \E m \in Message : Posts(m)) /\ NothingNew
<1>1. /\ Msg(type, dbOf[w], 0) \in Message /\ ~ Numbered(Msg(type, dbOf[w], 0))
      /\ Msg(type, dbOf[w], 0).type # "NewConfig"
  BY MsgType DEF TypeOK, MessageType, ExtensionStatus, Numbered, Msg
<1>2. CASE bus' = bus
  BY <1>2 DEF KeepsBus, NothingNew, lvars
<1>3. CASE bus' = Append(bus, Msg(type, dbOf[w], 0))
  <2>1. /\ Len(bus) \in Nat /\ Len(bus') = Len(bus) + 1
        /\ bus'[Len(bus) + 1] = Msg(type, dbOf[w], 0)
        /\ \A i \in 1 .. Len(bus) : bus'[i] = bus[i]
    BY <1>3, <1>1, AppendProperties DEF TypeOK
  <2>2. NothingNew
    BY <1>1, <2>1 DEF NothingNew
  <2> QED
    BY <1>1, <1>3, <2>2 DEF BusFree, Posts, TypeOK, lvars
<1> QED
  BY <1>2, <1>3 DEF Post

LEMMA BusSteps ==
  ASSUME TypeOK, [Next]_vars
  PROVE  KeepsBus \/ Takes \/ \E m \in Message : Posts(m)
<1> USE DEF KeepsBus
<1>1. CASE UNCHANGED vars
  BY <1>1 DEF vars, lvars, bvars
<1>2. ASSUME NEW d \in Db, Boot(d) \/ Reap(d) PROVE KeepsBus
  BY <1>2 DEF Boot, Reap, lvars, bvars
<1>3. CASE Wake \/ Reaped \/ Drained \/ SendDone \/ SendDetached \/ LauncherRestart \/ Sigterm
           \/ LauncherCrash
  BY <1>3 DEF Wake, Reaped, Drained, SendDone, SendDetached, LauncherRestart, Sigterm,
              LauncherCrash, bvars
<1>4. CASE HandleExist \/ HandleShutdown \/ HandleNewConfigStart \/ HandleDropped
  BY <1>4 DEF HandleExist, HandleShutdown, HandleNewConfigStart, HandleDropped, Take, Takes,
              lvars, bvars
<1>5. CASE HandleForward
  BY <1>5 DEF HandleForward, Take, Takes, Numbered, bvars
<1>6. ASSUME NEW w \in Worker,
             NeverStarts(w) \/ CheckStatus(w) \/ Connect(w) \/ EnterLoop(w) \/ Receive(w)
               \/ LeaveLoop(w) \/ ConnectFails(w) \/ WorkerCrash(w)
      PROVE  KeepsBus
  BY <1>6 DEF NeverStarts, CheckStatus, Connect, EnterLoop, Receive, LeaveLoop, ConnectFails,
              WorkerCrash, lvars, bvars
<1>7. ASSUME NEW w \in Worker, SendStatus(w) \/ Exit(w)
      PROVE  KeepsBus \/ \E m \in Message : Posts(m)
  BY <1>7, ReportSteps DEF SendStatus, Exit, TypeOK, bvars
<1>8. ASSUME NEW b \in Backend, Try(b) PROVE KeepsBus \/ \E m \in Message : Posts(m)
  <2>1. seq + 1 \in Nat /\ req[b].type \in MessageType /\ req[b].db \in Db
    BY <1>8 DEF Try, TypeOK, Message
  <2>2. /\ Msg(req[b].type, req[b].db, seq + 1) \in Message
        /\ Msg(req[b].type, req[b].db, seq + 1).n = seq + 1
    BY <2>1, MsgType DEF Msg
  <2> QED
    BY <1>8, <2>1, <2>2 DEF Try, Post, BusFree, Posts, TypeOK, lvars
<1>9. CASE Calls \/ (\E b \in Backend : GiveUp(b) \/ Commit(b)) \/ CatalogStep
  BY <1>9 DEF Calls, Call, GiveUp, Commit, CatalogStep, Abort, ChangeCatalog, lvars, bvars
<1> QED
  BY <1>1, <1>2, <1>3, <1>4, <1>5, <1>6, <1>7, <1>8, <1>9
  DEF Next, SystemStep, LauncherStep, Handle, WorkerStep, BackendStep, Fault

(* What is past stays past. *)
LEMMA OlderKept ==
  ASSUME TypeOK, NEW n \in Nat, Older(n), KeepsBus \/ Takes \/ \E m \in Message : Posts(m)
  PROVE  Older(n)'
<1>1. CASE KeepsBus
  BY <1>1 DEF KeepsBus, Older
<1>2. CASE Takes
  <2>1. /\ Len(bus) \in Nat /\ Len(bus) > 0 /\ Head(bus) = bus[1]
        /\ Len(bus') = Len(bus) - 1 /\ \A i \in 1 .. Len(bus') : bus'[i] = bus[i + 1]
    BY <1>2, HeadTailProperties DEF TypeOK, Takes
  <2>2. \A i \in 1 .. Len(bus') : i + 1 \in 1 .. Len(bus)
    BY <2>1
  <2> QED
    BY <1>2, <2>1, <2>2 DEF Takes, Older
<1>3. ASSUME NEW m \in Message, Posts(m) PROVE Older(n)'
  <2>1. /\ Len(bus) \in Nat /\ Len(bus') = Len(bus) + 1 /\ bus'[Len(bus) + 1] = m
        /\ \A i \in 1 .. Len(bus) : bus'[i] = bus[i]
    BY <1>3, AppendProperties DEF TypeOK, Posts
  <2>2. n <= seq /\ seq \in Nat /\ seq' \in Nat /\ m.n \in Nat /\ seq <= seq'
    BY <1>3 DEF TypeOK, Older, Posts, Message
  <2>3. Numbered(m) => n < m.n
    BY <1>3, <2>2 DEF Posts
  <2>4. \A i \in 1 .. Len(bus') : i \in 1 .. Len(bus) \/ i = Len(bus) + 1
    BY <2>1
  <2>5. \A i \in 1 .. Len(bus') : Numbered(bus'[i]) => n < bus'[i].n
    BY <2>1, <2>3, <2>4 DEF Older
  <2> QED
    BY <1>3, <2>2, <2>5 DEF Posts, Older
<1> QED
  BY <1>1, <1>2, <1>3

(* The launcher goes on sending, or nobody but the senders has a turn.     *)
Quiet ==
  \/ KeepsBus /\ (lpc = "send" => lpc' = "send")
  \/ \E m \in Message : Posts(m)

(* It keeps the messages for database d. *)
Carries(d) == Quiet \/ (Takes /\ (lpc' = "send" \/ ~ IsConfigFor(Head(bus), d)))

LEMMA LauncherKeeps ==
  ASSUME TypeOK, NEW n \in Nat, NEW d \in Db, InLauncher(d, n), Carries(d)
  PROVE  InLauncher(d, n)'
<1>1. CASE KeepsBus /\ (lpc = "send" => lpc' = "send")
  BY <1>1 DEF KeepsBus, InLauncher, IsConfigFor
<1>2. CASE Takes /\ (lpc' = "send" \/ ~ IsConfigFor(Head(bus), d))
  <2>1. /\ Len(bus) \in Nat /\ Len(bus) > 0 /\ Head(bus) = bus[1]
        /\ Len(bus') = Len(bus) - 1 /\ \A i \in 1 .. Len(bus') : bus'[i] = bus[i + 1]
    BY <1>2, HeadTailProperties DEF TypeOK, Takes
  <2>2. PICK i \in 1 .. Len(bus) : IsConfigFor(bus[i], d) /\ bus[i].n = n
    BY <1>2 DEF InLauncher, Takes
  <2>3. CASE i = 1
    BY <1>2, <2>1, <2>2, <2>3 DEF Takes, InLauncher, IsConfigFor
  <2>4. CASE i # 1
    <3>1. i - 1 \in 1 .. Len(bus') /\ (i - 1) + 1 = i
      BY <2>1, <2>4
    <3>2. bus'[i - 1] = bus[i]
      BY <2>1, <3>1
    <3> QED
      BY <2>2, <3>1, <3>2 DEF InLauncher, IsConfigFor
  <2> QED
    BY <2>3, <2>4
<1>3. ASSUME NEW m \in Message, Posts(m) PROVE InLauncher(d, n)'
  <2>1. /\ Len(bus) \in Nat /\ Len(bus') = Len(bus) + 1
        /\ \A i \in 1 .. Len(bus) : bus'[i] = bus[i]
    BY <1>3, AppendProperties DEF TypeOK, Posts
  <2>2. \A i \in 1 .. Len(bus) : i \in 1 .. Len(bus')
    BY <2>1
  <2> QED
    BY <1>3, <2>1, <2>2 DEF Posts, InLauncher, IsConfigFor
<1> QED
  BY <1>1, <1>2, <1>3 DEF Carries, Quiet

(* A message that the launcher has handled is older than what is left.     *)
LEMMA PlacedKept ==
  ASSUME TypeOK, BusOrdered, NEW n \in Nat, NEW d \in Db, Placed(d, n),
         KeepsBus \/ Takes \/ \E m \in Message : Posts(m)
  PROVE  Placed(d, n)'
<1>1. CASE Older(n) \/ Carries(d)
  BY <1>1, OlderKept, LauncherKeeps DEF Placed
<1>2. CASE InLauncher(d, n) /\ KeepsBus /\ lpc = "send" /\ lpc' # "send"
  <2>1. bus' = bus /\ seq' = seq
    BY <1>2 DEF KeepsBus
  <2>2. CASE IsConfigFor(sending, d) /\ sending.n = n
    BY <1>2, <2>1, <2>2 DEF BusOrdered, Older, Placed
  <2>3. CASE \E i \in 1 .. Len(bus) : IsConfigFor(bus[i], d) /\ bus[i].n = n
    BY <2>1, <2>3 DEF Placed, InLauncher, IsConfigFor
  <2> QED
    BY <1>2, <2>2, <2>3 DEF InLauncher
<1>3. CASE InLauncher(d, n) /\ Takes /\ lpc' # "send"
  <2>1. /\ Len(bus) \in Nat /\ Len(bus) > 0 /\ Head(bus) = bus[1]
        /\ Len(bus') = Len(bus) - 1 /\ \A i \in 1 .. Len(bus') : bus'[i] = bus[i + 1]
    BY <1>3, HeadTailProperties DEF TypeOK, Takes
  <2>2. PICK i \in 1 .. Len(bus) : IsConfigFor(bus[i], d) /\ bus[i].n = n
    BY <1>3 DEF InLauncher, Takes
  <2>3. CASE i = 1
    <3>1. Numbered(bus[1]) /\ n <= seq
      BY <2>1, <2>2, <2>3 DEF BusOrdered, IsConfigFor, Numbered
    <3>2. \A j \in 1 .. Len(bus') : j + 1 \in 1 .. Len(bus) /\ 1 < j + 1
      BY <2>1
    <3>3. \A j \in 1 .. Len(bus') : Numbered(bus'[j]) => n < bus'[j].n
      BY <2>1, <2>2, <2>3, <3>1, <3>2 DEF BusOrdered
    <3> QED
      BY <1>3, <3>1, <3>3 DEF Placed, Older, Takes
  <2>4. CASE i # 1
    <3>1. i - 1 \in 1 .. Len(bus') /\ (i - 1) + 1 = i
      BY <2>1, <2>4
    <3>2. bus'[i - 1] = bus[i]
      BY <2>1, <3>1
    <3> QED
      BY <2>2, <3>1, <3>2 DEF Placed, InLauncher, IsConfigFor
  <2> QED
    BY <2>3, <2>4
<1> QED
  BY <1>1, <1>2, <1>3 DEF Placed, Carries, Quiet

-----------------------------------------------------------------------------
(* What the steps leave alone.                                             *)

SameWorker(w) ==
  /\ dbOf'[w] = dbOf[w] /\ mq'[w] = mq[w] /\ config'[w] = config[w]
  /\ fetched'[w] = fetched[w] /\ forwarded'[w] = forwarded[w] /\ refused'[w] = refused[w]

LEMMA WorkerFrame ==
  ASSUME TypeOK, ConfigTypeOK, NEW w \in Worker, WorkerConfigStep(w)
  PROVE  /\ UNCHANGED <<lvars, ctx, dbOf, bvars, options, rolledBack>>
         /\ Quiet /\ NothingNew
         /\ \A v \in Worker \ {w} :
              SameWorker(v) /\ proc'[v] = proc[v] /\ attached'[v] = attached[v]
<1>1. UNCHANGED <<lvars, ctx, dbOf, bvars, options, rolledBack>>
  BY DEF WorkerConfigStep, FetchConfig, ConnectFetched, ReceiveConfig, EndConfig, OtherWorkerStep,
         NeverStarts, CheckStatus, SendStatus, Connect, ConnectFails, EnterLoop, Receive, LeaveLoop,
         Exit, WorkerCrash, vars, lvars, ctx, wvars, bvars, cvars
<1>2. Quiet /\ NothingNew
  <2>1. CASE bus' = bus
    BY <1>1, <2>1 DEF Quiet, KeepsBus, NothingNew, lvars, bvars
  <2>2. CASE SendStatus(w) \/ Exit(w)
    <3>1. (KeepsBus \/ \E m \in Message : Posts(m)) /\ NothingNew
      BY <1>1, <2>2, ReportSteps DEF SendStatus, Exit, TypeOK, bvars
    <3> QED
      BY <1>1, <3>1 DEF Quiet, lvars
  <2>3. bus' = bus \/ SendStatus(w) \/ Exit(w)
    BY DEF WorkerConfigStep, FetchConfig, ConnectFetched, ReceiveConfig, EndConfig,
           OtherWorkerStep, NeverStarts, CheckStatus, Connect, ConnectFails, EnterLoop, Receive,
           LeaveLoop, WorkerCrash, vars
  <2> QED
    BY <2>1, <2>2, <2>3
<1>3. ASSUME NEW v \in Worker \ {w}
      PROVE  mq'[v] = mq[v] /\ proc'[v] = proc[v] /\ attached'[v] = attached[v]
  BY DEF WorkerConfigStep, FetchConfig, ConnectFetched, ReceiveConfig, EndConfig, OtherWorkerStep,
         NeverStarts, CheckStatus, SendStatus, Connect, ConnectFails, EnterLoop, Receive, LeaveLoop,
         Exit, WorkerCrash, Moves, Ends, vars, wvars, TypeOK
<1>4. ASSUME NEW v \in Worker \ {w}
      PROVE  /\ config'[v] = config[v] /\ fetched'[v] = fetched[v]
             /\ forwarded'[v] = forwarded[v] /\ refused'[v] = refused[v]
  BY DEF WorkerConfigStep, FetchConfig, ConnectFetched, ReceiveConfig, ApplyConfig, EndConfig,
         OtherWorkerStep, cvars, learned, ConfigTypeOK
<1> QED
  BY <1>1, <1>2, <1>3, <1>4 DEF SameWorker

LEMMA BackendFrame ==
  ASSUME TypeOK, NEW b \in Backend, BackendConfigStep(b)
  PROVE  UNCHANGED <<lvars, ctx, wvars, learned>> /\ Quiet
<1>1. UNCHANGED <<lvars, ctx, wvars, learned>>
  BY DEF BackendConfigStep, TryConfig, GiveUpConfig, CommitConfig, AbortConfig, Try, GiveUp,
         Commit, Abort
<1>2. [Next]_vars /\ (Try(b) \/ UNCHANGED <<bus, seq>>)
  BY DEF BackendConfigStep, TryConfig, GiveUpConfig, CommitConfig, AbortConfig, GiveUp, Commit,
         Abort, Next, SystemStep, BackendStep, CatalogStep
<1>3. Quiet
  <2>1. CASE Try(b)
    <3>1. bus' = bus \/ \E m : bus' = Append(bus, m)
      BY <2>1 DEF Try, Post
    <3>2. ~ Takes
      BY <2>1 DEF Try, BusFree, Takes
    <3> QED
      BY <1>1, <1>2, <3>2, BusSteps DEF Quiet, lvars
  <2>2. CASE UNCHANGED <<bus, seq>>
    BY <1>1, <2>2 DEF Quiet, KeepsBus, lvars
  <2> QED
    BY <1>2, <2>1, <2>2
<1> QED
  BY <1>1, <1>3

LEMMA EnvironmentFrame ==
  ASSUME TypeOK, OtherEnvironmentStep
  PROVE  /\ UNCHANGED <<bus, seq, wvars, cvars>> /\ KeepsBus
         /\ \A c \in Backend : bpc'[c] = "committing" =>
              bpc[c] = "committing" /\ req'[c] = req[c]
         /\ \A c \in Backend : bpc[c] = "committing" =>
              bpc'[c] = "committing" /\ req'[c] = req[c]
         /\ sending' # sending => sending' = NoMessage
         /\ \/ UNCHANGED ctx /\ Quiet
            \/ pending_workers' = Absent /\ workers' = Absent
<1>1. /\ UNCHANGED <<bus, seq, wvars, cvars>> /\ KeepsBus
      /\ sending' # sending => sending' = NoMessage
  BY DEF OtherEnvironmentStep, Calls, Call, Sigterm, LauncherCrash, ChangeCatalog, KeepsBus,
         lvars, bvars
<1>2. \/ UNCHANGED <<ctx, lpc>>
      \/ pending_workers' = Absent /\ workers' = Absent
  BY DEF OtherEnvironmentStep, Calls, Call, Sigterm, LauncherCrash, ChangeCatalog, lvars
<1>3. ASSUME NEW c \in Backend
      PROVE  /\ bpc'[c] = "committing" => bpc[c] = "committing" /\ req'[c] = req[c]
             /\ bpc[c] = "committing" => bpc'[c] = "committing" /\ req'[c] = req[c]
  <2>1. CASE Calls
    <3>1. PICK b \in Backend :
            /\ bpc[b] = "idle" /\ bpc' = [bpc EXCEPT ![b] = "trying"]
            /\ \E m : req' = [req EXCEPT ![b] = m]
      BY <2>1 DEF Calls, Call
    <3> QED
      BY <3>1 DEF TypeOK
  <2>2. CASE UNCHANGED bvars
    BY <2>2 DEF bvars
  <2> QED
    BY <2>1, <2>2 DEF OtherEnvironmentStep, Sigterm, LauncherCrash, ChangeCatalog
<1> QED
  BY <1>1, <1>2, <1>3 DEF Quiet, KeepsBus

(* A worker appears in the maps only when a slot without a process gets    *)
(* one, and a message reaches its queue only by the end of a send.         *)
LEMMA LauncherFrame ==
  ASSUME TypeOK, LauncherStep, NEW v \in Worker
  PROVE  /\ proc'[v] = proc[v] \/ (~ Alive(v) /\ proc'[v] = "launched")
         /\ attached'[v] => attached[v] /\ proc'[v] = proc[v]
         /\ dbOf'[v] = dbOf[v] \/ ~ Alive(v)
         /\ \A d \in Db : pending_workers'[d] = v => pending_workers[d] = v \/ ~ Alive(v)
         /\ \A d \in Db : v \in Active(d)' => v \in Active(d) \/ ~ Alive(v)
         /\ mq'[v] # mq[v] => SendDone /\ v = Receiver /\ mq'[v] = sending
         /\ UNCHANGED bvars
<1> USE DEF Active
<1>1. ASSUME NEW e \in Db, StartWorker(e)
      PROVE  /\ proc'[v] = proc[v] \/ (~ Alive(v) /\ proc'[v] = "launched")
             /\ attached'[v] => attached[v] /\ proc'[v] = proc[v]
             /\ dbOf'[v] = dbOf[v] \/ ~ Alive(v)
             /\ \A d \in Db : pending_workers'[d] = v => pending_workers[d] = v \/ ~ Alive(v)
             /\ \A d \in Db : v \in Active(d)' => v \in Active(d) \/ ~ Alive(v)
             /\ mq'[v] = mq[v]
  <2>1. CASE UNCHANGED <<ctx, wvars>>
    BY <2>1 DEF ctx, wvars
  <2>2. ASSUME NEW w \in Worker, FreeSlot(w),
               proc' = [proc EXCEPT ![w] = "launched"],
               dbOf' = [dbOf EXCEPT ![w] = e],
               attached' = [attached EXCEPT ![w] = FALSE],
               pending_workers' = [pending_workers EXCEPT ![e] = w],
               UNCHANGED <<workers, terminated_workers, status, term, mq>>
        PROVE  /\ proc'[v] = proc[v] \/ (~ Alive(v) /\ proc'[v] = "launched")
               /\ attached'[v] => attached[v] /\ proc'[v] = proc[v]
               /\ dbOf'[v] = dbOf[v] \/ ~ Alive(v)
               /\ \A d \in Db : pending_workers'[d] = v => pending_workers[d] = v \/ ~ Alive(v)
               /\ \A d \in Db : v \in Active(d)' => v \in Active(d) \/ ~ Alive(v)
               /\ mq'[v] = mq[v]
    <3>1. ~ Alive(w)
      BY <2>2 DEF FreeSlot, Alive
    <3>2. CASE v = w
      BY <2>2, <3>1, <3>2 DEF TypeOK, Alive
    <3>3. CASE v # w
      BY <2>2, <3>3 DEF TypeOK
    <3> QED
      BY <3>2, <3>3
  <2> QED
    BY <1>1, <2>1, <2>2 DEF StartWorker
<1>2. ASSUME NEW d \in Db, Boot(d) \/ Reap(d)
      PROVE  UNCHANGED bvars /\ (StartWorker(d) \/ UNCHANGED <<pending_workers, workers, wvars>>)
  BY <1>2 DEF Boot, Reap
<1>3. CASE Wake
  <2>1. /\ proc' = proc /\ attached' = attached /\ dbOf' = dbOf /\ mq' = mq
        /\ UNCHANGED bvars
        /\ UNCHANGED ctx \/ (pending_workers' = Absent /\ workers' = Absent)
    BY <1>3 DEF Wake
  <2>2. v # NoWorker
    BY LauncherAssumption DEF LauncherAssumption
  <2>3. /\ \A d \in Db : pending_workers'[d] = v => pending_workers[d] = v
        /\ \A d \in Db : v \in Active(d)' => v \in Active(d)
    BY <2>1, <2>2 DEF Absent, ctx
  <2>4. /\ proc'[v] = proc[v] /\ dbOf'[v] = dbOf[v] /\ mq'[v] = mq[v]
        /\ attached'[v] => attached[v] /\ proc'[v] = proc[v]
    BY <2>1
  <2> QED
    BY <2>1, <2>3, <2>4
<1>4. CASE Reaped \/ Drained \/ SendDetached \/ LauncherRestart \/ HandleForward \/ HandleDropped
  BY <1>4 DEF Reaped, Drained, SendDetached, LauncherRestart, HandleForward, HandleDropped, ctx,
              wvars
<1>5. CASE HandleExist
  <2>1. Head(bus).db \in Db
    BY <1>5, TakeType DEF HandleExist, TypeOK
  <2>2. UNCHANGED wvars /\ UNCHANGED bvars
    BY <1>5 DEF HandleExist, RegisterWorker
  <2>3. \A d \in Db : /\ pending_workers'[d] = v => pending_workers[d] = v
                      /\ v \in Active(d)' => v \in Active(d)
    <3> DEFINE e == Head(bus).db
    <3>1. CASE pending_workers[e] = NoWorker
      BY <1>5, <3>1 DEF HandleExist, RegisterWorker
    <3>2. CASE pending_workers[e] # NoWorker
      <4>1. /\ workers' = [workers EXCEPT ![e] = pending_workers[e]]
            /\ pending_workers' = [pending_workers EXCEPT ![e] = NoWorker]
        BY <1>5, <3>2 DEF HandleExist, RegisterWorker
      <4>2. v # NoWorker /\ e \in Db
        BY <2>1, LauncherAssumption DEF LauncherAssumption
      <4> HIDE DEF e
      <4> QED
        BY <4>1, <4>2 DEF TypeOK
    <3> QED
      BY <3>1, <3>2
  <2>4. /\ proc'[v] = proc[v] /\ dbOf'[v] = dbOf[v] /\ mq'[v] = mq[v]
        /\ attached'[v] => attached[v] /\ proc'[v] = proc[v]
    BY <2>2 DEF wvars
  <2> QED
    BY <2>2, <2>3, <2>4
<1>6. CASE HandleShutdown
  <2>1. Head(bus).db \in Db
    BY <1>6, TakeType DEF HandleShutdown, TypeOK
  <2> QED
    BY <1>6, <2>1, LauncherAssumption
    DEF HandleShutdown, ShutdownWorker, ctx, wvars, TypeOK, LauncherAssumption
<1>7. CASE HandleNewConfigStart
  <2>1. Head(bus).db \in Db
    BY <1>7, TakeType DEF HandleNewConfigStart, TypeOK
  <2> QED
    BY <1>1, <1>7, <2>1 DEF HandleNewConfigStart
<1>8. CASE SendDone
  BY <1>8 DEF SendDone, ctx, TypeOK
<1> QED
  BY <1>1, <1>2, <1>3, <1>4, <1>5, <1>6, <1>7, <1>8 DEF LauncherStep, Handle, wvars

LEMMA LauncherSteps ==
  /\ ForwardConfig => LauncherStep
  /\ OtherLauncherStep => LauncherStep
BY DEF ForwardConfig, OtherLauncherStep, LauncherStep, Handle

-----------------------------------------------------------------------------
(* The parts of the invariant about one worker.                            *)

LEMMA InitSettle == ConfigInit => SettleInv
<1> SUFFICES ASSUME ConfigInit PROVE SettleInv
  OBVIOUS
<1> USE DEF ConfigInit, Init
<1>1. EndedForgets /\ NotBefore
  BY DEF EndedForgets, NotBefore
<1>2. PendingFresh
  BY LauncherAssumption DEF PendingFresh, Absent, LauncherAssumption
<1>3. Statements
  BY DEF Statements
<1>4. \A x \in Nat : x <= x
  OBVIOUS
<1>5. CommittedPlaced
  BY <1>4 DEF CommittedPlaced, Placed, Older
<1>6. Fates
  <2>1. \A d \in Db : ~ IsConfigFor(sending, d) /\ \A w \in Worker : ~ IsConfigFor(mq[w], d)
    BY DEF IsConfigFor
  <2>2. \A w \in Worker : config[w] \notin Nat
    BY ConfigAssumption DEF ConfigAssumption
  <2> QED
    BY <2>1, <2>2 DEF Fates, Seen
<1>7. GivenAccounted
  BY LauncherAssumption DEF GivenAccounted, Active, Absent, LauncherAssumption
<1> QED
  BY <1>1, <1>2, <1>3, <1>5, <1>6, <1>7 DEF SettleInv

(* A process that has ended has forgotten its configuration.               *)
LEMMA NextEndedForgets ==
  ASSUME TypeOK, ConfigTypeOK, EndedForgets, [ConfigNext]_allvars
  PROVE  EndedForgets'
<1>1. CASE UNCHANGED <<proc, learned>>
  BY <1>1 DEF EndedForgets, Alive, learned
<1>2. CASE ForwardConfig \/ OtherLauncherStep
  <2>1. SUFFICES ASSUME NEW w \in Worker, ~ Alive(w)'
                 PROVE  /\ config'[w] = NotRead /\ fetched'[w] = NotRead
                        /\ forwarded'[w] = {} /\ refused'[w] = {}
    BY DEF EndedForgets
  <2>2. ~ Alive(w)
    BY <1>2, <2>1, LauncherSteps, LauncherFrame DEF Alive
  <2>3. /\ config'[w] = config[w] /\ fetched'[w] = fetched[w] /\ refused'[w] = refused[w]
        /\ forwarded'[w] = forwarded[w]
    BY <1>2, <2>2 DEF ForwardConfig, OtherLauncherStep, cvars, learned
  <2> QED
    BY <2>2, <2>3 DEF EndedForgets
<1>3. ASSUME NEW w \in Worker, WorkerConfigStep(w) PROVE EndedForgets'
  <2>1. \A v \in Worker \ {w} : SameWorker(v) /\ proc'[v] = proc[v]
    BY <1>3, WorkerFrame
  <2>2. ~ Alive(w)' => /\ config'[w] = NotRead /\ fetched'[w] = NotRead
                       /\ forwarded'[w] = {} /\ refused'[w] = {}
    <3>1. CASE EndConfig(w)
      BY <3>1 DEF EndConfig, ConfigTypeOK
    <3>2. CASE FetchConfig(w)
      BY <3>2 DEF FetchConfig, Alive, vars, wvars
    <3>3. CASE ReceiveConfig(w)
      BY <3>3 DEF ReceiveConfig, Receive, Alive
    <3>4. CASE ConnectFetched(w) \/ OtherWorkerStep(w)
      BY <3>4 DEF ConnectFetched, OtherWorkerStep, Connect, ConnectFails, CheckStatus, SendStatus,
                  EnterLoop, LeaveLoop, Moves, Alive, TypeOK
    <3> QED
      BY <1>3, <3>1, <3>2, <3>3, <3>4 DEF WorkerConfigStep
  <2> QED
    BY <2>1, <2>2 DEF EndedForgets, SameWorker, Alive
<1>4. ASSUME NEW b \in Backend, BackendConfigStep(b) PROVE EndedForgets'
  BY <1>1, <1>4, BackendFrame DEF wvars
<1>5. CASE OtherEnvironmentStep
  BY <1>1, <1>5, EnvironmentFrame DEF wvars, cvars
<1> QED
  BY <1>1, <1>2, <1>3, <1>4, <1>5 DEF ConfigNext, LauncherConfigStep, allvars, vars, wvars, cvars

(* A worker attaches when it connects, and gets messages while it serves.  *)
LEMMA NextNotBefore ==
  ASSUME TypeOK, ConfigTypeOK, NotBefore, [ConfigNext]_allvars
  PROVE  NotBefore'
<1>1. CASE UNCHANGED wvars
  BY <1>1 DEF NotBefore, wvars
<1>2. CASE LauncherStep
  <2>1. SUFFICES ASSUME NEW w \in Worker
                 PROVE  /\ attached'[w] => proc'[w] \notin {"launched", "checked", "connecting"}
                        /\ mq'[w] # NoMessage => proc'[w] = "serving"
    BY DEF NotBefore
  <2>2. attached'[w] => attached[w] /\ proc'[w] = proc[w]
    BY <1>2, LauncherFrame
  <2>3. CASE mq'[w] = mq[w]
    <3>1. mq[w] # NoMessage => Alive(w)
      BY DEF NotBefore, Alive
    <3> QED
      BY <1>2, <2>2, <2>3, <3>1, LauncherFrame DEF NotBefore
  <2>4. CASE mq'[w] # mq[w]
    <3>1. SendDone /\ w = Receiver
      BY <1>2, <2>4, LauncherFrame
    <3> QED
      BY <2>2, <3>1 DEF SendDone, NotBefore
  <2> QED
    BY <2>3, <2>4
<1>3. ASSUME NEW w \in Worker, WorkerConfigStep(w) PROVE NotBefore'
  <2>1. \A v \in Worker \ {w} :
          mq'[v] = mq[v] /\ proc'[v] = proc[v] /\ attached'[v] = attached[v]
    BY <1>3, WorkerFrame DEF SameWorker
  <2>2. /\ attached'[w] => proc'[w] \notin {"launched", "checked", "connecting"}
        /\ mq'[w] # NoMessage => proc'[w] = "serving"
    <3>1. CASE EndConfig(w)
      BY <3>1 DEF EndConfig, NeverStarts, Exit, WorkerCrash, Ends, TypeOK
    <3>2. CASE FetchConfig(w)
      BY <3>2 DEF FetchConfig, vars, wvars, NotBefore
    <3>3. CASE ReceiveConfig(w)
      BY <3>3 DEF ReceiveConfig, Receive, NotBefore, TypeOK
    <3>4. CASE Connect(w) \/ ConnectFails(w) \/ CheckStatus(w) \/ SendStatus(w) \/ EnterLoop(w)
      BY <3>4 DEF Connect, ConnectFails, CheckStatus, SendStatus, EnterLoop, Moves, Held, NotBefore,
                  TypeOK
    <3>5. CASE LeaveLoop(w)
      BY <3>5 DEF LeaveLoop, TypeOK
    <3> QED
      BY <1>3, <3>1, <3>2, <3>3, <3>4, <3>5 DEF WorkerConfigStep, ConnectFetched, OtherWorkerStep
  <2> QED
    BY <2>1, <2>2 DEF NotBefore
<1>4. ASSUME NEW b \in Backend, BackendConfigStep(b) PROVE NotBefore'
  BY <1>1, <1>4, BackendFrame
<1>5. CASE OtherEnvironmentStep
  BY <1>1, <1>5, EnvironmentFrame
<1> QED
  BY <1>1, <1>2, <1>3, <1>4, <1>5, LauncherSteps DEF ConfigNext, LauncherConfigStep, allvars, vars

(* A worker is sent nothing before it is registered. *)
LEMMA NextPendingFresh ==
  ASSUME TypeOK, ConfigTypeOK, IInv, EndedForgets, NotBefore, PendingFresh, [ConfigNext]_allvars
  PROVE  PendingFresh'
<1> USE LauncherAssumption DEF LauncherAssumption
<1>1. CASE UNCHANGED <<ctx, wvars, learned>>
  BY <1>1 DEF PendingFresh, ctx, wvars, learned
<1>2. CASE ForwardConfig \/ OtherLauncherStep
  <2>1. SUFFICES ASSUME NEW d \in Db, NEW w \in Worker, pending_workers'[d] = w
                 PROVE  forwarded'[w] = {} /\ config'[w] = fetched'[w] /\ mq'[w] = NoMessage
    BY DEF PendingFresh
  <2>2. pending_workers[d] = w \/ ~ Alive(w)
    BY <1>2, <2>1, LauncherSteps, LauncherFrame
  <2>3. forwarded[w] = {} /\ config[w] = fetched[w] /\ mq[w] = NoMessage
    BY <2>2 DEF PendingFresh, EndedForgets, NotBefore, Alive
  <2>4. config'[w] = config[w] /\ fetched'[w] = fetched[w]
    BY <1>2 DEF ForwardConfig, OtherLauncherStep, cvars, learned
  <2>5. CASE mq'[w] # mq[w]
    <3>1. SendDone /\ w = Receiver
      BY <1>2, <2>5, LauncherSteps, LauncherFrame
    <3>2. w = workers[sending.db] /\ sending.db \in Db /\ Alive(w) /\ pending_workers[d] = w
      BY <2>1, <3>1 DEF SendDone, Receiver, Alive, IInv, SendRegistered, Message, ctx
    <3> QED
      BY <3>2 DEF IInv, EntriesConsistent
  <2>6. forwarded'[w] = forwarded[w]
    <3>1. CASE ForwardConfig
      <4>1. Head(bus).db \in Db /\ pending_workers[d] = w
        BY <2>1, <3>1, TakeType DEF ForwardConfig, HandleForward, TypeOK, ctx
      <4>2. workers[Head(bus).db] # w
        BY <4>1 DEF IInv, EntriesConsistent
      <4> QED
        BY <3>1, <4>2 DEF ForwardConfig
    <3>2. CASE OtherLauncherStep
      BY <3>2 DEF OtherLauncherStep, cvars, learned
    <3> QED
      BY <1>2, <3>1, <3>2
  <2> QED
    BY <2>3, <2>4, <2>5, <2>6
<1>3. ASSUME NEW w \in Worker, WorkerConfigStep(w) PROVE PendingFresh'
  <2>1. /\ \A v \in Worker \ {w} : SameWorker(v)
        /\ pending_workers' = pending_workers
    BY <1>3, WorkerFrame DEF ctx
  <2>2. ASSUME NEW d \in Db, pending_workers[d] = w
        PROVE  forwarded'[w] = {} /\ config'[w] = fetched'[w] /\ mq'[w] = NoMessage
    <3>0. forwarded[w] = {} /\ config[w] = fetched[w] /\ mq[w] = NoMessage
      BY <2>2 DEF PendingFresh
    <3>1. CASE EndConfig(w)
      BY <3>1 DEF EndConfig, NeverStarts, Exit, WorkerCrash, Ends, TypeOK, ConfigTypeOK
    <3>2. CASE FetchConfig(w)
      BY <3>0, <3>2 DEF FetchConfig, vars, wvars, ConfigTypeOK
    <3>3. CASE ReceiveConfig(w)
      BY <3>0, <3>3 DEF ReceiveConfig, Receive
    <3>4. CASE ConnectFetched(w) \/ OtherWorkerStep(w)
      BY <3>0, <3>4
      DEF ConnectFetched, OtherWorkerStep, Connect, ConnectFails, CheckStatus, SendStatus,
          EnterLoop, LeaveLoop, cvars, learned, TypeOK
    <3> QED
      BY <1>3, <3>1, <3>2, <3>3, <3>4 DEF WorkerConfigStep
  <2> QED
    BY <2>1, <2>2 DEF PendingFresh, SameWorker
<1>4. ASSUME NEW b \in Backend, BackendConfigStep(b) PROVE PendingFresh'
  BY <1>1, <1>4, BackendFrame
<1>5. CASE OtherEnvironmentStep
  <2>1. UNCHANGED <<wvars, learned>> /\ (UNCHANGED ctx \/ pending_workers' = Absent)
    BY <1>5, EnvironmentFrame DEF cvars
  <2> QED
    BY <1>1, <2>1 DEF PendingFresh, Absent
<1> QED
  BY <1>1, <1>2, <1>3, <1>4, <1>5 DEF ConfigNext, LauncherConfigStep, allvars, vars, cvars

-----------------------------------------------------------------------------
(* The statements of the backends.                                         *)

LEMMA BusStepsOf ==
  ASSUME TypeOK, [ConfigNext]_allvars
  PROVE  KeepsBus \/ Takes \/ \E m \in Message : Posts(m)
BY StepOfLauncher, BusSteps

LEMMA SeqGrows == ASSUME TypeOK, [ConfigNext]_allvars PROVE seq' \in Nat /\ seq <= seq'
<1>1. \A x \in Nat : x <= x
  OBVIOUS
<1> QED
  BY <1>1, BusStepsOf DEF KeepsBus, Takes, Posts, TypeOK

(* The steps of launcher and workers touch no statement, and those of the  *)
(* environment only begin one.                                             *)
LEMMA StatementsFrame ==
  ASSUME TypeOK, ConfigTypeOK,
         \/ UNCHANGED allvars
         \/ LauncherConfigStep \/ OtherEnvironmentStep
         \/ \E w \in Worker : WorkerConfigStep(w)
  PROVE  /\ UNCHANGED <<options, rolledBack>>
         /\ \A c \in Backend : bpc'[c] = "committing" <=> bpc[c] = "committing"
         /\ \A c \in Backend : bpc[c] = "committing" => req'[c] = req[c]
<1>1. CASE UNCHANGED allvars
  BY <1>1 DEF allvars, vars, bvars, cvars
<1>2. CASE LauncherConfigStep
  <2>1. Worker = {} => UNCHANGED bvars
    BY <1>2 DEF LauncherConfigStep, ForwardConfig, OtherLauncherStep, HandleForward, Boot, Reap, Wake,
                Reaped, Drained, HandleExist, HandleShutdown, HandleNewConfigStart, HandleDropped,
                SendDone, SendDetached, LauncherRestart
  <2>2. UNCHANGED bvars
    BY <1>2, <2>1, LauncherSteps, LauncherFrame DEF LauncherConfigStep
  <2> QED
    BY <1>2, <2>2 DEF LauncherConfigStep, ForwardConfig, OtherLauncherStep, bvars, cvars
<1>3. CASE OtherEnvironmentStep
  BY <1>3, EnvironmentFrame DEF cvars
<1>4. CASE \E w \in Worker : WorkerConfigStep(w)
  BY <1>4, WorkerFrame DEF bvars
<1> QED
  BY <1>1, <1>2, <1>3, <1>4

(* In the next state number n of database d is placed, where d and n are   *)
(* expressions of this state or the next one.                              *)
StillPlaced(d, n) == \E e \in Db, k \in Nat : e = d /\ k = n /\ Placed(e, k)'

LEMMA PlacedNext ==
  /\ \A b \in Backend : StillPlaced(req'[b].db, ddl'[b]) => Placed(req[b].db, ddl[b])'
  /\ \A d \in Db : StillPlaced(d, committed'[d]) => Placed(d, committed[d])'
BY DEF StillPlaced, Placed, InLauncher, Older, IsConfigFor

(* A statement has the newest configuration of its server until another    *)
(* one commits, and then it cannot commit any more.                        *)
LEMMA NextStatements ==
  ASSUME TypeOK, ConfigTypeOK, BusOrdered, Statements, CommittedPlaced, [ConfigNext]_allvars
  PROVE  Statements' /\ CommittedPlaced'
<1>a. ASSUME NEW d \in Db, NEW n \in Nat, n <= seq, Placed(d, n)
      PROVE  n <= seq' /\ Placed(d, n)'
  <2>1. Placed(d, n)'
    BY <1>a, BusStepsOf, PlacedKept
  <2>2. seq \in Nat /\ seq' \in Nat /\ seq <= seq'
    BY SeqGrows DEF TypeOK
  <2> QED
    BY <1>a, <2>1, <2>2
<1>b. ASSUME NEW b \in Backend, bpc[b] = "committing"
       PROVE  /\ req[b].db \in Db /\ ddl[b] \in Nat /\ committed[req[b].db] \in Nat
              /\ req[b].type = "NewConfig" /\ ddl[b] <= seq' /\ StillPlaced(req[b].db, ddl[b])
  <2>1. req[b].db \in Db /\ ddl[b] \in Nat /\ committed[req[b].db] \in Nat
    BY <1>b DEF TypeOK, ConfigTypeOK, Message
  <2> QED
    BY <1>a, <1>b, <2>1 DEF Statements, StillPlaced
<1>c. \A d \in Db : committed[d] \in Nat /\ committed[d] <= seq' /\ StillPlaced(d, committed[d])
  BY <1>a DEF CommittedPlaced, ConfigTypeOK, StillPlaced
<1>1. ASSUME UNCHANGED committed PROVE CommittedPlaced'
  BY <1>1, <1>c, PlacedNext DEF CommittedPlaced
<1>2. CASE /\ UNCHANGED options
           /\ \A c \in Backend : bpc'[c] = "committing" <=> bpc[c] = "committing"
           /\ \A c \in Backend : bpc[c] = "committing" => req'[c] = req[c]
  <2>1. SUFFICES ASSUME NEW b \in Backend, bpc[b] = "committing"
                 PROVE  /\ req'[b].type = "NewConfig" /\ ddl'[b] <= seq'
                        /\ StillPlaced(req'[b].db, ddl'[b])
                        /\ ~ doomed'[b] => committed'[req'[b].db] < ddl'[b]
    BY <1>1, <1>2, PlacedNext DEF Statements, options
  <2>2. req'[b] = req[b] /\ ddl' = ddl /\ doomed' = doomed /\ committed' = committed
    BY <1>2, <2>1 DEF options
  <2>3. StillPlaced(req'[b].db, ddl'[b])
    BY <1>b, <2>1, <2>2
  <2> QED
    BY <1>b, <2>1, <2>2, <2>3 DEF Statements
<1>3. ASSUME NEW b \in Backend, TryConfig(b) PROVE Statements' /\ CommittedPlaced'
  <2>1. committed' = committed /\ doomed' = doomed /\ req' = req
    BY <1>3 DEF TryConfig, Try
  <2>2. CASE ~ BusFits \/ req[b].type # "NewConfig"
    <3>1. bpc'[b] # "committing" /\ \A c \in Backend \ {b} : bpc'[c] = bpc[c]
      BY <1>3, <2>2 DEF TryConfig, Try, TypeOK
    <3>2. UNCHANGED options
      BY <1>3, <3>1 DEF TryConfig, options
    <3>3. bpc[b] # "committing"
      BY <1>3 DEF TryConfig, Try
    <3> QED
      BY <1>2, <2>1, <3>1, <3>2, <3>3
  <2>3. CASE BusFits /\ req[b].type = "NewConfig"
    <3>1. /\ seq' = seq + 1 /\ ddl' = [ddl EXCEPT ![b] = seq + 1]
          /\ bpc' = [bpc EXCEPT ![b] = "committing"]
          /\ bus' = Append(bus, Msg("NewConfig", req[b].db, seq + 1))
      BY <1>3, <2>3 DEF TryConfig, Try, Post, TypeOK
    <3>2. Len(bus) + 1 \in 1 .. Len(bus')
          /\ bus'[Len(bus) + 1] = Msg("NewConfig", req[b].db, seq + 1)
      BY <3>1, AppendProperties DEF TypeOK
    <3>3. StillPlaced(req[b].db, seq + 1)
      <4>1. /\ Msg("NewConfig", req[b].db, seq + 1).n = seq + 1
            /\ IsConfigFor(Msg("NewConfig", req[b].db, seq + 1), req[b].db)
        BY DEF Msg, IsConfigFor, NoMessage
      <4>2. IsConfigFor(bus'[Len(bus) + 1], req[b].db) /\ bus'[Len(bus) + 1].n = seq + 1
        BY <3>2, <4>1
      <4>3. req[b].db \in Db /\ seq + 1 \in Nat
        BY <1>3 DEF TryConfig, Try, TypeOK, Message
      <4>4. \A e \in Db, k \in Nat :
              (\E i \in 1 .. Len(bus') : IsConfigFor(bus'[i], e) /\ bus'[i].n = k) => Placed(e, k)'
        BY DEF Placed, InLauncher, IsConfigFor
      <4> QED
        BY <3>2, <4>2, <4>3, <4>4 DEF StillPlaced
    <3>4. req[b].db \in Db /\ committed[req[b].db] < seq + 1 /\ seq + 1 <= seq'
      <4>1. req[b].db \in Db
        BY <1>3 DEF TryConfig, Try, TypeOK, Message
      <4>2. committed[req[b].db] \in Nat /\ committed[req[b].db] <= seq /\ seq \in Nat
        BY <4>1 DEF TypeOK, ConfigTypeOK, CommittedPlaced
      <4> QED
        BY <3>1, <4>1, <4>2
    <3>5. SUFFICES ASSUME NEW c \in Backend, bpc'[c] = "committing"
                   PROVE  /\ req[c].type = "NewConfig" /\ ddl'[c] <= seq'
                          /\ StillPlaced(req[c].db, ddl'[c])
                          /\ ~ doomed[c] => committed[req[c].db] < ddl'[c]
      BY <1>1, <2>1, PlacedNext DEF Statements
    <3>6. CASE c = b
      <4>1. ddl'[c] = seq + 1
        BY <3>1, <3>6 DEF ConfigTypeOK
      <4>2. StillPlaced(req[c].db, ddl'[c])
        BY <3>3, <3>6, <4>1, <2>1
      <4> QED
        BY <2>3, <3>4, <3>6, <4>1, <4>2
    <3>7. CASE c # b
      <4>1. ddl'[c] = ddl[c] /\ bpc[c] = "committing"
        BY <3>1, <3>5, <3>7 DEF ConfigTypeOK, TypeOK
      <4>2. StillPlaced(req[c].db, ddl'[c])
        BY <1>b, <4>1, <2>1
      <4> QED
        BY <1>b, <4>1, <4>2 DEF Statements
    <3> QED
      BY <3>6, <3>7
  <2> QED
    BY <2>2, <2>3
<1>4. ASSUME NEW b \in Backend, GiveUpConfig(b) \/ AbortConfig(b)
      PROVE  Statements' /\ CommittedPlaced'
  <2>1. /\ committed' = committed /\ req' = req /\ bpc' = [bpc EXCEPT ![b] = "idle"]
        /\ \A c \in Backend \ {b} : ddl'[c] = ddl[c] /\ doomed'[c] = doomed[c]
    BY <1>4 DEF GiveUpConfig, AbortConfig, GiveUp, Abort, ConfigTypeOK
  <2>2. SUFFICES ASSUME NEW c \in Backend, bpc'[c] = "committing"
                 PROVE  /\ req[c].type = "NewConfig" /\ ddl'[c] <= seq'
                        /\ StillPlaced(req[c].db, ddl'[c])
                        /\ ~ doomed'[c] => committed[req[c].db] < ddl'[c]
    BY <1>1, <2>1, PlacedNext DEF Statements
  <2>3. c # b /\ bpc[c] = "committing"
    BY <2>1, <2>2 DEF TypeOK
  <2>4. ddl'[c] = ddl[c] /\ doomed'[c] = doomed[c]
    BY <2>1, <2>3
  <2>5. StillPlaced(req[c].db, ddl'[c])
    BY <1>b, <2>1, <2>3, <2>4
  <2> QED
    BY <1>b, <2>3, <2>4, <2>5 DEF Statements
<1>5. ASSUME NEW b \in Backend, CommitConfig(b) PROVE Statements' /\ CommittedPlaced'
  <2>1. /\ bpc[b] = "committing" /\ req' = req /\ bpc' = [bpc EXCEPT ![b] = "idle"]
        /\ committed' = [committed EXCEPT ![req[b].db] = ddl[b]]
        /\ ddl' = [ddl EXCEPT ![b] = 0]
        /\ doomed' = [x \in Backend |-> doomed[x] \/ (x # b /\ Sets(x, req[b].db))]
    BY <1>5 DEF CommitConfig, Commit
  <2>2. ASSUME NEW d \in Db PROVE committed'[d] <= seq' /\ StillPlaced(d, committed'[d])
    <3>1. CASE d = req[b].db
      <4>1. committed'[d] = ddl[b]
        BY <2>1, <3>1 DEF ConfigTypeOK
      <4> QED
        BY <1>b, <2>1, <3>1, <4>1
    <3>2. CASE d # req[b].db
      <4>1. committed'[d] = committed[d]
        BY <2>1, <3>2 DEF ConfigTypeOK
      <4> QED
        BY <1>c, <4>1
    <3> QED
      BY <3>1, <3>2
  <2>3. SUFFICES ASSUME NEW c \in Backend, bpc'[c] = "committing"
                 PROVE  /\ req[c].type = "NewConfig" /\ ddl'[c] <= seq'
                        /\ StillPlaced(req[c].db, ddl'[c])
                        /\ ~ doomed'[c] => committed'[req[c].db] < ddl'[c]
    BY <2>1, <2>2, PlacedNext DEF Statements, CommittedPlaced
  <2>4. c # b /\ bpc[c] = "committing"
    BY <2>1, <2>3 DEF TypeOK
  <2>5. ddl'[c] = ddl[c] /\ req[c].type = "NewConfig"
    BY <1>b, <2>1, <2>4 DEF ConfigTypeOK
  <2>6. StillPlaced(req[c].db, ddl'[c])
    BY <1>b, <2>1, <2>4, <2>5
  <2>7. CASE req[c].db = req[b].db
    <3>1. doomed'[c]
      BY <2>1, <2>4, <2>5, <2>7 DEF Sets
    <3> QED
      BY <1>b, <2>4, <2>5, <2>6, <3>1
  <2>8. CASE req[c].db # req[b].db
    <3>1. committed'[req[c].db] = committed[req[c].db] /\ (doomed[c] => doomed'[c])
      BY <1>b, <2>1, <2>4, <2>8 DEF ConfigTypeOK
    <3> QED
      BY <1>b, <2>4, <2>5, <2>6, <3>1 DEF Statements
  <2> QED
    BY <2>7, <2>8
<1>6. CASE \/ UNCHANGED allvars
           \/ LauncherConfigStep \/ OtherEnvironmentStep
           \/ \E w \in Worker : WorkerConfigStep(w)
  BY <1>2, <1>6, StatementsFrame
<1> QED
  BY <1>3, <1>4, <1>5, <1>6 DEF ConfigNext, BackendConfigStep

-----------------------------------------------------------------------------
(* What becomes of the configurations.                                     *)

(* A configuration stays known when its transaction ends.                  *)
LEMMA KnownKept ==
  ASSUME TypeOK, ConfigTypeOK, Statements, [ConfigNext]_allvars,
         NEW d \in Db, NEW n \in Nat, Known(d, n)
  PROVE  Known(d, n)'
<1>1. CASE \/ UNCHANGED allvars
           \/ LauncherConfigStep \/ OtherEnvironmentStep
           \/ \E w \in Worker : WorkerConfigStep(w)
  <2>1. /\ UNCHANGED <<options, rolledBack>>
        /\ \A c \in Backend : bpc'[c] = "committing" <=> bpc[c] = "committing"
        /\ \A c \in Backend : bpc[c] = "committing" => req'[c] = req[c]
    BY <1>1, StatementsFrame
  <2> QED
    BY <2>1 DEF Known, options
<1>2. ASSUME NEW b \in Backend, TryConfig(b) \/ GiveUpConfig(b) PROVE Known(d, n)'
  <2>1. /\ committed' = committed /\ rolledBack' = rolledBack /\ req' = req
        /\ bpc[b] # "committing"
        /\ \A c \in Backend \ {b} : bpc'[c] = bpc[c] /\ ddl'[c] = ddl[c]
    BY <1>2 DEF TryConfig, GiveUpConfig, Try, GiveUp, TypeOK, ConfigTypeOK
  <2> QED
    BY <2>1 DEF Known
<1>3. ASSUME NEW b \in Backend, AbortConfig(b) PROVE Known(d, n)'
  <2>1. /\ committed' = committed /\ req' = req /\ rolledBack' = rolledBack \cup {ddl[b]}
        /\ \A c \in Backend \ {b} : bpc'[c] = bpc[c] /\ ddl'[c] = ddl[c]
    BY <1>3 DEF AbortConfig, Abort, TypeOK, ConfigTypeOK
  <2> QED
    BY <2>1 DEF Known
<1>4. ASSUME NEW b \in Backend, CommitConfig(b) PROVE Known(d, n)'
  <2>1. /\ bpc[b] = "committing" /\ req' = req /\ rolledBack' = rolledBack
        /\ \A c \in Backend \ {b} : bpc'[c] = bpc[c] /\ ddl'[c] = ddl[c]
        /\ committed' = [committed EXCEPT ![req[b].db] = ddl[b]] /\ ~ doomed[b]
    BY <1>4 DEF CommitConfig, Commit, TypeOK, ConfigTypeOK
  <2>2. /\ req[b].db \in Db /\ committed[req[b].db] < ddl[b] /\ ddl[b] \in Nat
        /\ committed[req[b].db] \in Nat
    BY <2>1 DEF Statements, TypeOK, ConfigTypeOK, Message
  <2>3. CASE d = req[b].db
    <3>1. committed'[d] = ddl[b]
      BY <2>1, <2>3 DEF ConfigTypeOK
    <3>2. CASE n <= committed[d]
      <4>1. n <= ddl[b]
        BY <2>2, <2>3, <3>2
      <4> QED
        BY <3>1, <4>1 DEF Known
    <3>3. CASE n = ddl[b]
      <4>1. n <= n
        OBVIOUS
      <4> QED
        BY <3>1, <3>3, <4>1 DEF Known
    <3> QED
      BY <2>1, <3>2, <3>3 DEF Known
  <2>4. CASE d # req[b].db
    <3>1. committed'[d] = committed[d]
      BY <2>1, <2>4 DEF ConfigTypeOK
    <3> QED
      BY <2>1, <2>4, <3>1 DEF Known
  <2> QED
    BY <2>3, <2>4
<1> QED
  BY <1>1, <1>2, <1>3, <1>4 DEF ConfigNext, BackendConfigStep

(* Handling the bus puts no configuration on it.                           *)
LEMMA LauncherNothingNew ==
  ASSUME TypeOK, LauncherStep
  PROVE  /\ NothingNew
         /\ sending' \in {sending, NoMessage} \/ (bus # <<>> /\ sending' = Head(bus))
<1>1. bus' = bus \/ (bus # <<>> /\ bus' = Tail(bus))
  BY DEF LauncherStep, Boot, Reap, Wake, Reaped, Drained, Handle, HandleExist, HandleShutdown,
         HandleForward, HandleNewConfigStart, HandleDropped, SendDone, SendDetached, LauncherRestart,
         Take
<1>2. sending' \in {sending, NoMessage} \/ (bus # <<>> /\ sending' = Head(bus))
  BY DEF LauncherStep, Boot, Reap, Wake, Reaped, Drained, Handle, HandleExist, HandleShutdown,
         HandleForward, HandleNewConfigStart, HandleDropped, SendDone, SendDetached, LauncherRestart,
         Take, lvars
<1>3. CASE bus # <<>> /\ bus' = Tail(bus)
  <2>1. /\ Len(bus) \in Nat /\ Len(bus') = Len(bus) - 1
        /\ \A i \in 1 .. Len(bus') : bus'[i] = bus[i + 1]
    BY <1>3, HeadTailProperties DEF TypeOK
  <2>2. \A i \in 1 .. Len(bus') : i + 1 \in 1 .. Len(bus)
    BY <2>1
  <2> QED
    BY <1>2, <2>1, <2>2 DEF NothingNew
<1> QED
  BY <1>1, <1>2, <1>3 DEF NothingNew

(* A worker takes its configuration from the catalog or from a message,    *)
(* and a message comes from a statement that has not ended.                *)
LEMMA NextFates ==
  ASSUME TypeOK, ConfigTypeOK, Routed, EndedForgets, Statements, Fates, [ConfigNext]_allvars
  PROVE  Fates'
<1>1. SUFFICES ASSUME NEW d \in Db, NEW n \in Nat, Seen(d, n)', ~ Seen(d, n)
               PROVE  Known(d, n)'
  BY KnownKept DEF Fates
<1>2. CASE UNCHANGED allvars
  BY <1>1, <1>2 DEF allvars, vars, lvars, wvars, cvars, learned, Seen, IsConfigFor
<1>3. CASE LauncherConfigStep
  <2>1. LauncherStep /\ config' = config
    BY <1>3, LauncherSteps
    DEF LauncherConfigStep, ForwardConfig, OtherLauncherStep, cvars, learned
  <2>2. ASSUME NEW i \in 1 .. Len(bus'), IsConfigFor(bus'[i], d), bus'[i].n = n PROVE FALSE
    BY <1>1, <2>1, <2>2, LauncherNothingNew DEF NothingNew, Seen, IsConfigFor
  <2>3. ASSUME IsConfigFor(sending', d), sending'.n = n PROVE FALSE
    <3>1. sending' # NoMessage
      BY <2>3 DEF IsConfigFor
    <3>2. CASE bus # <<>> /\ sending' = Head(bus)
      <4>1. 1 \in 1 .. Len(bus) /\ Head(bus) = bus[1]
        BY <3>2, HeadTailProperties DEF TypeOK
      <4> QED
        BY <1>1, <2>3, <3>2, <4>1 DEF Seen, IsConfigFor
    <3> QED
      BY <1>1, <2>1, <2>3, <3>1, <3>2, LauncherNothingNew DEF Seen, IsConfigFor
  <2>4. ASSUME NEW w \in Worker, IsConfigFor(mq'[w], d), mq'[w].n = n PROVE FALSE
    BY <1>1, <2>1, <2>4, LauncherFrame DEF Seen, IsConfigFor
  <2>5. ASSUME NEW w \in Worker, dbOf'[w] = d, config'[w] = n PROVE FALSE
    <3>1. Alive(w)
      BY <2>1, <2>5, ConfigAssumption DEF EndedForgets, ConfigAssumption
    <3> QED
      BY <1>1, <2>1, <2>5, <3>1, LauncherFrame DEF Seen
  <2> QED
    BY <1>1, <2>2, <2>3, <2>4, <2>5 DEF Seen, IsConfigFor
<1>4. ASSUME NEW w \in Worker, WorkerConfigStep(w) PROVE Known(d, n)'
  <2>1. /\ UNCHANGED <<lvars, dbOf, options>> /\ NothingNew
        /\ \A v \in Worker \ {w} : SameWorker(v)
    BY <1>4, WorkerFrame
  <2>2. ASSUME NEW i \in 1 .. Len(bus'), IsConfigFor(bus'[i], d), bus'[i].n = n PROVE FALSE
    BY <1>1, <2>1, <2>2 DEF NothingNew, Seen, IsConfigFor
  <2>3. ASSUME IsConfigFor(sending', d), sending'.n = n PROVE FALSE
    BY <1>1, <2>1, <2>3 DEF Seen, IsConfigFor, lvars
  <2>4. ASSUME NEW v \in Worker, IsConfigFor(mq'[v], d), mq'[v].n = n PROVE FALSE
    <3>1. v = w
      BY <1>1, <2>1, <2>4 DEF Seen, SameWorker, IsConfigFor
    <3>2. mq'[w] \in {mq[w], NoMessage}
      BY <1>4 DEF WorkerConfigStep, FetchConfig, ConnectFetched, ReceiveConfig, EndConfig,
                  OtherWorkerStep, NeverStarts, CheckStatus, SendStatus, Connect, ConnectFails,
                  EnterLoop, Receive, LeaveLoop, Exit, WorkerCrash, Ends, vars, wvars, TypeOK
    <3> QED
      BY <1>1, <2>4, <3>1, <3>2 DEF Seen, IsConfigFor
  <2>5. ASSUME NEW v \in Worker, dbOf'[v] = d, config'[v] = n PROVE Known(d, n)'
    <3>1. v = w /\ dbOf[w] = d /\ config'[w] = n /\ config[w] # n
      BY <1>1, <2>1, <2>5 DEF Seen, SameWorker
    <3>2. CASE FetchConfig(w)
      <4>1. n = InCatalog(d)
        BY <3>1, <3>2 DEF FetchConfig, ConfigTypeOK
      <4>2. n = committed[d] /\ committed' = committed
        BY <2>1, <4>1, ConfigAssumption DEF InCatalog, ConfigAssumption, options
      <4>3. n <= n
        OBVIOUS
      <4> QED
        BY <4>2, <4>3 DEF Known
    <3>3. CASE ReceiveConfig(w)
      <4>1. mq[w].type = "NewConfig" /\ mq[w].n = n /\ mq[w] # NoMessage
        BY <3>1, <3>3 DEF ReceiveConfig, Receive, ApplyConfig, ConfigTypeOK
      <4>2. ~ IsConfigFor(mq[w], d)
        BY <1>1, <4>1 DEF Seen
      <4> QED
        BY <1>1, <3>1, <4>1, <4>2 DEF IsConfigFor, Routed
    <3>4. CASE EndConfig(w)
      BY <3>1, <3>4, ConfigAssumption DEF EndConfig, ConfigTypeOK, ConfigAssumption
    <3>5. CASE ConnectFetched(w) \/ OtherWorkerStep(w)
      BY <3>1, <3>5 DEF ConnectFetched, OtherWorkerStep, cvars, learned
    <3> QED
      BY <1>4, <3>2, <3>3, <3>4, <3>5 DEF WorkerConfigStep
  <2> QED
    BY <1>1, <2>2, <2>3, <2>4, <2>5 DEF Seen, IsConfigFor
<1>5. ASSUME NEW b \in Backend, BackendConfigStep(b) PROVE Known(d, n)'
  <2>1. UNCHANGED <<sending, mq, dbOf, config>>
    BY <1>5, BackendFrame DEF lvars, wvars, learned
  <2>2. PICK i \in 1 .. Len(bus') : IsConfigFor(bus'[i], d) /\ bus'[i].n = n
    BY <1>1, <2>1 DEF Seen, IsConfigFor
  <2>3. bus' # bus
    BY <1>1, <2>2 DEF Seen, IsConfigFor
  <2>4. /\ TryConfig(b) /\ BusFits
        /\ bus' = Append(bus, Msg(req[b].type, req[b].db, seq + 1))
    BY <1>5, <2>3 DEF BackendConfigStep, TryConfig, GiveUpConfig, CommitConfig, AbortConfig, Try,
                      GiveUp, Commit, Abort, Post
  <2>5. bus'[i] = Msg(req[b].type, req[b].db, seq + 1)
    <3>1. req[b] \in Message /\ seq + 1 \in Nat
      BY <2>4 DEF TryConfig, Try, TypeOK
    <3>2. req[b].type \in MessageType /\ req[b].db \in Db
      BY <3>1 DEF Message
    <3>3. Msg(req[b].type, req[b].db, seq + 1) \in Message
      BY <3>1, <3>2, MsgType
    <3>4. i \in 1 .. Len(bus) => bus'[i] = bus[i]
      BY <2>4, <3>3, AppendProperties DEF TypeOK
    <3>5. i \notin 1 .. Len(bus)
      BY <1>1, <2>2, <3>4 DEF Seen, IsConfigFor
    <3> QED
      BY <2>4, <3>3, <3>5, AppendProperties DEF TypeOK
  <2>6. req[b].type = "NewConfig" /\ req[b].db = d /\ seq + 1 = n
    BY <2>2, <2>5 DEF IsConfigFor, Msg
  <2>7. bpc'[b] = "committing" /\ req' = req /\ ddl'[b] = n
    BY <2>4, <2>6 DEF TryConfig, Try, TypeOK, ConfigTypeOK
  <2> QED
    BY <2>6, <2>7 DEF Known
<1>6. CASE OtherEnvironmentStep
  <2>1. /\ UNCHANGED <<bus, mq, dbOf, config>> /\ (sending' # sending => sending' = NoMessage)
    BY <1>6, EnvironmentFrame DEF wvars, cvars, learned
  <2> QED
    BY <1>1, <2>1 DEF Seen, IsConfigFor
<1> QED
  BY <1>2, <1>3, <1>4, <1>5, <1>6 DEF ConfigNext

-----------------------------------------------------------------------------
(* What becomes of what a worker was given.                                *)

LEMMA GivenType ==
  ASSUME ConfigTypeOK, NEW w \in Worker
  PROVE  Given(w) \subseteq Nat
BY DEF ConfigTypeOK, Given

(* A worker that the step leaves alone, and whose messages the launcher    *)
(* keeps.                                                                  *)
LEMMA AccountedKept ==
  ASSUME TypeOK, NEW w \in Worker, NEW n \in Nat, Accounted(w, n), SameWorker(w),
         \A d \in Db : d = dbOf[w] => Carries(d)
  PROVE  Accounted(w, n)'
<1>1. PICK d \in Db : d = dbOf[w]
  BY DEF TypeOK
<1>2. KeepsBus \/ Takes \/ \E m \in Message : Posts(m)
  BY <1>1 DEF Carries, Quiet
<1>3. CASE InLauncher(d, n)
  <2>1. InLauncher(d, n)'
    BY <1>1, <1>3, LauncherKeeps
  <2> QED
    BY <1>1, <2>1 DEF SameWorker, Accounted, Coming, InLauncher, IsConfigFor
<1>4. CASE Past(w, n)
  <2>1. Older(n)'
    BY <1>2, <1>4, OlderKept DEF Past
  <2> QED
    BY <1>4, <2>1 DEF SameWorker, Accounted, Past
<1>5. CASE IsConfigFor(mq[w], d) /\ mq[w].n = n
  BY <1>1, <1>5 DEF SameWorker, Accounted, Coming, IsConfigFor
<1>6. CASE n \in refused[w]
  BY <1>6 DEF SameWorker, Accounted
<1> QED
  BY <1>1, <1>3, <1>4, <1>5, <1>6 DEF Accounted, Coming, InLauncher

(* The launcher's steps. *)
LEMMA LauncherAccounts ==
  ASSUME IInv, ConfigTypeOK, BusOrdered, SettleInv, LauncherConfigStep
  PROVE  GivenAccounted'
<1> USE LauncherAssumption DEF LauncherAssumption
<1>0. TypeOK /\ LauncherStep
  BY LauncherSteps DEF IInv, LauncherConfigStep
<1>1. SUFFICES ASSUME NEW d \in Db, NEW w \in Worker, w \in Active(d)', proc'[w] # "exiting",
                      NEW n, n \in Given(w)'
               PROVE  Accounted(w, n)'
  BY DEF GivenAccounted
<1>2. config'[w] = config[w] /\ fetched'[w] = fetched[w] /\ refused'[w] = refused[w]
  BY DEF LauncherConfigStep, ForwardConfig, OtherLauncherStep, cvars, learned
<1>3. CASE ~ Alive(w)
  <2>1. forwarded'[w] = forwarded[w]
    BY <1>3 DEF LauncherConfigStep, ForwardConfig, OtherLauncherStep, cvars, learned
  <2> QED
    BY <1>1, <1>2, <1>3, <2>1, ConfigAssumption
    DEF Given, SettleInv, EndedForgets, ConfigAssumption
<1>4. CASE Alive(w)
  <2>1. w \in Active(d) /\ proc[w] # "exiting" /\ dbOf'[w] = dbOf[w] /\ dbOf[w] = d
    <3>1. w \in Active(d) /\ proc'[w] = proc[w] /\ dbOf'[w] = dbOf[w]
      BY <1>0, <1>1, <1>4, LauncherFrame
    <3> QED
      BY <1>1, <3>1 DEF IInv, EntriesConsistent, Active
  <2>2. CASE n \notin Given(w)
    <3>1. /\ ForwardConfig /\ w = workers[Head(bus).db] /\ Head(bus).type = "NewConfig"
          /\ n = Head(bus).n
      BY <1>1, <1>2, <2>2
      DEF Given, LauncherConfigStep, ForwardConfig, OtherLauncherStep, cvars, learned
    <3>2. Head(bus).db \in Db /\ Head(bus) \in Message
      BY <1>0, <3>1, TakeType DEF ForwardConfig, HandleForward, TypeOK
    <3>3. Head(bus).db = d
      BY <2>1, <3>1, <3>2 DEF IInv, EntriesConsistent
    <3>4. lpc' = "send" /\ sending' = Head(bus)
      BY <3>1 DEF ForwardConfig, HandleForward
    <3>5. IsConfigFor(Head(bus), d)
      <4>1. Head(bus) # NoMessage
        BY <3>1 DEF NoMessage
      <4> QED
        BY <3>1, <3>3, <4>1 DEF IsConfigFor
    <3> QED
      BY <2>1, <3>1, <3>4, <3>5 DEF Accounted, Coming, InLauncher, IsConfigFor
  <2>3. CASE n \in Given(w)
    <3>1. n \in Nat /\ Accounted(w, n)
      BY <2>1, <2>3, GivenType DEF SettleInv, GivenAccounted
    <3>2. ASSUME forwarded'[w] = forwarded[w], mq'[w] = mq[w], Carries(d)
          PROVE  Accounted(w, n)'
      <4>1. SameWorker(w)
        BY <1>2, <2>1, <3>2 DEF SameWorker
      <4>2. \A e \in Db : e = dbOf[w] => Carries(e)
        BY <2>1, <3>2
      <4> QED
        BY <1>0, <3>1, <4>1, <4>2, AccountedKept
    <3>3. CASE ForwardConfig
      <4>1. HandleForward /\ Takes /\ lpc' = "send" /\ mq' = mq
        BY <3>3 DEF ForwardConfig, HandleForward, Take, Takes, Numbered, bvars, wvars
      <4>2. CASE forwarded'[w] = forwarded[w]
        BY <3>2, <4>1, <4>2 DEF Carries
      <4>3. InLauncher(d, n) => InLauncher(d, n)'
        BY <1>0, <3>1, <4>1, LauncherKeeps DEF Carries
      <4>4. Older(n) => Older(n)'
        BY <1>0, <3>1, <4>1, OlderKept
      <4> QED
        BY <1>2, <2>1, <3>1, <4>1, <4>3, <4>4
        DEF Accounted, Coming, Past, InLauncher, IsConfigFor
    <3>4. CASE OtherLauncherStep
      <4>0. forwarded'[w] = forwarded[w]
        BY <3>4 DEF OtherLauncherStep, cvars, learned
      <4>1. CASE \/ \E e \in Db : Boot(e) \/ Reap(e)
                 \/ Wake \/ Reaped \/ Drained \/ LauncherRestart
        <5>1. KeepsBus /\ (lpc = "send" => lpc' = "send")
          BY <4>1 DEF Boot, Reap, Wake, Reaped, Drained, LauncherRestart, KeepsBus, lvars, bvars
        <5>2. mq'[w] = mq[w]
          BY <4>1 DEF Boot, StartWorker, Reap, Wake, Reaped, Drained, LauncherRestart, wvars
        <5> QED
          BY <3>2, <4>0, <5>1, <5>2 DEF Carries, Quiet
      <4>2. CASE HandleExist \/ HandleShutdown \/ HandleNewConfigStart
        <5>1. Takes
          BY <4>2 DEF HandleExist, HandleShutdown, HandleNewConfigStart, Take, Takes, lvars, bvars
        <5>2. mq'[w] = mq[w]
          BY <4>2 DEF HandleExist, RegisterWorker, HandleShutdown, ShutdownWorker,
                      HandleNewConfigStart, StartWorker, wvars
        <5>3. ~ IsConfigFor(Head(bus), d)
          BY <2>1, <4>2 DEF HandleExist, HandleShutdown, HandleNewConfigStart, Take, IsConfigFor,
                            Active
        <5> QED
          BY <3>2, <4>0, <5>1, <5>2, <5>3 DEF Carries
      <4>3. CASE HandleDropped
        <5>1. Takes /\ mq'[w] = mq[w]
          BY <4>3 DEF HandleDropped, Take, Takes, lvars, bvars, wvars
        <5>2. CASE ~ IsConfigFor(Head(bus), d)
          BY <3>2, <4>0, <5>1, <5>2 DEF Carries
        <5>3. CASE IsConfigFor(Head(bus), d)
          <6>1. pending_workers[d] = w
            BY <2>1, <4>3, <5>3 DEF HandleDropped, IsConfigFor, Active
          <6>2. forwarded[w] = {} /\ config[w] = fetched[w] /\ mq[w] = NoMessage
            BY <6>1 DEF SettleInv, PendingFresh
          <6>3. config[w] = n /\ n <= n
            BY <2>3, <3>1, <6>2 DEF Given
          <6>4. Placed(d, n) => Placed(d, n)'
            BY <1>0, <3>1, <5>1, PlacedKept
          <6>5. InLauncher(d, n)' => Coming(w, n)'
            BY <2>1 DEF Coming, InLauncher, IsConfigFor
          <6>6. Older(n)' => Past(w, n)'
            BY <1>2, <3>1, <5>1, <6>2, <6>3 DEF Past
          <6>7. Placed(d, n) \/ n \in refused[w]
            BY <2>1, <3>1, <6>2 DEF Accounted, Coming, Past, Placed, InLauncher, IsConfigFor
          <6> QED
            BY <1>2, <6>4, <6>5, <6>6, <6>7 DEF Accounted, Placed
        <5> QED
          BY <5>2, <5>3
      <4>4. CASE SendDone \/ SendDetached
        <5>1. /\ lpc = "send" /\ bus' = bus /\ KeepsBus
              /\ sending \in Message /\ sending.db \in Db /\ Receiver # NoWorker
          BY <4>4 DEF SendDone, SendDetached, KeepsBus, IInv, SendRegistered, Message, bvars
        <5>2. sending.db = d => w = Receiver
          BY <2>1, <5>1 DEF IInv, OneActive, Active, Receiver
        <5>3. w = Receiver => sending.db = d
          BY <2>1, <5>1 DEF IInv, EntriesConsistent, Receiver
        <5>4. Older(n) => Older(n)'
          BY <1>0, <3>1, <5>1, OlderKept
        <5>5. ASSUME NEW i \in 1 .. Len(bus), IsConfigFor(bus[i], d), bus[i].n = n
              PROVE  Accounted(w, n)'
          BY <2>1, <5>1, <5>5 DEF Accounted, Coming, InLauncher, IsConfigFor
        <5>6. CASE SendDone /\ w = Receiver
          <6>1. mq'[w] = sending /\ mq[w] = NoMessage
            BY <1>0, <5>6 DEF SendDone, TypeOK
          <6>2. Past(w, n) => Past(w, n)'
            BY <1>2, <5>1, <5>4, <6>1 DEF Past, Older
          <6>3. IsConfigFor(sending, d) /\ sending.n = n => Coming(w, n)'
            BY <2>1, <6>1 DEF Coming, IsConfigFor
          <6> QED
            BY <1>2, <2>1, <3>1, <5>5, <6>1, <6>2, <6>3
            DEF Accounted, Coming, InLauncher, IsConfigFor
        <5>7. CASE w # Receiver \/ SendDetached
          <6>1. mq'[w] = mq[w]
            BY <1>0, <4>4, <5>7, LauncherFrame DEF SendDetached, wvars
          <6>2. w # Receiver
            BY <1>4, <2>1, <5>7 DEF SendDetached, SettleInv, NotBefore, Alive, TypeOK, ProcState,
                                    IInv
          <6>3. ~ IsConfigFor(sending, d)
            BY <5>2, <6>2 DEF IsConfigFor
          <6>4. Past(w, n) => Past(w, n)'
            BY <1>2, <5>4, <6>1 DEF Past
          <6>5. IsConfigFor(mq[w], d) /\ mq[w].n = n => Coming(w, n)'
            BY <2>1, <6>1 DEF Coming, IsConfigFor
          <6> QED
            BY <1>2, <2>1, <3>1, <5>5, <6>3, <6>4, <6>5
            DEF Accounted, Coming, InLauncher, IsConfigFor
        <5> QED
          BY <4>4, <5>6, <5>7
      <4> QED
        BY <3>4, <4>1, <4>2, <4>3, <4>4 DEF OtherLauncherStep
    <3> QED
      BY <3>3, <3>4 DEF LauncherConfigStep
  <2> QED
    BY <2>2, <2>3
<1> QED
  BY <1>3, <1>4

(* The steps of the workers: a configuration that is applied is newer than *)
(* all a worker was given and that is past.                                *)
LEMMA WorkerAccounts ==
  ASSUME IInv, ConfigTypeOK, BusOrdered, SettleInv, NEW w \in Worker, WorkerConfigStep(w)
  PROVE  GivenAccounted'
<1> USE LauncherAssumption DEF LauncherAssumption
<1>0. TypeOK
  BY DEF IInv
<1>1. SUFFICES ASSUME NEW d \in Db, NEW v \in Worker, v \in Active(d)', proc'[v] # "exiting",
                      NEW n, n \in Given(v)'
               PROVE  Accounted(v, n)'
  BY DEF GivenAccounted
<1>2. /\ UNCHANGED <<lvars, ctx, dbOf, bvars, options>> /\ Quiet
      /\ \A x \in Worker \ {w} : SameWorker(x) /\ proc'[x] = proc[x]
  BY <1>0, WorkerFrame
<1>3. v \in Active(d) /\ dbOf[v] = d /\ dbOf'[v] = d
  <2>1. v \in Active(d)
    BY <1>1, <1>2 DEF Active, ctx
  <2> QED
    BY <1>2, <2>1 DEF IInv, EntriesConsistent, Active
<1>4. ASSUME SameWorker(v), n \in Given(v), proc[v] # "exiting" PROVE Accounted(v, n)'
  <2>1. n \in Nat /\ Accounted(v, n)
    BY <1>3, <1>4, GivenType DEF SettleInv, GivenAccounted
  <2> QED
    BY <1>0, <1>2, <1>4, <2>1, AccountedKept DEF Carries
<1>5. ASSUME SameWorker(v) PROVE n \in Given(v)
  BY <1>1, <1>5 DEF SameWorker, Given
<1>6. CASE v # w
  BY <1>1, <1>2, <1>4, <1>5, <1>6
<1>7. CASE v = w
  <2>1. CASE FetchConfig(w)
    <3>1. /\ UNCHANGED vars /\ forwarded'[w] = forwarded[w] /\ refused'[w] = refused[w]
          /\ config'[w] = InCatalog(d) /\ fetched'[w] = InCatalog(d)
          /\ proc[w] = "connecting" /\ config[w] = NotRead
      BY <1>3, <1>7, <2>1 DEF FetchConfig, ConfigTypeOK
    <3>2. mq[w] = NoMessage /\ proc[w] # "exiting"
      BY <3>1 DEF SettleInv, NotBefore
    <3>3. CASE n \in forwarded[w]
      <4>1. n \in Nat /\ Accounted(w, n)
        BY <1>3, <1>7, <3>2, <3>3, GivenType DEF SettleInv, GivenAccounted, Given
      <4>2. ~ Past(w, n)
        BY <3>1, ConfigAssumption DEF Past, ConfigAssumption
      <4> QED
        BY <1>7, <3>1, <4>1, <4>2
        DEF Accounted, Coming, InLauncher, IsConfigFor, vars, lvars, wvars
    <3>4. CASE n \notin forwarded[w]
      <4>1. n \in Nat /\ n = InCatalog(d)
        BY <1>1, <1>7, <3>1, <3>4 DEF Given
      <4>2. n = committed[d] /\ n <= n
        BY <4>1, ConfigAssumption DEF InCatalog, ConfigAssumption
      <4>3. InLauncher(d, n) \/ Older(n)
        BY <4>2 DEF SettleInv, CommittedPlaced, Placed
      <4>4. CASE InLauncher(d, n)
        BY <1>3, <1>7, <3>1, <4>4
        DEF Accounted, Coming, InLauncher, IsConfigFor, vars, lvars
      <4>5. CASE Older(n)
        <5>1. Older(n)' /\ mq'[w] = NoMessage
          BY <3>1, <3>2, <4>5 DEF Older, vars, lvars, wvars, bvars
        <5> QED
          BY <1>7, <3>1, <4>1, <4>2, <5>1 DEF Accounted, Past
      <4> QED
        BY <4>3, <4>4, <4>5
    <3> QED
      BY <3>3, <3>4
  <2>2. CASE ReceiveConfig(w)
    <3>1. /\ UNCHANGED <<bus, lpc, sending, seq, proc, dbOf>>
          /\ forwarded' = forwarded /\ fetched' = fetched
          /\ proc[w] = "serving" /\ mq[w] # NoMessage /\ mq'[w] = NoMessage
      BY <1>0, <2>2 DEF ReceiveConfig, Receive, lvars, bvars, TypeOK
    <3>2. n \in Given(w) /\ n \in Nat /\ Accounted(w, n)
      BY <1>1, <1>3, <1>7, <3>1, GivenType DEF SettleInv, GivenAccounted, Given
    <3>3. mq[w].n \in Nat /\ Older(mq[w].n)
      BY <1>0, <3>1 DEF BusOrdered, TypeOK, Message
    <3>4. \A k : Older(k)' <=> Older(k)
      BY <3>1 DEF Older
    <3>5. InLauncher(d, n) => Coming(w, n)'
      BY <1>3, <1>7, <3>1 DEF Coming, InLauncher, IsConfigFor
    <3>6. CASE config' = config /\ refused' = refused /\ mq[w].type # "NewConfig"
      BY <1>3, <1>7, <3>1, <3>2, <3>4, <3>5, <3>6 DEF Accounted, Coming, Past, IsConfigFor
    <3>7. CASE mq[w].type = "NewConfig" /\ config' = config
               /\ refused'[w] = refused[w] \cup {mq[w].n}
      BY <1>3, <1>7, <3>1, <3>2, <3>4, <3>5, <3>7 DEF Accounted, Coming, Past, IsConfigFor
    <3>8. CASE config'[w] = mq[w].n /\ refused'[w] = refused[w]
      <4>1. CASE mq[w].n = n
        <5>1. n <= n
          BY <3>2
        <5> QED
          BY <1>7, <3>1, <3>2, <3>3, <3>4, <3>8, <4>1, <5>1 DEF Accounted, Past
      <4>2. CASE Past(w, n)
        <5>1. n < mq[w].n /\ Older(n)
          BY <3>1, <4>2 DEF Past
        <5>2. n <= mq[w].n
          BY <3>2, <3>3, <5>1
        <5> QED
          BY <1>7, <3>1, <3>3, <3>4, <3>8, <5>1, <5>2 DEF Accounted, Past
      <4> QED
        BY <1>3, <1>7, <3>2, <3>5, <3>8, <4>1, <4>2 DEF Accounted, Coming
    <3> QED
      BY <2>2, <3>6, <3>7, <3>8 DEF ReceiveConfig, ApplyConfig, ConfigTypeOK
  <2>3. CASE EndConfig(w)
    BY <1>1, <1>7, <2>3, ConfigAssumption DEF EndConfig, ConfigTypeOK, Given, ConfigAssumption
  <2>4. CASE ConnectFetched(w) \/ OtherWorkerStep(w)
    <3>1. learned' = learned
      BY <2>4 DEF ConnectFetched, OtherWorkerStep, cvars
    <3>2. mq'[w] = mq[w] /\ proc[w] # "exiting"
      BY <1>0, <1>1, <1>7, <2>4
      DEF ConnectFetched, OtherWorkerStep, Connect, ConnectFails, CheckStatus, SendStatus, EnterLoop,
          LeaveLoop, Moves, TypeOK
    <3>3. SameWorker(w)
      BY <1>3, <1>7, <3>1, <3>2 DEF SameWorker, learned
    <3> QED
      BY <1>4, <1>5, <1>7, <3>2, <3>3
  <2> QED
    BY <2>1, <2>2, <2>3, <2>4 DEF WorkerConfigStep
<1> QED
  BY <1>6, <1>7

(* The other steps do not touch the workers. *)
LEMMA OthersAccount ==
  ASSUME IInv, ConfigTypeOK, BusOrdered, SettleInv,
         \/ UNCHANGED allvars
         \/ OtherEnvironmentStep
         \/ \E b \in Backend : BackendConfigStep(b)
  PROVE  GivenAccounted'
<1> USE LauncherAssumption DEF LauncherAssumption
<1>0. TypeOK
  BY DEF IInv
<1>1. UNCHANGED <<wvars, learned>>
  BY <1>0, BackendFrame, EnvironmentFrame DEF allvars, vars, cvars
<1>2. \/ UNCHANGED ctx /\ Quiet
      \/ pending_workers' = Absent /\ workers' = Absent
  <2>1. CASE UNCHANGED allvars
    BY <2>1 DEF allvars, vars, Quiet, KeepsBus, lvars, bvars
  <2> QED
    BY <1>0, <2>1, BackendFrame, EnvironmentFrame
<1>3. SUFFICES ASSUME NEW d \in Db, NEW w \in Worker, w \in Active(d)', proc'[w] # "exiting",
                      NEW n, n \in Given(w)'
               PROVE  Accounted(w, n)'
  BY DEF GivenAccounted
<1>4. UNCHANGED ctx /\ Quiet
  BY <1>2, <1>3 DEF Active, Absent
<1>5. w \in Active(d) /\ proc[w] # "exiting" /\ n \in Given(w) /\ SameWorker(w)
  BY <1>1, <1>3, <1>4 DEF Active, Given, SameWorker, ctx, wvars, learned
<1>6. n \in Nat /\ Accounted(w, n)
  BY <1>5, GivenType DEF SettleInv, GivenAccounted
<1> QED
  BY <1>0, <1>4, <1>5, <1>6, AccountedKept DEF Carries

LEMMA NextSettle ==
  ASSUME IInv, ConfigTypeOK, BusOrdered, SettleInv, [ConfigNext]_allvars
  PROVE  SettleInv'
<1>1. TypeOK /\ Routed
  BY DEF IInv
<1>2. EndedForgets' /\ NotBefore' /\ PendingFresh'
  BY <1>1, NextEndedForgets, NextNotBefore, NextPendingFresh DEF SettleInv
<1>3. Statements' /\ CommittedPlaced' /\ Fates'
  BY <1>1, NextStatements, NextFates DEF SettleInv
<1>4. GivenAccounted'
  BY LauncherAccounts, WorkerAccounts, OthersAccount DEF ConfigNext
<1> QED
  BY <1>2, <1>3, <1>4 DEF SettleInv

(* Once statements and messages have settled, a worker runs with the       *)
(* committed options of its server, or one of the three exceptions applies:*)
(* it has those of a transaction that failed, it could not reach the       *)
(* server, or the commit came between its look at the catalog and its      *)
(* registration.  There is no fourth way, for any number of backends with  *)
(* overlapping statements, of workers that end and are replaced, and for   *)
(* any faults.                                                             *)
THEOREM ConfigurationSettles == ConfigSpec => []ConfigSettles
<1>1. ConfigInit => IInv /\ ConfigTypeOK /\ OrderInv /\ SettleInv
  BY InitIInv, InitOrder, InitConfigType, InitSettle DEF ConfigInit
<1>2. /\ IInv /\ ConfigTypeOK /\ OrderInv /\ SettleInv /\ [ConfigNext]_allvars
        => (IInv /\ ConfigTypeOK /\ OrderInv /\ SettleInv)'
  <2>1. SUFFICES ASSUME IInv, ConfigTypeOK, OrderInv, SettleInv, [ConfigNext]_allvars
                 PROVE  IInv' /\ ConfigTypeOK' /\ OrderInv' /\ SettleInv'
    OBVIOUS
  <2>2. [Next]_vars /\ TypeOK /\ BusOrdered
    BY <2>1, StepOfLauncher DEF IInv, OrderInv
  <2>3. IInv' /\ ConfigTypeOK' /\ SettleInv'
    BY <2>1, <2>2, NextIInv, NextConfigType, NextSettle
  <2>4. OrderInv'
    BY <2>1, <2>2, NextOrdered, NextNotYetServing, NextDelivered DEF OrderInv
  <2> QED
    BY <2>3, <2>4
<1>3. IInv /\ ConfigTypeOK /\ SettleInv => ConfigSettles
  <2>1. SUFFICES ASSUME IInv, ConfigTypeOK, SettleInv, NEW d \in Db, NEW w \in Worker,
                        Settled(d), workers[d] = w, proc[w] = "serving", ~ CameBetween(w, d)
                 PROVE  \/ config[w] = committed[d] \/ config[w] \in rolledBack
                        \/ committed[d] \in refused[w]
    BY DEF ConfigSettles
  <2>2. dbOf[w] = d /\ TypeOK /\ committed[d] \in Nat
    BY <2>1 DEF IInv, EntriesConsistent, ConfigTypeOK
  <2>3. committed[d] \in Given(w)
    BY <2>1, <2>2 DEF CameBetween, Given
  <2>4. Accounted(w, committed[d])
    BY <2>1, <2>3 DEF SettleInv, GivenAccounted, Active
  <2>5. ~ Coming(w, committed[d])
    BY <2>1, <2>2 DEF Coming, InLauncher, Settled, TypeOK
  <2>6. CASE Past(w, committed[d])
    <3>1. config[w] \in Nat /\ committed[d] <= config[w]
      BY <2>6 DEF Past
    <3>2. Known(d, config[w])
      BY <2>1, <2>2, <3>1 DEF SettleInv, Fates, Seen
    <3>3. \A b \in Backend : ~ (bpc[b] = "committing" /\ req[b].db = d)
      BY <2>1 DEF Settled, Sets, SettleInv, Statements
    <3>4. config[w] <= committed[d] => config[w] = committed[d]
      BY <2>2, <3>1
    <3> QED
      BY <3>2, <3>3, <3>4 DEF Known
  <2> QED
    BY <2>4, <2>5, <2>6 DEF Accounted
<1> QED
  BY <1>1, <1>2, <1>3, PTL DEF ConfigSpec
=============================================================================
