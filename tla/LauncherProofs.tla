--------------------------- MODULE LauncherProofs ---------------------------
(***************************************************************************)
(* Proofs about Launcher for any databases, worker slots, backends, bounds *)
(* and faults.                                                             *)
(***************************************************************************)
EXTENDS Launcher, SequenceTheorems, TLAPS

-----------------------------------------------------------------------------
(* Type correctness.                                                       *)

(* A message built from a type, a database and a number is a message.      *)
LEMMA MsgType ==
  ASSUME NEW type \in MessageType, NEW d \in Db, NEW n \in Nat
  PROVE  Msg(type, d, n) \in Message
BY DEF Msg, Message

(* Taking the head off the bus leaves a bus, and the head is a message.    *)
LEMMA TakeType ==
  ASSUME bus \in Seq(Message), Len(bus) <= MaxBus, NEW types, Take(types)
  PROVE  /\ Head(bus) \in Message /\ Head(bus).type \in types
         /\ Head(bus).db \in Db
         /\ bus' \in Seq(Message) /\ Len(bus') <= MaxBus
<1>1. bus # <<>> /\ Head(bus).type \in types /\ bus' = Tail(bus)
  BY DEF Take
<1>2. Head(bus) \in Message /\ Tail(bus) \in Seq(Message) /\ Len(Tail(bus)) = Len(bus) - 1
  BY <1>1, HeadTailProperties
<1>3. Head(bus).db \in Db
  BY <1>2 DEF Message
<1> QED
  BY <1>1, <1>2, <1>3, LauncherAssumption DEF LauncherAssumption

(* A message posted on the bus leaves a bus within its bound.              *)
LEMMA PostType ==
  ASSUME bus \in Seq(Message), Len(bus) <= MaxBus, NEW m \in Message, Post(m)
  PROVE  bus' \in Seq(Message) /\ Len(bus') <= MaxBus
BY LauncherAssumption DEF Post, BusFits, LauncherAssumption

(* Starting, registering and shutting down workers keep the types of the   *)
(* launcher's maps and of the workers' state.                              *)
CtxType ==
  /\ pending_workers \in [Db -> Worker \cup {NoWorker}]
  /\ workers \in [Db -> Worker \cup {NoWorker}]
  /\ terminated_workers \in [Db -> Worker \cup {NoWorker}]
  /\ proc \in [Worker -> ProcState] /\ dbOf \in [Worker -> Db]
  /\ status \in [Worker -> ExtensionStatus]
  /\ term \in [Worker -> BOOLEAN] /\ attached \in [Worker -> BOOLEAN]
  /\ mq \in [Worker -> Message \cup {NoMessage}]

LEMMA StartType ==
  ASSUME CtxType, NEW d \in Db, StartWorker(d)
  PROVE  CtxType'
<1>1. CASE UNCHANGED <<ctx, wvars>>
  BY <1>1 DEF CtxType, ctx, wvars
<1>2. ASSUME NEW w \in Worker,
             proc' = [proc EXCEPT ![w] = "launched"],
             dbOf' = [dbOf EXCEPT ![w] = d],
             attached' = [attached EXCEPT ![w] = FALSE],
             pending_workers' = [pending_workers EXCEPT ![d] = w],
             UNCHANGED <<workers, terminated_workers, status, term, mq>>
      PROVE  CtxType'
  BY <1>2 DEF CtxType, ProcState
<1> QED
  BY <1>1, <1>2 DEF StartWorker

LEMMA RegisterType ==
  ASSUME CtxType, NEW d \in Db, RegisterWorker(d)
  PROVE  CtxType'
BY DEF CtxType, RegisterWorker, wvars

LEMMA ShutdownType ==
  ASSUME CtxType, NEW d \in Db, ShutdownWorker(d)
  PROVE  CtxType'
BY DEF CtxType, ShutdownWorker, Entry, Alive, ctx, wvars

LEMMA EndsType ==
  ASSUME CtxType, NEW w \in Worker, Ends(w),
         UNCHANGED <<ctx, dbOf, status>>
  PROVE  CtxType'
BY DEF CtxType, Ends, Held, ProcState, ctx

(* The initial states are well typed. *)
LEMMA InitType == Init => TypeOK
<1>1. (CHOOSE d \in Db : TRUE) \in Db
  BY LauncherAssumption DEF LauncherAssumption
<1>2. SUFFICES ASSUME Init PROVE TypeOK
  OBVIOUS
<1>3. bus \in Seq(Message) /\ Len(bus) <= MaxBus
  BY <1>2, LauncherAssumption DEF LauncherAssumption, Init
<1>4. CtxType
  BY <1>1, <1>2 DEF Init, CtxType, Absent, ProcState, ExtensionStatus
<1>5. /\ req \in [Backend -> Message \cup {NoMessage}]
      /\ tries \in [Backend -> 0 .. MaxTries]
      /\ bpc \in [Backend -> BackendState] /\ \A b \in Backend : bpc[b] = "idle"
  BY <1>2, LauncherAssumption DEF LauncherAssumption, Init, BackendState
<1>6. received \in [Db -> Seq(Nat)]
  BY <1>2 DEF Init
<1> QED
  BY <1>2, <1>3, <1>4, <1>5, <1>6 DEF TypeOK, CtxType, Init, LauncherState

(* The part of TypeOK that is about the launcher's place, the backends and *)
(* the history.                                                            *)
RestType ==
  /\ catalog \in [Db -> ExtensionStatus]
  /\ bus \in Seq(Message) /\ Len(bus) <= MaxBus
  /\ lpc \in LauncherState /\ lterm \in BOOLEAN /\ toStart \subseteq Db
  /\ sending \in Message \cup {NoMessage}
  /\ bpc \in [Backend -> BackendState]
  /\ req \in [Backend -> Message \cup {NoMessage}]
  /\ \A b \in Backend : bpc[b] # "idle" => req[b] \in Message
  /\ tries \in [Backend -> 0 .. MaxTries]
  /\ seq \in Nat
  /\ received \in [Db -> Seq(Nat)]

LEMMA TypeParts == TypeOK <=> CtxType /\ RestType
BY DEF TypeOK, CtxType, RestType

(* Every step of the launcher keeps the types. *)
LEMMA LauncherType == TypeOK /\ LauncherStep => TypeOK'
<1> SUFFICES ASSUME TypeOK, LauncherStep PROVE TypeOK'
  OBVIOUS
<1> USE TypeParts DEF LauncherState
<1>1. ASSUME NEW d \in Db, Boot(d) PROVE TypeOK'
  <2>1. CtxType'
    BY <1>1, StartType DEF Boot
  <2>2. RestType'
    BY <1>1 DEF Boot, RestType, bvars
  <2> QED
    BY <2>1, <2>2, PTL
<1>2. ASSUME NEW d \in Db, Reap(d) PROVE TypeOK'
  <2>1. CtxType'
    BY <1>2 DEF Reap, CtxType, wvars
  <2>2. RestType'
    BY <1>2 DEF Reap, RestType, bvars, lvars
  <2> QED
    BY <2>1, <2>2, PTL
<1>3. CASE Wake
  <2>1. CtxType'
    BY <1>3 DEF Wake, CtxType, Absent, Alive, ctx
  <2>2. RestType'
    BY <1>3 DEF Wake, RestType, bvars
  <2> QED
    BY <2>1, <2>2, PTL
<1>4. CASE Reaped
  BY <1>4 DEF Reaped, TypeOK, ctx, wvars, bvars
<1>5. CASE Drained
  BY <1>5 DEF Drained, TypeOK, ctx, wvars, bvars
<1>6. CASE HandleExist
  <2>1. Head(bus).db \in Db /\ bus' \in Seq(Message) /\ Len(bus') <= MaxBus
    BY <1>6, TakeType DEF HandleExist, RestType
  <2>2. CtxType'
    BY <1>6, <2>1, RegisterType DEF HandleExist
  <2>3. RestType'
    BY <1>6, <2>1 DEF HandleExist, RestType, bvars, lvars
  <2> QED
    BY <2>2, <2>3, PTL
<1>7. CASE HandleShutdown
  <2>1. Head(bus).db \in Db /\ bus' \in Seq(Message) /\ Len(bus') <= MaxBus
    BY <1>7, TakeType DEF HandleShutdown, RestType
  <2>2. CtxType'
    BY <1>7, <2>1, ShutdownType DEF HandleShutdown
  <2>3. RestType'
    BY <1>7, <2>1 DEF HandleShutdown, RestType, bvars, lvars
  <2> QED
    BY <2>2, <2>3, PTL
<1>8. CASE HandleForward
  <2>1. Head(bus) \in Message /\ bus' \in Seq(Message) /\ Len(bus') <= MaxBus
    BY <1>8, TakeType DEF HandleForward, RestType
  <2> QED
    BY <1>8, <2>1 DEF HandleForward, TypeOK, bvars, ctx, wvars
<1>9. CASE HandleNewConfigStart
  <2>1. Head(bus).db \in Db /\ bus' \in Seq(Message) /\ Len(bus') <= MaxBus
    BY <1>9, TakeType DEF HandleNewConfigStart, RestType
  <2>2. CtxType'
    BY <1>9, <2>1, StartType DEF HandleNewConfigStart
  <2>3. RestType'
    BY <1>9, <2>1 DEF HandleNewConfigStart, RestType, bvars, lvars
  <2> QED
    BY <2>2, <2>3, PTL
<1>10. CASE HandleDropped
  <2>1. bus' \in Seq(Message) /\ Len(bus') <= MaxBus
    BY <1>10, TakeType DEF HandleDropped, RestType
  <2> QED
    BY <1>10, <2>1 DEF HandleDropped, TypeOK, bvars, lvars, ctx, wvars
<1>11. CASE SendDone
  BY <1>11 DEF SendDone, TypeOK, ctx, bvars
<1>12. CASE SendDetached
  BY <1>12 DEF SendDetached, TypeOK, ctx, wvars, bvars
<1>13. CASE LauncherRestart
  BY <1>13 DEF LauncherRestart, TypeOK, ctx, wvars, bvars
<1> QED
  BY <1>1, <1>2, <1>3, <1>4, <1>5, <1>6, <1>7, <1>8, <1>9, <1>10, <1>11, <1>12, <1>13
  DEF LauncherStep, Handle

(* Every step of a subscriber process keeps the types. *)
LEMMA WorkerType == ASSUME NEW w \in Worker PROVE TypeOK /\ WorkerStep(w) => TypeOK'
<1> SUFFICES ASSUME TypeOK, WorkerStep(w) PROVE TypeOK'
  OBVIOUS
<1> USE TypeParts
<1>1. CASE NeverStarts(w)
  <2>1. CtxType'
    BY <1>1, EndsType DEF NeverStarts
  <2>2. RestType'
    BY <1>1 DEF NeverStarts, RestType, bvars, lvars
  <2> QED
    BY <2>1, <2>2, PTL
<1>2. CASE CheckStatus(w)
  BY <1>2 DEF CheckStatus, Moves, TypeOK, ProcState, lvars, ctx, bvars
<1>3. CASE SendStatus(w)
  <2>1. Msg(status[w], dbOf[w], 0) \in Message
    BY MsgType DEF CtxType, MessageType
  <2>2. bus' \in Seq(Message) /\ Len(bus') <= MaxBus
    BY <1>3, <2>1, PostType DEF SendStatus, RestType
  <2>3. CtxType'
    BY <1>3 DEF SendStatus, Moves, CtxType, ProcState, ExtensionStatus, ctx
  <2>4. RestType'
    BY <1>3, <2>2 DEF SendStatus, RestType, bvars, lvars
  <2> QED
    BY <2>3, <2>4, PTL
<1>4. CASE Connect(w)
  BY <1>4 DEF Connect, Moves, Held, TypeOK, ProcState, lvars, ctx, bvars
<1>5. CASE EnterLoop(w)
  BY <1>5 DEF EnterLoop, Moves, TypeOK, ProcState, lvars, ctx, bvars
<1>6. CASE Receive(w)
  <2>1. mq[w].n \in Nat /\ dbOf[w] \in Db
    BY <1>6 DEF Receive, CtxType, Message
  <2>2. Append(received[dbOf[w]], mq[w].n) \in Seq(Nat)
    BY <2>1 DEF RestType
  <2>3. received' \in [Db -> Seq(Nat)]
    BY <1>6, <2>2 DEF Receive, RestType
  <2> QED
    BY <1>6, <2>3 DEF Receive, TypeOK, lvars, ctx, bvars
<1>7. CASE LeaveLoop(w)
  BY <1>7 DEF LeaveLoop, TypeOK, ProcState, lvars, ctx, bvars
<1>8. CASE Exit(w)
  <2>1. Msg("SubscriberExit", dbOf[w], 0) \in Message
    BY MsgType DEF CtxType, MessageType
  <2>2. bus' \in Seq(Message) /\ Len(bus') <= MaxBus
    BY <1>8, <2>1, PostType DEF Exit, RestType
  <2>3. CtxType'
    BY <1>8, EndsType DEF Exit
  <2>4. RestType'
    BY <1>8, <2>2 DEF Exit, RestType, bvars, lvars
  <2> QED
    BY <2>3, <2>4, PTL
<1> QED
  BY <1>1, <1>2, <1>3, <1>4, <1>5, <1>6, <1>7, <1>8 DEF WorkerStep

(* Every step of a backend, a user or a fault keeps the types. *)
LEMMA OtherType ==
  TypeOK /\ ((\E b \in Backend : BackendStep(b)) \/ Calls \/ CatalogStep \/ Fault)
    => TypeOK'
<1> SUFFICES ASSUME TypeOK,
                    (\E b \in Backend : BackendStep(b)) \/ Calls \/ CatalogStep \/ Fault
             PROVE  TypeOK'
  OBVIOUS
<1> USE TypeParts
<1>1. ASSUME NEW b \in Backend, Try(b) PROVE TypeOK'
  <2>1. seq + 1 \in Nat /\ req[b].type \in MessageType /\ req[b].db \in Db
    BY <1>1 DEF Try, RestType, Message
  <2>2. Msg(req[b].type, req[b].db, seq + 1) \in Message
    BY <2>1, MsgType
  <2>3. bus' \in Seq(Message) /\ Len(bus') <= MaxBus
    BY <1>1, <2>2, PostType DEF Try, RestType
  <2>4. bpc' \in [Backend -> BackendState] /\ seq' \in Nat
        /\ \A c \in Backend : bpc'[c] # "idle" => req'[c] \in Message
    BY <1>1, <2>1 DEF Try, RestType, BackendState
  <2>5. tries' \in [Backend -> 0 .. MaxTries]
    BY <1>1, LauncherAssumption DEF LauncherAssumption, Try, RestType
  <2> QED
    BY <1>1, <2>3, <2>4, <2>5 DEF Try, TypeOK, lvars, ctx, wvars
<1>2. ASSUME NEW b \in Backend, GiveUp(b) PROVE TypeOK'
  BY <1>2, LauncherAssumption
  DEF LauncherAssumption, GiveUp, TypeOK, BackendState, lvars, ctx, wvars
<1>3. ASSUME NEW b \in Backend, Commit(b) PROVE TypeOK'
  <2>1. req[b].db \in Db
    BY <1>3 DEF Commit, RestType, Message
  <2> QED
    BY <1>3, <2>1 DEF Commit, TypeOK, BackendState, ExtensionStatus, lvars, ctx, wvars
<1>4. ASSUME NEW b \in Backend, Abort(b) PROVE TypeOK'
  BY <1>4 DEF Abort, TypeOK, BackendState, lvars, ctx, wvars
<1>5. ASSUME NEW b \in Backend, NEW d \in Db, NEW type \in {"NewConfig", "Command"},
             Call(b, type, d)
      PROVE  TypeOK'
  <2>1. Msg(type, d, 0) \in Message
    BY MsgType DEF MessageType
  <2>2. tries' \in [Backend -> 0 .. MaxTries]
    BY <1>5, LauncherAssumption DEF LauncherAssumption, Call, RestType
  <2> QED
    BY <1>5, <2>1, <2>2 DEF Call, TypeOK, BackendState, lvars, ctx, wvars
<1>6. ASSUME NEW d \in Db, NEW to \in ExtensionStatus, ChangeCatalog(d, to)
      PROVE  TypeOK'
  BY <1>6 DEF ChangeCatalog, TypeOK, lvars, ctx, wvars, bvars
<1>7. CASE Sigterm
  BY <1>7 DEF Sigterm, TypeOK, ctx, wvars, bvars
<1>8. CASE LauncherCrash
  BY <1>8 DEF LauncherCrash, TypeOK, LauncherState, Absent, wvars, bvars
<1>9. ASSUME NEW w \in Worker, ConnectFails(w) PROVE TypeOK'
  BY <1>9 DEF ConnectFails, Moves, TypeOK, ProcState, lvars, ctx, bvars
<1>10. ASSUME NEW w \in Worker, WorkerCrash(w) PROVE TypeOK'
  BY <1>10 DEF WorkerCrash, Ends, Held, TypeOK, ProcState, ExtensionStatus, lvars, ctx, bvars
<1> QED
  BY <1>1, <1>2, <1>3, <1>4, <1>5, <1>6, <1>7, <1>8, <1>9, <1>10
  DEF BackendStep, Calls, CatalogStep, Fault

LEMMA NextType == TypeOK /\ [Next]_vars => TypeOK'
<1>1. TypeOK /\ UNCHANGED vars => TypeOK'
  BY DEF TypeOK, vars, lvars, ctx, wvars, bvars
<1> QED
  BY <1>1, LauncherType, WorkerType, OtherType DEF Next, SystemStep

(* In every reachable state each variable has its type: in particular the  *)
(* bus never holds more than it can, and an entry names a worker slot.     *)
THEOREM TypeCorrect == Spec => []TypeOK
BY InitType, NextType, PTL DEF Spec

-----------------------------------------------------------------------------
(* The inductive invariant.  MapInv is its part about the launcher's maps  *)
(* and the processes; the rest of IInv says where the launcher may be.     *)
MapInv ==
  /\ OneActive /\ EntriesConsistent /\ ReapsOnlySignalled /\ Tracked
  /\ Routed /\ SlotClean

(* A worker is started into a free slot for a database that has none: it   *)
(* becomes the only active worker of that database.                        *)
LEMMA StartMap ==
  ASSUME CtxType, MapInv, NEW d \in Db, StartWorker(d),
         pending_workers[d] = NoWorker, workers[d] = NoWorker
  PROVE  MapInv'
<1> USE LauncherAssumption DEF LauncherAssumption
<1>1. CASE UNCHANGED <<ctx, wvars>>
  BY <1>1 DEF MapInv, OneActive, EntriesConsistent, ReapsOnlySignalled, Tracked, Routed,
              SlotClean, Alive, ctx, wvars
<1>2. ASSUME NEW w \in Worker, FreeSlot(w),
             proc' = [proc EXCEPT ![w] = "launched"],
             dbOf' = [dbOf EXCEPT ![w] = d],
             pending_workers' = [pending_workers EXCEPT ![d] = w],
             UNCHANGED <<workers, terminated_workers, status, term, mq>>
      PROVE  MapInv'
  <2> USE <1>2 DEF CtxType, MapInv
  <2>1. \A e \in Db : w \notin {pending_workers[e], workers[e], terminated_workers[e]}
    BY DEF FreeSlot, Held
  <2>2. OneActive'
    BY DEF OneActive
  <2>3. EntriesConsistent'
    BY <2>1 DEF EntriesConsistent
  <2>4. ReapsOnlySignalled'
    BY <2>1 DEF ReapsOnlySignalled, Alive
  <2>5. Tracked'
    BY <2>1 DEF Tracked, Alive
  <2>6. Routed'
    BY DEF Routed, SlotClean, FreeSlot, Alive
  <2>7. SlotClean'
    BY DEF SlotClean, Alive
  <2> QED
    BY <2>2, <2>3, <2>4, <2>5, <2>6, <2>7
<1> QED
  BY <1>1, <1>2 DEF StartWorker

(* A pending worker becomes registered; OneActive says that it replaces    *)
(* nobody.                                                                 *)
LEMMA RegisterMap ==
  ASSUME CtxType, MapInv, NEW d \in Db, RegisterWorker(d)
  PROVE  MapInv'
<1> USE LauncherAssumption DEF LauncherAssumption, CtxType, MapInv, RegisterWorker, wvars
<1>1. OneActive'
  BY DEF OneActive
<1>2. EntriesConsistent'
  BY DEF EntriesConsistent
<1>3. ReapsOnlySignalled'
  BY DEF ReapsOnlySignalled, Alive
<1>4. Tracked'
  BY DEF Tracked, Alive, OneActive
<1>5. Routed' /\ SlotClean'
  BY DEF Routed, SlotClean, Alive
<1> QED
  BY <1>1, <1>2, <1>3, <1>4, <1>5

(* The active worker of a database is signalled and becomes terminated.    *)
LEMMA ShutdownMap ==
  ASSUME CtxType, MapInv, NEW d \in Db, ShutdownWorker(d)
  PROVE  MapInv'
<1> USE LauncherAssumption DEF LauncherAssumption, CtxType, MapInv, ShutdownWorker
<1>1. CASE Entry(d) = NoWorker
  BY <1>1 DEF OneActive, EntriesConsistent, ReapsOnlySignalled, Tracked, Routed,
              SlotClean, Alive, ctx, wvars
<1>2. CASE Entry(d) # NoWorker
  <2>1. Entry(d) \in Worker /\ Entry(d) \in {workers[d], pending_workers[d]}
    BY <1>2 DEF Entry
  <2>2. OneActive'
    BY <1>2 DEF OneActive
  <2>3. EntriesConsistent'
    BY <1>2, <2>1 DEF EntriesConsistent, OneActive, Entry
  <2>4. ReapsOnlySignalled'
    <3>1. SUFFICES ASSUME NEW e \in Db, NEW w \in Worker, terminated_workers'[e] = w, Alive(w)
                   PROVE  term'[w]
      BY <1>2 DEF ReapsOnlySignalled, Alive
    <3>2. CASE w = Entry(d)
      BY <1>2, <2>1, <3>1, <3>2
    <3>3. CASE w # Entry(d)
      BY <1>2, <2>1, <3>1, <3>3 DEF ReapsOnlySignalled
    <3> QED
      BY <3>2, <3>3
  <2>5. Tracked'
    <3>1. SUFFICES ASSUME "LauncherCrash" \notin Faults,
                          NEW w \in Worker, Alive(w), ~ term'[w]
                   PROVE  w \in {pending_workers'[dbOf[w]], workers'[dbOf[w]]}
      BY <1>2 DEF Tracked, Alive
    <3>2. w # Entry(d)
      BY <1>2, <2>1, <3>1 DEF Alive
    <3>3. ~ term[w]
      BY <1>2, <2>1, <3>1, <3>2 DEF Alive
    <3>4. w \in {pending_workers[dbOf[w]], workers[dbOf[w]]} /\ dbOf[w] \in Db
      BY <3>1, <3>3 DEF Tracked
    <3> QED
      BY <1>2, <3>2, <3>4 DEF Entry, OneActive
  <2>6. Routed' /\ SlotClean'
    BY <1>2, <2>1 DEF Routed, SlotClean, Alive
  <2> QED
    BY <2>2, <2>3, <2>4, <2>5, <2>6
<1> QED
  BY <1>1, <1>2

(* A process that ends leaves a clean slot and needs no tracking.          *)
LEMMA EndsMap ==
  ASSUME CtxType, MapInv, NEW w \in Worker, Ends(w), UNCHANGED <<ctx, dbOf>>
  PROVE  MapInv'
BY DEF CtxType, MapInv, Ends, OneActive, EntriesConsistent, ReapsOnlySignalled, Tracked,
       Routed, SlotClean, Alive, ctx

(* A process that goes on, without touching its queue or a signal, keeps   *)
(* everything that is said about the maps.                                 *)
LEMMA MovesMap ==
  ASSUME CtxType, MapInv, NEW w \in Worker, proc[w] # "none",
         NEW to, to # "none", proc' = [proc EXCEPT ![w] = to],
         UNCHANGED <<ctx, dbOf, term, mq>>
  PROVE  MapInv'
BY DEF CtxType, MapInv, OneActive, EntriesConsistent, ReapsOnlySignalled, Tracked, Routed,
       SlotClean, Alive, ctx

LEMMA SameMap == MapInv /\ UNCHANGED <<ctx, wvars>> => MapInv'
BY DEF MapInv, OneActive, EntriesConsistent, ReapsOnlySignalled, Tracked, Routed, SlotClean,
       Alive, ctx, wvars

(* The part of IInv about the place of the launcher.                       *)
PlaceInv == BootFresh /\ SendRegistered

LEMMA IInvParts == IInv <=> TypeOK /\ MapInv /\ PlaceInv
BY DEF IInv, MapInv, PlaceInv

LEMMA InitIInv == Init => IInv
<1> SUFFICES ASSUME Init PROVE IInv
  OBVIOUS
<1>1. MapInv
  BY LauncherAssumption
  DEF LauncherAssumption, Init, MapInv, Absent, OneActive, EntriesConsistent,
      ReapsOnlySignalled, Tracked, Routed, SlotClean, Alive
<1>2. PlaceInv
  BY DEF Init, PlaceInv, BootFresh, SendRegistered, Absent
<1> QED
  BY <1>1, <1>2, InitType, IInvParts

(* Every step of the launcher preserves the invariant. *)
LEMMA LauncherIInv == IInv /\ LauncherStep => MapInv' /\ PlaceInv'
<1> SUFFICES ASSUME IInv, LauncherStep PROVE MapInv' /\ PlaceInv'
  OBVIOUS
<1>0. CtxType /\ RestType /\ MapInv /\ PlaceInv
  BY IInvParts, TypeParts
<1> USE <1>0 DEF PlaceInv
<1>1. ASSUME NEW d \in Db, Boot(d) PROVE MapInv' /\ PlaceInv'
  <2>1. pending_workers[d] = NoWorker /\ workers[d] = NoWorker
    BY <1>1 DEF Boot, BootFresh
  <2>2. MapInv'
    BY <1>1, <2>1, StartMap DEF Boot
  <2>3. /\ workers' = workers
        /\ \A e \in Db \ {d} : pending_workers'[e] = pending_workers[e]
    BY <1>1 DEF Boot, StartWorker, CtxType, ctx
  <2> QED
    BY <1>1, <2>2, <2>3 DEF Boot, BootFresh, SendRegistered, RestType
<1>2. ASSUME NEW d \in Db, Reap(d) PROVE MapInv' /\ PlaceInv'
  <2> USE <1>2, LauncherAssumption DEF LauncherAssumption, Reap, CtxType, MapInv
  <2>1. EntriesConsistent'
    BY DEF EntriesConsistent, wvars
  <2>2. ReapsOnlySignalled'
    BY DEF ReapsOnlySignalled, Alive, wvars
  <2>3. OneActive' /\ Tracked' /\ Routed' /\ SlotClean'
    BY DEF OneActive, Tracked, Routed, SlotClean, Alive, wvars
  <2> QED
    BY <2>1, <2>2, <2>3 DEF BootFresh, SendRegistered, lvars
<1>3. CASE Wake
  <2>1. lpc' \in {"reap", "final"}
    BY <1>3 DEF Wake
  <2>2. PlaceInv'
    BY <2>1 DEF BootFresh, SendRegistered
  <2>3. CASE ~ lterm
    BY <1>3, <2>2, <2>3, SameMap DEF Wake, ctx, wvars
  <2>4. CASE lterm
    <3> DEFINE Stopped(w) == Alive(w) /\ \E d \in Db : w \in {workers[d], pending_workers[d]}
    <3>1. /\ term' = [w \in Worker |-> term[w] \/ Stopped(w)]
          /\ pending_workers' = [d \in Db |-> NoWorker] /\ workers' = [d \in Db |-> NoWorker]
          /\ terminated_workers' =
               [d \in Db |-> IF pending_workers[d] # NoWorker THEN pending_workers[d]
                             ELSE IF workers[d] # NoWorker THEN workers[d]
                             ELSE terminated_workers[d]]
          /\ UNCHANGED <<proc, dbOf, mq>>
      BY <1>3, <2>4 DEF Wake, Absent
    <3> HIDE DEF Stopped
    <3>2. OneActive' /\ EntriesConsistent'
      BY <3>1, LauncherAssumption
      DEF LauncherAssumption, CtxType, MapInv, OneActive, EntriesConsistent
    <3>3. \A w \in Worker : Stopped(w) => Alive(w)
      BY DEF Stopped
    <3>4. \A w \in Worker : term'[w] <=> term[w] \/ Stopped(w)
      BY <3>1
    <3>5. ReapsOnlySignalled'
      <4>1. SUFFICES ASSUME NEW d \in Db, NEW w \in Worker, terminated_workers'[d] = w, Alive(w)
                     PROVE  term'[w]
        BY <3>1 DEF ReapsOnlySignalled, Alive
      <4>2. CASE w \in {workers[d], pending_workers[d]}
        BY <3>4, <4>1, <4>2 DEF Stopped
      <4>3. CASE w \notin {workers[d], pending_workers[d]}
        <5>1. terminated_workers[d] = w
          BY <3>1, <4>1, <4>3
        <5> QED
          BY <3>4, <4>1, <5>1 DEF MapInv, ReapsOnlySignalled
      <4> QED
        BY <4>2, <4>3
    <3>6. Tracked'
      <4>1. SUFFICES ASSUME "LauncherCrash" \notin Faults, NEW w \in Worker, Alive(w), ~ term'[w]
                     PROVE  FALSE
        BY <3>1 DEF Tracked, Alive
      <4>2. ~ term[w] /\ ~ Stopped(w)
        BY <3>4, <4>1
      <4>3. w \in {pending_workers[dbOf[w]], workers[dbOf[w]]} /\ dbOf[w] \in Db
        BY <4>1, <4>2 DEF MapInv, Tracked, CtxType
      <4> QED
        BY <4>1, <4>2, <4>3 DEF Stopped
    <3>7. Routed' /\ SlotClean'
      BY <3>1, <3>3, <3>4 DEF MapInv, Routed, SlotClean, Alive
    <3> QED
      BY <2>2, <3>2, <3>5, <3>6, <3>7 DEF MapInv
  <2> QED
    BY <2>3, <2>4
<1>4. CASE Reaped
  BY <1>4, SameMap DEF Reaped, BootFresh, SendRegistered
<1>5. CASE Drained
  BY <1>5, SameMap DEF Drained, BootFresh, SendRegistered
<1>6. CASE HandleExist
  <2>1. Head(bus).db \in Db
    BY <1>6, TakeType DEF HandleExist, RestType
  <2>2. MapInv'
    BY <1>6, <2>1, RegisterMap DEF HandleExist
  <2> QED
    BY <1>6, <2>2 DEF HandleExist, Take, BootFresh, SendRegistered, lvars
<1>7. CASE HandleShutdown
  <2>1. Head(bus).db \in Db
    BY <1>7, TakeType DEF HandleShutdown, RestType
  <2>2. MapInv'
    BY <1>7, <2>1, ShutdownMap DEF HandleShutdown
  <2> QED
    BY <1>7, <2>2 DEF HandleShutdown, Take, BootFresh, SendRegistered, lvars
<1>8. CASE HandleForward
  <2>1. Head(bus) \in Message
    BY <1>8, TakeType DEF HandleForward, RestType
  <2>2. MapInv'
    BY <1>8, SameMap DEF HandleForward
  <2> QED
    BY <1>8, <2>1, <2>2 DEF HandleForward, BootFresh, SendRegistered, Receiver, ctx
<1>9. CASE HandleNewConfigStart
  <2>1. Head(bus).db \in Db
    BY <1>9, TakeType DEF HandleNewConfigStart, RestType
  <2>2. MapInv'
    BY <1>9, <2>1, StartMap DEF HandleNewConfigStart
  <2> QED
    BY <1>9, <2>2 DEF HandleNewConfigStart, Take, BootFresh, SendRegistered, lvars
<1>10. CASE HandleDropped
  <2>1. lpc = "drain"
    BY <1>10 DEF HandleDropped, Take
  <2> QED
    BY <1>10, <2>1, SameMap DEF HandleDropped, BootFresh, SendRegistered, lvars
<1>11. CASE SendDone
  <2>1. sending \in Message /\ sending.db \in Db /\ Receiver \in Worker
    BY <1>11 DEF SendDone, SendRegistered, Receiver, CtxType, Message
  <2>2. dbOf[Receiver] = sending.db
    BY <2>1 DEF MapInv, EntriesConsistent, Receiver
  <2>3. MapInv'
    BY <1>11, <2>1, <2>2
    DEF SendDone, CtxType, MapInv, OneActive, EntriesConsistent, ReapsOnlySignalled, Tracked,
        Routed, SlotClean, Alive, ctx
  <2> QED
    BY <1>11, <2>3 DEF SendDone, BootFresh, SendRegistered
<1>12. CASE SendDetached
  BY <1>12, SameMap DEF SendDetached, BootFresh, SendRegistered
<1>13. CASE LauncherRestart
  BY <1>13, SameMap DEF LauncherRestart, BootFresh, SendRegistered, Absent, ctx
<1> QED
  BY <1>1, <1>2, <1>3, <1>4, <1>5, <1>6, <1>7, <1>8, <1>9, <1>10, <1>11, <1>12, <1>13
  DEF LauncherStep, Handle

(* Every step of a subscriber preserves the invariant: it only ever ends   *)
(* or goes on, and the launcher's maps are not its own.                    *)
LEMMA WorkerIInv ==
  ASSUME NEW w \in Worker PROVE IInv /\ WorkerStep(w) => MapInv' /\ PlaceInv'
<1> SUFFICES ASSUME IInv, WorkerStep(w) PROVE MapInv' /\ PlaceInv'
  OBVIOUS
<1>0. CtxType /\ RestType /\ MapInv /\ PlaceInv
  BY IInvParts, TypeParts
<1> USE <1>0 DEF PlaceInv
<1>1. UNCHANGED <<lvars, ctx>>
  BY DEF WorkerStep, NeverStarts, CheckStatus, SendStatus, Connect, EnterLoop, Receive,
         LeaveLoop, Exit
<1>2. PlaceInv'
  BY <1>1 DEF BootFresh, SendRegistered, Receiver, lvars, ctx
<1>3. CASE NeverStarts(w) \/ Exit(w)
  BY <1>2, <1>3, EndsMap DEF NeverStarts, Exit
<1>4. CASE CheckStatus(w) \/ SendStatus(w) \/ Connect(w) \/ EnterLoop(w)
  <2>1. PICK to : to # "none" /\ proc' = [proc EXCEPT ![w] = to]
    BY <1>4 DEF CheckStatus, SendStatus, Connect, EnterLoop, Moves
  <2>2. proc[w] # "none"
    BY <1>4 DEF CheckStatus, SendStatus, Connect, EnterLoop, Moves
  <2> QED
    BY <1>2, <1>4, <2>1, <2>2, MovesMap
    DEF CheckStatus, SendStatus, Connect, EnterLoop
<1>5. CASE Receive(w) \/ LeaveLoop(w)
  BY <1>1, <1>2, <1>5
  DEF Receive, LeaveLoop, CtxType, MapInv, OneActive, EntriesConsistent, ReapsOnlySignalled,
      Tracked, Routed, SlotClean, Alive, ctx
<1> QED
  BY <1>3, <1>4, <1>5 DEF WorkerStep

(* So does every step of a backend, a user or a fault. *)
LEMMA OtherIInv ==
  IInv /\ ((\E b \in Backend : BackendStep(b)) \/ Calls \/ CatalogStep \/ Fault)
    => MapInv' /\ PlaceInv'
<1> SUFFICES ASSUME IInv,
                    (\E b \in Backend : BackendStep(b)) \/ Calls \/ CatalogStep \/ Fault
             PROVE  MapInv' /\ PlaceInv'
  OBVIOUS
<1>0. CtxType /\ RestType /\ MapInv /\ PlaceInv
  BY IInvParts, TypeParts
<1> USE <1>0 DEF PlaceInv
<1>1. CASE (\E b \in Backend : BackendStep(b)) \/ Calls \/ CatalogStep
  <2>1. UNCHANGED <<lvars, ctx, wvars>>
    BY <1>1 DEF BackendStep, Try, GiveUp, Commit, Abort, Calls, Call, CatalogStep, ChangeCatalog
  <2> QED
    BY <2>1, SameMap DEF BootFresh, SendRegistered, Receiver, lvars, ctx
<1>2. CASE Sigterm
  BY <1>2, SameMap DEF Sigterm, BootFresh, SendRegistered, Receiver, ctx
<1>3. CASE LauncherCrash
  <2>1. MapInv'
    BY <1>3, LauncherAssumption
    DEF LauncherAssumption, LauncherCrash, Absent, MapInv, OneActive, EntriesConsistent,
        ReapsOnlySignalled, Tracked, Routed, SlotClean, Alive, wvars
  <2> QED
    BY <1>3, <2>1 DEF LauncherCrash, BootFresh, SendRegistered, Absent
<1>4. ASSUME NEW w \in Worker, ConnectFails(w) PROVE MapInv' /\ PlaceInv'
  BY <1>4, MovesMap DEF ConnectFails, Moves, BootFresh, SendRegistered, Receiver, lvars, ctx
<1>5. ASSUME NEW w \in Worker, WorkerCrash(w) PROVE MapInv' /\ PlaceInv'
  BY <1>5, EndsMap DEF WorkerCrash, BootFresh, SendRegistered, Receiver, lvars, ctx
<1> QED
  BY <1>1, <1>2, <1>3, <1>4, <1>5 DEF Fault

LEMMA NextIInv == IInv /\ [Next]_vars => IInv'
<1> SUFFICES ASSUME IInv, [Next]_vars PROVE IInv'
  OBVIOUS
<1>1. TypeOK'
  BY NextType, IInvParts
<1>2. MapInv' /\ PlaceInv'
  <2>1. CASE UNCHANGED vars
    BY <2>1, SameMap, IInvParts
    DEF PlaceInv, BootFresh, SendRegistered, Receiver, vars, lvars, ctx
  <2> QED
    BY <2>1, LauncherIInv, WorkerIInv, OtherIInv DEF Next, SystemStep
<1> QED
  BY <1>1, <1>2, IInvParts, PTL

-----------------------------------------------------------------------------
(* The invariant holds in every reachable state. *)
THEOREM Inductive == Spec => []IInv
BY InitIInv, NextIInv, PTL DEF Spec

(* No two workers of a database are both meant to run, whatever the order  *)
(* of messages and whatever dies, for any number of databases, slots,      *)
(* backends and messages.                                                  *)
THEOREM AtMostOneRunning == Spec => []OneRunning
<1>1. IInv => OneRunning
  <2>1. SUFFICES ASSUME IInv, "LauncherCrash" \notin Faults,
                        NEW v \in Worker, NEW w \in Worker,
                        Alive(v), Alive(w), ~ term[v], ~ term[w], dbOf[v] = dbOf[w]
                 PROVE  v = w
    BY DEF OneRunning
  <2>2. /\ v \in {pending_workers[dbOf[v]], workers[dbOf[v]]}
        /\ w \in {pending_workers[dbOf[v]], workers[dbOf[v]]}
    BY <2>1 DEF IInv, Tracked
  <2>3. pending_workers[dbOf[v]] = NoWorker \/ workers[dbOf[v]] = NoWorker
    BY <2>1 DEF IInv, OneActive, TypeOK
  <2> QED
    BY <2>2, <2>3, LauncherAssumption DEF LauncherAssumption
<1> QED
  BY <1>1, Inductive, PTL

(* A launcher that waits for workers to end waits only for workers it has  *)
(* told to: wait_for_shutdown never hangs on one that means to go on.      *)
THEOREM WaitsForSignalled == Spec => []ReapsOnlySignalled
<1>1. IInv => ReapsOnlySignalled
  BY DEF IInv
<1> QED
  BY <1>1, Inductive, PTL

(* A message forwarded to a worker is a message for its database.          *)
THEOREM RoutedToOwnDatabase == Spec => []Routed
<1>1. IInv => Routed
  BY DEF IInv
<1> QED
  BY <1>1, Inductive, PTL

(* An entry is in one map only, under the database its worker serves: no   *)
(* message for one database signals or reaches the worker of another.      *)
THEOREM MapsConsistent == Spec => []EntriesConsistent
<1>1. IInv => EntriesConsistent
  BY DEF IInv
<1> QED
  BY <1>1, Inductive, PTL

(* A database never has a pending and a registered worker at once: an      *)
(* insert into a map never silently drops a worker that runs.              *)
THEOREM NeverReplaced == Spec => []OneActive
<1>1. IInv => OneActive
  BY DEF IInv
<1> QED
  BY <1>1, Inductive, PTL
=============================================================================
