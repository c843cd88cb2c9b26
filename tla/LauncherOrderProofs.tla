------------------------ MODULE LauncherOrderProofs ------------------------
(***************************************************************************)
(* Proof that the messages of a database are read in their order, for any  *)
(* databases, workers, backends, faults and bounds.                        *)
(***************************************************************************)
EXTENDS LauncherProofs

Numbered(m) == m.type \in {"NewConfig", "Command"}

(* Everything that has left the bus is older than what is on it, and than  *)
(* what is being sent.                                                     *)
Older(n) ==
  /\ n <= seq
  /\ lpc = "send" => n < sending.n
  /\ \A i \in 1 .. Len(bus) : Numbered(bus[i]) => n < bus[i].n

BusOrdered ==
  /\ \A i \in 1 .. Len(bus) : Numbered(bus[i]) => bus[i].n <= seq
  /\ \A i, j \in 1 .. Len(bus) :
       i < j /\ Numbered(bus[i]) /\ Numbered(bus[j]) => bus[i].n < bus[j].n
  /\ lpc = "send" =>
       /\ sending.n <= seq
       /\ \A i \in 1 .. Len(bus) : Numbered(bus[i]) => sending.n < bus[i].n
  /\ \A w \in Worker : mq[w] # NoMessage => Older(mq[w].n)
  /\ \A d \in Db : \A i \in 1 .. Len(received[d]) : Older(received[d][i])

(* A worker started while the launcher drains the bus cannot report before *)
(* the bus is released, so it does not serve before its predecessor, which *)
(* the launcher waits for first, has ended.                                *)
NotYetServing ==
  lpc \in {"drain", "send"} =>
    \A d \in Db : terminated_workers[d] # NoWorker /\ Entry(d) # NoWorker =>
      proc[Entry(d)] \in {"none", "launched", "checked"}

(* Of the workers of a database with a message one is in the maps, and its *)
(* message is the newest.                                                  *)
NewestHeld ==
  \A v, w \in Worker :
    v # w /\ Held(v) /\ dbOf[v] = dbOf[w] /\ mq[v] # NoMessage /\ mq[w] # NoMessage =>
      ~ Held(w) /\ mq[w].n < mq[v].n

(* The inductive invariant: DeliveredInOrder needs NewestHeld for the      *)
(* message that is read to be older than those that wait for others, and   *)
(* that needs NotYetServing for the receiver of a send to be the only one. *)
OrderInv == BusOrdered /\ NotYetServing /\ NewestHeld /\ DeliveredInOrder

-----------------------------------------------------------------------------
(* What a step may do to the order.                                        *)

(* Nothing new waits for a worker and nothing is read. *)
KeepsQueues ==
  /\ \A w \in Worker : mq'[w] # NoMessage => mq'[w] = mq[w]
  /\ received' = received

(* The bus and the send in progress stay, or the send ends. *)
KeepsBus ==
  /\ bus' = bus /\ seq' = seq
  /\ lpc' = "send" => lpc = "send" /\ sending' = sending

LEMMA SameOrdered ==
  ASSUME TypeOK, BusOrdered, KeepsBus, KeepsQueues
  PROVE  BusOrdered'
BY DEF TypeOK, BusOrdered, KeepsBus, KeepsQueues, Older

(* What is posted under the lock is newer than everything before it, or    *)
(* has no number.                                                          *)
LEMMA PostOrdered ==
  ASSUME TypeOK, BusOrdered, KeepsQueues, NEW m \in Message, Post(m),
         lpc # "send", lpc' = lpc, seq' \in Nat, seq <= seq',
         Numbered(m) => seq < m.n /\ m.n <= seq'
  PROVE  BusOrdered'
<1>1. CASE bus' = bus
  <2>1. \A w \in Worker : mq'[w] # NoMessage => mq'[w].n \in Nat
    BY DEF TypeOK, KeepsQueues, Message
  <2>2. \A i \in 1 .. Len(bus) : bus[i] \in Message
    BY ElementOfSeq DEF TypeOK
  <2>3. \A d \in Db : \A i \in 1 .. Len(received[d]) : received[d][i] \in Nat
    BY ElementOfSeq DEF TypeOK
  <2> QED
    BY <1>1, <2>1, <2>2, <2>3 DEF TypeOK, BusOrdered, KeepsQueues, Older, Message
<1>2. CASE bus' = Append(bus, m)
  <2>1. /\ Len(bus') = Len(bus) + 1 /\ Len(bus) \in Nat
        /\ bus'[Len(bus) + 1] = m
        /\ \A i \in 1 .. Len(bus) : bus'[i] = bus[i] /\ bus[i] \in Message
    BY <1>2, AppendProperties, ElementOfSeq DEF TypeOK
  <2>2. /\ seq \in Nat /\ m.n \in Nat
        /\ \A i \in 1 .. Len(bus) : bus[i].n \in Nat
    BY <2>1 DEF TypeOK, Message
  <2>3. ASSUME NEW n \in Nat, n <= seq,
               \A i \in 1 .. Len(bus) : Numbered(bus[i]) => n < bus[i].n
        PROVE  \A i \in 1 .. Len(bus') : Numbered(bus'[i]) => n < bus'[i].n
    <3>1. SUFFICES ASSUME NEW i \in 1 .. Len(bus'), Numbered(bus'[i]) PROVE n < bus'[i].n
      OBVIOUS
    <3>2. CASE i = Len(bus) + 1
      BY <2>1, <2>2, <2>3, <3>1, <3>2
    <3>3. CASE i \in 1 .. Len(bus)
      BY <2>1, <2>3, <3>1, <3>3
    <3> QED
      BY <2>1, <3>2, <3>3
  <2>4. \A w \in Worker : mq'[w] # NoMessage => mq'[w].n \in Nat
    BY DEF TypeOK, KeepsQueues, Message
  <2>5. \A d \in Db : \A i \in 1 .. Len(received[d]) : received[d][i] \in Nat
    BY ElementOfSeq DEF TypeOK
  <2>6. ASSUME NEW i \in 1 .. Len(bus'), Numbered(bus'[i]) PROVE bus'[i].n <= seq'
    <3>1. CASE i = Len(bus) + 1
      BY <2>1, <2>6, <3>1
    <3>2. CASE i \in 1 .. Len(bus)
      <4>1. bus[i].n <= seq
        BY <2>1, <2>6, <3>2 DEF BusOrdered
      <4> QED
        BY <2>1, <2>2, <3>2, <4>1
    <3> QED
      BY <2>1, <3>1, <3>2
  <2>7. ASSUME NEW i \in 1 .. Len(bus'), NEW j \in 1 .. Len(bus'),
               i < j, Numbered(bus'[i]), Numbered(bus'[j])
        PROVE  bus'[i].n < bus'[j].n
    <3>1. i \in 1 .. Len(bus) /\ bus'[i] = bus[i]
      BY <2>1, <2>7
    <3>2. CASE j = Len(bus) + 1
      <4>1. bus[i].n <= seq
        BY <2>7, <3>1 DEF BusOrdered
      <4> QED
        BY <2>1, <2>2, <2>7, <3>1, <3>2, <4>1
    <3>3. CASE j \in 1 .. Len(bus)
      BY <2>1, <2>7, <3>1, <3>3 DEF BusOrdered
    <3> QED
      BY <2>1, <3>2, <3>3
  <2>8. \A w \in Worker : mq'[w] # NoMessage =>
          /\ mq'[w].n <= seq'
          /\ \A i \in 1 .. Len(bus') : Numbered(bus'[i]) => mq'[w].n < bus'[i].n
    <3>1. SUFFICES ASSUME NEW w \in Worker, mq'[w] # NoMessage
                   PROVE  /\ mq'[w].n <= seq'
                          /\ \A i \in 1 .. Len(bus') : Numbered(bus'[i]) => mq'[w].n < bus'[i].n
      OBVIOUS
    <3>2. mq'[w].n <= seq /\ \A i \in 1 .. Len(bus) : Numbered(bus[i]) => mq'[w].n < bus[i].n
      BY <3>1 DEF BusOrdered, KeepsQueues, Older
    <3>3. \A i \in 1 .. Len(bus') : Numbered(bus'[i]) => mq'[w].n < bus'[i].n
      BY <2>3, <2>4, <3>1, <3>2
    <3> QED
      BY <2>2, <2>4, <3>1, <3>2, <3>3
  <2>9. \A d \in Db : \A k \in 1 .. Len(received[d]) :
          /\ received[d][k] <= seq'
          /\ \A i \in 1 .. Len(bus') : Numbered(bus'[i]) => received[d][k] < bus'[i].n
    <3>1. SUFFICES ASSUME NEW d \in Db, NEW k \in 1 .. Len(received[d])
                   PROVE  /\ received[d][k] <= seq'
                          /\ \A i \in 1 .. Len(bus') :
                               Numbered(bus'[i]) => received[d][k] < bus'[i].n
      OBVIOUS
    <3>2. /\ received[d][k] <= seq
          /\ \A i \in 1 .. Len(bus) : Numbered(bus[i]) => received[d][k] < bus[i].n
      BY DEF BusOrdered, Older
    <3>3. \A i \in 1 .. Len(bus') : Numbered(bus'[i]) => received[d][k] < bus'[i].n
      BY <2>3, <2>5, <3>2
    <3> QED
      BY <2>2, <2>5, <3>2, <3>3
  <2> QED
    BY <2>6, <2>7, <2>8, <2>9 DEF BusOrdered, KeepsQueues, Older
<1> QED
  BY <1>1, <1>2 DEF Post

(* What is taken off the bus was the oldest there, and newer than all that *)
(* has left it.                                                            *)
LEMMA TakeOrdered ==
  ASSUME TypeOK, BusOrdered, KeepsQueues, NEW types, Take(types), seq' = seq,
         lpc' = "send" => sending' = Head(bus) /\ Numbered(Head(bus))
  PROVE  BusOrdered'
<1>1. /\ Len(bus) \in Nat \ {0} /\ Len(bus') = Len(bus) - 1 /\ bus[1] = Head(bus)
      /\ \A i \in 1 .. Len(bus') : bus'[i] = bus[i + 1]
      /\ \A i \in 1 .. Len(bus) : bus[i] \in Message
  BY HeadTailProperties, ElementOfSeq DEF Take, TypeOK
<1>2. \A i \in 1 .. Len(bus') : i + 1 \in 1 .. Len(bus) /\ 1 < i + 1
  BY <1>1
<1>3. \A n : (\A i \in 1 .. Len(bus) : Numbered(bus[i]) => n < bus[i].n) =>
              (\A i \in 1 .. Len(bus') : Numbered(bus'[i]) => n < bus'[i].n)
  BY <1>1, <1>2
<1>4. \A n : (\A i \in 1 .. Len(bus) : Numbered(bus[i]) => n < bus[i].n) =>
              (lpc' = "send" => n < sending'.n)
  BY <1>1
<1>5. \A i \in 1 .. Len(bus') : Numbered(bus'[i]) => bus'[i].n <= seq'
  BY <1>1, <1>2 DEF BusOrdered
<1>6. \A i, j \in 1 .. Len(bus') :
        i < j /\ Numbered(bus'[i]) /\ Numbered(bus'[j]) => bus'[i].n < bus'[j].n
  BY <1>1, <1>2 DEF BusOrdered
<1>7. lpc' = "send" =>
        /\ sending'.n <= seq'
        /\ \A i \in 1 .. Len(bus') : Numbered(bus'[i]) => sending'.n < bus'[i].n
  BY <1>1, <1>2 DEF BusOrdered
<1>8. \A w \in Worker : mq'[w] # NoMessage =>
        /\ mq'[w].n <= seq'
        /\ lpc' = "send" => mq'[w].n < sending'.n
        /\ \A i \in 1 .. Len(bus') : Numbered(bus'[i]) => mq'[w].n < bus'[i].n
  BY <1>3, <1>4 DEF BusOrdered, KeepsQueues, Older
<1>9. \A d \in Db : \A k \in 1 .. Len(received[d]) :
        /\ received[d][k] <= seq'
        /\ lpc' = "send" => received[d][k] < sending'.n
        /\ \A i \in 1 .. Len(bus') : Numbered(bus'[i]) => received[d][k] < bus'[i].n
  BY <1>3, <1>4 DEF BusOrdered, Older
<1> QED
  BY <1>5, <1>6, <1>7, <1>8, <1>9 DEF BusOrdered, KeepsQueues, Older

(* A send that ends hands the worker what was being sent.                  *)
LEMMA SendOrdered == TypeOK /\ BusOrdered /\ SendDone => BusOrdered'
<1> SUFFICES ASSUME TypeOK, BusOrdered, SendDone PROVE BusOrdered'
  OBVIOUS
<1>1. /\ lpc = "send" /\ lpc' = "drain" /\ bus' = bus /\ seq' = seq /\ received' = received
      /\ \A w \in Worker : mq'[w] # NoMessage => mq'[w] = mq[w] \/ mq'[w] = sending
  BY DEF SendDone, TypeOK, bvars
<1> QED
  BY <1>1 DEF BusOrdered, Older

(* What a worker reads it had in its queue.                                *)
LEMMA ReceiveOrdered ==
  ASSUME TypeOK, BusOrdered, NEW w \in Worker, Receive(w)
  PROVE  BusOrdered'
<1>1. /\ mq[w] # NoMessage /\ mq[w].n \in Nat
      /\ UNCHANGED <<bus, seq, lpc, sending>>
      /\ mq' = [mq EXCEPT ![w] = NoMessage]
      /\ received' = [received EXCEPT ![dbOf[w]] = Append(@, mq[w].n)]
  BY DEF Receive, TypeOK, Message, lvars, bvars
<1>2. Older(mq[w].n)
  BY <1>1 DEF BusOrdered
<1>3. ASSUME NEW d \in Db, NEW i \in 1 .. Len(received'[d]) PROVE Older(received'[d][i])
  <2>1. CASE d = dbOf[w]
    <3>1. received[d] \in Seq(Nat) /\ received'[d] = Append(received[d], mq[w].n)
      BY <1>1, <2>1 DEF TypeOK
    <3>2. \/ received'[d][i] = mq[w].n
          \/ i \in 1 .. Len(received[d]) /\ received'[d][i] = received[d][i]
      BY <1>1, <1>3, <3>1, AppendProperties
    <3> QED
      BY <1>2, <3>2 DEF BusOrdered
  <2>2. CASE d # dbOf[w]
    BY <1>1, <1>3, <2>2 DEF TypeOK, BusOrdered
  <2> QED
    BY <2>1, <2>2
<1>4. \A v \in Worker : mq'[v] # NoMessage => Older(mq'[v].n)
  BY <1>1 DEF TypeOK, BusOrdered
<1>5. BusOrdered' <=>
        /\ \A i \in 1 .. Len(bus) : Numbered(bus[i]) => bus[i].n <= seq
        /\ \A i, j \in 1 .. Len(bus) :
             i < j /\ Numbered(bus[i]) /\ Numbered(bus[j]) => bus[i].n < bus[j].n
        /\ lpc = "send" =>
             /\ sending.n <= seq
             /\ \A i \in 1 .. Len(bus) : Numbered(bus[i]) => sending.n < bus[i].n
        /\ \A v \in Worker : mq'[v] # NoMessage => Older(mq'[v].n)
        /\ \A d \in Db : \A i \in 1 .. Len(received'[d]) : Older(received'[d][i])
  BY <1>1 DEF BusOrdered, Older
<1> QED
  BY <1>3, <1>4, <1>5 DEF BusOrdered

(* The bus and everything that has left it stay in order.                  *)
LEMMA NextOrdered == TypeOK /\ BusOrdered /\ [Next]_vars => BusOrdered'
<1> SUFFICES ASSUME TypeOK, BusOrdered, [Next]_vars PROVE BusOrdered'
  OBVIOUS
<1> USE SameOrdered DEF KeepsBus, KeepsQueues
<1>1. CASE UNCHANGED vars
  BY <1>1 DEF vars, lvars, wvars, bvars
<1>2. ASSUME NEW d \in Db, Boot(d) PROVE BusOrdered'
  BY <1>2 DEF Boot, StartWorker, wvars, bvars
<1>3. ASSUME NEW d \in Db, Reap(d) PROVE BusOrdered'
  BY <1>3 DEF Reap, lvars, wvars, bvars
<1>4. CASE Wake \/ Reaped \/ Drained \/ SendDetached \/ LauncherRestart \/ Sigterm
           \/ LauncherCrash
  BY <1>4 DEF Wake, Reaped, Drained, SendDetached, LauncherRestart, Sigterm, LauncherCrash,
              wvars, bvars
<1>5. CASE HandleExist \/ HandleShutdown \/ HandleNewConfigStart \/ HandleDropped
  <2>1. PICK types : Take(types)
    BY <1>5 DEF HandleExist, HandleShutdown, HandleNewConfigStart, HandleDropped
  <2>2. lpc' = "drain" /\ seq' = seq
    BY <1>5, <2>1
    DEF HandleExist, HandleShutdown, HandleNewConfigStart, HandleDropped, Take, lvars, bvars
  <2>3. mq' = mq /\ received' = received
    BY <1>5 DEF HandleExist, HandleShutdown, HandleNewConfigStart, HandleDropped,
                RegisterWorker, ShutdownWorker, StartWorker, wvars
  <2> QED
    BY <2>1, <2>2, <2>3, TakeOrdered
<1>6. CASE HandleForward
  <2>1. /\ Take({"NewConfig", "Command"}) /\ seq' = seq /\ sending' = Head(bus)
        /\ mq' = mq /\ received' = received
    BY <1>6 DEF HandleForward, wvars, bvars
  <2>2. Numbered(Head(bus))
    BY <2>1 DEF Take, Numbered
  <2> QED
    BY <2>1, <2>2, TakeOrdered
<1>7. CASE SendDone
  BY <1>7, SendOrdered
<1>8. ASSUME NEW w \in Worker,
             NeverStarts(w) \/ CheckStatus(w) \/ Connect(w) \/ EnterLoop(w) \/ LeaveLoop(w)
               \/ ConnectFails(w) \/ WorkerCrash(w)
      PROVE  BusOrdered'
  <2>1. UNCHANGED <<bus, seq, lpc, sending, received>>
    BY <1>8 DEF NeverStarts, CheckStatus, Connect, EnterLoop, LeaveLoop, ConnectFails,
                WorkerCrash, lvars, bvars
  <2>2. \/ mq' = mq
        \/ mq' = [mq EXCEPT ![w] = NoMessage]
    BY <1>8 DEF NeverStarts, CheckStatus, Connect, EnterLoop, LeaveLoop, ConnectFails,
                WorkerCrash, Ends
  <2> QED
    BY <2>1, <2>2 DEF TypeOK
<1>9. ASSUME NEW w \in Worker, SendStatus(w) PROVE BusOrdered'
  <2>1. Msg(status[w], dbOf[w], 0) \in Message /\ ~ Numbered(Msg(status[w], dbOf[w], 0))
    BY MsgType DEF TypeOK, MessageType, Msg, Numbered, ExtensionStatus
  <2>2. /\ Post(Msg(status[w], dbOf[w], 0)) /\ lpc # "send"
        /\ UNCHANGED <<seq, lpc, sending, received, mq>>
    BY <1>9 DEF SendStatus, BusFree, lvars, bvars
  <2> QED
    BY <2>1, <2>2, PostOrdered DEF TypeOK
<1>10. ASSUME NEW w \in Worker, Exit(w) PROVE BusOrdered'
  <2>1. /\ Msg("SubscriberExit", dbOf[w], 0) \in Message
        /\ ~ Numbered(Msg("SubscriberExit", dbOf[w], 0))
    BY MsgType DEF TypeOK, MessageType, Msg, Numbered
  <2>2. /\ Post(Msg("SubscriberExit", dbOf[w], 0)) /\ lpc # "send"
        /\ UNCHANGED <<seq, lpc, sending, received>>
        /\ mq' = [mq EXCEPT ![w] = NoMessage]
    BY <1>10 DEF Exit, Ends, BusFree, lvars, bvars
  <2> QED
    BY <2>1, <2>2, PostOrdered DEF TypeOK
<1>11. ASSUME NEW w \in Worker, Receive(w) PROVE BusOrdered'
  BY <1>11, ReceiveOrdered
<1>12. ASSUME NEW b \in Backend, Try(b) PROVE BusOrdered'
  <2>1. /\ lpc # "send" /\ UNCHANGED <<lpc, sending, mq, received>>
    BY <1>12 DEF Try, BusFree, lvars, wvars
  <2>2. CASE BusFits
    <3>1. seq + 1 \in Nat /\ req[b].type \in MessageType /\ req[b].db \in Db
      BY <1>12 DEF Try, TypeOK, Message
    <3>2. /\ Msg(req[b].type, req[b].db, seq + 1) \in Message
          /\ Msg(req[b].type, req[b].db, seq + 1).n = seq + 1
      BY <3>1, MsgType DEF Msg
    <3>3. Post(Msg(req[b].type, req[b].db, seq + 1)) /\ seq' = seq + 1
      BY <1>12, <2>2 DEF Try
    <3>4. /\ seq' \in Nat /\ seq <= seq'
          /\ seq < Msg(req[b].type, req[b].db, seq + 1).n
          /\ Msg(req[b].type, req[b].db, seq + 1).n <= seq'
      BY <3>1, <3>2, <3>3 DEF TypeOK
    <3>5. KeepsQueues
      BY <2>1
    <3> HIDE DEF KeepsQueues
    <3> QED
      BY <2>1, <3>2, <3>3, <3>4, <3>5, PostOrdered
  <2>3. CASE ~ BusFits
    BY <1>12, <2>1, <2>3 DEF Try
  <2> QED
    BY <2>2, <2>3
<1>13. ASSUME NEW b \in Backend, GiveUp(b) \/ Commit(b) \/ Abort(b) PROVE BusOrdered'
  BY <1>13 DEF GiveUp, Commit, Abort, lvars, wvars
<1>14. CASE Calls
  BY <1>14 DEF Calls, Call, lvars, wvars
<1>15. ASSUME NEW d \in Db, NEW to, ChangeCatalog(d, to) PROVE BusOrdered'
  BY <1>15 DEF ChangeCatalog, lvars, wvars, bvars
<1> QED
  BY <1>1, <1>2, <1>3, <1>4, <1>5, <1>6, <1>7, <1>8, <1>9, <1>10, <1>11, <1>12, <1>13,
     <1>14, <1>15
  DEF Next, SystemStep, LauncherStep, Handle, WorkerStep, BackendStep, CatalogStep, Fault

-----------------------------------------------------------------------------
(* While the launcher holds the bus a process that has not reported cannot *)
(* get further than "checked".                                             *)
Early(w) == proc[w] \in {"none", "launched", "checked"}

LEMMA StaysEarly ==
  ASSUME TypeOK, NEW w \in Worker, NEW v \in Worker, Early(v), lpc \in {"drain", "send"},
         WorkerStep(w) \/ ConnectFails(w) \/ WorkerCrash(w)
  PROVE  Early(v)'
<1>1. proc' = proc \/ (\E to : proc' = [proc EXCEPT ![w] = to])
  BY DEF WorkerStep, NeverStarts, CheckStatus, SendStatus, Connect, EnterLoop, Receive,
         LeaveLoop, Exit, ConnectFails, WorkerCrash, Moves, Ends
<1>2. CASE v # w
  BY <1>1, <1>2 DEF Early, TypeOK
<1>3. CASE v = w
  BY <1>3 DEF TypeOK, Early, BusFree, WorkerStep, NeverStarts, CheckStatus, SendStatus, Connect,
              EnterLoop, Receive, LeaveLoop, Exit, ConnectFails, WorkerCrash, Moves, Ends
<1> QED
  BY <1>2, <1>3

LEMMA SameEntry == UNCHANGED ctx => \A d \in Db : Entry(d)' = Entry(d)
BY DEF Entry, ctx

LEMMA NextNotYetServing == IInv /\ NotYetServing /\ [Next]_vars => NotYetServing'
<1> SUFFICES ASSUME IInv, NotYetServing, [Next]_vars, lpc' \in {"drain", "send"},
                    NEW d \in Db, terminated_workers'[d] # NoWorker, Entry(d)' # NoWorker
             PROVE  proc'[Entry(d)'] \in {"none", "launched", "checked"}
  BY DEF NotYetServing
<1>0. TypeOK /\ OneActive /\ EntriesConsistent
  BY DEF IInv
<1>1. CASE UNCHANGED <<lpc, ctx, proc>>
  BY <1>1, SameEntry DEF NotYetServing, ctx
<1>2. CASE Reaped
  BY <1>2 DEF Reaped, Absent, ctx
<1>3. CASE HandleExist
  <2>1. /\ Head(bus).db \in Db /\ lpc = "drain" /\ UNCHANGED <<proc, terminated_workers>>
        /\ RegisterWorker(Head(bus).db)
    BY <1>0, <1>3, TakeType DEF HandleExist, Take, RegisterWorker, wvars, TypeOK
  <2>2. Entry(d)' = Entry(d)
    BY <1>0, <2>1 DEF RegisterWorker, Entry, OneActive, TypeOK
  <2> QED
    BY <2>1, <2>2 DEF NotYetServing
<1>4. CASE HandleShutdown
  <2>1. /\ Head(bus).db \in Db /\ lpc = "drain" /\ proc' = proc
        /\ ShutdownWorker(Head(bus).db)
    BY <1>0, <1>4, TakeType DEF HandleShutdown, Take, ShutdownWorker, wvars, TypeOK
  <2>2. CASE d = Head(bus).db /\ Entry(d) # NoWorker
    BY <1>0, <2>1, <2>2 DEF ShutdownWorker, Entry, OneActive, TypeOK
  <2>3. CASE d # Head(bus).db \/ Entry(d) = NoWorker
    <3>1. Entry(d)' = Entry(d) /\ terminated_workers'[d] = terminated_workers[d]
      BY <1>0, <2>1, <2>3 DEF ShutdownWorker, Entry, TypeOK, ctx
    <3> QED
      BY <2>1, <3>1 DEF NotYetServing
  <2> QED
    BY <2>2, <2>3
<1>5. CASE HandleNewConfigStart
  <2>1. /\ Head(bus).db \in Db /\ lpc = "drain"
        /\ StartWorker(Head(bus).db)
    BY <1>0, <1>5, TakeType DEF HandleNewConfigStart, Take, TypeOK
  <2>2. CASE UNCHANGED <<ctx, wvars>>
    BY <2>1, <2>2, SameEntry DEF NotYetServing, ctx, wvars
  <2>3. ASSUME NEW w \in Worker, proc' = [proc EXCEPT ![w] = "launched"],
               pending_workers' = [pending_workers EXCEPT ![Head(bus).db] = w],
               UNCHANGED <<workers, terminated_workers>>
        PROVE  proc'[Entry(d)'] \in {"none", "launched", "checked"}
    <3>1. Entry(d)' = w \/ Entry(d)' = Entry(d)
      BY <1>0, <2>1, <2>3 DEF Entry, TypeOK
    <3>2. Entry(d)' \in Worker
      BY <1>0, <2>3, <3>1 DEF Entry, TypeOK
    <3> QED
      BY <1>0, <2>1, <2>3, <3>1, <3>2 DEF NotYetServing, TypeOK
  <2> QED
    BY <2>1, <2>2, <2>3 DEF StartWorker
<1>6. CASE HandleForward \/ HandleDropped \/ SendDone \/ SendDetached
  <2>1. lpc \in {"drain", "send"} /\ UNCHANGED <<ctx, proc>>
    BY <1>6 DEF HandleForward, HandleDropped, Take, SendDone, SendDetached, wvars
  <2> QED
    BY <2>1, SameEntry DEF NotYetServing, ctx
<1>7. ASSUME NEW w \in Worker, WorkerStep(w) \/ ConnectFails(w) \/ WorkerCrash(w)
      PROVE  proc'[Entry(d)'] \in {"none", "launched", "checked"}
  <2>1. UNCHANGED <<lpc, ctx>>
    BY <1>7 DEF WorkerStep, NeverStarts, CheckStatus, SendStatus, Connect, EnterLoop, Receive,
                LeaveLoop, Exit, ConnectFails, WorkerCrash, lvars
  <2>2. Entry(d)' = Entry(d) /\ Entry(d) \in Worker /\ Early(Entry(d))
    BY <1>0, <2>1, SameEntry DEF NotYetServing, Early, ctx, Entry, TypeOK
  <2>3. Early(Entry(d))'
    BY <1>0, <1>7, <2>1, <2>2, StaysEarly
  <2> QED
    BY <2>2, <2>3 DEF Early
<1>8. CASE (\E e \in Db : Boot(e) \/ Reap(e)) \/ Wake \/ Drained \/ LauncherRestart
             \/ LauncherCrash
  BY <1>8 DEF Boot, Reap, Wake, Drained, LauncherRestart, LauncherCrash, lvars
<1>9. CASE UNCHANGED vars \/ (\E b \in Backend : BackendStep(b)) \/ Calls \/ CatalogStep
             \/ Sigterm
  BY <1>1, <1>9 DEF vars, lvars, wvars, BackendStep, Try, GiveUp, Commit, Calls, Call,
                    CatalogStep, Abort, ChangeCatalog, Sigterm
<1> QED
  BY <1>2, <1>3, <1>4, <1>5, <1>6, <1>7, <1>8, <1>9
  DEF Next, SystemStep, LauncherStep, Handle, Fault

-----------------------------------------------------------------------------
(* Who holds what.                                                         *)

(* A message that waits has waited for the same worker, and a worker with  *)
(* a message comes into no map.                                            *)
KeepsHeld ==
  \A w \in Worker : mq'[w] # NoMessage =>
    mq'[w] = mq[w] /\ dbOf'[w] = dbOf[w] /\ (Held(w)' => Held(w))

LEMMA SameNewest == NewestHeld /\ KeepsHeld => NewestHeld'
BY DEF NewestHeld, KeepsHeld

LEMMA SameDelivered ==
  DeliveredInOrder /\ KeepsHeld /\ received' = received => DeliveredInOrder'
BY DEF DeliveredInOrder, KeepsHeld

LEMMA SameHeld == UNCHANGED ctx => \A w \in Worker : Held(w)' = Held(w)
BY DEF Held, ctx

LEMMA StartHeld ==
  ASSUME TypeOK, SlotClean, NEW d \in Db, StartWorker(d)
  PROVE  KeepsHeld
<1>1. CASE UNCHANGED <<ctx, wvars>>
  BY <1>1, SameHeld DEF KeepsHeld, wvars
<1>2. ASSUME NEW w \in Worker, FreeSlot(w), dbOf' = [dbOf EXCEPT ![w] = d],
             pending_workers' = [pending_workers EXCEPT ![d] = w],
             UNCHANGED <<workers, terminated_workers, mq>>
      PROVE  KeepsHeld
  <2>1. mq[w] = NoMessage
    BY <1>2 DEF FreeSlot, SlotClean, Alive
  <2>2. \A v \in Worker : v # w /\ Held(v)' => Held(v)
    BY <1>2 DEF Held, TypeOK
  <2> QED
    BY <1>2, <2>1, <2>2 DEF KeepsHeld, TypeOK
<1> QED
  BY <1>1, <1>2 DEF StartWorker

LEMMA MapsHeld ==
  ASSUME TypeOK,
         \/ \E d \in Db : RegisterWorker(d) \/ ShutdownWorker(d)
         \/ (\E d \in Db : Reap(d)) \/ Wake \/ LauncherCrash
  PROVE  KeepsHeld
<1> USE LauncherAssumption DEF LauncherAssumption
<1>1. ASSUME NEW d \in Db, RegisterWorker(d) PROVE KeepsHeld
  <2>1. \A w \in Worker : Held(w)' => Held(w)
    BY <1>1 DEF RegisterWorker, Held, TypeOK
  <2> QED
    BY <1>1, <2>1 DEF RegisterWorker, KeepsHeld, wvars
<1>2. ASSUME NEW d \in Db, ShutdownWorker(d) PROVE KeepsHeld
  <2>1. \A w \in Worker : Held(w)' => Held(w)
    BY <1>2 DEF ShutdownWorker, Entry, Held, TypeOK, ctx
  <2> QED
    BY <1>2, <2>1 DEF ShutdownWorker, KeepsHeld, wvars
<1>3. ASSUME NEW d \in Db, Reap(d) PROVE KeepsHeld
  <2>1. \A w \in Worker : Held(w)' => Held(w)
    BY <1>3 DEF Reap, Held, TypeOK
  <2> QED
    BY <1>3, <2>1 DEF Reap, KeepsHeld, wvars
<1>4. CASE Wake
  <2>1. \A w \in Worker : Held(w)' => Held(w)
    BY <1>4 DEF Wake, Held, TypeOK, Absent, ctx
  <2> QED
    BY <1>4, <2>1 DEF Wake, KeepsHeld
<1>5. CASE LauncherCrash
  <2>1. \A w \in Worker : Held(w)' => Held(w)
    BY <1>5 DEF LauncherCrash, Held, Absent
  <2> QED
    BY <1>5, <2>1 DEF LauncherCrash, KeepsHeld, wvars
<1> QED
  BY <1>1, <1>2, <1>3, <1>4, <1>5

(* The receiver of a send that succeeds is the only worker of its database *)
(* in the maps.                                                            *)
LEMMA ReceiverAlone ==
  ASSUME IInv, NotYetServing, SendDone
  PROVE  /\ Receiver \in Worker /\ dbOf[Receiver] = sending.db
         /\ \A v \in Worker : Held(v) /\ dbOf[v] = sending.db => v = Receiver
<1> USE LauncherAssumption DEF LauncherAssumption
<1>1. TypeOK /\ OneActive /\ EntriesConsistent /\ SendRegistered
  BY DEF IInv
<1>2. sending.db \in Db /\ Receiver \in Worker /\ proc[Receiver] = "serving" /\ lpc = "send"
  BY <1>1 DEF SendDone, SendRegistered, Receiver, TypeOK, Message
<1>3. dbOf[Receiver] = sending.db /\ Entry(sending.db) = Receiver
  BY <1>1, <1>2 DEF EntriesConsistent, Receiver, Entry
<1>4. terminated_workers[sending.db] = NoWorker /\ pending_workers[sending.db] = NoWorker
  BY <1>1, <1>2, <1>3 DEF NotYetServing, OneActive, Receiver
<1>5. ASSUME NEW v \in Worker, Held(v), dbOf[v] = sending.db PROVE v = Receiver
  BY <1>1, <1>2, <1>4, <1>5 DEF Held, EntriesConsistent, Receiver
<1> QED
  BY <1>2, <1>3, <1>5

LEMMA SendDelivered ==
  ASSUME IInv, BusOrdered, NotYetServing, NewestHeld, DeliveredInOrder, SendDone
  PROVE  NewestHeld' /\ DeliveredInOrder'
<1>1. /\ lpc = "send" /\ UNCHANGED <<ctx, dbOf, received>>
      /\ mq' = [mq EXCEPT ![Receiver] = sending]
      /\ TypeOK
  BY DEF SendDone, IInv
<1>2. /\ Receiver \in Worker /\ dbOf[Receiver] = sending.db
      /\ \A v \in Worker : Held(v) /\ dbOf[v] = sending.db => v = Receiver
  BY ReceiverAlone
<1>3. \A v \in Worker : (Held(v)' <=> Held(v))
  BY <1>1, SameHeld
<1>4. mq'[Receiver] = sending /\ \A v \in Worker \ {Receiver} : mq'[v] = mq[v]
  BY <1>1, <1>2 DEF TypeOK
<1>5. \A v \in Worker : mq[v] # NoMessage => mq[v].n < sending.n
  BY <1>1 DEF BusOrdered, Older
<1>6. \A i \in 1 .. Len(received[sending.db]) : received[sending.db][i] < sending.n
  BY <1>1, <1>2 DEF BusOrdered, Older, TypeOK
<1>7. NewestHeld'
  BY <1>1, <1>2, <1>3, <1>4, <1>5 DEF NewestHeld
<1>8. DOMAIN received[sending.db] = 1 .. Len(received[sending.db])
  BY <1>1, <1>2, LenProperties DEF TypeOK
<1>9. DeliveredInOrder'
  BY <1>1, <1>2, <1>3, <1>4, <1>6, <1>8 DEF DeliveredInOrder
<1> QED
  BY <1>7, <1>9

LEMMA ReceiveDelivered ==
  ASSUME TypeOK, NewestHeld, DeliveredInOrder, NEW w \in Worker, Receive(w)
  PROVE  NewestHeld' /\ DeliveredInOrder'
<1>1. /\ mq[w] # NoMessage /\ mq[w].n \in Nat /\ dbOf[w] \in Db
      /\ UNCHANGED <<ctx, dbOf>>
      /\ mq' = [mq EXCEPT ![w] = NoMessage]
      /\ received' = [received EXCEPT ![dbOf[w]] = Append(@, mq[w].n)]
  BY DEF Receive, TypeOK, Message
<1>2. KeepsHeld
  BY <1>1, SameHeld DEF KeepsHeld, TypeOK
<1>3. ASSUME NEW v \in Worker, Held(v)', mq'[v] # NoMessage,
             NEW i \in DOMAIN received'[dbOf'[v]]
      PROVE  received'[dbOf'[v]][i] < mq'[v].n
  <2>1. v # w /\ mq'[v] = mq[v] /\ Held(v) /\ dbOf'[v] = dbOf[v] /\ dbOf[v] \in Db
    BY <1>1, <1>2, <1>3 DEF KeepsHeld, TypeOK
  <2>2. CASE dbOf[v] = dbOf[w]
    <3>1. mq[w].n < mq[v].n
      BY <1>1, <1>3, <2>1, <2>2 DEF NewestHeld
    <3>2. received[dbOf[w]] \in Seq(Nat) /\ received'[dbOf[v]] = Append(received[dbOf[w]], mq[w].n)
      BY <1>1, <2>2 DEF TypeOK
    <3>3. \/ received'[dbOf[v]][i] = mq[w].n
          \/ i \in DOMAIN received[dbOf[w]] /\ received'[dbOf[v]][i] = received[dbOf[w]][i]
      <4> DEFINE s == received[dbOf[w]]
      <4>1. i \in DOMAIN Append(s, mq[w].n)
        BY <1>3, <2>1, <3>2
      <4>2. s \in Seq(Nat)
        BY <3>2
      <4> HIDE DEF s
      <4>3. /\ DOMAIN s = 1 .. Len(s) /\ Len(s) \in Nat
            /\ DOMAIN Append(s, mq[w].n) = 1 .. Len(s) + 1
        BY <1>1, <4>2, AppendProperties, LenProperties
      <4>4. Append(s, mq[w].n)[i] = mq[w].n \/ (i \in DOMAIN s /\ Append(s, mq[w].n)[i] = s[i])
        BY <1>1, <4>1, <4>2, <4>3, AppendProperties
      <4> QED
        BY <3>2, <4>4 DEF s
    <3> QED
      BY <1>3, <2>1, <2>2, <3>1, <3>3 DEF DeliveredInOrder
  <2>3. CASE dbOf[v] # dbOf[w]
    BY <1>1, <1>3, <2>1, <2>3 DEF TypeOK, DeliveredInOrder
  <2> QED
    BY <2>2, <2>3
<1> QED
  BY <1>2, <1>3, SameNewest DEF DeliveredInOrder

LEMMA NextDelivered ==
  IInv /\ OrderInv /\ [Next]_vars => NewestHeld' /\ DeliveredInOrder'
<1> SUFFICES ASSUME IInv, OrderInv, [Next]_vars PROVE NewestHeld' /\ DeliveredInOrder'
  OBVIOUS
<1>0. TypeOK /\ SlotClean /\ BusOrdered /\ NotYetServing /\ NewestHeld /\ DeliveredInOrder
  BY DEF IInv, OrderInv
<1> USE <1>0, SameNewest, SameDelivered
<1>1. CASE UNCHANGED <<ctx, dbOf, mq, received>>
  BY <1>1, SameHeld DEF KeepsHeld
<1>2. ASSUME NEW d \in Db, Boot(d) PROVE NewestHeld' /\ DeliveredInOrder'
  BY <1>2, StartHeld DEF Boot
<1>3. ASSUME NEW d \in Db, Reap(d) PROVE NewestHeld' /\ DeliveredInOrder'
  BY <1>3, MapsHeld DEF Reap
<1>4. CASE Wake \/ LauncherCrash
  BY <1>4, MapsHeld DEF Wake, LauncherCrash
<1>5. CASE Reaped \/ Drained \/ SendDetached \/ LauncherRestart \/ Sigterm
  BY <1>1, <1>5 DEF Reaped, Drained, SendDetached, LauncherRestart, Sigterm, wvars
<1>6. CASE HandleExist
  <2>1. Head(bus).db \in Db
    BY <1>6, TakeType DEF HandleExist, TypeOK
  <2> QED
    BY <1>6, <2>1, MapsHeld DEF HandleExist
<1>7. CASE HandleShutdown
  <2>1. Head(bus).db \in Db
    BY <1>7, TakeType DEF HandleShutdown, TypeOK
  <2> QED
    BY <1>7, <2>1, MapsHeld DEF HandleShutdown
<1>8. CASE HandleNewConfigStart
  <2>1. Head(bus).db \in Db
    BY <1>8, TakeType DEF HandleNewConfigStart, TypeOK
  <2> QED
    BY <1>8, <2>1, StartHeld DEF HandleNewConfigStart
<1>9. CASE HandleForward \/ HandleDropped
  BY <1>1, <1>9 DEF HandleForward, HandleDropped, wvars
<1>10. CASE SendDone
  BY <1>10, SendDelivered
<1>11. ASSUME NEW w \in Worker, Receive(w) PROVE NewestHeld' /\ DeliveredInOrder'
  BY <1>11, ReceiveDelivered
<1>12. ASSUME NEW w \in Worker,
              NeverStarts(w) \/ CheckStatus(w) \/ SendStatus(w) \/ Connect(w) \/ EnterLoop(w)
                \/ LeaveLoop(w) \/ Exit(w) \/ ConnectFails(w) \/ WorkerCrash(w)
       PROVE  NewestHeld' /\ DeliveredInOrder'
  <2>1. UNCHANGED <<ctx, dbOf, received>>
    BY <1>12 DEF NeverStarts, CheckStatus, SendStatus, Connect, EnterLoop, LeaveLoop, Exit,
                 ConnectFails, WorkerCrash
  <2>2. mq' = mq \/ mq' = [mq EXCEPT ![w] = NoMessage]
    BY <1>12 DEF NeverStarts, CheckStatus, SendStatus, Connect, EnterLoop, LeaveLoop, Exit,
                 ConnectFails, WorkerCrash, Ends
  <2>3. KeepsHeld
    BY <2>1, <2>2, SameHeld DEF KeepsHeld, TypeOK
  <2> QED
    BY <2>1, <2>3
<1>13. CASE UNCHANGED vars \/ (\E b \in Backend : BackendStep(b)) \/ Calls \/ CatalogStep
  BY <1>1, <1>13 DEF vars, wvars, BackendStep, Try, GiveUp, Commit, Calls, Call, CatalogStep,
                     Abort, ChangeCatalog
<1> QED
  BY <1>2, <1>3, <1>4, <1>5, <1>6, <1>7, <1>8, <1>9, <1>10, <1>11, <1>12, <1>13
  DEF Next, SystemStep, LauncherStep, Handle, WorkerStep, Fault

-----------------------------------------------------------------------------
LEMMA InitOrder == Init => OrderInv
<1> SUFFICES ASSUME Init PROVE OrderInv
  OBVIOUS
<1>1. /\ bus = <<>> /\ Len(bus) = 0 /\ lpc = "boot"
      /\ \A w \in Worker : mq[w] = NoMessage
      /\ \A d \in Db : received[d] = <<>> /\ Len(received[d]) = 0 /\ DOMAIN received[d] = {}
  BY DEF Init
<1> QED
  BY <1>1 DEF OrderInv, BusOrdered, NotYetServing, NewestHeld, DeliveredInOrder, Older

(* What waits for a worker the launcher has in its maps is newer than      *)
(* everything its database has read, with any number of databases, slots   *)
(* and messages, and with every fault: the order the backends' sends had   *)
(* on the bus survives the workers that end and are replaced.              *)
THEOREM MessagesInOrder == Spec => []DeliveredInOrder
<1>1. Init => IInv /\ OrderInv
  BY InitIInv, InitOrder
<1>2. IInv /\ OrderInv /\ [Next]_vars => (IInv /\ OrderInv)'
  BY NextIInv, NextOrdered, NextNotYetServing, NextDelivered DEF OrderInv, IInv
<1>3. OrderInv => DeliveredInOrder
  BY DEF OrderInv
<1> QED
  BY <1>1, <1>2, <1>3, PTL DEF Spec
=============================================================================
