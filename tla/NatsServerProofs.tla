-------------------------- MODULE NatsServerProofs --------------------------
(***************************************************************************)
(* Proofs about NatsClient for any options, names and number of            *)
(* connections, and about NatsServer for any written options, defaults and *)
(* widths.                                                                 *)
(***************************************************************************)
EXTENDS NatsServer, TLAPS

(***************************************************************************)
(* The client.                                                             *)
(***************************************************************************)

(* Getting a connection, kept or new, keeps the invariant as long as the   *)
(* cache of buckets is kept or extended with a handle of that connection.  *)
LEMMA ConnectedKeeps ==
  ASSUME IInv, Connected, UNCHANGED <<fdw, insync>>,
         cached_object_stores' \in [Name -> Handle \cup {None}],
         used' \in Handle \cup {None},
         cached_buckets' \in [Name -> Handle \cup {None}],
         \A n \in Name : cached_buckets'[n] # None =>
           cached_buckets'[n] \in {cached_buckets[n], jetstream'}
  PROVE  IInv'
<1> USE ClientAssumption DEF ClientAssumption
<1>1. CASE connection # None
  <2>1. /\ connection' = connection /\ jetstream' = jetstream
        /\ current_config' = current_config /\ made' = made /\ drained' = drained
    BY <1>1 DEF Connected, Live
  <2> QED
    BY <2>1 DEF IInv, TypeOK, HandlesOfConnection
<1>2. CASE connection = None
  <2> PICK new \in [id : {made + 1}, opt : {Wanted}, rooted : Roots] : connection' = new
    BY <1>2 DEF Connected, Live
  <2>1. /\ connection' = new /\ jetstream' = new
        /\ current_config' = Wanted /\ made' = made + 1 /\ drained' = drained
    BY <1>2 DEF Connected
  <2>2. /\ Wanted \in Opt /\ new \in Handle /\ new # None
        /\ new.id = made + 1 /\ new.opt = Wanted
    BY DEF Wanted, IInv, TypeOK, Handle
  <2>3. \A n \in Name : cached_buckets[n] = None
    BY <1>2 DEF IInv, HandlesOfConnection
  <2>4. TypeOK'
    BY <2>1, <2>2 DEF IInv, TypeOK
  <2>5. HandlesOfConnection'
    <3>1. made + 1 \notin drained
      BY DEF IInv, TypeOK
    <3> QED
      BY <2>1, <2>2, <2>3, <3>1 DEF HandlesOfConnection
  <2>6. insync' /\ current_config' # None => current_config' = fdw'
    BY <2>1 DEF Wanted, IInv
  <2>7. \A i \in drained' : i <= made'
    BY <2>1 DEF IInv, TypeOK
  <2> QED
    BY <2>1, <2>2, <2>4, <2>5, <2>6, <2>7 DEF IInv, TypeOK
<1> QED
  BY <1>1, <1>2

(* Closing the connection keeps it. *)
LEMMA InvalidateKeeps ==
  ASSUME IInv, Invalidate, UNCHANGED fdw,
         used' = None, insync' = TRUE, current_config' \in {None, fdw}
  PROVE  IInv'
<1> USE ClientAssumption DEF ClientAssumption
<1>1. TypeOK'
  BY DEF IInv, TypeOK, Invalidate, NoEntry, Handle
<1>2. HandlesOfConnection'
  BY DEF Invalidate, HandlesOfConnection, NoEntry
<1>3. \A i \in drained' : i <= made'
  BY DEF IInv, Invalidate
<1>4. insync' /\ current_config' # None => current_config' = fdw'
  OBVIOUS
<1> QED
  BY <1>1, <1>2, <1>3, <1>4 DEF IInv, Invalidate

(* So does a call that leaves the client as it is. *)
LEMMA ClientKept ==
  ASSUME IInv, UNCHANGED <<client, fdw>>,
         used' \in Handle \cup {None},
         insync' \in BOOLEAN, insync' => insync \/ current_config = fdw
  PROVE  IInv'
<1>1. /\ connection' = connection /\ jetstream' = jetstream
      /\ cached_buckets' = cached_buckets /\ cached_object_stores' = cached_object_stores
      /\ current_config' = current_config /\ drained' = drained /\ made' = made
      /\ fdw' = fdw
  BY DEF client, caches
<1>2. TypeOK'
  BY <1>1 DEF IInv, TypeOK
<1>3. HandlesOfConnection'
  BY <1>1 DEF IInv, HandlesOfConnection
<1> QED
  BY <1>1, <1>2, <1>3 DEF IInv

(* The invariant holds in every reachable state. *)
THEOREM Inductive == Spec => []IInv
<1> USE ClientAssumption DEF ClientAssumption
<1>1. Init => IInv
  <2> SUFFICES ASSUME Init PROVE IInv
    OBVIOUS
  <2>1. TypeOK
    BY DEF Init, TypeOK, NoEntry
  <2>2. HandlesOfConnection
    BY DEF Init, HandlesOfConnection, NoEntry
  <2> QED
    BY <2>1, <2>2 DEF Init, IInv
<1>2. IInv /\ [Next]_vars => IInv'
  <2> SUFFICES ASSUME IInv, [Next]_vars PROVE IInv'
    OBVIOUS
  <2>1. CASE ConnectFailed
    BY <2>1 DEF ConnectFailed, IInv, TypeOK, HandlesOfConnection, caches
  <2>2. CASE Publish
    <3>1. Live \subseteq Handle
      BY DEF Live, Wanted, Handle, IInv, TypeOK
    <3> QED
      BY <2>2, <3>1, ConnectedKeeps DEF Publish, Connected, caches, IInv, TypeOK
  <2>3. ASSUME NEW n \in Name, UseBucket(n) PROVE IInv'
    <3>1. CASE cached_buckets[n] # None
      <4>1. used' = cached_buckets[n] /\ UNCHANGED <<client, fdw, insync>>
        BY <2>3, <3>1 DEF UseBucket
      <4> QED
        BY <4>1, ClientKept DEF IInv, TypeOK
    <3>2. CASE cached_buckets[n] = None
      <4>1. Connected /\ used' = jetstream' /\ UNCHANGED <<cached_object_stores, fdw, insync>>
        BY <2>3, <3>2 DEF UseBucket
      <4>2. jetstream' \in Handle
        BY <4>1 DEF Connected, Live, Wanted, Handle, IInv, TypeOK, HandlesOfConnection
      <4>3. cached_buckets' \in {cached_buckets, [cached_buckets EXCEPT ![n] = jetstream']}
        BY <2>3, <3>2 DEF UseBucket
      <4> QED
        BY <4>1, <4>2, <4>3, ConnectedKeeps DEF IInv, TypeOK
    <3> QED
      BY <3>1, <3>2
  <2>4. ASSUME NEW n \in Name, UseStore(n) PROVE IInv'
    <3>1. CASE cached_object_stores[n] # None
      <4>1. used' = cached_object_stores[n] /\ UNCHANGED <<client, fdw, insync>>
        BY <2>4, <3>1 DEF UseStore
      <4> QED
        BY <4>1, ClientKept DEF IInv, TypeOK
    <3>2. CASE cached_object_stores[n] = None
      <4>1. Connected /\ used' = jetstream' /\ UNCHANGED <<cached_buckets, fdw, insync>>
        BY <2>4, <3>2 DEF UseStore
      <4>2. jetstream' \in Handle
        BY <4>1 DEF Connected, Live, Wanted, Handle, IInv, TypeOK, HandlesOfConnection
      <4>3. cached_object_stores' \in
              {cached_object_stores, [cached_object_stores EXCEPT ![n] = jetstream']}
        BY <2>4, <3>2 DEF UseStore
      <4> QED
        BY <4>1, <4>2, <4>3, ConnectedKeeps DEF IInv, TypeOK
    <3> QED
      BY <3>1, <3>2
  <2>5. CASE ReloadConf
    <3>1. CASE Changed
      BY <2>5, <3>1, InvalidateKeeps DEF ReloadConf
    <3>2. CASE ~ Changed
      BY <2>5, <3>2, ClientKept DEF ReloadConf, Changed
    <3> QED
      BY <3>1, <3>2
  <2>6. CASE ReloadConfForce
    BY <2>6, InvalidateKeeps DEF ReloadConfForce
  <2>7. ASSUME NEW o \in Opt, AlterServer(o) PROVE IInv'
    BY <2>7 DEF AlterServer, IInv, TypeOK, HandlesOfConnection, client, caches
  <2>8. CASE UNCHANGED vars
    BY <2>8 DEF vars, IInv, TypeOK, HandlesOfConnection, client, caches
  <2> QED
    BY <2>1, <2>2, <2>3, <2>4, <2>5, <2>6, <2>7, <2>8 DEF Next, Call
<1> QED
  BY <1>1, <1>2, PTL DEF Spec

(* The fields of the client have their types: a call never finds a handle  *)
(* made without options, whatever failed before.                           *)
THEOREM TypeCorrect == Spec => []TypeOK
<1>1. IInv => TypeOK
  BY DEF IInv
<1> QED
  BY <1>1, Inductive, PTL

(* Connection, context and cached buckets always belong together: the      *)
(* expect of get_jetstream never panics.                                   *)
THEOREM HandlesBelong == Spec => []HandlesOfConnection
<1>1. IInv => HandlesOfConnection
  BY DEF IInv
<1> QED
  BY <1>1, Inductive, PTL

(* After a reload the connection is one to the server that is configured.  *)
THEOREM ReloadEffective == Spec => []ReloadTakesEffect
<1>1. IInv => ReloadTakesEffect
  BY ClientAssumption DEF ClientAssumption, IInv, HandlesOfConnection, ReloadTakesEffect, TypeOK, Handle
<1> QED
  BY <1>1, Inductive, PTL

(***************************************************************************)
(* The options of the foreign server.                                      *)
(***************************************************************************)

(* Whatever is written, or not found, is parsed to options of a server.    *)
LEMMA FetchedIsParsed ==
  ASSUME NEW s \in Written \cup {None}, NEW f \in BOOLEAN
  PROVE  FetchConfig(s, f) \in Opt
BY ServerAssumption DEF ServerAssumption, ParsedOpt, FetchConfig

(* What fetch_config returns is what the server and the lookup say.        *)
Read ==
  /\ server \in Written \cup {None} /\ found \in BOOLEAN
  /\ fdw = FetchConfig(server, found)

(* A step of the server or the lookup is one of the client or none.        *)
LEMMA ReadsStep ==
  ASSUME Read, NEW s \in Written \cup {None}, NEW f \in BOOLEAN, Reads(s, f)
  PROVE  Read' /\ [Next]_vars
<1>1. FetchConfig(s, f) \in Opt
  BY FetchedIsParsed
<1>2. CASE FetchConfig(s, f) = fdw
  <2>1. UNCHANGED vars
    BY <1>2 DEF Reads
  <2>2. fdw' = fdw
    BY <2>1 DEF vars
  <2> QED
    BY <1>2, <2>1, <2>2 DEF Reads, Read
<1>3. CASE FetchConfig(s, f) # fdw
  <2>1. AlterServer(FetchConfig(s, f))
    BY <1>3 DEF Reads
  <2>2. fdw' = FetchConfig(s, f)
    BY <2>1 DEF AlterServer
  <2> QED
    BY <1>1, <2>1, <2>2 DEF Reads, Read, Next
<1> QED
  BY <1>2, <1>3

(* No operation of the client changes what is written.                     *)
LEMMA ClientKeepsFdw ==
  ASSUME ClientStep
  PROVE  fdw' = fdw
BY DEF ClientStep, Call, ConnectFailed, Publish, UseBucket, UseStore, ReloadConf, ReloadConfForce

LEMMA ServerStep ==
  ASSUME Read, [ServerNext]_serverVars
  PROVE  Read' /\ [Next]_vars
<1>1. CASE ClientStep
  <2>1. Next
    BY <1>1 DEF ClientStep, Next
  <2> QED
    BY <1>1, <2>1, ClientKeepsFdw DEF ClientStep, Read
<1>2. CASE LookupChanges
  BY <1>2, ReadsStep DEF LookupChanges, Read
<1>3. ASSUME NEW s \in Written \cup {None}, WriteServer(s) PROVE Read' /\ [Next]_vars
  BY <1>3, ReadsStep DEF WriteServer, Read
<1>4. CASE UNCHANGED serverVars
  BY <1>4 DEF serverVars, vars, Read
<1> QED
  BY <1>1, <1>2, <1>3, <1>4 DEF ServerNext

(* A client whose options are written in the catalog, looked up and parsed *)
(* is a client of NatsClient, whose theorems hold of it.                   *)
THEOREM ServerImplementsClient == ServerSpec => Spec /\ []Read
<1>1. ServerInit => Init /\ Read
  BY DEF ServerInit, Read
<1>2. Read /\ [ServerNext]_serverVars => Read' /\ [Next]_vars
  BY ServerStep
<1> QED
  BY <1>1, <1>2, PTL DEF ServerSpec, Spec

(* After a reload the connection requires TLS and presents a certificate   *)
(* as the options say that are written, for every way of writing them;     *)
(* unless it was made while current_dir() failed, and then it does neither.*)
THEOREM TlsFollowed == ServerSpec => []TlsAsWritten
<1>1. IInv /\ Read => TlsAsWritten
  <2> SUFFICES ASSUME IInv, Read, insync, found, connection # None, server # None
               PROVE  TlsAsWritten
    BY DEF TlsAsWritten
  <2>1. connection.opt = fdw /\ connection.rooted \in BOOLEAN
    BY ClientAssumption DEF ClientAssumption, IInv, HandlesOfConnection, TypeOK, Handle
  <2>2. connection.opt.tls = Tls(server)
    BY <2>1 DEF Read, FetchConfig, ParseConfig
  <2>3. CASE ~ connection.rooted
    <3>1. Asked(connection) = [kind |-> "None"]
      BY <2>3 DEF Asked
    <3> QED
      BY <2>3, <3>1 DEF TlsAsWritten
  <2>4. CASE connection.rooted
    <3>1. Asked(connection) = Tls(server)
      BY <2>2, <2>4 DEF Asked
    <3> QED
      BY <2>4, <3>1 DEF TlsAsWritten, Tls, HasCa, HasCertificate
  <2> QED
    BY <2>1, <2>3, <2>4
<1> QED
  BY <1>1, ServerImplementsClient, Inductive, PTL
=============================================================================
