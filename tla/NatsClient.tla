----------------------------- MODULE NatsClient -----------------------------
(***************************************************************************)
(* The NATS client of one backend (src/nats_client.rs): a connection made  *)
(* on first use, the JetStream context on it, the caches of key-value      *)
(* buckets and object stores, and the two reload functions of              *)
(* src/api/mod.rs.  A backend is one thread and every SQL function blocks  *)
(* on its future, so a call is one step.                                   *)
(*                                                                         *)
(* A handle (connection, context, bucket or store) is the record of the    *)
(* connection it was made on: its number, the options it was made for, and *)
(* whether the working directory could be read then: without it the        *)
(* connection is made without the TLS options.                             *)
(* Only nats_opt of a Config matters here: the comparison of               *)
(* check_and_invalidate_connection ignores the rest.  What NATS answers to *)
(* a connect or a request is a choice of the step.                         *)
(*                                                                         *)
(* Operators Mut<X> are wrong versions of X used to show that a property   *)
(* can fail; no specification of this project uses them.                   *)
(***************************************************************************)
EXTENDS Naturals

CONSTANTS
  Opt,       (* NATS connection options; each names a server.              *)
  Name,      (* Names of buckets and of object stores.                     *)
  None,      (* Option::None, and an absent entry of a cache.              *)
  Roots,     (* Whether current_dir() returns a directory: TRUE, and FALSE *)
             (* where it may fail.                                         *)
  MaxConn    (* Bound: connections the backend makes.                      *)

ASSUME ClientAssumption ==
  /\ None \notin Opt
  /\ Roots \subseteq BOOLEAN
  /\ None \notin [id : Nat, opt : Opt, rooted : BOOLEAN]
  /\ MaxConn \in Nat

VARIABLES
  connection, jetstream,                  (* The fields of NatsClient.     *)
  cached_buckets, cached_object_stores,
  current_config,
  fdw,         (* Options of the foreign server, as fetch_config reads them. *)
  drained,     (* Numbers of the connections that were drained.            *)
  made,        (* Connections made so far.                                 *)
  used,        (* The handle the last call used, None if it got none.      *)
  insync       (* History: no ALTER SERVER since the last reload.          *)

caches == <<cached_buckets, cached_object_stores>>
client == <<connection, jetstream, caches, current_config, drained, made>>
vars   == <<client, fdw, used, insync>>

Handle == [id : Nat, opt : Opt, rooted : BOOLEAN]
NoEntry == [n \in Name |-> None]

Init ==
  /\ connection = None /\ jetstream = None
  /\ cached_buckets = NoEntry /\ cached_object_stores = NoEntry
  /\ current_config = None
  /\ fdw \in Opt
  /\ drained = {} /\ made = 0
  /\ used = None /\ insync = FALSE

(***************************************************************************)
(* Getting a connection.                                                   *)
(***************************************************************************)

(* current_config.get_or_insert_with(config_fetcher) *)
Wanted == IF current_config = None THEN fdw ELSE current_config

MutLive ==
  IF connection # None THEN {connection}
  ELSE [id : {made + 1}, opt : {current_config}, rooted : Roots]

(* The connection that get_connection and get_jetstream return: the one    *)
(* there is, or a new one to the wanted server.                            *)
Live ==
  IF connection # None THEN {connection}
  ELSE [id : {made + 1}, opt : {Wanted}, rooted : Roots]

(* initialize_connection, when there is no connection; the context is made *)
(* with it.  When current_dir() fails, the TLS options are left out and    *)
(* the configuration is kept as if they were not.                          *)
Connected ==
  /\ connection' \in Live
  /\ IF connection = None
       THEN /\ made < MaxConn /\ made' = made + 1
            /\ jetstream' = connection'
            /\ current_config' = Wanted
       ELSE UNCHANGED <<jetstream, current_config, made>>
  /\ UNCHANGED drained

(* It fails: the configuration is forgotten, to be fetched anew next time. *)
ConnectFailed ==
  /\ connection = None
  /\ current_config' = None
  /\ used' = None
  /\ UNCHANGED <<connection, jetstream, caches, drained, made, fdw, insync>>

(***************************************************************************)
(* The SQL functions.                                                      *)
(***************************************************************************)

(* publish, request, get_server_info and publish_stream. *)
Publish ==
  /\ Connected
  /\ used' = connection'
  /\ UNCHANGED <<caches, fdw, insync>>

(* put_value, get_value and delete_value: a bucket that is not cached is   *)
(* got or made through the context; if that fails nothing is cached.       *)
UseBucket(n) ==
  \/ /\ cached_buckets[n] # None
     /\ used' = cached_buckets[n]
     /\ UNCHANGED <<client, fdw, insync>>
  \/ /\ cached_buckets[n] = None
     /\ Connected
     /\ used' = jetstream'
     /\ cached_buckets' \in {cached_buckets, [cached_buckets EXCEPT ![n] = jetstream']}
     /\ UNCHANGED <<cached_object_stores, fdw, insync>>

(* get_file, put_file, delete_file, get_file_info and get_file_list. *)
UseStore(n) ==
  \/ /\ cached_object_stores[n] # None
     /\ used' = cached_object_stores[n]
     /\ UNCHANGED <<client, fdw, insync>>
  \/ /\ cached_object_stores[n] = None
     /\ Connected
     /\ used' = jetstream'
     /\ cached_object_stores' \in
          {cached_object_stores, [cached_object_stores EXCEPT ![n] = jetstream']}
     /\ UNCHANGED <<cached_buckets, fdw, insync>>

MutInvalidate ==
  /\ connection' = None
  /\ jetstream' = None
  /\ drained' = IF connection = None THEN drained ELSE drained \cup {connection.id}
  /\ UNCHANGED <<caches, made>>

(* invalidate_connection, apart from current_config: the cache of buckets  *)
(* is cleared, that of object stores is not.                               *)
Invalidate ==
  /\ connection' = None
  /\ cached_buckets' = NoEntry
  /\ jetstream' = None
  /\ drained' = IF connection = None THEN drained ELSE drained \cup {connection.id}
  /\ UNCHANGED <<cached_object_stores, made>>

MutChanged == current_config = None
Changed == current_config # fdw

(* pgnats_reload_conf: check_and_invalidate_connection. *)
ReloadConf ==
  /\ IF Changed
       THEN Invalidate /\ current_config' = fdw
       ELSE UNCHANGED client
  /\ used' = None /\ insync' = TRUE
  /\ UNCHANGED fdw

(* pgnats_reload_conf_force; the exit callback does the same. *)
ReloadConfForce ==
  /\ Invalidate /\ current_config' = None
  /\ used' = None /\ insync' = TRUE
  /\ UNCHANGED fdw

(***************************************************************************)
(* Everybody else.                                                         *)
(***************************************************************************)

(* ALTER SERVER, committed by some backend. *)
AlterServer(o) ==
  /\ o # fdw
  /\ fdw' = o /\ insync' = FALSE /\ used' = None
  /\ UNCHANGED client

Call ==
  \/ ConnectFailed \/ Publish
  \/ \E n \in Name : UseBucket(n) \/ UseStore(n)

Next ==
  \/ Call \/ ReloadConf \/ ReloadConfForce
  \/ \E o \in Opt : AlterServer(o)

Spec == Init /\ [][Next]_vars

-----------------------------------------------------------------------------

TypeOK ==
  /\ connection \in Handle \cup {None} /\ jetstream \in Handle \cup {None}
  /\ cached_buckets \in [Name -> Handle \cup {None}]
  /\ cached_object_stores \in [Name -> Handle \cup {None}]
  /\ current_config \in Opt \cup {None}
  /\ fdw \in Opt
  /\ drained \subseteq Nat /\ made \in Nat
  /\ used \in Handle \cup {None} /\ insync \in BOOLEAN

(* The handles that get_jetstream and the bucket cache hand out belong to  *)
(* the connection in use, whatever sequence of calls, failures and reloads *)
(* came before: the expect of get_jetstream never panics, and a bucket     *)
(* never talks to the server of an earlier configuration.                  *)
HandlesOfConnection ==
  /\ jetstream = connection
  /\ connection # None => connection.opt = current_config /\ connection.id \notin drained
  /\ \A n \in Name : cached_buckets[n] # None => cached_buckets[n] = connection

(* After a reload, and until the next ALTER SERVER, a new or kept          *)
(* connection is one to the server the foreign server names.               *)
ReloadTakesEffect ==
  insync /\ connection # None => connection.opt = fdw

(* The inductive invariant: numbers of connections are not used twice, and *)
(* what is remembered after a reload is what the reload read.              *)
IInv ==
  /\ TypeOK /\ HandlesOfConnection
  /\ connection # None => connection.id <= made
  /\ \A i \in drained : i <= made
  /\ insync /\ current_config # None => current_config = fdw

(* "Forces immediate NATS connection reinitialization": no call after a    *)
(* reload uses a connection that the reload has closed.                    *)
NoDrainedHandle == used # None => used.id \notin drained
=============================================================================
