----------------------------- MODULE NatsServer -----------------------------
(***************************************************************************)
(* Where the options of NatsClient come from (src/config.rs): the options  *)
(* of the foreign server as somebody wrote them, looked up in the catalog  *)
(* and parsed.  Every step is one of NatsClient, or changes only what is   *)
(* written.                                                                *)
(***************************************************************************)
EXTENDS NatsClient

CONSTANTS
  Written,          (* What OPTIONS (...) may say: functions from the names *)
                    (* of the options given to their texts.                *)
  DefaultHost, DefaultPort, DefaultCapacity,
  U16Max, UsizeMax, (* The texts that are numbers are those numbers.       *)
  LookupFails       (* Whether the lookup of the server can fail.          *)

VARIABLES
  server,           (* The options of the foreign server, None without one.*)
  found             (* The lookup finds it.                                *)

serverVars == <<vars, server, found>>

NoOptions == [name \in {} |-> None]

Text(o, name, default) == IF name \in DOMAIN o THEN o[name] ELSE default

Number(o, name, max, default) ==
  IF name \in DOMAIN o /\ o[name] \in 0 .. max THEN o[name] ELSE default

MutTls(o) ==
  IF {"tls_ca_path", "tls_cert_path", "tls_key_path"} \subseteq DOMAIN o
    THEN [kind |-> "MutualTls", ca |-> o["tls_ca_path"],
          cert |-> o["tls_cert_path"], key |-> o["tls_key_path"]]
    ELSE [kind |-> "None"]

(* Without a CA there is no TLS, without both of certificate and key there *)
(* is no client certificate.                                               *)
Tls(o) ==
  IF "tls_ca_path" \notin DOMAIN o THEN [kind |-> "None"]
  ELSE IF {"tls_cert_path", "tls_key_path"} \subseteq DOMAIN o
    THEN [kind |-> "MutualTls", ca |-> o["tls_ca_path"],
          cert |-> o["tls_cert_path"], key |-> o["tls_key_path"]]
    ELSE [kind |-> "Tls", ca |-> o["tls_ca_path"]]

(* parse_config; an unreadable number counts as none.  The subject of the  *)
(* notifications and the URL of Patroni are no part of nats_opt.           *)
ParseConfig(o) ==
  [host |-> Text(o, "host", DefaultHost),
   port |-> Number(o, "port", U16Max, DefaultPort),
   capacity |-> Number(o, "capacity", UsizeMax, DefaultCapacity),
   tls |-> Tls(o)]

(* fetch_config: without a server, and when the lookup fails, the result   *)
(* is that of a server without options.                                    *)
FetchConfig(s, f) == ParseConfig(IF s = None \/ ~ f THEN NoOptions ELSE s)

ParsedOpt == {ParseConfig(o) : o \in Written \cup {NoOptions}}

ASSUME ServerAssumption == Opt = ParsedOpt /\ None \notin Written

ServerInit ==
  /\ Init
  /\ server \in Written \cup {None} /\ found = TRUE
  /\ fdw = FetchConfig(server, found)

(* What fetch_config returns from now on.                                  *)
Reads(s, f) ==
  /\ server' = s /\ found' = f
  /\ IF FetchConfig(s, f) = fdw THEN UNCHANGED vars ELSE AlterServer(FetchConfig(s, f))

(* CREATE, ALTER or DROP SERVER, committed.                                *)
WriteServer(s) == s # server /\ Reads(s, found)

(* Errors of the lookup are caught, for as long as they last.              *)
LookupChanges == LookupFails /\ Reads(server, ~ found)

ClientStep ==
  /\ Call \/ ReloadConf \/ ReloadConfForce
  /\ UNCHANGED <<server, found>>

ServerNext ==
  \/ ClientStep \/ LookupChanges
  \/ \E s \in Written \cup {None} : WriteServer(s)

ServerSpec == ServerInit /\ [][ServerNext]_serverVars

-----------------------------------------------------------------------------

(* The TLS options that initialize_connection gave to a connection.  None  *)
(* leaves TLS to the host, which may say tls://, and to the server.        *)
Asked(h) == IF h.rooted THEN h.opt.tls ELSE [kind |-> "None"]

HasCa == "tls_ca_path" \in DOMAIN server
HasCertificate == HasCa /\ {"tls_cert_path", "tls_key_path"} \subseteq DOMAIN server

(* After a reload, and until the options that are read change, the         *)
(* connection of a backend has been made to require TLS exactly when a CA  *)
(* is written, with that CA, and to present a client certificate exactly   *)
(* when CA, certificate and key are, with these: whatever else is written, *)
(* missing or unreadable, and whatever was connected, failed or altered in *)
(* between.  The lookup of the server has to work; and a connection made   *)
(* while current_dir() failed has been given neither.                      *)
TlsAsWritten ==
  insync /\ found /\ connection # None /\ server # None =>
    LET tls == Asked(connection)
    IN /\ tls.kind # "None" <=> HasCa /\ connection.rooted
       /\ tls.kind # "None" => tls.ca = server["tls_ca_path"]
       /\ tls.kind = "MutualTls" <=> HasCertificate /\ connection.rooted
       /\ tls.kind = "MutualTls" =>
            tls.cert = server["tls_cert_path"] /\ tls.key = server["tls_key_path"]

(* The same whether the lookup and current_dir() work or not: a reload     *)
(* never leaves a connection without TLS for whose server a CA is written. *)
TlsKept ==
  insync /\ connection # None /\ server # None =>
    (HasCa => Asked(connection).kind # "None")

(* README: the key is "required if nats.tls.cert is set", so a certificate *)
(* that is set is used.                                                    *)
CertificateUsed ==
  insync /\ found /\ connection # None /\ server # None =>
    ("tls_cert_path" \in DOMAIN server => Asked(connection).kind = "MutualTls")
=============================================================================
