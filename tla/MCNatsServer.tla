---------------------------- MODULE MCNatsServer ----------------------------
EXTENDS NatsServer, TLC
CONSTANTS h1, ca1, cert1, key1, junk

(* A plain server, one whose port is no number, one with a port too large  *)
(* and a capacity of its own, TLS without, with half and with a whole      *)
(* client certificate, and a certificate without TLS.                      *)
MCWritten ==
  {"host" :> h1,
   "host" :> h1 @@ "port" :> junk,
   "host" :> h1 @@ "port" :> 65536 @@ "capacity" :> 64,
   "host" :> h1 @@ "tls_ca_path" :> ca1,
   "host" :> h1 @@ "tls_ca_path" :> ca1 @@ "tls_cert_path" :> cert1,
   "host" :> h1 @@ "tls_ca_path" :> ca1 @@ "tls_cert_path" :> cert1 @@ "tls_key_path" :> key1,
   "host" :> h1 @@ "tls_cert_path" :> cert1 @@ "tls_key_path" :> key1}
=============================================================================
