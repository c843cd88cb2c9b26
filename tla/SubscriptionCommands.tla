------------------------ MODULE SubscriptionCommands ------------------------
(***************************************************************************)
(* What nats_subscribe and nats_unsubscribe promise, without channels,     *)
(* tasks, connections and the loop of the subscriber: the commands take    *)
(* effect one at a time, in the order in which they were accepted, each at *)
(* most once, on the stored table and on what the worker serves together;  *)
(* those not yet carried out are lost when the worker ends, and a worker   *)
(* on a replica throws them away.  Subscriber implements it.               *)
(***************************************************************************)
EXTENDS Sequences

CONSTANTS Subject, Invalid, Fn

VARIABLES
  up,         (* The worker runs.                                          *)
  master,     (* It believes it is on a master.                            *)
  pending,    (* Commands accepted and not yet carried out.                *)
  table,      (* The stored subscriptions.                                 *)
  restoring,  (* Those that the worker has read and does not serve yet.    *)
  serving,    (* The pairs whose function gets the messages of a subject.  *)
  functions   (* Functions that exist.                                     *)

vars == <<up, master, pending, table, restoring, serving, functions>>

Pair == Subject \X Fn
Command == [type : {"Subscribe", "Unsubscribe"}, subject : Subject, fn : Fn]
PairOf(c) == <<c.subject, c.fn>>

Init ==
  /\ ~ up /\ master \in BOOLEAN
  /\ pending = <<>> /\ restoring = {} /\ serving = {}
  /\ table \in SUBSET Pair /\ functions = Fn

Accept(c) ==
  /\ up
  /\ pending' = Append(pending, c)
  /\ UNCHANGED <<up, master, table, restoring, serving, functions>>

Taken == up /\ pending # <<>> /\ pending' = Tail(pending)

(* The worker changes what it serves in any case, the table if it can.     *)
Apply ==
  /\ Taken /\ master
  /\ LET c == Head(pending)
         With(S) == IF c.type = "Subscribe" THEN S \cup {PairOf(c)} ELSE S \ {PairOf(c)}
     IN /\ serving' = With(serving)
        /\ table' \in {With(table), table}
  /\ UNCHANGED <<up, master, restoring, functions>>

Ignore ==
  /\ Taken /\ ~ master
  /\ UNCHANGED <<up, master, table, restoring, serving, functions>>

Serve(p) ==
  /\ up /\ p \in restoring
  /\ restoring' = restoring \ {p}
  /\ serving' = IF master THEN serving \cup {p} ELSE serving
  /\ UNCHANGED <<up, master, pending, table, functions>>

(* The only reasons to stop serving without a command. *)
Forget(S) ==
  /\ S \subseteq {p \in serving : p[2] \notin functions \/ p[1] \in Invalid}
  /\ serving' = serving \ S
  /\ UNCHANGED <<up, master, pending, table, restoring, functions>>

Start ==
  /\ ~ up /\ up'
  /\ master' \in BOOLEAN
  /\ restoring' \in {{}} \cup {t \in {table} : master'}
  /\ UNCHANGED <<pending, table, serving, functions>>

Promote ==
  /\ up /\ ~ master /\ master'
  /\ restoring' \in {restoring, restoring \cup table}
  /\ UNCHANGED <<up, pending, table, serving, functions>>

Demote ==
  /\ up /\ master /\ ~ master'
  /\ serving' = {}
  /\ UNCHANGED <<up, pending, table, restoring, functions>>

Stop ==
  /\ up /\ ~ up'
  /\ pending' = <<>> /\ restoring' = {} /\ serving' = {}
  /\ UNCHANGED <<master, table, functions>>

Drop(f) ==
  /\ functions' = functions \ {f}
  /\ table' = {p \in table : p[2] # f}
  /\ UNCHANGED <<up, master, pending, restoring, serving>>

Create(f) ==
  /\ functions' = functions \cup {f}
  /\ UNCHANGED <<up, master, pending, table, restoring, serving>>

Next ==
  \/ Apply \/ Ignore \/ Start \/ Promote \/ Demote \/ Stop
  \/ \E c \in Command : Accept(c)
  \/ \E p \in Pair : Serve(p)
  \/ \E S \in SUBSET serving : Forget(S)
  \/ \E f \in Fn : Drop(f) \/ Create(f)

Spec == Init /\ [][Next]_vars
=============================================================================
