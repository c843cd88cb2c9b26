-------------------------- MODULE LauncherCallback --------------------------
(***************************************************************************)
(* Callbacks that call nats_subscribe or nats_unsubscribe: the call runs   *)
(* inside the subscriber (handle_internal_message, run_callbacks), which   *)
(* reads no message of the launcher before it returns.                     *)
(*                                                                         *)
(* The steps are those of Launcher.  A callback uses the identity of a     *)
(* backend that is idle for its call.  A worker does not crash inside one. *)
(***************************************************************************)
EXTENDS Launcher

VARIABLE inside   (* The worker in which the call of a backend runs.       *)

ccvars == <<vars, inside>>

CallbackInit == Init /\ inside = [b \in Backend |-> NoWorker]

InCallback(w) == \E b \in Backend : inside[b] = w

(* The loop of w calls a function of its database that sends a command.    *)
StartCallback(w, b) ==
  /\ proc[w] = "serving" /\ ~ InCallback(w)
  /\ Call(b, "Command", dbOf[w])
  /\ inside' = [inside EXCEPT ![b] = w]

(* The call returns, or fails, and the loop of the worker goes on.         *)
CallStep(b) ==
  /\ BackendStep(b)
  /\ inside' = IF bpc'[b] = "idle" THEN [inside EXCEPT ![b] = NoWorker] ELSE inside

(* A worker inside a callback does nothing else. *)
LoopStep(w) == ~ InCallback(w) /\ WorkerStep(w) /\ UNCHANGED inside

CallbackNext ==
  \/ LauncherStep /\ UNCHANGED inside
  \/ \E w \in Worker : LoopStep(w) \/ (\E b \in Backend : StartCallback(w, b))
  \/ \E b \in Backend : CallStep(b)
  \/ (Calls \/ CatalogStep \/ Sigterm \/ LauncherCrash) /\ UNCHANGED inside
  \/ \E w \in Worker :
       /\ ConnectFails(w) \/ (~ InCallback(w) /\ WorkerCrash(w))
       /\ UNCHANGED inside

CallbackSpecInstalled ==
  /\ CallbackInit /\ \A d \in Db : catalog[d] = "Exist"
  /\ [][CallbackNext]_ccvars
  /\ WF_ccvars(LauncherStep /\ UNCHANGED inside)
  /\ \A w \in Worker : SF_ccvars(LoopStep(w))
  /\ \A b \in Backend : SF_ccvars(CallStep(b))
=============================================================================
