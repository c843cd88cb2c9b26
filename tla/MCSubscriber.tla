---------------------------- MODULE MCSubscriber ----------------------------
EXTENDS Subscriber, TLC
TaskSymmetry == Permutations(Task)

(* Messages beyond the bound, on a subject without functions: there are    *)
(* always more of them, and the loop is never more than two behind.        *)
Flood(i) ==
  /\ task[i].st = "listening" /\ Funcs(task[i].subject) = {} /\ Len(channel) < 2
  /\ channel' = Append(channel, CallbackCall(task[i].subject, MaxMsgs))
  /\ UNCHANGED <<env, inbox, loop, task, sends, msgs, hist>>

FloodSpec ==
  /\ Init /\ [][Next \/ \E i \in Task : Flood(i)]_vars
  /\ WF_vars(WorkerStep) /\ \A i \in Task : WF_vars(TaskStep(i))
=============================================================================
