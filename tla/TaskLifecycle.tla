---------------------------- MODULE TaskLifecycle ----------------------------
(***************************************************************************)
(* What the asynchronous task engine promises about one task, without its  *)
(* queue, its pools and their threads: a task that waits is taken by one   *)
(* thread at a time, an execution that has begun ends in the state it      *)
(* earned unless the task is cancelled meanwhile, a cancelled task is never *)
(* taken again, and a task is not freed under the thread that executes it. *)
(***************************************************************************)
CONSTANT Task

VARIABLES
  life,   \* [Task -> state of the task]
  busy    \* tasks a thread has taken and not let go

lvars == <<life, busy>>

Live(t) == life[t] \notin {"FREE", "INIT"}

Moves(t, from, to) == life[t] = from /\ life' = [life EXCEPT ![t] = to]

Init == life = [t \in Task |-> "FREE"] /\ busy = {}

Create(t) == Moves(t, "FREE", "INIT") /\ UNCHANGED busy
Submit(t) == Moves(t, "INIT", "WAITING") /\ UNCHANGED busy
Take(t)   == t \notin busy /\ Moves(t, "WAITING", "PICKED") /\ busy' = busy \union {t}
Run(t)    == t \in busy /\ Moves(t, "PICKED", "EXECUTING") /\ UNCHANGED busy
Expire(t) == t \in busy /\ Moves(t, "PICKED", "TIMEOUT") /\ busy' = busy \ {t}
End(t, s) == t \in busy /\ Moves(t, "EXECUTING", s) /\ busy' = busy \ {t}
GiveUp(t) == t \in busy /\ life[t] = "CANCELED" /\ busy' = busy \ {t} /\ UNCHANGED life
Free(t)   == t \notin busy /\ Live(t) /\ life' = [life EXCEPT ![t] = "FREE"] /\ UNCHANGED busy
Cancel(S) == /\ \A t \in S : Live(t)
             /\ life' = [t \in Task |-> IF t \in S THEN "CANCELED" ELSE life[t]]
             /\ UNCHANGED busy

Next ==
  \/ \E t \in Task :
       \/ Create(t) \/ Submit(t) \/ Take(t) \/ Run(t) \/ Expire(t) \/ GiveUp(t) \/ Free(t)
       \/ \E s \in {"WAITING", "SUCCESS", "FAILURE"} : End(t, s)
  \/ \E S \in SUBSET Task : Cancel(S)

Spec == Init /\ [][Next]_lvars
=============================================================================
