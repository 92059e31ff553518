---------------------------- MODULE SerialWork ----------------------------
(***************************************************************************)
(* What the task queue promises for work that is serialised under a key.   *)
(*                                                                         *)
(* The queue's own words are in server/pkg/db/queries/agent.sql above      *)
(* ClaimAgentTask: a task is handed out only when no other task with the   *)
(* same key is out, and it is handed out once.  Nothing here knows about   *)
(* statuses, claims in flight, sweepers or retries: there are keys, each   *)
(* held by at most one task, and a task that has been spent (handed out,   *)
(* or dropped before it ever was) is never handed out again.               *)
(***************************************************************************)
CONSTANTS Keys,     \* what work is serialised on
          Tasks,    \* every task there can be
          NoTask    \* "nobody holds the key"

VARIABLES holder,   \* the task that holds each key, or NoTask
          spent     \* tasks that can no longer be handed out

vars == <<holder, spent>>

Init == /\ holder = [k \in Keys |-> NoTask]
        /\ spent = {}

\* A free key is given to a task that has never been handed out.
Grant(k, t) == /\ holder[k] = NoTask
               /\ t \notin spent
               /\ holder' = [holder EXCEPT ![k] = t]
               /\ spent' = spent \cup {t}

\* Any set of tasks ends at once: the keys they hold are freed, and those that
\* were still waiting are never handed out.
Retire(S) == /\ holder' = [k \in Keys |-> IF holder[k] \in S THEN NoTask
                                                             ELSE holder[k]]
             /\ spent' = spent \cup S

Next == \/ \E k \in Keys, t \in Tasks : Grant(k, t)
        \/ \E S \in SUBSET Tasks : Retire(S)

Spec == Init /\ [][Next]_vars
=============================================================================
