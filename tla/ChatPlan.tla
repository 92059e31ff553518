------------------------------ MODULE ChatPlan ------------------------------
(***************************************************************************)
(* Execution plans of a group chat: an orchestrator submits a plan, its    *)
(* steps run one at a time as tasks, each after the user's approval.       *)
(* Source: server/internal/service/chat_plan.go, the queries it uses in    *)
(* server/pkg/db/queries/chat.sql, and what service/task.go does with the  *)
(* task of a step.                                                         *)
(*                                                                         *)
(* One chat session: plans, steps, the lock and every check are per        *)
(* session.  Each method of ChatPlanService is one transaction and one     *)
(* action.  They are serialised by their row locks: the session row        *)
(* between ContinueStep and RetryStep; a plan row against a step row       *)
(* between these and ClearPlan or RequestReplan, where two that meet       *)
(* half-way deadlock and Postgres rolls one of them back.                  *)
(*                                                                         *)
(* What a task does between queued and its end is the subject of module    *)
(* TaskQueue: here a task is live, and then completed, failed or cancelled *)
(* at any moment.  The handler that ended it calls the plan in a second    *)
(* transaction, kept in hooks meanwhile.  A refusal (an archived agent, a  *)
(* status that does not allow the call) changes nothing and is no step.    *)
(***************************************************************************)
EXTENDS Naturals

CONSTANTS Plans,       \* plan ids, numbered in creation order
          Tasks,       \* task ids, numbered in creation order
          MaxSteps,    \* steps of a plan; the handler allows 8
          MaxFaults    \* bound: step hooks that do not run to their end

NoTask == 0
NoPlan == 0

ASSUME PlansAssumption == Plans \subseteq Nat \ {0}
ASSUME TasksAssumption == Tasks \subseteq Nat \ {0}
ASSUME BoundsAssumption == MaxSteps \in Nat /\ MaxFaults \in Nat

VARIABLES
  plan,      \* chat_execution_plan.status; "none" until inserted
  step,      \* chat_execution_step: status and task_id by plan and sequence
  task,      \* agent_task_queue.status, for the tasks of steps and their retries
  attempt,   \* chat_execution_step_attempt by its task_id: the step, and its status
  hooks,     \* tasks of steps whose handler has still to call the plan
  faults

vars == <<plan, step, task, attempt, hooks, faults>>

Seqs == 1 .. MaxSteps
PlanStatus == {"none", "awaiting_approval", "running", "completed", "cancelled"}
StepStatus == {"none", "planned", "awaiting_approval", "queued",
               "completed", "skipped", "failed", "cancelled"}
Step == [status : StepStatus, task : Tasks \cup {NoTask}]
Attempt == [plan : Plans \cup {NoPlan}, seq : Seqs \cup {0},
            status : {"none", "queued", "completed", "failed", "cancelled"}]
NoStepRow == [status |-> "none", task |-> NoTask]
NoAttempt == [plan |-> NoPlan, seq |-> 0, status |-> "none"]

\* The partial unique index idx_chat_execution_plan_one_active.
ActivePlans == {p \in Plans : plan[p] \in {"awaiting_approval", "running"}}

\* Tasks that ContinueStep or RetryStep created.
StepTasks == {t \in Tasks : attempt[t].plan # NoPlan}
Linked(p, i) == {t \in StepTasks : attempt[t].plan = p /\ attempt[t].seq = i}

Planned(p) == {i \in Seqs : step[p][i].status = "planned"}

Fresh(t) == task[t] = "none" /\ \A u \in Tasks : u < t => task[u] # "none"

Init == /\ plan = [p \in Plans |-> "none"]
        /\ step = [p \in Plans |-> [i \in Seqs |-> NoStepRow]]
        /\ task = [t \in Tasks |-> "none"]
        /\ attempt = [t \in Tasks |-> NoAttempt]
        /\ hooks = {}
        /\ faults = 0
-----------------------------------------------------------------------------
SubmitPlan(p, n) ==
  /\ plan[p] = "none" /\ \A q \in Plans : q < p => plan[q] # "none"
  /\ ActivePlans = {}
  /\ plan' = [plan EXCEPT ![p] = "awaiting_approval"]
  /\ step' = [step EXCEPT ![p] =
                [i \in Seqs |-> IF i = 1 THEN [NoStepRow EXCEPT !.status = "awaiting_approval"]
                                ELSE IF i <= n THEN [NoStepRow EXCEPT !.status = "planned"]
                                ELSE NoStepRow]]
  /\ UNCHANGED <<task, attempt, hooks, faults>>

\* Variant of CancelNonTerminalStepsByPlan: the steps to come are left.
CancelAwaitingSteps(p) ==
  step' = [step EXCEPT ![p] =
             [i \in Seqs |-> IF step[p][i].status = "awaiting_approval"
                               THEN [step[p][i] EXCEPT !.status = "cancelled"]
                               ELSE step[p][i]]]

CancelNonTerminalStepsByPlan(p) ==
  step' = [step EXCEPT ![p] =
             [i \in Seqs |-> IF step[p][i].status \in {"planned", "awaiting_approval", "queued"}
                               THEN [step[p][i] EXCEPT !.status = "cancelled"]
                               ELSE step[p][i]]]

EndPlan(p) ==
  /\ CancelNonTerminalStepsByPlan(p)
  /\ plan' = [plan EXCEPT ![p] = "cancelled"]
  /\ UNCHANGED <<task, attempt, hooks, faults>>

ClearPlan(p) == plan[p] = "awaiting_approval" /\ EndPlan(p)

\* ListRunningStepsByPlan must be empty.
RequestReplan(p) ==
  /\ p \in ActivePlans
  /\ \A i \in Seqs : /\ step[p][i].status # "queued"
                     /\ \A t \in Linked(p, i) : task[t] # "live"
  /\ EndPlan(p)
-----------------------------------------------------------------------------
\* Variant of HasActiveStepTask: no such check.
HasActiveStepTaskNever == FALSE

\* Of the whole session: a step that is queued, or any attempt's task that is live.
HasActiveStepTask ==
  \/ \E q \in Plans, i \in Seqs : step[q][i].status = "queued"
  \/ \E t \in StepTasks : task[t] = "live"

\* The unique index refuses a second active plan, and the transaction with it.
MayBeActive(p) == ActivePlans \subseteq {p}

\* What ContinueStep and RetryStep do under the session lock: a task, an attempt
\* for it, the step queued, the plan running.
Execute(p, i) ==
  /\ ~HasActiveStepTask
  /\ MayBeActive(p)
  /\ \E t \in Tasks :
       /\ Fresh(t)
       /\ task' = [task EXCEPT ![t] = "live"]
       /\ attempt' = [attempt EXCEPT ![t] = [plan |-> p, seq |-> i, status |-> "queued"]]
       /\ step' = [step EXCEPT ![p][i] = [status |-> "queued", task |-> t]]
  /\ plan' = [plan EXCEPT ![p] = "running"]
  /\ UNCHANGED <<hooks, faults>>

ContinueStep(p, i) == step[p][i].status = "awaiting_approval" /\ Execute(p, i)

\* Neither the plan's status nor the other steps' are looked at.
RetryStep(p, i) == step[p][i].status \in {"failed", "cancelled"} /\ Execute(p, i)

\* Variant of NextPlanned: any planned step.
AnyPlanned(p, n) == n \in Planned(p)

\* GetNextPlannedStep.
NextPlanned(p, n) == n \in Planned(p) /\ \A m \in Planned(p) : n <= m

\* A step is over with status st: the next planned one awaits approval, or the plan
\* is completed.
Advance(p, i, st) ==
  \/ \E n \in Seqs :
       /\ NextPlanned(p, n)
       /\ MayBeActive(p)
       /\ step' = [step EXCEPT ![p][i].status = st, ![p][n].status = "awaiting_approval"]
       /\ plan' = [plan EXCEPT ![p] = "awaiting_approval"]
  \/ /\ Planned(p) = {}
     /\ step' = [step EXCEPT ![p][i].status = st]
     /\ plan' = [plan EXCEPT ![p] = "completed"]

SkipStep(p, i) ==
  /\ step[p][i].status = "awaiting_approval"
  /\ Advance(p, i, "skipped")
  /\ UNCHANGED <<task, attempt, hooks, faults>>

\* Variant of CancelStep: a step whose task has ended is cancelled too.
CancelStepAnyTask(p, i) ==
  /\ step[p][i].status = "queued"
  /\ step' = [step EXCEPT ![p][i].status = "cancelled"]
  /\ plan' = [plan EXCEPT ![p] = "awaiting_approval"]
  /\ UNCHANGED <<task, attempt, hooks, faults>>

\* The task must be one CancelAgentTask still takes.
CancelStep(p, i) ==
  LET t == step[p][i].task IN
  /\ step[p][i].status = "queued"
  /\ MayBeActive(p)
  /\ t \in Tasks /\ task[t] = "live"
  /\ task' = [task EXCEPT ![t] = "cancelled"]
  /\ attempt' = [attempt EXCEPT ![t].status = "cancelled"]
  /\ step' = [step EXCEPT ![p][i].status = "cancelled"]
  /\ plan' = [plan EXCEPT ![p] = "awaiting_approval"]
  /\ UNCHANGED <<hooks, faults>>
-----------------------------------------------------------------------------
(***************************************************************************)
(* What happens to the task: CompleteTask and FailTask call the hook after *)
(* their own transaction; everything else that ends a task does not.       *)
(***************************************************************************)
\* Variant of TaskReported: the hook goes on without an attempt.
TaskReportedAny(t, st) ==
  /\ task[t] = "live"
  /\ task' = [task EXCEPT ![t] = st]
  /\ hooks' = hooks \cup {t}
  /\ UNCHANGED <<plan, step, attempt, faults>>

\* The hook of a task without an attempt does nothing.
TaskReported(t, st) ==
  /\ task[t] = "live"
  /\ task' = [task EXCEPT ![t] = st]
  /\ hooks' = hooks \cup ({t} \cap StepTasks)
  /\ UNCHANGED <<plan, step, attempt, faults>>

\* A sweeper or recover-orphans fails the task: HandleFailedTasks calls no hook, and
\* may retry a first attempt of two with a row that no step knows of.
TaskSwept(t) ==
  /\ task[t] = "live"
  /\ \/ task' = [task EXCEPT ![t] = "failed"]
     \/ /\ t \in StepTasks
        /\ \E u \in Tasks : Fresh(u) /\ task' = [task EXCEPT ![t] = "failed", ![u] = "live"]
  /\ UNCHANGED <<plan, step, attempt, hooks, faults>>

\* CancelTask, and the cancellation of an agent's, a runtime's or a session's tasks.
TaskCancelled(t) ==
  /\ task[t] = "live"
  /\ task' = [task EXCEPT ![t] = "cancelled"]
  /\ UNCHANGED <<plan, step, attempt, hooks, faults>>

OnStepTaskCompleted(t) ==
  /\ t \in hooks
  /\ task[t] = "completed"
  /\ hooks' = hooks \ {t}
  /\ attempt' = [attempt EXCEPT ![t].status = "completed"]
  /\ Advance(attempt[t].plan, attempt[t].seq, "completed")
  /\ UNCHANGED <<task, faults>>

OnStepTaskFailed(t) ==
  LET p == attempt[t].plan IN
  /\ t \in hooks
  /\ task[t] = "failed"
  /\ MayBeActive(p)
  /\ hooks' = hooks \ {t}
  /\ attempt' = [attempt EXCEPT ![t].status = "failed"]
  /\ step' = [step EXCEPT ![p][attempt[t].seq].status = "failed"]
  /\ plan' = [plan EXCEPT ![p] = "awaiting_approval"]
  /\ UNCHANGED <<task, faults>>

\* The server ends before the hook, or its transaction fails: the error is logged,
\* and a failed task then counts as one without a step and may be retried.
HookLost(t) ==
  /\ faults < MaxFaults
  /\ t \in hooks
  /\ hooks' = hooks \ {t}
  /\ faults' = faults + 1
  /\ \/ UNCHANGED task
     \/ task[t] = "failed" /\ \E u \in Tasks : Fresh(u) /\ task' = [task EXCEPT ![u] = "live"]
  /\ UNCHANGED <<plan, step, attempt>>
-----------------------------------------------------------------------------
Next == \/ \E p \in Plans, n \in Seqs : SubmitPlan(p, n)
        \/ \E p \in Plans : ClearPlan(p) \/ RequestReplan(p)
        \/ \E p \in Plans, i \in Seqs :
             ContinueStep(p, i) \/ SkipStep(p, i) \/ CancelStep(p, i) \/ RetryStep(p, i)
        \/ \E t \in Tasks, st \in {"completed", "failed"} : TaskReported(t, st)
        \/ \E t \in Tasks : TaskSwept(t) \/ TaskCancelled(t)
        \/ \E t \in Tasks : OnStepTaskCompleted(t) \/ OnStepTaskFailed(t) \/ HookLost(t)

Spec == Init /\ [][Next]_vars
-----------------------------------------------------------------------------
\* Plans, steps, tasks, attempts and hooks have their types.
TypeOK ==
  /\ plan \in [Plans -> PlanStatus]
  /\ step \in [Plans -> [Seqs -> Step]]
  /\ task \in [Tasks -> {"none", "live", "completed", "failed", "cancelled"}]
  /\ attempt \in [Tasks -> Attempt]
  /\ hooks \subseteq StepTasks
  /\ faults \in Nat

\* The tasks of a session's steps run one at a time, whichever plan they belong to.
SerialSteps == \A t, u \in StepTasks : task[t] = "live" /\ task[u] = "live" => t = u

Done(p, i) == step[p][i].status \in {"completed", "skipped"}
Current(p, i) == step[p][i].status \in {"awaiting_approval", "queued", "failed", "cancelled"}

\* A plan advances in order and one step at a time: before a step that is still
\* planned there is one current step, with nothing but done steps before it and
\* nothing but planned ones after it.
InOrder ==
  \A p \in Plans : \A i \in Planned(p) :
    \E j \in Seqs : /\ j < i
                    /\ Current(p, j)
                    /\ \A k \in Seqs : k < j => Done(p, k)
                    /\ \A k \in Seqs : j < k /\ k < i => k \in Planned(p)

\* A plan that is over asks for no approval and runs no step, and there is at most
\* one that is not over.
EndedPlansQuiet ==
  /\ \A p, q \in ActivePlans : p = q
  /\ \A p \in Plans \ ActivePlans, i \in Seqs :
       step[p][i].status \notin {"planned", "awaiting_approval", "queued"}

\* The hook's updates are unconditional; when it runs its step still waits for this
\* very task, so no approval, cancellation, retry or replan is overwritten.
HooksCurrent ==
  \A t \in hooks :
    LET a == attempt[t] IN
    /\ a.status = "queued"
    /\ step[a.plan][a.seq] = [status |-> "queued", task |-> t]
    /\ plan[a.plan] = "running"

\* A step that stands in the way of a replan can be cancelled, or is about to end.
BlockingStepsEnd ==
  \A p \in Plans, i \in Seqs :
    step[p][i].status = "queued" => LET t == step[p][i].task IN task[t] = "live" \/ t \in hooks

(***************************************************************************)
(* The inductive invariant behind SerialSteps, InOrder, EndedPlansQuiet    *)
(* and HooksCurrent.                                                       *)
(***************************************************************************)
\* An id no INSERT has used yet belongs to no attempt; an attempt names its step.
AttemptsLinked ==
  \A t \in Tasks : /\ task[t] = "none" => attempt[t] = NoAttempt
                   /\ attempt[t].plan # NoPlan => attempt[t].seq \in Seqs

\* A step's task that is live has its step waiting for it.
LiveAwaited ==
  \A t \in StepTasks : task[t] = "live" =>
    /\ attempt[t].status = "queued"
    /\ step[attempt[t].plan][attempt[t].seq] = [status |-> "queued", task |-> t]

\* At most one step of the session is queued, and its plan is running.
OneQueued ==
  \A p, q \in Plans : \A i, j \in Seqs :
    step[p][i].status = "queued" =>
      /\ plan[p] = "running"
      /\ step[q][j].status = "queued" => p = q /\ i = j

\* Only an ended task has a hook to run.
HooksEnded == \A t \in hooks : task[t] \in {"completed", "failed"}

\* Where a plan stands: done steps, then step j, then steps to come.
Front(p, j) == /\ Current(p, j)
               /\ \A k \in Seqs : k < j => Done(p, k)
               /\ \A k \in Seqs : j < k => step[p][k].status \in {"planned", "none"}

\* A plan that still has steps to approve stands somewhere, and has no gaps.
Ordered ==
  \A p \in Plans :
    /\ \A k, m \in Seqs : k < m /\ step[p][k].status = "none" => step[p][m].status = "none"
    /\ \A i \in Seqs : step[p][i].status \in {"planned", "awaiting_approval"}
                          => \E j \in Seqs : Front(p, j)

PlanInv == /\ TypeOK
           /\ AttemptsLinked
           /\ LiveAwaited
           /\ OneQueued
           /\ HooksEnded
           /\ HooksCurrent
           /\ EndedPlansQuiet
           /\ Ordered
=============================================================================
