----------------------------- MODULE TaskQueue -----------------------------
(***************************************************************************)
(* The server's agent task queue: the table agent_task_queue, the handlers *)
(* and sweepers that write it, and the agent row they keep in step.        *)
(* Source: server/internal/service/task.go, server/pkg/db/queries/agent.sql *)
(* and runtime.sql, server/cmd/server/runtime_sweeper.go.                  *)
(*                                                                         *)
(* The grain is one SQL statement or one transaction per action: what the  *)
(* code does in two statements is two actions, with whatever it carries in *)
(* local variables between them kept in enqueues, claim, owed, due,        *)
(* archiving or sweeping.  A lost procedure (a server restart, a cancelled *)
(* request context, a failed statement) drops that local state.            *)
(*                                                                         *)
(* Time is not modelled: a threshold (heartbeat age, dispatch, running and *)
(* queue time-outs) may have passed at any moment, so every race between a *)
(* time-out and a late answer is a behaviour.  The daemon is the           *)
(* environment: it may call start, complete, fail, recover, heartbeat and  *)
(* deregister at any time, whatever it was told.                           *)
(***************************************************************************)
EXTENDS Naturals, FiniteSets

CONSTANTS Agents,
          Runtimes,
          Issues,          \* issue_id of an issue task
          Sessions,        \* chat_session_id of a chat task
          QuickCreates,    \* work of a task without issue, chat or autopilot run
          AutopilotRuns,   \* autopilot_run_id of a run-only autopilot task
          Tasks,           \* row ids, numbered in creation order
          Nil,             \* no value: SQL NULL, Go zero value
          MaxAttempts,     \* column max_attempts, default 2
          MaxConcurrent,   \* column max_concurrent_tasks, the same for each agent
          MaxEnqueues,     \* bound: enqueue requests
          MaxMoves,        \* bound: agents rebound to another runtime
          MaxArchives,     \* bound: agents archived, by hand or by revocation
          MaxFaults        \* bound: procedures lost half-way

NoTask == 0
Work == Issues \cup Sessions \cup QuickCreates \cup AutopilotRuns

ASSUME TasksAssumption == Tasks \subseteq Nat \ {0}
ASSUME WorkAssumption ==
  /\ Issues \cap (Sessions \cup QuickCreates \cup AutopilotRuns) = {}
  /\ Sessions \cap (QuickCreates \cup AutopilotRuns) = {}
  /\ QuickCreates \cap AutopilotRuns = {}
  /\ \A p, q \in QuickCreates : p = q   \* all of it has the same key
ASSUME NilAssumption == Nil \notin Agents \cup Runtimes \cup Work
ASSUME AttemptsAssumption == MaxAttempts \in Nat \ {0} /\ MaxConcurrent \in Nat
ASSUME BoundsAssumption == {MaxEnqueues, MaxMoves, MaxArchives, MaxFaults} \subseteq Nat

VARIABLES
  task,          \* agent_task_queue: one row per id, status "none" until inserted
  agentRuntime,  \* agent.runtime_id
  archived,      \* agents with archived_at set
  agentStatus,   \* agent.status
  online,        \* runtimes whose agent_runtime.status is online
  enqueues,      \* enqueue calls between GetAgent and INSERT
  claim,         \* the claim request each runtime's poller has in flight
  owed,          \* failed rows on their way to MaybeRetryFailedTask
  due,           \* agents some procedure still has to reconcile
  archiving,     \* ArchiveAgent calls between the archive and the cancel
  sweeping,      \* the sweeper is between MarkRuntimesOffline and FailTasks
  spent          \* how much of each bound is used up

agentVars == <<agentRuntime, archived, agentStatus>>
procs == <<enqueues, claim, owed, due, archiving, sweeping>>
vars == <<task, agentRuntime, archived, agentStatus, online,
          enqueues, claim, owed, due, archiving, sweeping, spent>>

Status == {"none", "queued", "dispatched", "running",
           "completed", "failed", "cancelled"}
\* failure_reason by what the retry path tells apart: "infrastructure" is the
\* four retryable reasons, "agent" every reason that is not retried.
Reasons == {"", "infrastructure", "agent", "queued_expired"}
Row == [status  : Status,
        agent   : Agents \cup {Nil},
        runtime : Runtimes \cup {Nil},
        work    : Work \cup {Nil},
        attempt : Nat,
        parent  : Tasks \cup {NoTask},
        reason  : Reasons]

\* An enqueue call in flight; call tells apart two calls with the same arguments.
Request == [call : Nat, agent : Agents, runtime : Runtimes, work : Work]

\* A claim request: the agents still to try, the one being tried, the rows its
\* ClaimAgentTask statement saw as claimable, the row it took.
Claim == [pc   : {"idle", "next", "counted", "matched", "claimed"},
          todo : SUBSET Agents,
          agent : Agents \cup {Nil},
          rows : SUBSET Tasks,
          task : Tasks \cup {NoTask}]
NoClaim == [pc |-> "idle", todo |-> {}, agent |-> Nil, rows |-> {}, task |-> NoTask]

NoRow == [status |-> "none", agent |-> Nil, runtime |-> Nil, work |-> Nil,
          attempt |-> 0, parent |-> NoTask, reason |-> ""]

Active == {t \in Tasks : task[t].status \in {"dispatched", "running"}}
Pending == {t \in Tasks : task[t].status \in {"queued", "dispatched"}}
Live == {t \in Tasks : task[t].status \in {"queued", "dispatched", "running"}}

\* Two rows that ClaimAgentTask serialises: same agent and same issue, same chat
\* session, or both without any link.  Autopilot rows are serialised on nothing.
SameKey(t, u) == /\ task[t].agent = task[u].agent
                 /\ task[t].work = task[u].work
                 /\ task[t].work \notin AutopilotRuns

\* Variant of IndexConflict: the unique index is missing.
IndexConflictNever(a, w) == FALSE

\* The partial unique index idx_one_pending_task_per_issue_agent refuses a row.
IndexConflict(a, w) == /\ w \in Issues
                       /\ \E t \in Pending : task[t].agent = a /\ task[t].work = w

\* The row the next INSERT creates: created_at orders rows as their ids do.
Fresh(t) == /\ task[t].status = "none"
            /\ \A u \in Tasks : u < t => task[u].status # "none"

Queued(a, r, w, n, p) ==
  [status |-> "queued", agent |-> a, runtime |-> r, work |-> w,
   attempt |-> n, parent |-> p, reason |-> ""]

SetStatus(S, st) ==
  task' = [t \in Tasks |-> IF t \in S THEN [task[t] EXCEPT !.status = st] ELSE task[t]]

FailRows(S, why) ==
  task' = [t \in Tasks |-> IF t \in S
                             THEN [task[t] EXCEPT !.status = "failed", !.reason = why]
                             ELSE task[t]]

AgentsOf(S) == {task[t].agent : t \in S}

Init == /\ task = [t \in Tasks |-> NoRow]
        /\ agentRuntime \in [Agents -> Runtimes]
        /\ archived = {}
        /\ agentStatus = [a \in Agents |-> "idle"]
        /\ online = Runtimes
        /\ enqueues = {}
        /\ claim = [r \in Runtimes |-> NoClaim]
        /\ owed = {}
        /\ due = {}
        /\ archiving = {}
        /\ sweeping = FALSE
        /\ spent = [enqueues |-> 0, moves |-> 0, archives |-> 0, faults |-> 0]
-----------------------------------------------------------------------------
(***************************************************************************)
(* Enqueueing.  Every EnqueueTaskFor... reads the agent row, refuses an    *)
(* archived agent, and inserts with the runtime it read.                   *)
(***************************************************************************)
\* Variant of NewRequest: the enqueue does not check that the agent has a runtime.
NewRequestUnbound(a, w) == [call |-> spent.enqueues, agent |-> a, runtime |-> Nil, work |-> w]

NewRequest(a, w) ==
  [call |-> spent.enqueues, agent |-> a, runtime |-> agentRuntime[a], work |-> w]

EnqueueBegin(a, w) ==
  /\ spent.enqueues < MaxEnqueues
  /\ a \notin archived
  /\ enqueues' = enqueues \cup {NewRequest(a, w)}
  /\ spent' = [spent EXCEPT !.enqueues = @ + 1]
  /\ UNCHANGED <<task, agentVars, online, claim, owed, due, archiving, sweeping>>

EnqueueInsert(e) ==
  /\ e \in enqueues
  /\ enqueues' = enqueues \ {e}
  /\ IF IndexConflict(e.agent, e.work)
       THEN UNCHANGED task
       ELSE \E t \in Tasks :
              /\ Fresh(t)
              /\ task' = [task EXCEPT ![t] = Queued(e.agent, e.runtime, e.work, 1, NoTask)]
  /\ UNCHANGED <<agentVars, online, claim, owed, due, archiving, sweeping, spent>>

\* RerunIssue cancels the target agent's rows on the issue and then enqueues.
RerunIssue(a, i) ==
  LET S == {t \in Live : task[t].agent = a /\ task[t].work = i} IN
  /\ spent.enqueues < MaxEnqueues
  /\ SetStatus(S, "cancelled")
  /\ due' = due \cup AgentsOf(S)
  /\ enqueues' = IF a \in archived THEN enqueues ELSE enqueues \cup {NewRequest(a, i)}
  /\ spent' = [spent EXCEPT !.enqueues = @ + 1]
  /\ UNCHANGED <<agentVars, online, claim, owed, archiving, sweeping>>
-----------------------------------------------------------------------------
(***************************************************************************)
(* ClaimTaskForRuntime, one request per runtime at a time: each runtime    *)
(* has one poller and a poller has one request out.  The candidate agents  *)
(* are tried in the order of their rows; the priority column is left out,  *)
(* so any candidate may come next and any claimable row may come first.    *)
(***************************************************************************)
NextAgent(c) == IF c.todo = {} THEN NoClaim ELSE [NoClaim EXCEPT !.pc = "next", !.todo = c.todo]

ListCandidates(r) ==
  LET found == {task[t].agent : t \in {u \in Tasks : /\ task[u].status = "queued"
                                                     /\ task[u].runtime = r}} IN
  /\ claim[r].pc = "idle"
  /\ found # {}
  /\ claim' = [claim EXCEPT ![r] = [NoClaim EXCEPT !.pc = "next", !.todo = found]]
  /\ UNCHANGED <<task, agentVars, online, enqueues, owed, due, archiving, sweeping, spent>>

\* Variant of Occupied: a dispatched task that has not started is not counted.
OccupiedStarted(a) == {t \in Active : task[t].agent = a /\ task[t].status = "running"}

\* What CountRunningTasks counts.
Occupied(a) == {t \in Active : task[t].agent = a}

\* ClaimTask reads the agent and CountRunningTasks; at the limit it gives up on
\* this agent.
CountRunning(r) ==
  /\ claim[r].pc = "next"
  /\ \E a \in claim[r].todo :
       LET c == [claim[r] EXCEPT !.todo = @ \ {a}] IN
       claim' = [claim EXCEPT ![r] =
                   IF Cardinality(Occupied(a)) >= MaxConcurrent
                     THEN NextAgent(c)
                     ELSE [c EXCEPT !.pc = "counted", !.agent = a]]
  /\ UNCHANGED <<task, agentVars, online, enqueues, owed, due, archiving, sweeping, spent>>

\* Variant of Claimable: only issue tasks are held back.
ClaimableChatAny(a) == {t \in Tasks : /\ task[t].status = "queued"
                                      /\ task[t].agent = a
                                      /\ \A u \in Active : task[u].work \in Issues => ~SameKey(t, u)}

\* The rows ClaimAgentTask may take.
Claimable(a) == {t \in Tasks : /\ task[t].status = "queued"
                               /\ task[t].agent = a
                               /\ \A u \in Active : ~SameKey(t, u)}

\* The snapshot of the ClaimAgentTask statement: its NOT EXISTS is evaluated on
\* what was committed when the statement began.
ClaimSnapshot(r) ==
  /\ claim[r].pc = "counted"
  /\ claim' = [claim EXCEPT ![r].pc = "matched", ![r].rows = Claimable(claim[r].agent)]
  /\ UNCHANGED <<task, agentVars, online, enqueues, owed, due, archiving, sweeping, spent>>

\* The update of the same statement: SKIP LOCKED and the recheck of a locked row
\* leave out the rows that are no longer queued, and nothing else.
ClaimDispatch(r) ==
  LET still == {t \in claim[r].rows : task[t].status = "queued"} IN
  /\ claim[r].pc = "matched"
  /\ IF still = {}
       THEN /\ claim' = [claim EXCEPT ![r] = NextAgent(claim[r])]
            /\ UNCHANGED task
       ELSE \E t \in still :
              /\ SetStatus({t}, "dispatched")
              /\ claim' = [claim EXCEPT ![r].pc = "claimed", ![r].task = t]
  /\ UNCHANGED <<agentVars, online, enqueues, owed, due, archiving, sweeping, spent>>

RefreshStatus(a) ==
  agentStatus' = [agentStatus EXCEPT ![a] =
                    IF \E t \in Active : task[t].agent = a THEN "working" ELSE "idle"]

\* Variant of ClaimReturn: the status is not refreshed after a claim.
ClaimReturnUnreconciled(r) ==
  /\ claim[r].pc = "claimed"
  /\ claim' = [claim EXCEPT ![r] = IF task[claim[r].task].runtime = r
                                     THEN NoClaim
                                     ELSE NextAgent(claim[r])]
  /\ UNCHANGED <<task, agentVars, online, enqueues, owed, due, archiving, sweeping, spent>>

\* ClaimTask reconciles the agent and returns; a row of another runtime is not
\* handed to this poller, which goes on to the next agent.
ClaimReturn(r) ==
  /\ claim[r].pc = "claimed"
  /\ RefreshStatus(claim[r].agent)
  /\ claim' = [claim EXCEPT ![r] = IF task[claim[r].task].runtime = r
                                     THEN NoClaim
                                     ELSE NextAgent(claim[r])]
  /\ UNCHANGED <<task, agentRuntime, archived, online, enqueues, owed, due,
                 archiving, sweeping, spent>>
-----------------------------------------------------------------------------
(***************************************************************************)
(* The daemon's calls.  A call on a row in the wrong status changes        *)
(* nothing: start answers an error, complete and fail answer success.      *)
(***************************************************************************)
\* Variant of StartTask: the update does not look at the status.
StartTaskAnyStatus(t) ==
  /\ task[t].status # "none"
  /\ SetStatus({t}, "running")
  /\ UNCHANGED <<agentVars, online, procs, spent>>

StartTask(t) ==
  /\ task[t].status = "dispatched"
  /\ SetStatus({t}, "running")
  /\ UNCHANGED <<agentVars, online, procs, spent>>

CompleteTask(t) ==
  /\ task[t].status = "running"
  /\ SetStatus({t}, "completed")
  /\ due' = due \cup {task[t].agent}
  /\ UNCHANGED <<agentVars, online, enqueues, claim, owed, archiving, sweeping, spent>>

\* Variant of FailTask: a late report fails, and retries, a row that already ended.
FailTaskAnyStatus(t, why) ==
  /\ task[t].status # "none"
  /\ FailRows({t}, why)
  /\ owed' = owed \cup {t}
  /\ UNCHANGED <<agentVars, online, enqueues, claim, due, archiving, sweeping, spent>>

FailTask(t, why) ==
  /\ task[t].status \in {"dispatched", "running"}
  /\ FailRows({t}, why)
  /\ owed' = owed \cup {t}
  /\ UNCHANGED <<agentVars, online, enqueues, claim, due, archiving, sweeping, spent>>

\* Variant of RecoverOrphans: it does not call HandleFailedTasks.
RecoverOrphansSilently(r) ==
  LET S == {t \in Active : task[t].runtime = r} IN
  /\ S # {}
  /\ FailRows(S, "infrastructure")
  /\ UNCHANGED <<agentVars, online, procs, spent>>

\* recover-orphans: fails what the runtime had in flight.
RecoverOrphans(r) ==
  LET S == {t \in Active : task[t].runtime = r} IN
  /\ S # {}
  /\ FailRows(S, "infrastructure")
  /\ owed' = owed \cup S
  /\ UNCHANGED <<agentVars, online, enqueues, claim, due, archiving, sweeping, spent>>

Heartbeat(r) ==
  /\ online' = online \cup {r}
  /\ UNCHANGED <<task, agentVars, procs, spent>>

Deregister(r) ==
  /\ online' = online \ {r}
  /\ UNCHANGED <<task, agentVars, procs, spent>>
-----------------------------------------------------------------------------
(***************************************************************************)
(* After a failure: MaybeRetryFailedTask for each failed row, and then     *)
(* ReconcileAgentStatus for its agent.                                     *)
(***************************************************************************)
\* Variant of Retryable: autopilot and quick-create rows are retried too.
RetryableAnyWork(t) == task[t].reason = "infrastructure" /\ task[t].attempt < MaxAttempts

Retryable(t) == /\ task[t].reason = "infrastructure"
                /\ task[t].attempt < MaxAttempts
                /\ task[t].work \in Issues \cup Sessions

MaybeRetry(t) ==
  /\ t \in owed
  /\ owed' = owed \ {t}
  /\ due' = due \cup {task[t].agent}
  /\ IF Retryable(t) /\ ~IndexConflict(task[t].agent, task[t].work)
       THEN \E u \in Tasks :
              /\ Fresh(u)
              /\ task' = [task EXCEPT ![u] =
                            Queued(task[t].agent, task[t].runtime, task[t].work,
                                   task[t].attempt + 1, t)]
       ELSE UNCHANGED task
  /\ UNCHANGED <<agentVars, online, enqueues, claim, archiving, sweeping, spent>>

Reconcile(a) ==
  /\ a \in due
  /\ RefreshStatus(a)
  /\ due' = due \ {a}
  /\ UNCHANGED <<task, agentRuntime, archived, online, enqueues, claim, owed,
                 archiving, sweeping, spent>>
-----------------------------------------------------------------------------
(***************************************************************************)
(* Cancelling, and the agent and runtime handlers.                         *)
(***************************************************************************)
Cancel(S) ==
  /\ S # {}
  /\ SetStatus(S, "cancelled")
  /\ due' = due \cup AgentsOf(S)
  /\ UNCHANGED <<agentVars, online, enqueues, claim, owed, archiving, sweeping, spent>>

CancelTask(t) == t \in Live /\ Cancel({t})
CancelTasksForWork(w) == Cancel({t \in Live : task[t].work = w})
CancelTasksForAgent(a) == Cancel({t \in Live : task[t].agent = a})

\* UpdateAgent with a runtime_id: queued rows keep the runtime they were given.
MoveAgent(a, r) ==
  /\ spent.moves < MaxMoves
  /\ agentRuntime[a] # r
  /\ agentRuntime' = [agentRuntime EXCEPT ![a] = r]
  /\ spent' = [spent EXCEPT !.moves = @ + 1]
  /\ UNCHANGED <<task, archived, agentStatus, online, procs>>

ArchiveAgent(a) ==
  /\ spent.archives < MaxArchives
  /\ a \notin archived
  /\ archived' = archived \cup {a}
  /\ archiving' = archiving \cup {a}
  /\ spent' = [spent EXCEPT !.archives = @ + 1]
  /\ UNCHANGED <<task, agentRuntime, agentStatus, online, enqueues, claim, owed, due, sweeping>>

\* The second statement of ArchiveAgent: it cancels and does not reconcile.
ArchiveCancel(a) ==
  /\ a \in archiving
  /\ archiving' = archiving \ {a}
  /\ SetStatus({t \in Live : task[t].agent = a}, "cancelled")
  /\ UNCHANGED <<agentVars, online, enqueues, claim, owed, due, sweeping, spent>>

RestoreAgent(a) ==
  /\ a \in archived
  /\ archived' = archived \ {a}
  /\ UNCHANGED <<task, agentRuntime, agentStatus, online, procs, spent>>

\* revokeAndRemoveMember for the owner of runtime r: one transaction.
RevokeRuntime(r) ==
  LET gone == {a \in Agents \ archived : agentRuntime[a] = r}
      S == {t \in Live : task[t].runtime = r \/ task[t].agent \in gone} IN
  /\ spent.archives < MaxArchives
  /\ archived' = archived \cup gone
  /\ SetStatus(S, "cancelled")
  /\ online' = online \ {r}
  /\ due' = due \cup AgentsOf(S)
  /\ spent' = [spent EXCEPT !.archives = @ + 1]
  /\ UNCHANGED <<agentRuntime, agentStatus, enqueues, claim, owed, archiving, sweeping>>
-----------------------------------------------------------------------------
(***************************************************************************)
(* The sweeper, every 30 seconds.                                          *)
(***************************************************************************)
\* sweepStaleRuntimes, first statement: flip runtimes without a heartbeat.
MarkRuntimesOffline(R) ==
  /\ ~sweeping
  /\ R # {}
  /\ R \subseteq online
  /\ online' = online \ R
  /\ sweeping' = TRUE
  /\ UNCHANGED <<task, agentVars, enqueues, claim, owed, due, archiving, spent>>

\* ... and its second: fail what any offline runtime had in flight.
FailTasksForOfflineRuntimes ==
  LET S == {t \in Active : task[t].runtime \notin online} IN
  /\ sweeping
  /\ sweeping' = FALSE
  /\ FailRows(S, "infrastructure")
  /\ owed' = owed \cup S
  /\ UNCHANGED <<agentVars, online, enqueues, claim, due, archiving, spent>>

\* Variant of FailStaleTasks: a task that was dispatched and never started is left.
FailStaleRunning(S) ==
  /\ S # {}
  /\ \A t \in S : task[t].status = "running"
  /\ FailRows(S, "infrastructure")
  /\ owed' = owed \cup S
  /\ UNCHANGED <<agentVars, online, enqueues, claim, due, archiving, sweeping, spent>>

\* sweepStaleTasks: dispatched for 5 minutes or running for 2.5 hours.
FailStaleTasks(S) ==
  /\ S # {}
  /\ S \subseteq Active
  /\ FailRows(S, "infrastructure")
  /\ owed' = owed \cup S
  /\ UNCHANGED <<agentVars, online, enqueues, claim, due, archiving, sweeping, spent>>

\* sweepExpiredQueuedTasks: queued for 2 hours.
ExpireStaleQueuedTasks(S) ==
  /\ S # {}
  /\ \A t \in S : task[t].status = "queued"
  /\ FailRows(S, "queued_expired")
  /\ owed' = owed \cup S
  /\ UNCHANGED <<agentVars, online, enqueues, claim, due, archiving, sweeping, spent>>
-----------------------------------------------------------------------------
(***************************************************************************)
(* Procedures lost half-way.                                               *)
(***************************************************************************)
\* A claim handler that does not finish: its request context is cancelled when
\* the poller stops or gives up, and the reconcile after the claim with it.
AbortClaim(r) ==
  /\ spent.faults < MaxFaults
  /\ claim[r].pc # "idle"
  /\ claim' = [claim EXCEPT ![r] = NoClaim]
  /\ spent' = [spent EXCEPT !.faults = @ + 1]
  /\ UNCHANGED <<task, agentVars, online, enqueues, owed, due, archiving, sweeping>>

\* The server process ends: what its procedures still had to do is lost.
ServerRestart ==
  /\ spent.faults < MaxFaults
  /\ enqueues' = {}
  /\ claim' = [r \in Runtimes |-> NoClaim]
  /\ owed' = {}
  /\ due' = {}
  /\ archiving' = {}
  /\ sweeping' = FALSE
  /\ spent' = [spent EXCEPT !.faults = @ + 1]
  /\ UNCHANGED <<task, agentVars, online>>
-----------------------------------------------------------------------------
Enqueueing == \/ \E a \in Agents, w \in Work : EnqueueBegin(a, w)
              \/ \E e \in enqueues : EnqueueInsert(e)
              \/ \E a \in Agents, i \in Issues : RerunIssue(a, i)

Claiming(r) == \/ ListCandidates(r)
               \/ CountRunning(r)
               \/ ClaimSnapshot(r)
               \/ ClaimDispatch(r)
               \/ ClaimReturn(r)

DaemonCalls == \/ \E t \in Tasks : StartTask(t) \/ CompleteTask(t)
               \/ \E t \in Tasks, why \in {"infrastructure", "agent"} : FailTask(t, why)
               \/ \E r \in Runtimes : RecoverOrphans(r) \/ Heartbeat(r) \/ Deregister(r)

AfterFailure == \/ \E t \in owed : MaybeRetry(t)
                \/ \E a \in due : Reconcile(a)

UserCalls == \/ \E t \in Tasks : CancelTask(t)
             \/ \E w \in Issues \cup Sessions : CancelTasksForWork(w)
             \/ \E a \in Agents : CancelTasksForAgent(a)
             \/ \E a \in Agents, r \in Runtimes : MoveAgent(a, r)
             \/ \E a \in Agents : ArchiveAgent(a) \/ ArchiveCancel(a) \/ RestoreAgent(a)
             \/ \E r \in Runtimes : RevokeRuntime(r)

Sweeping == \/ \E R \in SUBSET Runtimes : MarkRuntimesOffline(R)
            \/ FailTasksForOfflineRuntimes
            \/ \E S \in SUBSET Tasks : FailStaleTasks(S) \/ ExpireStaleQueuedTasks(S)

Faults == ServerRestart \/ \E r \in Runtimes : AbortClaim(r)

Next == \/ Enqueueing
        \/ \E r \in Runtimes : Claiming(r)
        \/ DaemonCalls
        \/ AfterFailure
        \/ UserCalls
        \/ Sweeping
        \/ Faults

Spec == Init /\ [][Next]_vars
=============================================================================
