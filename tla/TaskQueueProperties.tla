------------------------ MODULE TaskQueueProperties ------------------------
(***************************************************************************)
(* What the task queue guarantees.                                         *)
(***************************************************************************)
EXTENDS TaskQueue

-----------------------------------------------------------------------------
\* Every variable holds what the tables' columns and the procedures' local
\* variables can hold, and a row that exists names an agent, a runtime and its work.
TypeOK ==
  /\ task \in [Tasks -> Row]
  /\ \A t \in Tasks : task[t].status # "none" =>
       task[t].agent \in Agents /\ task[t].runtime \in Runtimes /\ task[t].work \in Work
  /\ agentRuntime \in [Agents -> Runtimes]
  /\ archived \subseteq Agents
  /\ agentStatus \in [Agents -> {"idle", "working"}]
  /\ online \subseteq Runtimes
  /\ enqueues \subseteq Request
  /\ claim \in [Runtimes -> Claim]
  /\ owed \subseteq Tasks
  /\ due \subseteq Agents
  /\ archiving \subseteq Agents
  /\ sweeping \in BOOLEAN
  /\ spent \in [enqueues : Nat, moves : Nat, archives : Nat, faults : Nat]

-----------------------------------------------------------------------------
\* An agent works on an issue with one task at a time, whoever claims, retries,
\* reruns or moves runtimes meanwhile.  ClaimAgentTask checks this on a snapshot
\* that may be stale when it updates; what makes it true is the unique index.
IssueSerialised ==
  \A t, u \in Active : t # u /\ task[t].work \in Issues => ~SameKey(t, u)

\* A chat session, and an agent's quick-create work, has one task at a time.
ChatSerialised ==
  \A t, u \in Active : t # u /\ task[t].work \in Sessions \cup QuickCreates => ~SameKey(t, u)

\* An agent never has more tasks out than max_concurrent_tasks.
CapacityRespected ==
  \A a \in Agents : Cardinality({t \in Active : task[t].agent = a}) <= MaxConcurrent

-----------------------------------------------------------------------------
\* The rows a retry created out of p.
Children(p) == {t \in Tasks : task[t].status # "none" /\ task[t].parent = p}

\* A failed row is retried at most once, whichever of the daemon's report, the
\* recovery call and the sweepers failed it, and a retry repeats its parent's work
\* within the attempt budget; autopilot and quick-create work is not retried.
RetryOnce ==
  /\ \A p \in Tasks : \A t, u \in Children(p) : t = u
  /\ \A t \in Tasks : task[t].parent # NoTask =>
       LET p == task[t].parent IN
       /\ task[p].status = "failed"
       /\ task[p].reason = "infrastructure"
       /\ task[p].work \in Issues \cup Sessions
       /\ task[p].agent = task[t].agent
       /\ task[p].work = task[t].work
       /\ task[t].attempt = task[p].attempt + 1
       /\ task[t].attempt <= MaxAttempts

\* Work that infrastructure failed is not dropped while it has attempts left:
\* either its retry is still owed, or it exists, or the issue had already got
\* another row for the same agent.
FailedWorkSuperseded ==
  \A t \in Tasks :
    task[t].status = "failed" /\ Retryable(t) /\ t \notin owed =>
      \/ Children(t) # {}
      \/ /\ task[t].work \in Issues
         /\ \E u \in Tasks : /\ t < u
                             /\ task[u].agent = task[t].agent
                             /\ task[u].work = task[t].work

-----------------------------------------------------------------------------
(***************************************************************************)
(* The inductive invariant behind IssueSerialised and RetryOnce.           *)
(***************************************************************************)
\* An id no INSERT has used yet is an empty row.
UnusedRows == \A t \in Tasks : task[t].status = "none" => task[t] = NoRow

\* What the unique index enforces.
OnePending ==
  \A t, u \in Pending : t # u /\ task[t].work \in Issues => ~SameKey(t, u)

\* A snapshot may be stale, but never for an issue row it can still take: as long
\* as the row is queued it holds the index entry, so nothing with its key was
\* dispatched since.
SnapshotsSound ==
  \A r \in Runtimes : \A t \in claim[r].rows :
    /\ task[t].status # "none"
    /\ task[t].status = "queued" /\ task[t].work \in Issues
         => \A u \in Active : ~SameKey(t, u)

\* A row still owed its retry is failed and has none.
OwedChildless == \A t \in owed : task[t].status = "failed" /\ Children(t) = {}

QueueInv ==
  /\ TypeOK
  /\ UnusedRows
  /\ OnePending
  /\ SnapshotsSound
  /\ IssueSerialised
  /\ OwedChildless
  /\ RetryOnce

-----------------------------------------------------------------------------
(***************************************************************************)
(* The inductive invariant behind ChatSerialised and CapacityRespected,    *)
(* for agents that keep their runtime: one poller then claims for each.    *)
(***************************************************************************)
\* A row and an enqueue in flight carry the runtime their agent has.
WorkAtHome ==
  /\ \A t \in Tasks : task[t].status # "none" => task[t].runtime = agentRuntime[task[t].agent]
  /\ \A e \in enqueues : e.runtime = agentRuntime[e.agent]

\* A poller tries agents of its own runtime.
ClaimsAtHome ==
  \A r \in Runtimes :
    /\ \A a \in claim[r].todo : agentRuntime[a] = r
    /\ claim[r].pc \in {"counted", "matched", "claimed"} =>
         claim[r].agent \in Agents /\ agentRuntime[claim[r].agent] = r

\* The rows of a snapshot are the tried agent's.
SnapshotsOwn ==
  \A r \in Runtimes : claim[r].pc = "matched" =>
    \A t \in claim[r].rows : /\ task[t].status # "none"
                             /\ task[t].agent = claim[r].agent

\* A snapshot is still true of the rows it can take: nobody else dispatches for
\* the agent.
SnapshotsFresh ==
  \A r \in Runtimes : claim[r].pc = "matched" =>
    \A t \in claim[r].rows : task[t].status = "queued" => \A u \in Active : ~SameKey(t, u)

\* What was counted under the limit has not grown since.
RoomLeft ==
  \A r \in Runtimes : claim[r].pc \in {"counted", "matched"} =>
    Cardinality(Occupied(claim[r].agent)) < MaxConcurrent

\* The table has finitely many rows.
RowsFinite == IsFiniteSet({t \in Tasks : task[t].status # "none"})

\* No two tasks in flight that ClaimAgentTask serialises.
KeysSerialised == \A t, u \in Active : t # u => ~SameKey(t, u)

PollerInv ==
  /\ WorkAtHome
  /\ ClaimsAtHome
  /\ SnapshotsOwn
  /\ SnapshotsFresh
  /\ RoomLeft
  /\ RowsFinite
  /\ KeysSerialised
  /\ CapacityRespected

-----------------------------------------------------------------------------
(***************************************************************************)
(* The inductive invariant behind FailedWorkSuperseded.                    *)
(***************************************************************************)
\* Ids are used in order.
RowsInOrder ==
  \A t, u \in Tasks : u < t /\ task[t].status # "none" => task[u].status # "none"

\* A row that waits is the newest of its agent and issue: the index let the newer
\* ones in only after it had left.
NewestPending ==
  \A t, u \in Tasks :
    u < t /\ task[t].status # "none" /\ task[t].work \in Issues /\ SameKey(u, t)
      => u \notin Pending

SupersededInv == RowsInOrder /\ NewestPending /\ FailedWorkSuperseded

-----------------------------------------------------------------------------
\* A claim that will still refresh the status of agent a.
ClaimedFor(a) == \E r \in Runtimes : claim[r].pc = "claimed" /\ claim[r].agent = a

\* An agent shown idle has nothing out, unless a refresh of its status is coming.
NoHiddenWork ==
  \A a \in Agents :
    agentStatus[a] = "idle" /\ (\E t \in Active : task[t].agent = a)
      => a \in due \/ ClaimedFor(a)

\* An agent in use that is shown working has something out, unless a refresh is
\* coming.
NoStuckWorking ==
  \A a \in Agents \ archived :
    agentStatus[a] = "working" /\ (\A t \in Active : task[t].agent # a)
      => a \in due \/ ClaimedFor(a) \/ (\E t \in owed : task[t].agent = a)

-----------------------------------------------------------------------------
\* No task is handed out for an agent whose archiving, by hand or by revocation, is
\* over.
ArchivedNotDispatched ==
  [][\A t \in Tasks : task[t].status = "queued" /\ task'[t].status = "dispatched"
                        => task[t].agent \notin archived \ archiving]_vars

-----------------------------------------------------------------------------
(***************************************************************************)
(* Fairness: the sweeper's ticker runs as long as the server does, a       *)
(* handler that began a claim or an enqueue goes on, and what follows a    *)
(* failure or a change of status is called in the same goroutine.  Nothing *)
(* is assumed of daemons and users: no start, complete, heartbeat, claim   *)
(* request or cancel need ever come.                                       *)
(***************************************************************************)
Fairness ==
  /\ \A t \in Tasks : WF_vars(FailStaleTasks({t})) /\ WF_vars(ExpireStaleQueuedTasks({t}))
  /\ \A t \in Tasks : WF_vars(MaybeRetry(t))
  /\ \A a \in Agents : WF_vars(Reconcile(a)) /\ WF_vars(ArchiveCancel(a))
  /\ \A r \in Runtimes : WF_vars(CountRunning(r) \/ ClaimSnapshot(r)
                                    \/ ClaimDispatch(r) \/ ClaimReturn(r))
  /\ WF_vars(\E e \in enqueues : EnqueueInsert(e))
  /\ WF_vars(FailTasksForOfflineRuntimes)

FairSpec == Spec /\ Fairness

\* Once nobody enqueues any more, every task ends, its retries included, and every
\* agent comes to be shown idle: no order of time-outs, late answers and
\* cancellations leaves a row in flight or an agent working.
EventuallyQuiet ==
  <>[](Live = {} /\ owed = {} /\ \A a \in Agents : agentStatus[a] = "idle")

-----------------------------------------------------------------------------
\* The queue as serial work: the key of an issue task is its agent and issue.
Holders(k) == {t \in Active : <<task[t].agent, task[t].work>> = k}
Holder(k) == IF Holders(k) = {} THEN NoTask ELSE CHOOSE t \in Holders(k) : TRUE

\* Tasks that were handed out, or ended before they were.
Spent == {t \in Tasks : task[t].status \notin {"none", "queued"}}

SW == INSTANCE SerialWork
        WITH Keys <- Agents \X Issues,
             holder <- [k \in Agents \X Issues |-> Holder(k)],
             spent <- Spent

\* The queue implements serial work: an issue's task is handed out only while no
\* other is out for the same agent, once, and never after it ended or was dropped.
RefinesSerialWork == SW!Spec
=============================================================================
