---------------------------- MODULE DaemonClient ----------------------------
(***************************************************************************)
(* The daemon on a user's machine, from the claim of a task to the report  *)
(* of its end (server/internal/daemon/daemon.go): one poller for each      *)
(* runtime, the slots they share, handleTask with the watch for            *)
(* cancellation, the two ways to update the program (auto_update.go and    *)
(* handleUpdate), shutdown, and the orphan recovery of the next process.   *)
(*                                                                         *)
(* Of the server there is the status of each task, and that any call may   *)
(* be lost before or after it has taken effect.                            *)
(***************************************************************************)
EXTENDS Integers, FiniteSets

CONSTANTS Watched,              \* the runtimes of this machine
          Jobs,                 \* the tasks the server has for them
          RuntimeOf,            \* the runtime of a task
          MaxConcurrentTasks,   \* the slots
          MaxTrouble            \* bound: calls lost, processes killed, runtimes deleted

ASSUME ClientAssumption ==
    /\ IsFiniteSet(Watched) /\ IsFiniteSet(Jobs) /\ Watched \cap Jobs = {}
    /\ RuntimeOf \in [Jobs -> Watched]
    /\ MaxConcurrentTasks \in Nat /\ MaxTrouble \in Nat

VARIABLES
    row,        \* the server: the status of each task
    gone,       \* the server: runtimes whose row was deleted
    up,         \* the process: "up", "stopping" (its context is cancelled), "down"
    poller,     \* each runtime's poller, and the answer to its claim
    job,        \* how far handleTask has got with each task
    slots,      \* the free ones
    gate,       \* pauseClaims, claimsInFlight, activeTasks and updating
    auto, manual,   \* tryAutoUpdate and handleUpdate
    adrift,     \* history: tasks whose claim or failure was lost on the way
    trouble

clientVars ==
    <<row, gone, up, poller, job, slots, gate, auto, manual, adrift, trouble>>

updates == <<auto, manual>>

Row == {"queued", "dispatched", "running", "completed", "failed", "cancelled",
        "deleted"}

Poller == [pc : {"idle", "holding", "claiming", "answered", "leaving",
                 "returning", "stopped"},
           answer : SUBSET Jobs]

Gate == [pauseClaims : BOOLEAN, claimsInFlight : Int, activeTasks : Int,
         updating : BOOLEAN]

\* "completed", "other" and "error" are the results of an agent that has ended.
Job == {"none", "starting", "start failed", "working", "interrupted",
        "completed", "other", "error", "reporting", "failing",
        "finishing", "slot back", "inactive"}

\* Pollers with a claim of their own, and tasks handed over, in claimsInFlight.
ClaimingPollers == {r \in Watched : poller[r].pc \in {"claiming", "answered"}}

InHand == {t \in Jobs : job[t] # "none"}

Active == {t \in Jobs : job[t] \notin {"none", "inactive"}}

ClientTypeOK ==
    /\ row \in [Jobs -> Row] /\ gone \subseteq Watched
    /\ up \in {"up", "stopping", "down"}
    /\ poller \in [Watched -> Poller] /\ job \in [Jobs -> Job]
    /\ slots \in Int /\ gate \in Gate
    /\ auto \in {"idle", "fetching", "holding", "upgrading", "unwinding", "restarting"}
    /\ manual \in {"idle", "upgrading", "restarting"}
    /\ adrift \subseteq Jobs /\ trouble \in 0..MaxTrouble

AtPc(pc) == [r \in Watched |-> [pc |-> pc, answer |-> {}]]

OpenGate == [pauseClaims |-> FALSE, claimsInFlight |-> 0, activeTasks |-> 0,
             updating |-> FALSE]

ClientInit ==
    /\ row = [t \in Jobs |-> "queued"] /\ gone = {}
    /\ up = "up" /\ poller = AtPc("idle") /\ job = [t \in Jobs |-> "none"]
    /\ slots = MaxConcurrentTasks /\ gate = OpenGate
    /\ auto = "idle" /\ manual = "idle"
    /\ adrift = {} /\ trouble = 0

Trouble == trouble < MaxTrouble /\ trouble' = trouble + 1

\* A call fails: on the way, or because the context is cancelled.
CallFails == IF up = "stopping" THEN UNCHANGED trouble ELSE Trouble

-----------------------------------------------------------------------------
\* The server.

Open(t) == row[t] \in {"queued", "dispatched", "running"}

OnServer(rows) ==
    row' = rows /\ UNCHANGED <<up, poller, job, slots, gate, updates, adrift>>

\* The user cancels the task, or the row goes with its issue.
CancelTask(t) ==
    /\ Open(t)
    /\ \E s \in {"cancelled", "deleted"} : OnServer([row EXCEPT ![t] = s])
    /\ UNCHANGED <<gone, trouble>>

\* The sweeper, or RecoverOrphans after a re-registration, which asks for every
\* runtime of the workspace whatever this daemon is running there.
FailOnServer(t) ==
    /\ row[t] \in {"dispatched", "running"}
    /\ OnServer([row EXCEPT ![t] = "failed"])
    /\ UNCHANGED <<gone, trouble>>

\* A runtime is deleted, with its tasks.
DeleteRuntime(r) ==
    /\ r \notin gone /\ Trouble
    /\ OnServer([t \in Jobs |-> IF RuntimeOf[t] = r THEN "deleted" ELSE row[t]])
    /\ gone' = gone \cup {r}

-----------------------------------------------------------------------------
\* runRuntimePoller.

AtPoller(r, pc, answer) == poller' = [poller EXCEPT ![r] = [pc |-> pc, answer |-> answer]]

AcquireSlot(r) ==
    /\ up = "up" /\ poller[r].pc = "idle" /\ slots > 0
    /\ slots' = slots - 1
    /\ AtPoller(r, "holding", {})
    /\ UNCHANGED <<row, gone, up, job, gate, updates, adrift, trouble>>

TryEnterClaim(r) ==
    /\ poller[r].pc = "holding"
    /\ IF gate.pauseClaims
       THEN slots' = slots + 1 /\ UNCHANGED gate /\ AtPoller(r, "idle", {})
       ELSE /\ gate' = [gate EXCEPT !.claimsInFlight = @ + 1]
            /\ AtPoller(r, "claiming", {})
            /\ UNCHANGED slots
    /\ UNCHANGED <<row, gone, up, job, updates, adrift, trouble>>

\* The server dispatches a task of the runtime, or has none to give.
ServeClaim(r) ==
    /\ poller[r].pc = "claiming" /\ r \notin gone
    /\ \/ UNCHANGED row /\ AtPoller(r, "answered", {})
       \/ \E t \in Jobs : /\ RuntimeOf[t] = r /\ row[t] = "queued"
                          /\ row' = [row EXCEPT ![t] = "dispatched"]
                          /\ AtPoller(r, "answered", {t})
    /\ UNCHANGED <<gone, up, job, slots, gate, updates, adrift, trouble>>

ExitClaim == gate' = [gate EXCEPT !.claimsInFlight = @ - 1]

\* A task is handed to handleTask, which keeps the claim in flight.
HandOver(r, t) ==
    /\ poller[r].pc = "answered" /\ t \in poller[r].answer
    /\ gate' = [gate EXCEPT !.activeTasks = @ + 1]
    /\ job' = [job EXCEPT ![t] = "starting"]
    /\ AtPoller(r, "idle", {})
    /\ UNCHANGED <<row, gone, up, slots, updates, adrift, trouble>>

NoTask(r) ==
    /\ poller[r].pc = "answered" /\ poller[r].answer = {}
    /\ ExitClaim
    /\ AtPoller(r, "leaving", {})
    /\ UNCHANGED <<row, gone, up, job, slots, updates, adrift, trouble>>

\* The claim fails; the server may have dispatched a task for it.
ClaimFails(r) ==
    /\ r \in ClaimingPollers /\ CallFails
    /\ ExitClaim
    /\ AtPoller(r, "leaving", {})
    /\ adrift' = adrift \cup poller[r].answer
    /\ UNCHANGED <<row, gone, up, job, slots, updates>>

\* 404: the poller ends, and handleRuntimeGone begins (module RuntimeRecovery).
RuntimeNotFound(r) ==
    /\ poller[r].pc = "claiming" /\ r \in gone
    /\ ExitClaim
    /\ AtPoller(r, "returning", {})
    /\ UNCHANGED <<row, gone, up, job, slots, updates, adrift, trouble>>

PutSlotBack(r) ==
    /\ poller[r].pc \in {"leaving", "returning"}
    /\ slots' = slots + 1
    /\ AtPoller(r, IF poller[r].pc = "leaving" THEN "idle" ELSE "stopped", {})
    /\ UNCHANGED <<row, gone, up, job, gate, updates, adrift, trouble>>

\* Its context is cancelled: at shutdown, or because its runtime is gone.
StopPoller(r) ==
    /\ poller[r].pc = "idle" /\ (up = "stopping" \/ r \in gone)
    /\ AtPoller(r, "stopped", {})
    /\ UNCHANGED <<row, gone, up, job, slots, gate, updates, adrift, trouble>>

-----------------------------------------------------------------------------
\* handleTask.

Moves(t, from, to) == job[t] = from /\ job' = [job EXCEPT ![t] = to]

InProcess == UNCHANGED <<gone, up, poller, slots, gate, updates>>

\* Variant of ShouldInterrupt: a 404 is an error like any other.
ShouldInterruptCancelled(t) == row[t] = "cancelled"

\* shouldInterruptAgent, of an answer to GetTaskStatus.
ShouldInterrupt(t) == row[t] \in {"cancelled", "deleted"}

StartTask(t) ==
    /\ up = "up" /\ row[t] = "dispatched"
    /\ Moves(t, "starting", "working")
    /\ row' = [row EXCEPT ![t] = "running"]
    /\ InProcess /\ UNCHANGED <<adrift, trouble>>

\* Refused, because the task is dispatched no more; or lost, before the server
\* has started it or after.
StartTaskFails(t) ==
    /\ Moves(t, "starting", "start failed")
    /\ \/ row[t] # "dispatched" /\ UNCHANGED <<row, trouble>>
       \/ /\ CallFails
          /\ \E s \in {row[t], "running"} :
                /\ s # row[t] => row[t] = "dispatched"
                /\ row' = [row EXCEPT ![t] = s]
    /\ InProcess /\ UNCHANGED adrift

\* Variant of FailTask: after a start that failed the task is left alone.
FailTaskRunning(t) ==
    /\ Moves(t, "failing", "finishing") \/ Moves(t, "start failed", "finishing")
    /\ row' = IF row[t] = "running" /\ job[t] = "failing"
              THEN [row EXCEPT ![t] = "failed"] ELSE row
    /\ up = "up"
    /\ InProcess /\ UNCHANGED <<adrift, trouble>>

\* FailTask: a task that is over by then stays what it is.
FailTask(t) ==
    /\ Moves(t, "failing", "finishing") \/ Moves(t, "start failed", "finishing")
    /\ up = "up"
    /\ row' = IF row[t] \in {"dispatched", "running"}
              THEN [row EXCEPT ![t] = "failed"] ELSE row
    /\ InProcess /\ UNCHANGED <<adrift, trouble>>

\* The error is logged, and that is all.
FailTaskFails(t) ==
    /\ Moves(t, "failing", "finishing") \/ Moves(t, "start failed", "finishing")
    /\ CallFails
    /\ adrift' = adrift \cup {t}
    /\ UNCHANGED row /\ InProcess

\* watchTaskCancellation closes its channel, as long as nobody has looked at it.
WatchCancellation(t) ==
    /\ up = "up" /\ ShouldInterrupt(t)
    /\ \E from \in {"working", "completed", "other", "error"} :
          Moves(t, from, "interrupted")
    /\ UNCHANGED row /\ InProcess /\ UNCHANGED <<adrift, trouble>>

\* The agent ends, by itself or because its context is cancelled.
AgentEnds(t) ==
    /\ \E result \in {"completed", "other", "error"} : Moves(t, "working", result)
    /\ UNCHANGED row /\ InProcess /\ UNCHANGED <<adrift, trouble>>

\* An interrupted agent ends; its result is discarded.
Discard(t) ==
    /\ Moves(t, "interrupted", "finishing")
    /\ UNCHANGED row /\ InProcess /\ UNCHANGED <<adrift, trouble>>

\* A run without a result is reported as failed; one with a result is discarded
\* if its task was cancelled, and reported if nobody can say.
CheckBeforeReport(t) ==
    /\ \/ Moves(t, "error", "failing") /\ UNCHANGED trouble
       \/ \E result \in {"completed", "other"} :
             LET report == IF result = "completed" THEN "reporting" ELSE "failing"
             IN  \/ /\ up = "up" /\ UNCHANGED trouble
                    /\ Moves(t, result, IF ShouldInterrupt(t) THEN "finishing" ELSE report)
                 \/ CallFails /\ Moves(t, result, report)
    /\ UNCHANGED row /\ InProcess /\ UNCHANGED adrift

CompleteTask(t) ==
    /\ up = "up" /\ row[t] # "deleted"
    /\ Moves(t, "reporting", "finishing")
    /\ row' = IF row[t] = "running" THEN [row EXCEPT ![t] = "completed"] ELSE row
    /\ InProcess /\ UNCHANGED <<adrift, trouble>>

\* The task is gone, or the call is lost, before it took effect or after: the
\* task is reported as failed instead.
CompleteTaskFails(t) ==
    /\ Moves(t, "reporting", "failing")
    /\ \/ row[t] = "deleted" /\ UNCHANGED <<row, trouble>>
       \/ /\ CallFails
          /\ \E s \in {row[t], "completed"} :
                /\ s # row[t] => row[t] = "running"
                /\ row' = [row EXCEPT ![t] = s]
    /\ InProcess /\ UNCHANGED adrift

\* The deferred calls of the handler's goroutine, in their order.
ReturnSlot(t) ==
    /\ Moves(t, "finishing", "slot back")
    /\ slots' = slots + 1
    /\ UNCHANGED <<row, gone, up, poller, gate, updates, adrift, trouble>>

LeaveActive(t) ==
    /\ Moves(t, "slot back", "inactive")
    /\ gate' = [gate EXCEPT !.activeTasks = @ - 1]
    /\ UNCHANGED <<row, gone, up, poller, slots, updates, adrift, trouble>>

LeaveClaim(t) ==
    /\ Moves(t, "inactive", "none")
    /\ ExitClaim
    /\ UNCHANGED <<row, gone, up, poller, slots, updates, adrift, trouble>>

-----------------------------------------------------------------------------
\* tryAutoUpdate and handleUpdate.

AutoStep(from, to) == auto = from /\ auto' = to

ManualStep(from, to) == manual = from /\ manual' = to /\ UNCHANGED auto

Updating == UNCHANGED <<row, gone, poller, job, slots, adrift>>

AutoCheck ==
    /\ up = "up" /\ ~ gate.updating /\ gate.activeTasks = 0
    /\ AutoStep("idle", "fetching")
    /\ Updating /\ UNCHANGED <<up, gate, manual, trouble>>

\* The release is there, and newer, or the tick is over.
AutoFetched ==
    /\ \/ AutoStep("fetching", "idle") /\ UNCHANGED gate
       \/ /\ AutoStep("fetching", "holding")
          /\ ~ gate.updating
          /\ gate' = [gate EXCEPT !.updating = TRUE]
    /\ Updating /\ UNCHANGED <<up, manual, trouble>>

\* Variant of TrySetClaimBarrier: claims that are still on their way do not count.
TrySetClaimBarrierActive ==
    /\ IF gate.activeTasks > 0
       THEN AutoStep("holding", "unwinding") /\ UNCHANGED gate
       ELSE /\ AutoStep("holding", "upgrading")
            /\ gate' = [gate EXCEPT !.pauseClaims = TRUE]
    /\ Updating /\ UNCHANGED <<up, manual, trouble>>

TrySetClaimBarrier ==
    /\ IF gate.claimsInFlight > 0 \/ gate.activeTasks > 0
       THEN AutoStep("holding", "unwinding") /\ UNCHANGED gate
       ELSE /\ AutoStep("holding", "upgrading")
            /\ gate' = [gate EXCEPT !.pauseClaims = TRUE]
    /\ Updating /\ UNCHANGED <<up, manual, trouble>>

\* The upgrade fails: the barrier goes, then the flag.
AutoUpgradeFails ==
    /\ AutoStep("upgrading", "unwinding")
    /\ gate' = [gate EXCEPT !.pauseClaims = FALSE]
    /\ Updating /\ UNCHANGED <<up, manual, trouble>>

AutoUnwind ==
    /\ AutoStep("unwinding", "idle")
    /\ gate' = [gate EXCEPT !.updating = FALSE]
    /\ Updating /\ UNCHANGED <<up, manual, trouble>>

\* triggerRestart cancels the root context, unless the program cannot find its
\* own path; both flags stay set either way.
TriggerRestart == \/ up' = "stopping" /\ UNCHANGED trouble
                  \/ UNCHANGED up /\ Trouble

AutoRestart ==
    /\ AutoStep("upgrading", "restarting")
    /\ TriggerRestart
    /\ Updating /\ UNCHANGED <<gate, manual>>

\* An update that a heartbeat asks for looks at no task.
ManualBegin ==
    /\ up = "up" /\ ~ gate.updating
    /\ ManualStep("idle", "upgrading")
    /\ gate' = [gate EXCEPT !.updating = TRUE]
    /\ Updating /\ UNCHANGED <<up, trouble>>

ManualRestart ==
    /\ ManualStep("upgrading", "restarting")
    /\ TriggerRestart
    /\ Updating /\ UNCHANGED gate

\* The deferred reset, after a restart or a failure.
ManualEnd ==
    /\ ManualStep("upgrading", "idle") \/ ManualStep("restarting", "idle")
    /\ gate' = [gate EXCEPT !.updating = FALSE]
    /\ Updating /\ UNCHANGED <<up, trouble>>

-----------------------------------------------------------------------------
\* The process.

Ended ==
    /\ up' = "down" /\ poller' = AtPc("stopped") /\ job' = [t \in Jobs |-> "none"]
    /\ slots' = MaxConcurrentTasks /\ gate' = OpenGate
    /\ auto' = "idle" /\ manual' = "idle"
    /\ UNCHANGED <<row, gone, adrift>>

\* pollLoop waits for its pollers, and for its tasks up to 30 seconds.
Exit == up = "stopping" /\ poller = AtPc("stopped") /\ Ended /\ UNCHANGED trouble

Killed == up # "down" /\ Trouble /\ Ended

\* The next process registers each runtime and has the server fail what the one
\* before left behind there; a failure of that is logged.
Recovered(t, lost) == RuntimeOf[t] \notin lost /\ row[t] \in {"dispatched", "running"}

StartProcess ==
    /\ up = "down" /\ up' = "up"
    /\ poller' = [r \in Watched |-> [pc |-> IF r \in gone THEN "stopped" ELSE "idle",
                                     answer |-> {}]]
    /\ \E lost \in SUBSET Watched :
          /\ IF lost = {} THEN UNCHANGED trouble ELSE Trouble
          /\ row' = [t \in Jobs |-> IF Recovered(t, lost) THEN "failed" ELSE row[t]]
          /\ adrift' = {t \in Jobs : RuntimeOf[t] \in lost}
    /\ UNCHANGED <<gone, job, slots, gate, updates>>

PollerStep(r) ==
    \/ AcquireSlot(r) \/ TryEnterClaim(r) \/ ServeClaim(r)
    \/ \E t \in Jobs : HandOver(r, t)
    \/ NoTask(r) \/ ClaimFails(r) \/ RuntimeNotFound(r)
    \/ PutSlotBack(r) \/ StopPoller(r)

TaskStep(t) ==
    \/ StartTask(t) \/ StartTaskFails(t) \/ FailTask(t) \/ FailTaskFails(t)
    \/ WatchCancellation(t) \/ AgentEnds(t) \/ Discard(t) \/ CheckBeforeReport(t)
    \/ CompleteTask(t) \/ CompleteTaskFails(t)
    \/ ReturnSlot(t) \/ LeaveActive(t) \/ LeaveClaim(t)

ServerStep ==
    \/ \E t \in Jobs : CancelTask(t) \/ FailOnServer(t)
    \/ \E r \in Watched : DeleteRuntime(r)

UpdateStep ==
    \/ AutoCheck \/ AutoFetched \/ TrySetClaimBarrier \/ AutoUpgradeFails
    \/ AutoUnwind \/ AutoRestart \/ ManualBegin \/ ManualRestart \/ ManualEnd

ClientNext ==
    \/ \E r \in Watched : PollerStep(r)
    \/ \E t \in Jobs : TaskStep(t)
    \/ ServerStep \/ UpdateStep \/ Exit \/ Killed \/ StartProcess

ClientSpec == ClientInit /\ [][ClientNext]_clientVars

\* The watch of a task polls every five seconds for as long as the agent runs.
ClientFairness == \A t \in Jobs : WF_clientVars(WatchCancellation(t))

-----------------------------------------------------------------------------
\* While the claim barrier stands no claim is out and no task is in anybody's
\* hands, whatever pollers and handlers do between the two idle checks of an
\* automatic update: the restart it ends with interrupts no agent ("so that
\* once it returns true we can run the upgrade knowing that no in-flight task
\* will be cancelled by triggerRestart").
BarrierHolds ==
    gate.pauseClaims => ClaimingPollers = {} /\ InHand = {}

\* The daemon drops no task in silence: what the server counts as dispatched to
\* it or running on it is in the answer to a claim or in the hands of
\* handleTask, in every process that is up.  Except where a call was lost: the
\* answer to a claim, the report of a failure, the orphan recovery.
NoTaskDropped ==
    up = "up" =>
        \A t \in Jobs \ adrift : row[t] \in {"dispatched", "running"} =>
            t \in InHand \/ \E r \in Watched : t \in poller[r].answer

\* An agent whose task was cancelled or deleted is interrupted, however long it
\* would have gone on, unless the process is over first.  (One whose task the
\* server has failed is not.)
CancelledStops ==
    \A t \in Jobs :
        job[t] = "working" /\ ShouldInterrupt(t) ~> job[t] # "working" \/ up # "up"
=============================================================================
