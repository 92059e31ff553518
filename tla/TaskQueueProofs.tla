-------------------------- MODULE TaskQueueProofs --------------------------
(***************************************************************************)
(* Theorems about TaskQueue for any agents, runtimes, work, row ids and    *)
(* bounds.                                                                 *)
(***************************************************************************)
EXTENDS TaskQueueProperties, FiniteSetTheorems, TLAPS

-----------------------------------------------------------------------------
(***************************************************************************)
(* What a step does to the table: it changes the status of some rows, or   *)
(* it inserts one.                                                         *)
(***************************************************************************)
\* The part of TypeOK about the table.
TableOK ==
  /\ task \in [Tasks -> Row]
  /\ \A t \in Tasks : task[t].status # "none" =>
       task[t].agent \in Agents /\ task[t].runtime \in Runtimes /\ task[t].work \in Work

\* The rows of S get status st; a row keeps everything but its status and reason.
Moved(S, st) ==
  \A t \in Tasks :
    /\ t \in S => task'[t].status = st
    /\ t \notin S => task'[t] = task[t]
    /\ task'[t].agent = task[t].agent
    /\ task'[t].runtime = task[t].runtime
    /\ task'[t].work = task[t].work
    /\ task'[t].attempt = task[t].attempt
    /\ task'[t].parent = task[t].parent

\* Row u is inserted for request (a, r, w), attempt n of parent p.
Inserted(u, a, r, w, n, p) ==
  /\ u \in Tasks /\ task[u].status = "none"
  /\ task' = [task EXCEPT ![u] = Queued(a, r, w, n, p)]

\* SetStatus moves the rows it names and keeps the table well-typed.
LEMMA SetStatusMoves ==
  ASSUME TableOK, NEW S, S \subseteq Tasks, NEW st \in Status \ {"none"},
         \A t \in S : task[t].status # "none", SetStatus(S, st)
  PROVE  TableOK' /\ Moved(S, st)
<1> DEFINE row(t) == IF t \in S THEN [task[t] EXCEPT !.status = st] ELSE task[t]
<1>1. \A t \in Tasks : row(t) \in Row
  <2> TAKE t \in Tasks
  <2>1. task[t] \in Row
    BY DEF TableOK
  <2> QED
    BY <2>1 DEF Row
<1>2. task' = [t \in Tasks |-> row(t)]
  BY DEF SetStatus
<1> HIDE DEF row
<1>3. task' \in [Tasks -> Row]
  BY <1>1, <1>2
<1>4. \A t \in Tasks : task'[t] = row(t)
  BY <1>2
<1>5. \A t \in Tasks : task[t] \in Row
  BY DEF TableOK
<1>6. Moved(S, st)
  BY <1>4, <1>5 DEF Moved, row, Row
<1>7. TableOK'
  BY <1>3, <1>6 DEF TableOK, Moved
<1> QED
  BY <1>6, <1>7

\* So does FailRows.
LEMMA FailRowsMoves ==
  ASSUME TableOK, NEW S, S \subseteq Tasks, NEW why \in Reasons,
         \A t \in S : task[t].status # "none", FailRows(S, why)
  PROVE  TableOK' /\ Moved(S, "failed")
<1> DEFINE row(t) == IF t \in S THEN [task[t] EXCEPT !.status = "failed", !.reason = why]
                                ELSE task[t]
<1>1. \A t \in Tasks : row(t) \in Row
  <2> TAKE t \in Tasks
  <2>1. task[t] \in Row
    BY DEF TableOK
  <2> QED
    BY <2>1 DEF Row, Status
<1>2. task' = [t \in Tasks |-> row(t)]
  BY DEF FailRows
<1> HIDE DEF row
<1>3. task' \in [Tasks -> Row]
  BY <1>1, <1>2
<1>4. \A t \in Tasks : task'[t] = row(t)
  BY <1>2
<1>5. \A t \in Tasks : task[t] \in Row
  BY DEF TableOK
<1>6. Moved(S, "failed")
  BY <1>4, <1>5 DEF Moved, row, Row
<1>7. TableOK'
  BY <1>3, <1>6 DEF TableOK, Moved
<1> QED
  BY <1>6, <1>7

\* An INSERT keeps the table well-typed.
LEMMA InsertOK ==
  ASSUME TableOK, NEW u, NEW a \in Agents, NEW r \in Runtimes, NEW w \in Work,
         NEW n \in Nat, NEW p \in Tasks \cup {NoTask}, Inserted(u, a, r, w, n, p)
  PROVE  TableOK'
<1>1. Queued(a, r, w, n, p) \in Row
  BY DEF Queued, Row, Status, Reasons
<1>2. task' \in [Tasks -> Row]
  BY <1>1 DEF Inserted, TableOK
<1>3. \A t \in Tasks : t # u => task'[t] = task[t]
  BY DEF Inserted, TableOK
<1>4. task'[u] = Queued(a, r, w, n, p)
  BY DEF Inserted, TableOK
<1>5. task'[u].agent = a /\ task'[u].runtime = r /\ task'[u].work = w
  <2>1. LET q == Queued(a, r, w, n, p) IN q.agent = a /\ q.runtime = r /\ q.work = w
    BY DEF Queued
  <2> QED
    BY <2>1, <1>4
<1> QED
  BY <1>2, <1>3, <1>5 DEF TableOK, Inserted

-----------------------------------------------------------------------------
(***************************************************************************)
(* Each action by what it does to the table, and to nothing else the       *)
(* invariant speaks of.                                                    *)
(***************************************************************************)
ClaimOK == claim \in [Runtimes -> Claim]
RestOK ==
  /\ agentRuntime \in [Agents -> Runtimes]
  /\ archived \subseteq Agents
  /\ agentStatus \in [Agents -> {"idle", "working"}]
  /\ online \subseteq Runtimes
  /\ enqueues \subseteq Request
  /\ owed \subseteq Tasks
  /\ due \subseteq Agents
  /\ archiving \subseteq Agents
  /\ sweeping \in BOOLEAN
  /\ spent \in [enqueues : Nat, moves : Nat, archives : Nat, faults : Nat]

\* The type invariant in its three parts, in a state and in the next.
LEMMA TypeParts == TypeOK <=> TableOK /\ ClaimOK /\ RestOK
BY DEF TypeOK, TableOK, ClaimOK, RestOK

\* The parts make up the whole of the next state.
LEMMA TypePartsNext == TableOK' /\ ClaimOK' /\ RestOK' => TypeOK'
BY DEF TypeOK, TableOK, ClaimOK, RestOK

\* The step ends the rows of S: they are live before, and completed, failed or
\* cancelled after.
Ends(S) == /\ S \subseteq Live
           /\ \E st \in {"completed", "failed", "cancelled"} : Moved(S, st)

\* Setting live rows to completed or cancelled ends them.
LEMMA SetStatusEnds ==
  ASSUME TableOK, NEW S, S \subseteq Live, NEW st \in {"completed", "cancelled"},
         SetStatus(S, st)
  PROVE  TableOK' /\ Ends(S) /\ Moved(S, st)
<1>1. S \subseteq Tasks /\ \A t \in S : task[t].status # "none"
  BY DEF Live
<1>2. st \in Status \ {"none"}
  BY DEF Status
<1>3. TableOK' /\ Moved(S, st)
  BY <1>1, <1>2, SetStatusMoves
<1> QED
  BY <1>3 DEF Ends

\* Failing live rows ends them.
LEMMA FailRowsEnds ==
  ASSUME TableOK, NEW S, S \subseteq Live, NEW why \in Reasons, FailRows(S, why)
  PROVE  TableOK' /\ Ends(S) /\ Moved(S, "failed")
<1>1. S \subseteq Tasks /\ \A t \in S : task[t].status # "none"
  BY DEF Live
<1>2. TableOK' /\ Moved(S, "failed")
  BY <1>1, FailRowsMoves
<1> QED
  BY <1>2 DEF Ends

-----------------------------------------------------------------------------
\* What an enqueue carries is well-typed.
LEMMA RequestTyped ==
  ASSUME RestOK, NEW a \in Agents, NEW w \in Work
  PROVE  NewRequest(a, w) \in Request
BY DEF RestOK, NewRequest, Request

\* A claim that turns to its next agent is well-typed.
LEMMA NextAgentTyped ==
  ASSUME NEW c \in Claim
  PROVE  NextAgent(c) \in Claim
BY DEF NextAgent, Claim, NoClaim, NoTask

-----------------------------------------------------------------------------
(***************************************************************************)
(* The claim actions.  A claim forgets rows of its snapshot, except in     *)
(* ClaimSnapshot, which takes a new one.                                   *)
(***************************************************************************)
RowsShrink == \A q \in Runtimes : claim'[q].rows \subseteq claim[q].rows

\* ListCandidates keeps the types and takes no snapshot.
LEMMA ListCandidatesType ==
  ASSUME TypeOK, NEW r \in Runtimes, ListCandidates(r)
  PROVE  TypeOK' /\ RowsShrink
<1> DEFINE found == {task[t].agent : t \in {u \in Tasks : /\ task[u].status = "queued"
                                                          /\ task[u].runtime = r}}
           c == [NoClaim EXCEPT !.pc = "next", !.todo = found]
<1>1. found \subseteq Agents
  BY TypeParts DEF TableOK
<1>2. claim' = [claim EXCEPT ![r] = c]
  BY DEF ListCandidates
<1>3. c \in Claim /\ c.rows = {}
  <2> HIDE DEF found
  <2> QED BY <1>1 DEF Claim, NoClaim, NoTask
<1> HIDE DEF c
<1>4. ClaimOK' /\ RowsShrink
  BY <1>2, <1>3, TypeParts DEF ClaimOK, RowsShrink
<1>5. TableOK' /\ RestOK'
  BY TypeParts DEF ListCandidates, TableOK, RestOK, agentVars
<1> QED
  BY <1>4, <1>5, TypePartsNext

\* CountRunning keeps the types and takes no snapshot.
LEMMA CountRunningType ==
  ASSUME TypeOK, NEW r \in Runtimes, CountRunning(r)
  PROVE  TypeOK' /\ RowsShrink
<1>1. claim \in [Runtimes -> Claim] /\ claim[r] \in Claim
  BY TypeParts DEF ClaimOK
<1>2. PICK a \in claim[r].todo :
        LET c == [claim[r] EXCEPT !.todo = @ \ {a}] IN
        claim' = [claim EXCEPT ![r] = IF Cardinality(Occupied(a)) >= MaxConcurrent
                                        THEN NextAgent(c)
                                        ELSE [c EXCEPT !.pc = "counted", !.agent = a]]
  BY DEF CountRunning
<1> DEFINE c == [claim[r] EXCEPT !.todo = @ \ {a}]
           d == [c EXCEPT !.pc = "counted", !.agent = a]
<1>3. c \in Claim /\ a \in Agents
  BY <1>1 DEF Claim
<1>4. d \in Claim /\ d.rows \subseteq claim[r].rows
  BY <1>1, <1>3 DEF Claim
<1>5. NextAgent(c) \in Claim /\ NextAgent(c).rows = {}
  <2> HIDE DEF c
  <2> QED BY <1>3, NextAgentTyped DEF NextAgent, NoClaim
<1>6. claim' = [claim EXCEPT ![r] = NextAgent(c)] \/ claim' = [claim EXCEPT ![r] = d]
  BY <1>2
<1> HIDE DEF c, d
<1>7. ClaimOK' /\ RowsShrink
  BY <1>1, <1>4, <1>5, <1>6 DEF ClaimOK, RowsShrink
<1>8. TableOK' /\ RestOK'
  BY TypeParts DEF CountRunning, TableOK, RestOK, agentVars
<1> QED
  BY <1>7, <1>8, TypePartsNext

\* ClaimSnapshot keeps the types; its rows are those claimable now.
LEMMA ClaimSnapshotType ==
  ASSUME TypeOK, NEW r \in Runtimes, ClaimSnapshot(r)
  PROVE  /\ TypeOK'
         /\ \E a : claim'[r].rows = Claimable(a)
         /\ \A q \in Runtimes : q # r => claim'[q] = claim[q]
<1>1. claim \in [Runtimes -> Claim] /\ claim[r] \in Claim
  BY TypeParts DEF ClaimOK
<1> DEFINE c == [claim[r] EXCEPT !.pc = "matched", !.rows = Claimable(claim[r].agent)]
<1>2. Claimable(claim[r].agent) \subseteq Tasks
  BY DEF Claimable
<1>3. c \in Claim /\ c.rows = Claimable(claim[r].agent)
  BY <1>1, <1>2 DEF Claim
<1>4. claim' = [claim EXCEPT ![r] = c]
  BY <1>1 DEF ClaimSnapshot, Claim
<1> HIDE DEF c
<1>5. ClaimOK' /\ claim'[r] = c /\ \A q \in Runtimes : q # r => claim'[q] = claim[q]
  BY <1>1, <1>3, <1>4 DEF ClaimOK
<1>6. TableOK' /\ RestOK'
  BY TypeParts DEF ClaimSnapshot, TableOK, RestOK, agentVars
<1> QED
  BY <1>3, <1>5, <1>6, TypePartsNext

\* The claim of runtime r takes row t, the rest of its local state as it was.
Dispatches(r, t) == /\ task[t].status = "queued"
                    /\ Moved({t}, "dispatched")
                    /\ claim[r].pc = "matched"
                    /\ claim'[r] = [claim[r] EXCEPT !.pc = "claimed", !.task = t]
                    /\ \A q \in Runtimes : q # r => claim'[q] = claim[q]

\* ClaimDispatch keeps the types, and dispatches at most a row of the snapshot that is
\* still queued.
LEMMA ClaimDispatchType ==
  ASSUME TypeOK, NEW r \in Runtimes, ClaimDispatch(r)
  PROVE  /\ TypeOK' /\ RowsShrink
         /\ \/ task' = task
            \/ \E t \in claim[r].rows : Dispatches(r, t)
<1>1. claim \in [Runtimes -> Claim] /\ claim[r] \in Claim /\ claim[r].rows \subseteq Tasks
  BY TypeParts DEF ClaimOK, Claim
<1> DEFINE c(t) == [claim[r] EXCEPT !.pc = "claimed", !.task = t]
<1>0. claim[r].pc = "matched"
  BY DEF ClaimDispatch
<1>2. \/ claim' = [claim EXCEPT ![r] = NextAgent(claim[r])] /\ task' = task
      \/ \E t \in claim[r].rows : /\ task[t].status = "queued"
                                 /\ SetStatus({t}, "dispatched")
                                 /\ claim' = [claim EXCEPT ![r] = c(t)]
  BY <1>1 DEF ClaimDispatch, Claim
<1>3. \A t \in Tasks : c(t) \in Claim /\ c(t).rows = claim[r].rows
  BY <1>1 DEF Claim
<1>4. NextAgent(claim[r]) \in Claim /\ NextAgent(claim[r]).rows = {}
  BY <1>1, NextAgentTyped DEF NextAgent, NoClaim
<1> HIDE DEF c
<1>5. RestOK'
  BY TypeParts DEF ClaimDispatch, RestOK, agentVars
<1>6. CASE claim' = [claim EXCEPT ![r] = NextAgent(claim[r])] /\ task' = task
  <2>1. ClaimOK' /\ RowsShrink
    BY <1>1, <1>4, <1>6 DEF ClaimOK, RowsShrink
  <2>2. TableOK'
    BY <1>6, TypeParts DEF TableOK
  <2> QED
    BY <1>5, <1>6, <2>1, <2>2, TypePartsNext
<1>7. ASSUME NEW t \in claim[r].rows, task[t].status = "queued",
             SetStatus({t}, "dispatched"), claim' = [claim EXCEPT ![r] = c(t)]
      PROVE  TypeOK' /\ RowsShrink /\ Dispatches(r, t)
  <2>1. ClaimOK' /\ RowsShrink
    BY <1>1, <1>3, <1>7 DEF ClaimOK, RowsShrink
  <2>2. {t} \subseteq Tasks /\ \A u \in {t} : task[u].status # "none"
    BY <1>1, <1>7
  <2>3. "dispatched" \in Status \ {"none"}
    BY DEF Status
  <2>4. TableOK' /\ Moved({t}, "dispatched")
    BY <1>7, <2>2, <2>3, SetStatusMoves, TypeParts
  <2>5. Dispatches(r, t)
    BY <1>0, <1>1, <1>7, <2>4 DEF Dispatches, c
  <2> QED
    BY <1>5, <2>1, <2>4, <2>5, TypePartsNext
<1> QED
  BY <1>2, <1>6, <1>7

\* ClaimReturn keeps the types and forgets the snapshot.
LEMMA ClaimReturnType ==
  ASSUME TypeOK, NEW r \in Runtimes, ClaimReturn(r)
  PROVE  TypeOK' /\ RowsShrink
<1>1. claim \in [Runtimes -> Claim] /\ claim[r] \in Claim
  BY TypeParts DEF ClaimOK
<1>2. NextAgent(claim[r]) \in Claim /\ NextAgent(claim[r]).rows = {}
  BY <1>1, NextAgentTyped DEF NextAgent, NoClaim
<1>3. NoClaim \in Claim /\ NoClaim.rows = {}
  BY DEF NoClaim, Claim, NoTask
<1>4. \/ claim' = [claim EXCEPT ![r] = NextAgent(claim[r])]
      \/ claim' = [claim EXCEPT ![r] = NoClaim]
  BY DEF ClaimReturn
<1>5. ClaimOK' /\ RowsShrink
  BY <1>1, <1>2, <1>3, <1>4 DEF ClaimOK, RowsShrink
<1>6. TableOK' /\ RestOK'
  BY TypeParts DEF ClaimReturn, RefreshStatus, TableOK, RestOK
<1> QED
  BY <1>5, <1>6, TypePartsNext

-----------------------------------------------------------------------------
(***************************************************************************)
(* Steps that end rows: every one of them owes a retry to the rows it      *)
(* failed, and to no others.                                               *)
(***************************************************************************)
EndStep(S) == /\ Ends(S)
              /\ RowsShrink
              /\ owed' = owed \cup {t \in S : task'[t].status = "failed"}

\* Where no claim changes, none gains rows.
LEMMA UnchangedClaim ==
  ASSUME TypeOK, UNCHANGED claim
  PROVE  ClaimOK' /\ RowsShrink
BY TypeParts DEF ClaimOK, RowsShrink

\* A cancellation or a completion.
LEMMA CancelRows ==
  ASSUME TypeOK, NEW S, S \subseteq Live, NEW st \in {"completed", "cancelled"},
         SetStatus(S, st), UNCHANGED <<claim, owed>>, RestOK'
  PROVE  TypeOK' /\ EndStep(S)
<1>1. TableOK' /\ Ends(S) /\ Moved(S, st)
  BY SetStatusEnds, TypeParts
<1>2. {t \in S : task'[t].status = "failed"} = {}
  BY <1>1 DEF Moved, Live
<1> QED
  BY <1>1, <1>2, UnchangedClaim, TypePartsNext DEF EndStep

\* A failure whose rows go to HandleFailedTasks or to FailTask's own retry.
LEMMA FailAndOwe ==
  ASSUME TypeOK, NEW S, S \subseteq Live, NEW why \in Reasons, FailRows(S, why),
         owed' = owed \cup S, UNCHANGED claim, RestOK'
  PROVE  TypeOK' /\ EndStep(S)
<1>1. TableOK' /\ Ends(S) /\ Moved(S, "failed")
  BY FailRowsEnds, TypeParts
<1>2. {t \in S : task'[t].status = "failed"} = S
  BY <1>1 DEF Moved, Live
<1> QED
  BY <1>1, <1>2, UnchangedClaim, TypePartsNext DEF EndStep

\* The agents of live rows are agents.
LEMMA AgentsOfTyped ==
  ASSUME TypeOK, NEW S, S \subseteq Live
  PROVE  AgentsOf(S) \subseteq Agents
BY TypeParts DEF TableOK, AgentsOf, Live

\* A rerun ends the live rows of its agent on its issue.
LEMMA RerunIssueEnds ==
  ASSUME TypeOK, NEW a \in Agents, NEW i \in Issues, RerunIssue(a, i)
  PROVE  TypeOK' /\ \E S : EndStep(S)
<1> DEFINE S == {t \in Live : task[t].agent = a /\ task[t].work = i}
<1>1. S \subseteq Live /\ SetStatus(S, "cancelled")
  BY DEF RerunIssue
<1>2. NewRequest(a, i) \in Request
  BY RequestTyped, TypeParts DEF Work
<1>3. /\ enqueues' \subseteq enqueues \cup {NewRequest(a, i)}
      /\ due' = due \cup AgentsOf(S)
      /\ spent' = [spent EXCEPT !.enqueues = @ + 1]
      /\ UNCHANGED <<agentVars, online, claim, owed, archiving, sweeping>>
  BY DEF RerunIssue
<1> HIDE DEF S
<1>4. RestOK'
  BY <1>1, <1>2, <1>3, AgentsOfTyped, TypeParts DEF RestOK, agentVars
<1> QED
  BY <1>1, <1>3, <1>4, CancelRows

\* CompleteTask ends its row.
LEMMA CompleteTaskEnds ==
  ASSUME TypeOK, NEW t \in Tasks, CompleteTask(t)
  PROVE  TypeOK' /\ EndStep({t})
<1>1. {t} \subseteq Live /\ SetStatus({t}, "completed") /\ UNCHANGED <<claim, owed>>
  BY DEF CompleteTask, Live
<1>2. RestOK'
  BY TypeParts DEF CompleteTask, RestOK, TableOK, agentVars
<1> QED
  BY <1>1, <1>2, CancelRows

\* FailTask ends its row and owes its retry.
LEMMA FailTaskEnds ==
  ASSUME TypeOK, NEW t \in Tasks, NEW why \in {"infrastructure", "agent"}, FailTask(t, why)
  PROVE  TypeOK' /\ EndStep({t})
<1>1. /\ {t} \subseteq Live /\ why \in Reasons /\ FailRows({t}, why)
      /\ owed' = owed \cup {t} /\ UNCHANGED claim
  BY DEF FailTask, Live, Reasons
<1>2. RestOK'
  BY TypeParts DEF FailTask, RestOK, agentVars
<1> QED
  BY <1>1, <1>2, FailAndOwe

\* The daemon's recover-orphans ends rows and owes their retries.
LEMMA RecoverOrphansEnds ==
  ASSUME TypeOK, NEW r \in Runtimes, RecoverOrphans(r)
  PROVE  TypeOK' /\ \E S : EndStep(S)
<1> DEFINE S == {t \in Active : task[t].runtime = r}
<1>1. /\ S \subseteq Live /\ "infrastructure" \in Reasons /\ FailRows(S, "infrastructure")
      /\ owed' = owed \cup S /\ UNCHANGED claim
  BY DEF RecoverOrphans, Active, Live, Reasons
<1>2. S \subseteq Tasks
  BY DEF Active
<1> HIDE DEF S
<1>3. RestOK'
  BY <1>1, <1>2, TypeParts DEF RecoverOrphans, RestOK, agentVars
<1> QED
  BY <1>1, <1>3, FailAndOwe

\* So does the sweep of the tasks of offline runtimes,
LEMMA FailTasksForOfflineRuntimesEnds ==
  ASSUME TypeOK, FailTasksForOfflineRuntimes
  PROVE  TypeOK' /\ \E S : EndStep(S)
<1> DEFINE S == {t \in Active : task[t].runtime \notin online}
<1>1. /\ S \subseteq Live /\ "infrastructure" \in Reasons /\ FailRows(S, "infrastructure")
      /\ owed' = owed \cup S /\ UNCHANGED claim
  BY DEF FailTasksForOfflineRuntimes, Active, Live, Reasons
<1>2. S \subseteq Tasks
  BY DEF Active
<1> HIDE DEF S
<1>3. RestOK'
  BY <1>1, <1>2, TypeParts DEF FailTasksForOfflineRuntimes, RestOK, agentVars
<1> QED
  BY <1>1, <1>3, FailAndOwe

\* the sweep of stale tasks,
LEMMA FailStaleTasksEnds ==
  ASSUME TypeOK, NEW S \in SUBSET Tasks, FailStaleTasks(S)
  PROVE  TypeOK' /\ EndStep(S)
<1>1. /\ S \subseteq Live /\ "infrastructure" \in Reasons /\ FailRows(S, "infrastructure")
      /\ owed' = owed \cup S /\ UNCHANGED claim
  BY DEF FailStaleTasks, Active, Live, Reasons
<1>2. RestOK'
  BY <1>1, TypeParts DEF FailStaleTasks, RestOK, agentVars
<1> QED
  BY <1>1, <1>2, FailAndOwe

\* and the expiry of queued ones.
LEMMA ExpireStaleQueuedTasksEnds ==
  ASSUME TypeOK, NEW S \in SUBSET Tasks, ExpireStaleQueuedTasks(S)
  PROVE  TypeOK' /\ EndStep(S)
<1>1. /\ S \subseteq Live /\ "queued_expired" \in Reasons /\ FailRows(S, "queued_expired")
      /\ owed' = owed \cup S /\ UNCHANGED claim
  BY DEF ExpireStaleQueuedTasks, Live, Reasons
<1>2. RestOK'
  BY <1>1, TypeParts DEF ExpireStaleQueuedTasks, RestOK, agentVars
<1> QED
  BY <1>1, <1>2, FailAndOwe

\* A cancellation ends the rows it names.
LEMMA CancelEnds ==
  ASSUME TypeOK, NEW S, S \subseteq Live, Cancel(S)
  PROVE  TypeOK' /\ EndStep(S)
<1>1. SetStatus(S, "cancelled") /\ UNCHANGED <<claim, owed>>
  BY DEF Cancel
<1>2. RestOK'
  BY AgentsOfTyped, TypeParts DEF Cancel, RestOK, agentVars
<1> QED
  BY <1>1, <1>2, CancelRows

\* The second statement of ArchiveAgent ends the rows of the agent.
LEMMA ArchiveCancelEnds ==
  ASSUME TypeOK, NEW a \in Agents, ArchiveCancel(a)
  PROVE  TypeOK' /\ \E S : EndStep(S)
<1> DEFINE S == {t \in Live : task[t].agent = a}
<1>1. S \subseteq Live /\ SetStatus(S, "cancelled") /\ UNCHANGED <<claim, owed>>
  BY DEF ArchiveCancel
<1>2. RestOK'
  BY TypeParts DEF ArchiveCancel, RestOK, agentVars
<1> QED
  BY <1>1, <1>2, CancelRows

\* Revoking a runtime ends rows.
LEMMA RevokeRuntimeEnds ==
  ASSUME TypeOK, NEW r \in Runtimes, RevokeRuntime(r)
  PROVE  TypeOK' /\ \E S : EndStep(S)
<1> DEFINE gone == {a \in Agents \ archived : agentRuntime[a] = r}
           S == {t \in Live : task[t].runtime = r \/ task[t].agent \in gone}
<1>1. S \subseteq Live /\ SetStatus(S, "cancelled") /\ UNCHANGED <<claim, owed>>
  BY DEF RevokeRuntime
<1>2. /\ archived' = archived \cup gone
      /\ online' = online \ {r}
      /\ due' = due \cup AgentsOf(S)
      /\ spent' = [spent EXCEPT !.archives = @ + 1]
      /\ UNCHANGED <<agentRuntime, agentStatus, enqueues, owed, archiving, sweeping>>
  BY DEF RevokeRuntime
<1>3. gone \subseteq Agents
  OBVIOUS
<1> HIDE DEF S, gone
<1>4. RestOK'
  BY <1>1, <1>2, <1>3, AgentsOfTyped, TypeParts DEF RestOK
<1> QED
  BY <1>1, <1>4, CancelRows

-----------------------------------------------------------------------------
(***************************************************************************)
(* Steps that leave the table alone, and steps that insert a row.          *)
(***************************************************************************)
Bystands == task' = task /\ RowsShrink /\ owed' \subseteq owed

\* What is left to show of a handler that touches no row: the rest of its types.
LEMMA BystandType ==
  ASSUME TypeOK, task' = task, UNCHANGED claim, owed' \subseteq owed, RestOK'
  PROVE  TypeOK' /\ Bystands
<1>1. TableOK'
  BY TypeParts DEF TableOK
<1> QED
  BY <1>1, UnchangedClaim, TypePartsNext DEF Bystands

\* The handlers of agents and runtimes touch no row.
LEMMA HandlersBystand ==
  ASSUME TypeOK,
         \/ \E a \in Agents, w \in Work : EnqueueBegin(a, w)
         \/ \E a \in Agents : Reconcile(a) \/ ArchiveAgent(a) \/ RestoreAgent(a)
         \/ \E a \in Agents, r \in Runtimes : MoveAgent(a, r)
         \/ \E r \in Runtimes : Heartbeat(r) \/ Deregister(r)
         \/ \E R \in SUBSET Runtimes : MarkRuntimesOffline(R)
  PROVE  TypeOK' /\ Bystands
<1>1. ASSUME NEW a \in Agents, NEW w \in Work, EnqueueBegin(a, w) PROVE TypeOK' /\ Bystands
  <2>1. RestOK' /\ task' = task /\ UNCHANGED claim /\ owed' = owed
    BY <1>1, TypeParts, RequestTyped DEF EnqueueBegin, RestOK, agentVars
  <2> QED
    BY <2>1, BystandType
<1>2. ASSUME NEW a \in Agents, Reconcile(a) \/ ArchiveAgent(a) \/ RestoreAgent(a)
      PROVE TypeOK' /\ Bystands
  <2>1. RestOK' /\ task' = task /\ UNCHANGED claim /\ owed' = owed
    BY <1>2, TypeParts
    DEF Reconcile, RefreshStatus, ArchiveAgent, RestoreAgent, RestOK, agentVars, procs
  <2> QED
    BY <2>1, BystandType
<1>3. ASSUME NEW a \in Agents, NEW r \in Runtimes, MoveAgent(a, r) PROVE TypeOK' /\ Bystands
  <2>1. RestOK' /\ task' = task /\ UNCHANGED claim /\ owed' = owed
    BY <1>3, TypeParts DEF MoveAgent, RestOK, procs
  <2> QED
    BY <2>1, BystandType
<1>4. ASSUME NEW r \in Runtimes, Heartbeat(r) \/ Deregister(r) PROVE TypeOK' /\ Bystands
  <2>1. RestOK' /\ task' = task /\ UNCHANGED claim /\ owed' = owed
    BY <1>4, TypeParts DEF Heartbeat, Deregister, RestOK, agentVars, procs
  <2> QED
    BY <2>1, BystandType
<1>5. ASSUME NEW R \in SUBSET Runtimes, MarkRuntimesOffline(R) PROVE TypeOK' /\ Bystands
  <2>1. RestOK' /\ task' = task /\ UNCHANGED claim /\ owed' = owed
    BY <1>5, TypeParts DEF MarkRuntimesOffline, RestOK, agentVars
  <2> QED
    BY <2>1, BystandType
<1> QED
  BY <1>1, <1>2, <1>3, <1>4, <1>5

\* A restart or an aborted claim touches no row.
LEMMA FaultsBystand ==
  ASSUME TypeOK, ServerRestart \/ \E r \in Runtimes : AbortClaim(r)
  PROVE  TypeOK' /\ Bystands
<1>1. claim \in [Runtimes -> Claim]
  BY TypeParts DEF ClaimOK
<1>2. NoClaim \in Claim /\ NoClaim.rows = {}
  BY DEF NoClaim, Claim, NoTask
<1>3. \/ claim' = [r \in Runtimes |-> NoClaim]
      \/ \E r \in Runtimes : claim' = [claim EXCEPT ![r] = NoClaim]
  BY DEF ServerRestart, AbortClaim
<1>4. ClaimOK' /\ RowsShrink
  BY <1>1, <1>2, <1>3 DEF ClaimOK, RowsShrink
<1>5. TableOK' /\ task' = task /\ owed' \subseteq owed
  BY TypeParts DEF TableOK, ServerRestart, AbortClaim
<1>6. RestOK'
  <2>1. CASE ServerRestart
    <3>1. /\ enqueues' = {} /\ owed' = {} /\ due' = {} /\ archiving' = {} /\ sweeping' = FALSE
          /\ spent' = [spent EXCEPT !.faults = @ + 1]
          /\ UNCHANGED <<agentRuntime, archived, agentStatus, online>>
      BY <2>1 DEF ServerRestart, agentVars
    <3>2. spent' \in [enqueues : Nat, moves : Nat, archives : Nat, faults : Nat]
      BY <3>1, TypeParts DEF RestOK
    <3>3. /\ agentRuntime' \in [Agents -> Runtimes] /\ archived' \subseteq Agents
          /\ agentStatus' \in [Agents -> {"idle", "working"}] /\ online' \subseteq Runtimes
      BY <3>1, TypeParts DEF RestOK
    <3>4. /\ enqueues' \subseteq Request /\ owed' \subseteq Tasks /\ due' \subseteq Agents
          /\ archiving' \subseteq Agents /\ sweeping' \in BOOLEAN
      BY <3>1
    <3> QED
      BY <3>2, <3>3, <3>4 DEF RestOK
  <2>2. ASSUME NEW r \in Runtimes, AbortClaim(r) PROVE RestOK'
    BY <2>2, TypeParts DEF RestOK, AbortClaim, agentVars
  <2> QED
    BY <2>1, <2>2
<1> QED
  BY <1>4, <1>5, <1>6, TypePartsNext DEF Bystands

\* A row is inserted for a request, or as the retry of an owed row p.
InsertStep ==
  /\ UNCHANGED claim
  /\ \E u \in Tasks, a \in Agents, r \in Runtimes, w \in Work, n \in Nat,
        p \in Tasks \cup {NoTask} :
       /\ ~IndexConflict(a, w)
       /\ Fresh(u)
       /\ Inserted(u, a, r, w, n, p)
       /\ IF p = NoTask
          THEN /\ owed' = owed
               /\ \E e \in enqueues : e.agent = a /\ e.runtime = r
          ELSE /\ p \in owed
               /\ owed' = owed \ {p}
               /\ Retryable(p)
               /\ task[p].status = "failed"
               /\ a = task[p].agent /\ r = task[p].runtime
               /\ w = task[p].work /\ n = task[p].attempt + 1

\* The second half of an enqueue inserts one row or none.
LEMMA EnqueueInsertKind ==
  ASSUME TypeOK, NEW e \in enqueues, EnqueueInsert(e)
  PROVE  TypeOK' /\ (Bystands \/ InsertStep)
<1>1. e.agent \in Agents /\ e.runtime \in Runtimes /\ e.work \in Work
  BY TypeParts DEF RestOK, Request
<1>2. RestOK' /\ UNCHANGED <<claim, owed>>
  BY TypeParts DEF EnqueueInsert, RestOK, agentVars
<1>3. CASE task' = task
  BY <1>2, <1>3, BystandType
<1>4. ASSUME NEW t \in Tasks, ~IndexConflict(e.agent, e.work), Fresh(t),
             Inserted(t, e.agent, e.runtime, e.work, 1, NoTask)
      PROVE  TypeOK' /\ InsertStep
  <2>1. TableOK'
    BY <1>1, <1>4, InsertOK, TypeParts
  <2>2. InsertStep
    BY <1>1, <1>2, <1>4 DEF InsertStep
  <2> QED
    BY <1>2, <2>1, <2>2, UnchangedClaim, TypePartsNext
<1> QED
  BY <1>3, <1>4 DEF EnqueueInsert, Inserted, Fresh

\* A retry inserts one row or none; it is the first of its parent by OwedChildless.
LEMMA MaybeRetryKind ==
  ASSUME TypeOK, OwedChildless, NEW t \in owed, MaybeRetry(t)
  PROVE  TypeOK' /\ (Bystands \/ InsertStep)
<1>1. /\ t \in Tasks /\ t # NoTask
      /\ task[t].agent \in Agents /\ task[t].runtime \in Runtimes /\ task[t].work \in Work
      /\ task[t].attempt + 1 \in Nat /\ task[t].status = "failed"
  <2>1. t \in Tasks /\ task[t] \in Row
    BY TypeParts DEF RestOK, TableOK
  <2>2. task[t].status = "failed"
    BY DEF OwedChildless
  <2> QED
    BY <2>1, <2>2, TypeParts, TasksAssumption DEF TableOK, Row, NoTask
<1>2. RestOK' /\ UNCHANGED claim /\ owed' = owed \ {t}
  BY <1>1, TypeParts DEF MaybeRetry, RestOK, agentVars
<1>3. CASE task' = task
  BY <1>2, <1>3, BystandType
<1>4. ASSUME NEW u \in Tasks, Retryable(t), ~IndexConflict(task[t].agent, task[t].work),
             Fresh(u), Inserted(u, task[t].agent, task[t].runtime, task[t].work,
                                task[t].attempt + 1, t)
      PROVE  TypeOK' /\ InsertStep
  <2>1. TableOK'
    BY <1>1, <1>4, InsertOK, TypeParts
  <2>2. InsertStep
    BY <1>1, <1>2, <1>4 DEF InsertStep
  <2> QED
    BY <1>2, <2>1, <2>2, UnchangedClaim, TypePartsNext
<1> QED
  BY <1>3, <1>4 DEF MaybeRetry, Inserted, Fresh

\* StartTask takes a dispatched row to running.
LEMMA StartTaskKind ==
  ASSUME TypeOK, NEW t \in Tasks, StartTask(t)
  PROVE  TypeOK' /\ task[t].status = "dispatched" /\ Moved({t}, "running")
         /\ UNCHANGED <<claim, owed>>
<1>1. task[t].status = "dispatched" /\ SetStatus({t}, "running") /\ UNCHANGED <<claim, owed>>
  BY DEF StartTask, procs
<1>2. {t} \subseteq Tasks /\ (\A u \in {t} : task[u].status # "none")
      /\ "running" \in Status \ {"none"}
  BY <1>1 DEF Status
<1>3. TableOK' /\ Moved({t}, "running")
  BY <1>1, <1>2, SetStatusMoves, TypeParts
<1>4. RestOK'
  BY TypeParts DEF StartTask, RestOK, agentVars, procs
<1> QED
  BY <1>1, <1>3, <1>4, UnchangedClaim, TypePartsNext

-----------------------------------------------------------------------------
(***************************************************************************)
(* Every step is of one of these kinds.                                    *)
(***************************************************************************)
StartStep == \E t \in Tasks : /\ task[t].status = "dispatched"
                              /\ Moved({t}, "running")
                              /\ UNCHANGED <<claim, owed>>

SnapshotStep == /\ UNCHANGED <<task, owed>>
                /\ \E r \in Runtimes :
                     /\ \E a : claim'[r].rows = Claimable(a)
                     /\ \A q \in Runtimes : q # r => claim'[q] = claim[q]

DispatchStep == /\ RowsShrink /\ UNCHANGED owed
                /\ \E r \in Runtimes : \E t \in claim[r].rows : Dispatches(r, t)

\* Every step is one of the six kinds.
LEMMA StepKinds ==
  ASSUME TypeOK, OwedChildless, [Next]_vars
  PROVE  /\ TypeOK'
         /\ \/ Bystands
            \/ InsertStep
            \/ StartStep
            \/ SnapshotStep
            \/ DispatchStep
            \/ \E S : EndStep(S)
<1> DEFINE Kind == \/ Bystands \/ InsertStep \/ StartStep \/ SnapshotStep \/ DispatchStep
                   \/ \E S : EndStep(S)
<1>1. CASE Enqueueing
  BY <1>1, HandlersBystand, EnqueueInsertKind, RerunIssueEnds DEF Enqueueing
<1>2. ASSUME NEW r \in Runtimes, Claiming(r) PROVE TypeOK' /\ Kind
  <2>1. CASE ListCandidates(r) \/ CountRunning(r) \/ ClaimReturn(r)
    <3>1. task' = task /\ owed' = owed
      BY <2>1 DEF ListCandidates, CountRunning, ClaimReturn
    <3> QED
      BY <2>1, <3>1, ListCandidatesType, CountRunningType, ClaimReturnType DEF Bystands
  <2>2. CASE ClaimSnapshot(r)
    <3>1. UNCHANGED <<task, owed>>
      BY <2>2 DEF ClaimSnapshot
    <3>2. SnapshotStep
      BY <2>2, <3>1, ClaimSnapshotType DEF SnapshotStep
    <3> QED
      BY <2>2, <3>2, ClaimSnapshotType
  <2>3. CASE ClaimDispatch(r)
    <3>1. owed' = owed
      BY <2>3 DEF ClaimDispatch
    <3>2. Bystands \/ DispatchStep
      BY <2>3, <3>1, ClaimDispatchType DEF Bystands, DispatchStep
    <3> QED
      BY <2>3, <3>2, ClaimDispatchType
  <2> QED
    BY <1>2, <2>1, <2>2, <2>3 DEF Claiming
<1>3. CASE DaemonCalls
  <2>1. ASSUME NEW t \in Tasks, StartTask(t) PROVE TypeOK' /\ Kind
    BY <2>1, StartTaskKind DEF StartStep
  <2>2. ASSUME NEW r \in Runtimes, Heartbeat(r) \/ Deregister(r) PROVE TypeOK' /\ Kind
    BY <2>2, HandlersBystand
  <2> QED
    BY <1>3, <2>1, <2>2, CompleteTaskEnds, FailTaskEnds, RecoverOrphansEnds DEF DaemonCalls
<1>4. CASE AfterFailure
  <2>1. due \subseteq Agents
    BY TypeParts DEF RestOK
  <2> QED
    BY <1>4, <2>1, MaybeRetryKind, HandlersBystand DEF AfterFailure
<1>5. CASE UserCalls
  <2>1. ASSUME NEW t \in Tasks, CancelTask(t) PROVE TypeOK' /\ Kind
    BY <2>1, CancelEnds DEF CancelTask
  <2>2. ASSUME NEW w, CancelTasksForWork(w) PROVE TypeOK' /\ Kind
    <3>1. {t \in Live : task[t].work = w} \subseteq Live
      OBVIOUS
    <3> QED
      BY <2>2, <3>1, CancelEnds DEF CancelTasksForWork
  <2>3. ASSUME NEW a \in Agents, CancelTasksForAgent(a) PROVE TypeOK' /\ Kind
    <3>1. {t \in Live : task[t].agent = a} \subseteq Live
      OBVIOUS
    <3> QED
      BY <2>3, <3>1, CancelEnds DEF CancelTasksForAgent
  <2> QED
    BY <1>5, <2>1, <2>2, <2>3, HandlersBystand, ArchiveCancelEnds, RevokeRuntimeEnds
    DEF UserCalls
<1>6. CASE Sweeping
  BY <1>6, HandlersBystand, FailTasksForOfflineRuntimesEnds, FailStaleTasksEnds,
     ExpireStaleQueuedTasksEnds DEF Sweeping
<1>7. CASE Faults
  BY <1>7, FaultsBystand DEF Faults
<1>8. CASE UNCHANGED vars
  <2>1. TypeOK'
    BY <1>8 DEF vars, TypeOK
  <2>2. Bystands
    BY <1>8 DEF vars, Bystands, RowsShrink
  <2> QED
    BY <2>1, <2>2
<1> QED
  BY <1>1, <1>2, <1>3, <1>4, <1>5, <1>6, <1>7, <1>8 DEF Next

-----------------------------------------------------------------------------
(***************************************************************************)
(* QueueInv is inductive: one lemma for each kind of step.                 *)
(***************************************************************************)
LEMMA InitQueueInv == Init => QueueInv
<1> SUFFICES ASSUME Init PROVE QueueInv
  OBVIOUS
<1>1. \A t \in Tasks : task[t] = NoRow
  BY DEF Init
<1>2. NoRow \in Row /\ NoRow.status = "none" /\ NoRow.parent = NoTask
  BY DEF NoRow, Row, Status, Reasons, NoTask
<1>3. TableOK
  BY <1>1, <1>2 DEF Init, TableOK
<1>4. NoClaim \in Claim /\ NoClaim.rows = {}
  BY DEF NoClaim, Claim, NoTask
<1>5. ClaimOK /\ \A r \in Runtimes : claim[r].rows = {}
  BY <1>4 DEF Init, ClaimOK
<1>6. RestOK
  BY DEF Init, RestOK
<1>7. TypeOK
  BY <1>3, <1>5, <1>6, TypeParts
<1>8. Active = {} /\ Pending = {}
  BY <1>1, <1>2 DEF Active, Pending
<1>9. UnusedRows /\ OnePending /\ IssueSerialised
  BY <1>1, <1>8 DEF UnusedRows, OnePending, IssueSerialised
<1>10. SnapshotsSound /\ OwedChildless
  BY <1>5 DEF Init, SnapshotsSound, OwedChildless
<1>11. RetryOnce
  BY <1>1, <1>2 DEF RetryOnce, Children
<1> QED
  BY <1>7, <1>9, <1>10, <1>11 DEF QueueInv

\* A step that keeps the rows keeps what the invariant says of the rows alone.
LEMMA BystandsInv ==
  ASSUME QueueInv, TypeOK', Bystands
  PROVE  QueueInv'
<1>1. /\ task' = task /\ owed' \subseteq owed
      /\ \A q \in Runtimes : claim'[q].rows \subseteq claim[q].rows
  BY DEF Bystands, RowsShrink
<1>2. UnusedRows' /\ OnePending' /\ IssueSerialised' /\ RetryOnce'
  BY <1>1 DEF QueueInv, UnusedRows, OnePending, IssueSerialised, RetryOnce, Children,
              Pending, Active, SameKey
<1>3. SnapshotsSound'
  BY <1>1 DEF QueueInv, SnapshotsSound, Active, SameKey
<1>4. OwedChildless'
  BY <1>1 DEF QueueInv, OwedChildless, Children
<1> QED
  BY <1>2, <1>3, <1>4 DEF QueueInv

\* A snapshot keeps the invariant: its rows are claimable as the table stands.
LEMMA SnapshotInv ==
  ASSUME QueueInv, TypeOK', SnapshotStep
  PROVE  QueueInv'
<1>1. task' = task /\ owed' = owed
  BY DEF SnapshotStep
<1>2. UnusedRows' /\ OnePending' /\ IssueSerialised' /\ RetryOnce'
  BY <1>1 DEF QueueInv, UnusedRows, OnePending, IssueSerialised, RetryOnce, Children,
              Pending, Active, SameKey
<1>3. OwedChildless'
  BY <1>1 DEF QueueInv, OwedChildless, Children
<1>4. SnapshotsSound'
  <2>1. PICK r \in Runtimes : /\ \E a : claim'[r].rows = Claimable(a)
                             /\ \A q \in Runtimes : q # r => claim'[q] = claim[q]
    BY DEF SnapshotStep
  <2>2. \A t \in claim'[r].rows : task[t].status = "queued" /\ \A u \in Active : ~SameKey(t, u)
    BY <2>1 DEF Claimable
  <2> QED
    BY <1>1, <2>1, <2>2 DEF QueueInv, SnapshotsSound, Active, SameKey
<1> QED
  BY <1>2, <1>3, <1>4 DEF QueueInv

\* What a move of rows keeps: keys, parents and attempts, and the rows outside S.
LEMMA MovedKeeps ==
  ASSUME NEW S, NEW st, Moved(S, st)
  PROVE  /\ \A t, u \in Tasks : SameKey(t, u)' <=> SameKey(t, u)
         /\ \A t \in Tasks : /\ task'[t].work = task[t].work
                             /\ task'[t].parent = task[t].parent
                             /\ t \notin S => task'[t] = task[t]
                             /\ t \in S => task'[t].status = st
BY DEF Moved, SameKey

\* Rows that neither failed nor are inserted by the step keep their lineage.
LEMMA MovedLineage ==
  ASSUME QueueInv, NEW S, S \subseteq Live, NEW st \in Status \ {"none"}, Moved(S, st)
  PROVE  /\ RetryOnce'
         /\ UnusedRows'
         /\ \A p \in Tasks : Children(p)' = Children(p)
<1> USE DEF Moved
<1>1. \A t \in Tasks : task'[t].status = "none" <=> task[t].status = "none"
  BY DEF Live, Status
<1>2. \A p \in Tasks : Children(p)' = Children(p)
  BY <1>1 DEF Children
<1>3. UnusedRows'
  BY <1>1, <1>2 DEF QueueInv, UnusedRows, Live
<1>4. \A t \in Tasks : task[t].parent # NoTask =>
        task[t].parent \in Tasks /\ task[t].parent \notin S
  BY DEF QueueInv, RetryOnce, Live, TypeOK, Row
<1>5. RetryOnce'
  BY <1>2, <1>4 DEF QueueInv, RetryOnce
<1> QED
  BY <1>2, <1>3, <1>5

\* The end of rows keeps the invariant.
LEMMA EndInv ==
  ASSUME QueueInv, TypeOK', NEW S, EndStep(S)
  PROVE  QueueInv'
<1>1. S \subseteq Live /\ RowsShrink
  BY DEF EndStep, Ends
<1>2. PICK st \in {"completed", "failed", "cancelled"} : Moved(S, st)
  BY DEF EndStep, Ends
<1>3. st \in Status \ {"none"}
  BY DEF Status
<1>4. RetryOnce' /\ UnusedRows' /\ \A p \in Tasks : Children(p)' = Children(p)
  BY <1>1, <1>2, <1>3, MovedLineage
<1>5. Active' \subseteq Active /\ Pending' \subseteq Pending
  BY <1>2 DEF Moved, Active, Pending
<1>6. OnePending' /\ IssueSerialised'
  BY <1>2, <1>5, MovedKeeps DEF QueueInv, OnePending, IssueSerialised, Active, Pending
<1>7. SnapshotsSound'
  <2> SUFFICES ASSUME NEW r \in Runtimes, NEW t \in claim'[r].rows
               PROVE  /\ task'[t].status # "none"
                      /\ task'[t].status = "queued" /\ task'[t].work \in Issues
                           => \A u \in Active' : ~SameKey(t, u)'
    BY DEF SnapshotsSound
  <2>1. t \in claim[r].rows /\ t \in Tasks
    BY <1>1 DEF RowsShrink, QueueInv, TypeOK, Claim
  <2>2. task[t].status # "none" /\ task'[t].status # "none"
    BY <1>2, <1>3, <2>1 DEF QueueInv, SnapshotsSound, Moved
  <2>3. task'[t].status = "queued" => task[t].status = "queued"
    BY <1>2, <2>1 DEF Moved
  <2> QED
    BY <1>2, <1>5, <2>1, <2>2, <2>3, MovedKeeps DEF QueueInv, SnapshotsSound, Active
<1>8. OwedChildless'
  <2> SUFFICES ASSUME NEW t \in owed'
               PROVE  task'[t].status = "failed" /\ Children(t)' = {}
    BY DEF OwedChildless
  <2>1. t \in Tasks
    BY DEF TypeOK
  <2>2. CASE t \in owed
    BY <1>1, <1>2, <1>4, <2>1, <2>2 DEF QueueInv, OwedChildless, Moved, Live
  <2>3. CASE t \in S /\ task'[t].status = "failed"
    <3>1. task[t].status # "failed"
      BY <1>1, <2>3 DEF Live
    <3>2. Children(t) = {}
      <4> SUFFICES ASSUME NEW u \in Children(t) PROVE FALSE
        OBVIOUS
      <4>1. u \in Tasks /\ task[u].parent = t /\ t # NoTask
        BY <2>1, TasksAssumption DEF Children, NoTask
      <4> QED
        BY <3>1, <4>1 DEF QueueInv, RetryOnce
    <3> QED
      BY <1>4, <2>1, <2>3, <3>2
  <2> QED
    BY <2>2, <2>3 DEF EndStep
<1> QED
  BY <1>4, <1>6, <1>7, <1>8 DEF QueueInv

\* A start keeps the invariant.
LEMMA StartInv ==
  ASSUME QueueInv, TypeOK', StartStep
  PROVE  QueueInv'
<1>1. PICK s \in Tasks : task[s].status = "dispatched" /\ Moved({s}, "running")
  BY DEF StartStep
<1>2. claim' = claim /\ owed' = owed
  BY DEF StartStep
<1>3. {s} \subseteq Live /\ "running" \in Status \ {"none"}
  BY <1>1 DEF Live, Status
<1>4. RetryOnce' /\ UnusedRows' /\ \A p \in Tasks : Children(p)' = Children(p)
  BY <1>1, <1>3, MovedLineage
<1>5. Active' = Active /\ Pending' \subseteq Pending
  BY <1>1 DEF Moved, Active, Pending
<1>6. OnePending' /\ IssueSerialised'
  BY <1>1, <1>5, MovedKeeps DEF QueueInv, OnePending, IssueSerialised, Active, Pending
<1>7. SnapshotsSound'
  <2> SUFFICES ASSUME NEW r \in Runtimes, NEW t \in claim[r].rows
               PROVE  /\ task'[t].status # "none"
                      /\ task'[t].status = "queued" /\ task'[t].work \in Issues
                           => \A u \in Active : ~SameKey(t, u)'
    BY <1>2, <1>5 DEF SnapshotsSound
  <2>1. t \in Tasks
    BY DEF QueueInv, TypeOK, Claim
  <2>2. task'[t].status # "none" /\ (task'[t].status = "queued" => task[t].status = "queued")
    BY <1>1, <2>1 DEF QueueInv, SnapshotsSound, Moved
  <2> QED
    BY <1>1, <2>1, <2>2, MovedKeeps DEF QueueInv, SnapshotsSound, Active
<1>8. OwedChildless'
  BY <1>1, <1>2, <1>4 DEF QueueInv, OwedChildless, Moved, TypeOK
<1> QED
  BY <1>4, <1>6, <1>7, <1>8 DEF QueueInv

\* The heart of the matter: an issue row of a stale snapshot may be dispatched,
\* because while it was queued nothing else with its key can have been.
LEMMA DispatchInv ==
  ASSUME QueueInv, TypeOK', DispatchStep
  PROVE  QueueInv'
<1>0. PICK r \in Runtimes : \E d \in claim[r].rows : Dispatches(r, d)
  BY DEF DispatchStep
<1>1. PICK d \in claim[r].rows : task[d].status = "queued" /\ Moved({d}, "dispatched")
  BY <1>0 DEF Dispatches
<1>2. RowsShrink /\ owed' = owed
  BY DEF DispatchStep
<1>3. d \in Tasks
  BY DEF QueueInv, TypeOK, Claim
<1>4. {d} \subseteq Live /\ "dispatched" \in Status \ {"none"}
  BY <1>1, <1>3 DEF Live, Status
<1>5. RetryOnce' /\ UnusedRows' /\ \A p \in Tasks : Children(p)' = Children(p)
  BY <1>1, <1>4, MovedLineage
<1>6. Active' = Active \cup {d} /\ Pending' = Pending /\ d \in Pending
  BY <1>1, <1>3 DEF Moved, Active, Pending
<1>7. OnePending'
  BY <1>1, <1>6, MovedKeeps DEF QueueInv, OnePending, Pending
<1>8. task[d].work \in Issues => \A u \in Active : ~SameKey(d, u)
  BY <1>1 DEF QueueInv, SnapshotsSound
<1>9. \A t, u \in Tasks : SameKey(t, u) <=> SameKey(u, t)
  BY DEF SameKey
<1>10. IssueSerialised'
  <2> SUFFICES ASSUME NEW t \in Active', NEW u \in Active', t # u, task'[t].work \in Issues
               PROVE  ~SameKey(t, u)'
    BY DEF IssueSerialised
  <2>1. t \in Tasks /\ u \in Tasks /\ task[t].work \in Issues
    BY <1>1, MovedKeeps DEF Active
  <2>2. CASE t = d
    BY <1>1, <1>6, <1>8, <2>1, <2>2, MovedKeeps
  <2>3. CASE u = d
    <3>1. ~SameKey(t, u) \/ task[d].work \in Issues
      BY <2>1, <2>3 DEF SameKey
    <3> QED
      BY <1>1, <1>6, <1>8, <1>9, <2>1, <2>3, <3>1, MovedKeeps
  <2>4. CASE t # d /\ u # d
    BY <1>1, <1>6, <2>1, <2>4, MovedKeeps DEF QueueInv, IssueSerialised
  <2> QED
    BY <2>2, <2>3, <2>4
<1>11. SnapshotsSound'
  <2> SUFFICES ASSUME NEW q \in Runtimes, NEW t \in claim'[q].rows
               PROVE  /\ task'[t].status # "none"
                      /\ task'[t].status = "queued" /\ task'[t].work \in Issues
                           => \A u \in Active' : ~SameKey(t, u)'
    BY DEF SnapshotsSound
  <2>1. t \in claim[q].rows /\ t \in Tasks
    BY <1>2 DEF RowsShrink, QueueInv, TypeOK, Claim
  <2>2. task'[t].status # "none"
    BY <1>1, <2>1 DEF QueueInv, SnapshotsSound, Moved
  <2>3. ASSUME task'[t].status = "queued", task'[t].work \in Issues, NEW u \in Active'
        PROVE  ~SameKey(t, u)'
    <3>1. t # d /\ task[t].status = "queued" /\ task[t].work \in Issues
      BY <1>1, <2>1, <2>3 DEF Moved
    <3>2. u \in Tasks
      BY DEF Active
    <3>3. CASE u = d
      <4>1. t \in Pending
        BY <2>1, <3>1 DEF Pending
      <4>2. ~SameKey(t, u)
        BY <1>6, <3>1, <3>3, <4>1 DEF QueueInv, OnePending
      <4> QED
        BY <1>1, <2>1, <3>2, <4>2, MovedKeeps
    <3>4. CASE u # d
      <4>1. ~SameKey(t, u)
        BY <1>6, <2>1, <3>1, <3>4 DEF QueueInv, SnapshotsSound
      <4> QED
        BY <1>1, <2>1, <3>2, <4>1, MovedKeeps
    <3> QED
      BY <3>3, <3>4
  <2> QED
    BY <2>2, <2>3
<1>12. OwedChildless'
  BY <1>1, <1>2, <1>5 DEF QueueInv, OwedChildless, Moved, TypeOK
<1> QED
  BY <1>5, <1>7, <1>10, <1>11, <1>12 DEF QueueInv

\* An INSERT keeps the invariant: it respects the unique index, and its new row
\* is in no snapshot.
LEMMA InsertInv ==
  ASSUME QueueInv, TypeOK', InsertStep
  PROVE  QueueInv'
<1>1. PICK u \in Tasks, a \in Agents, r \in Runtimes, w \in Work, n \in Nat,
           p \in Tasks \cup {NoTask} :
        /\ ~IndexConflict(a, w)
        /\ Inserted(u, a, r, w, n, p)
        /\ IF p = NoTask THEN owed' = owed
           ELSE /\ p \in owed
                /\ owed' = owed \ {p}
                /\ Retryable(p)
                /\ a = task[p].agent /\ w = task[p].work /\ n = task[p].attempt + 1
  BY DEF InsertStep
<1>2. claim' = claim
  BY DEF InsertStep
<1>3. task[u].status = "none" /\ task[u] = NoRow
  BY <1>1 DEF Inserted, QueueInv, UnusedRows
<1>4. \A t \in Tasks : t # u => task'[t] = task[t]
  BY <1>1 DEF Inserted, QueueInv, TypeOK
<1>5. /\ task'[u].status = "queued" /\ task'[u].agent = a /\ task'[u].work = w
      /\ task'[u].attempt = n /\ task'[u].parent = p
  <2>1. task'[u] = Queued(a, r, w, n, p)
    BY <1>1 DEF Inserted, QueueInv, TypeOK
  <2>2. LET q == Queued(a, r, w, n, p) IN
        /\ q.status = "queued" /\ q.agent = a /\ q.work = w /\ q.attempt = n /\ q.parent = p
    BY DEF Queued
  <2> QED
    BY <2>1, <2>2
<1>6. Active' = Active /\ Pending' = Pending \cup {u} /\ u \notin Active /\ u \notin Pending
  BY <1>3, <1>4, <1>5 DEF Active, Pending
<1>7. \A t, v \in Tasks : t # u /\ v # u => (SameKey(t, v)' <=> SameKey(t, v))
  BY <1>4 DEF SameKey
<1>8. UnusedRows'
  BY <1>4, <1>5 DEF QueueInv, UnusedRows
<1>9. OnePending'
  <2> SUFFICES ASSUME NEW t \in Pending', NEW v \in Pending', t # v, task'[t].work \in Issues
               PROVE  ~SameKey(t, v)'
    BY DEF OnePending
  <2>1. t \in Tasks /\ v \in Tasks
    BY DEF Pending
  <2>2. w \in Issues => \A x \in Pending : ~(task[x].agent = a /\ task[x].work = w)
    BY <1>1 DEF IndexConflict
  <2>3. CASE t = u
    BY <1>4, <1>5, <1>6, <2>1, <2>2, <2>3 DEF SameKey
  <2>4. CASE v = u
    BY <1>4, <1>5, <1>6, <2>1, <2>2, <2>4 DEF SameKey
  <2>5. CASE t # u /\ v # u
    BY <1>4, <1>6, <1>7, <2>1, <2>5 DEF QueueInv, OnePending
  <2> QED
    BY <2>3, <2>4, <2>5
<1>10. IssueSerialised'
  BY <1>4, <1>6, <1>7 DEF QueueInv, IssueSerialised, Active
<1>11. SnapshotsSound'
  <2> SUFFICES ASSUME NEW q \in Runtimes, NEW t \in claim[q].rows
               PROVE  /\ task'[t].status # "none"
                      /\ task'[t].status = "queued" /\ task'[t].work \in Issues
                           => \A v \in Active : ~SameKey(t, v)'
    BY <1>2, <1>6 DEF SnapshotsSound
  <2>1. t \in Tasks /\ t # u
    BY <1>3 DEF QueueInv, TypeOK, Claim, SnapshotsSound
  <2> QED
    BY <1>4, <1>6, <1>7, <2>1 DEF QueueInv, SnapshotsSound, Active
<1>12. \A x \in Tasks : task[x].parent # u
  <2> SUFFICES ASSUME NEW x \in Tasks, task[x].parent = u PROVE FALSE
    OBVIOUS
  <2>1. u # NoTask
    BY TasksAssumption DEF NoTask
  <2> QED
    BY <1>3, <2>1 DEF QueueInv, RetryOnce
<1>13. \A x \in Tasks : x # p => Children(x)' = Children(x)
  BY <1>3, <1>4, <1>5 DEF Children
<1>14. p # NoTask => /\ p \in Tasks /\ p # u /\ Children(p) = {}
                     /\ task[p].status = "failed" /\ Retryable(p)
  BY <1>1, <1>3 DEF QueueInv, OwedChildless
<1>15. p # NoTask => Children(p)' = {u}
  BY <1>1, <1>4, <1>5, <1>14 DEF Children
<1>16. RetryOnce'
  <2>1. \A x \in Tasks : \A t, v \in Children(x)' : t = v
    BY <1>13, <1>15, TasksAssumption DEF QueueInv, RetryOnce, NoTask
  <2>2. ASSUME NEW t \in Tasks, task'[t].parent # NoTask
        PROVE  LET q == task'[t].parent IN
               /\ task'[q].status = "failed"
               /\ task'[q].reason = "infrastructure"
               /\ task'[q].work \in Issues \cup Sessions
               /\ task'[q].agent = task'[t].agent
               /\ task'[q].work = task'[t].work
               /\ task'[t].attempt = task'[q].attempt + 1
               /\ task'[t].attempt <= MaxAttempts
    <3>1. CASE t = u
      <4>1. p # NoTask /\ p \in Tasks /\ p # u
        BY <1>5, <1>14, <2>2, <3>1
      <4>2. task'[p] = task[p]
        BY <1>4, <4>1
      <4>3. task[p].attempt \in Nat
        BY <4>1 DEF QueueInv, TypeOK, Row
      <4> QED
        BY <1>1, <1>5, <1>14, <3>1, <4>1, <4>2, <4>3, AttemptsAssumption DEF Retryable
    <3>2. CASE t # u
      <4>1. task'[t] = task[t]
        BY <1>4, <3>2
      <4>2. task[t].parent \in Tasks /\ task[t].parent # u
        BY <1>3, <2>2, <4>1 DEF QueueInv, RetryOnce, TypeOK, Row
      <4> QED
        BY <1>4, <2>2, <4>1, <4>2 DEF QueueInv, RetryOnce
    <3> QED
      BY <3>1, <3>2
  <2> QED
    BY <2>1, <2>2 DEF RetryOnce
<1>17. OwedChildless'
  <2> SUFFICES ASSUME NEW t \in owed'
               PROVE  task'[t].status = "failed" /\ Children(t)' = {}
    BY DEF OwedChildless
  <2>1. t \in owed /\ t # p /\ t \in Tasks
    BY <1>1, TasksAssumption DEF QueueInv, TypeOK, NoTask
  <2> QED
    BY <1>3, <1>4, <1>13, <2>1 DEF QueueInv, OwedChildless
<1> QED
  BY <1>8, <1>9, <1>10, <1>11, <1>16, <1>17 DEF QueueInv

\* Every step keeps the invariant.
LEMMA QueueInvInductive == QueueInv /\ [Next]_vars => QueueInv'
<1> SUFFICES ASSUME QueueInv, [Next]_vars PROVE QueueInv'
  OBVIOUS
<1>1. TypeOK /\ OwedChildless
  BY DEF QueueInv
<1> QED
  BY <1>1, StepKinds, BystandsInv, InsertInv, StartInv, SnapshotInv, DispatchInv, EndInv

-----------------------------------------------------------------------------
\* The table's and the procedures' state stay well-formed, and so do the snapshots,
\* the owed retries and the index that the three theorems below rest on.
THEOREM QueueInvariant == Spec => []QueueInv
BY InitQueueInv, QueueInvInductive, PTL DEF Spec

\* Every variable keeps its type, for any instance.
THEOREM TypeCorrect == Spec => []TypeOK
<1>1. QueueInv => TypeOK
  BY DEF QueueInv
<1> QED
  BY <1>1, QueueInvariant, PTL

\* An agent never has two tasks of one issue dispatched or running, whatever the
\* number of pollers, servers' sweeps, retries and runtime moves.
THEOREM IssueSerial == Spec => []IssueSerialised
<1>1. QueueInv => IssueSerialised
  BY DEF QueueInv
<1> QED
  BY <1>1, QueueInvariant, PTL

\* A failed task gets at most one retry, a copy of itself within the attempt budget.
THEOREM RetriedOnce == Spec => []RetryOnce
<1>1. QueueInv => RetryOnce
  BY DEF QueueInv
<1> QED
  BY <1>1, QueueInvariant, PTL

-----------------------------------------------------------------------------
(***************************************************************************)
(* One poller for each agent: where no agent moves, chat sessions and      *)
(* quick-create work are serialised too, and the limit on concurrent tasks *)
(* holds.  First what a step does to a row and to a claim.                 *)
(***************************************************************************)
\* A row that exists keeps what it is about; one that has ended does not change.
LEMMA RowsLast ==
  ASSUME QueueInv, [Next]_vars, NEW t \in Tasks, task[t].status # "none"
  PROVE  /\ task'[t].status # "none"
         /\ task'[t].agent = task[t].agent
         /\ task'[t].runtime = task[t].runtime
         /\ task'[t].work = task[t].work
         /\ task'[t].parent = task[t].parent
         /\ t \notin Live => task'[t] = task[t]
         /\ task'[t].status = "queued" => task[t].status = "queued"
         /\ t \in Pending' => t \in Pending
<1>1. TypeOK /\ OwedChildless
  BY DEF QueueInv
<1>2. CASE task' = task
  BY <1>2 DEF Pending
<1>3. CASE InsertStep
  BY <1>1, <1>3 DEF InsertStep, Inserted, TypeOK, Pending
<1>4. CASE StartStep
  BY <1>4 DEF StartStep, Moved, Live, Pending
<1>5. CASE DispatchStep
  BY <1>5 DEF DispatchStep, Dispatches, Moved, Live, Pending
<1>6. ASSUME NEW S, EndStep(S) PROVE
         /\ task'[t].status # "none"
         /\ task'[t].agent = task[t].agent
         /\ task'[t].runtime = task[t].runtime
         /\ task'[t].work = task[t].work
         /\ task'[t].parent = task[t].parent
         /\ t \notin Live => task'[t] = task[t]
         /\ task'[t].status = "queued" => task[t].status = "queued"
         /\ t \in Pending' => t \in Pending
  BY <1>6 DEF EndStep, Ends, Moved, Live, Pending
<1> QED
  BY <1>1, <1>2, <1>3, <1>4, <1>5, <1>6, StepKinds DEF Bystands, SnapshotStep

\* A row comes into flight only by the dispatch of a claim.
LEMMA ActiveGrows ==
  ASSUME QueueInv, [Next]_vars, NEW t \in Active', t \notin Active
  PROVE  \E q \in Runtimes : t \in claim[q].rows /\ Dispatches(q, t)
<1>1. TypeOK /\ OwedChildless /\ t \in Tasks
  BY DEF QueueInv, Active
<1>2. CASE task' = task
  BY <1>2 DEF Active
<1>3. CASE InsertStep
  <2>1. PICK u \in Tasks, a \in Agents, r \in Runtimes, w \in Work, n \in Nat,
             p \in Tasks \cup {NoTask} : Inserted(u, a, r, w, n, p)
    BY <1>3 DEF InsertStep
  <2>2. task'[u] = Queued(a, r, w, n, p) /\ \A x \in Tasks : x # u => task'[x] = task[x]
    BY <1>1, <2>1 DEF Inserted, TypeOK
  <2>3. Queued(a, r, w, n, p).status = "queued"
    BY DEF Queued
  <2> QED
    BY <1>1, <2>2, <2>3 DEF Active
<1>4. CASE StartStep
  BY <1>1, <1>4 DEF StartStep, Moved, Active
<1>5. CASE DispatchStep
  <2>1. PICK q \in Runtimes : \E d \in claim[q].rows : Dispatches(q, d)
    BY <1>5 DEF DispatchStep
  <2>2. PICK d \in claim[q].rows : Dispatches(q, d)
    BY <2>1
  <2>3. t = d
    BY <1>1, <2>2 DEF Dispatches, Moved, Active
  <2> QED
    BY <2>2, <2>3
<1>6. ASSUME NEW S, EndStep(S) PROVE FALSE
  BY <1>1, <1>6 DEF EndStep, Ends, Moved, Active
<1> QED
  BY <1>1, <1>2, <1>3, <1>4, <1>5, <1>6, StepKinds DEF Bystands, SnapshotStep

\* A claim is given up or turns to its next agent ...
Drops(q) == claim'[q].pc \in {"idle", "next"} /\ claim'[q].todo \subseteq claim[q].todo

\* ... or lists the agents with a queued row of its runtime ...
Lists(q) == /\ task' = task
            /\ claim'[q].pc = "next"
            /\ \A a \in claim'[q].todo : \E t \in Tasks : /\ task[t].status = "queued"
                                                          /\ task[t].runtime = q
                                                          /\ task[t].agent = a

\* ... or found the agent it tries under its limit ...
Counts(q) == /\ task' = task
             /\ claim'[q].pc = "counted"
             /\ claim'[q].todo \subseteq claim[q].todo
             /\ claim'[q].agent \in claim[q].todo
             /\ ~(Cardinality(Occupied(claim'[q].agent)) >= MaxConcurrent)

\* ... or took its snapshot.
Snapshots(q) == /\ task' = task
                /\ claim[q].pc = "counted"
                /\ claim'[q] = [claim[q] EXCEPT !.pc = "matched",
                                                !.rows = Claimable(claim[q].agent)]

ClaimSteps(q) == \/ claim'[q] = claim[q]
                 \/ Drops(q) \/ Lists(q) \/ Counts(q) \/ Snapshots(q)
                 \/ \E t \in claim[q].rows : Dispatches(q, t)

\* Every step does one of these to the claim of a runtime.
LEMMA ClaimMoves ==
  ASSUME TypeOK, [Next]_vars, NEW q \in Runtimes
  PROVE  ClaimSteps(q)
<1>1. claim \in [Runtimes -> Claim] /\ claim[q] \in Claim
  BY TypeParts DEF ClaimOK
<1>2. NoClaim.pc = "idle" /\ NoClaim.todo = {}
  BY DEF NoClaim
<1>3. \A c : NextAgent(c).pc \in {"idle", "next"} /\ NextAgent(c).todo \subseteq c.todo
  BY DEF NextAgent, NoClaim
<1>4. ASSUME NEW r \in Runtimes, Claiming(r) PROVE ClaimSteps(q)
  <2>0. claim[r] \in Claim
    BY <1>1
  <2>1. CASE ListCandidates(r)
    <3> DEFINE found == {task[t].agent : t \in {u \in Tasks : /\ task[u].status = "queued"
                                                              /\ task[u].runtime = r}}
               c == [NoClaim EXCEPT !.pc = "next", !.todo = found]
    <3>1. claim' = [claim EXCEPT ![r] = c] /\ task' = task
      BY <2>1 DEF ListCandidates
    <3>2. c.pc = "next" /\ c.todo = found
      <4> HIDE DEF found
      <4> QED BY DEF NoClaim
    <3>3. \A a \in found : \E t \in Tasks : /\ task[t].status = "queued"
                                            /\ task[t].runtime = r
                                            /\ task[t].agent = a
      OBVIOUS
    <3> HIDE DEF c, found
    <3>4. CASE q = r
      <4>1. claim'[q] = c
        BY <1>1, <3>1, <3>4
      <4>2. Lists(q)
        BY <3>1, <3>2, <3>3, <3>4, <4>1 DEF Lists
      <4> QED
        BY <4>2 DEF ClaimSteps
    <3>5. CASE q # r
      BY <1>1, <3>1, <3>5 DEF ClaimSteps
    <3> QED
      BY <3>4, <3>5
  <2>2. CASE CountRunning(r)
    <3>1. PICK a \in claim[r].todo :
            LET c == [claim[r] EXCEPT !.todo = @ \ {a}] IN
            claim' = [claim EXCEPT ![r] = IF Cardinality(Occupied(a)) >= MaxConcurrent
                                            THEN NextAgent(c)
                                            ELSE [c EXCEPT !.pc = "counted", !.agent = a]]
      BY <2>2 DEF CountRunning
    <3> DEFINE c == [claim[r] EXCEPT !.todo = @ \ {a}]
               d == [c EXCEPT !.pc = "counted", !.agent = a]
    <3>2. c.todo \subseteq claim[r].todo
      BY <2>0 DEF Claim
    <3>3. d.pc = "counted" /\ d.agent = a /\ d.todo \subseteq claim[r].todo
      BY <2>0 DEF Claim
    <3>4. \/ claim' = [claim EXCEPT ![r] = NextAgent(c)]
          \/ /\ ~(Cardinality(Occupied(a)) >= MaxConcurrent)
             /\ claim' = [claim EXCEPT ![r] = d]
      BY <3>1
    <3>5. task' = task
      BY <2>2 DEF CountRunning
    <3> HIDE DEF c, d
    <3>6. CASE q # r
      BY <1>1, <3>4, <3>6 DEF ClaimSteps
    <3>7. CASE q = r /\ claim' = [claim EXCEPT ![r] = NextAgent(c)]
      <4>1. claim'[q] = NextAgent(c)
        BY <1>1, <3>7
      <4>2. Drops(q)
        BY <1>3, <3>2, <3>7, <4>1 DEF Drops
      <4> QED
        BY <4>2 DEF ClaimSteps
    <3>8. CASE q = r /\ ~(Cardinality(Occupied(a)) >= MaxConcurrent)
                     /\ claim' = [claim EXCEPT ![r] = d]
      <4>1. claim'[q] = d
        BY <1>1, <3>8
      <4>2. Counts(q)
        BY <3>3, <3>5, <3>8, <4>1 DEF Counts
      <4> QED
        BY <4>2 DEF ClaimSteps
    <3> QED
      BY <3>4, <3>6, <3>7, <3>8
  <2>3. CASE ClaimSnapshot(r)
    <3>1. /\ task' = task /\ claim[r].pc = "counted"
          /\ claim' = [claim EXCEPT ![r] = [claim[r] EXCEPT !.pc = "matched",
                                                            !.rows = Claimable(claim[r].agent)]]
      BY <1>1, <2>3 DEF ClaimSnapshot
    <3> QED
      BY <1>1, <3>1 DEF Snapshots, ClaimSteps
  <2>4. CASE ClaimDispatch(r)
    <3>1. \/ claim' = [claim EXCEPT ![r] = NextAgent(claim[r])]
          \/ \E t \in claim[r].rows : Dispatches(r, t)
      <4>1. CASE \E t \in claim[r].rows : task[t].status = "queued"
        <5>1. ~(task' = task)
          <6>1. PICK t \in claim[r].rows : /\ task[t].status = "queued"
                                           /\ SetStatus({t}, "dispatched")
            BY <2>4, <4>1 DEF ClaimDispatch
          <6>2. t \in Tasks /\ task[t] \in Row
            BY <2>0, TypeParts DEF TableOK, Claim
          <6>3. task'[t].status = "dispatched"
            BY <6>1, <6>2 DEF SetStatus, Row
          <6> QED
            BY <6>1, <6>3
        <5> QED
          BY <2>4, <5>1, ClaimDispatchType
      <4>2. CASE ~\E t \in claim[r].rows : task[t].status = "queued"
        BY <2>4, <4>2 DEF ClaimDispatch
      <4> QED
        BY <4>1, <4>2
    <3>2. CASE q = r
      <4>1. CASE claim' = [claim EXCEPT ![r] = NextAgent(claim[r])]
        BY <1>1, <1>3, <3>2, <4>1 DEF Drops, ClaimSteps
      <4>2. CASE \E t \in claim[r].rows : Dispatches(r, t)
        BY <3>2, <4>2 DEF ClaimSteps
      <4> QED
        BY <3>1, <4>1, <4>2
    <3>3. CASE q # r
      BY <1>1, <3>1, <3>3 DEF Dispatches, ClaimSteps
    <3> QED
      BY <3>2, <3>3
  <2>5. CASE ClaimReturn(r)
    <3>1. \/ claim' = [claim EXCEPT ![r] = NoClaim]
          \/ claim' = [claim EXCEPT ![r] = NextAgent(claim[r])]
      BY <2>5 DEF ClaimReturn
    <3> QED
      BY <1>1, <1>2, <1>3, <3>1 DEF Drops, ClaimSteps
  <2> QED
    BY <1>4, <2>1, <2>2, <2>3, <2>4, <2>5 DEF Claiming
<1>5. CASE Faults
  BY <1>1, <1>2, <1>5 DEF Faults, ServerRestart, AbortClaim, Drops, ClaimSteps
<1>6. CASE \/ Enqueueing \/ DaemonCalls \/ AfterFailure \/ UserCalls \/ Sweeping
           \/ UNCHANGED vars
  <2>1. CASE Enqueueing \/ UNCHANGED vars
    BY <2>1 DEF Enqueueing, EnqueueBegin, EnqueueInsert, RerunIssue, vars, ClaimSteps
  <2>2. CASE DaemonCalls
    BY <2>2 DEF DaemonCalls, StartTask, CompleteTask, FailTask, RecoverOrphans, Heartbeat,
                Deregister, procs, ClaimSteps
  <2>3. CASE AfterFailure
    BY <2>3 DEF AfterFailure, MaybeRetry, Reconcile, ClaimSteps
  <2>4. CASE UserCalls
    BY <2>4 DEF UserCalls, CancelTask, CancelTasksForWork, CancelTasksForAgent, Cancel,
                MoveAgent, ArchiveAgent, ArchiveCancel, RestoreAgent, RevokeRuntime, procs,
                ClaimSteps
  <2>5. CASE Sweeping
    BY <2>5 DEF Sweeping, MarkRuntimesOffline, FailTasksForOfflineRuntimes, FailStaleTasks,
                ExpireStaleQueuedTasks, ClaimSteps
  <2> QED
    BY <1>6, <2>1, <2>2, <2>3, <2>4, <2>5
<1> QED
  BY <1>4, <1>5, <1>6 DEF Next

\* Agents keep their runtime, and an enqueue begins with the runtime its agent has.
LEMMA HomesStay ==
  ASSUME TypeOK, [Next]_vars, MaxMoves = 0
  PROVE  /\ agentRuntime' = agentRuntime
         /\ \A e \in enqueues' : e \in enqueues \/ e.runtime = agentRuntime[e.agent]
<1> DEFINE Stay == /\ agentRuntime' = agentRuntime
                   /\ \A e \in enqueues' : e \in enqueues \/ e.runtime = agentRuntime[e.agent]
<1>1. CASE Enqueueing
  <2>1. \A a, w : NewRequest(a, w).runtime = agentRuntime[NewRequest(a, w).agent]
    BY DEF NewRequest
  <2>2. ASSUME NEW a \in Agents, NEW w \in Work, EnqueueBegin(a, w) PROVE Stay
    BY <2>1, <2>2 DEF EnqueueBegin, agentVars
  <2>3. ASSUME NEW e \in enqueues, EnqueueInsert(e) PROVE Stay
    BY <2>3 DEF EnqueueInsert, agentVars
  <2>4. ASSUME NEW a \in Agents, NEW i \in Issues, RerunIssue(a, i) PROVE Stay
    BY <2>1, <2>4 DEF RerunIssue, agentVars
  <2> QED
    BY <1>1, <2>2, <2>3, <2>4 DEF Enqueueing
<1>2. ASSUME NEW r \in Runtimes, Claiming(r) PROVE Stay
  BY <1>2 DEF Claiming, ListCandidates, CountRunning, ClaimSnapshot, ClaimDispatch,
              ClaimReturn, agentVars
<1>3. CASE DaemonCalls
  BY <1>3 DEF DaemonCalls, StartTask, CompleteTask, FailTask, RecoverOrphans, Heartbeat,
              Deregister, procs, agentVars
<1>4. CASE AfterFailure
  BY <1>4 DEF AfterFailure, MaybeRetry, Reconcile, agentVars
<1>5. CASE UserCalls
  <2>1. spent.moves \in Nat
    BY TypeParts DEF RestOK
  <2>2. \A a, r : ~MoveAgent(a, r)
    BY <2>1 DEF MoveAgent
  <2> QED
    BY <1>5, <2>2 DEF UserCalls, CancelTask, CancelTasksForWork, CancelTasksForAgent, Cancel,
                ArchiveAgent, ArchiveCancel, RestoreAgent, RevokeRuntime, procs, agentVars
<1>6. CASE Sweeping
  BY <1>6 DEF Sweeping, MarkRuntimesOffline, FailTasksForOfflineRuntimes, FailStaleTasks,
              ExpireStaleQueuedTasks, agentVars
<1>7. CASE Faults
  BY <1>7 DEF Faults, ServerRestart, AbortClaim, agentVars
<1>8. CASE UNCHANGED vars
  BY <1>8 DEF vars
<1> QED
  BY <1>1, <1>2, <1>3, <1>4, <1>5, <1>6, <1>7, <1>8 DEF Next

\* A row that did not exist is the one an INSERT added: an enqueue's, or the retry of
\* an owed row.
LEMMA RowsBegin ==
  ASSUME QueueInv, [Next]_vars, NEW t \in Tasks,
         task[t].status = "none", task'[t].status # "none"
  PROVE  /\ Fresh(t)
         /\ ~IndexConflict(task'[t].agent, task'[t].work)
         /\ \A u \in Tasks : u # t => task'[u] = task[u]
         /\ task'[t].status = "queued"
         /\ \/ \E e \in enqueues : e.agent = task'[t].agent /\ e.runtime = task'[t].runtime
            \/ \E p \in owed : /\ task[p].status # "none"
                               /\ task'[t].agent = task[p].agent
                               /\ task'[t].runtime = task[p].runtime
<1>1. TypeOK /\ OwedChildless
  BY DEF QueueInv
<1>2. CASE InsertStep
  <2>1. PICK u \in Tasks, a \in Agents, r \in Runtimes, w \in Work, n \in Nat,
             p \in Tasks \cup {NoTask} :
               /\ ~IndexConflict(a, w)
               /\ Fresh(u)
               /\ Inserted(u, a, r, w, n, p)
               /\ \/ \E e \in enqueues : e.agent = a /\ e.runtime = r
                  \/ /\ p \in owed /\ task[p].status = "failed"
                     /\ a = task[p].agent /\ r = task[p].runtime
    BY <1>2 DEF InsertStep
  <2>2. task'[u] = Queued(a, r, w, n, p) /\ \A x \in Tasks : x # u => task'[x] = task[x]
    BY <1>1, <2>1 DEF Inserted, TypeOK
  <2>3. LET q == Queued(a, r, w, n, p) IN
        q.status = "queued" /\ q.agent = a /\ q.runtime = r /\ q.work = w
    BY DEF Queued
  <2>4. t = u
    BY <2>2
  <2> QED
    BY <2>1, <2>2, <2>3, <2>4
<1>3. ASSUME NEW S, NEW st, S \subseteq Live, Moved(S, st) PROVE FALSE
  BY <1>3 DEF Moved, Live
<1>4. ~StartStep
  <2>1. ASSUME NEW s \in Tasks, task[s].status = "dispatched", Moved({s}, "running") PROVE FALSE
    BY <1>3, <2>1 DEF Live
  <2> QED
    BY <2>1 DEF StartStep
<1>5. ~DispatchStep
  <2>1. ASSUME NEW r \in Runtimes, NEW d \in claim[r].rows, Dispatches(r, d) PROVE FALSE
    <3>1. d \in Tasks
      BY <1>1 DEF TypeOK, Claim
    <3> QED
      BY <1>3, <2>1, <3>1 DEF Dispatches, Live
  <2> QED
    BY <2>1 DEF DispatchStep
<1>6. \A S : ~EndStep(S)
  BY <1>3 DEF EndStep, Ends
<1>7. task' # task
  OBVIOUS
<1> QED
  BY <1>1, <1>2, <1>4, <1>5, <1>6, <1>7, StepKinds DEF Bystands, SnapshotStep

-----------------------------------------------------------------------------
\* The initial state has no claim, no row and no enqueue.
LEMMA InitPollerInv == Init => PollerInv
<1> SUFFICES ASSUME Init PROVE PollerInv
  OBVIOUS
<1>1. \A t \in Tasks : task[t].status = "none"
  BY DEF Init, NoRow
<1>2. \A r \in Runtimes : claim[r].pc = "idle" /\ claim[r].todo = {}
  BY DEF Init, NoClaim
<1>3. Active = {} /\ {t \in Tasks : task[t].status # "none"} = {}
  BY <1>1 DEF Active
<1>4. \A a : {t \in Active : task[t].agent = a} = {}
  BY <1>3
<1>5. CapacityRespected
  BY <1>4, FS_EmptySet, AttemptsAssumption DEF CapacityRespected
<1>6. RowsFinite
  BY <1>3, FS_EmptySet DEF RowsFinite
<1>7. enqueues = {}
  BY DEF Init
<1> QED
  BY <1>1, <1>2, <1>3, <1>5, <1>6, <1>7
  DEF PollerInv, WorkAtHome, ClaimsAtHome, SnapshotsOwn, SnapshotsFresh, RoomLeft, KeysSerialised

\* Rows and enqueues keep the runtime of their agent.
LEMMA WorkStaysHome ==
  ASSUME QueueInv, PollerInv, [Next]_vars, MaxMoves = 0
  PROVE  WorkAtHome'
<1>1. WorkAtHome /\ TypeOK
  BY DEF PollerInv, QueueInv
<1>2. agentRuntime' = agentRuntime
  BY <1>1, HomesStay
<1>3. ASSUME NEW t \in Tasks, task'[t].status # "none"
      PROVE  task'[t].runtime = agentRuntime[task'[t].agent]
  <2>1. CASE task[t].status # "none"
    BY <1>1, <2>1, RowsLast DEF WorkAtHome
  <2>2. CASE task[t].status = "none"
    <3>1. owed \subseteq Tasks
      BY <1>1, TypeParts DEF RestOK
    <3> QED
      BY <1>1, <1>3, <2>2, <3>1, RowsBegin DEF WorkAtHome
  <2> QED
    BY <2>1, <2>2
<1>4. ASSUME NEW e \in enqueues' PROVE e.runtime = agentRuntime[e.agent]
  BY <1>1, HomesStay DEF WorkAtHome
<1> QED
  BY <1>2, <1>3, <1>4 DEF WorkAtHome

\* A poller goes on trying agents of its own runtime.
LEMMA ClaimsStayHome ==
  ASSUME QueueInv, PollerInv, [Next]_vars, MaxMoves = 0
  PROVE  ClaimsAtHome'
<1>1. WorkAtHome /\ ClaimsAtHome /\ TypeOK
  BY DEF PollerInv, QueueInv
<1>2. agentRuntime' = agentRuntime
  BY <1>1, HomesStay
<1> SUFFICES ASSUME NEW r \in Runtimes
             PROVE  /\ \A a \in claim'[r].todo : agentRuntime[a] = r
                    /\ claim'[r].pc \in {"counted", "matched", "claimed"} =>
                         claim'[r].agent \in Agents /\ agentRuntime[claim'[r].agent] = r
  BY <1>2 DEF ClaimsAtHome
<1>3. claim[r] \in Claim
  BY <1>1, TypeParts DEF ClaimOK
<1>4. CASE claim'[r] = claim[r]
  BY <1>1, <1>4 DEF ClaimsAtHome
<1>5. CASE Drops(r)
  BY <1>1, <1>5 DEF ClaimsAtHome, Drops
<1>6. CASE Lists(r)
  BY <1>1, <1>6 DEF WorkAtHome, Lists
<1>7. CASE Counts(r)
  BY <1>1, <1>3, <1>7 DEF ClaimsAtHome, Counts, Claim
<1>8. CASE Snapshots(r)
  <2>1. claim'[r].todo = claim[r].todo /\ claim'[r].agent = claim[r].agent
    BY <1>3, <1>8 DEF Snapshots, Claim
  <2> QED
    BY <1>1, <1>8, <2>1 DEF ClaimsAtHome, Snapshots
<1>9. ASSUME NEW t \in claim[r].rows, Dispatches(r, t)
      PROVE  /\ \A a \in claim'[r].todo : agentRuntime[a] = r
             /\ claim'[r].agent \in Agents /\ agentRuntime[claim'[r].agent] = r
  <2>1. claim'[r].todo = claim[r].todo /\ claim'[r].agent = claim[r].agent
    BY <1>3, <1>9 DEF Dispatches, Claim
  <2> QED
    BY <1>1, <1>9, <2>1 DEF ClaimsAtHome, Dispatches
<1> QED
  BY <1>1, <1>4, <1>5, <1>6, <1>7, <1>8, <1>9, ClaimMoves DEF ClaimSteps

\* What a claim that has its snapshot was before the step: it had it, or it takes it.
LEMMA MatchedFrom ==
  ASSUME TypeOK, [Next]_vars, NEW r \in Runtimes, claim'[r].pc = "matched"
  PROVE  \/ claim'[r] = claim[r]
         \/ /\ claim[r].pc = "counted" /\ task' = task
            /\ claim'[r].agent = claim[r].agent
            /\ claim'[r].rows = Claimable(claim[r].agent)
<1>1. claim[r] \in Claim
  BY TypeParts DEF ClaimOK
<1>2. \A t : Dispatches(r, t) => claim'[r].pc = "claimed"
  BY <1>1 DEF Dispatches, Claim
<1>3. Snapshots(r) => /\ claim[r].pc = "counted" /\ task' = task
                      /\ claim'[r].agent = claim[r].agent
                      /\ claim'[r].rows = Claimable(claim[r].agent)
  BY <1>1 DEF Snapshots, Claim
<1> QED
  BY <1>2, <1>3, ClaimMoves DEF ClaimSteps, Drops, Lists, Counts

\* A snapshot stays one of the tried agent's rows.
LEMMA SnapshotsStayOwn ==
  ASSUME QueueInv, SnapshotsOwn, [Next]_vars
  PROVE  SnapshotsOwn'
<1>1. TypeOK
  BY DEF QueueInv
<1> SUFFICES ASSUME NEW r \in Runtimes, claim'[r].pc = "matched", NEW t \in claim'[r].rows
             PROVE  task'[t].status # "none" /\ task'[t].agent = claim'[r].agent
  BY DEF SnapshotsOwn
<1>2. CASE claim'[r] = claim[r]
  <2>1. t \in Tasks /\ task[t].status # "none" /\ task[t].agent = claim[r].agent
    BY <1>1, <1>2 DEF SnapshotsOwn, TypeOK, Claim
  <2> QED
    BY <1>2, <2>1, RowsLast
<1>3. CASE claim'[r] # claim[r]
  BY <1>1, <1>3, MatchedFrom DEF Claimable
<1> QED
  BY <1>2, <1>3

\* A row dispatched for an agent is dispatched by the poller of the agent's runtime,
\* which is then no longer between its count and its update.
LEMMA OnePoller ==
  ASSUME QueueInv, PollerInv, [Next]_vars, NEW t \in Active', t \notin Active
  PROVE  LET r == agentRuntime[task[t].agent] IN
         /\ r \in Runtimes /\ t \in claim[r].rows /\ Dispatches(r, t)
         /\ claim[r].agent = task[t].agent /\ claim'[r].pc = "claimed"
<1>1. PICK q \in Runtimes : t \in claim[q].rows /\ Dispatches(q, t)
  BY ActiveGrows
<1>2. claim[q].pc = "matched" /\ claim[q] \in Claim
  BY <1>1 DEF Dispatches, QueueInv, TypeOK
<1>3. task[t].agent = claim[q].agent /\ agentRuntime[claim[q].agent] = q
  BY <1>1, <1>2 DEF PollerInv, SnapshotsOwn, ClaimsAtHome
<1>4. claim'[q].pc = "claimed"
  BY <1>1, <1>2 DEF Dispatches, Claim
<1> QED
  BY <1>1, <1>3, <1>4

\* Nothing that conflicts with a queued row of a snapshot was dispatched since.
LEMMA SnapshotsStayFresh ==
  ASSUME QueueInv, PollerInv, [Next]_vars, MaxMoves = 0
  PROVE  SnapshotsFresh'
<1>1. TypeOK /\ SnapshotsOwn /\ SnapshotsFresh /\ ClaimsAtHome
  BY DEF QueueInv, PollerInv
<1> SUFFICES ASSUME NEW r \in Runtimes, claim'[r].pc = "matched", NEW t \in claim'[r].rows,
                    task'[t].status = "queued", NEW u \in Active'
             PROVE  ~SameKey(t, u)'
  BY DEF SnapshotsFresh
<1>2. CASE claim'[r] = claim[r]
  <2>1. t \in Tasks /\ task[t].status # "none" /\ task[t].agent = claim[r].agent
    BY <1>1, <1>2 DEF SnapshotsOwn, TypeOK, Claim
  <2>2. task'[t].agent = task[t].agent /\ task'[t].work = task[t].work
    BY <2>1, RowsLast
  <2>3. CASE u \in Active
    <3>1. u \in Tasks /\ task[u].status # "none"
      BY <2>3 DEF Active
    <3>2. task'[u].agent = task[u].agent /\ task'[u].work = task[u].work
      BY <3>1, RowsLast
    <3>3. task[t].status = "queued"
      BY <2>1, RowsLast
    <3> QED
      BY <1>1, <1>2, <2>2, <2>3, <3>2, <3>3 DEF SnapshotsFresh, SameKey
  <2>4. CASE u \notin Active
    <3>1. /\ task[u].agent \in Agents /\ u \in Tasks /\ task[u].status # "none"
          /\ claim'[agentRuntime[task[u].agent]].pc = "claimed"
      <4>1. Dispatches(agentRuntime[task[u].agent], u) /\ u \in Tasks
            /\ claim'[agentRuntime[task[u].agent]].pc = "claimed"
        BY <2>4, OnePoller DEF Active
      <4>2. task[u].status = "queued"
        BY <4>1 DEF Dispatches
      <4> QED
        BY <1>1, <4>1, <4>2 DEF TypeOK
    <3>2. task'[u].agent = task[u].agent
      BY <3>1, RowsLast
    <3>3. agentRuntime[task[t].agent] = r
      BY <1>1, <1>2, <2>1 DEF ClaimsAtHome
    <3> QED
      BY <2>2, <3>1, <3>2, <3>3 DEF SameKey
  <2> QED
    BY <2>3, <2>4
<1>3. CASE claim'[r] # claim[r]
  BY <1>1, <1>3, MatchedFrom DEF Claimable, Active, SameKey
<1> QED
  BY <1>2, <1>3

\* No two tasks in flight share a key.
LEMMA KeysStaySerialised ==
  ASSUME QueueInv, PollerInv, [Next]_vars
  PROVE  KeysSerialised'
<1>1. TypeOK /\ SnapshotsFresh /\ KeysSerialised
  BY DEF QueueInv, PollerInv
<1>2. \A x, y \in Tasks : SameKey(x, y) => SameKey(y, x)
  BY DEF SameKey
<1>3. ASSUME NEW t \in Active', t \notin Active, NEW u \in Active', t # u
      PROVE  u \in Active /\ ~SameKey(t, u)
  <2> DEFINE r == agentRuntime[task[t].agent]
  <2>1. r \in Runtimes /\ t \in claim[r].rows /\ Dispatches(r, t)
    BY <1>3, OnePoller
  <2> HIDE DEF r
  <2>2. u \in Active
    BY <1>3, <2>1 DEF Dispatches, Moved, Active
  <2> QED
    BY <1>1, <2>1, <2>2 DEF SnapshotsFresh, Dispatches
<1> SUFFICES ASSUME NEW t \in Active', NEW u \in Active', t # u PROVE ~SameKey(t, u)'
  BY DEF KeysSerialised
<1>4. ~SameKey(t, u)
  BY <1>1, <1>2, <1>3 DEF KeysSerialised, Active
<1>5. t \in Tasks /\ u \in Tasks /\ task[t].status # "none" /\ task[u].status # "none"
  <2>1. \A x \in Active' : x \in Tasks /\ task[x].status # "none"
    <3> SUFFICES ASSUME NEW x \in Active' PROVE x \in Tasks /\ task[x].status # "none"
      OBVIOUS
    <3>1. CASE x \in Active
      BY <3>1 DEF Active
    <3>2. CASE x \notin Active
      BY <3>2, ActiveGrows DEF Dispatches, Active
    <3> QED
      BY <3>1, <3>2
  <2> QED
    BY <2>1
<1> QED
  BY <1>4, <1>5, RowsLast DEF SameKey

\* The rows stay finitely many.
LEMMA RowsStayFinite ==
  ASSUME QueueInv, RowsFinite, [Next]_vars
  PROVE  RowsFinite'
<1> DEFINE Rows == {t \in Tasks : task[t].status # "none"}
<1>1. \A t, u \in Tasks : t \notin Rows /\ u \notin Rows /\ t \in Rows' /\ u \in Rows' => t = u
  BY RowsBegin
<1>2. \E x : Rows' \subseteq Rows \cup {x}
  <2>1. CASE \E x \in Rows' : x \notin Rows
    BY <1>1, <2>1
  <2>2. CASE ~\E x \in Rows' : x \notin Rows
    BY <2>2
  <2> QED
    BY <2>1, <2>2
<1>3. PICK x : Rows' \subseteq Rows \cup {x}
  BY <1>2
<1>4. IsFiniteSet(Rows \cup {x})
  BY FS_AddElement DEF RowsFinite
<1> HIDE DEF Rows
<1>5. IsFiniteSet(Rows')
  BY <1>3, <1>4, FS_Subset
<1> QED
  BY <1>5 DEF RowsFinite, Rows

\* What an agent has out is finite, and grows by the row its poller dispatches.
LEMMA OccupiedGrows ==
  ASSUME QueueInv, PollerInv, [Next]_vars, NEW a \in Agents
  PROVE  /\ IsFiniteSet(Occupied(a))
         /\ \/ Occupied(a)' \subseteq Occupied(a)
            \/ \E t : /\ Occupied(a)' \subseteq Occupied(a) \cup {t}
                      /\ agentRuntime[a] \in Runtimes
                      /\ claim[agentRuntime[a]].pc = "matched"
                      /\ claim[agentRuntime[a]].agent = a
                      /\ claim'[agentRuntime[a]].pc = "claimed"
<1>1. TypeOK /\ RowsFinite
  BY DEF QueueInv, PollerInv
<1>2. IsFiniteSet(Occupied(a))
  <2>1. Occupied(a) \subseteq {t \in Tasks : task[t].status # "none"}
    BY DEF Occupied, Active
  <2> QED
    BY <1>1, <2>1, FS_Subset DEF RowsFinite
<1>3. \A t \in Tasks : t \in Active => task'[t].agent = task[t].agent
  BY RowsLast DEF Active
<1>4. CASE \E t \in Occupied(a)' : t \notin Active
  <2>1. PICK t \in Occupied(a)' : t \notin Active
    BY <1>4
  <2>2. t \in Active' /\ t \in Tasks /\ task'[t].agent = a
    BY <2>1 DEF Occupied, Active
  <2> DEFINE r == agentRuntime[task[t].agent]
  <2>3. /\ r \in Runtimes /\ Dispatches(r, t)
        /\ claim[r].agent = task[t].agent /\ claim'[r].pc = "claimed"
    BY <2>1, <2>2, OnePoller
  <2> HIDE DEF r
  <2>4. task[t].agent = a /\ claim[r].pc = "matched"
    BY <2>2, <2>3 DEF Dispatches, Moved
  <2>5. Occupied(a)' \subseteq Occupied(a) \cup {t}
    BY <2>3 DEF Dispatches, Moved, Occupied, Active
  <2> QED
    BY <1>2, <2>3, <2>4, <2>5 DEF r
<1>5. CASE ~\E t \in Occupied(a)' : t \notin Active
  BY <1>2, <1>3, <1>5 DEF Occupied, Active
<1> QED
  BY <1>4, <1>5

\* What was counted under the limit does not grow before the update.
LEMMA RoomStays ==
  ASSUME QueueInv, PollerInv, [Next]_vars
  PROVE  RoomLeft'
<1>1. TypeOK /\ RoomLeft /\ ClaimsAtHome
  BY DEF QueueInv, PollerInv
<1> SUFFICES ASSUME NEW r \in Runtimes, claim'[r].pc \in {"counted", "matched"},
                    NEW a, a = claim'[r].agent
             PROVE  Cardinality(Occupied(a)') < MaxConcurrent
  BY DEF RoomLeft, Occupied, Active
<1>2. claim[r] \in Claim
  BY <1>1, TypeParts DEF ClaimOK
<1>3. CASE claim'[r] = claim[r]
  <2>1. a \in Agents /\ agentRuntime[a] = r /\ Cardinality(Occupied(a)) < MaxConcurrent
    BY <1>1, <1>3 DEF ClaimsAtHome, RoomLeft
  <2>3. IsFiniteSet(Occupied(a)) /\ Occupied(a)' \subseteq Occupied(a)
    BY <2>1, OccupiedGrows
  <2>4. /\ Cardinality(Occupied(a)') <= Cardinality(Occupied(a))
        /\ Cardinality(Occupied(a)') \in Nat /\ Cardinality(Occupied(a)) \in Nat
    BY <2>3, FS_Subset, FS_CardinalityType
  <2> QED
    BY <2>1, <2>4, AttemptsAssumption
<1>4. CASE Counts(r)
  <2>1. a \in Agents /\ ~(Cardinality(Occupied(a)) >= MaxConcurrent) /\ task' = task
    BY <1>2, <1>4 DEF Counts, Claim
  <2>2. Occupied(a)' = Occupied(a)
    BY <2>1 DEF Occupied, Active
  <2>3. Cardinality(Occupied(a)) \in Nat
    BY <2>1, OccupiedGrows, FS_CardinalityType
  <2> QED
    BY <2>1, <2>2, <2>3, AttemptsAssumption
<1>5. CASE Snapshots(r)
  <2>1. Cardinality(Occupied(a)) < MaxConcurrent /\ task' = task /\ claim'[r].agent = a
    BY <1>1, <1>2, <1>5 DEF Snapshots, RoomLeft, Claim
  <2>2. Occupied(a)' = Occupied(a)
    BY <2>1 DEF Occupied, Active
  <2> QED
    BY <2>1, <2>2
<1>6. \A t : Dispatches(r, t) => claim'[r].pc = "claimed"
  BY <1>2 DEF Dispatches, Claim
<1> QED
  BY <1>1, <1>3, <1>4, <1>5, <1>6, ClaimMoves DEF ClaimSteps, Drops, Lists

\* An agent's dispatch goes to the room that was counted for it.
LEMMA CapacityStays ==
  ASSUME QueueInv, PollerInv, [Next]_vars
  PROVE  CapacityRespected'
<1>1. CapacityRespected /\ RoomLeft
  BY DEF PollerInv
<1> SUFFICES ASSUME NEW a \in Agents PROVE Cardinality(Occupied(a)') <= MaxConcurrent
  BY DEF CapacityRespected, Occupied, Active
<1>2. IsFiniteSet(Occupied(a)) /\ Cardinality(Occupied(a)) <= MaxConcurrent
  BY <1>1, OccupiedGrows DEF CapacityRespected, Occupied
<1>3. CASE Occupied(a)' \subseteq Occupied(a)
  <2>1. /\ Cardinality(Occupied(a)') <= Cardinality(Occupied(a))
        /\ Cardinality(Occupied(a)') \in Nat /\ Cardinality(Occupied(a)) \in Nat
    BY <1>2, <1>3, FS_Subset, FS_CardinalityType
  <2> QED
    BY <1>2, <2>1, AttemptsAssumption
<1>4. ASSUME NEW t, Occupied(a)' \subseteq Occupied(a) \cup {t}, agentRuntime[a] \in Runtimes,
             claim[agentRuntime[a]].pc = "matched", claim[agentRuntime[a]].agent = a
      PROVE  Cardinality(Occupied(a)') <= MaxConcurrent
  <2>1. Cardinality(Occupied(a)) < MaxConcurrent
    BY <1>1, <1>4 DEF RoomLeft
  <2>2. /\ IsFiniteSet(Occupied(a) \cup {t})
        /\ \/ Cardinality(Occupied(a) \cup {t}) = Cardinality(Occupied(a))
           \/ Cardinality(Occupied(a) \cup {t}) = Cardinality(Occupied(a)) + 1
    BY <1>2, FS_AddElement
  <2>3. /\ Cardinality(Occupied(a)') <= Cardinality(Occupied(a) \cup {t})
        /\ Cardinality(Occupied(a)') \in Nat /\ Cardinality(Occupied(a)) \in Nat
    BY <1>2, <1>4, <2>2, FS_Subset, FS_CardinalityType
  <2> QED
    BY <2>1, <2>2, <2>3, AttemptsAssumption
<1> QED
  BY <1>3, <1>4, OccupiedGrows

\* The invariant of agents that keep their runtime is inductive.
LEMMA PollerInvInductive ==
  MaxMoves = 0 /\ QueueInv /\ PollerInv /\ [Next]_vars => PollerInv'
<1> SUFFICES ASSUME MaxMoves = 0, QueueInv, PollerInv, [Next]_vars PROVE PollerInv'
  OBVIOUS
<1>1. SnapshotsOwn /\ RowsFinite
  BY DEF PollerInv
<1>2. SnapshotsOwn' /\ RowsFinite'
  BY <1>1, SnapshotsStayOwn, RowsStayFinite
<1> QED
  BY <1>2, WorkStaysHome, ClaimsStayHome, SnapshotsStayFresh, KeysStaySerialised,
     RoomStays, CapacityStays DEF PollerInv

\* Where no agent is moved to another runtime, one poller claims for each agent.
LEMMA PollerInvariant == MaxMoves = 0 => (Spec => []PollerInv)
<1> SUFFICES ASSUME MaxMoves = 0 PROVE Spec => []PollerInv
  OBVIOUS
<1>1. QueueInv /\ PollerInv /\ [Next]_vars => PollerInv'
  BY PollerInvInductive
<1> QED
  BY <1>1, InitPollerInv, QueueInvariant, PTL DEF Spec

\* A chat session, and an agent's quick-create work, has one task in flight at a time
\* as long as no agent is moved to another runtime.
THEOREM ChatSerial == MaxMoves = 0 => (Spec => []ChatSerialised)
<1> SUFFICES ASSUME MaxMoves = 0 PROVE Spec => []ChatSerialised
  OBVIOUS
<1>1. PollerInv => ChatSerialised
  BY DEF PollerInv, KeysSerialised, ChatSerialised
<1>2. Spec => []PollerInv
  BY PollerInvariant
<1> QED
  BY <1>1, <1>2, PTL

\* An agent's tasks in flight never exceed max_concurrent_tasks as long as no agent is
\* moved to another runtime: the count is still true when the row is taken.
THEOREM CapacityHeld == MaxMoves = 0 => (Spec => []CapacityRespected)
<1> SUFFICES ASSUME MaxMoves = 0 PROVE Spec => []CapacityRespected
  OBVIOUS
<1>1. PollerInv => CapacityRespected
  BY DEF PollerInv
<1>2. Spec => []PollerInv
  BY PollerInvariant
<1> QED
  BY <1>1, <1>2, PTL

-----------------------------------------------------------------------------
(***************************************************************************)
(* Where no procedure is lost, no failed work is forgotten and no work is  *)
(* hidden behind an idle agent.                                            *)
(***************************************************************************)
\* A row that is still owed its retry and no longer owed it after the step got it,
\* may not have it, or was refused it by the index.
LEMMA OwedLeaves ==
  ASSUME QueueInv, [Next]_vars, MaxFaults = 0, NEW t \in owed, t \notin owed'
  PROVE  \/ ~Retryable(t)
         \/ IndexConflict(task[t].agent, task[t].work)
         \/ Children(t)' # {}
<1>1. TypeOK /\ t \in Tasks
  BY DEF QueueInv, TypeOK
<1>2. ASSUME NEW p \in owed, MaybeRetry(p)
      PROVE  \/ ~Retryable(t)
             \/ IndexConflict(task[t].agent, task[t].work)
             \/ Children(t)' # {}
  <2>1. p = t
    BY <1>2 DEF MaybeRetry
  <2>2. CASE Retryable(t) /\ ~IndexConflict(task[t].agent, task[t].work)
    <3>1. PICK u \in Tasks :
            task' = [task EXCEPT ![u] = Queued(task[t].agent, task[t].runtime, task[t].work,
                                               task[t].attempt + 1, t)]
      BY <1>2, <2>1, <2>2 DEF MaybeRetry
    <3>2. task'[u] = Queued(task[t].agent, task[t].runtime, task[t].work,
                            task[t].attempt + 1, t)
      BY <1>1, <3>1 DEF TypeOK
    <3>3. \A a, r, w, n : Queued(a, r, w, n, t).status = "queued" /\ Queued(a, r, w, n, t).parent = t
      BY DEF Queued
    <3>4. u \in Children(t)'
      BY <3>2, <3>3 DEF Children
    <3> QED
      BY <3>4
  <2> QED
    BY <2>2
<1>3. owed \subseteq owed' \/ \E p \in owed : MaybeRetry(p)
  <2>1. CASE Enqueueing \/ UNCHANGED vars
    BY <2>1 DEF Enqueueing, EnqueueBegin, EnqueueInsert, RerunIssue, vars
  <2>2. ASSUME NEW r \in Runtimes, Claiming(r) PROVE owed \subseteq owed'
    BY <2>2 DEF Claiming, ListCandidates, CountRunning, ClaimSnapshot, ClaimDispatch, ClaimReturn
  <2>3. CASE DaemonCalls
    BY <2>3 DEF DaemonCalls, StartTask, CompleteTask, FailTask, RecoverOrphans, Heartbeat,
                Deregister, procs
  <2>4. CASE AfterFailure
    BY <2>4 DEF AfterFailure, Reconcile
  <2>5. CASE UserCalls
    BY <2>5 DEF UserCalls, CancelTask, CancelTasksForWork, CancelTasksForAgent, Cancel,
                MoveAgent, ArchiveAgent, ArchiveCancel, RestoreAgent, RevokeRuntime, procs
  <2>6. CASE Sweeping
    BY <2>6 DEF Sweeping, MarkRuntimesOffline, FailTasksForOfflineRuntimes, FailStaleTasks,
                ExpireStaleQueuedTasks
  <2>7. ~Faults
    BY <1>1, TypeParts DEF RestOK, Faults, ServerRestart, AbortClaim
  <2> QED
    BY <2>1, <2>2, <2>3, <2>4, <2>5, <2>6, <2>7 DEF Next
<1> QED
  BY <1>2, <1>3

\* A row that fails is owed its retry.
LEMMA FailedOwed ==
  ASSUME QueueInv, [Next]_vars, NEW t \in Tasks,
         task[t].status # "failed", task'[t].status = "failed"
  PROVE  t \in owed'
<1>1. TypeOK /\ OwedChildless
  BY DEF QueueInv
<1>2. CASE InsertStep
  <2>1. task[t].status = "none" => task'[t].status = "queued"
    BY RowsBegin
  <2>2. task[t].status # "none" => task'[t] = task[t]
    BY <1>1, <1>2 DEF InsertStep, Inserted, TypeOK
  <2> QED
    BY <2>1, <2>2
<1>3. ~StartStep
  BY DEF StartStep, Moved
<1>4. ~DispatchStep
  <2>1. ASSUME NEW r \in Runtimes, NEW d \in claim[r].rows, Dispatches(r, d) PROVE FALSE
    BY <2>1 DEF Dispatches, Moved
  <2> QED
    BY <2>1 DEF DispatchStep
<1>5. ASSUME NEW S, EndStep(S) PROVE t \in owed'
  <2>1. t \in S
    BY <1>5 DEF EndStep, Ends, Moved
  <2> QED
    BY <1>5, <2>1 DEF EndStep
<1>6. task' # task
  OBVIOUS
<1> QED
  BY <1>1, <1>2, <1>3, <1>4, <1>5, <1>6, StepKinds DEF Bystands, SnapshotStep

\* Ids stay in use in order.
LEMMA OrderStays ==
  ASSUME QueueInv, RowsInOrder, [Next]_vars
  PROVE  RowsInOrder'
<1> SUFFICES ASSUME NEW t \in Tasks, NEW u \in Tasks, u < t, task'[t].status # "none"
             PROVE  task'[u].status # "none"
  BY DEF RowsInOrder
<1>1. task[u].status # "none"
  <2>1. CASE task[t].status # "none"
    BY <2>1 DEF RowsInOrder
  <2>2. CASE task[t].status = "none"
    BY <2>2, RowsBegin DEF Fresh
  <2> QED
    BY <2>1, <2>2
<1> QED
  BY <1>1, RowsLast

\* The index keeps the row that waits the newest of its agent and issue.
LEMMA NewestStays ==
  ASSUME QueueInv, RowsInOrder, NewestPending, [Next]_vars
  PROVE  NewestPending'
<1> SUFFICES ASSUME NEW t \in Tasks, NEW u \in Tasks, u < t, task'[t].status # "none",
                    task'[t].work \in Issues, SameKey(u, t)', u \in Pending'
             PROVE  FALSE
  BY DEF NewestPending
<1>1. task'[u].agent = task'[t].agent /\ task'[u].work = task'[t].work
  BY DEF SameKey
<1>2. task[u].status # "none"
  <2>1. CASE task[t].status # "none"
    BY <2>1 DEF RowsInOrder
  <2>2. CASE task[t].status = "none"
    BY <2>2, RowsBegin DEF Fresh
  <2> QED
    BY <2>1, <2>2
<1>3. u \in Pending /\ task'[u].agent = task[u].agent /\ task'[u].work = task[u].work
  BY <1>2, RowsLast
<1>4. CASE task[t].status # "none"
  <2>1. task'[t].agent = task[t].agent /\ task'[t].work = task[t].work
    BY <1>4, RowsLast
  <2>2. SameKey(u, t)
    BY <1>1, <1>3, <2>1, WorkAssumption DEF SameKey
  <2> QED
    BY <1>3, <1>4, <2>1, <2>2 DEF NewestPending
<1>5. CASE task[t].status = "none"
  <2>1. ~IndexConflict(task'[t].agent, task'[t].work)
    BY <1>5, RowsBegin
  <2> QED
    BY <1>1, <1>3, <2>1 DEF IndexConflict
<1> QED
  BY <1>4, <1>5

\* A failed row with attempts left keeps its successor, or gets one as its retry is
\* no longer owed.
LEMMA SupersededStays ==
  ASSUME QueueInv, SupersededInv, [Next]_vars, MaxFaults = 0
  PROVE  FailedWorkSuperseded'
<1>1. TypeOK /\ UnusedRows /\ NewestPending /\ FailedWorkSuperseded
  BY DEF QueueInv, SupersededInv
<1> SUFFICES ASSUME NEW t \in Tasks, task'[t].status = "failed", Retryable(t)', t \notin owed'
             PROVE  \/ Children(t)' # {}
                    \/ /\ task'[t].work \in Issues
                       /\ \E u \in Tasks : /\ t < u
                                           /\ task'[u].agent = task'[t].agent
                                           /\ task'[u].work = task'[t].work
  BY DEF FailedWorkSuperseded
<1>2. task[t].status = "failed"
  BY FailedOwed
<1>3. task'[t] = task[t]
  BY <1>2, RowsLast DEF Live
<1>4. Retryable(t)
  BY <1>3 DEF Retryable
<1>5. task[t].agent \in Agents
  BY <1>1, <1>2 DEF TypeOK
<1>6. Children(t) # {} => Children(t)' # {}
  BY RowsLast DEF Children
<1>7. ASSUME NEW u \in Tasks, task[u].agent = task[t].agent, task[u].work = task[t].work
      PROVE  task'[u].agent = task'[t].agent /\ task'[u].work = task'[t].work
  <2>1. NoRow.agent = Nil /\ task[u].agent # Nil
    BY <1>5, <1>7, NilAssumption DEF NoRow
  <2>2. task[u].status # "none"
    BY <1>1, <2>1 DEF UnusedRows
  <2> QED
    BY <1>3, <1>7, <2>2, RowsLast
<1>8. CASE t \notin owed
  BY <1>1, <1>2, <1>3, <1>4, <1>6, <1>7, <1>8 DEF FailedWorkSuperseded
<1>9. CASE t \in owed /\ IndexConflict(task[t].agent, task[t].work)
  <2>1. PICK v \in Pending : task[v].agent = task[t].agent /\ task[v].work = task[t].work
    BY <1>9 DEF IndexConflict
  <2>2. task[t].work \in Issues /\ v \in Tasks /\ v # t
    BY <1>2, <1>9 DEF IndexConflict, Pending
  <2>3. ~(v < t)
    BY <1>1, <1>2, <2>1, <2>2, WorkAssumption DEF NewestPending, SameKey
  <2>4. t < v
    BY <2>2, <2>3, TasksAssumption
  <2> QED
    BY <1>3, <1>7, <2>1, <2>2, <2>4
<1> QED
  BY <1>4, <1>8, <1>9, OwedLeaves

\* The initial state has no row.
LEMMA InitSuperseded == Init => SupersededInv /\ SnapshotsOwn /\ NoHiddenWork
<1> SUFFICES ASSUME Init PROVE SupersededInv /\ SnapshotsOwn /\ NoHiddenWork
  OBVIOUS
<1>1. \A t \in Tasks : task[t].status = "none"
  BY DEF Init, NoRow
<1>2. \A r \in Runtimes : claim[r].pc = "idle"
  BY DEF Init, NoClaim
<1> QED
  BY <1>1, <1>2 DEF SupersededInv, RowsInOrder, NewestPending, FailedWorkSuperseded,
                    SnapshotsOwn, NoHiddenWork, Active

\* As long as no procedure is lost half-way, work that infrastructure failed is retried
\* within its attempts, or its issue had got newer work already.
THEOREM FailedWorkKept == MaxFaults = 0 => (Spec => []FailedWorkSuperseded)
<1> SUFFICES ASSUME MaxFaults = 0 PROVE Spec => []FailedWorkSuperseded
  OBVIOUS
<1>1. QueueInv /\ SupersededInv /\ [Next]_vars => SupersededInv'
  BY OrderStays, NewestStays, SupersededStays DEF SupersededInv
<1>2. Init => SupersededInv
  BY InitSuperseded
<1>3. SupersededInv => FailedWorkSuperseded
  BY DEF SupersededInv
<1> QED
  BY <1>1, <1>2, <1>3, QueueInvariant, PTL DEF Spec

-----------------------------------------------------------------------------
\* The status that the rows of agent a call for.
StatusOf(a) == IF \E t \in Active : task[t].agent = a THEN "working" ELSE "idle"

\* A step refreshes the status of an agent, or keeps it and what will refresh it.
StatusKept(a) == /\ agentStatus'[a] = agentStatus[a]
                 /\ a \in due => a \in due'
                 /\ \A r \in Runtimes : claim[r].pc = "claimed" /\ claim[r].agent = a
                                          => claim'[r] = claim[r]
StatusRefreshed(a) == task' = task /\ agentStatus'[a] = StatusOf(a)

\* Every step does one or the other.
LEMMA StatusSteps ==
  ASSUME TypeOK, [Next]_vars, MaxFaults = 0, NEW a \in Agents
  PROVE  StatusKept(a) \/ StatusRefreshed(a)
<1>1. claim \in [Runtimes -> Claim] /\ agentStatus \in [Agents -> {"idle", "working"}]
  BY TypeParts DEF ClaimOK, RestOK
<1>2. CASE Enqueueing \/ UNCHANGED vars
  BY <1>2 DEF Enqueueing, EnqueueBegin, EnqueueInsert, RerunIssue, vars, agentVars, StatusKept
<1>3. ASSUME NEW r \in Runtimes, Claiming(r) PROVE StatusKept(a) \/ StatusRefreshed(a)
  <2>1. CASE ClaimReturn(r) /\ claim[r].agent = a
    BY <1>1, <2>1 DEF ClaimReturn, RefreshStatus, StatusRefreshed, StatusOf
  <2>2. CASE ClaimReturn(r) /\ claim[r].agent # a
    BY <1>1, <2>2 DEF ClaimReturn, RefreshStatus, StatusKept
  <2>3. CASE \/ ListCandidates(r) \/ CountRunning(r) \/ ClaimSnapshot(r) \/ ClaimDispatch(r)
    <3>1. /\ UNCHANGED <<agentVars, due>> /\ claim[r].pc # "claimed"
          /\ \A q \in Runtimes : q # r => claim'[q] = claim[q]
      <4>1. CASE ListCandidates(r)
        BY <1>1, <4>1 DEF ListCandidates
      <4>2. CASE CountRunning(r)
        BY <1>1, <4>2 DEF CountRunning
      <4>3. CASE ClaimSnapshot(r)
        BY <1>1, <4>3 DEF ClaimSnapshot
      <4>4. CASE ClaimDispatch(r)
        <5>1. \E c : claim' = [claim EXCEPT ![r] = c]
          BY <1>1, <4>4 DEF ClaimDispatch, Claim
        <5> QED
          BY <1>1, <4>4, <5>1 DEF ClaimDispatch
      <4> QED
        BY <2>3, <4>1, <4>2, <4>3, <4>4
    <3> QED
      BY <3>1 DEF StatusKept, agentVars
  <2> QED
    BY <1>3, <2>1, <2>2, <2>3 DEF Claiming
<1>4. CASE DaemonCalls
  BY <1>4 DEF DaemonCalls, StartTask, CompleteTask, FailTask, RecoverOrphans, Heartbeat,
              Deregister, procs, agentVars, StatusKept
<1>5. CASE AfterFailure
  <2>1. ASSUME NEW t \in owed, MaybeRetry(t) PROVE StatusKept(a)
    BY <2>1 DEF MaybeRetry, agentVars, StatusKept
  <2>2. ASSUME NEW b \in due, Reconcile(b) PROVE StatusKept(a) \/ StatusRefreshed(a)
    <3>1. CASE b = a
      BY <1>1, <2>2, <3>1 DEF Reconcile, RefreshStatus, StatusRefreshed, StatusOf
    <3>2. CASE b # a
      BY <1>1, <2>2, <3>2 DEF Reconcile, RefreshStatus, StatusKept
    <3> QED
      BY <3>1, <3>2
  <2> QED
    BY <1>5, <2>1, <2>2 DEF AfterFailure
<1>6. CASE UserCalls
  BY <1>6 DEF UserCalls, CancelTask, CancelTasksForWork, CancelTasksForAgent, Cancel,
              MoveAgent, ArchiveAgent, ArchiveCancel, RestoreAgent, RevokeRuntime, procs,
              agentVars, StatusKept
<1>7. CASE Sweeping
  BY <1>7 DEF Sweeping, MarkRuntimesOffline, FailTasksForOfflineRuntimes, FailStaleTasks,
              ExpireStaleQueuedTasks, agentVars, StatusKept
<1>8. ~Faults
  BY TypeParts DEF RestOK, Faults, ServerRestart, AbortClaim
<1> QED
  BY <1>2, <1>3, <1>4, <1>5, <1>6, <1>7, <1>8 DEF Next

\* A task handed out for an idle agent has the refresh of its claim to come.
LEMMA HiddenWorkStays ==
  ASSUME QueueInv, SnapshotsOwn, NoHiddenWork, [Next]_vars, MaxFaults = 0
  PROVE  NoHiddenWork'
<1>1. TypeOK
  BY DEF QueueInv
<1> SUFFICES ASSUME NEW a \in Agents, agentStatus'[a] = "idle",
                    NEW t \in Active', task'[t].agent = a
             PROVE  a \in due' \/ ClaimedFor(a)'
  BY DEF NoHiddenWork
<1>2. CASE StatusRefreshed(a)
  <2>1. t \in Active /\ task[t].agent = a
    BY <1>2 DEF StatusRefreshed, Active
  <2> QED
    BY <1>2, <2>1 DEF StatusRefreshed, StatusOf
<1>3. CASE StatusKept(a) /\ t \in Active
  <2>1. task[t].agent = a
    BY <1>3, RowsLast DEF Active
  <2>2. a \in due \/ ClaimedFor(a)
    <3>1. agentStatus[a] = "idle"
      BY <1>3 DEF StatusKept
    <3> QED
      BY <1>3, <2>1, <3>1 DEF NoHiddenWork
  <2> QED
    BY <1>3, <2>2 DEF StatusKept, ClaimedFor
<1>4. CASE t \notin Active
  <2>1. PICK q \in Runtimes : t \in claim[q].rows /\ Dispatches(q, t)
    BY <1>4, ActiveGrows
  <2>2. claim[q] \in Claim /\ t \in Tasks
    BY <1>1, TypeParts DEF ClaimOK, Active
  <2>3. claim'[q].pc = "claimed" /\ claim'[q].agent = claim[q].agent /\ claim[q].pc = "matched"
    BY <2>1, <2>2 DEF Dispatches, Claim
  <2>4. claim[q].agent = a
    BY <2>1, <2>2, <2>3 DEF SnapshotsOwn, Dispatches, Moved
  <2> QED
    BY <2>3, <2>4 DEF ClaimedFor
<1> QED
  BY <1>1, <1>2, <1>3, <1>4, StatusSteps

\* As long as no procedure is lost half-way, an agent with a task in flight is shown
\* working, or a refresh of its status is on its way.
THEOREM WorkShown == MaxFaults = 0 => (Spec => []NoHiddenWork)
<1> SUFFICES ASSUME MaxFaults = 0 PROVE Spec => []NoHiddenWork
  OBVIOUS
<1> DEFINE Inv == SnapshotsOwn /\ NoHiddenWork
<1>1. Init => Inv
  BY InitSuperseded
<1>2. QueueInv /\ Inv /\ [Next]_vars => Inv'
  BY SnapshotsStayOwn, HiddenWorkStays
<1>3. Inv => NoHiddenWork
  OBVIOUS
<1> HIDE DEF Inv
<1> QED
  BY <1>1, <1>2, <1>3, QueueInvariant, PTL DEF Spec

-----------------------------------------------------------------------------
(***************************************************************************)
(* The queue implements SerialWork.                                        *)
(***************************************************************************)
Keys == Agents \X Issues

\* A key has at most one holder, and Holder names it.
LEMMA HolderIs ==
  ASSUME QueueInv, NEW k \in Keys
  PROVE  \/ Holders(k) = {} /\ Holder(k) = NoTask
         \/ \E t \in Active : Holders(k) = {t} /\ Holder(k) = t
<1>1. \A t, u \in Holders(k) : t = u
  <2> TAKE t, u \in Holders(k)
  <2>1. /\ t \in Active /\ <<task[t].agent, task[t].work>> = k
        /\ u \in Active /\ <<task[u].agent, task[u].work>> = k
    BY DEF Holders
  <2>2. PICK a \in Agents, i \in Issues : k = <<a, i>>
    BY DEF Keys
  <2>3. /\ task[t].agent = a /\ task[t].work = i
        /\ task[u].agent = a /\ task[u].work = i
    BY <2>1, <2>2
  <2> QED
    BY <2>1, <2>3, WorkAssumption DEF QueueInv, IssueSerialised, SameKey
<1> QED
  BY <1>1 DEF Holder, Holders

\* The same of the next state.
LEMMA HolderIsNext ==
  ASSUME QueueInv', NEW k \in Keys
  PROVE  \/ Holders(k)' = {} /\ Holder(k)' = NoTask
         \/ \E t \in Active' : Holders(k)' = {t} /\ Holder(k)' = t
<1>1. \A t, u \in Holders(k)' : t = u
  <2> TAKE t, u \in Holders(k)'
  <2>1. /\ t \in Active' /\ <<task'[t].agent, task'[t].work>> = k
        /\ u \in Active' /\ <<task'[u].agent, task'[u].work>> = k
    BY DEF Holders
  <2>2. PICK a \in Agents, i \in Issues : k = <<a, i>>
    BY DEF Keys
  <2>3. /\ task'[t].agent = a /\ task'[t].work = i
        /\ task'[u].agent = a /\ task'[u].work = i
    BY <2>1, <2>2
  <2> QED
    BY <2>1, <2>3, WorkAssumption DEF QueueInv, IssueSerialised, SameKey
<1> QED
  BY <1>1 DEF Holder, Holders

\* The initial state of the queue is one of SerialWork.
LEMMA InitSerial == Init => SW!Init
<1> SUFFICES ASSUME Init PROVE SW!Init
  OBVIOUS
<1>1. \A t \in Tasks : task[t].status = "none"
  BY DEF Init, NoRow
<1>2. Spent = {} /\ \A k \in Keys : Holder(k) = NoTask
  BY <1>1 DEF Spent, Holder, Holders, Active
<1> QED
  BY <1>2 DEF SW!Init, Keys

\* A step that changes neither the holders nor Spent is a stuttering step.
LEMMA SerialStutter ==
  ASSUME QueueInv, QueueInv', Spent' = Spent, \A k \in Keys : Holders(k)' = Holders(k)
  PROVE  UNCHANGED SW!vars
<1>1. \A k \in Keys : Holder(k)' = Holder(k)
  BY HolderIs, HolderIsNext
<1> QED
  BY <1>1 DEF SW!vars, Keys

\* A step that takes S from the holders and adds it to Spent retires S.
LEMMA SerialRetire ==
  ASSUME QueueInv, QueueInv', NEW S, S \subseteq Tasks, Spent' = Spent \cup S,
         \A k \in Keys : Holders(k)' = Holders(k) \ S
  PROVE  SW!Next
<1>1. \A k \in Keys : Holder(k)' = IF Holder(k) \in S THEN NoTask ELSE Holder(k)
  <2> TAKE k \in Keys
  <2>1. NoTask \notin S
    BY TasksAssumption DEF NoTask
  <2> QED
    BY <2>1, HolderIs, HolderIsNext
<1>2. [k \in Keys |-> Holder(k)]' = [k \in Keys |-> IF [j \in Keys |-> Holder(j)][k] \in S
                                                     THEN NoTask
                                                     ELSE [j \in Keys |-> Holder(j)][k]]
  BY <1>1
<1>3. SW!Retire(S)
  BY <1>2 DEF SW!Retire, Keys
<1> QED
  BY <1>3 DEF SW!Next

\* Every step of the queue is one of SerialWork or a stutter.
LEMMA NextSerial ==
  ASSUME QueueInv, QueueInv', [Next]_vars
  PROVE  [SW!Next]_(SW!vars)
<1>1. CASE task' = task
  BY <1>1, SerialStutter DEF Spent, Holders, Active
<1>2. CASE InsertStep
  <2>1. PICK u \in Tasks, a \in Agents, r \in Runtimes, w \in Work, n \in Nat,
             p \in Tasks \cup {NoTask} : Inserted(u, a, r, w, n, p)
    BY <1>2 DEF InsertStep
  <2>2. task[u].status = "none" /\ \A t \in Tasks : t # u => task'[t] = task[t]
    BY <2>1 DEF Inserted, QueueInv, TypeOK
  <2>3. task'[u].status = "queued"
    <3>1. task'[u] = Queued(a, r, w, n, p)
      BY <2>1 DEF Inserted, QueueInv, TypeOK
    <3>2. Queued(a, r, w, n, p).status = "queued"
      BY DEF Queued
    <3> QED
      BY <3>1, <3>2
  <2> QED
    BY <2>2, <2>3, SerialStutter DEF Spent, Holders, Active
<1>3. CASE StartStep
  <2>1. PICK s \in Tasks : task[s].status = "dispatched" /\ Moved({s}, "running")
    BY <1>3 DEF StartStep
  <2>2. Active' = Active /\ Spent' = Spent
    BY <2>1 DEF Moved, Active, Spent
  <2>3. \A k \in Keys : Holders(k)' = Holders(k)
    BY <2>1, <2>2 DEF Moved, Holders, Active
  <2> QED
    BY <2>2, <2>3, SerialStutter
<1>4. CASE DispatchStep
  <2>1. PICK r \in Runtimes : \E d \in claim[r].rows : Dispatches(r, d)
    BY <1>4 DEF DispatchStep
  <2>2. PICK d \in claim[r].rows : task[d].status = "queued" /\ Moved({d}, "dispatched")
    BY <2>1 DEF Dispatches
  <2>3. d \in Tasks /\ d # NoTask /\ task[d].agent \in Agents
    BY <2>2, TasksAssumption DEF QueueInv, TypeOK, Claim, NoTask
  <2>4. Active' = Active \cup {d} /\ Spent' = Spent \cup {d} /\ d \notin Active /\ d \notin Spent
    BY <2>2, <2>3 DEF Moved, Active, Spent
  <2>5. \A k \in Keys : Holders(k)' = IF k = <<task[d].agent, task[d].work>>
                                        THEN Holders(k) \cup {d} ELSE Holders(k)
    BY <2>2, <2>3, <2>4 DEF Moved, Holders, Active
  <2>6. CASE task[d].work \in Issues
    <3> DEFINE key == <<task[d].agent, task[d].work>>
    <3>1. key \in Keys
      BY <2>3, <2>6 DEF Keys
    <3>2. Holders(key) = {}
      <4> SUFFICES ASSUME NEW x \in Active,
                          task[x].agent = task[d].agent, task[x].work = task[d].work
                   PROVE  FALSE
        BY DEF Holders
      <4>1. ~SameKey(d, x)
        BY <2>2, <2>6 DEF QueueInv, SnapshotsSound
      <4>2. task[d].work \notin AutopilotRuns
        BY <2>6, WorkAssumption
      <4> QED
        BY <4>1, <4>2 DEF SameKey
    <3> HIDE DEF key
    <3>3. Holder(key) = NoTask
      BY <3>2 DEF Holder
    <3>4. \A k \in Keys : Holder(k)' = IF k = key THEN d ELSE Holder(k)
      <4> TAKE k \in Keys
      <4>1. CASE k = key
        <5>1. Holders(k)' = {d}
          BY <2>5, <3>2, <4>1 DEF key
        <5> QED
          BY <4>1, <5>1, HolderIsNext
      <4>2. CASE k # key
        <5>1. Holders(k)' = Holders(k)
          BY <2>5, <4>2 DEF key
        <5> QED
          BY <4>2, <5>1, HolderIs, HolderIsNext
      <4> QED
        BY <4>1, <4>2
    <3>5. [k \in Keys |-> Holder(k)]' = [[k \in Keys |-> Holder(k)] EXCEPT ![key] = d]
      BY <3>1, <3>4
    <3>6. SW!Grant(key, d)
      BY <2>4, <3>1, <3>3, <3>5 DEF SW!Grant, Keys
    <3> QED
      BY <2>3, <3>1, <3>6 DEF SW!Next, Keys
  <2>7. CASE task[d].work \notin Issues
    <3>1. \A k \in Keys : Holders(k)' = Holders(k) \ {d}
      BY <2>4, <2>5, <2>7 DEF Holders, Keys
    <3> QED
      BY <2>3, <2>4, <3>1, SerialRetire
  <2> QED
    BY <2>6, <2>7
<1>5. ASSUME NEW S, EndStep(S) PROVE SW!Next
  <2>1. S \subseteq Live /\ S \subseteq Tasks
    BY <1>5 DEF EndStep, Ends, Live
  <2>2. PICK st \in {"completed", "failed", "cancelled"} : Moved(S, st)
    BY <1>5 DEF EndStep, Ends
  <2>3. Spent' = Spent \cup S /\ Active' = Active \ S
    BY <2>1, <2>2 DEF Moved, Spent, Active
  <2>4. \A k \in Keys : Holders(k)' = Holders(k) \ S
    BY <2>2, <2>3 DEF Moved, Holders, Active
  <2> QED
    BY <2>1, <2>3, <2>4, SerialRetire
<1>6. TypeOK /\ OwedChildless
  BY DEF QueueInv
<1> QED
  BY <1>1, <1>2, <1>3, <1>4, <1>5, <1>6, StepKinds DEF Bystands, SnapshotStep

\* The whole queue, its sweeps, retries, cancellations and stale snapshots included,
\* is serial work on (agent, issue) keys.
THEOREM ImplementsSerialWork == Spec => RefinesSerialWork
BY InitQueueInv, QueueInvInductive, InitSerial, NextSerial, PTL
DEF Spec, RefinesSerialWork, SW!Spec
=============================================================================
