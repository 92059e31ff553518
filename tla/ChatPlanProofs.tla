--------------------------- MODULE ChatPlanProofs ---------------------------
(***************************************************************************)
(* Proofs about chat plans, for any number of plans, steps and tasks.      *)
(*                                                                         *)
(* The argument: a step either happens while nothing runs, and leaves      *)
(* nothing running (submit, end, skip), or lets one step run (continue,    *)
(* retry), or ends the one that runs (cancel, the two hooks), or changes   *)
(* the tasks only.  What runs is settled by lemmas about Idle, where a     *)
(* plan stands by lemmas about Front.                                      *)
(***************************************************************************)
EXTENDS ChatPlan, TLAPS

\* Nothing runs in the session.
Idle == /\ \A q \in Plans, k \in Seqs : step[q][k].status # "queued"
        /\ hooks = {}
        /\ \A t \in StepTasks : task[t] # "live"

\* Where no step is queued there is no hook to come and no live task of a step.
LEMMA NoneQueuedIdle ==
  ASSUME PlanInv, \A q \in Plans, k \in Seqs : step[q][k].status # "queued"
  PROVE  Idle
<1>1. \A t \in StepTasks : /\ t \in Tasks
                           /\ attempt[t].plan \in Plans
                           /\ attempt[t].seq \in Seqs
  BY DEF PlanInv, TypeOK, AttemptsLinked, StepTasks, Attempt
<1>2. ASSUME NEW t \in hooks PROVE FALSE
  <2>1. t \in StepTasks
    BY DEF PlanInv, TypeOK
  <2>2. step[attempt[t].plan][attempt[t].seq] = [status |-> "queued", task |-> t]
    BY DEF PlanInv, HooksCurrent
  <2>3. step[attempt[t].plan][attempt[t].seq].status = "queued"
    BY <2>2
  <2> QED
    BY <1>1, <2>1, <2>3
<1>3. ASSUME NEW t \in StepTasks, task[t] = "live" PROVE FALSE
  <2>1. step[attempt[t].plan][attempt[t].seq] = [status |-> "queued", task |-> t]
    BY <1>3 DEF PlanInv, LiveAwaited
  <2>2. step[attempt[t].plan][attempt[t].seq].status = "queued"
    BY <2>1
  <2> QED
    BY <1>1, <2>2
<1> QED
  BY <1>2, <1>3 DEF Idle

\* The parts of the invariant about what runs hold of a state where nothing does.
LEMMA IdleRuns ==
  ASSUME Idle'
  PROVE  (LiveAwaited /\ OneQueued /\ HooksEnded /\ HooksCurrent)'
BY DEF Idle, LiveAwaited, OneQueued, HooksEnded, HooksCurrent

\* A plan that is not over is not running anything if another is queued nowhere:
\* the plan of a queued step is the only active one.
LEMMA QueuedPlanActive ==
  ASSUME PlanInv, NEW p \in ActivePlans, NEW q \in Plans, NEW k \in Seqs,
         step[q][k].status = "queued"
  PROVE  q = p
<1>1. q \in ActivePlans
  BY DEF PlanInv, OneQueued, ActivePlans
<1> QED
  BY <1>1 DEF PlanInv, EndedPlansQuiet

\* The steps, but for step i of plan p, and every link, stay as they are.
OnlyStep(p, i) == /\ \A q \in Plans, k \in Seqs :
                       q # p \/ k # i => step'[q][k] = step[q][k]
                  /\ \A t \in Tasks : /\ attempt'[t].plan = attempt[t].plan
                                      /\ attempt'[t].seq = attempt[t].seq

\* A current step is where its plan stands, if the plan stands anywhere.
LEMMA CurrentIsFront ==
  ASSUME NEW p \in Plans, NEW i \in Seqs, NEW j \in Seqs, Front(p, j), Current(p, i)
  PROVE  i = j
BY DEF Front, Current, Done, Seqs

\* Changing a current step into one that is current but not awaiting leaves its
\* plan where it stands.
LEMMA CurrentStays ==
  ASSUME PlanInv, NEW p \in Plans, NEW i \in Seqs,
         \A q \in Plans, k \in Seqs : q # p \/ k # i => step'[q][k] = step[q][k],
         Current(p, i), step'[p][i].status \in {"queued", "failed", "cancelled"}
  PROVE  Ordered'
<1> SUFFICES ASSUME NEW q \in Plans
             PROVE  /\ \A k, m \in Seqs : k < m /\ step'[q][k].status = "none"
                                            => step'[q][m].status = "none"
                    /\ \A k \in Seqs : step'[q][k].status \in {"planned", "awaiting_approval"}
                                         => \E j \in Seqs : Front(q, j)'
  BY DEF Ordered
<1>1. \A k \in Seqs : step'[q][k].status = "none" <=> step[q][k].status = "none"
  BY DEF Current
<1>2. ASSUME NEW k \in Seqs, step'[q][k].status \in {"planned", "awaiting_approval"}
      PROVE  \E j \in Seqs : Front(q, j)'
  <2>1. step'[q][k] = step[q][k]
    BY <1>2
  <2>2. PICK j \in Seqs : Front(q, j)
    BY <1>2, <2>1 DEF PlanInv, Ordered
  <2>3. CASE q # p
    BY <2>2, <2>3 DEF Front, Current, Done
  <2>4. CASE q = p
    <3>1. i = j
      BY <2>2, <2>4, CurrentIsFront
    <3> QED
      BY <2>2, <2>4, <3>1 DEF Front, Current, Done, Seqs
  <2> QED
    BY <2>3, <2>4
<1> QED
  BY <1>1, <1>2 DEF PlanInv, Ordered

-----------------------------------------------------------------------------
(***************************************************************************)
(* Submitting and ending a plan.                                           *)
(***************************************************************************)
\* What SubmitPlan does to the steps, and that it keeps the types.
LEMMA SubmitPlanType ==
  ASSUME TypeOK, NEW p \in Plans, NEW n \in Seqs, SubmitPlan(p, n)
  PROVE  /\ TypeOK'
         /\ \A q \in Plans : q # p => step'[q] = step[q]
         /\ \A k \in Seqs : step'[p][k].status = IF k = 1 THEN "awaiting_approval"
                                                 ELSE IF k <= n THEN "planned" ELSE "none"
<1> USE DEF SubmitPlan, TypeOK, Step, StepStatus, NoStepRow
<1> DEFINE new == [k \in Seqs |-> IF k = 1 THEN [NoStepRow EXCEPT !.status = "awaiting_approval"]
                                  ELSE IF k <= n THEN [NoStepRow EXCEPT !.status = "planned"]
                                  ELSE NoStepRow]
<1>1. new \in [Seqs -> Step]
  OBVIOUS
<1>2. step' = [step EXCEPT ![p] = new]
  OBVIOUS
<1> HIDE DEF new
<1>3. step' \in [Plans -> [Seqs -> Step]] /\ step'[p] = new
  BY <1>1, <1>2
<1>4. plan' \in [Plans -> PlanStatus]
  BY DEF PlanStatus
<1>5. hooks' \subseteq StepTasks'
  BY DEF StepTasks
<1> USE DEF new
<1> QED
  BY <1>2, <1>3, <1>4, <1>5

\* SubmitPlan keeps the invariant: it needs a session without an active plan.
LEMMA SubmitPlanKeeps ==
  ASSUME PlanInv, NEW p \in Plans, NEW n \in Seqs, SubmitPlan(p, n)
  PROVE  PlanInv'
<1>0. /\ TypeOK'
      /\ \A q \in Plans : q # p => step'[q] = step[q]
      /\ \A k \in Seqs : step'[p][k].status = IF k = 1 THEN "awaiting_approval"
                                              ELSE IF k <= n THEN "planned" ELSE "none"
  BY SubmitPlanType DEF PlanInv
<1>1. \A q \in Plans, k \in Seqs : step[q][k].status # "queued"
  BY DEF PlanInv, OneQueued, SubmitPlan, ActivePlans
<1>2. Idle /\ Idle'
  <2>1. Idle
    BY <1>1, NoneQueuedIdle
  <2> QED
    BY <2>1, <1>0, <1>1 DEF Idle, SubmitPlan, StepTasks
<1>3. EndedPlansQuiet'
  BY <1>0 DEF PlanInv, TypeOK, EndedPlansQuiet, ActivePlans, SubmitPlan
<1>4. Ordered'
  <2> SUFFICES ASSUME NEW q \in Plans
               PROVE  /\ \A k, m \in Seqs : k < m /\ step'[q][k].status = "none"
                                              => step'[q][m].status = "none"
                      /\ \A k \in Seqs : step'[q][k].status \in {"planned", "awaiting_approval"}
                                           => \E j \in Seqs : Front(q, j)'
    BY DEF Ordered
  <2>1. CASE q # p
    BY <2>1, <1>0 DEF PlanInv, Ordered, Front, Current, Done
  <2>2. CASE q = p
    <3>1. \A k, m \in Seqs : k < m /\ step'[q][k].status = "none"
                               => step'[q][m].status = "none"
      BY <2>2, <1>0 DEF Seqs
    <3>2. 1 \in Seqs
      BY BoundsAssumption DEF Seqs
    <3>3. Front(q, 1)'
      BY <2>2, <3>2, <1>0 DEF Front, Current, Seqs
    <3> QED
      BY <3>1, <3>2, <3>3
  <2> QED
    BY <2>1, <2>2
<1>5. AttemptsLinked'
  BY DEF PlanInv, AttemptsLinked, SubmitPlan
<1> QED
  BY <1>0, <1>2, <1>3, <1>4, <1>5, IdleRuns DEF PlanInv

\* What EndPlan does to the steps, and that it keeps the types.
LEMMA EndPlanType ==
  ASSUME TypeOK, NEW p \in Plans, EndPlan(p)
  PROVE  /\ TypeOK'
         /\ \A q \in Plans : q # p => step'[q] = step[q]
         /\ \A k \in Seqs : step'[p][k].status =
              IF step[p][k].status \in {"planned", "awaiting_approval", "queued"}
                THEN "cancelled" ELSE step[p][k].status
<1> DEFINE new == [k \in Seqs |-> IF step[p][k].status \in {"planned", "awaiting_approval", "queued"}
                                    THEN [step[p][k] EXCEPT !.status = "cancelled"]
                                    ELSE step[p][k]]
<1>1. step' = [step EXCEPT ![p] = new]
  BY Zenon DEF EndPlan, CancelNonTerminalStepsByPlan
<1>2. ASSUME NEW k \in Seqs
      PROVE  /\ new[k] \in Step
             /\ new[k].status =
                  IF step[p][k].status \in {"planned", "awaiting_approval", "queued"}
                    THEN "cancelled" ELSE step[p][k].status
  <2>1. step[p][k] \in Step
    BY DEF TypeOK
  <2> QED
    BY <2>1 DEF Step, StepStatus
<1>3. new \in [Seqs -> Step]
  BY <1>2
<1> HIDE DEF new
<1>4. step' \in [Plans -> [Seqs -> Step]]
  BY <1>1, <1>3 DEF TypeOK
<1>5. step'[p] = new /\ \A q \in Plans : q # p => step'[q] = step[q]
  BY <1>1 DEF TypeOK
<1>6. plan' \in [Plans -> PlanStatus]
  BY DEF TypeOK, EndPlan, PlanStatus
<1>7. hooks' \subseteq StepTasks'
  BY DEF TypeOK, EndPlan, StepTasks
<1>8. TypeOK'
  BY <1>4, <1>6, <1>7 DEF TypeOK, EndPlan
<1> QED
  BY <1>2, <1>5, <1>8

\* ClearPlan and RequestReplan keep the invariant: nothing of the plan is queued.
LEMMA EndPlanKeeps ==
  ASSUME PlanInv, NEW p \in ActivePlans, EndPlan(p),
         \A k \in Seqs : step[p][k].status # "queued"
  PROVE  PlanInv'
<1> p \in Plans
  BY DEF ActivePlans
<1>0. /\ TypeOK'
      /\ \A q \in Plans : q # p => step'[q] = step[q]
      /\ \A k \in Seqs : step'[p][k].status =
           IF step[p][k].status \in {"planned", "awaiting_approval", "queued"}
             THEN "cancelled" ELSE step[p][k].status
  BY EndPlanType DEF PlanInv
<1>1. \A q \in Plans, k \in Seqs : step[q][k].status # "queued"
  BY QueuedPlanActive
<1>2. Idle /\ Idle'
  <2>1. Idle
    BY <1>1, NoneQueuedIdle
  <2>2. \A k \in Seqs : step'[p][k].status # "queued"
    BY <1>0
  <2> QED
    BY <2>1, <2>2, <1>0, <1>1 DEF Idle, EndPlan, StepTasks
<1>3. \A k \in Seqs : step'[p][k].status \notin {"planned", "awaiting_approval"}
  BY <1>0
<1>4. EndedPlansQuiet'
  <2>1. ActivePlans' = ActivePlans \ {p}
    BY DEF PlanInv, TypeOK, EndPlan, ActivePlans
  <2> QED
    BY <2>1, <1>0, <1>2, <1>3 DEF PlanInv, EndedPlansQuiet, Idle
<1>5. Ordered'
  <2> SUFFICES ASSUME NEW q \in Plans
               PROVE  /\ \A k, m \in Seqs : k < m /\ step'[q][k].status = "none"
                                              => step'[q][m].status = "none"
                      /\ \A k \in Seqs : step'[q][k].status \in {"planned", "awaiting_approval"}
                                           => \E j \in Seqs : Front(q, j)'
    BY DEF Ordered
  <2>1. CASE q # p
    BY <2>1, <1>0 DEF PlanInv, Ordered, Front, Current, Done
  <2>2. CASE q = p
    <3>1. \A k \in Seqs : step'[p][k].status = "none" => step[p][k].status = "none"
      BY <1>0
    <3>2. \A k \in Seqs : step[p][k].status = "none" => step'[p][k].status = "none"
      BY <1>0
    <3> QED
      BY <2>2, <3>1, <3>2, <1>3 DEF PlanInv, Ordered
  <2> QED
    BY <2>1, <2>2
<1>6. AttemptsLinked'
  BY DEF PlanInv, AttemptsLinked, EndPlan
<1> QED
  BY <1>0, <1>2, <1>4, <1>5, <1>6, IdleRuns DEF PlanInv

-----------------------------------------------------------------------------
(***************************************************************************)
(* Running, ending and skipping a step.                                    *)
(***************************************************************************)
\* One step's row replaced, and one step's status set.
WithRow(f, p, i, r) == [f EXCEPT ![p][i] = r]
WithStatus(f, p, i, st) == [f EXCEPT ![p][i].status = st]

\* f, g: two values of step, which differ in row i of plan p.
LEMMA RowReplaced ==
  ASSUME NEW f \in [Plans -> [Seqs -> Step]], NEW p \in Plans, NEW i \in Seqs, NEW r \in Step
  PROVE  LET g == WithRow(f, p, i, r) IN
         /\ g \in [Plans -> [Seqs -> Step]]
         /\ g[p][i] = r
         /\ \A q \in Plans, k \in Seqs : q # p \/ k # i => g[q][k] = f[q][k]
BY DEF WithRow

\* The same for a step's status alone.
LEMMA StatusReplaced ==
  ASSUME NEW f \in [Plans -> [Seqs -> Step]], NEW p \in Plans, NEW i \in Seqs, NEW st \in StepStatus
  PROVE  LET g == WithStatus(f, p, i, st) IN
         /\ g \in [Plans -> [Seqs -> Step]]
         /\ g[p][i].status = st
         /\ \A q \in Plans, k \in Seqs : q # p \/ k # i => g[q][k] = f[q][k]
<1> DEFINE r == [f[p][i] EXCEPT !.status = st]
<1>1. r \in Step /\ r.status = st
  <2>1. f[p][i] \in Step
    OBVIOUS
  <2> QED
    BY <2>1 DEF Step
<1>2. WithStatus(f, p, i, st) = WithRow(f, p, i, r)
  BY DEF WithRow, WithStatus
<1> HIDE DEF r
<1> QED
  BY <1>1, <1>2, RowReplaced

\* A queued step is the only one, and the only one with a live task or a hook.
LEMMA OnlyItsTask ==
  ASSUME PlanInv, NEW p \in Plans, NEW i \in Seqs, NEW t \in Tasks,
         step[p][i] = [status |-> "queued", task |-> t]
  PROVE  /\ \A q \in Plans, k \in Seqs : step[q][k].status = "queued" => q = p /\ k = i
         /\ hooks \subseteq {t}
         /\ \A u \in StepTasks : task[u] = "live" => u = t
<1>1. \A q \in Plans, k \in Seqs : step[q][k].status = "queued" => q = p /\ k = i
  <2>1. step[p][i].status = "queued"
    OBVIOUS
  <2> QED
    BY <2>1 DEF PlanInv, OneQueued
<1>2. \A u \in StepTasks : attempt[u].plan \in Plans /\ attempt[u].seq \in Seqs
  BY DEF PlanInv, TypeOK, AttemptsLinked, StepTasks, Attempt
<1>3. ASSUME NEW u \in StepTasks,
             step[attempt[u].plan][attempt[u].seq] = [status |-> "queued", task |-> u]
      PROVE  u = t
  <2>1. step[attempt[u].plan][attempt[u].seq].status = "queued"
    BY <1>3
  <2>2. attempt[u].plan = p /\ attempt[u].seq = i
    BY <1>1, <1>2, <2>1
  <2>3. [status |-> "queued", task |-> u].task = [status |-> "queued", task |-> t].task
    BY <1>3, <2>2
  <2> QED
    BY <2>3
<1>4. \A u \in hooks : u \in StepTasks
  BY DEF PlanInv, TypeOK
<1>5. hooks \subseteq {t}
  BY <1>3, <1>4 DEF PlanInv, HooksCurrent
<1>6. \A u \in StepTasks : task[u] = "live" => u = t
  BY <1>3 DEF PlanInv, LiveAwaited
<1> QED
  BY <1>1, <1>5, <1>6

\* ContinueStep and RetryStep keep the invariant: HasActiveStepTask lets them by only
\* when nothing runs.
LEMMA ExecuteKeeps ==
  ASSUME PlanInv, NEW p \in Plans, NEW i \in Seqs, Execute(p, i),
         step[p][i].status \in {"awaiting_approval", "failed", "cancelled"}
  PROVE  PlanInv'
<1>1. PICK t \in Tasks :
        /\ task[t] = "none"
        /\ task' = [task EXCEPT ![t] = "live"]
        /\ attempt' = [attempt EXCEPT ![t] = [plan |-> p, seq |-> i, status |-> "queued"]]
        /\ step' = [step EXCEPT ![p][i] = [status |-> "queued", task |-> t]]
  BY DEF Execute, Fresh
<1>2. /\ plan' = [plan EXCEPT ![p] = "running"]
      /\ hooks' = hooks /\ faults' = faults
      /\ ActivePlans \subseteq {p}
  BY DEF Execute, MayBeActive
<1>3. \A q \in Plans, k \in Seqs : step[q][k].status # "queued"
  BY DEF Execute, HasActiveStepTask
<1>4. Idle
  BY <1>3, NoneQueuedIdle
<1>5. /\ step' \in [Plans -> [Seqs -> Step]]
      /\ step'[p][i] = [status |-> "queued", task |-> t]
      /\ \A q \in Plans, k \in Seqs : q # p \/ k # i => step'[q][k] = step[q][k]
  <2>1. [status |-> "queued", task |-> t] \in Step
    BY DEF Step, StepStatus
  <2>2. step' = WithRow(step, p, i, [status |-> "queued", task |-> t])
    BY <1>1, Zenon DEF WithRow
  <2>3. step \in [Plans -> [Seqs -> Step]]
    BY DEF PlanInv, TypeOK
  <2> QED
    BY <2>1, <2>2, <2>3, RowReplaced
<1>6. step'[p][i].status = "queued" /\ step'[p][i].task = t
  BY <1>5
<1>7. /\ attempt' \in [Tasks -> Attempt]
      /\ attempt'[t] = [plan |-> p, seq |-> i, status |-> "queued"]
      /\ \A u \in Tasks : u # t => attempt'[u] = attempt[u]
  <2>1. [plan |-> p, seq |-> i, status |-> "queued"] \in Attempt
    BY DEF Attempt
  <2> QED
    BY <1>1, <2>1 DEF PlanInv, TypeOK
<1>8. /\ attempt'[t].plan = p /\ attempt'[t].seq = i /\ attempt'[t].status = "queued"
      /\ p # NoPlan
  BY <1>7, PlansAssumption DEF NoPlan
<1>9. StepTasks' = StepTasks \cup {t}
  BY <1>7, <1>8 DEF StepTasks
<1>10. /\ task' \in [Tasks -> {"none", "live", "completed", "failed", "cancelled"}]
       /\ task'[t] = "live"
       /\ \A u \in Tasks : u # t => task'[u] = task[u]
  BY <1>1 DEF PlanInv, TypeOK
<1>11. TypeOK'
  <2>1. plan' \in [Plans -> PlanStatus]
    BY <1>2 DEF PlanInv, TypeOK, PlanStatus
  <2> QED
    BY <2>1, <1>2, <1>5, <1>7, <1>9, <1>10 DEF PlanInv, TypeOK
<1>12. AttemptsLinked'
  BY <1>7, <1>8, <1>10 DEF PlanInv, AttemptsLinked
<1>13. LiveAwaited'
  <2>1. \A u \in StepTasks' : task'[u] = "live" => u = t
    BY <1>4, <1>9, <1>10 DEF Idle, StepTasks
  <2> QED
    BY <2>1, <1>5, <1>8 DEF LiveAwaited
<1>14. OneQueued'
  <2>1. \A q \in Plans, k \in Seqs : step'[q][k].status = "queued" => q = p /\ k = i
    BY <1>3, <1>5
  <2>2. plan'[p] = "running"
    BY <1>2 DEF PlanInv, TypeOK
  <2> QED
    BY <2>1, <2>2 DEF OneQueued
<1>15. HooksEnded' /\ HooksCurrent'
  BY <1>2, <1>4 DEF Idle, HooksEnded, HooksCurrent
<1>16. EndedPlansQuiet'
  <2>1. ActivePlans' = {p}
    BY <1>2 DEF PlanInv, TypeOK, ActivePlans
  <2>2. \A q \in Plans \ {p} : q \in Plans \ ActivePlans
    BY <1>2
  <2> QED
    BY <2>1, <2>2, <1>5 DEF PlanInv, EndedPlansQuiet
<1>17. Ordered'
  <2>1. Current(p, i)
    BY DEF Current
  <2> QED
    BY <2>1, <1>5, <1>6, CurrentStays
<1> QED
  BY <1>11, <1>12, <1>13, <1>14, <1>15, <1>16, <1>17 DEF PlanInv

\* A queued step stops short of done: its plan awaits a decision again.
LEMMA HaltKeeps ==
  ASSUME PlanInv, NEW p \in Plans, NEW i \in Seqs, NEW t \in Tasks, NEW st \in {"failed", "cancelled"},
         step[p][i] = [status |-> "queued", task |-> t], MayBeActive(p),
         task' \in [Tasks -> {"none", "live", "completed", "failed", "cancelled"}],
         task'[t] \notin {"none", "live"}, \A u \in Tasks : u # t => task'[u] = task[u],
         attempt' = [attempt EXCEPT ![t].status = st],
         step' = [step EXCEPT ![p][i].status = st],
         plan' = [plan EXCEPT ![p] = "awaiting_approval"],
         t \notin hooks', hooks' \subseteq hooks, faults' = faults
  PROVE  PlanInv'
<1>1. /\ \A q \in Plans, k \in Seqs : step[q][k].status = "queued" => q = p /\ k = i
      /\ hooks \subseteq {t}
      /\ \A u \in StepTasks : task[u] = "live" => u = t
  BY OnlyItsTask
<1>2. /\ step' \in [Plans -> [Seqs -> Step]]
      /\ step'[p][i].status = st
      /\ \A q \in Plans, k \in Seqs : q # p \/ k # i => step'[q][k] = step[q][k]
  <2>1. step \in [Plans -> [Seqs -> Step]]
    BY DEF PlanInv, TypeOK
  <2>2. st \in StepStatus
    BY DEF StepStatus
  <2>3. step' = WithStatus(step, p, i, st)
    BY Zenon DEF WithStatus
  <2> QED
    BY <2>1, <2>2, <2>3, StatusReplaced
<1>3. /\ attempt' \in [Tasks -> Attempt]
      /\ \A u \in Tasks : attempt'[u].plan = attempt[u].plan /\ attempt'[u].seq = attempt[u].seq
      /\ \A u \in Tasks : u # t => attempt'[u] = attempt[u]
  <2>1. attempt \in [Tasks -> Attempt]
    BY DEF PlanInv, TypeOK
  <2>2. attempt[t] \in Attempt
    BY <2>1
  <2>3. /\ [attempt[t] EXCEPT !.status = st] \in Attempt
        /\ [attempt[t] EXCEPT !.status = st].plan = attempt[t].plan
        /\ [attempt[t] EXCEPT !.status = st].seq = attempt[t].seq
    BY <2>2 DEF Attempt
  <2> QED
    BY <2>1, <2>3
<1>4. StepTasks' = StepTasks
  BY <1>3 DEF StepTasks
<1>5. hooks' = {}
  BY <1>1
<1>6. Idle'
  <2>1. \A u \in StepTasks' : task'[u] # "live"
    BY <1>1, <1>4 DEF StepTasks
  <2>2. \A q \in Plans, k \in Seqs : step'[q][k].status # "queued"
    BY <1>1, <1>2
  <2> QED
    BY <2>1, <2>2, <1>5 DEF Idle
<1>7. TypeOK'
  <2>1. plan' \in [Plans -> PlanStatus]
    BY DEF PlanInv, TypeOK, PlanStatus
  <2> QED
    BY <2>1, <1>2, <1>3, <1>5 DEF PlanInv, TypeOK
<1>8. AttemptsLinked'
  BY <1>3 DEF PlanInv, AttemptsLinked
<1>9. EndedPlansQuiet'
  <2>1. ActivePlans' = {p}
    BY DEF PlanInv, TypeOK, ActivePlans, MayBeActive
  <2>2. \A q \in Plans \ {p} : q \in Plans \ ActivePlans
    BY DEF MayBeActive
  <2> QED
    BY <2>1, <2>2, <1>2 DEF PlanInv, EndedPlansQuiet
<1>10. Ordered'
  <2>1. Current(p, i)
    BY DEF Current
  <2> QED
    BY <2>1, <1>2, CurrentStays
<1> QED
  BY <1>6, <1>7, <1>8, <1>9, <1>10, IdleRuns DEF PlanInv

\* A step of which the plan moves on: what Advance does to plan and steps keeps the
\* plan's order, and leaves nothing queued that was not.
LEMMA AdvanceMoves ==
  ASSUME PlanInv, NEW p \in Plans, NEW i \in Seqs, NEW st \in {"completed", "skipped"},
         step[p][i].status \in {"awaiting_approval", "queued"}, Advance(p, i, st)
  PROVE  /\ step' \in [Plans -> [Seqs -> Step]] /\ plan' \in [Plans -> PlanStatus]
         /\ EndedPlansQuiet'
         /\ Ordered'
         /\ step'[p][i].status = st
         /\ \A q \in Plans, k \in Seqs : (q # p \/ k # i) /\ step'[q][k].status = "queued" =>
              step[q][k].status = "queued"
<1>0. /\ step \in [Plans -> [Seqs -> Step]] /\ plan \in [Plans -> PlanStatus]
      /\ st \in StepStatus
      /\ Current(p, i)
      /\ \A q \in Plans, k, m \in Seqs :
            k < m /\ step[q][k].status = "none" => step[q][m].status = "none"
      /\ \A q \in Plans : \A k \in Seqs :
            step[q][k].status \in {"planned", "awaiting_approval"} => \E j \in Seqs : Front(q, j)
  BY DEF PlanInv, TypeOK, StepStatus, Current, Ordered
<1>f. \A k \in Seqs : step[p][k].status \in {"planned", "awaiting_approval"} => Front(p, i)
  BY <1>0, CurrentIsFront
<1>1. CASE \E n \in Seqs :
             /\ NextPlanned(p, n)
             /\ MayBeActive(p)
             /\ step' = [step EXCEPT ![p][i].status = st, ![p][n].status = "awaiting_approval"]
             /\ plan' = [plan EXCEPT ![p] = "awaiting_approval"]
  <2>1. PICK n \in Seqs :
             /\ NextPlanned(p, n)
             /\ MayBeActive(p)
             /\ step' = [step EXCEPT ![p][i].status = st, ![p][n].status = "awaiting_approval"]
             /\ plan' = [plan EXCEPT ![p] = "awaiting_approval"]
    BY <1>1
  <2> DEFINE mid == WithStatus(step, p, i, st)
  <2>2. /\ mid \in [Plans -> [Seqs -> Step]]
        /\ mid[p][i].status = st
        /\ \A q \in Plans, k \in Seqs : q # p \/ k # i => mid[q][k] = step[q][k]
    BY <1>0, StatusReplaced
  <2>3. step' = WithStatus(mid, p, n, "awaiting_approval")
    BY <2>1, Zenon DEF WithStatus
  <2> HIDE DEF mid
  <2>4. /\ step' \in [Plans -> [Seqs -> Step]]
        /\ step'[p][n].status = "awaiting_approval"
        /\ \A q \in Plans, k \in Seqs : q # p \/ k # n => step'[q][k] = mid[q][k]
    <3>1. "awaiting_approval" \in StepStatus
      BY DEF StepStatus
    <3> QED
      BY <3>1, <2>2, <2>3, StatusReplaced
  <2>5. /\ step[p][n].status = "planned" /\ n # i
        /\ \A m \in Seqs : step[p][m].status = "planned" => n <= m
    BY <2>1, <1>0 DEF NextPlanned, Planned, Current
  <2>6. /\ step'[p][i].status = st
        /\ \A q \in Plans, k \in Seqs : q # p \/ (k # i /\ k # n) => step'[q][k] = step[q][k]
    BY <2>2, <2>4, <2>5
  <2>7. Front(p, i)
    BY <1>f, <2>5
  <2>8. i < n /\ \A k \in Seqs : i < k /\ k < n => step[p][k].status \notin {"planned", "none"}
    BY <2>5, <2>7, <1>0 DEF Front, Done, Seqs
  <2>9. Front(p, n)'
    <3>1. Current(p, n)'
      BY <2>4 DEF Current
    <3>2. ASSUME NEW k \in Seqs, k < n PROVE Done(p, k)'
      <4>1. CASE k = i
        BY <4>1, <2>6 DEF Done
      <4>2. CASE k # i
        <5>1. k < i
          BY <3>2, <4>2, <2>7, <2>8 DEF Front, Seqs
        <5> QED
          BY <3>2, <4>2, <5>1, <2>6, <2>7 DEF Front, Done, Seqs
      <4> QED
        BY <4>1, <4>2
    <3>3. ASSUME NEW k \in Seqs, n < k PROVE step'[p][k].status \in {"planned", "none"}
      <4>1. i < k /\ k # n
        BY <3>3, <2>8 DEF Seqs
      <4> QED
        BY <4>1, <2>6, <2>7 DEF Front
    <3> QED
      BY <3>1, <3>2, <3>3 DEF Front
  <2>10. plan' \in [Plans -> PlanStatus]
    BY <2>1, <1>0 DEF PlanStatus
  <2>11. EndedPlansQuiet'
    <3>1. ActivePlans' = {p}
      BY <2>1, <1>0 DEF ActivePlans, MayBeActive
    <3>2. \A q \in Plans \ {p} : q \in Plans \ ActivePlans
      BY <2>1 DEF MayBeActive
    <3> QED
      BY <3>1, <3>2, <2>6 DEF PlanInv, EndedPlansQuiet
  <2>12. Ordered'
    <3> SUFFICES ASSUME NEW q \in Plans
                 PROVE  /\ \A k, m \in Seqs : k < m /\ step'[q][k].status = "none"
                                                => step'[q][m].status = "none"
                        /\ \A k \in Seqs : step'[q][k].status \in {"planned", "awaiting_approval"}
                                             => \E j \in Seqs : Front(q, j)'
      BY DEF Ordered
    <3>1. CASE q # p
      BY <3>1, <2>6, <1>0 DEF Front, Current, Done
    <3>2. CASE q = p
      <4>1. \A k \in Seqs : step'[p][k].status = "none" <=> step[p][k].status = "none"
        BY <2>4, <2>5, <2>6, <1>0 DEF Current
      <4> QED
        BY <3>2, <4>1, <1>0, <2>9
    <3> QED
      BY <3>1, <3>2
  <2> QED
    BY <2>4, <2>6, <2>10, <2>11, <2>12
<1>2. CASE /\ Planned(p) = {}
           /\ step' = [step EXCEPT ![p][i].status = st]
           /\ plan' = [plan EXCEPT ![p] = "completed"]
  <2>1. step' = WithStatus(step, p, i, st)
    BY <1>2, Zenon DEF WithStatus
  <2>2. /\ step' \in [Plans -> [Seqs -> Step]]
        /\ step'[p][i].status = st
        /\ \A q \in Plans, k \in Seqs : q # p \/ k # i => step'[q][k] = step[q][k]
    BY <1>0, <2>1, StatusReplaced
  <2>3. plan' \in [Plans -> PlanStatus]
    BY <1>0, <1>2 DEF PlanStatus
  <2>4. ASSUME NEW k \in Seqs
        PROVE  step'[p][k].status \notin {"planned", "awaiting_approval", "queued"}
    <3>1. CASE k = i
      BY <3>1, <2>2
    <3>2. CASE k # i
      <4>1. step'[p][k] = step[p][k]
        BY <3>2, <2>2
      <4>2. step[p][k].status # "planned"
        BY <1>2 DEF Planned
      <4>3. ASSUME step[p][k].status = "awaiting_approval" PROVE FALSE
        <5>1. Front(p, i)
          BY <4>3, <1>f
        <5>2. Current(p, k)
          BY <4>3 DEF Current
        <5> QED
          BY <5>1, <5>2, <3>2, CurrentIsFront
      <4>4. ASSUME step[p][k].status = "queued" PROVE FALSE
        <5>1. step[p][i].status # "queued"
          BY <4>4, <3>2 DEF PlanInv, OneQueued
        <5>2. Front(p, i)
          BY <5>1, <1>f
        <5>3. Current(p, k)
          BY <4>4 DEF Current
        <5> QED
          BY <5>2, <5>3, <3>2, CurrentIsFront
      <4> QED
        BY <4>1, <4>2, <4>3, <4>4
    <3> QED
      BY <3>1, <3>2
  <2>5. EndedPlansQuiet'
    <3>1. ActivePlans' = ActivePlans \ {p}
      BY <1>2, <1>0 DEF ActivePlans
    <3> QED
      BY <3>1, <2>2, <2>4 DEF PlanInv, EndedPlansQuiet
  <2>6. Ordered'
    <3> SUFFICES ASSUME NEW q \in Plans
                 PROVE  /\ \A k, m \in Seqs : k < m /\ step'[q][k].status = "none"
                                                => step'[q][m].status = "none"
                        /\ \A k \in Seqs : step'[q][k].status \in {"planned", "awaiting_approval"}
                                             => \E j \in Seqs : Front(q, j)'
      BY DEF Ordered
    <3>1. CASE q # p
      <4>1. \A k \in Seqs : step'[q][k] = step[q][k]
        BY <3>1, <2>2
      <4>2. \A j \in Seqs : Front(q, j) => Front(q, j)'
        BY <4>1 DEF Front, Current, Done
      <4> QED
        BY <4>1, <4>2, <1>0
    <3>2. CASE q = p
      <4>1. \A k \in Seqs : step'[p][k].status = "none" <=> step[p][k].status = "none"
        BY <2>2, <1>0 DEF Current
      <4> QED
        BY <3>2, <4>1, <1>0, <2>4
    <3> QED
      BY <3>1, <3>2
  <2> QED
    BY <2>2, <2>3, <2>5, <2>6
<1> QED
  BY <1>1, <1>2 DEF Advance

\* SkipStep keeps the invariant: a step awaiting approval means that nothing runs.
LEMMA SkipStepKeeps ==
  ASSUME PlanInv, NEW p \in Plans, NEW i \in Seqs, SkipStep(p, i)
  PROVE  PlanInv'
<1>1. /\ step' \in [Plans -> [Seqs -> Step]] /\ plan' \in [Plans -> PlanStatus]
      /\ EndedPlansQuiet'
      /\ Ordered'
      /\ step'[p][i].status = "skipped"
      /\ \A q \in Plans, k \in Seqs : (q # p \/ k # i) /\ step'[q][k].status = "queued" =>
           step[q][k].status = "queued"
  BY AdvanceMoves DEF SkipStep
<1>2. p \in ActivePlans
  BY DEF PlanInv, EndedPlansQuiet, SkipStep
<1>3. ASSUME NEW k \in Seqs, step[p][k].status = "queued" PROVE FALSE
  <2>1. PICK j \in Seqs : Front(p, j)
    BY DEF PlanInv, Ordered, SkipStep
  <2>2. Current(p, k) /\ Current(p, i)
    BY <1>3 DEF Current, SkipStep
  <2>3. k = j /\ i = j
    BY <2>1, <2>2, CurrentIsFront
  <2> QED
    BY <1>3, <2>3 DEF SkipStep
<1>4. \A q \in Plans, k \in Seqs : step[q][k].status # "queued"
  BY <1>2, <1>3, QueuedPlanActive
<1>5. Idle'
  <2>1. Idle
    BY <1>4, NoneQueuedIdle
  <2> QED
    BY <2>1, <1>1, <1>4 DEF Idle, SkipStep, StepTasks
<1>6. TypeOK'
  BY <1>1 DEF PlanInv, TypeOK, SkipStep, StepTasks
<1>7. AttemptsLinked'
  BY DEF PlanInv, AttemptsLinked, SkipStep
<1> QED
  BY <1>1, <1>5, <1>6, <1>7, IdleRuns DEF PlanInv

\* The completion hook keeps the invariant: its step was the only one queued.
LEMMA CompletedKeeps ==
  ASSUME PlanInv, NEW t \in Tasks, OnStepTaskCompleted(t)
  PROVE  PlanInv'
<1> DEFINE p == attempt[t].plan
           i == attempt[t].seq
<1>1. t \in StepTasks /\ p \in Plans /\ i \in Seqs
  BY DEF PlanInv, TypeOK, AttemptsLinked, StepTasks, Attempt, OnStepTaskCompleted
<1>2. step[p][i] = [status |-> "queued", task |-> t]
  BY DEF PlanInv, HooksCurrent, OnStepTaskCompleted
<1>3. Advance(p, i, "completed")
  BY DEF OnStepTaskCompleted
<1> HIDE DEF p, i
<1>4. step[p][i].status = "queued"
  BY <1>2
<1>5. /\ step' \in [Plans -> [Seqs -> Step]] /\ plan' \in [Plans -> PlanStatus]
      /\ EndedPlansQuiet'
      /\ Ordered'
      /\ step'[p][i].status = "completed"
      /\ \A q \in Plans, k \in Seqs : (q # p \/ k # i) /\ step'[q][k].status = "queued" =>
           step[q][k].status = "queued"
  BY <1>1, <1>3, <1>4, AdvanceMoves
<1>6. /\ \A q \in Plans, k \in Seqs : step[q][k].status = "queued" => q = p /\ k = i
      /\ hooks \subseteq {t}
      /\ \A u \in StepTasks : task[u] = "live" => u = t
  BY <1>1, <1>2, OnlyItsTask
<1>7. /\ attempt' \in [Tasks -> Attempt]
      /\ \A u \in Tasks : attempt'[u].plan = attempt[u].plan /\ attempt'[u].seq = attempt[u].seq
      /\ \A u \in Tasks : u # t => attempt'[u] = attempt[u]
  <2>1. attempt \in [Tasks -> Attempt]
    BY DEF PlanInv, TypeOK
  <2>2. attempt[t] \in Attempt
    BY <2>1
  <2>3. /\ [attempt[t] EXCEPT !.status = "completed"] \in Attempt
        /\ [attempt[t] EXCEPT !.status = "completed"].plan = attempt[t].plan
        /\ [attempt[t] EXCEPT !.status = "completed"].seq = attempt[t].seq
    BY <2>2 DEF Attempt
  <2> QED
    BY <2>1, <2>3 DEF OnStepTaskCompleted
<1>8. StepTasks' = StepTasks
  BY <1>7 DEF StepTasks
<1>9. hooks' = {} /\ task' = task /\ faults' = faults /\ task[t] = "completed"
  BY <1>6 DEF OnStepTaskCompleted
<1>10. Idle'
  BY <1>5, <1>6, <1>8, <1>9 DEF Idle
<1>11. TypeOK'
  BY <1>5, <1>7, <1>9 DEF PlanInv, TypeOK
<1>12. AttemptsLinked'
  BY <1>7, <1>9 DEF PlanInv, AttemptsLinked
<1> QED
  BY <1>5, <1>10, <1>11, <1>12, IdleRuns DEF PlanInv

\* The failure hook keeps the invariant.
LEMMA FailedKeeps ==
  ASSUME PlanInv, NEW t \in Tasks, OnStepTaskFailed(t)
  PROVE  PlanInv'
<1> DEFINE p == attempt[t].plan
           i == attempt[t].seq
<1>1. p \in Plans /\ i \in Seqs
  BY DEF PlanInv, TypeOK, AttemptsLinked, StepTasks, Attempt, OnStepTaskFailed
<1>2. step[p][i] = [status |-> "queued", task |-> t]
  BY DEF PlanInv, HooksCurrent, OnStepTaskFailed
<1>3. /\ MayBeActive(p)
      /\ attempt' = [attempt EXCEPT ![t].status = "failed"]
      /\ step' = [step EXCEPT ![p][i].status = "failed"]
      /\ plan' = [plan EXCEPT ![p] = "awaiting_approval"]
      /\ hooks' = hooks \ {t} /\ task' = task /\ faults' = faults
      /\ task[t] = "failed"
  BY Zenon DEF OnStepTaskFailed
<1> HIDE DEF p, i
<1>4. task' \in [Tasks -> {"none", "live", "completed", "failed", "cancelled"}]
  BY <1>3 DEF PlanInv, TypeOK
<1> QED
  BY <1>1, <1>2, <1>3, <1>4, HaltKeeps

\* CancelStep keeps the invariant: a live task has no hook to come.
LEMMA CancelStepKeeps ==
  ASSUME PlanInv, NEW p \in Plans, NEW i \in Seqs, CancelStep(p, i)
  PROVE  PlanInv'
<1> DEFINE t == step[p][i].task
<1>1. /\ step[p][i].status = "queued" /\ t \in Tasks /\ task[t] = "live"
      /\ MayBeActive(p)
      /\ task' = [task EXCEPT ![t] = "cancelled"]
      /\ attempt' = [attempt EXCEPT ![t].status = "cancelled"]
      /\ step' = [step EXCEPT ![p][i].status = "cancelled"]
      /\ plan' = [plan EXCEPT ![p] = "awaiting_approval"]
      /\ hooks' = hooks /\ faults' = faults
  BY Zenon DEF CancelStep
<1>2. step[p][i] = [status |-> "queued", task |-> t]
  <2>1. step[p][i] \in Step
    BY DEF PlanInv, TypeOK
  <2> QED
    BY <1>1, <2>1 DEF Step
<1> HIDE DEF t
<1>3. /\ task' \in [Tasks -> {"none", "live", "completed", "failed", "cancelled"}]
      /\ task'[t] = "cancelled" /\ \A u \in Tasks : u # t => task'[u] = task[u]
  BY <1>1 DEF PlanInv, TypeOK
<1>4. t \notin hooks
  BY <1>1 DEF PlanInv, HooksEnded
<1> QED
  BY <1>1, <1>2, <1>3, <1>4, HaltKeeps

-----------------------------------------------------------------------------
(***************************************************************************)
(* What happens to the tasks alone.                                        *)
(***************************************************************************)
\* Tasks may move as long as no step's task comes to life, none is forgotten, and a
\* hook is owed only to a step's task that has just ended.
LEMMA TasksMove ==
  ASSUME PlanInv, UNCHANGED <<plan, step, attempt>>, faults' \in Nat,
         task' \in [Tasks -> {"none", "live", "completed", "failed", "cancelled"}],
         \A u \in Tasks : task'[u] = "none" => task[u] = "none",
         \A u \in StepTasks : task'[u] = "live" => task[u] = "live",
         \A u \in hooks' : /\ u \in hooks \/ (u \in StepTasks /\ task[u] = "live")
                           /\ task'[u] \in {"completed", "failed"}
  PROVE  PlanInv'
<1>1. StepTasks' = StepTasks /\ ActivePlans' = ActivePlans
  BY DEF StepTasks, ActivePlans
<1>2. TypeOK'
  BY <1>1 DEF PlanInv, TypeOK
<1>3. AttemptsLinked'
  BY DEF PlanInv, AttemptsLinked
<1>4. LiveAwaited'
  BY <1>1 DEF PlanInv, LiveAwaited
<1>5. OneQueued'
  BY DEF PlanInv, OneQueued
<1>6. HooksEnded'
  BY DEF HooksEnded
<1>7. HooksCurrent'
  <2> SUFFICES ASSUME NEW u \in hooks'
               PROVE  /\ attempt[u].status = "queued"
                      /\ step[attempt[u].plan][attempt[u].seq] = [status |-> "queued", task |-> u]
                      /\ plan[attempt[u].plan] = "running"
    BY DEF HooksCurrent
  <2>1. CASE u \in hooks
    BY <2>1 DEF PlanInv, HooksCurrent
  <2>2. CASE u \in StepTasks /\ task[u] = "live"
    <3>1. /\ attempt[u].status = "queued"
          /\ step[attempt[u].plan][attempt[u].seq] = [status |-> "queued", task |-> u]
      BY <2>2 DEF PlanInv, LiveAwaited
    <3>2. step[attempt[u].plan][attempt[u].seq].status = "queued"
      BY <3>1
    <3>3. attempt[u].plan \in Plans /\ attempt[u].seq \in Seqs
      BY <2>2 DEF PlanInv, TypeOK, AttemptsLinked, StepTasks, Attempt
    <3> QED
      BY <3>1, <3>2, <3>3 DEF PlanInv, OneQueued
  <2> QED
    BY <2>1, <2>2
<1>8. EndedPlansQuiet'
  BY <1>1 DEF PlanInv, EndedPlansQuiet
<1>9. Ordered'
  BY DEF PlanInv, Ordered, Front, Current, Done
<1> QED
  BY <1>2, <1>3, <1>4, <1>5, <1>6, <1>7, <1>8, <1>9 DEF PlanInv

\* A task id no INSERT has used is no step's task.
LEMMA FreshIsNoStepTask ==
  ASSUME PlanInv, NEW u \in Tasks, Fresh(u)
  PROVE  u \notin StepTasks /\ task[u] = "none"
BY DEF PlanInv, AttemptsLinked, StepTasks, Fresh, NoAttempt

\* A report by the daemon keeps the invariant: a live step task is awaited.
LEMMA TaskReportedKeeps ==
  ASSUME PlanInv, NEW t \in Tasks, NEW st \in {"completed", "failed"}, TaskReported(t, st)
  PROVE  PlanInv'
<1>1. /\ task' \in [Tasks -> {"none", "live", "completed", "failed", "cancelled"}]
      /\ task'[t] = st /\ \A u \in Tasks : u # t => task'[u] = task[u]
  BY DEF PlanInv, TypeOK, TaskReported
<1>2. \A u \in hooks : u \in Tasks /\ task[u] \in {"completed", "failed"}
  BY DEF PlanInv, TypeOK, HooksEnded, StepTasks
<1>3. \A u \in hooks' : /\ u \in hooks \/ (u \in StepTasks /\ task[u] = "live")
                        /\ task'[u] \in {"completed", "failed"}
  BY <1>1, <1>2 DEF TaskReported
<1>4. faults' \in Nat /\ UNCHANGED <<plan, step, attempt>>
  BY DEF PlanInv, TypeOK, TaskReported
<1>5. \A u \in StepTasks : u \in Tasks
  BY DEF StepTasks
<1> QED
  BY <1>1, <1>3, <1>4, <1>5, TasksMove

\* The ends of a task that call no hook, and a lost hook, keep the invariant.
LEMMA TaskLeftKeeps ==
  ASSUME PlanInv, NEW t \in Tasks, TaskSwept(t) \/ TaskCancelled(t) \/ HookLost(t)
  PROVE  PlanInv'
<1>1. /\ task' \in [Tasks -> {"none", "live", "completed", "failed", "cancelled"}]
      /\ \A u \in Tasks : task'[u] = "none" => task[u] = "none"
      /\ \A u \in StepTasks : task'[u] = "live" => task[u] = "live"
      /\ \A u \in StepTasks : task[u] \in {"completed", "failed"} => task'[u] = task[u]
  <2>1. task \in [Tasks -> {"none", "live", "completed", "failed", "cancelled"}]
    BY DEF PlanInv, TypeOK
  <2>2. CASE TaskCancelled(t)
    BY <2>1, <2>2 DEF TaskCancelled, StepTasks
  <2>3. CASE task' = task
    BY <2>1, <2>3
  <2>4. CASE task[t] = "live" /\ task' = [task EXCEPT ![t] = "failed"]
    BY <2>1, <2>4 DEF StepTasks
  <2>5. CASE /\ task[t] = "live"
             /\ \E u \in Tasks : Fresh(u) /\ task' = [task EXCEPT ![t] = "failed", ![u] = "live"]
    <3>1. PICK u \in Tasks : Fresh(u) /\ task' = [task EXCEPT ![t] = "failed", ![u] = "live"]
      BY <2>5
    <3>2. u \notin StepTasks /\ task[u] = "none"
      BY <3>1, FreshIsNoStepTask
    <3> QED
      BY <2>1, <2>5, <3>1, <3>2 DEF StepTasks
  <2>6. CASE \E u \in Tasks : Fresh(u) /\ task' = [task EXCEPT ![u] = "live"]
    <3>1. PICK u \in Tasks : Fresh(u) /\ task' = [task EXCEPT ![u] = "live"]
      BY <2>6
    <3>2. u \notin StepTasks /\ task[u] = "none"
      BY <3>1, FreshIsNoStepTask
    <3> QED
      BY <2>1, <3>1, <3>2 DEF StepTasks
  <2> QED
    BY <2>2, <2>3, <2>4, <2>5, <2>6 DEF TaskSwept, HookLost
<1>2. \A u \in hooks : u \in StepTasks /\ task[u] \in {"completed", "failed"}
  BY DEF PlanInv, TypeOK, HooksEnded
<1>3. /\ hooks' \subseteq hooks /\ faults' \in Nat
      /\ UNCHANGED <<plan, step, attempt>>
  BY DEF PlanInv, TypeOK, TaskSwept, TaskCancelled, HookLost
<1> QED
  BY <1>1, <1>2, <1>3, TasksMove
-----------------------------------------------------------------------------
\* The initial state satisfies the invariant.
LEMMA PlanInvInit == Init => PlanInv
<1> SUFFICES ASSUME Init PROVE PlanInv
  OBVIOUS
<1>1. StepTasks = {} /\ ActivePlans = {}
  BY DEF Init, StepTasks, ActivePlans, NoAttempt
<1>2. NoStepRow \in Step /\ NoStepRow.status = "none" /\ NoAttempt \in Attempt
      /\ NoAttempt.plan = NoPlan
  BY DEF NoStepRow, Step, StepStatus, NoAttempt, Attempt
<1>3. \A p \in Plans, k \in Seqs : step[p][k] = NoStepRow
  BY DEF Init
<1>4. TypeOK
  BY <1>1, <1>2 DEF Init, TypeOK, PlanStatus
<1>5. AttemptsLinked
  BY <1>2 DEF Init, AttemptsLinked
<1>6. Ordered /\ OneQueued
  BY <1>2, <1>3 DEF Ordered, OneQueued
<1>7. EndedPlansQuiet
  BY <1>1, <1>2, <1>3 DEF EndedPlansQuiet
<1>8. LiveAwaited /\ HooksEnded /\ HooksCurrent
  BY <1>1 DEF Init, LiveAwaited, HooksEnded, HooksCurrent
<1> QED
  BY <1>4, <1>5, <1>6, <1>7, <1>8 DEF PlanInv

\* Every step keeps the invariant.
LEMMA PlanInvStep == PlanInv /\ [Next]_vars => PlanInv'
<1> SUFFICES ASSUME PlanInv, [Next]_vars PROVE PlanInv'
  OBVIOUS
<1>1. ASSUME NEW p \in Plans, NEW n \in Seqs, SubmitPlan(p, n) PROVE PlanInv'
  BY <1>1, SubmitPlanKeeps
<1>2. ASSUME NEW p \in Plans, ClearPlan(p) PROVE PlanInv'
  <2>1. \A k \in Seqs : step[p][k].status # "queued"
    BY <1>2 DEF PlanInv, OneQueued, ClearPlan
  <2>2. p \in ActivePlans
    BY <1>2 DEF ActivePlans, ClearPlan
  <2> QED
    BY <1>2, <2>1, <2>2, EndPlanKeeps DEF ClearPlan
<1>3. ASSUME NEW p \in Plans, RequestReplan(p) PROVE PlanInv'
  BY <1>3, EndPlanKeeps DEF RequestReplan
<1>4. ASSUME NEW p \in Plans, NEW i \in Seqs, ContinueStep(p, i) \/ RetryStep(p, i) PROVE PlanInv'
  BY <1>4, ExecuteKeeps DEF ContinueStep, RetryStep
<1>5. ASSUME NEW p \in Plans, NEW i \in Seqs, SkipStep(p, i) PROVE PlanInv'
  BY <1>5, SkipStepKeeps
<1>6. ASSUME NEW p \in Plans, NEW i \in Seqs, CancelStep(p, i) PROVE PlanInv'
  BY <1>6, CancelStepKeeps
<1>7. ASSUME NEW t \in Tasks, NEW st \in {"completed", "failed"}, TaskReported(t, st) PROVE PlanInv'
  BY <1>7, TaskReportedKeeps
<1>8. ASSUME NEW t \in Tasks, TaskSwept(t) \/ TaskCancelled(t) \/ HookLost(t) PROVE PlanInv'
  BY <1>8, TaskLeftKeeps
<1>9. ASSUME NEW t \in Tasks, OnStepTaskCompleted(t) PROVE PlanInv'
  BY <1>9, CompletedKeeps
<1>10. ASSUME NEW t \in Tasks, OnStepTaskFailed(t) PROVE PlanInv'
  BY <1>10, FailedKeeps
<1>11. CASE UNCHANGED vars
  BY <1>11 DEF vars, PlanInv, TypeOK, AttemptsLinked, LiveAwaited, OneQueued, HooksEnded, HooksCurrent,
       EndedPlansQuiet, Ordered, Front, Current, Done, StepTasks, ActivePlans
<1> QED
  BY <1>1, <1>2, <1>3, <1>4, <1>5, <1>6, <1>7, <1>8, <1>9, <1>10, <1>11 DEF Next

\* The invariant holds in every reachable state, for any number of plans, steps,
\* tasks and lost hooks.
THEOREM PlanInvariant == Spec => []PlanInv
BY PlanInvInit, PlanInvStep, PTL DEF Spec

\* Plans, steps, tasks, attempts and hooks keep their types.
THEOREM PlanTypeCorrect == Spec => []TypeOK
<1>1. PlanInv => TypeOK
  BY DEF PlanInv
<1> QED
  BY <1>1, PlanInvariant, PTL

\* Two executions of a session's steps never overlap, though ContinueStep and
\* RetryStep do not look at the other plans.
THEOREM StepsSerial == Spec => []SerialSteps
<1>1. PlanInv => SerialSteps
  <2> SUFFICES ASSUME PlanInv, NEW t \in StepTasks, NEW u \in StepTasks,
                      task[t] = "live", task[u] = "live"
               PROVE  t = u
    BY DEF SerialSteps
  <2>1. step[attempt[t].plan][attempt[t].seq] = [status |-> "queued", task |-> t]
    BY DEF PlanInv, LiveAwaited
  <2>2. t \in Tasks /\ attempt[t].plan \in Plans /\ attempt[t].seq \in Seqs
    BY DEF PlanInv, TypeOK, AttemptsLinked, StepTasks, Attempt
  <2> QED
    BY <2>1, <2>2, OnlyItsTask
<1> QED
  BY <1>1, PlanInvariant, PTL

\* A plan runs its steps in order, one current step between done and planned ones.
THEOREM StepsInOrder == Spec => []InOrder
<1>1. PlanInv => InOrder
  <2> SUFFICES ASSUME PlanInv, NEW p \in Plans, NEW i \in Planned(p)
               PROVE  \E j \in Seqs : /\ j < i
                                      /\ Current(p, j)
                                      /\ \A k \in Seqs : k < j => Done(p, k)
                                      /\ \A k \in Seqs : j < k /\ k < i => k \in Planned(p)
    BY DEF InOrder
  <2>1. i \in Seqs /\ step[p][i].status = "planned"
    BY DEF Planned
  <2>2. PICK j \in Seqs : Front(p, j)
    BY <2>1 DEF PlanInv, Ordered
  <2>3. j < i
    BY <2>1, <2>2 DEF Front, Current, Done, Seqs
  <2>4. \A k \in Seqs : j < k /\ k < i => k \in Planned(p)
    BY <2>1, <2>2 DEF PlanInv, Ordered, Front, Planned
  <2> QED
    BY <2>2, <2>3, <2>4 DEF Front
<1> QED
  BY <1>1, PlanInvariant, PTL

\* A plan that is over is quiet, and at most one is not over.
THEOREM EndedQuiet == Spec => []EndedPlansQuiet
<1>1. PlanInv => EndedPlansQuiet
  BY DEF PlanInv
<1> QED
  BY <1>1, PlanInvariant, PTL

\* A hook that is still to run finds its step waiting for its task.
THEOREM HooksAreCurrent == Spec => []HooksCurrent
<1>1. PlanInv => HooksCurrent
  BY DEF PlanInv
<1> QED
  BY <1>1, PlanInvariant, PTL
=============================================================================
