-------------------------- MODULE RuntimeRecovery --------------------------
(***************************************************************************)
(* What the daemon does when the server has deleted one of its runtimes    *)
(* (server/internal/daemon/daemon.go): handleRuntimeGone, which a poller,  *)
(* a heartbeat and the WebSocket each call for the runtime they miss, the  *)
(* registration slot that makes one registration of a wave of such calls,  *)
(* and the workspace sync loop, which registers a workspace that has no    *)
(* runtime left.                                                           *)
(*                                                                         *)
(* One workspace.  A runtime is <<provider, n>>: the nth row the server    *)
(* has made for the provider.                                              *)
(***************************************************************************)
EXTENDS Naturals

CONSTANTS Providers,        \* the agents configured on this machine
          SyncLoop,         \* the workspace sync loop, as a caller
          MaxDeletions,     \* bound: rows deleted
          MaxMishaps        \* bound: registrations lost, providers skipped

ASSUME RecoveryAssumption ==
    /\ MaxDeletions \in Nat /\ MaxMishaps \in Nat
    /\ SyncLoop \notin Providers \X (1..MaxDeletions + 1)

VARIABLES
    serverRow,  \* the server: the number of each provider's row, 0 for none
    made,       \* the server: rows it has made for each provider
    tracked,    \* workspaceState.runtimeIDs
    call,       \* handleRuntimeGone for each runtime, and the sync loop
    slot,       \* the registration slot: free, held, or in backoff
    forgone,    \* history: providers whose recovery was given up
    deletions, mishaps

recoveryVars ==
    <<serverRow, made, tracked, call, slot, forgone, deletions, mishaps>>

Ids == Providers \X (1..MaxDeletions + 1)

Callers == Ids \cup {SyncLoop}

\* "covered": a registration has succeeded since the call began, which is what
\* entryAt and reregisterLastCompletedAt tell.
Call == [pc : {"idle", "entered", "removed", "asking", "answered", "recovering"},
         asked : SUBSET Providers, answer : SUBSET Ids, covered : BOOLEAN]

Idle == [pc |-> "idle", asked |-> {}, answer |-> {}, covered |-> FALSE]

RowOf(p) == <<p, serverRow[p]>>

Dead(id) == id[2] <= made[id[1]] /\ id # RowOf(id[1])

RecoveryTypeOK ==
    /\ serverRow \in [Providers -> 0..MaxDeletions + 1]
    /\ made \in [Providers -> 1..MaxDeletions + 1]
    /\ tracked \subseteq Ids /\ call \in [Callers -> Call]
    /\ slot \in {"free", "held", "backoff"} /\ forgone \subseteq Providers
    /\ deletions \in 0..MaxDeletions /\ mishaps \in 0..MaxMishaps

RecoveryInit ==
    /\ serverRow = [p \in Providers |-> 1] /\ made = serverRow
    /\ tracked = Providers \X {1}
    /\ call = [c \in Callers |-> Idle] /\ slot = "free"
    /\ forgone = {} /\ deletions = 0 /\ mishaps = 0

Mishap == mishaps < MaxMishaps /\ mishaps' = mishaps + 1

onServer == <<serverRow, made, deletions>>

DeleteRow(p) ==
    /\ serverRow[p] # 0 /\ deletions < MaxDeletions
    /\ serverRow' = [serverRow EXCEPT ![p] = 0]
    /\ deletions' = deletions + 1
    /\ UNCHANGED <<made, tracked, call, slot, forgone, mishaps>>

-----------------------------------------------------------------------------
\* handleRuntimeGone.

At(c, pc) == call[c].pc = pc

\* Its runtime is missed, and no call for it is in flight.
RuntimeGone(id) ==
    /\ Dead(id) /\ At(id, "idle")
    /\ call' = [call EXCEPT ![id].pc = "entered"]
    /\ UNCHANGED <<onServer, tracked, slot, forgone, mishaps>>

RemoveStaleRuntime(id) ==
    /\ At(id, "entered")
    /\ tracked' = tracked \ {id}
    /\ call' = [call EXCEPT ![id] = IF id \in tracked THEN [@ EXCEPT !.pc = "removed"]
                                    ELSE Idle]
    /\ UNCHANGED <<onServer, slot, forgone, mishaps>>

\* The provider's row is tracked, or a registration that will bring it is out.
UnderWay(p, calls, ids) ==
    \/ serverRow[p] # 0 /\ RowOf(p) \in ids
    \/ \E c \in Callers :
        \/ calls[c].pc = "asking" /\ p \in calls[c].asked
        \/ calls[c].pc = "answered" /\ serverRow[p] # 0 /\ RowOf(p) \in calls[c].answer

\* A registration failed a moment ago, one has succeeded since the call began, or
\* one that the server has answered is still out.
Excused(id) ==
    \/ slot = "backoff" \/ call[id].covered
    \/ \E other \in Ids : call[other].pc \in {"answered", "recovering"}

\* registerRuntimesForWorkspace: a provider whose version cannot be told is
\* skipped.
Register(c) ==
    \E asked \in SUBSET Providers \ {{}} :
        /\ IF asked = Providers THEN UNCHANGED mishaps ELSE Mishap
        /\ call' = [call EXCEPT ![c] = [@ EXCEPT !.pc = "asking", !.asked = asked]]

\* The slot is held or in backoff, or a registration has succeeded since this
\* call began: the call leaves the registration to that one.
TryClaimRegisterSlot(id) ==
    /\ At(id, "removed")
    /\ IF slot # "free" \/ call[id].covered
       THEN /\ call' = [call EXCEPT ![id] = Idle]
            /\ forgone' = IF Excused(id) /\ ~ UnderWay(id[1], call', tracked)
                          THEN forgone \cup {id[1]} ELSE forgone
            /\ UNCHANGED <<slot, mishaps>>
       ELSE Register(id) /\ slot' = "held" /\ UNCHANGED forgone
    /\ UNCHANGED <<onServer, tracked>>

\* Thirty seconds after the slot was taken, or sixty after a registration failed.
SlotExpires ==
    /\ slot # "free" /\ slot' = "free"
    /\ UNCHANGED <<onServer, tracked, call, forgone, mishaps>>

\* workspaceNeedsRuntimeRecovery, and the registration it calls for.
SyncRegisters ==
    /\ At(SyncLoop, "idle") /\ tracked = {}
    /\ Register(SyncLoop)
    /\ UNCHANGED <<onServer, tracked, slot, forgone>>

\* UpsertAgentRuntime: the row there is, or a new one.
ServeRegister(c) ==
    /\ At(c, "asking")
    /\ LET fresh == {p \in call[c].asked : serverRow[p] = 0}
       IN  /\ made' = [p \in Providers |-> IF p \in fresh THEN made[p] + 1 ELSE made[p]]
           /\ serverRow' = [p \in Providers |-> IF p \in fresh THEN made'[p]
                                                ELSE serverRow[p]]
    /\ call' = [call EXCEPT ![c] =
            [@ EXCEPT !.pc = "answered",
                      !.answer = {<<p, serverRow'[p]>> : p \in call[c].asked}]]
    /\ UNCHANGED <<tracked, slot, forgone, deletions, mishaps>>

\* The response replaces the runtimes, and the orphans of each are recovered.
ReplaceRuntimes(c) ==
    /\ At(c, "answered")
    /\ tracked' = call[c].answer
    /\ forgone' = {p \in forgone \cup (Providers \ call[c].asked) :
                                    RowOf(p) \notin call[c].answer}
    /\ call' = [call EXCEPT ![c] = [@ EXCEPT !.pc = "recovering"]]
    /\ UNCHANGED <<onServer, slot, mishaps>>

Done(calls, c) == [calls EXCEPT ![c] = Idle]

\* Variant of RecordSuccess: the slot is kept until it expires.
RecordSuccessKeepingSlot(c) ==
    /\ At(c, "recovering")
    /\ IF c = SyncLoop
       THEN call' = Done(call, c)
       ELSE call' = Done([d \in Callers |->
                IF call[d].pc \in {"entered", "removed"}
                THEN [call[d] EXCEPT !.covered = TRUE] ELSE call[d]], c)
    /\ UNCHANGED <<onServer, tracked, slot, forgone, mishaps>>

\* recordRegisterCompletion without an error.
RecordSuccess(c) ==
    /\ At(c, "recovering")
    /\ IF c = SyncLoop
       THEN call' = Done(call, c) /\ UNCHANGED slot
       ELSE /\ slot' = "free"
            /\ call' = Done([d \in Callers |->
                  IF call[d].pc \in {"entered", "removed"}
                  THEN [call[d] EXCEPT !.covered = TRUE] ELSE call[d]], c)
    /\ UNCHANGED <<onServer, tracked, forgone, mishaps>>

\* The registration is lost, before the server has served it or after: nobody
\* repeats it for a workspace that has a runtime left.
RegisterFails(c) ==
    /\ At(c, "asking") \/ At(c, "answered")
    /\ Mishap
    /\ call' = Done(call, c)
    /\ slot' = IF c = SyncLoop THEN slot ELSE "backoff"
    /\ forgone' = IF tracked = {} THEN forgone
                  ELSE forgone \cup {p \in Providers : /\ ~ UnderWay(p, call', tracked)
                                                       /\ \A id \in tracked : id[1] # p}
    /\ UNCHANGED <<onServer, tracked>>

RecoveryNext ==
    \/ \E p \in Providers : DeleteRow(p)
    \/ \E id \in Ids : RuntimeGone(id) \/ RemoveStaleRuntime(id) \/ TryClaimRegisterSlot(id)
    \/ \E c \in Callers : ServeRegister(c) \/ ReplaceRuntimes(c) \/ RecordSuccess(c)
                          \/ RegisterFails(c)
    \/ SlotExpires \/ SyncRegisters

RecoverySpec == RecoveryInit /\ [][RecoveryNext]_recoveryVars

-----------------------------------------------------------------------------
\* Nothing is out, and every runtime the daemon still tracks is on the server.
AtRest ==
    /\ \A c \in Callers : At(c, "idle")
    /\ slot = "free" /\ tracked # {}
    /\ \A id \in tracked : ~ Dead(id)

\* The waves settle: whenever nothing is out any more, the machine offers every
\* provider again, whichever of the callers' registrations were folded into one
\* another, overtook one another or outlived their slot.  Except a provider that
\* was skipped, whose registration failed while others were left, or whose call
\* came in the wake of such a failure or of a registration that the server had
\* answered before the deletion.
RuntimesRestored ==
    AtRest => \A p \in Providers \ forgone : RowOf(p) \in tracked

-----------------------------------------------------------------------------
\* The inductive invariant behind RuntimesRestored.

\* Each row beyond a provider's first was made for one that was deleted, so the
\* bound on deletions bounds the rows.
RowsMade ==
    \A p \in Providers :
        /\ serverRow[p] <= made[p] /\ made[p] <= deletions + 1
        /\ serverRow[p] = 0 => made[p] <= deletions

\* An answer has a row for each provider asked for, and no other.
AnswersWhole ==
    \A c \in Callers : At(c, "answered") =>
        /\ \A id \in call[c].answer : id[1] \in call[c].asked /\ id[2] <= made[id[1]]
        /\ \A p \in call[c].asked : \E id \in call[c].answer : id[1] = p

\* The slot is held on behalf of a registration that is still out.
SlotHeld ==
    slot = "held" =>
        \E id \in Ids : call[id].pc \in {"asking", "answered", "recovering"}

\* A provider that is not given up has a runtime tracked, dead or alive, or a call
\* is about to register it; a registration that is out decides about every
\* provider when it ends, and with nothing tracked the sync loop takes over.
Provided(p) ==
    \/ tracked = {} \/ \E id \in tracked : id[1] = p
    \/ \E id \in Ids : id[1] = p /\ At(id, "removed")
    \/ \E c \in Callers : At(c, "asking") \/ At(c, "answered")

RecoveryInv ==
    /\ RecoveryTypeOK
    /\ RowsMade
    /\ \A id \in tracked : id[2] <= made[id[1]]
    /\ AnswersWhole
    /\ SlotHeld
    /\ \A p \in Providers \ forgone : Provided(p)
=============================================================================
