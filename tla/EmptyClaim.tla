---------------------------- MODULE EmptyClaim ----------------------------
(***************************************************************************)
(* The empty-claim cache: per runtime, a "no queued task" verdict tagged   *)
(* with the invalidation version it was observed under, so that an idle    *)
(* runtime's polls do not reach Postgres.                                  *)
(* Source: server/internal/service/empty_claim_cache.go, and its callers   *)
(* ClaimTaskForRuntime and notifyTaskAvailable in service/task.go.         *)
(*                                                                         *)
(* Each Redis command and each SQL statement is a step of its own: claims, *)
(* enqueues and expiries interleave between any two of them.  A listed     *)
(* task is taken at once; which agent may take it, and when, is the        *)
(* subject of module TaskQueue.                                            *)
(***************************************************************************)
EXTENDS Naturals

CONSTANTS Runtimes,
          Tasks,
          Slots,        \* claim requests a runtime can have in flight at once
          None,         \* no value
          MaxFaults,    \* bound: Redis commands that fail
          MaxMerges     \* bound: legacy runtimes merged into another

ASSUME NoneAssumption == None \notin Nat
ASSUME BoundsAssumption == MaxFaults \in Nat /\ MaxMerges \in Nat

VARIABLES
  stage,     \* how far each task has got
  home,      \* the runtime each task was inserted for
  at,        \* the runtime its row is on
  removed,   \* runtimes whose row was deleted
  version,   \* mul:claim:runtime:version:<id>; a missing key reads as 0
  verdict,   \* mul:claim:runtime:empty:<id>, None when missing
  claim,     \* the claim requests in flight
  faults, merges

vars == <<stage, home, at, removed, version, verdict, claim, faults, merges>>
rows == <<stage, home, at, removed>>
redis == <<version, verdict>>
bounds == <<faults, merges>>

\* A task is inserted, then announced (or its announcement is lost), then gone:
\* claimed, cancelled or expired.
Stage == {"none", "inserted", "announced", "lost", "gone"}
\* A claim request is past IsEmpty ("missed"), past CurrentVersion ("sampled"), or
\* past a SELECT that found nothing ("empty").
Claim == [pc : {"idle", "missed", "sampled", "empty"}, sample : Nat]

\* Rows in status queued on runtime r.
QueuedOn(r) == {t \in Tasks : stage[t] \in {"inserted", "announced", "lost"} /\ at[t] = r}

Init == /\ stage = [t \in Tasks |-> "none"]
        /\ home \in [Tasks -> Runtimes]
        /\ at = home
        /\ removed = {}
        /\ version = [r \in Runtimes |-> 0]
        /\ verdict = [r \in Runtimes |-> None]
        /\ claim = [r \in Runtimes |-> [s \in Slots |-> [pc |-> "idle", sample |-> 0]]]
        /\ faults = 0
        /\ merges = 0
-----------------------------------------------------------------------------
\* An enqueue inserts its row, and then notifyTaskAvailable bumps the version of
\* the runtime it inserted for.
Insert(t) ==
  /\ stage[t] = "none"
  /\ home[t] \notin removed
  /\ stage' = [stage EXCEPT ![t] = "inserted"]
  /\ UNCHANGED <<home, at, removed, redis, claim, bounds>>

\* Variant of Bump: the counter is not changed.
BumpNothing(t) ==
  /\ stage[t] = "inserted"
  /\ stage' = [stage EXCEPT ![t] = "announced"]
  /\ UNCHANGED <<home, at, removed, redis, claim, bounds>>

Bump(t) ==
  /\ stage[t] = "inserted"
  /\ stage' = [stage EXCEPT ![t] = "announced"]
  /\ version' = [version EXCEPT ![home[t]] = @ + 1]
  /\ UNCHANGED <<home, at, removed, verdict, claim, bounds>>

\* The error of a failed Bump is logged and swallowed; a server that ends between
\* the INSERT and the Bump leaves the same state.
BumpFails(t) ==
  /\ faults < MaxFaults
  /\ stage[t] = "inserted"
  /\ stage' = [stage EXCEPT ![t] = "lost"]
  /\ faults' = faults + 1
  /\ UNCHANGED <<home, at, removed, redis, claim, merges>>

\* A queued row is cancelled or expires.
Withdraw(t) ==
  /\ stage[t] \in {"announced", "lost"}
  /\ stage' = [stage EXCEPT ![t] = "gone"]
  /\ UNCHANGED <<home, at, removed, redis, claim, bounds>>

\* mergeLegacyRuntimes moves the rows of a legacy runtime to the one that just
\* registered and deletes the legacy runtime; no version is bumped.
MergeRuntime(old, new) ==
  /\ merges < MaxMerges
  /\ old # new
  /\ {old, new} \cap removed = {}
  /\ at' = [t \in Tasks |-> IF t \in QueuedOn(old) THEN new ELSE at[t]]
  /\ removed' = removed \cup {old}
  /\ merges' = merges + 1
  /\ UNCHANGED <<stage, home, redis, claim, faults>>
-----------------------------------------------------------------------------
\* The verdict counts only under the version it was observed at.
ValidVerdict(r) == verdict[r] # None /\ verdict[r] = version[r]

\* IsEmpty answers no: the claim goes on to Postgres.  (When it answers yes the
\* claim ends with no task and nothing changes.)
IsEmptyMisses(r, s) ==
  /\ r \notin removed
  /\ claim[r][s].pc = "idle"
  /\ ~ValidVerdict(r)
  /\ claim' = [claim EXCEPT ![r][s].pc = "missed"]
  /\ UNCHANGED <<rows, redis, bounds>>

\* A failed MGET counts as a miss.
IsEmptyFails(r, s) ==
  /\ faults < MaxFaults
  /\ r \notin removed
  /\ claim[r][s].pc = "idle"
  /\ claim' = [claim EXCEPT ![r][s].pc = "missed"]
  /\ faults' = faults + 1
  /\ UNCHANGED <<rows, redis, merges>>

CurrentVersion(r, s) ==
  /\ claim[r][s].pc = "missed"
  /\ claim' = [claim EXCEPT ![r][s] = [pc |-> "sampled", sample |-> version[r]]]
  /\ UNCHANGED <<rows, redis, bounds>>

\* Variant of CurrentVersionFails: an error is not turned into a number.
CurrentVersionFailsNil(r, s) ==
  /\ faults < MaxFaults
  /\ claim[r][s].pc = "missed"
  /\ claim' = [claim EXCEPT ![r][s] = [pc |-> "sampled", sample |-> None]]
  /\ faults' = faults + 1
  /\ UNCHANGED <<rows, redis, merges>>

\* A Redis error reads as version 0.
CurrentVersionFails(r, s) ==
  /\ faults < MaxFaults
  /\ claim[r][s].pc = "missed"
  /\ claim' = [claim EXCEPT ![r][s] = [pc |-> "sampled", sample |-> 0]]
  /\ faults' = faults + 1
  /\ UNCHANGED <<rows, redis, merges>>

\* ListQueuedClaimCandidatesByRuntime: a task it finds is claimed.
List(r, s) ==
  /\ claim[r][s].pc = "sampled"
  /\ IF QueuedOn(r) = {}
       THEN /\ claim' = [claim EXCEPT ![r][s].pc = "empty"]
            /\ UNCHANGED stage
       ELSE /\ claim' = [claim EXCEPT ![r][s].pc = "idle"]
            /\ \E t \in QueuedOn(r) : stage' = [stage EXCEPT ![t] = "gone"]
  /\ UNCHANGED <<home, at, removed, redis, bounds>>

\* Variant of MarkEmpty: the verdict carries the version at the time it is written.
MarkEmptyCurrent(r, s) ==
  /\ claim[r][s].pc = "empty"
  /\ verdict' = [verdict EXCEPT ![r] = version[r]]
  /\ claim' = [claim EXCEPT ![r][s].pc = "idle"]
  /\ UNCHANGED <<rows, version, bounds>>

MarkEmpty(r, s) ==
  /\ claim[r][s].pc = "empty"
  /\ verdict' = [verdict EXCEPT ![r] = claim[r][s].sample]
  /\ claim' = [claim EXCEPT ![r][s].pc = "idle"]
  /\ UNCHANGED <<rows, version, bounds>>

\* A claim that does not finish, or whose SET fails.
AbandonClaim(r, s) ==
  /\ faults < MaxFaults
  /\ claim[r][s].pc # "idle"
  /\ claim' = [claim EXCEPT ![r][s].pc = "idle"]
  /\ faults' = faults + 1
  /\ UNCHANGED <<rows, redis, merges>>
-----------------------------------------------------------------------------
\* Variant of ExpireVerdict: the verdict has no time to live.
ExpireVerdictNever(r) == FALSE /\ verdict[r] # None /\ UNCHANGED vars

\* EmptyClaimCacheTTL, 3 minutes.
ExpireVerdict(r) ==
  /\ verdict[r] # None
  /\ verdict' = [verdict EXCEPT ![r] = None]
  /\ UNCHANGED <<rows, version, claim, bounds>>

\* emptyClaimVersionTTL, 24 hours after the last Bump or CurrentVersion: by then
\* every verdict has expired and every claim that sampled the version is over.
ExpireVersion(r) ==
  /\ version[r] # 0
  /\ verdict[r] = None
  /\ \A s \in Slots : claim[r][s].pc \in {"idle", "missed"}
  /\ version' = [version EXCEPT ![r] = 0]
  /\ UNCHANGED <<rows, verdict, claim, bounds>>
-----------------------------------------------------------------------------
ClaimStep(r, s) == \/ IsEmptyMisses(r, s)
                   \/ CurrentVersion(r, s)
                   \/ List(r, s)
                   \/ MarkEmpty(r, s)

Next == \/ \E t \in Tasks : Insert(t) \/ Bump(t) \/ BumpFails(t) \/ Withdraw(t)
        \/ \E old, new \in Runtimes : MergeRuntime(old, new)
        \/ \E r \in Runtimes, s \in Slots :
             \/ ClaimStep(r, s)
             \/ IsEmptyFails(r, s) \/ CurrentVersionFails(r, s) \/ AbandonClaim(r, s)
        \/ \E r \in Runtimes : ExpireVerdict(r) \/ ExpireVersion(r)

Spec == Init /\ [][Next]_vars

(***************************************************************************)
(* Fairness: a runtime's poller keeps asking, an enqueue goes on to its    *)
(* bump, and Redis drops a verdict when its time is up.                    *)
(***************************************************************************)
Fairness == /\ \A t \in Tasks : WF_vars(Bump(t))
            /\ \A r \in Runtimes, s \in Slots : WF_vars(ClaimStep(r, s))
            /\ \A r \in Runtimes : WF_vars(ExpireVerdict(r))

FairSpec == Spec /\ Fairness
-----------------------------------------------------------------------------
\* Stages, runtimes, versions, verdicts and claims have their types.
TypeOK ==
  /\ stage \in [Tasks -> Stage]
  /\ home \in [Tasks -> Runtimes]
  /\ at \in [Tasks -> Runtimes]
  /\ removed \subseteq Runtimes
  /\ version \in [Runtimes -> Nat]
  /\ verdict \in [Runtimes -> Nat \cup {None}]
  /\ claim \in [Runtimes -> [Slots -> Claim]]
  /\ faults \in Nat /\ merges \in Nat

\* Announced tasks that are still on the runtime they were announced on.
AnnouncedOn(r) == {t \in QueuedOn(r) : stage[t] = "announced" /\ home[t] = r}

\* A verdict that polls believe never hides a task whose enqueue announced it on
\* that runtime, however slow the claim that wrote the verdict was.
NeverHidden == \A r \in Runtimes : ValidVerdict(r) => AnnouncedOn(r) = {}

\* The same of every announced task, on whatever runtime its row now is.
NeverStalled ==
  \A r \in Runtimes : ValidVerdict(r) => \A t \in QueuedOn(r) : stage[t] # "announced"

\* Every inserted task is claimed or withdrawn in the end, also when its bump was
\* lost or its row was moved: the verdict that hides it expires.
EventuallyTaken == \A t \in Tasks : stage[t] = "inserted" ~> stage[t] = "gone"

(***************************************************************************)
(* The inductive invariant behind NeverHidden.                             *)
(***************************************************************************)
\* A tag never runs ahead of the version, so a Bump makes every tag stale.
TagsBehind == \A r \in Runtimes : verdict[r] # None => verdict[r] <= version[r]

\* Nor does a sample; and a claim about to write a tag that still counts is right.
SamplesSound ==
  \A r \in Runtimes, s \in Slots :
    /\ claim[r][s].pc \in {"sampled", "empty"} => claim[r][s].sample <= version[r]
    /\ claim[r][s].pc = "empty" /\ claim[r][s].sample = version[r] => AnnouncedOn(r) = {}

\* A row leaves the runtime it was inserted for only when that runtime is deleted,
\* so it never comes back to it.
MovedForGood == \A t \in Tasks : at[t] # home[t] => home[t] \in removed

CacheInv == TypeOK /\ NeverHidden /\ TagsBehind /\ SamplesSound /\ MovedForGood
=============================================================================
