--------------------------- MODULE ClaimPathProofs ---------------------------
(***************************************************************************)
(* Theorems about EmptyClaim, DaemonClient and RuntimeRecovery for any     *)
(* runtimes, tasks, claims in flight, number of slots, deletions and       *)
(* amount of trouble: no verdict that counts hides a task, the barrier of  *)
(* an automatic update holds, no task is dropped in silence, and no        *)
(* deleted runtime is forgotten; and so of the whole path from the server  *)
(* to the agent.                                                           *)
(***************************************************************************)
EXTENDS ClaimPath, FiniteSetTheorems, TLAPS


-----------------------------------------------------------------------------
(***************************************************************************)
(* Whatever a step does, the invariant survives it if on every runtime the *)
(* version does not go back, no task becomes announced without it growing, *)
(* and each verdict and sample is old, stale or sound.                     *)
(***************************************************************************)
\* On runtime r the version and the announced tasks are as the invariant wants:
\* the version stays and nothing new is announced, or it grows.
VersionGrows(r) ==
  \/ version'[r] = version[r] /\ AnnouncedOn(r)' \subseteq AnnouncedOn(r)
  \/ version'[r] > version[r]

LEMMA GrowingVersionsPreserve ==
  ASSUME CacheInv, TypeOK', NEW r \in Runtimes, VersionGrows(r), NEW v \in Nat,
         v <= version[r], v = version[r] => AnnouncedOn(r) = {}
  PROVE  v <= version'[r] /\ (v = version'[r] => AnnouncedOn(r)' = {})
<1>1. version[r] \in Nat /\ version'[r] \in Nat
  BY DEF CacheInv, TypeOK
<1> QED
  BY <1>1 DEF VersionGrows

\* A step of the table and of the versions: verdicts and claims stay.
LEMMA RowStep ==
  ASSUME CacheInv, TypeOK', MovedForGood', UNCHANGED <<verdict, claim>>,
         \A r \in Runtimes : VersionGrows(r)
  PROVE  CacheInv'
<1>1. ASSUME NEW r \in Runtimes, verdict[r] # None
      PROVE  verdict[r] <= version'[r] /\ (verdict[r] = version'[r] => AnnouncedOn(r)' = {})
  <2>1. verdict[r] \in Nat
    BY <1>1 DEF CacheInv, TypeOK
  <2>2. verdict[r] <= version[r] /\ (verdict[r] = version[r] => AnnouncedOn(r) = {})
    BY <1>1 DEF CacheInv, TagsBehind, NeverHidden, ValidVerdict
  <2> QED
    BY <2>1, <2>2, GrowingVersionsPreserve
<1>2. NeverHidden' /\ TagsBehind'
  BY <1>1 DEF NeverHidden, TagsBehind, ValidVerdict
<1>3. ASSUME NEW r \in Runtimes, NEW s \in Slots
      PROVE  /\ claim[r][s].pc \in {"sampled", "empty"} => claim[r][s].sample <= version'[r]
             /\ claim[r][s].pc = "empty" /\ claim[r][s].sample = version'[r]
                  => AnnouncedOn(r)' = {}
  <2>1. claim[r][s] \in Claim
    BY DEF CacheInv, TypeOK
  <2>2. version[r] \in Nat /\ version'[r] \in Nat /\ claim[r][s].sample \in Nat
    BY <2>1 DEF CacheInv, TypeOK, Claim
  <2>3. claim[r][s].pc \in {"sampled", "empty"} => claim[r][s].sample <= version'[r]
    BY <2>2 DEF CacheInv, SamplesSound, VersionGrows
  <2>4. CASE claim[r][s].pc = "empty"
    <3>1. /\ claim[r][s].sample <= version[r]
          /\ claim[r][s].sample = version[r] => AnnouncedOn(r) = {}
      BY <2>4 DEF CacheInv, SamplesSound
    <3> QED
      BY <2>2, <2>3, <3>1, GrowingVersionsPreserve
  <2> QED
    BY <2>3, <2>4
<1>4. SamplesSound'
  BY <1>3 DEF SamplesSound
<1> QED
  BY <1>2, <1>4 DEF CacheInv

\* A step of one claim: no version changes and no task becomes announced.
LEMMA ClaimOnlyStep ==
  ASSUME CacheInv, NEW r \in Runtimes, NEW s \in Slots, NEW c \in Claim,
         claim' = [claim EXCEPT ![r][s] = c],
         c.pc \in {"sampled", "empty"} => c.sample <= version[r],
         c.pc = "empty" /\ c.sample = version[r] => AnnouncedOn(r)' = {},
         TypeOK', UNCHANGED <<version, verdict, home, at, removed>>,
         \A q \in Runtimes : AnnouncedOn(q)' \subseteq AnnouncedOn(q)
  PROVE  CacheInv'
<1>1. NeverHidden' /\ TagsBehind'
  BY DEF CacheInv, NeverHidden, TagsBehind, ValidVerdict
<1>2. claim \in [Runtimes -> [Slots -> Claim]]
  BY DEF CacheInv, TypeOK
<1>3. ASSUME NEW q \in Runtimes, NEW p \in Slots
      PROVE  /\ claim'[q][p].pc \in {"sampled", "empty"} => claim'[q][p].sample <= version[q]
             /\ claim'[q][p].pc = "empty" /\ claim'[q][p].sample = version[q]
                  => AnnouncedOn(q)' = {}
  <2>1. CASE <<q, p>> = <<r, s>>
    <3>1. claim'[q][p] = c /\ q = r
      BY <1>2, <2>1
    <3> QED
      BY <3>1
  <2>2. CASE <<q, p>> # <<r, s>>
    <3>1. claim'[q][p] = claim[q][p]
      BY <1>2, <2>2
    <3>2. /\ claim[q][p].pc \in {"sampled", "empty"} => claim[q][p].sample <= version[q]
          /\ claim[q][p].pc = "empty" /\ claim[q][p].sample = version[q]
               => AnnouncedOn(q) = {}
      BY DEF CacheInv, SamplesSound
    <3> QED
      BY <3>1, <3>2
  <2> QED
    BY <2>1, <2>2
<1>4. SamplesSound'
  BY <1>3 DEF SamplesSound
<1>5. MovedForGood'
  BY DEF CacheInv, MovedForGood
<1> QED
  BY <1>1, <1>4, <1>5 DEF CacheInv

\* Rows leave the queue, move, or stay; a row that is not announced stays that way.
Dwindles(r) == AnnouncedOn(r)' \subseteq AnnouncedOn(r)

\* So it is where rows stay put and none becomes announced,
LEMMA StageStays ==
  ASSUME NEW r \in Runtimes, UNCHANGED <<home, at>>,
         \A t \in Tasks : stage'[t] = "announced" => stage[t] = "announced"
  PROVE  Dwindles(r)
BY DEF Dwindles, AnnouncedOn, QueuedOn

\* and where the rows do not change at all.
LEMMA RowsStay ==
  ASSUME NEW r \in Runtimes, UNCHANGED rows
  PROVE  AnnouncedOn(r)' = AnnouncedOn(r)
BY DEF AnnouncedOn, QueuedOn, rows

-----------------------------------------------------------------------------
\* The initial state satisfies the invariant.
LEMMA InitCacheInv == Init => CacheInv
<1> SUFFICES ASSUME Init PROVE CacheInv
  OBVIOUS
<1>1. TypeOK
  BY DEF Init, TypeOK, Stage, Claim
<1>2. \A t \in Tasks : stage[t] = "none" /\ at[t] = home[t]
  BY DEF Init
<1>3. \A r \in Runtimes, s \in Slots : claim[r][s].pc = "idle"
  BY DEF Init
<1>4. \A r \in Runtimes : verdict[r] = None
  BY DEF Init
<1>5. TagsBehind /\ SamplesSound /\ NeverHidden
  BY <1>3, <1>4 DEF NeverHidden, TagsBehind, SamplesSound, ValidVerdict
<1> QED
  BY <1>1, <1>2, <1>5 DEF CacheInv, MovedForGood

\* Steps of the table: only Bump makes a task announced, and it raises the version
\* of the runtime the task is announced on.
LEMMA TableSteps ==
  ASSUME CacheInv, NEW t \in Tasks, Insert(t) \/ Bump(t) \/ BumpFails(t) \/ Withdraw(t)
  PROVE  CacheInv'
<1>1. /\ stage \in [Tasks -> Stage] /\ home \in [Tasks -> Runtimes]
      /\ version \in [Runtimes -> Nat]
  BY DEF CacheInv, TypeOK
<1>2. CASE Bump(t)
  <2>1. TypeOK'
    <3>1. stage' \in [Tasks -> Stage]
      BY <1>1, <1>2 DEF Bump, Stage
    <3>2. version' \in [Runtimes -> Nat]
      <4>1. version[home[t]] + 1 \in Nat
        BY <1>1
      <4> QED
        BY <1>1, <1>2, <4>1 DEF Bump
    <3> QED
      BY <1>2, <3>1, <3>2 DEF CacheInv, TypeOK, Bump, bounds
  <2>2. ASSUME NEW r \in Runtimes PROVE VersionGrows(r)
    <3>1. CASE r = home[t]
      <4>1. version'[r] = version[r] + 1 /\ version[r] \in Nat
        BY <1>1, <1>2, <3>1 DEF Bump
      <4> QED
        BY <4>1 DEF VersionGrows
    <3>2. CASE r # home[t]
      <4>1. version'[r] = version[r]
        BY <1>1, <1>2, <3>2 DEF Bump
      <4>2. \A u \in Tasks : u # t => stage'[u] = stage[u]
        BY <1>1, <1>2 DEF Bump
      <4>3. UNCHANGED <<home, at>>
        BY <1>2 DEF Bump
      <4>4. AnnouncedOn(r)' \subseteq AnnouncedOn(r)
        BY <3>2, <4>2, <4>3 DEF AnnouncedOn, QueuedOn
      <4> QED
        BY <4>1, <4>4 DEF VersionGrows
    <3> QED
      BY <3>1, <3>2
  <2> QED
    BY <1>2, <2>1, <2>2, RowStep DEF Bump, CacheInv, MovedForGood
<1>3. CASE Insert(t) \/ BumpFails(t) \/ Withdraw(t)
  <2>1. TypeOK'
    <3>1. stage' \in [Tasks -> Stage]
      BY <1>1, <1>3 DEF Insert, BumpFails, Withdraw, Stage
    <3>2. faults' \in Nat /\ merges' = merges
      BY <1>3 DEF CacheInv, TypeOK, Insert, BumpFails, Withdraw, bounds
    <3> QED
      BY <1>3, <3>1, <3>2
      DEF CacheInv, TypeOK, Insert, BumpFails, Withdraw, redis, bounds
  <2>2. UNCHANGED <<home, at, version, verdict, claim>>
    BY <1>3 DEF Insert, BumpFails, Withdraw, redis
  <2>3. \A u \in Tasks : stage'[u] = "announced" => stage[u] = "announced"
    BY <1>1, <1>3 DEF Insert, BumpFails, Withdraw
  <2>4. \A r \in Runtimes : VersionGrows(r)
    BY <2>2, <2>3, StageStays DEF VersionGrows, Dwindles
  <2>5. MovedForGood'
    BY <1>3, <2>2 DEF CacheInv, MovedForGood, Insert, BumpFails, Withdraw
  <2> QED
    BY <2>1, <2>2, <2>4, <2>5, RowStep
<1> QED
  BY <1>2, <1>3

\* Merging moves rows to a runtime they were not announced on.
LEMMA MergeStep ==
  ASSUME CacheInv, NEW old \in Runtimes, NEW new \in Runtimes, MergeRuntime(old, new)
  PROVE  CacheInv'
<1> DEFINE place(t) == IF t \in QueuedOn(old) THEN new ELSE at[t]
<1>1. \A t \in Tasks : place(t) \in Runtimes
  BY DEF CacheInv, TypeOK
<1>2. at' = [t \in Tasks |-> place(t)]
  BY DEF MergeRuntime
<1>3. TypeOK'
  BY <1>1, <1>2 DEF CacheInv, TypeOK, MergeRuntime, redis
<1>4. UNCHANGED <<version, verdict, claim, stage, home>>
  BY DEF MergeRuntime, redis
<1>5. removed' = removed \cup {old} /\ old \notin removed /\ new \notin removed
  BY DEF MergeRuntime
<1>6. \A t \in Tasks : at'[t] = at[t] \/ (t \in QueuedOn(old) /\ at'[t] = new)
  BY <1>2
<1>7. MovedForGood'
  <2> SUFFICES ASSUME NEW t \in Tasks, at'[t] # home[t] PROVE home[t] \in removed'
    BY <1>4 DEF MovedForGood
  <2>1. CASE at[t] # home[t]
    BY <1>5, <2>1 DEF CacheInv, MovedForGood
  <2>2. CASE at[t] = home[t]
    BY <1>5, <1>6, <2>2 DEF QueuedOn
  <2> QED
    BY <2>1, <2>2
<1>8. ASSUME NEW r \in Runtimes PROVE VersionGrows(r)
  <2>1. ASSUME NEW t \in AnnouncedOn(r)' PROVE t \in AnnouncedOn(r)
    <3>1. t \in Tasks /\ at'[t] = r /\ home[t] = r /\ stage[t] = "announced"
      BY <1>4, <2>1 DEF AnnouncedOn, QueuedOn
    <3>2. at[t] = r
      <4>1. CASE t \in QueuedOn(old) /\ at'[t] = new /\ at[t] # r
        BY <1>5, <3>1, <4>1 DEF CacheInv, MovedForGood
      <4> QED
        BY <1>6, <3>1, <4>1
    <3> QED
      BY <3>1, <3>2 DEF AnnouncedOn, QueuedOn
  <2> QED
    BY <1>4, <2>1 DEF VersionGrows
<1> QED
  BY <1>3, <1>4, <1>7, <1>8, RowStep

-----------------------------------------------------------------------------
\* Steps of a claim before it writes.
LEMMA ClaimSteps ==
  ASSUME CacheInv, NEW r \in Runtimes, NEW s \in Slots,
         \/ IsEmptyMisses(r, s) \/ IsEmptyFails(r, s)
         \/ CurrentVersion(r, s) \/ CurrentVersionFails(r, s)
         \/ List(r, s) \/ AbandonClaim(r, s)
  PROVE  CacheInv'
<1>1. /\ stage \in [Tasks -> Stage] /\ version \in [Runtimes -> Nat]
      /\ claim \in [Runtimes -> [Slots -> Claim]] /\ claim[r][s] \in Claim
      /\ claim[r][s].pc \in {"idle", "missed", "sampled", "empty"}
      /\ claim[r][s].sample \in Nat /\ version[r] \in Nat /\ version[r] >= 0
  BY DEF CacheInv, TypeOK, Claim
<1>2. UNCHANGED <<version, verdict, home, at, removed>>
  BY DEF IsEmptyMisses, IsEmptyFails, CurrentVersion, CurrentVersionFails, List,
         AbandonClaim, rows, redis
<1>3. stage' \in [Tasks -> Stage] /\ \A t \in Tasks : stage'[t] = "announced" => stage[t] = "announced"
  <2>1. CASE UNCHANGED stage
    BY <1>1, <2>1
  <2>2. CASE \E t \in QueuedOn(r) : stage' = [stage EXCEPT ![t] = "gone"]
    BY <1>1, <2>2 DEF Stage, QueuedOn
  <2> QED
    BY <2>1, <2>2 DEF IsEmptyMisses, IsEmptyFails, CurrentVersion, CurrentVersionFails,
                      List, AbandonClaim, rows
<1>4. faults' \in Nat /\ merges' \in Nat
  BY DEF CacheInv, TypeOK, IsEmptyMisses, IsEmptyFails, CurrentVersion,
         CurrentVersionFails, List, AbandonClaim, bounds
<1>5. \A q \in Runtimes : AnnouncedOn(q)' \subseteq AnnouncedOn(q)
  BY <1>2, <1>3, StageStays DEF Dwindles
<1>6. \E c \in Claim :
        /\ claim' = [claim EXCEPT ![r][s] = c]
        /\ c.pc \in {"sampled", "empty"} => c.sample <= version[r]
        /\ c.pc = "empty" /\ c.sample = version[r] => AnnouncedOn(r)' = {}
  <2>1. CASE IsEmptyMisses(r, s) \/ IsEmptyFails(r, s)
    <3>1. claim' = [claim EXCEPT ![r][s] = [claim[r][s] EXCEPT !.pc = "missed"]]
      BY <2>1 DEF IsEmptyMisses, IsEmptyFails
    <3>2. [claim[r][s] EXCEPT !.pc = "missed"] \in Claim
      BY <1>1 DEF Claim
    <3> QED
      BY <1>1, <3>1, <3>2 DEF Claim
  <2>2. CASE CurrentVersion(r, s)
    <3> DEFINE c == [pc |-> "sampled", sample |-> version[r]]
    <3>1. claim' = [claim EXCEPT ![r][s] = c]
      BY <2>2 DEF CurrentVersion
    <3>2. c \in Claim /\ c.pc = "sampled" /\ c.sample <= version[r]
      BY <1>1 DEF Claim
    <3> HIDE DEF c
    <3> QED
      BY <3>1, <3>2
  <2>3. CASE CurrentVersionFails(r, s)
    <3> DEFINE c == [pc |-> "sampled", sample |-> 0]
    <3>1. claim' = [claim EXCEPT ![r][s] = c]
      BY <2>3 DEF CurrentVersionFails
    <3>2. c \in Claim /\ c.pc = "sampled" /\ c.sample <= version[r]
      BY <1>1 DEF Claim
    <3> HIDE DEF c
    <3> QED
      BY <3>1, <3>2
  <2>4. CASE List(r, s) /\ QueuedOn(r) = {}
    <3>1. claim' = [claim EXCEPT ![r][s] = [claim[r][s] EXCEPT !.pc = "empty"]]
      BY <2>4 DEF List
    <3>2. [claim[r][s] EXCEPT !.pc = "empty"] \in Claim
      BY <1>1 DEF Claim
    <3>3. claim[r][s].sample <= version[r]
      BY <2>4 DEF List, CacheInv, SamplesSound
    <3>4. AnnouncedOn(r)' = {}
      BY <1>5, <2>4 DEF AnnouncedOn
    <3> QED
      BY <1>1, <3>1, <3>2, <3>3, <3>4 DEF Claim
  <2>5. CASE (List(r, s) /\ QueuedOn(r) # {}) \/ AbandonClaim(r, s)
    <3>1. claim' = [claim EXCEPT ![r][s] = [claim[r][s] EXCEPT !.pc = "idle"]]
      BY <2>5 DEF List, AbandonClaim
    <3>2. [claim[r][s] EXCEPT !.pc = "idle"] \in Claim
      BY <1>1 DEF Claim
    <3> QED
      BY <1>1, <3>1, <3>2 DEF Claim
  <2> QED
    BY <2>1, <2>2, <2>3, <2>4, <2>5
<1>7. PICK c \in Claim :
        /\ claim' = [claim EXCEPT ![r][s] = c]
        /\ c.pc \in {"sampled", "empty"} => c.sample <= version[r]
        /\ c.pc = "empty" /\ c.sample = version[r] => AnnouncedOn(r)' = {}
  BY <1>6
<1>8. claim' \in [Runtimes -> [Slots -> Claim]]
  BY <1>1, <1>7
<1>9. TypeOK'
  BY <1>2, <1>3, <1>4, <1>8 DEF CacheInv, TypeOK
<1> QED
  BY <1>2, <1>5, <1>7, <1>9, ClaimOnlyStep

\* The write: the sample it carries is stale, or still right.
LEMMA MarkStep ==
  ASSUME CacheInv, NEW r \in Runtimes, NEW s \in Slots, MarkEmpty(r, s)
  PROVE  CacheInv'
<1>1. /\ version \in [Runtimes -> Nat] /\ verdict \in [Runtimes -> Nat \cup {None}]
      /\ claim \in [Runtimes -> [Slots -> Claim]] /\ claim[r][s] \in Claim
      /\ claim[r][s].sample \in Nat
  BY DEF CacheInv, TypeOK, Claim
<1>2. claim[r][s].pc = "empty" /\ verdict' = [verdict EXCEPT ![r] = claim[r][s].sample]
  BY DEF MarkEmpty
<1>3. UNCHANGED <<version, rows, bounds>>
  BY DEF MarkEmpty
<1>4. \A q \in Runtimes : AnnouncedOn(q)' = AnnouncedOn(q)
  BY <1>3, RowsStay
<1>5. claim[r][s].sample <= version[r]
      /\ (claim[r][s].sample = version[r] => AnnouncedOn(r) = {})
  BY <1>2 DEF CacheInv, SamplesSound
<1>6. NeverHidden' /\ TagsBehind'
  <2>1. ASSUME NEW q \in Runtimes, verdict'[q] # None
        PROVE  verdict'[q] <= version[q] /\ (verdict'[q] = version[q] => AnnouncedOn(q) = {})
    <3>1. CASE q = r
      BY <1>1, <1>2, <1>5, <3>1
    <3>2. CASE q # r
      BY <1>1, <1>2, <2>1, <3>2 DEF CacheInv, NeverHidden, TagsBehind, ValidVerdict
    <3> QED
      BY <3>1, <3>2
  <2> QED
    BY <1>3, <1>4, <2>1 DEF NeverHidden, TagsBehind, ValidVerdict
<1>7. claim' = [claim EXCEPT ![r][s] = [claim[r][s] EXCEPT !.pc = "idle"]]
  BY DEF MarkEmpty
<1>8. [claim[r][s] EXCEPT !.pc = "idle"] \in Claim
  BY <1>1 DEF Claim
<1>9. \A q \in Runtimes, p \in Slots : claim'[q][p] = claim[q][p] \/ claim'[q][p].pc = "idle"
  BY <1>1, <1>7 DEF Claim
<1>10. SamplesSound'
  BY <1>3, <1>4, <1>9 DEF CacheInv, SamplesSound
<1>11. claim' \in [Runtimes -> [Slots -> Claim]] /\ verdict' \in [Runtimes -> Nat \cup {None}]
  BY <1>1, <1>2, <1>7, <1>8
<1>12. TypeOK' /\ MovedForGood'
  BY <1>3, <1>11 DEF CacheInv, TypeOK, MovedForGood, rows, bounds
<1> QED
  BY <1>6, <1>10, <1>12 DEF CacheInv

\* Expiry removes a verdict, or resets a version nothing carries a tag of.
LEMMA ExpireSteps ==
  ASSUME CacheInv, NEW r \in Runtimes, ExpireVerdict(r) \/ ExpireVersion(r)
  PROVE  CacheInv'
<1>1. /\ version \in [Runtimes -> Nat] /\ verdict \in [Runtimes -> Nat \cup {None}]
  BY DEF CacheInv, TypeOK
<1>2. UNCHANGED <<rows, claim, bounds>>
  BY DEF ExpireVerdict, ExpireVersion
<1>3. \A q \in Runtimes : AnnouncedOn(q)' = AnnouncedOn(q)
  BY <1>2, RowsStay
<1>4. CASE ExpireVerdict(r)
  <2>1. version' = version /\ \A q \in Runtimes : verdict'[q] # None => verdict'[q] = verdict[q]
    BY <1>1, <1>4 DEF ExpireVerdict
  <2>2. verdict' \in [Runtimes -> Nat \cup {None}]
    BY <1>1, <1>4 DEF ExpireVerdict
  <2>3. NeverHidden' /\ TagsBehind' /\ SamplesSound'
    BY <1>2, <1>3, <2>1
    DEF CacheInv, NeverHidden, TagsBehind, SamplesSound, ValidVerdict
  <2> QED
    BY <1>2, <2>1, <2>2, <2>3 DEF CacheInv, TypeOK, MovedForGood, rows, bounds
<1>5. CASE ExpireVersion(r)
  <2>1. verdict' = verdict /\ verdict[r] = None
    BY <1>5 DEF ExpireVersion
  <2>2. version' \in [Runtimes -> Nat] /\ \A q \in Runtimes : q # r => version'[q] = version[q]
    BY <1>1, <1>5 DEF ExpireVersion
  <2>3. \A s \in Slots : claim[r][s].pc \in {"idle", "missed"}
    BY <1>5 DEF ExpireVersion
  <2>4. NeverHidden' /\ TagsBehind'
    BY <1>3, <2>1, <2>2 DEF CacheInv, NeverHidden, TagsBehind, ValidVerdict
  <2>5. SamplesSound'
    <3> SUFFICES ASSUME NEW q \in Runtimes, NEW p \in Slots
                 PROVE  /\ claim[q][p].pc \in {"sampled", "empty"}
                             => claim[q][p].sample <= version'[q]
                        /\ claim[q][p].pc = "empty" /\ claim[q][p].sample = version'[q]
                             => AnnouncedOn(q) = {}
      BY <1>2, <1>3 DEF SamplesSound
    <3>1. CASE q = r
      BY <2>3, <3>1
    <3>2. CASE q # r
      BY <2>2, <3>2 DEF CacheInv, SamplesSound
    <3> QED
      BY <3>1, <3>2
  <2> QED
    BY <1>2, <2>1, <2>2, <2>4, <2>5 DEF CacheInv, TypeOK, MovedForGood, rows, bounds
<1> QED
  BY <1>4, <1>5

\* Every step keeps the invariant.
LEMMA CacheInvInductive == CacheInv /\ [Next]_vars => CacheInv'
<1> SUFFICES ASSUME CacheInv, [Next]_vars PROVE CacheInv'
  OBVIOUS
<1>1. ASSUME NEW t \in Tasks, Insert(t) \/ Bump(t) \/ BumpFails(t) \/ Withdraw(t)
      PROVE  CacheInv'
  BY <1>1, TableSteps
<1>2. ASSUME NEW old \in Runtimes, NEW new \in Runtimes, MergeRuntime(old, new)
      PROVE  CacheInv'
  BY <1>2, MergeStep
<1>3. ASSUME NEW r \in Runtimes, NEW s \in Slots,
             \/ ClaimStep(r, s)
             \/ IsEmptyFails(r, s) \/ CurrentVersionFails(r, s) \/ AbandonClaim(r, s)
      PROVE  CacheInv'
  BY <1>3, ClaimSteps, MarkStep DEF ClaimStep
<1>4. ASSUME NEW r \in Runtimes, ExpireVerdict(r) \/ ExpireVersion(r)
      PROVE  CacheInv'
  BY <1>4, ExpireSteps
<1>5. CASE UNCHANGED vars
  BY <1>5 DEF vars, CacheInv, TypeOK, NeverHidden, TagsBehind, SamplesSound, MovedForGood,
              ValidVerdict, AnnouncedOn, QueuedOn
<1> QED
  BY <1>1, <1>2, <1>3, <1>4, <1>5 DEF Next

\* The invariant: tags and samples never run ahead of the version, and those equal
\* to it are right.
THEOREM CacheInvariant == Spec => []CacheInv
BY InitCacheInv, CacheInvInductive, PTL DEF Spec

\* Type correctness of the cache, its callers' local variables and the queue rows.
THEOREM CacheTypeCorrect == Spec => []TypeOK
<1>1. CacheInv => TypeOK
  BY DEF CacheInv
<1> QED
  BY <1>1, CacheInvariant, PTL

\* A poll is never told "empty" while a task announced on that runtime is queued,
\* for any number of runtimes, tasks and overlapping claims.
THEOREM VerdictNeverHides == Spec => []NeverHidden
<1>1. CacheInv => NeverHidden
  BY DEF CacheInv
<1> QED
  BY <1>1, CacheInvariant, PTL

-----------------------------------------------------------------------------
(***************************************************************************)
(* The daemon and the recovery of its runtimes.                            *)
(***************************************************************************)
Live(t) == row[t] \in {"dispatched", "running"}

\* Once its context is gone the process works on nothing.
DownIsEmpty ==
    up = "down" =>
        /\ poller = AtPc("stopped") /\ job = [t \in Jobs |-> "none"]
        /\ auto = "idle" /\ manual = "idle"

\* The two counters of the gate count what they are there to count.
GateCounts ==
    /\ gate.claimsInFlight = Cardinality(ClaimingPollers) + Cardinality(InHand)
    /\ gate.activeTasks = Cardinality(Active)

\* A task in an answer is its only one, is for that poller, and in nobody's hands yet.
AnswersFresh ==
    \A r \in Watched : \A t \in poller[r].answer :
        /\ poller[r].pc = "answered" /\ \A s \in poller[r].answer : s = t
        /\ RuntimeOf[t] = r /\ job[t] = "none"

\* A queued task is in nobody's hands and in no answer.
QueuedUntouched ==
    \A t \in Jobs : row[t] = "queued" =>
        job[t] = "none" /\ \A r \in Watched : t \notin poller[r].answer

\* A task whose handler is past its start is past being dispatched, one that was
\* interrupted is over, and one the handler is done with is over or adrift.
StagesAgree ==
    \A t \in Jobs :
        /\ job[t] \in {"working", "interrupted", "completed", "other", "error",
                       "reporting"} => row[t] # "dispatched"
        /\ job[t] = "interrupted" => ShouldInterrupt(t)
        /\ job[t] \in {"finishing", "slot back", "inactive"} /\ up = "up"
              => t \in adrift \/ ~ Live(t)

TasksHeld == AnswersFresh /\ QueuedUntouched /\ StagesAgree /\ NoTaskDropped

ClientInv == ClientTypeOK /\ DownIsEmpty /\ TasksHeld /\ GateCounts /\ BarrierHolds

-----------------------------------------------------------------------------
\* What the types of rows, handlers, pollers and the gate contain.
LEMMA Members ==
  /\ {"queued", "dispatched", "running", "completed", "failed", "cancelled",
      "deleted"} \subseteq Row
  /\ {"none", "starting", "start failed", "working", "interrupted", "completed",
      "other", "error", "reporting", "failing", "finishing", "slot back",
      "inactive"} \subseteq Job
BY DEF Row, Job

LEMMA NewPoller ==
  ASSUME ClientTypeOK, NEW r \in Watched, NEW answer \in SUBSET Jobs,
         NEW pc \in {"idle", "holding", "claiming", "answered", "leaving",
                     "returning", "stopped"},
         AtPoller(r, pc, answer)
  PROVE  poller' \in [Watched -> Poller]
BY DEF ClientTypeOK, AtPoller, Poller

LEMMA AnswerType ==
  ASSUME ClientTypeOK, NEW r \in Watched
  PROVE  poller[r].answer \subseteq Jobs
BY DEF ClientTypeOK, Poller

LEMMA NewStage ==
  ASSUME ClientTypeOK, NEW t \in Jobs, NEW from, NEW to \in Job, Moves(t, from, to)
  PROVE  job' \in [Jobs -> Job]
BY DEF ClientTypeOK, Moves

LEMMA NewGate ==
  ASSUME gate \in Gate
  PROVE  /\ [gate EXCEPT !.claimsInFlight = @ + 1] \in Gate
         /\ [gate EXCEPT !.claimsInFlight = @ - 1] \in Gate
         /\ [gate EXCEPT !.activeTasks = @ + 1] \in Gate
         /\ [gate EXCEPT !.activeTasks = @ - 1] \in Gate
         /\ \A b \in BOOLEAN : /\ [gate EXCEPT !.pauseClaims = b] \in Gate
                               /\ [gate EXCEPT !.updating = b] \in Gate
BY DEF Gate

LEMMA MoreTrouble ==
  ASSUME ClientTypeOK, Trouble \/ CallFails
  PROVE  trouble' \in 0..MaxTrouble
BY ClientAssumption DEF ClientTypeOK, ClientAssumption, Trouble, CallFails

LEMMA NewProcess ==
  /\ MaxConcurrentTasks \in Int
  /\ OpenGate \in Gate
  /\ \A pc \in {"idle", "stopped"} : AtPc(pc) \in [Watched -> Poller]
BY ClientAssumption DEF ClientAssumption, OpenGate, AtPc, Gate, Poller

\* Every step keeps the types.
LEMMA TypeStep ==
  ASSUME ClientTypeOK, ClientNext
  PROVE  ClientTypeOK'
<1> USE DEF ClientTypeOK
<1>1. ASSUME NEW r \in Watched, AcquireSlot(r)
      PROVE  ClientTypeOK'
  BY <1>1, NewPoller DEF AcquireSlot, updates
<1>2. ASSUME NEW r \in Watched, TryEnterClaim(r)
      PROVE  ClientTypeOK'
  BY <1>2, NewPoller, NewGate DEF TryEnterClaim, updates
<1>3. ASSUME NEW r \in Watched, ServeClaim(r)
      PROVE  ClientTypeOK'
  <2>1. poller' \in [Watched -> Poller]
    BY <1>3, NewPoller DEF ServeClaim
  <2> QED
    BY <1>3, <2>1, Members DEF ServeClaim, updates
<1>4. ASSUME NEW r \in Watched, NoTask(r)
      PROVE  ClientTypeOK'
  BY <1>4, NewPoller, NewGate DEF NoTask, ExitClaim, updates
<1>5. ASSUME NEW r \in Watched, ClaimFails(r)
      PROVE  ClientTypeOK'
  BY <1>5, NewPoller, NewGate, MoreTrouble, AnswerType DEF ClaimFails, ExitClaim, updates
<1>6. ASSUME NEW r \in Watched, RuntimeNotFound(r)
      PROVE  ClientTypeOK'
  BY <1>6, NewPoller, NewGate DEF RuntimeNotFound, ExitClaim, updates
<1>7. ASSUME NEW r \in Watched, PutSlotBack(r)
      PROVE  ClientTypeOK'
  BY <1>7, NewPoller DEF PutSlotBack, updates
<1>8. ASSUME NEW r \in Watched, StopPoller(r)
      PROVE  ClientTypeOK'
  BY <1>8, NewPoller, Members DEF StopPoller, updates
<1>9. ASSUME NEW r \in Watched, NEW t \in Jobs, HandOver(r, t)
      PROVE  ClientTypeOK'
  BY <1>9, NewPoller, NewGate, Members DEF HandOver, updates
<1>10. ASSUME NEW t \in Jobs, StartTask(t)
       PROVE  ClientTypeOK'
  BY <1>10, NewStage, Members DEF StartTask, InProcess, updates
<1>11. ASSUME NEW t \in Jobs, StartTaskFails(t)
       PROVE  ClientTypeOK'
  BY <1>11, NewStage, Members, MoreTrouble DEF StartTaskFails, InProcess, updates
<1>12. ASSUME NEW t \in Jobs, FailTask(t)
       PROVE  ClientTypeOK'
  BY <1>12, NewStage, Members DEF FailTask, InProcess, updates
<1>13. ASSUME NEW t \in Jobs, FailTaskFails(t)
       PROVE  ClientTypeOK'
  BY <1>13, NewStage, Members, MoreTrouble DEF FailTaskFails, InProcess, updates
<1>14. ASSUME NEW t \in Jobs, WatchCancellation(t)
       PROVE  ClientTypeOK'
  BY <1>14, NewStage, Members DEF WatchCancellation, InProcess, updates
<1>15. ASSUME NEW t \in Jobs, AgentEnds(t)
       PROVE  ClientTypeOK'
  BY <1>15, NewStage, Members DEF AgentEnds, InProcess, updates
<1>16. ASSUME NEW t \in Jobs, Discard(t)
       PROVE  ClientTypeOK'
  BY <1>16, NewStage, Members DEF Discard, InProcess, updates
<1>17. ASSUME NEW t \in Jobs, CheckBeforeReport(t)
       PROVE  ClientTypeOK'
  BY <1>17, NewStage, Members, MoreTrouble DEF CheckBeforeReport, InProcess, updates
<1>18. ASSUME NEW t \in Jobs, CompleteTask(t)
       PROVE  ClientTypeOK'
  BY <1>18, NewStage, Members DEF CompleteTask, InProcess, updates
<1>19. ASSUME NEW t \in Jobs, CompleteTaskFails(t)
       PROVE  ClientTypeOK'
  BY <1>19, NewStage, Members, MoreTrouble DEF CompleteTaskFails, InProcess, updates
<1>20. ASSUME NEW t \in Jobs, ReturnSlot(t)
       PROVE  ClientTypeOK'
  <2>1. job' \in [Jobs -> Job]
    BY <1>20, NewStage, Members DEF ReturnSlot
  <2>4. slots' = slots + 1
    BY <1>20 DEF ReturnSlot
  <2>2. slots' \in Int
    BY <2>4
  <2>3. UNCHANGED <<row, gone, up, poller, gate, auto, manual, adrift, trouble>>
    BY <1>20 DEF ReturnSlot, updates
  <2> QED
    BY <2>1, <2>2, <2>3
<1>21. ASSUME NEW t \in Jobs, LeaveActive(t)
       PROVE  ClientTypeOK'
  BY <1>21, NewStage, Members, NewGate DEF LeaveActive, updates
<1>22. ASSUME NEW t \in Jobs, LeaveClaim(t)
       PROVE  ClientTypeOK'
  BY <1>22, NewStage, Members, NewGate DEF LeaveClaim, ExitClaim, updates
<1>23. ASSUME NEW t \in Jobs, CancelTask(t)
       PROVE  ClientTypeOK'
  BY <1>23, Members DEF CancelTask, OnServer, Open, updates
<1>24. ASSUME NEW t \in Jobs, FailOnServer(t)
       PROVE  ClientTypeOK'
  BY <1>24, Members DEF FailOnServer, OnServer, updates
<1>25. ASSUME NEW r \in Watched, DeleteRuntime(r)
       PROVE  ClientTypeOK'
  BY <1>25, Members, MoreTrouble DEF DeleteRuntime, OnServer, updates
<1>26. ASSUME AutoCheck
       PROVE  ClientTypeOK'
  BY <1>26 DEF AutoCheck, AutoStep, Updating
<1>27. ASSUME AutoFetched
       PROVE  ClientTypeOK'
  BY <1>27, NewGate DEF AutoFetched, AutoStep, Updating
<1>28. ASSUME TrySetClaimBarrier
       PROVE  ClientTypeOK'
  BY <1>28, NewGate DEF TrySetClaimBarrier, AutoStep, Updating
<1>29. ASSUME AutoUpgradeFails
       PROVE  ClientTypeOK'
  BY <1>29, NewGate DEF AutoUpgradeFails, AutoStep, Updating
<1>30. ASSUME AutoUnwind
       PROVE  ClientTypeOK'
  BY <1>30, NewGate DEF AutoUnwind, AutoStep, Updating
<1>31. ASSUME AutoRestart
       PROVE  ClientTypeOK'
  BY <1>31, MoreTrouble DEF AutoRestart, AutoStep, Updating, TriggerRestart
<1>32. ASSUME ManualBegin
       PROVE  ClientTypeOK'
  BY <1>32, NewGate DEF ManualBegin, ManualStep, Updating
<1>33. ASSUME ManualRestart
       PROVE  ClientTypeOK'
  BY <1>33, MoreTrouble DEF ManualRestart, ManualStep, Updating, TriggerRestart
<1>34. ASSUME ManualEnd
       PROVE  ClientTypeOK'
  BY <1>34, NewGate DEF ManualEnd, ManualStep, Updating
<1>35. ASSUME Exit
       PROVE  ClientTypeOK'
  BY <1>35, NewProcess, Members DEF Exit, Ended
<1>36. ASSUME Killed
       PROVE  ClientTypeOK'
  BY <1>36, MoreTrouble, NewProcess, Members DEF Killed, Ended
<1>37. ASSUME StartProcess
       PROVE  ClientTypeOK'
  <2>1. poller' \in [Watched -> Poller]
    BY <1>37 DEF StartProcess, Poller
  <2>2. row' \in [Jobs -> Row] /\ adrift' \subseteq Jobs
    BY <1>37, Members DEF StartProcess
  <2>3. trouble' \in 0..MaxTrouble
    BY <1>37, MoreTrouble DEF StartProcess
  <2> QED
    BY <1>37, <2>1, <2>2, <2>3 DEF StartProcess, updates
<1> QED
  BY <1>1, <1>2, <1>3, <1>4, <1>5, <1>6, <1>7, <1>8, <1>9, <1>10, <1>11, <1>12, <1>13,
     <1>14, <1>15, <1>16, <1>17, <1>18, <1>19, <1>20, <1>21, <1>22, <1>23, <1>24,
     <1>25, <1>26, <1>27, <1>28, <1>29, <1>30, <1>31, <1>32, <1>33, <1>34, <1>35,
     <1>36, <1>37
  DEF ClientNext, PollerStep, TaskStep, ServerStep, UpdateStep

-----------------------------------------------------------------------------
(***************************************************************************)
(* The barrier.  It can only be set when both counters are zero, so it is  *)
(* enough that they count the pollers and tasks they stand for.            *)
(***************************************************************************)
Counted == GateCounts /\ BarrierHolds

LEMMA Finite ==
  ASSUME ClientTypeOK
  PROVE  IsFiniteSet(ClaimingPollers) /\ IsFiniteSet(InHand) /\ IsFiniteSet(Active)
BY ClientAssumption, FS_Subset DEF ClientAssumption, ClaimingPollers, InHand, Active

LEMMA Cardinals ==
  ASSUME ClientTypeOK
  PROVE  /\ Cardinality(ClaimingPollers) \in Nat /\ Cardinality(InHand) \in Nat
         /\ Cardinality(Active) \in Nat
         /\ Cardinality(ClaimingPollers) = 0 <=> ClaimingPollers = {}
         /\ Cardinality(InHand) = 0 <=> InHand = {}
BY Finite, FS_CardinalityType, FS_EmptySet

\* Who claims after a poller has gone to pc.
LEMMA PollerMoves ==
  ASSUME ClientTypeOK, NEW r \in Watched, NEW pc, NEW answer, AtPoller(r, pc, answer)
  PROVE  ClaimingPollers' = IF pc \in {"claiming", "answered"}
                            THEN ClaimingPollers \cup {r} ELSE ClaimingPollers \ {r}
BY DEF ClientTypeOK, AtPoller, ClaimingPollers

\* What is in hand, and active, after a handler has gone from one stage to another.
LEMMA StageMoves ==
  ASSUME ClientTypeOK, NEW t \in Jobs, NEW from, NEW to, Moves(t, from, to)
  PROVE  /\ t \in InHand <=> from # "none"
         /\ t \in Active <=> from \notin {"none", "inactive"}
         /\ InHand' = IF to = "none" THEN InHand \ {t} ELSE InHand \cup {t}
         /\ Active' = IF to \in {"none", "inactive"} THEN Active \ {t}
                      ELSE Active \cup {t}
BY DEF ClientTypeOK, Moves, InHand, Active

LEMMA HandlerStays ==
  ASSUME ClientTypeOK, Counted, NEW t \in Jobs, NEW from, NEW to, Moves(t, from, to),
         from \notin {"none", "inactive"}, to \notin {"none", "inactive"},
         UNCHANGED <<poller, gate>>
  PROVE  Counted'
<1>1. InHand' = InHand /\ Active' = Active
  BY StageMoves
<1>2. ClaimingPollers' = ClaimingPollers
  BY DEF ClaimingPollers
<1> QED
  BY <1>1, <1>2 DEF Counted, GateCounts, BarrierHolds

LEMMA PollerStays ==
  ASSUME ClientTypeOK, Counted, NEW r \in Watched, NEW pc, NEW answer,
         AtPoller(r, pc, answer), r \in ClaimingPollers <=> pc \in {"claiming", "answered"},
         UNCHANGED <<job, gate>>
  PROVE  Counted'
<1>1. ClaimingPollers' = ClaimingPollers
  BY PollerMoves
<1>2. InHand' = InHand /\ Active' = Active
  BY DEF InHand, Active
<1> QED
  BY <1>1, <1>2 DEF Counted, GateCounts, BarrierHolds

LEMMA PollerLeaves ==
  ASSUME ClientTypeOK, Counted, NEW r \in ClaimingPollers, NEW pc, NEW answer,
         AtPoller(r, pc, answer), pc \notin {"claiming", "answered"}, ExitClaim,
         UNCHANGED job
  PROVE  Counted'
<1>1. r \in Watched
  BY DEF ClaimingPollers
<1>2. ClaimingPollers' = ClaimingPollers \ {r}
  BY <1>1, PollerMoves
<1>3. Cardinality(ClaimingPollers') = Cardinality(ClaimingPollers) - 1
  BY <1>2, Finite, FS_RemoveElement
<1>4. InHand' = InHand /\ Active' = Active
  BY DEF InHand, Active
<1>5. /\ gate'.claimsInFlight = gate.claimsInFlight - 1
      /\ gate'.activeTasks = gate.activeTasks /\ gate'.pauseClaims = gate.pauseClaims
  BY DEF ClientTypeOK, ExitClaim, Gate
<1> QED
  BY <1>2, <1>3, <1>4, <1>5, Cardinals DEF Counted, GateCounts, BarrierHolds

LEMMA NobodyMoves ==
  ASSUME ClientTypeOK, Counted, UNCHANGED <<poller, job>>,
         gate'.claimsInFlight = gate.claimsInFlight, gate'.activeTasks = gate.activeTasks,
         gate'.pauseClaims => gate.pauseClaims
  PROVE  Counted'
<1>1. ClaimingPollers' = ClaimingPollers /\ InHand' = InHand /\ Active' = Active
  BY DEF ClaimingPollers, InHand, Active
<1> QED
  BY <1>1 DEF Counted, GateCounts, BarrierHolds

LEMMA NobodyLeft ==
  ASSUME Ended
  PROVE  Counted'
<1>1. ClaimingPollers' = {} /\ InHand' = {} /\ Active' = {}
  BY DEF Ended, AtPc, ClaimingPollers, InHand, Active
<1>2. gate'.claimsInFlight = 0 /\ gate'.activeTasks = 0 /\ ~ gate'.pauseClaims
  BY DEF Ended, OpenGate
<1> QED
  BY <1>1, <1>2, FS_EmptySet DEF Counted, GateCounts, BarrierHolds

\* Every step keeps the count.
LEMMA CountStep ==
  ASSUME ClientTypeOK, Counted, DownIsEmpty, TasksHeld, ClientNext
  PROVE  Counted'
<1>1. ASSUME NEW r \in Watched, AcquireSlot(r)
      PROVE  Counted'
  BY <1>1, PollerStays DEF AcquireSlot, ClaimingPollers
<1>2. ASSUME NEW r \in Watched, TryEnterClaim(r)
      PROVE  Counted'
  <2>1. CASE gate.pauseClaims
    BY <1>2, <2>1, PollerStays DEF TryEnterClaim, ClaimingPollers
  <2>2. CASE ~ gate.pauseClaims
    <3>1. r \notin ClaimingPollers /\ ClaimingPollers' = ClaimingPollers \cup {r}
      BY <1>2, <2>2, PollerMoves DEF TryEnterClaim, ClaimingPollers
    <3>2. Cardinality(ClaimingPollers') = Cardinality(ClaimingPollers) + 1
      BY <3>1, Finite, FS_AddElement
    <3>3. InHand' = InHand /\ Active' = Active
      BY <1>2 DEF TryEnterClaim, InHand, Active
    <3>4. /\ gate'.claimsInFlight = gate.claimsInFlight + 1
          /\ gate'.activeTasks = gate.activeTasks /\ ~ gate'.pauseClaims
      BY <1>2, <2>2 DEF TryEnterClaim, ClientTypeOK, Gate
    <3> QED
      BY <3>2, <3>3, <3>4, Cardinals DEF Counted, GateCounts, BarrierHolds
  <2> QED
    BY <2>1, <2>2
<1>3. ASSUME NEW r \in Watched, ServeClaim(r)
      PROVE  Counted'
  BY <1>3, PollerStays DEF ServeClaim, ClaimingPollers
<1>4. ASSUME NEW r \in Watched, NoTask(r)
      PROVE  Counted'
  BY <1>4, PollerLeaves DEF NoTask, ClaimingPollers
<1>5. ASSUME NEW r \in Watched, ClaimFails(r)
      PROVE  Counted'
  BY <1>5, PollerLeaves DEF ClaimFails, ClaimingPollers
<1>6. ASSUME NEW r \in Watched, RuntimeNotFound(r)
      PROVE  Counted'
  BY <1>6, PollerLeaves DEF RuntimeNotFound, ClaimingPollers
<1>7. ASSUME NEW r \in Watched, PutSlotBack(r)
      PROVE  Counted'
  BY <1>7, PollerStays DEF PutSlotBack, ClaimingPollers
<1>8. ASSUME NEW r \in Watched, StopPoller(r)
      PROVE  Counted'
  BY <1>8, PollerStays DEF StopPoller, ClaimingPollers
<1>9. ASSUME NEW r \in Watched, NEW t \in Jobs, HandOver(r, t)
      PROVE  Counted'
  <2>1. r \in ClaimingPollers /\ t \notin InHand /\ t \notin Active
    BY <1>9 DEF HandOver, ClaimingPollers, TasksHeld, AnswersFresh, InHand, Active
  <2>2. /\ ClaimingPollers' = ClaimingPollers \ {r}
        /\ InHand' = InHand \cup {t} /\ Active' = Active \cup {t}
    <3>1. Moves(t, "none", "starting")
      BY <1>9 DEF HandOver, TasksHeld, AnswersFresh, Moves
    <3> QED
      BY <1>9, <3>1, PollerMoves, StageMoves DEF HandOver
  <2>3. /\ Cardinality(ClaimingPollers') = Cardinality(ClaimingPollers) - 1
        /\ Cardinality(InHand') = Cardinality(InHand) + 1
        /\ Cardinality(Active') = Cardinality(Active) + 1
    BY <2>1, <2>2, Finite, FS_AddElement, FS_RemoveElement
  <2>4. /\ gate'.claimsInFlight = gate.claimsInFlight
        /\ gate'.activeTasks = gate.activeTasks + 1
        /\ gate'.pauseClaims = gate.pauseClaims
    BY <1>9 DEF HandOver, ClientTypeOK, Gate
  <2>5. ~ gate.pauseClaims
    BY <2>1 DEF Counted, BarrierHolds
  <2> QED
    BY <2>3, <2>4, <2>5, Cardinals DEF Counted, GateCounts, BarrierHolds
<1>10. ASSUME NEW t \in Jobs, StartTask(t)
       PROVE  Counted'
  BY <1>10, HandlerStays DEF StartTask, InProcess
<1>11. ASSUME NEW t \in Jobs, StartTaskFails(t)
       PROVE  Counted'
  BY <1>11, HandlerStays DEF StartTaskFails, InProcess
<1>12. ASSUME NEW t \in Jobs, FailTask(t)
       PROVE  Counted'
  BY <1>12, HandlerStays DEF FailTask, InProcess
<1>13. ASSUME NEW t \in Jobs, FailTaskFails(t)
       PROVE  Counted'
  BY <1>13, HandlerStays DEF FailTaskFails, InProcess
<1>14. ASSUME NEW t \in Jobs, WatchCancellation(t)
       PROVE  Counted'
  BY <1>14, HandlerStays DEF WatchCancellation, InProcess
<1>15. ASSUME NEW t \in Jobs, AgentEnds(t)
       PROVE  Counted'
  BY <1>15, HandlerStays DEF AgentEnds, InProcess
<1>16. ASSUME NEW t \in Jobs, Discard(t)
       PROVE  Counted'
  BY <1>16, HandlerStays DEF Discard, InProcess
<1>17. ASSUME NEW t \in Jobs, CheckBeforeReport(t)
       PROVE  Counted'
  BY <1>17, HandlerStays DEF CheckBeforeReport, InProcess
<1>18. ASSUME NEW t \in Jobs, CompleteTask(t)
       PROVE  Counted'
  BY <1>18, HandlerStays DEF CompleteTask, InProcess
<1>19. ASSUME NEW t \in Jobs, CompleteTaskFails(t)
       PROVE  Counted'
  BY <1>19, HandlerStays DEF CompleteTaskFails, InProcess
<1>20. ASSUME NEW t \in Jobs, ReturnSlot(t)
       PROVE  Counted'
  BY <1>20, HandlerStays DEF ReturnSlot
<1>21. ASSUME NEW t \in Jobs, LeaveActive(t)
       PROVE  Counted'
  <2>1. Moves(t, "slot back", "inactive")
    BY <1>21 DEF LeaveActive
  <2>5. job[t] = "slot back" /\ job' = [job EXCEPT ![t] = "inactive"]
    BY <2>1 DEF Moves
  <2>6. t \in Active /\ Active' = Active \ {t}
    BY <2>5 DEF ClientTypeOK, Active
  <2>7. InHand' = InHand
    BY <2>5 DEF ClientTypeOK, InHand
  <2>2. Cardinality(Active') = Cardinality(Active) - 1
    BY <2>6, Finite, FS_RemoveElement
  <2>3. ClaimingPollers' = ClaimingPollers
    BY <1>21 DEF LeaveActive, ClaimingPollers
  <2>4. /\ gate'.claimsInFlight = gate.claimsInFlight
        /\ gate'.activeTasks = gate.activeTasks - 1
        /\ gate'.pauseClaims = gate.pauseClaims
    BY <1>21 DEF LeaveActive, ClientTypeOK, Gate
  <2> QED
    BY <2>7, <2>2, <2>3, <2>4, Cardinals DEF Counted, GateCounts, BarrierHolds
<1>22. ASSUME NEW t \in Jobs, LeaveClaim(t)
       PROVE  Counted'
  <2>1. t \in InHand /\ InHand' = InHand \ {t} /\ Active' = Active
    BY <1>22, StageMoves DEF LeaveClaim
  <2>2. Cardinality(InHand') = Cardinality(InHand) - 1
    BY <2>1, Finite, FS_RemoveElement
  <2>3. ClaimingPollers' = ClaimingPollers
    BY <1>22 DEF LeaveClaim, ClaimingPollers
  <2>4. /\ gate'.claimsInFlight = gate.claimsInFlight - 1
        /\ gate'.activeTasks = gate.activeTasks
        /\ gate'.pauseClaims = gate.pauseClaims
    BY <1>22 DEF LeaveClaim, ExitClaim, ClientTypeOK, Gate
  <2> QED
    BY <2>1, <2>2, <2>3, <2>4, Cardinals DEF Counted, GateCounts, BarrierHolds
<1>23. ASSUME NEW t \in Jobs, CancelTask(t)
       PROVE  Counted'
  BY <1>23, NobodyMoves DEF CancelTask, OnServer
<1>24. ASSUME NEW t \in Jobs, FailOnServer(t)
       PROVE  Counted'
  BY <1>24, NobodyMoves DEF FailOnServer, OnServer
<1>25. ASSUME NEW r \in Watched, DeleteRuntime(r)
       PROVE  Counted'
  BY <1>25, NobodyMoves DEF DeleteRuntime, OnServer
<1>26. ASSUME AutoCheck
       PROVE  Counted'
  BY <1>26, NobodyMoves DEF AutoCheck, Updating
<1>27. ASSUME AutoFetched
       PROVE  Counted'
  BY <1>27, NobodyMoves DEF AutoFetched, Updating, ClientTypeOK, Gate
<1>28. ASSUME TrySetClaimBarrier
       PROVE  Counted'
  <2>1. CASE gate.claimsInFlight > 0 \/ gate.activeTasks > 0
    BY <1>28, <2>1, NobodyMoves DEF TrySetClaimBarrier, Updating
  <2>2. CASE ~ (gate.claimsInFlight > 0 \/ gate.activeTasks > 0)
    <3>1. ClaimingPollers = {} /\ InHand = {}
      BY <2>2, Cardinals DEF Counted, GateCounts
    <3>2. ClaimingPollers' = ClaimingPollers /\ InHand' = InHand /\ Active' = Active
      BY <1>28 DEF TrySetClaimBarrier, Updating, ClaimingPollers, InHand, Active
    <3>3. /\ gate'.claimsInFlight = gate.claimsInFlight
          /\ gate'.activeTasks = gate.activeTasks
      BY <1>28, <2>2 DEF TrySetClaimBarrier, ClientTypeOK, Gate
    <3> QED
      BY <3>1, <3>2, <3>3 DEF Counted, GateCounts, BarrierHolds
  <2> QED
    BY <2>1, <2>2
<1>29. ASSUME AutoUpgradeFails
       PROVE  Counted'
  BY <1>29, NobodyMoves DEF AutoUpgradeFails, Updating, ClientTypeOK, Gate
<1>30. ASSUME AutoUnwind
       PROVE  Counted'
  BY <1>30, NobodyMoves DEF AutoUnwind, Updating, ClientTypeOK, Gate
<1>31. ASSUME AutoRestart
       PROVE  Counted'
  BY <1>31, NobodyMoves DEF AutoRestart, Updating
<1>32. ASSUME ManualBegin
       PROVE  Counted'
  BY <1>32, NobodyMoves DEF ManualBegin, Updating, ClientTypeOK, Gate
<1>33. ASSUME ManualRestart
       PROVE  Counted'
  BY <1>33, NobodyMoves DEF ManualRestart, Updating
<1>34. ASSUME ManualEnd
       PROVE  Counted'
  BY <1>34, NobodyMoves DEF ManualEnd, Updating, ClientTypeOK, Gate
<1>35. ASSUME Exit
       PROVE  Counted'
  BY <1>35, NobodyLeft DEF Exit
<1>36. ASSUME Killed
       PROVE  Counted'
  BY <1>36, NobodyLeft DEF Killed
<1>37. ASSUME StartProcess
       PROVE  Counted'
  <2>1. ClaimingPollers' = {} /\ InHand' = {} /\ Active' = {}
    BY <1>37 DEF StartProcess, ClaimingPollers, InHand, Active, DownIsEmpty
  <2>2. ClaimingPollers = {} /\ InHand = {} /\ Active = {}
    BY <1>37 DEF StartProcess, ClaimingPollers, InHand, Active, DownIsEmpty, AtPc
  <2>3. UNCHANGED gate
    BY <1>37 DEF StartProcess
  <2> QED
    BY <2>1, <2>2, <2>3 DEF Counted, GateCounts, BarrierHolds
<1> QED
  BY <1>1, <1>2, <1>3, <1>4, <1>5, <1>6, <1>7, <1>8, <1>9, <1>10, <1>11, <1>12, <1>13,
     <1>14, <1>15, <1>16, <1>17, <1>18, <1>19, <1>20, <1>21, <1>22, <1>23, <1>24,
     <1>25, <1>26, <1>27, <1>28, <1>29, <1>30, <1>31, <1>32, <1>33, <1>34, <1>35,
     <1>36, <1>37
  DEF ClientNext, PollerStep, TaskStep, ServerStep, UpdateStep

-----------------------------------------------------------------------------
(***************************************************************************)
(* What is held of each task.  A step of a poller leaves rows and stages   *)
(* alone, a step of a handler concerns one task, and a step of the server  *)
(* only ends tasks.                                                        *)
(***************************************************************************)
\* A poller that waits for no answer has none.
LEMMA NoAnswer ==
  ASSUME ClientTypeOK, AnswersFresh, NEW r \in Watched, poller[r].pc # "answered"
  PROVE  poller[r].answer = {}
<1>1. poller[r].answer \subseteq Jobs
  BY AnswerType
<1> QED
  BY <1>1 DEF AnswersFresh

LEMMA PollerAt ==
  ASSUME ClientTypeOK, NEW r \in Watched, NEW pc, NEW answer, AtPoller(r, pc, answer)
  PROVE  /\ poller'[r].pc = pc /\ poller'[r].answer = answer
         /\ \A q \in Watched \ {r} : poller'[q] = poller[q]
BY DEF ClientTypeOK, AtPoller

LEMMA PollerHeld ==
  ASSUME ClientTypeOK, TasksHeld, NEW r \in Watched, NEW pc,
         AtPoller(r, pc, {}), UNCHANGED <<row, job, up>>,
         adrift' = adrift \cup poller[r].answer
  PROVE  TasksHeld'
<1>1. /\ poller'[r].answer = {}
      /\ \A q \in Watched \ {r} : poller'[q] = poller[q]
  BY PollerAt
<1>2. AnswersFresh'
  BY <1>1 DEF TasksHeld, AnswersFresh
<1>3. QueuedUntouched'
  BY <1>1 DEF TasksHeld, QueuedUntouched
<1>4. StagesAgree'
  BY DEF TasksHeld, StagesAgree, Live, ShouldInterrupt
<1>5. NoTaskDropped'
  BY <1>1 DEF TasksHeld, NoTaskDropped, InHand
<1> QED
  BY <1>2, <1>3, <1>4, <1>5 DEF TasksHeld

\* A poller without an answer moves on.
LEMMA QuietHeld ==
  ASSUME ClientTypeOK, TasksHeld, NEW r \in Watched, NEW pc, poller[r].answer = {},
         AtPoller(r, pc, {}), UNCHANGED <<row, job, up, adrift>>
  PROVE  TasksHeld'
BY PollerHeld

\* A handler moves, and its task with it.
LEMMA HandlerHeld ==
  ASSUME ClientTypeOK, TasksHeld, NEW t \in Jobs, NEW from, NEW to, Moves(t, from, to),
         from # "none",
         UNCHANGED <<up, poller>>, adrift \subseteq adrift',
         \A u \in Jobs \ {t} : row'[u] = row[u],
         row'[t] = "queued" => row[t] = "queued",
         to \in {"working", "interrupted", "completed", "other", "error", "reporting"}
            => row'[t] # "dispatched",
         to = "interrupted" => row'[t] \in {"cancelled", "deleted"},
         to \in {"none", "finishing", "slot back", "inactive"} /\ up = "up"
            => t \in adrift' \/ row'[t] \notin {"dispatched", "running"}
  PROVE  TasksHeld'
<1>1. job[t] = from /\ job'[t] = to /\ \A u \in Jobs \ {t} : job'[u] = job[u]
  BY DEF ClientTypeOK, Moves
<1>2. row[t] # "queued" /\ \A r \in Watched : t \notin poller[r].answer
  <2>1. row[t] # "queued"
    BY <1>1 DEF TasksHeld, QueuedUntouched
  <2>2. ASSUME NEW r \in Watched, t \in poller[r].answer
        PROVE  FALSE
    BY <1>1, <2>2 DEF TasksHeld, AnswersFresh
  <2> QED
    BY <2>1, <2>2
<1>3. AnswersFresh'
  <2> SUFFICES ASSUME NEW r \in Watched, NEW u \in poller'[r].answer
               PROVE  /\ poller'[r].pc = "answered" /\ \A s \in poller'[r].answer : s = u
                      /\ RuntimeOf[u] = r /\ job'[u] = "none"
    BY DEF AnswersFresh
  <2>1. poller' = poller /\ u \in poller[r].answer
    OBVIOUS
  <2>2. u \in Jobs /\ u # t
    BY <1>2, <2>1, AnswerType
  <2> QED
    BY <1>1, <2>1, <2>2 DEF TasksHeld, AnswersFresh
<1>4. QueuedUntouched'
  <2> SUFFICES ASSUME NEW u \in Jobs, row'[u] = "queued"
               PROVE  job'[u] = "none" /\ \A r \in Watched : u \notin poller[r].answer
    BY DEF QueuedUntouched
  <2>1. row'[t] # "queued"
    BY <1>2
  <2>2. u # t
    BY <2>1
  <2>3. row[u] = "queued"
    BY <2>2
  <2> QED
    BY <1>1, <2>2, <2>3 DEF TasksHeld, QueuedUntouched
<1>5. StagesAgree'
  <2> SUFFICES ASSUME NEW u \in Jobs
               PROVE  /\ job'[u] \in {"working", "interrupted", "completed", "other",
                                      "error", "reporting"} => row'[u] # "dispatched"
                      /\ job'[u] = "interrupted" => ShouldInterrupt(u)'
                      /\ job'[u] \in {"finishing", "slot back", "inactive"} /\ up' = "up"
                            => u \in adrift' \/ ~ Live(u)'
    BY DEF StagesAgree
  <2>1. CASE u = t
    BY <1>1, <2>1 DEF Live, ShouldInterrupt
  <2>2. CASE u # t
    <3>1. job'[u] = job[u] /\ row'[u] = row[u]
      BY <1>1, <2>2
    <3> QED
      BY <3>1 DEF TasksHeld, StagesAgree, Live, ShouldInterrupt
  <2> QED
    BY <2>1, <2>2
<1>6. NoTaskDropped'
  <2> SUFFICES ASSUME NEW u \in Jobs \ adrift', up' = "up",
                      row'[u] \in {"dispatched", "running"}
               PROVE  job'[u] # "none" \/ \E r \in Watched : u \in poller'[r].answer
    BY DEF NoTaskDropped, InHand
  <2>1. CASE u = t
    BY <1>1, <2>1
  <2>2. CASE u # t
    <3>1. job'[u] = job[u] /\ row'[u] = row[u]
      BY <1>1, <2>2
    <3> QED
      BY <3>1 DEF TasksHeld, NoTaskDropped, InHand
  <2> QED
    BY <2>1, <2>2
<1> QED
  BY <1>3, <1>4, <1>5, <1>6 DEF TasksHeld

\* Rows only end, and the process does not start.
LEMMA RowsHeld ==
  ASSUME ClientTypeOK, TasksHeld, UNCHANGED <<poller, job, adrift>>,
         up' = "up" => up = "up",
         \A t \in Jobs :
            \/ row'[t] = row[t]
            \/ row'[t] \in {"cancelled", "deleted"}
            \/ row'[t] = "failed" /\ row[t] \in {"dispatched", "running"}
  PROVE  TasksHeld'
<1>1. AnswersFresh'
  BY DEF TasksHeld, AnswersFresh
<1>2. QueuedUntouched'
  BY DEF TasksHeld, QueuedUntouched
<1>3. StagesAgree'
  <2> SUFFICES ASSUME NEW u \in Jobs
               PROVE  /\ job[u] \in {"working", "interrupted", "completed", "other",
                                      "error", "reporting"} => row'[u] # "dispatched"
                      /\ job[u] = "interrupted" => row'[u] \in {"cancelled", "deleted"}
                      /\ job[u] \in {"finishing", "slot back", "inactive"} /\ up' = "up"
                            => u \in adrift \/ row'[u] \notin {"dispatched", "running"}
    BY DEF StagesAgree, ShouldInterrupt, Live
  <2> QED
    BY DEF TasksHeld, StagesAgree, ShouldInterrupt, Live
<1>4. NoTaskDropped'
  BY DEF TasksHeld, NoTaskDropped, InHand
<1> QED
  BY <1>1, <1>2, <1>3, <1>4 DEF TasksHeld

\* Nobody has anything after the end of the process.
LEMMA EndedHeld ==
  ASSUME TasksHeld, Ended
  PROVE  TasksHeld'
<1>1. /\ \A r \in Watched : poller'[r].answer = {}
      /\ \A t \in Jobs : job'[t] = "none"
      /\ up' # "up"
  BY DEF Ended, AtPc
<1>2. StagesAgree'
  BY <1>1 DEF StagesAgree
<1> QED
  BY <1>1, <1>2 DEF TasksHeld, AnswersFresh, QueuedUntouched, NoTaskDropped

LEMMA TasksStep ==
  ASSUME ClientTypeOK, DownIsEmpty, TasksHeld, ClientNext
  PROVE  TasksHeld'
<1>1. ASSUME NEW r \in Watched, AcquireSlot(r)
      PROVE  TasksHeld'
  <2>1. poller[r].answer = {}
    BY <1>1, NoAnswer DEF AcquireSlot, TasksHeld
  <2> QED
    BY <1>1, <2>1, QuietHeld DEF AcquireSlot
<1>2. ASSUME NEW r \in Watched, TryEnterClaim(r)
      PROVE  TasksHeld'
  <2>1. poller[r].answer = {}
    BY <1>2, NoAnswer DEF TryEnterClaim, TasksHeld
  <2>2. UNCHANGED <<row, job, up, adrift>>
    BY <1>2 DEF TryEnterClaim
  <2>3. AtPoller(r, "idle", {}) \/ AtPoller(r, "claiming", {})
    BY <1>2 DEF TryEnterClaim
  <2> QED
    BY <2>1, <2>2, <2>3, QuietHeld
<1>3. ASSUME NEW r \in Watched, ServeClaim(r)
      PROVE  TasksHeld'
  <2>1. poller[r].answer = {}
    BY <1>3, NoAnswer DEF ServeClaim, TasksHeld
  <2>2. CASE UNCHANGED row /\ AtPoller(r, "answered", {})
    BY <1>3, <2>1, <2>2, QuietHeld DEF ServeClaim
  <2>3. ASSUME NEW t \in Jobs, RuntimeOf[t] = r, row[t] = "queued",
               row' = [row EXCEPT ![t] = "dispatched"], AtPoller(r, "answered", {t})
        PROVE  TasksHeld'
    <3>1. /\ poller'[r].pc = "answered" /\ poller'[r].answer = {t}
          /\ \A q \in Watched \ {r} : poller'[q] = poller[q]
      BY <2>3, PollerAt
    <3>2. row'[t] = "dispatched" /\ \A u \in Jobs \ {t} : row'[u] = row[u]
      BY <2>3 DEF ClientTypeOK
    <3>3. UNCHANGED <<job, up, adrift>>
      BY <1>3 DEF ServeClaim
    <3>4. job[t] = "none" /\ \A q \in Watched : t \notin poller[q].answer
      BY <2>3 DEF TasksHeld, QueuedUntouched
    <3>5. AnswersFresh'
      BY <2>3, <3>1, <3>3, <3>4 DEF TasksHeld, AnswersFresh
    <3>6. QueuedUntouched'
      BY <3>1, <3>2, <3>3 DEF TasksHeld, QueuedUntouched
    <3>7. StagesAgree'
      BY <3>2, <3>3, <3>4 DEF TasksHeld, StagesAgree, ShouldInterrupt, Live
    <3>8. NoTaskDropped'
      BY <2>1, <3>1, <3>2, <3>3 DEF TasksHeld, NoTaskDropped, InHand
    <3> QED
      BY <3>5, <3>6, <3>7, <3>8 DEF TasksHeld
  <2> QED
    BY <1>3, <2>2, <2>3 DEF ServeClaim
<1>4. ASSUME NEW r \in Watched, NoTask(r)
      PROVE  TasksHeld'
  BY <1>4, QuietHeld DEF NoTask
<1>5. ASSUME NEW r \in Watched, ClaimFails(r)
      PROVE  TasksHeld'
  BY <1>5, PollerHeld DEF ClaimFails
<1>6. ASSUME NEW r \in Watched, RuntimeNotFound(r)
      PROVE  TasksHeld'
  <2>1. poller[r].answer = {}
    BY <1>6, NoAnswer DEF RuntimeNotFound, TasksHeld
  <2> QED
    BY <1>6, <2>1, QuietHeld DEF RuntimeNotFound
<1>7. ASSUME NEW r \in Watched, PutSlotBack(r)
      PROVE  TasksHeld'
  <2>1. poller[r].answer = {}
    BY <1>7, NoAnswer DEF PutSlotBack, TasksHeld
  <2> QED
    BY <1>7, <2>1, QuietHeld DEF PutSlotBack
<1>8. ASSUME NEW r \in Watched, StopPoller(r)
      PROVE  TasksHeld'
  <2>1. poller[r].answer = {}
    BY <1>8, NoAnswer DEF StopPoller, TasksHeld
  <2> QED
    BY <1>8, <2>1, QuietHeld DEF StopPoller
<1>9. ASSUME NEW r \in Watched, NEW t \in Jobs, HandOver(r, t)
      PROVE  TasksHeld'
  <2>1. job[t] = "none" /\ row[t] # "queued" /\ RuntimeOf[t] = r
    BY <1>9 DEF HandOver, TasksHeld, AnswersFresh, QueuedUntouched
  <2>2. job'[t] = "starting" /\ \A u \in Jobs \ {t} : job'[u] = job[u]
    BY <1>9 DEF HandOver, ClientTypeOK
  <2>3. /\ poller'[r].answer = {}
        /\ \A q \in Watched \ {r} : poller'[q] = poller[q]
    <3>1. AtPoller(r, "idle", {})
      BY <1>9 DEF HandOver
    <3> QED
      BY <3>1, PollerAt
  <2>4. UNCHANGED <<row, up, adrift>>
    BY <1>9 DEF HandOver
  <2>5. \A q \in Watched : t \notin poller'[q].answer
    BY <2>1, <2>3 DEF TasksHeld, AnswersFresh
  <2>6. AnswersFresh'
    <3> SUFFICES ASSUME NEW q \in Watched, NEW u \in poller'[q].answer
                 PROVE  /\ poller'[q].pc = "answered" /\ \A s \in poller'[q].answer : s = u
                        /\ RuntimeOf[u] = q /\ job'[u] = "none"
      BY DEF AnswersFresh
    <3>1. q # r /\ u # t
      BY <2>3, <2>5
    <3>2. u \in poller[q].answer /\ poller'[q] = poller[q]
      BY <2>3, <3>1
    <3>3. u \in Jobs
      BY <3>2, AnswerType
    <3> QED
      BY <2>2, <3>1, <3>2, <3>3 DEF TasksHeld, AnswersFresh
  <2>7. QueuedUntouched'
    BY <2>1, <2>2, <2>3, <2>4 DEF TasksHeld, QueuedUntouched
  <2>8. StagesAgree'
    BY <2>2, <2>4 DEF TasksHeld, StagesAgree, ShouldInterrupt, Live
  <2>9. NoTaskDropped'
    <3>1. \A s \in poller[r].answer : s = t
      BY <1>9 DEF HandOver, TasksHeld, AnswersFresh
    <3> QED
      BY <2>2, <2>3, <2>4, <3>1 DEF TasksHeld, NoTaskDropped, InHand
  <2> QED
    BY <2>6, <2>7, <2>8, <2>9 DEF TasksHeld
<1>10. ASSUME NEW t \in Jobs, StartTask(t)
       PROVE  TasksHeld'
  BY <1>10, HandlerHeld DEF StartTask, InProcess, updates, ClientTypeOK
<1>11. ASSUME NEW t \in Jobs, StartTaskFails(t)
       PROVE  TasksHeld'
  BY <1>11, HandlerHeld DEF StartTaskFails, InProcess, updates, ClientTypeOK
<1>12. ASSUME NEW t \in Jobs, FailTask(t)
       PROVE  TasksHeld'
  BY <1>12, HandlerHeld DEF FailTask, InProcess, updates, ClientTypeOK
<1>13. ASSUME NEW t \in Jobs, FailTaskFails(t)
       PROVE  TasksHeld'
  BY <1>13, HandlerHeld DEF FailTaskFails, InProcess, updates, ClientTypeOK
<1>14. ASSUME NEW t \in Jobs, WatchCancellation(t)
       PROVE  TasksHeld'
  BY <1>14, HandlerHeld DEF WatchCancellation, InProcess, ShouldInterrupt, updates,
      ClientTypeOK
<1>15. ASSUME NEW t \in Jobs, AgentEnds(t)
       PROVE  TasksHeld'
  <2>1. /\ job[t] \in {"working", "completed", "other", "error", "reporting"}
              => row[t] # "dispatched"
        /\ job[t] = "interrupted" => row[t] \in {"cancelled", "deleted"}
        /\ job[t] \in {"finishing", "slot back", "inactive"} /\ up = "up"
              => t \in adrift \/ row[t] \notin {"dispatched", "running"}
    BY DEF TasksHeld, StagesAgree, ShouldInterrupt, Live
  <2> QED
    <3>1. PICK result \in {"completed", "other", "error"} : Moves(t, "working", result)
      BY <1>15 DEF AgentEnds
    <3>2. UNCHANGED <<row, up, poller, adrift>>
      BY <1>15 DEF AgentEnds, InProcess
    <3>3. row[t] # "dispatched"
      BY <2>1, <3>1 DEF Moves
    <3> QED
      BY <3>1, <3>2, <3>3, HandlerHeld
<1>16. ASSUME NEW t \in Jobs, Discard(t)
       PROVE  TasksHeld'
  <2>1. /\ job[t] \in {"working", "completed", "other", "error", "reporting"}
              => row[t] # "dispatched"
        /\ job[t] = "interrupted" => row[t] \in {"cancelled", "deleted"}
        /\ job[t] \in {"finishing", "slot back", "inactive"} /\ up = "up"
              => t \in adrift \/ row[t] \notin {"dispatched", "running"}
    BY DEF TasksHeld, StagesAgree, ShouldInterrupt, Live
  <2> QED
    <3>1. /\ Moves(t, "interrupted", "finishing") /\ job[t] = "interrupted"
          /\ UNCHANGED <<up, poller, row, adrift>>
      BY <1>16 DEF Discard, InProcess, Moves
    <3>2. row'[t] \in {"cancelled", "deleted"}
      BY <2>1, <3>1
    <3> QED
      BY <3>1, <3>2, HandlerHeld
<1>17. ASSUME NEW t \in Jobs, CheckBeforeReport(t)
       PROVE  TasksHeld'
  <2>1. /\ job[t] \in {"working", "completed", "other", "error", "reporting"}
              => row[t] # "dispatched"
        /\ job[t] = "interrupted" => row[t] \in {"cancelled", "deleted"}
        /\ job[t] \in {"finishing", "slot back", "inactive"} /\ up = "up"
              => t \in adrift \/ row[t] \notin {"dispatched", "running"}
    BY DEF TasksHeld, StagesAgree, ShouldInterrupt, Live
  <2> QED
    <3>1. UNCHANGED <<row, up, poller, adrift>>
      BY <1>17 DEF CheckBeforeReport, InProcess
    <3>2. \/ Moves(t, "error", "failing")
          \/ \E from \in {"completed", "other"} :
                \E to \in {"reporting", "failing", "finishing"} :
                  /\ Moves(t, from, to)
                  /\ to = "finishing" => ShouldInterrupt(t)
      BY <1>17 DEF CheckBeforeReport
    <3>3. CASE Moves(t, "error", "failing")
      BY <3>1, <3>3, HandlerHeld
    <3>4. ASSUME NEW from \in {"completed", "other"},
                 NEW to \in {"reporting", "failing", "finishing"}, Moves(t, from, to),
                 to = "finishing" => ShouldInterrupt(t)
          PROVE  TasksHeld'
      <4>1. row[t] # "dispatched" /\ (to = "finishing" => row[t] \notin {"dispatched", "running"})
        BY <2>1, <3>4 DEF Moves, ShouldInterrupt
      <4> QED
        BY <3>1, <3>4, <4>1, HandlerHeld
    <3> QED
      BY <3>2, <3>3, <3>4
<1>18. ASSUME NEW t \in Jobs, CompleteTask(t)
       PROVE  TasksHeld'
  <2>1. /\ job[t] \in {"working", "completed", "other", "error", "reporting"}
              => row[t] # "dispatched"
        /\ job[t] = "interrupted" => row[t] \in {"cancelled", "deleted"}
        /\ job[t] \in {"finishing", "slot back", "inactive"} /\ up = "up"
              => t \in adrift \/ row[t] \notin {"dispatched", "running"}
    BY DEF TasksHeld, StagesAgree, ShouldInterrupt, Live
  <2> QED
    <3>1. Moves(t, "reporting", "finishing") /\ UNCHANGED <<up, poller, adrift>>
      BY <1>18 DEF CompleteTask, InProcess
    <3>2. row[t] # "dispatched"
      BY <2>1, <3>1 DEF Moves
    <3>3. /\ \A u \in Jobs \ {t} : row'[u] = row[u]
          /\ row'[t] = IF row[t] = "running" THEN "completed" ELSE row[t]
      BY <1>18 DEF CompleteTask, ClientTypeOK
    <3> QED
      BY <3>1, <3>2, <3>3, HandlerHeld
<1>19. ASSUME NEW t \in Jobs, CompleteTaskFails(t)
       PROVE  TasksHeld'
  <2>1. /\ job[t] \in {"working", "completed", "other", "error", "reporting"}
              => row[t] # "dispatched"
        /\ job[t] = "interrupted" => row[t] \in {"cancelled", "deleted"}
        /\ job[t] \in {"finishing", "slot back", "inactive"} /\ up = "up"
              => t \in adrift \/ row[t] \notin {"dispatched", "running"}
    BY DEF TasksHeld, StagesAgree, ShouldInterrupt, Live
  <2> QED
    <3>1. Moves(t, "reporting", "failing") /\ UNCHANGED <<up, poller, adrift>>
      BY <1>19 DEF CompleteTaskFails, InProcess
    <3>2. row[t] # "dispatched"
      BY <2>1, <3>1 DEF Moves
    <3>3. /\ \A u \in Jobs \ {t} : row'[u] = row[u]
          /\ row'[t] \in {row[t], "completed"}
      BY <1>19 DEF CompleteTaskFails, ClientTypeOK
    <3> QED
      BY <3>1, <3>2, <3>3, HandlerHeld
<1>20. ASSUME NEW t \in Jobs, ReturnSlot(t)
       PROVE  TasksHeld'
  <2>1. /\ job[t] \in {"working", "completed", "other", "error", "reporting"}
              => row[t] # "dispatched"
        /\ job[t] = "interrupted" => row[t] \in {"cancelled", "deleted"}
        /\ job[t] \in {"finishing", "slot back", "inactive"} /\ up = "up"
              => t \in adrift \/ row[t] \notin {"dispatched", "running"}
    BY DEF TasksHeld, StagesAgree, ShouldInterrupt, Live
  <2> QED
    <3>1. Moves(t, "finishing", "slot back") /\ UNCHANGED <<row, up, poller, adrift>>
      BY <1>20 DEF ReturnSlot
    <3>2. up = "up" => t \in adrift \/ row[t] \notin {"dispatched", "running"}
      BY <2>1, <3>1 DEF Moves
    <3> QED
      BY <3>1, <3>2, HandlerHeld
<1>21. ASSUME NEW t \in Jobs, LeaveActive(t)
       PROVE  TasksHeld'
  <2>1. /\ job[t] \in {"working", "completed", "other", "error", "reporting"}
              => row[t] # "dispatched"
        /\ job[t] = "interrupted" => row[t] \in {"cancelled", "deleted"}
        /\ job[t] \in {"finishing", "slot back", "inactive"} /\ up = "up"
              => t \in adrift \/ row[t] \notin {"dispatched", "running"}
    BY DEF TasksHeld, StagesAgree, ShouldInterrupt, Live
  <2> QED
    <3>1. Moves(t, "slot back", "inactive") /\ UNCHANGED <<row, up, poller, adrift>>
      BY <1>21 DEF LeaveActive
    <3>2. up = "up" => t \in adrift \/ row[t] \notin {"dispatched", "running"}
      BY <2>1, <3>1 DEF Moves
    <3> QED
      BY <3>1, <3>2, HandlerHeld
<1>22. ASSUME NEW t \in Jobs, LeaveClaim(t)
       PROVE  TasksHeld'
  <2>1. /\ job[t] \in {"working", "completed", "other", "error", "reporting"}
              => row[t] # "dispatched"
        /\ job[t] = "interrupted" => row[t] \in {"cancelled", "deleted"}
        /\ job[t] \in {"finishing", "slot back", "inactive"} /\ up = "up"
              => t \in adrift \/ row[t] \notin {"dispatched", "running"}
    BY DEF TasksHeld, StagesAgree, ShouldInterrupt, Live
  <2> QED
    <3>1. Moves(t, "inactive", "none") /\ UNCHANGED <<row, up, poller, adrift>>
      BY <1>22 DEF LeaveClaim
    <3>2. up = "up" => t \in adrift \/ row[t] \notin {"dispatched", "running"}
      BY <2>1, <3>1 DEF Moves
    <3> QED
      BY <3>1, <3>2, HandlerHeld
<1>23. ASSUME NEW t \in Jobs, CancelTask(t)
       PROVE  TasksHeld'
  BY <1>23, RowsHeld DEF CancelTask, OnServer, ClientTypeOK
<1>24. ASSUME NEW t \in Jobs, FailOnServer(t)
       PROVE  TasksHeld'
  BY <1>24, RowsHeld DEF FailOnServer, OnServer, ClientTypeOK
<1>25. ASSUME NEW r \in Watched, DeleteRuntime(r)
       PROVE  TasksHeld'
  BY <1>25, RowsHeld DEF DeleteRuntime, OnServer, ClientTypeOK
<1>26. ASSUME AutoCheck
       PROVE  TasksHeld'
  BY <1>26, RowsHeld DEF AutoCheck, Updating
<1>27. ASSUME AutoFetched
       PROVE  TasksHeld'
  BY <1>27, RowsHeld DEF AutoFetched, Updating
<1>28. ASSUME TrySetClaimBarrier
       PROVE  TasksHeld'
  BY <1>28, RowsHeld DEF TrySetClaimBarrier, Updating
<1>29. ASSUME AutoUpgradeFails
       PROVE  TasksHeld'
  BY <1>29, RowsHeld DEF AutoUpgradeFails, Updating
<1>30. ASSUME AutoUnwind
       PROVE  TasksHeld'
  BY <1>30, RowsHeld DEF AutoUnwind, Updating
<1>31. ASSUME AutoRestart
       PROVE  TasksHeld'
  BY <1>31, RowsHeld DEF AutoRestart, Updating, TriggerRestart
<1>32. ASSUME ManualBegin
       PROVE  TasksHeld'
  BY <1>32, RowsHeld DEF ManualBegin, Updating
<1>33. ASSUME ManualRestart
       PROVE  TasksHeld'
  BY <1>33, RowsHeld DEF ManualRestart, Updating, TriggerRestart
<1>34. ASSUME ManualEnd
       PROVE  TasksHeld'
  BY <1>34, RowsHeld DEF ManualEnd, Updating
<1>35. ASSUME Exit
       PROVE  TasksHeld'
  BY <1>35, EndedHeld DEF Exit
<1>36. ASSUME Killed
       PROVE  TasksHeld'
  BY <1>36, EndedHeld DEF Killed
<1>37. ASSUME StartProcess
       PROVE  TasksHeld'
  <2>1. \A t \in Jobs : job[t] = "none" /\ job'[t] = "none"
    BY <1>37 DEF StartProcess, DownIsEmpty
  <2>2. \A r \in Watched : poller[r].answer = {} /\ poller'[r].answer = {}
    BY <1>37 DEF StartProcess, DownIsEmpty, AtPc
  <2>3. PICK lost \in SUBSET Watched :
          /\ row' = [t \in Jobs |-> IF Recovered(t, lost) THEN "failed" ELSE row[t]]
          /\ adrift' = {t \in Jobs : RuntimeOf[t] \in lost}
    BY <1>37 DEF StartProcess
  <2>4. \A t \in Jobs : row'[t] \in {"dispatched", "running"} => t \in adrift'
    BY <2>3 DEF Recovered
  <2>5. AnswersFresh' /\ QueuedUntouched'
    BY <2>1, <2>2 DEF AnswersFresh, QueuedUntouched
  <2>6. StagesAgree'
    BY <2>1 DEF StagesAgree
  <2>7. NoTaskDropped'
    BY <2>4 DEF NoTaskDropped
  <2> QED
    BY <2>5, <2>6, <2>7 DEF TasksHeld
<1> QED
  BY <1>1, <1>2, <1>3, <1>4, <1>5, <1>6, <1>7, <1>8, <1>9, <1>10, <1>11, <1>12, <1>13,
     <1>14, <1>15, <1>16, <1>17, <1>18, <1>19, <1>20, <1>21, <1>22, <1>23, <1>24,
     <1>25, <1>26, <1>27, <1>28, <1>29, <1>30, <1>31, <1>32, <1>33, <1>34, <1>35,
     <1>36, <1>37
  DEF ClientNext, PollerStep, TaskStep, ServerStep, UpdateStep

-----------------------------------------------------------------------------
\* With no process only the server moves, until the next process starts.
LEMMA DownMoves ==
  ASSUME ClientTypeOK, DownIsEmpty, up = "down", ClientNext
  PROVE  UNCHANGED <<up, poller, job, updates>> \/ up' = "up"
<1>0. /\ \A r \in Watched : poller[r].pc = "stopped"
      /\ \A t \in Jobs : job[t] = "none"
      /\ auto = "idle" /\ manual = "idle"
  BY DEF DownIsEmpty, AtPc
<1>1. ASSUME NEW r \in Watched, AcquireSlot(r)
      PROVE  UNCHANGED <<up, poller, job, updates>> \/ up' = "up"
  BY <1>1, <1>0 DEF AcquireSlot
<1>2. ASSUME NEW r \in Watched, TryEnterClaim(r)
      PROVE  UNCHANGED <<up, poller, job, updates>> \/ up' = "up"
  BY <1>2, <1>0 DEF TryEnterClaim
<1>3. ASSUME NEW r \in Watched, ServeClaim(r)
      PROVE  UNCHANGED <<up, poller, job, updates>> \/ up' = "up"
  BY <1>3, <1>0 DEF ServeClaim
<1>4. ASSUME NEW r \in Watched, NoTask(r)
      PROVE  UNCHANGED <<up, poller, job, updates>> \/ up' = "up"
  BY <1>4, <1>0 DEF NoTask
<1>5. ASSUME NEW r \in Watched, ClaimFails(r)
      PROVE  UNCHANGED <<up, poller, job, updates>> \/ up' = "up"
  BY <1>5, <1>0 DEF ClaimFails, ClaimingPollers
<1>6. ASSUME NEW r \in Watched, RuntimeNotFound(r)
      PROVE  UNCHANGED <<up, poller, job, updates>> \/ up' = "up"
  BY <1>6, <1>0 DEF RuntimeNotFound
<1>7. ASSUME NEW r \in Watched, PutSlotBack(r)
      PROVE  UNCHANGED <<up, poller, job, updates>> \/ up' = "up"
  BY <1>7, <1>0 DEF PutSlotBack
<1>8. ASSUME NEW r \in Watched, StopPoller(r)
      PROVE  UNCHANGED <<up, poller, job, updates>> \/ up' = "up"
  BY <1>8, <1>0 DEF StopPoller
<1>9. ASSUME NEW r \in Watched, NEW t \in Jobs, HandOver(r, t)
      PROVE  UNCHANGED <<up, poller, job, updates>> \/ up' = "up"
  BY <1>9, <1>0 DEF HandOver
<1>10. ASSUME NEW t \in Jobs, StartTask(t)
       PROVE  UNCHANGED <<up, poller, job, updates>> \/ up' = "up"
  BY <1>10, <1>0 DEF StartTask, Moves
<1>11. ASSUME NEW t \in Jobs, StartTaskFails(t)
       PROVE  UNCHANGED <<up, poller, job, updates>> \/ up' = "up"
  BY <1>11, <1>0 DEF StartTaskFails, Moves
<1>12. ASSUME NEW t \in Jobs, FailTask(t)
       PROVE  UNCHANGED <<up, poller, job, updates>> \/ up' = "up"
  BY <1>12, <1>0 DEF FailTask, Moves
<1>13. ASSUME NEW t \in Jobs, FailTaskFails(t)
       PROVE  UNCHANGED <<up, poller, job, updates>> \/ up' = "up"
  BY <1>13, <1>0 DEF FailTaskFails, Moves
<1>14. ASSUME NEW t \in Jobs, WatchCancellation(t)
       PROVE  UNCHANGED <<up, poller, job, updates>> \/ up' = "up"
  BY <1>14, <1>0 DEF WatchCancellation, Moves
<1>15. ASSUME NEW t \in Jobs, AgentEnds(t)
       PROVE  UNCHANGED <<up, poller, job, updates>> \/ up' = "up"
  BY <1>15, <1>0 DEF AgentEnds, Moves
<1>16. ASSUME NEW t \in Jobs, Discard(t)
       PROVE  UNCHANGED <<up, poller, job, updates>> \/ up' = "up"
  BY <1>16, <1>0 DEF Discard, Moves
<1>17. ASSUME NEW t \in Jobs, CheckBeforeReport(t)
       PROVE  UNCHANGED <<up, poller, job, updates>> \/ up' = "up"
  BY <1>17, <1>0 DEF CheckBeforeReport, Moves
<1>18. ASSUME NEW t \in Jobs, CompleteTask(t)
       PROVE  UNCHANGED <<up, poller, job, updates>> \/ up' = "up"
  BY <1>18, <1>0 DEF CompleteTask, Moves
<1>19. ASSUME NEW t \in Jobs, CompleteTaskFails(t)
       PROVE  UNCHANGED <<up, poller, job, updates>> \/ up' = "up"
  BY <1>19, <1>0 DEF CompleteTaskFails, Moves
<1>20. ASSUME NEW t \in Jobs, ReturnSlot(t)
       PROVE  UNCHANGED <<up, poller, job, updates>> \/ up' = "up"
  BY <1>20, <1>0 DEF ReturnSlot, Moves
<1>21. ASSUME NEW t \in Jobs, LeaveActive(t)
       PROVE  UNCHANGED <<up, poller, job, updates>> \/ up' = "up"
  BY <1>21, <1>0 DEF LeaveActive, Moves
<1>22. ASSUME NEW t \in Jobs, LeaveClaim(t)
       PROVE  UNCHANGED <<up, poller, job, updates>> \/ up' = "up"
  BY <1>22, <1>0 DEF LeaveClaim, Moves
<1>23. ASSUME NEW t \in Jobs, CancelTask(t)
       PROVE  UNCHANGED <<up, poller, job, updates>> \/ up' = "up"
  BY <1>23 DEF CancelTask, OnServer
<1>24. ASSUME NEW t \in Jobs, FailOnServer(t)
       PROVE  UNCHANGED <<up, poller, job, updates>> \/ up' = "up"
  BY <1>24 DEF FailOnServer, OnServer
<1>25. ASSUME NEW r \in Watched, DeleteRuntime(r)
       PROVE  UNCHANGED <<up, poller, job, updates>> \/ up' = "up"
  BY <1>25 DEF DeleteRuntime, OnServer
<1>26. ASSUME AutoCheck
       PROVE  UNCHANGED <<up, poller, job, updates>> \/ up' = "up"
  BY <1>26 DEF AutoCheck
<1>27. ASSUME AutoFetched
       PROVE  UNCHANGED <<up, poller, job, updates>> \/ up' = "up"
  BY <1>27, <1>0 DEF AutoFetched, AutoStep
<1>28. ASSUME TrySetClaimBarrier
       PROVE  UNCHANGED <<up, poller, job, updates>> \/ up' = "up"
  BY <1>28, <1>0 DEF TrySetClaimBarrier, AutoStep
<1>29. ASSUME AutoUpgradeFails
       PROVE  UNCHANGED <<up, poller, job, updates>> \/ up' = "up"
  BY <1>29, <1>0 DEF AutoUpgradeFails, AutoStep
<1>30. ASSUME AutoUnwind
       PROVE  UNCHANGED <<up, poller, job, updates>> \/ up' = "up"
  BY <1>30, <1>0 DEF AutoUnwind, AutoStep
<1>31. ASSUME AutoRestart
       PROVE  UNCHANGED <<up, poller, job, updates>> \/ up' = "up"
  BY <1>31, <1>0 DEF AutoRestart, AutoStep
<1>32. ASSUME ManualBegin
       PROVE  UNCHANGED <<up, poller, job, updates>> \/ up' = "up"
  BY <1>32 DEF ManualBegin
<1>33. ASSUME ManualRestart
       PROVE  UNCHANGED <<up, poller, job, updates>> \/ up' = "up"
  BY <1>33, <1>0 DEF ManualRestart, ManualStep
<1>34. ASSUME ManualEnd
       PROVE  UNCHANGED <<up, poller, job, updates>> \/ up' = "up"
  BY <1>34, <1>0 DEF ManualEnd, ManualStep
<1>35. ASSUME Exit
       PROVE  UNCHANGED <<up, poller, job, updates>> \/ up' = "up"
  BY <1>35 DEF Exit
<1>36. ASSUME Killed
       PROVE  UNCHANGED <<up, poller, job, updates>> \/ up' = "up"
  BY <1>36 DEF Killed
<1>37. ASSUME StartProcess
       PROVE  UNCHANGED <<up, poller, job, updates>> \/ up' = "up"
  BY <1>37 DEF StartProcess
<1> QED
  BY <1>1, <1>2, <1>3, <1>4, <1>5, <1>6, <1>7, <1>8, <1>9, <1>10, <1>11, <1>12, <1>13,
     <1>14, <1>15, <1>16, <1>17, <1>18, <1>19, <1>20, <1>21, <1>22, <1>23, <1>24,
     <1>25, <1>26, <1>27, <1>28, <1>29, <1>30, <1>31, <1>32, <1>33, <1>34, <1>35,
     <1>36, <1>37
  DEF ClientNext, PollerStep, TaskStep, ServerStep, UpdateStep

\* Only the end of a process takes it down.
LEMMA GoesDown ==
  ASSUME ClientNext, up # "down", up' = "down"
  PROVE  Ended
<1>1. ASSUME NEW r \in Watched, AcquireSlot(r)
      PROVE  Ended
  BY <1>1 DEF AcquireSlot
<1>2. ASSUME NEW r \in Watched, TryEnterClaim(r)
      PROVE  Ended
  BY <1>2 DEF TryEnterClaim
<1>3. ASSUME NEW r \in Watched, ServeClaim(r)
      PROVE  Ended
  BY <1>3 DEF ServeClaim
<1>4. ASSUME NEW r \in Watched, NoTask(r)
      PROVE  Ended
  BY <1>4 DEF NoTask
<1>5. ASSUME NEW r \in Watched, ClaimFails(r)
      PROVE  Ended
  BY <1>5 DEF ClaimFails
<1>6. ASSUME NEW r \in Watched, RuntimeNotFound(r)
      PROVE  Ended
  BY <1>6 DEF RuntimeNotFound
<1>7. ASSUME NEW r \in Watched, PutSlotBack(r)
      PROVE  Ended
  BY <1>7 DEF PutSlotBack
<1>8. ASSUME NEW r \in Watched, StopPoller(r)
      PROVE  Ended
  BY <1>8 DEF StopPoller
<1>9. ASSUME NEW r \in Watched, NEW t \in Jobs, HandOver(r, t)
      PROVE  Ended
  BY <1>9 DEF HandOver
<1>10. ASSUME NEW t \in Jobs, StartTask(t)
       PROVE  Ended
  BY <1>10 DEF StartTask, InProcess
<1>11. ASSUME NEW t \in Jobs, StartTaskFails(t)
       PROVE  Ended
  BY <1>11 DEF StartTaskFails, InProcess
<1>12. ASSUME NEW t \in Jobs, FailTask(t)
       PROVE  Ended
  BY <1>12 DEF FailTask, InProcess
<1>13. ASSUME NEW t \in Jobs, FailTaskFails(t)
       PROVE  Ended
  BY <1>13 DEF FailTaskFails, InProcess
<1>14. ASSUME NEW t \in Jobs, WatchCancellation(t)
       PROVE  Ended
  BY <1>14 DEF WatchCancellation, InProcess
<1>15. ASSUME NEW t \in Jobs, AgentEnds(t)
       PROVE  Ended
  BY <1>15 DEF AgentEnds, InProcess
<1>16. ASSUME NEW t \in Jobs, Discard(t)
       PROVE  Ended
  BY <1>16 DEF Discard, InProcess
<1>17. ASSUME NEW t \in Jobs, CheckBeforeReport(t)
       PROVE  Ended
  BY <1>17 DEF CheckBeforeReport, InProcess
<1>18. ASSUME NEW t \in Jobs, CompleteTask(t)
       PROVE  Ended
  BY <1>18 DEF CompleteTask, InProcess
<1>19. ASSUME NEW t \in Jobs, CompleteTaskFails(t)
       PROVE  Ended
  BY <1>19 DEF CompleteTaskFails, InProcess
<1>20. ASSUME NEW t \in Jobs, ReturnSlot(t)
       PROVE  Ended
  BY <1>20 DEF ReturnSlot
<1>21. ASSUME NEW t \in Jobs, LeaveActive(t)
       PROVE  Ended
  BY <1>21 DEF LeaveActive
<1>22. ASSUME NEW t \in Jobs, LeaveClaim(t)
       PROVE  Ended
  BY <1>22 DEF LeaveClaim
<1>23. ASSUME NEW t \in Jobs, CancelTask(t)
       PROVE  Ended
  BY <1>23 DEF CancelTask, OnServer
<1>24. ASSUME NEW t \in Jobs, FailOnServer(t)
       PROVE  Ended
  BY <1>24 DEF FailOnServer, OnServer
<1>25. ASSUME NEW r \in Watched, DeleteRuntime(r)
       PROVE  Ended
  BY <1>25 DEF DeleteRuntime, OnServer
<1>26. ASSUME AutoCheck
       PROVE  Ended
  BY <1>26 DEF AutoCheck, Updating
<1>27. ASSUME AutoFetched
       PROVE  Ended
  BY <1>27 DEF AutoFetched, Updating
<1>28. ASSUME TrySetClaimBarrier
       PROVE  Ended
  BY <1>28 DEF TrySetClaimBarrier, Updating
<1>29. ASSUME AutoUpgradeFails
       PROVE  Ended
  BY <1>29 DEF AutoUpgradeFails, Updating
<1>30. ASSUME AutoUnwind
       PROVE  Ended
  BY <1>30 DEF AutoUnwind, Updating
<1>31. ASSUME AutoRestart
       PROVE  Ended
  BY <1>31 DEF AutoRestart, Updating, TriggerRestart
<1>32. ASSUME ManualBegin
       PROVE  Ended
  BY <1>32 DEF ManualBegin, ManualStep, Updating
<1>33. ASSUME ManualRestart
       PROVE  Ended
  BY <1>33 DEF ManualRestart, ManualStep, Updating, TriggerRestart
<1>34. ASSUME ManualEnd
       PROVE  Ended
  BY <1>34 DEF ManualEnd, ManualStep, Updating
<1>35. ASSUME Exit
       PROVE  Ended
  BY <1>35 DEF Exit
<1>36. ASSUME Killed
       PROVE  Ended
  BY <1>36 DEF Killed
<1>37. ASSUME StartProcess
       PROVE  Ended
  BY <1>37 DEF StartProcess
<1> QED
  BY <1>1, <1>2, <1>3, <1>4, <1>5, <1>6, <1>7, <1>8, <1>9, <1>10, <1>11, <1>12, <1>13,
     <1>14, <1>15, <1>16, <1>17, <1>18, <1>19, <1>20, <1>21, <1>22, <1>23, <1>24,
     <1>25, <1>26, <1>27, <1>28, <1>29, <1>30, <1>31, <1>32, <1>33, <1>34, <1>35,
     <1>36, <1>37
  DEF ClientNext, PollerStep, TaskStep, ServerStep, UpdateStep

LEMMA DownStep ==
  ASSUME ClientTypeOK, DownIsEmpty, ClientNext
  PROVE  DownIsEmpty'
<1>1. CASE up = "down"
  BY <1>1, DownMoves DEF DownIsEmpty, updates
<1>2. CASE up # "down"
  BY <1>2, GoesDown DEF Ended, DownIsEmpty
<1> QED
  BY <1>1, <1>2

-----------------------------------------------------------------------------
LEMMA ClientStarts ==
  ASSUME ClientInit
  PROVE  ClientInv
<1>1. ClientTypeOK
  <2>1. row \in [Jobs -> Row] /\ job \in [Jobs -> Job]
    BY Members DEF ClientInit
  <2>2. poller \in [Watched -> Poller] /\ slots \in Int /\ gate \in Gate
    BY NewProcess DEF ClientInit
  <2>3. trouble \in 0..MaxTrouble
    BY ClientAssumption DEF ClientInit, ClientAssumption
  <2> QED
    BY <2>1, <2>2, <2>3 DEF ClientInit, ClientTypeOK
<1>2. /\ \A r \in Watched : poller[r].pc = "idle" /\ poller[r].answer = {}
      /\ \A t \in Jobs : row[t] = "queued" /\ job[t] = "none"
      /\ up = "up"
  BY DEF ClientInit, AtPc
<1>3. StagesAgree
  BY <1>2 DEF StagesAgree
<1>4. TasksHeld /\ DownIsEmpty
  BY <1>2, <1>3 DEF TasksHeld, AnswersFresh, QueuedUntouched, NoTaskDropped, DownIsEmpty
<1>5. ClaimingPollers = {} /\ InHand = {} /\ Active = {}
  BY <1>2 DEF ClaimingPollers, InHand, Active
<1>6. gate.claimsInFlight = 0 /\ gate.activeTasks = 0 /\ ~ gate.pauseClaims
  BY DEF ClientInit, OpenGate
<1>7. GateCounts /\ BarrierHolds
  BY <1>5, <1>6, FS_EmptySet DEF GateCounts, BarrierHolds
<1> QED
  BY <1>1, <1>4, <1>7 DEF ClientInv

LEMMA ClientStepKeeps ==
  ASSUME ClientInv, [ClientNext]_clientVars
  PROVE  ClientInv'
<1>1. CASE ClientNext
  <2>1. ClientTypeOK' /\ DownIsEmpty'
    BY <1>1, TypeStep, DownStep DEF ClientInv
  <2>2. TasksHeld'
    BY <1>1, TasksStep DEF ClientInv
  <2>3. Counted'
    BY <1>1, CountStep DEF ClientInv, Counted
  <2> QED
    BY <2>1, <2>2, <2>3 DEF ClientInv, Counted
<1>2. CASE UNCHANGED clientVars
  <2>1. ClientTypeOK'
    BY <1>2 DEF ClientInv, ClientTypeOK, clientVars
  <2>2. DownIsEmpty'
    BY <1>2 DEF ClientInv, DownIsEmpty, clientVars
  <2>4. AnswersFresh' /\ QueuedUntouched'
    BY <1>2 DEF ClientInv, TasksHeld, AnswersFresh, QueuedUntouched, clientVars
  <2>5. StagesAgree'
    BY <1>2 DEF ClientInv, TasksHeld, StagesAgree, ShouldInterrupt, Live, clientVars
  <2>6. NoTaskDropped'
    BY <1>2 DEF ClientInv, TasksHeld, NoTaskDropped, InHand, Live, clientVars
  <2>3. Counted'
    BY <1>2, NobodyMoves DEF ClientInv, Counted, clientVars
  <2>7. TasksHeld'
    BY <2>4, <2>5, <2>6 DEF TasksHeld
  <2> QED
    BY <2>1, <2>2, <2>3, <2>7 DEF ClientInv, Counted
<1> QED
  BY <1>1, <1>2

\* The daemon keeps its tasks, pollers and counters in agreement, through every
\* order of claims, reports, updates, shutdowns and deaths.
THEOREM ClientInvariant == ClientSpec => []ClientInv
<1>1. ClientInit => ClientInv
  BY ClientStarts
<1>2. ClientInv /\ [ClientNext]_clientVars => ClientInv'
  BY ClientStepKeeps
<1> QED
  BY <1>1, <1>2, PTL DEF ClientSpec

\* Type correctness: the fields of the daemon and the status of its tasks.
THEOREM ClientTypeCorrect == ClientSpec => []ClientTypeOK
<1>1. ClientInv => ClientTypeOK
  BY DEF ClientInv
<1> QED
  BY <1>1, ClientInvariant, PTL

\* While trySetClaimBarrier's barrier stands no poller has a claim out and no
\* task is in anybody's hands: an automatic update cancels no agent.
THEOREM BarrierAlwaysHolds == ClientSpec => []BarrierHolds
<1>1. ClientInv => BarrierHolds
  BY DEF ClientInv
<1> QED
  BY <1>1, ClientInvariant, PTL

\* What the server counts as dispatched to the daemon or running on it is in the
\* answer to a claim or in the hands of handleTask, unless a call was lost.
THEOREM NothingDropped == ClientSpec => []NoTaskDropped
<1>1. ClientInv => NoTaskDropped
  BY DEF ClientInv, TasksHeld
<1> QED
  BY <1>1, ClientInvariant, PTL

-----------------------------------------------------------------------------
(***************************************************************************)
(* The recovery of deleted runtimes.                                       *)
(***************************************************************************)
LEMMA RecoveryInit_Inv == RecoveryInit => RecoveryInv
<1> SUFFICES ASSUME RecoveryInit PROVE RecoveryInv
  OBVIOUS
<1> USE RecoveryAssumption
<1>1. Idle \in Call
  BY DEF Idle, Call
<1>2. Providers \X {1} \subseteq Ids
  BY DEF Ids
<1>3. RecoveryTypeOK
  BY <1>1, <1>2 DEF RecoveryInit, RecoveryTypeOK
<1>4. RowsMade
  <2>1. ASSUME NEW p \in Providers
        PROVE  serverRow[p] = 1 /\ made[p] = 1 /\ deletions = 0
    BY DEF RecoveryInit
  <2>2. 1 <= 1 /\ 1 <= 0 + 1 /\ 1 # 0
    OBVIOUS
  <2> QED
    BY <2>1, <2>2 DEF RowsMade
<1>5. \A id \in tracked : id[2] <= made[id[1]]
  BY DEF RecoveryInit
<1>6. AnswersWhole /\ SlotHeld
  BY DEF RecoveryInit, AnswersWhole, SlotHeld, At, Idle
<1>7. \A p \in Providers : Provided(p)
  <2> TAKE p \in Providers
  <2>1. <<p, 1>> \in tracked /\ <<p, 1>>[1] = p
    BY DEF RecoveryInit
  <2> QED
    BY <2>1 DEF Provided
<1> QED
  BY <1>3, <1>4, <1>5, <1>6, <1>7 DEF RecoveryInv

\* Calls that wait for no registration may change at will, if none is lost.
LEMMA CallsMove ==
  ASSUME RecoveryInv, NEW c \in Callers, NEW new \in Call,
         call' = [call EXCEPT ![c] = new]
  PROVE  /\ call' \in [Callers -> Call]
         /\ call'[c] = new
         /\ \A d \in Callers : d # c => call'[d] = call[d]
BY DEF RecoveryInv, RecoveryTypeOK

LEMMA DeleteRowKeeps ==
  ASSUME RecoveryInv, NEW p \in Providers, DeleteRow(p)
  PROVE  RecoveryInv'
<1> USE RecoveryAssumption
<1>1. RecoveryTypeOK'
  BY DEF DeleteRow, RecoveryInv, RecoveryTypeOK
<1>2. RowsMade'
  BY DEF DeleteRow, RecoveryInv, RecoveryTypeOK, RowsMade
<1>3. (\A id \in tracked : id[2] <= made[id[1]])' /\ AnswersWhole' /\ SlotHeld'
  BY DEF DeleteRow, RecoveryInv, AnswersWhole, SlotHeld, At
<1>4. (\A q \in Providers \ forgone : Provided(q))'
  BY DEF DeleteRow, RecoveryInv, Provided, At
<1> QED
  BY <1>1, <1>2, <1>3, <1>4 DEF RecoveryInv

LEMMA RuntimeGoneKeeps ==
  ASSUME RecoveryInv, NEW i \in Ids, RuntimeGone(i)
  PROVE  RecoveryInv'
<1> DEFINE new == [call[i] EXCEPT !.pc = "entered"]
<1>1. i \in Callers /\ call[i] \in Call /\ new \in Call /\ new.pc = "entered"
  BY DEF Callers, RecoveryInv, RecoveryTypeOK, Call
<1>2. call' = [call EXCEPT ![i] = new]
  BY <1>1 DEF RuntimeGone, RecoveryInv, RecoveryTypeOK
<1> HIDE DEF new
<1>3. /\ call' \in [Callers -> Call] /\ call'[i].pc = "entered"
      /\ \A d \in Callers : d # i => call'[d] = call[d]
  BY <1>1, <1>2, CallsMove
<1>4. UNCHANGED <<serverRow, made, tracked, slot, forgone, deletions, mishaps>>
  BY DEF RuntimeGone, onServer
<1>5. RecoveryTypeOK' /\ RowsMade' /\ (\A id \in tracked : id[2] <= made[id[1]])'
  BY <1>3, <1>4 DEF RecoveryInv, RecoveryTypeOK, RowsMade
<1>6. AnswersWhole'
  BY <1>3, <1>4 DEF RecoveryInv, AnswersWhole, At
<1>7. call[i].pc = "idle"
  BY DEF RuntimeGone, At
<1>8. SlotHeld'
  BY <1>3, <1>4, <1>7 DEF RecoveryInv, SlotHeld, Callers
<1>9. (\A q \in Providers \ forgone : Provided(q))'
  BY <1>3, <1>4, <1>7 DEF RecoveryInv, Provided, At, Callers
<1> QED
  BY <1>5, <1>6, <1>8, <1>9 DEF RecoveryInv

LEMMA RemoveStaleKeeps ==
  ASSUME RecoveryInv, NEW i \in Ids, RemoveStaleRuntime(i)
  PROVE  RecoveryInv'
<1> DEFINE new == IF i \in tracked THEN [call[i] EXCEPT !.pc = "removed"] ELSE Idle
<1>1. i \in Callers /\ call[i] \in Call /\ new \in Call
  BY DEF Callers, RecoveryInv, RecoveryTypeOK, Call, Idle
<1>2. call' = [call EXCEPT ![i] = new]
  BY <1>1 DEF RemoveStaleRuntime, RecoveryInv, RecoveryTypeOK
<1>3. new.pc \in {"removed", "idle"} /\ (i \in tracked => new.pc = "removed")
  BY <1>1 DEF Idle, Call
<1> HIDE DEF new
<1>4. /\ call' \in [Callers -> Call] /\ call'[i] = new
      /\ \A d \in Callers : d # i => call'[d] = call[d]
  BY <1>1, <1>2, CallsMove
<1>5. /\ UNCHANGED <<serverRow, made, slot, forgone, deletions, mishaps>>
      /\ tracked' = tracked \ {i} /\ call[i].pc = "entered"
  BY DEF RemoveStaleRuntime, onServer, At
<1>6. RecoveryTypeOK' /\ RowsMade' /\ (\A id \in tracked : id[2] <= made[id[1]])'
  BY <1>4, <1>5 DEF RecoveryInv, RecoveryTypeOK, RowsMade
<1>7. AnswersWhole'
  BY <1>3, <1>4, <1>5 DEF RecoveryInv, AnswersWhole, At
<1>8. SlotHeld'
  BY <1>4, <1>5 DEF RecoveryInv, SlotHeld, Callers
<1>9. ASSUME NEW q \in Providers, q \notin forgone
      PROVE  Provided(q)'
  <2>1. Provided(q)
    BY <1>9 DEF RecoveryInv
  <2>2. CASE tracked = {} \/ \E id \in tracked : id[1] = q /\ id # i
    BY <2>2, <1>5 DEF Provided
  <2>3. CASE i \in tracked /\ i[1] = q
    BY <2>3, <1>3, <1>4 DEF Provided, At
  <2>4. CASE \E id \in Ids : id[1] = q /\ At(id, "removed")
    BY <2>4, <1>4, <1>5 DEF Provided, At, Callers
  <2>5. CASE \E c \in Callers : At(c, "asking") \/ At(c, "answered")
    BY <2>5, <1>4, <1>5 DEF Provided, At
  <2> QED
    BY <2>1, <2>2, <2>3, <2>4, <2>5 DEF Provided
<1> QED
  BY <1>5, <1>6, <1>7, <1>8, <1>9 DEF RecoveryInv

\* A registration goes out: whoever is left out, it will decide about.
LEMMA RegisterKeeps ==
  ASSUME RecoveryInv, NEW c \in Callers, Register(c),
         UNCHANGED <<serverRow, made, tracked, forgone, deletions>>,
         At(c, "removed") \/ At(c, "idle"),
         slot' \in {"free", "held", "backoff"},
         slot' = "held" => slot = "held" \/ c \in Ids
  PROVE  RecoveryInv'
<1> USE RecoveryAssumption
<1>1. PICK asked \in SUBSET Providers \ {{}} :
         /\ IF asked = Providers THEN UNCHANGED mishaps ELSE Mishap
         /\ call' = [call EXCEPT ![c] = [@ EXCEPT !.pc = "asking", !.asked = asked]]
  BY DEF Register
<1> DEFINE new == [call[c] EXCEPT !.pc = "asking", !.asked = asked]
<1>2. call[c] \in Call /\ new \in Call /\ new.pc = "asking"
  BY <1>1 DEF RecoveryInv, RecoveryTypeOK, Call
<1>3. call' = [call EXCEPT ![c] = new]
  BY <1>1 DEF RecoveryInv, RecoveryTypeOK
<1> HIDE DEF new
<1>4. /\ call' \in [Callers -> Call] /\ call'[c].pc = "asking"
      /\ \A d \in Callers : d # c => call'[d] = call[d]
  BY <1>2, <1>3, CallsMove
<1>5. mishaps' \in 0..MaxMishaps
  BY <1>1 DEF Mishap, RecoveryInv, RecoveryTypeOK
<1>6. RecoveryTypeOK' /\ RowsMade' /\ (\A id \in tracked : id[2] <= made[id[1]])'
  BY <1>4, <1>5 DEF RecoveryInv, RecoveryTypeOK, RowsMade
<1>7. AnswersWhole'
  BY <1>4 DEF RecoveryInv, AnswersWhole, At
<1>8. SlotHeld'
  <2>1. CASE c \in Ids
    BY <2>1, <1>4 DEF SlotHeld
  <2>2. CASE c \notin Ids
    BY <2>2, <1>4 DEF RecoveryInv, SlotHeld, Callers
  <2> QED
    BY <2>1, <2>2
<1>9. (\A q \in Providers \ forgone : Provided(q))'
  BY <1>4 DEF Provided, At
<1> QED
  BY <1>6, <1>7, <1>8, <1>9 DEF RecoveryInv

LEMMA TryClaimKeeps ==
  ASSUME RecoveryInv, NEW i \in Ids, TryClaimRegisterSlot(i)
  PROVE  RecoveryInv'
<1>1. i \in Callers /\ call[i].pc = "removed" /\ Idle \in Call
  BY DEF Callers, TryClaimRegisterSlot, At, Idle, Call
<1>2. UNCHANGED <<serverRow, made, tracked, deletions>>
  BY DEF TryClaimRegisterSlot, onServer
<1>3. CASE ~ (slot # "free" \/ call[i].covered)
  <2>1. Register(i) /\ slot' = "held" /\ UNCHANGED forgone
    BY <1>3 DEF TryClaimRegisterSlot
  <2> QED
    BY <1>1, <1>2, <2>1, RegisterKeeps DEF At
<1>4. CASE slot # "free" \/ call[i].covered
  <2>1. /\ call' = [call EXCEPT ![i] = Idle]
        /\ forgone' = IF Excused(i) /\ ~ UnderWay(i[1], call', tracked)
                      THEN forgone \cup {i[1]} ELSE forgone
        /\ UNCHANGED <<slot, mishaps>>
    BY <1>4 DEF TryClaimRegisterSlot
  <2>2. /\ call' \in [Callers -> Call] /\ call'[i] = Idle
        /\ \A d \in Callers : d # i => call'[d] = call[d]
    BY <1>1, <2>1, CallsMove
  <2>3. i[1] \in Providers
    BY DEF Ids
  <2>4. RecoveryTypeOK' /\ RowsMade' /\ (\A id \in tracked : id[2] <= made[id[1]])'
    BY <1>2, <2>1, <2>2, <2>3 DEF RecoveryInv, RecoveryTypeOK, RowsMade
  <2>5. AnswersWhole'
    BY <1>2, <2>2 DEF RecoveryInv, AnswersWhole, At, Idle
  <2>6. SlotHeld'
    BY <1>1, <2>1, <2>2 DEF RecoveryInv, SlotHeld, Callers
  <2>7. ASSUME NEW q \in Providers, q \notin forgone'
        PROVE  Provided(q)'
    <3>1. Provided(q)
      BY <2>1, <2>7 DEF RecoveryInv
    <3>2. CASE tracked = {} \/ \E id \in tracked : id[1] = q
      BY <3>2, <1>2 DEF Provided
    <3>3. CASE \E id \in Ids : id[1] = q /\ id # i /\ At(id, "removed")
      BY <3>3, <2>2 DEF Provided, At, Callers
    <3>4. CASE \E c \in Callers : At(c, "asking") \/ At(c, "answered")
      BY <3>4, <1>1, <2>2 DEF Provided, At
    <3>5. CASE q = i[1] /\ UnderWay(q, call', tracked)
      <4>1. CASE serverRow[q] # 0 /\ RowOf(q) \in tracked
        BY <4>1, <1>2 DEF Provided, RowOf
      <4>2. CASE \E c \in Callers : call'[c].pc \in {"asking", "answered"}
        BY <4>2 DEF Provided, At
      <4> QED
        BY <3>5, <4>1, <4>2 DEF UnderWay
    <3>6. CASE ~ Excused(i)
      <4>1. slot = "held"
        BY <3>6, <1>4 DEF Excused, RecoveryInv, RecoveryTypeOK
      <4>2. PICK other \in Ids : call[other].pc = "asking"
        BY <3>6, <4>1 DEF Excused, RecoveryInv, SlotHeld
      <4> QED
        BY <4>2, <3>4 DEF At, Callers
    <3> QED
      BY <2>1, <2>7, <3>1, <3>2, <3>3, <3>4, <3>5, <3>6 DEF Provided
  <2> QED
    BY <2>4, <2>5, <2>6, <2>7 DEF RecoveryInv
<1> QED
  BY <1>3, <1>4

LEMMA SlotExpiresKeeps ==
  ASSUME RecoveryInv, SlotExpires
  PROVE  RecoveryInv'
<1>1. UNCHANGED <<serverRow, made, tracked, call, forgone, deletions, mishaps>>
  BY DEF SlotExpires, onServer
<1>2. RecoveryTypeOK' /\ RowsMade' /\ (\A id \in tracked : id[2] <= made[id[1]])'
  BY <1>1 DEF RecoveryInv, RecoveryTypeOK, RowsMade, SlotExpires
<1>3. AnswersWhole' /\ SlotHeld'
  BY <1>1 DEF RecoveryInv, AnswersWhole, SlotHeld, SlotExpires, At
<1>4. (\A q \in Providers \ forgone : Provided(q))'
  BY <1>1 DEF RecoveryInv, Provided, At
<1> QED
  BY <1>2, <1>3, <1>4 DEF RecoveryInv

LEMMA SyncRegistersKeeps ==
  ASSUME RecoveryInv, SyncRegisters
  PROVE  RecoveryInv'
<1>1. SyncLoop \in Callers /\ UNCHANGED <<serverRow, made, tracked, slot, forgone, deletions>>
  BY DEF Callers, SyncRegisters, onServer
<1>2. Register(SyncLoop) /\ At(SyncLoop, "idle") /\ slot \in {"free", "held", "backoff"}
  BY DEF SyncRegisters, RecoveryInv, RecoveryTypeOK
<1> QED
  BY <1>1, <1>2, RegisterKeeps

LEMMA ServeRegisterKeeps ==
  ASSUME RecoveryInv, NEW c \in Callers, ServeRegister(c)
  PROVE  RecoveryInv'
<1> USE RecoveryAssumption
<1> DEFINE fresh == {p \in call[c].asked : serverRow[p] = 0}
           answer == {<<p, serverRow'[p]>> : p \in call[c].asked}
           new == [call[c] EXCEPT !.pc = "answered", !.answer = answer]
<1>1. /\ made' = [p \in Providers |-> IF p \in fresh THEN made[p] + 1 ELSE made[p]]
      /\ serverRow' = [p \in Providers |-> IF p \in fresh THEN made'[p] ELSE serverRow[p]]
      /\ UNCHANGED <<tracked, slot, forgone, deletions, mishaps>>
      /\ call[c].pc = "asking"
  BY DEF ServeRegister, At
<1>2. call[c] \in Call /\ call[c].asked \subseteq Providers
  BY DEF RecoveryInv, RecoveryTypeOK, Call
<1>3. ASSUME NEW p \in Providers
      PROVE  /\ made'[p] \in 1..MaxDeletions + 1 /\ serverRow'[p] \in 0..MaxDeletions + 1
             /\ made[p] <= made'[p] /\ serverRow'[p] <= made'[p]
             /\ made'[p] <= deletions + 1 /\ (serverRow'[p] = 0 => made'[p] <= deletions)
             /\ p \in call[c].asked => serverRow'[p] # 0
    <2>1. made[p] \in 1..MaxDeletions + 1 /\ serverRow[p] \in 0..MaxDeletions + 1
          /\ deletions \in 0..MaxDeletions
      BY DEF RecoveryInv, RecoveryTypeOK
    <2>2. /\ serverRow[p] <= made[p] /\ made[p] <= deletions + 1
          /\ serverRow[p] = 0 => made[p] <= deletions
      BY DEF RecoveryInv, RowsMade
    <2>3. CASE p \in fresh
      <3>1. made'[p] = made[p] + 1 /\ serverRow'[p] = made[p] + 1 /\ serverRow[p] = 0
        BY <1>1, <2>3
      <3> HIDE DEF fresh
      <3> QED
        BY <3>1, <2>1, <2>2
    <2>4. CASE p \notin fresh
      <3>1. made'[p] = made[p] /\ serverRow'[p] = serverRow[p]
        BY <1>1, <2>4
      <3>2. p \in call[c].asked => serverRow[p] # 0
        BY <2>4
      <3> HIDE DEF fresh
      <3> QED
        BY <3>1, <3>2, <2>1, <2>2
    <2> QED
      BY <2>3, <2>4
<1>4. answer \subseteq Ids /\ new \in Call
  <2>1. answer \subseteq Ids
    BY <1>2, <1>3 DEF Ids
  <2> HIDE DEF answer
  <2> QED
    BY <1>2, <2>1 DEF Call
<1>5. call' = [call EXCEPT ![c] = new]
  BY DEF ServeRegister, RecoveryInv, RecoveryTypeOK
<1>6. new.pc = "answered" /\ new.asked = call[c].asked /\ new.answer = answer
  BY <1>2 DEF Call
<1> HIDE DEF new, fresh
<1>7. /\ call' \in [Callers -> Call] /\ call'[c] = new
      /\ \A d \in Callers : d # c => call'[d] = call[d]
  BY <1>4, <1>5, CallsMove
<1>8. made' \in [Providers -> 1..MaxDeletions + 1]
      /\ serverRow' \in [Providers -> 0..MaxDeletions + 1]
  <2>1. /\ made' = [p \in Providers |-> made'[p]]
        /\ serverRow' = [p \in Providers |-> serverRow'[p]]
    BY <1>1
  <2> QED
    BY <2>1, <1>3
<1>9. RecoveryTypeOK'
  BY <1>1, <1>7, <1>8 DEF RecoveryInv, RecoveryTypeOK
<1>10. RowsMade'
  BY <1>1, <1>3 DEF RowsMade
<1>11. ASSUME NEW id \in Ids, id[2] <= made[id[1]]
       PROVE  id[2] <= made'[id[1]]
  <2>1. id[1] \in Providers /\ id[2] \in Nat
    BY DEF Ids
  <2>2. made[id[1]] \in Nat /\ made'[id[1]] \in Nat /\ made[id[1]] <= made'[id[1]]
    BY <2>1, <1>3 DEF RecoveryInv, RecoveryTypeOK
  <2> QED
    BY <1>11, <2>1, <2>2
<1>12. (\A id \in tracked : id[2] <= made[id[1]])'
  BY <1>1, <1>11 DEF RecoveryInv, RecoveryTypeOK
<1>13. AnswersWhole'
  <2> SUFFICES ASSUME NEW d \in Callers, call'[d].pc = "answered"
               PROVE  /\ \A id \in call'[d].answer :
                            id[1] \in call'[d].asked /\ id[2] <= made'[id[1]]
                      /\ \A p \in call'[d].asked : \E id \in call'[d].answer : id[1] = p
    BY DEF AnswersWhole, At
  <2>1. CASE d = c
    <3>1. call'[d].answer = answer /\ call'[d].asked = call[c].asked
      BY <2>1, <1>6, <1>7
    <3>2. \A id \in answer : id[1] \in call[c].asked /\ id[2] <= made'[id[1]]
      BY <1>2, <1>3
    <3>3. ASSUME NEW p \in call[c].asked
          PROVE  \E id \in answer : id[1] = p
      <4>1. <<p, serverRow'[p]>> \in answer /\ <<p, serverRow'[p]>>[1] = p
        OBVIOUS
      <4> HIDE DEF answer
      <4> QED
        BY <4>1
    <3> HIDE DEF answer
    <3> QED
      BY <3>1, <3>2, <3>3
  <2>2. CASE d # c
    <3>1. call'[d] = call[d] /\ At(d, "answered") /\ call[d].answer \subseteq Ids
      BY <2>2, <1>7 DEF At, RecoveryInv, RecoveryTypeOK, Call
    <3>2. /\ \A id \in call[d].answer : id[1] \in call[d].asked /\ id[2] <= made[id[1]]
          /\ \A p \in call[d].asked : \E id \in call[d].answer : id[1] = p
      BY <3>1 DEF RecoveryInv, AnswersWhole
    <3> QED
      BY <3>1, <3>2, <1>11
  <2> QED
    BY <2>1, <2>2
<1>14. SlotHeld'
  BY <1>1, <1>6, <1>7 DEF RecoveryInv, SlotHeld, Callers
<1>15. (\A q \in Providers \ forgone : Provided(q))'
  BY <1>6, <1>7 DEF Provided, At
<1> QED
  BY <1>9, <1>10, <1>12, <1>13, <1>14, <1>15 DEF RecoveryInv

\* What the answer lacks is given up, and what it has is tracked.
LEMMA ReplaceRuntimesKeeps ==
  ASSUME RecoveryInv, NEW c \in Callers, ReplaceRuntimes(c)
  PROVE  RecoveryInv'
<1> DEFINE new == [call[c] EXCEPT !.pc = "recovering"]
<1>1. call[c] \in Call /\ new \in Call /\ new.pc = "recovering"
  BY DEF RecoveryInv, RecoveryTypeOK, Call
<1>2. call' = [call EXCEPT ![c] = new]
  BY DEF ReplaceRuntimes, RecoveryInv, RecoveryTypeOK
<1> HIDE DEF new
<1>3. /\ call' \in [Callers -> Call] /\ call'[c].pc = "recovering"
      /\ \A d \in Callers : d # c => call'[d] = call[d]
  BY <1>1, <1>2, CallsMove
<1>4. /\ UNCHANGED <<serverRow, made, slot, deletions, mishaps>>
      /\ tracked' = call[c].answer /\ call[c].answer \subseteq Ids
      /\ call[c].asked \subseteq Providers
      /\ forgone' = {p \in forgone \cup (Providers \ call[c].asked) :
                                    RowOf(p) \notin call[c].answer}
      /\ At(c, "answered")
  BY <1>1 DEF ReplaceRuntimes, onServer, Call
<1>5. /\ \A id \in call[c].answer : id[1] \in call[c].asked /\ id[2] <= made[id[1]]
      /\ \A p \in call[c].asked : \E id \in call[c].answer : id[1] = p
  BY <1>4 DEF RecoveryInv, AnswersWhole
<1>6. forgone' \subseteq Providers
  BY <1>4 DEF RecoveryInv, RecoveryTypeOK
<1>7. RecoveryTypeOK' /\ RowsMade'
  BY <1>3, <1>4, <1>6 DEF RecoveryInv, RecoveryTypeOK, RowsMade
<1>8. (\A id \in tracked : id[2] <= made[id[1]])'
  BY <1>4, <1>5
<1>9. AnswersWhole'
  BY <1>3, <1>4 DEF RecoveryInv, AnswersWhole, At
<1>10. SlotHeld'
  BY <1>3, <1>4 DEF RecoveryInv, SlotHeld, Callers
<1>11. ASSUME NEW q \in Providers, q \notin forgone'
       PROVE  Provided(q)'
  <2>1. RowOf(q) \in call[c].answer \/ q \in call[c].asked
    BY <1>4, <1>11
  <2>2. \E id \in call[c].answer : id[1] = q
    BY <2>1, <1>5 DEF RowOf
  <2> QED
    BY <2>2, <1>4 DEF Provided
<1> QED
  BY <1>7, <1>8, <1>9, <1>10, <1>11 DEF RecoveryInv

LEMMA RecordSuccessKeeps ==
  ASSUME RecoveryInv, NEW c \in Callers, RecordSuccess(c)
  PROVE  RecoveryInv'
<1>1. /\ UNCHANGED <<serverRow, made, tracked, forgone, deletions, mishaps>>
      /\ call[c].pc = "recovering" /\ Idle \in Call /\ Idle.pc = "idle"
  BY DEF RecordSuccess, onServer, At, Idle, Call
<1>2. /\ call' \in [Callers -> Call] /\ call'[c] = Idle
      /\ \A d \in Callers : d # c =>
            /\ call'[d].pc = call[d].pc /\ call'[d].asked = call[d].asked
            /\ call'[d].answer = call[d].answer
  <2>1. \A d \in Callers : /\ call[d] \in Call
                           /\ [call[d] EXCEPT !.covered = TRUE] \in Call
    BY DEF RecoveryInv, RecoveryTypeOK, Call
  <2>2. CASE c = SyncLoop
    BY <2>2, <1>1 DEF RecordSuccess, Done, RecoveryInv, RecoveryTypeOK
  <2>3. CASE c # SyncLoop
    <3> DEFINE F == [d \in Callers |->
                  IF call[d].pc \in {"entered", "removed"}
                  THEN [call[d] EXCEPT !.covered = TRUE] ELSE call[d]]
    <3>1. call' = [F EXCEPT ![c] = Idle]
      BY <2>3 DEF RecordSuccess, Done
    <3>2. F \in [Callers -> Call]
      BY <2>1
    <3>3. \A d \in Callers : /\ F[d].pc = call[d].pc /\ F[d].asked = call[d].asked
                             /\ F[d].answer = call[d].answer
      BY <2>1 DEF Call
    <3> HIDE DEF F
    <3> QED
      BY <3>1, <3>2, <3>3, <1>1
  <2> QED
    BY <2>2, <2>3
<1>3. (slot' = slot /\ c = SyncLoop) \/ slot' = "free"
  BY DEF RecordSuccess
<1>4. RecoveryTypeOK' /\ RowsMade' /\ (\A id \in tracked : id[2] <= made[id[1]])'
  BY <1>1, <1>2, <1>3 DEF RecoveryInv, RecoveryTypeOK, RowsMade
<1>5. AnswersWhole'
  BY <1>1, <1>2 DEF RecoveryInv, AnswersWhole, At
<1>6. SlotHeld'
  <2>1. SyncLoop \notin Ids
    BY RecoveryAssumption DEF Ids
  <2> QED
    BY <1>2, <1>3, <2>1 DEF RecoveryInv, SlotHeld, Callers
<1>7. ASSUME NEW q \in Providers, q \notin forgone
      PROVE  Provided(q)'
  <2>1. Provided(q)
    BY <1>7 DEF RecoveryInv
  <2> QED
    BY <2>1, <1>1, <1>2 DEF Provided, At, Callers
<1> QED
  BY <1>1, <1>4, <1>5, <1>6, <1>7 DEF RecoveryInv

LEMMA RegisterFailsKeeps ==
  ASSUME RecoveryInv, NEW c \in Callers, RegisterFails(c)
  PROVE  RecoveryInv'
<1> USE RecoveryAssumption
<1>1. /\ UNCHANGED <<serverRow, made, tracked, deletions>>
      /\ Idle \in Call /\ Idle.pc = "idle" /\ mishaps' \in 0..MaxMishaps
      /\ slot' = IF c = SyncLoop THEN slot ELSE "backoff"
      /\ call' = [call EXCEPT ![c] = Idle]
      /\ call[c].pc \in {"asking", "answered"}
  BY DEF RegisterFails, onServer, At, Idle, Call, Mishap, RecoveryInv, RecoveryTypeOK, Done
<1>2. forgone' = IF tracked = {} THEN forgone
                 ELSE forgone \cup {p \in Providers : /\ ~ UnderWay(p, call', tracked)
                                                      /\ \A id \in tracked : id[1] # p}
  BY DEF RegisterFails
<1>3. /\ call' \in [Callers -> Call] /\ call'[c] = Idle
      /\ \A d \in Callers : d # c => call'[d] = call[d]
  BY <1>1, CallsMove
<1>4. forgone' \subseteq Providers
  BY <1>2 DEF RecoveryInv, RecoveryTypeOK
<1>5. RecoveryTypeOK' /\ RowsMade' /\ (\A id \in tracked : id[2] <= made[id[1]])'
  BY <1>1, <1>3, <1>4 DEF RecoveryInv, RecoveryTypeOK, RowsMade
<1>6. AnswersWhole'
  BY <1>1, <1>3 DEF RecoveryInv, AnswersWhole, At
<1>7. SlotHeld'
  <2>1. SyncLoop \notin Ids
    BY DEF Ids
  <2> QED
    BY <1>1, <1>3, <2>1 DEF RecoveryInv, SlotHeld, Callers
<1>8. ASSUME NEW q \in Providers, q \notin forgone'
      PROVE  Provided(q)'
  <2>1. CASE tracked = {} \/ \E id \in tracked : id[1] = q
    BY <2>1, <1>1 DEF Provided
  <2>2. CASE tracked # {} /\ UnderWay(q, call', tracked)
    <3>1. CASE RowOf(q) \in tracked
      BY <3>1, <1>1 DEF Provided, RowOf
    <3>2. CASE \E d \in Callers : call'[d].pc \in {"asking", "answered"}
      BY <3>2 DEF Provided, At
    <3> QED
      BY <2>2, <3>1, <3>2 DEF UnderWay
  <2> QED
    BY <1>2, <1>8, <2>1, <2>2
<1> QED
  BY <1>5, <1>6, <1>7, <1>8 DEF RecoveryInv

LEMMA RecoveryStep == RecoveryInv /\ [RecoveryNext]_recoveryVars => RecoveryInv'
<1> SUFFICES ASSUME RecoveryInv, [RecoveryNext]_recoveryVars PROVE RecoveryInv'
  OBVIOUS
<1>1. ASSUME NEW p \in Providers, DeleteRow(p) PROVE RecoveryInv'
  BY <1>1, DeleteRowKeeps
<1>2. ASSUME NEW id \in Ids,
             RuntimeGone(id) \/ RemoveStaleRuntime(id) \/ TryClaimRegisterSlot(id)
      PROVE  RecoveryInv'
  BY <1>2, RuntimeGoneKeeps, RemoveStaleKeeps, TryClaimKeeps
<1>3. ASSUME NEW c \in Callers,
             ServeRegister(c) \/ ReplaceRuntimes(c) \/ RecordSuccess(c) \/ RegisterFails(c)
      PROVE  RecoveryInv'
  BY <1>3, ServeRegisterKeeps, ReplaceRuntimesKeeps, RecordSuccessKeeps, RegisterFailsKeeps
<1>4. CASE SlotExpires \/ SyncRegisters
  BY <1>4, SlotExpiresKeeps, SyncRegistersKeeps
<1>5. CASE UNCHANGED recoveryVars
  BY <1>5 DEF recoveryVars, RecoveryInv, RecoveryTypeOK, RowsMade, AnswersWhole, SlotHeld,
     Provided, At
<1> QED
  BY <1>1, <1>2, <1>3, <1>4, <1>5 DEF RecoveryNext

LEMMA ProvidedAtRest == RecoveryInv => RuntimesRestored
<1> SUFFICES ASSUME RecoveryInv, AtRest, NEW p \in Providers, p \notin forgone
             PROVE  RowOf(p) \in tracked
  BY DEF RuntimesRestored
<1>1. Provided(p) /\ tracked # {} /\ \A d \in Callers : call[d].pc = "idle"
  BY DEF RecoveryInv, AtRest, At
<1>2. PICK id \in tracked : id[1] = p
  BY <1>1 DEF Provided, At, Callers
<1>3. ~ Dead(id) /\ id[2] <= made[id[1]]
  BY DEF AtRest, RecoveryInv
<1> QED
  BY <1>2, <1>3 DEF Dead

\* Type correctness of the recovery, and of the rows the server makes.
THEOREM RecoveryTypeCorrect == RecoverySpec => []RecoveryTypeOK
<1>1. RecoveryInv => RecoveryTypeOK
  BY DEF RecoveryInv
<1> QED
  BY <1>1, RecoveryInit_Inv, RecoveryStep, PTL DEF RecoverySpec

\* Once nothing is out, every provider that was not given up is tracked with the
\* row the server has of it, however its deletions and registrations overlapped.
THEOREM WavesSettle == RecoverySpec => []RuntimesRestored
BY ProvidedAtRest, RecoveryInit_Inv, RecoveryStep, PTL DEF RecoverySpec

-----------------------------------------------------------------------------
(***************************************************************************)
(* The path: each part's steps are those of its own specification, or leave*)
(* it alone.                                                               *)
(***************************************************************************)
LEMMA PathParts == PathSpec => Spec /\ ClientSpec /\ RecoverySpec
<1>1. PathInit => Init /\ ClientInit /\ RecoveryInit
  BY DEF PathInit
<1>2. [PathNext]_pathVars =>
          [Next]_vars /\ [ClientNext]_clientVars /\ [RecoveryNext]_recoveryVars
  BY DEF PathNext, CacheMoves, ClientMoves, RecoveryMoves, pathVars
<1> QED
  BY <1>1, <1>2, PTL DEF PathSpec, Spec, ClientSpec, RecoverySpec

\* Every variable of the three parts has its type.
THEOREM PathTyped == PathSpec => []PathTypeOK
BY PathParts, CacheTypeCorrect, ClientTypeCorrect, RecoveryTypeCorrect, PTL DEF PathTypeOK

\* No announced task is hidden from a poller, none that was claimed is dropped in
\* silence, no update cancels an agent, and no deleted runtime is forgotten.
THEOREM PathDelivers ==
  PathSpec => [](NeverHidden /\ NoTaskDropped /\ BarrierHolds /\ RuntimesRestored)
BY PathParts, VerdictNeverHides, NothingDropped, BarrierAlwaysHolds, WavesSettle, PTL
=============================================================================
