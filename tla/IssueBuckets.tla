--------------------------- MODULE IssueBuckets ---------------------------
(***************************************************************************)
(* The bucketed issue list of packages/core/issues/cache-helpers.ts: one   *)
(* bucket of rows for each status, with the total the server counted.      *)
(*                                                                         *)
(* A row is its issue; what else the row holds is merged and never tested. *)
(* The order of rows is left out (the board sorts them), their number is   *)
(* not: an issue may be in a bucket twice.                                 *)
(***************************************************************************)
EXTENDS Integers, Sequences, FiniteSetsExt

CONSTANTS Issues,     \* the issues of a workspace, numbers in the server's order
          Board,      \* PAGINATED_STATUSES, in their order
          Hidden      \* the statuses the board never loads ("cancelled")

Paginated == {Board[k] : k \in DOMAIN Board}

Statuses == Paginated \cup Hidden

ASSUME BoardAssumption == /\ Issues \subseteq Nat
                          /\ Board \in Seq(STRING)
                          /\ Paginated \cap Hidden = {}

Bucket == [rows : [Issues -> Nat], total : Nat]

Buckets == [Statuses -> Bucket]

NoRows == [i \in Issues |-> 0]

EmptyBucket == [rows |-> NoRows, total |-> 0]

\* What the server's answer of one status becomes.
BucketOf(set, total) ==
    [rows |-> [i \in Issues |-> IF i \in set THEN 1 ELSE 0], total |-> total]

\* The buckets issue i has rows in, by their place in the board's order.
PlacesOf(b, i) == {k \in DOMAIN Board : b[Board[k]].rows[i] > 0}

Located(b, i) == PlacesOf(b, i) # {}

\* findIssueLocation: the first status, in the board's order.
LocationOf(b, i) ==
    Board[CHOOSE k \in PlacesOf(b, i) : \A j \in PlacesOf(b, i) : k <= j]

\* Variant of OneLess: without Math.max.
OneLessBlindly(n) == n - 1

OneLess(n) == IF n > 0 THEN n - 1 ELSE 0

WithRow(b, s, i) ==
    [b EXCEPT ![s] = [rows |-> [@.rows EXCEPT ![i] = b[s].rows[i] + 1],
                      total |-> @.total + 1]]

\* filter drops every row of the issue, the total loses one.
WithoutRow(b, s, i) ==
    [b EXCEPT ![s] = [rows |-> [@.rows EXCEPT ![i] = 0],
                      total |-> OneLess(@.total)]]

\* addIssueToBuckets: only the issue's own bucket is searched for it.
AddIssue(b, i, s) == IF b[s].rows[i] > 0 THEN b ELSE WithRow(b, s, i)

\* removeIssueFromBuckets
RemoveIssue(b, i) ==
    IF Located(b, i) THEN WithoutRow(b, LocationOf(b, i), i) ELSE b

\* Variant of PatchIssue: the row moves, the totals stay.
PatchIssueRow(b, i, s) ==
    IF ~ Located(b, i) \/ LocationOf(b, i) = s THEN b
    ELSE [b EXCEPT ![LocationOf(b, i)].rows[i] = 0, ![s].rows[i] = @ + 1]

\* patchIssueInBuckets with a status: the row moves and both totals with it.
PatchIssue(b, i, s) ==
    IF ~ Located(b, i) \/ LocationOf(b, i) = s THEN b
    ELSE WithRow(WithoutRow(b, LocationOf(b, i), i), s, i)

\* What a loop over the ids of a batch takes out of the bucket t: the ids differ, so
\* where it finds each does not depend on the others.
Leaving(b, ids, t) == {i \in ids : Located(b, i) /\ LocationOf(b, i) = t}

Losing(bucket, ids) ==
    [rows |-> [i \in Issues |-> IF i \in ids THEN 0 ELSE bucket.rows[i]],
     total |-> IF bucket.total > Cardinality(ids)
               THEN bucket.total - Cardinality(ids) ELSE 0]

Gaining(bucket, ids) ==
    [rows |-> [i \in Issues |-> bucket.rows[i] + IF i \in ids THEN 1 ELSE 0],
     total |-> bucket.total + Cardinality(ids)]

\* patchIssueInBuckets and removeIssueFromBuckets over the ids of a batch.
PatchAll(b, ids, s) ==
    LET arriving == {i \in ids : Located(b, i)} \ Leaving(b, ids, s)
    IN  [t \in Statuses |-> IF t = s THEN Gaining(b[t], arriving)
                            ELSE Losing(b[t], Leaving(b, ids, t))]

RemoveAll(b, ids) == [t \in Statuses |-> Losing(b[t], Leaving(b, ids, t))]

\* issues.length of a bucket
Loaded(bucket) == Cardinality(UNION {{i} \X (1..bucket.rows[i]) : i \in Issues})
===========================================================================
