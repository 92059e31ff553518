---------------------------- MODULE QueryCache ----------------------------
(***************************************************************************)
(* The part of TanStack Query (version 5, staleTime Infinity, as           *)
(* packages/core/query-client.ts configures it) that the web client rests  *)
(* on: one cached query as a record, and what the query client's           *)
(* operations do to it.  The library is external to the repository; what   *)
(* is stated here is what the client's code relies on.                     *)
(*                                                                         *)
(* Two fields are history: owed, the stale flag stands for something the   *)
(* data lacks; and doubt, the reasons why the data may differ from the     *)
(* server's although nothing is going to fetch it again.                   *)
(***************************************************************************)
EXTENDS Integers

CONSTANT None    \* undefined: no data, no fetch, no request

\* A fetch in flight: the answers it has so far, and whether nothing changed
\* behind its back since the first of them.
Fetching == [answers |-> {}, clean |-> TRUE]

Absent == [data |-> None, stale |-> FALSE, owed |-> FALSE, mounted |-> FALSE,
           fetch |-> None, doubt |-> {}]

Doubts == {"overlap", "unlocated", "forgotten", "restored",
           "missed", "late", "early", "raced",
           "unsent", "unstopped", "crossed", "unannounced", "stripped"}

Fetches(Answers) == [answers : SUBSET Answers, clean : BOOLEAN]

Query(Data, Answers) ==
    [data : Data \cup {None}, stale : BOOLEAN, owed : BOOLEAN, mounted : BOOLEAN,
     fetch : {None} \cup Fetches(Answers), doubt : SUBSET Doubts]

\* setQueryData with a value: the data is current from now on, whatever the
\* stale flag said.  A flag that no fetch was answering is forgotten.
Write(q, d) ==
    [q EXCEPT !.data = d, !.stale = FALSE, !.owed = FALSE,
              !.doubt = IF q.owed /\ q.fetch = None
                        THEN @ \cup {"forgotten"} ELSE @]

\* setQueryData with an updater: nothing happens to a query without data.
Patch(q, d) == IF q.data = None THEN q ELSE Write(q, d)

\* invalidateQueries with refetchType "none".
Flag(q) == IF q.data = None THEN q
           ELSE [q EXCEPT !.stale = TRUE, !.owed = TRUE]

\* invalidateQueries: flagged, and fetched again if something shows it.  A
\* first load in flight is not started again.
Invalidate(q) ==
    [Flag(q) EXCEPT !.fetch = IF q.mounted /\ (@ = None \/ q.data # None)
                              THEN Fetching ELSE @]

\* cancelQueries: the fetch is dropped, the flag stays.
Cancel(q) == [q EXCEPT !.fetch = None]

\* removeQueries: a query with an observer keeps the observer.
Forget(q) == [Absent EXCEPT !.mounted = q.mounted]

\* A component that reads the query appears, or the last one disappears.
Mount(q) ==
    [q EXCEPT !.mounted = TRUE,
              !.fetch = IF @ = None /\ (q.data = None \/ q.stale)
                        THEN Fetching ELSE @]

Unmount(q) == [q EXCEPT !.mounted = FALSE]

\* One more answer of the server reaches the fetch; quiet is FALSE when events
\* the answer already reflects are still on their way.
Answer(q, part, answer, quiet) ==
    [q EXCEPT !.fetch = [answers |-> @.answers \cup {<<part, answer>>},
                         clean |-> @.clean /\ quiet]]

\* The fetch has all its answers: they become the data.
Land(q, d) ==
    [q EXCEPT !.data = d, !.stale = FALSE, !.owed = FALSE, !.fetch = None,
              !.doubt = IF q.fetch.clean THEN {} ELSE {"overlap"}]

\* The server changes: a fetch that has some of its answers mixes two states.
Touch(q) ==
    [q EXCEPT !.fetch = IF @ # None /\ @.answers # {}
                        THEN [@ EXCEPT !.clean = FALSE] ELSE @]
===========================================================================
