---------------------------- MODULE IssueBoard ----------------------------
(***************************************************************************)
(* The issue board and the issue detail of the web client                  *)
(* (packages/core/issues): two kinds of cached query, the requests the     *)
(* user has in flight with their optimistic writes and rollbacks, the      *)
(* events of the WebSocket, and the server they all speak of.              *)
(*                                                                         *)
(* An issue is its status.  Of the server there is that it answers a query *)
(* with what it has, commits a request and broadcasts one event for each   *)
(* change, to the client that caused it too.                               *)
(***************************************************************************)
EXTENDS WebSocketClient, IssueBuckets

CONSTANTS Opened,       \* bound: the issues whose page the user may open
          Slots,        \* requests of the user in flight at once
          Starts,       \* bound: the states the server may be in at first
          PageSize      \* ISSUE_PAGE_SIZE

VARIABLES
    \* the server: the status of each issue, or "unborn", "deleted"
    serverIssue,
    \* the cached queries: issueKeys.list, and issueKeys.detail of each issue
    list, detail,
    \* what the user looks at: "board", an issue's page, or something else
    page,
    \* a mutation in flight, and what it keeps to roll back
    issueRequest,
    \* useLoadMoreByStatus in flight
    more

boardVars == <<serverIssue, list, detail, page, issueRequest, more>>

Alive(i) == serverIssue[i] \in Statuses

ServerRows(s) == {i \in Issues : serverIssue[i] = s}

\* One page of a status in the server's order, from an offset.
PageOf(s, offset) ==
    {i \in ServerRows(s) :
        LET rank == Cardinality({j \in ServerRows(s) : j <= i})
        IN  offset < rank /\ rank <= offset + PageSize}

Page(s, offset) == BucketOf(PageOf(s, offset), Cardinality(ServerRows(s)))

IssueEvent == [type : {"created", "updated", "deleted"}, issue : Issues,
          status : Statuses \cup {None}]

IssueRequest ==
    [kind : {"create", "update", "delete", "batchUpdate", "batchDelete"},
     ids : SUBSET Issues, status : Statuses \cup {None},
     sent : BOOLEAN, done : SUBSET Issues,
     prevList : Buckets \cup {None}, prevDetail : Statuses \cup {None}]

More == [status : Paginated, offset : Nat, answer : Bucket \cup {None},
         clean : BOOLEAN]

OnBoard == <<"board">>
OnIssue(i) == <<"issue", i>>

Pages == {OnBoard} \cup {OnIssue(i) : i \in Opened}

ASSUME IssuesAssumption ==
    /\ IsFiniteSet(Issues) /\ Opened \subseteq Issues
    /\ Statuses \cap {"unborn", "deleted", None} = {}
    /\ Starts \subseteq [Issues -> Statuses \cup {"unborn", "deleted"}]
    /\ None \notin Buckets \cup Bucket \cup IssueRequest \cup More
    /\ None \notin Fetches(Paginated \X Bucket)
    /\ None \notin Fetches({"issue"} \X (Statuses \cup {None}))

BoardTypeOK ==
    /\ serverIssue \in [Issues -> Statuses \cup {"unborn", "deleted"}]
    /\ list \in Query(Buckets, Paginated \X Bucket)
    /\ detail \in [Opened -> Query(Statuses,
                                   {"issue"} \X (Statuses \cup {None}))]
    /\ page \in Pages
    /\ issueRequest \in [Slots -> IssueRequest \cup {None}]
    /\ more \in More \cup {None}

BoardInit ==
    /\ serverIssue \in Starts
    /\ page \in Pages
    /\ \A i \in Opened : page = OnIssue(i) => serverIssue[i] # "unborn"
    /\ list = IF page = OnBoard THEN Mount(Absent) ELSE Absent
    /\ detail = [i \in Opened |-> IF page = OnIssue(i) THEN Mount(Absent)
                                  ELSE Absent]
    /\ issueRequest = [r \in Slots |-> None]
    /\ more = None

-----------------------------------------------------------------------------
\* The server: what it answers and what it tells.

IssueEventOf(i, type, s) == [type |-> type, issue |-> i, status |-> s]

\* The queries that a change of the issues ids reaches behind their backs.
TouchIssueQueries(ids) ==
    /\ list' = Touch(list)
    /\ detail' = [i \in Opened |-> IF i \in ids THEN Touch(detail[i])
                                   ELSE detail[i]]
    /\ more' = IF more # None /\ more.answer # None
               THEN [more EXCEPT !.clean = FALSE] ELSE more

\* The change that a request or somebody else makes: one event for each issue, in
\* any order.
ChangeIssues(ids, type, s) ==
    /\ serverIssue' = [i \in Issues |-> IF i \in ids
                                   THEN IF type = "deleted" THEN "deleted" ELSE s
                                   ELSE serverIssue[i]]
    /\ \E order \in Bijection(1..Cardinality(ids), ids) :
          Send([k \in 1..Cardinality(ids) |-> IssueEventOf(order[k], type, s)])
    /\ TouchIssueQueries(ids)

PossibleIssueChange(i, type, s) ==
    CASE type = "created" -> serverIssue[i] = "unborn"
      [] type = "updated" -> Alive(i) /\ serverIssue[i] # s
      [] type = "deleted" -> Alive(i)

\* Somebody else, an agent or another tab changes an issue.
IssueChangesElsewhere(i, type, s) ==
    /\ Spend
    /\ PossibleIssueChange(i, type, s)
    /\ (type = "deleted") <=> (s = None)
    /\ ChangeIssues({i}, type, s)
    /\ UNCHANGED <<conn, page, issueRequest>>

\* The answer of one HTTP request of the list's fetch: fetchFirstPages makes
\* one for each status, and the server reads each when it comes.
AnswerList(s) ==
    /\ list.fetch # None
    /\ \A a \in list.fetch.answers : a[1] # s
    /\ list' = Answer(list, s, Page(s, 0), wire = <<>>)
    /\ UNCHANGED <<serverIssue, conn, wire, detail, page, issueRequest, more, ops>>

AnswerDetail(i) ==
    /\ detail[i].fetch # None
    /\ detail[i].fetch.answers = {}
    /\ detail' = [detail EXCEPT ![i] =
                     Answer(@, "issue", IF Alive(i) THEN serverIssue[i] ELSE None,
                            wire = <<>>)]
    /\ UNCHANGED <<serverIssue, conn, wire, list, page, issueRequest, more, ops>>

AnswerMore ==
    /\ more # None /\ more.answer = None
    /\ more' = [more EXCEPT !.answer = Page(more.status, more.offset),
                            !.clean = (wire = <<>>)]
    /\ UNCHANGED <<serverIssue, conn, wire, list, detail, page, issueRequest, ops>>

\* A request is carried out; a batch skips the issues that are gone.
CommitIssueRequest(r) ==
    LET q == issueRequest[r]
        type == CASE q.kind = "create" -> "created"
                  [] q.kind \in {"update", "batchUpdate"} -> "updated"
                  [] OTHER -> "deleted"
    IN  /\ q # None /\ q.sent
        /\ \E done \in SUBSET q.ids :
              /\ done # {}
              /\ q.kind \in {"create", "update", "delete"} => done = q.ids
              /\ \A i \in done : IF type = "created" THEN serverIssue[i] = "unborn"
                                 ELSE Alive(i)
              /\ ChangeIssues(done, type, q.status)
              /\ issueRequest' = [issueRequest EXCEPT ![r].sent = FALSE, ![r].done = done]
        /\ UNCHANGED <<conn, page, ops>>

-----------------------------------------------------------------------------
\* The connection: ws-client.ts and the reconnect effect.

\* onAuthenticated calls back; invalidateWorkspaceScopedQueries flags
\* issueKeys.all, a prefix of both keys.
RefetchBoard ==
    /\ Authenticated
    /\ list' = Invalidate(list)
    /\ detail' = [i \in Opened |-> Invalidate(detail[i])]
    /\ UNCHANGED <<serverIssue, page, issueRequest, more>>

\* The event at the head of the wire: onIssueCreated, onIssueUpdated and
\* cleanupDeletedIssueCaches (through onIssueDeleted).
OnCreated(f) ==
    /\ list' = IF list.data = None THEN list
               ELSE Patch(list, AddIssue(list.data, f.issue, f.status))
    /\ UNCHANGED detail

\* Variant of OnUpdated: the issue's page is not patched.
OnUpdatedListOnly(f) ==
    /\ list' = IF list.data = None THEN list
               ELSE Patch(list, PatchIssue(list.data, f.issue, f.status))
    /\ UNCHANGED detail

\* A row the list does not hold cannot be moved, and the totals it is counted
\* in are not corrected.
OnUpdated(f) ==
    /\ list' = IF list.data = None THEN list
               ELSE LET q == Patch(list, PatchIssue(list.data, f.issue, f.status))
                    IN  IF Located(list.data, f.issue) THEN q
                        ELSE [q EXCEPT !.doubt = @ \cup {"unlocated"}]
    /\ detail' = [i \in Opened |-> IF i = f.issue THEN Patch(detail[i], f.status)
                                   ELSE detail[i]]

CleanupDeletedIssues(ids) ==
    /\ list' = Invalidate(IF list.data = None THEN list
                          ELSE Patch(list, RemoveAll(list.data, ids)))
    /\ detail' = [i \in Opened |-> IF i \in ids THEN Forget(detail[i])
                                   ELSE detail[i]]

ReceiveIssueEvent ==
    /\ Deliver
    /\ LET f == Head(wire) IN
          CASE f.type = "created" -> OnCreated(f)
            [] f.type = "updated" -> OnUpdated(f)
            [] f.type = "deleted" -> CleanupDeletedIssues({f.issue})
    /\ UNCHANGED <<serverIssue, page, issueRequest, more>>

-----------------------------------------------------------------------------
\* Queries that are shown, and their fetches.

\* The user opens the board, an issue, or something else.
OpenPage(p) ==
    /\ p # page
    /\ Spend
    /\ \A i \in Opened : p = OnIssue(i) => serverIssue[i] # "unborn"
    /\ page' = p
    /\ list' = IF p = OnBoard THEN Mount(list) ELSE Unmount(list)
    /\ detail' = [i \in Opened |-> IF p = OnIssue(i) THEN Mount(detail[i])
                                   ELSE Unmount(detail[i])]
    /\ UNCHANGED <<serverIssue, conn, wire, issueRequest, more>>

\* fetchFirstPages has every answer.
FirstPages(answers) ==
    [s \in Statuses |->
        IF \E a \in answers : a[1] = s
        THEN (CHOOSE a \in answers : a[1] = s)[2] ELSE EmptyBucket]

LandList ==
    /\ list.fetch # None
    /\ {a[1] : a \in list.fetch.answers} = Paginated
    /\ list' = Land(list, FirstPages(list.fetch.answers))
    /\ UNCHANGED <<serverIssue, conn, wire, detail, page, issueRequest, more, ops>>

\* An issue that is gone is a failed fetch, which changes no data.
LandDetail(i) ==
    /\ detail[i].fetch # None
    /\ detail[i].fetch.answers # {}
    /\ LET answer == (CHOOSE a \in detail[i].fetch.answers : TRUE)[2]
       IN  detail' = [detail EXCEPT ![i] = IF answer = None THEN Cancel(@)
                                           ELSE Land(@, answer)]
    /\ UNCHANGED <<serverIssue, conn, wire, list, page, issueRequest, more, ops>>

\* useLoadMoreByStatus: offset and hasMore come from the bucket on screen.
LoadMore(s) ==
    /\ page = OnBoard /\ list.data # None /\ more = None
    /\ Loaded(list.data[s]) < list.data[s].total
    /\ Spend
    /\ more' = [status |-> s, offset |-> Loaded(list.data[s]),
                answer |-> None, clean |-> TRUE]
    /\ UNCHANGED <<serverIssue, conn, wire, list, detail, page, issueRequest>>

\* Rows that are in the bucket already are not appended, the total is the
\* answer's.
Appended(b, answer) ==
    [rows |-> [i \in Issues |-> IF b.rows[i] > 0 THEN b.rows[i]
                                ELSE answer.rows[i]],
     total |-> answer.total]

LandMore ==
    /\ more # None /\ more.answer # None
    /\ more' = None
    /\ list' = IF list.data = None THEN list
               ELSE LET q == Patch(list, [list.data EXCEPT ![more.status] =
                                             Appended(@, more.answer)])
                    IN  IF more.clean THEN q
                        ELSE [q EXCEPT !.doubt = @ \cup {"overlap"}]
    /\ UNCHANGED <<serverIssue, conn, wire, detail, page, issueRequest, ops>>

-----------------------------------------------------------------------------
\* The user's requests: onMutate, then onSuccess or onError, and onSettled.

NewIssueRequest(kind, ids, s) ==
    [kind |-> kind, ids |-> ids, status |-> s, sent |-> TRUE, done |-> {},
     prevList |-> None, prevDetail |-> None]

\* useCreateIssue has no optimistic write.
CreateIssue(r, i, s) ==
    /\ issueRequest[r] = None /\ serverIssue[i] = "unborn"
    /\ \A q \in Slots : issueRequest[q] # None => i \notin issueRequest[q].ids
    /\ Spend
    /\ issueRequest' = [issueRequest EXCEPT ![r] = NewIssueRequest("create", {i}, s)]
    /\ UNCHANGED <<serverIssue, conn, wire, list, detail, page, more>>

\* What the user can act on: a row of the board, or the issue of the page.
Shown(i) ==
    \/ page = OnBoard /\ list.data # None /\ Located(list.data, i)
    \/ page = OnIssue(i) /\ detail[i].data # None

DetailData(i) == IF i \in Opened THEN detail[i].data ELSE None

\* useUpdateIssue
UpdateIssue(r, i, s) ==
    /\ issueRequest[r] = None /\ Shown(i)
    /\ Spend
    /\ LET q == Cancel(list)
       IN  list' = IF q.data = None THEN q
                   ELSE Patch(q, PatchIssue(q.data, i, s))
    /\ detail' = [j \in Opened |-> IF j = i THEN Patch(detail[j], s)
                                   ELSE detail[j]]
    /\ issueRequest' = [issueRequest EXCEPT ![r] =
                      [NewIssueRequest("update", {i}, s) EXCEPT
                          !.prevList = list.data, !.prevDetail = DetailData(i)]]
    /\ UNCHANGED <<serverIssue, conn, wire, page, more>>

\* useDeleteIssue
DeleteIssue(r, i) ==
    /\ issueRequest[r] = None /\ Shown(i)
    /\ Spend
    /\ LET q == Cancel(list)
       IN  list' = IF q.data = None THEN q ELSE Patch(q, RemoveIssue(q.data, i))
    /\ detail' = [j \in Opened |-> IF j = i THEN Forget(detail[j])
                                   ELSE detail[j]]
    /\ issueRequest' = [issueRequest EXCEPT ![r] =
                      [NewIssueRequest("delete", {i}, None) EXCEPT
                          !.prevList = list.data, !.prevDetail = DetailData(i)]]
    /\ UNCHANGED <<serverIssue, conn, wire, page, more>>

\* useBatchUpdateIssues and useBatchDeleteIssues write to the list only.
BatchIssues(r, kind, ids, s) ==
    /\ issueRequest[r] = None
    /\ page = OnBoard /\ ids # {} /\ \A i \in ids : Shown(i)
    /\ Spend
    /\ LET q == Cancel(list)
       IN  list' = Patch(q, IF kind = "batchUpdate"
                            THEN PatchAll(q.data, ids, s)
                            ELSE RemoveAll(q.data, ids))
    /\ issueRequest' = [issueRequest EXCEPT ![r] =
                      [NewIssueRequest(kind, ids, s) EXCEPT !.prevList = list.data]]
    /\ UNCHANGED <<serverIssue, conn, wire, detail, page, more>>

\* The snapshots of onMutate are written back as they were.
RollBackIssues(q) ==
    /\ list' = Invalidate(IF q.prevList # None THEN Write(list, q.prevList)
                          ELSE list)
    /\ detail' = [i \in Opened |->
                     IF i \notin q.ids THEN detail[i]
                     ELSE LET d == IF q.prevDetail = None THEN detail[i]
                                   ELSE Write(detail[i], q.prevDetail)
                          IN  CASE q.kind = "update" -> Invalidate(d)
                                [] q.kind = "delete" /\ q.prevDetail # None ->
                                     [d EXCEPT !.doubt = @ \cup {"restored"}]
                                [] OTHER -> d]

\* A batch that deleted less than it was asked to: everything back, and
\* everything of the workspace invalidated.
PartlyDeleted(q) ==
    /\ list' = Invalidate(IF q.prevList # None THEN Write(list, q.prevList)
                          ELSE list)
    /\ detail' = [i \in Opened |-> Invalidate(detail[i])]

\* The response arrives: onSuccess, then onSettled.
IssueRequestSucceeds(r) ==
    LET q == issueRequest[r] IN
    /\ q # None /\ ~ q.sent
    /\ CASE q.kind = "create" ->
              /\ list' = Invalidate(
                            IF list.data = None THEN list
                            ELSE Patch(list, AddIssue(list.data,
                                          CHOOSE i \in q.ids : TRUE, q.status)))
              /\ UNCHANGED detail
         [] q.kind = "update" ->
              /\ list' = Invalidate(list)
              /\ detail' = [i \in Opened |-> IF i \in q.ids
                                             THEN Invalidate(detail[i])
                                             ELSE detail[i]]
         [] q.kind = "batchUpdate" ->
              /\ list' = Invalidate(list)
              /\ UNCHANGED detail
         [] q.kind \in {"delete", "batchDelete"} ->
              IF q.done = q.ids THEN CleanupDeletedIssues(q.ids) ELSE PartlyDeleted(q)
    /\ issueRequest' = [issueRequest EXCEPT ![r] = None]
    /\ UNCHANGED <<serverIssue, conn, wire, page, more, ops>>

\* The server refused, or the answer of a request it carried out was lost:
\* onError, then onSettled.
IssueRequestFails(r) ==
    LET q == issueRequest[r] IN
    /\ q # None
    /\ RollBackIssues(q)
    /\ issueRequest' = [issueRequest EXCEPT ![r] = None]
    /\ UNCHANGED <<serverIssue, conn, wire, page, more, ops>>

-----------------------------------------------------------------------------
BoardNext ==
    \/ \E i \in Issues, type \in {"created", "updated", "deleted"},
          s \in Statuses \cup {None} : IssueChangesElsewhere(i, type, s)
    \/ \E s \in Paginated : AnswerList(s) \/ LoadMore(s)
    \/ AnswerMore \/ LandList \/ LandMore
    \/ \E i \in Opened : AnswerDetail(i) \/ LandDetail(i)
    \/ RefetchBoard \/ ReceiveIssueEvent
    \/ Disconnect /\ UNCHANGED boardVars
    \/ \E p \in Pages : OpenPage(p)
    \/ \E r \in Slots, i \in Issues, s \in Statuses :
          CreateIssue(r, i, s) \/ UpdateIssue(r, i, s)
    \/ \E r \in Slots, i \in Issues : DeleteIssue(r, i)
    \/ \E r \in Slots, ids \in SUBSET Issues :
          \/ \E s \in Statuses : BatchIssues(r, "batchUpdate", ids, s)
          \/ BatchIssues(r, "batchDelete", ids, None)
    \/ \E r \in Slots : CommitIssueRequest(r) \/ IssueRequestSucceeds(r) \/ IssueRequestFails(r)

\* The board by itself.
BoardSpec ==
    /\ SocketInit /\ BoardInit
    /\ [][BoardNext]_<<socketVars, boardVars>>

-----------------------------------------------------------------------------
\* No request, fetch or event is under way and the connection is up.
BoardAtRest ==
    /\ \A r \in Slots : issueRequest[r] = None
    /\ more = None /\ wire = <<>> /\ conn = "up"
    /\ list.fetch = None /\ \A i \in Opened : detail[i].fetch = None

\* The buckets show every issue they hold once, where the server has it, and
\* count all that are there.
Exact(buckets) ==
    \A s \in Paginated :
        /\ buckets[s].total = Cardinality(ServerRows(s))
        /\ \A i \in Issues :
              buckets[s].rows[i] > 0 => buckets[s].rows[i] = 1 /\ serverIssue[i] = s

\* Whatever optimistic writes, rollbacks, responses, events, fetches and lost
\* connections overlapped, at rest the board on screen has data, and data that
\* nothing is going to fetch again is the server's.  Except, until the next
\* fetch, for the reasons that doubt names: a fetch whose answers straddle a
\* change, an event for a row the buckets do not hold, a flag that a write
\* cleared, a snapshot written back.
BoardExact ==
    BoardAtRest =>
        /\ list.mounted => list.data # None
        /\ (list.data # None /\ list.doubt = {} /\ (list.mounted \/ ~ list.stale))
              => Exact(list.data)

\* The same of an issue's page; the page of an issue that was deleted while it
\* was closed is fetched again before it is shown.
DetailExact ==
    BoardAtRest =>
        \A i \in Opened :
            LET q == detail[i]
            IN  (q.data # None /\ q.doubt = {} /\ (q.mounted \/ ~ q.stale))
                    => IF Alive(i) THEN q.data = serverIssue[i] ELSE q.stale
=============================================================================
