-------------------------- MODULE CommentTimeline --------------------------
(***************************************************************************)
(* The comments of one issue: the timeline query, which the hook           *)
(* packages/views/issues/hooks/use-issue-timeline.ts patches event by      *)
(* event while the issue's page is open, which use-realtime-sync.ts only   *)
(* flags when it is not, and which the comment mutations of                *)
(* packages/core/issues/mutations.ts write to.                             *)
(*                                                                         *)
(* Of a comment the model keeps the text, whether it is resolved and       *)
(* whether the user has reacted to it.  An activity is a comment that      *)
(* nobody changes.                                                         *)
(***************************************************************************)
EXTENDS WebSocketClient

CONSTANTS Comments,
          ParentOf,         \* the comment a reply answers, or None
          Texts, FirstText, \* bound: what comments may say, and say at first
          CommentSlots      \* bound: requests of the user in flight at once

VARIABLES
    \* the server: the comments there are, and those there ever were
    comment, born,
    \* the query issueKeys.timeline, and the order of its two event handlers
    timeline, hookFirst,
    \* a comment mutation in flight, and what it keeps to roll back
    commentRequest

timelineVars == <<comment, born, timeline, hookFirst, commentRequest>>

Fresh(t) == [text |-> t, resolved |-> FALSE, liked |-> FALSE]

Entry == [text : Texts, resolved : BOOLEAN, liked : BOOLEAN]

Timeline == [Comments -> Entry \cup {None}]

NoComments == [c \in Comments |-> None]

CommentRequest ==
    [kind : {"create", "update", "delete", "resolve", "react"},
     comment : Comments, entry : Entry \cup {None}, sent : BOOLEAN,
     prev : Timeline \cup {None}]

ASSUME TimelineAssumption ==
    /\ MaxOps \in Nat /\ FirstText \in Texts
    /\ ParentOf \in [Comments -> Comments \cup {None}]
    /\ None \notin Comments \cup Entry \cup Timeline \cup CommentRequest
    /\ None \notin Fetches({"timeline"} \X Timeline)

TimelineTypeOK ==
    /\ comment \in Timeline /\ born \in SUBSET Comments
    /\ timeline \in Query(Timeline, {"timeline"} \X Timeline)
    /\ hookFirst \in BOOLEAN
    /\ commentRequest \in [CommentSlots -> CommentRequest \cup {None}]

\* The page may be open when the socket client is made: then the hook has
\* subscribed before useRealtimeSync has.
TimelineInit ==
    /\ born \in SUBSET Comments
    /\ comment = [c \in Comments |-> IF c \in born THEN Fresh(FirstText) ELSE None]
    /\ \A c \in born : ParentOf[c] # None => ParentOf[c] \in born
    /\ hookFirst \in BOOLEAN
    /\ timeline = IF hookFirst THEN Mount(Absent) ELSE Absent
    /\ commentRequest = [r \in CommentSlots |-> None]

\* What can be asked of comment c that looks like e; a thread is resolved at its
\* root.
Edits(kind, c, e) ==
    CASE kind = "update" -> {[e EXCEPT !.text = t] : t \in Texts \ {e.text}}
      [] kind = "resolve" -> {d \in {[e EXCEPT !.resolved = ~ @]} : ParentOf[c] = None}
      [] kind = "react" -> {[e EXCEPT !.liked = ~ @]}
      [] kind = "delete" -> {e}

\* The cascade of a deletion: the comment, and the entries of t that answer a
\* comment of the cascade.
Cascade(t, c) ==
    {d \in Comments :
        \A S \in SUBSET Comments :
            /\ c \in S
            /\ \A a \in Comments : t[a] # None /\ ParentOf[a] \in S => a \in S
            => d \in S}

Without(t, c) == [d \in Comments |-> IF d \in Cascade(t, c) THEN None ELSE t[d]]

With(t, c, e) == [t EXCEPT ![c] = e]

\* Replaced where it is, never added.
Replaced(t, c, e) == IF t[c] = None THEN t ELSE With(t, c, e)

\* Appended unless its id is there.
Appended1(t, c, e) == IF t[c] = None THEN With(t, c, e) ELSE t

-----------------------------------------------------------------------------
\* The server: what it answers and what it tells.  A change is a kind and the
\* entry it leaves.

CommentEvent(kind, c, e) == [type |-> kind, comment |-> c, entry |-> e]

\* A reply to a resolved comment re-opens it (AutoUnresolveThreadOnReply).
Reopens(kind, c) ==
    kind = "create" /\ ParentOf[c] # None /\ comment[ParentOf[c]] # None
    /\ comment[ParentOf[c]].resolved

\* No change of a comment that is not there, no reply to one that is not.
Refused(kind, c) ==
    IF kind = "create"
    THEN c \in born \/ (ParentOf[c] # None /\ comment[ParentOf[c]] = None)
    ELSE comment[c] = None

\* What a change that is not refused makes of the comments.
Changed(kind, c, e) ==
    CASE kind = "create" ->
            With(IF Reopens(kind, c)
                 THEN [comment EXCEPT ![ParentOf[c]].resolved = FALSE]
                 ELSE comment, c, e)
      [] kind = "delete" -> Without(comment, c)
      [] kind = "update" -> With(comment, c, [comment[c] EXCEPT !.text = e.text])
      [] kind = "resolve" ->
            With(comment, c, [comment[c] EXCEPT !.resolved = e.resolved])
      [] kind = "react" -> With(comment, c, [comment[c] EXCEPT !.liked = e.liked])

\* The event of the comment a reply re-opened: it is without its reactions.
Reopened(c) ==
    CommentEvent("reopen", c, [comment[c] EXCEPT !.resolved = FALSE, !.liked = FALSE])

\* The change is made and broadcast; the event carries the whole comment.
ChangeComment(kind, c, e) ==
    LET after == Changed(kind, c, e) IN
    /\ ~ Refused(kind, c)
    /\ comment' = after
    /\ born' = born \cup {c}
    /\ Send(IF after = comment THEN <<>>
            ELSE <<CommentEvent(kind, c, after[c])>>
                 \o IF Reopens(kind, c) THEN <<Reopened(ParentOf[c])>> ELSE <<>>)

CommentChangesElsewhere(kind, c) ==
    /\ Spend
    /\ \E e \in IF kind = "create" THEN {Fresh(FirstText)}
               ELSE IF comment[c] = None THEN {} ELSE Edits(kind, c, comment[c]) :
          ChangeComment(kind, c, e)
    /\ timeline' = Touch(timeline)
    /\ UNCHANGED <<conn, hookFirst, commentRequest>>

AnswerTimeline ==
    /\ timeline.fetch # None /\ timeline.fetch.answers = {}
    /\ timeline' = Answer(timeline, "timeline", comment, wire = <<>>)
    /\ UNCHANGED <<socketVars, comment, born, hookFirst, commentRequest>>

CommitCommentRequest(r) ==
    LET q == commentRequest[r] IN
    /\ q # None /\ q.sent
    /\ ChangeComment(q.kind, q.comment, q.entry)
    /\ timeline' = Touch(timeline)
    /\ commentRequest' = [commentRequest EXCEPT ![r].sent = FALSE]
    /\ UNCHANGED <<conn, ops, hookFirst>>

-----------------------------------------------------------------------------
\* The query.

LandTimeline ==
    /\ timeline.fetch # None /\ timeline.fetch.answers # {}
    /\ timeline' = Land(timeline, (CHOOSE a \in timeline.fetch.answers : TRUE)[2])
    /\ UNCHANGED <<socketVars, comment, born, hookFirst, commentRequest>>

\* The page opens: its handlers now come after useRealtimeSync's.
OpenTimeline ==
    /\ ~ timeline.mounted /\ Spend
    /\ timeline' = Mount(timeline)
    /\ hookFirst' = FALSE
    /\ UNCHANGED <<conn, wire, comment, born, commentRequest>>

CloseTimeline ==
    /\ timeline.mounted /\ Spend
    /\ timeline' = Unmount(timeline)
    /\ UNCHANGED <<conn, wire, comment, born, hookFirst, commentRequest>>

\* useWSReconnect recovers an open page; the global reconnect effect does not
\* know the timeline's key.
RefetchTimeline ==
    /\ Authenticated
    /\ timeline' = IF timeline.mounted THEN Invalidate(timeline)
                   ELSE IF timeline.data = None THEN timeline
                   ELSE [timeline EXCEPT !.doubt = @ \cup {"missed"}]
    /\ UNCHANGED <<comment, born, hookFirst, commentRequest>>

\* An entry that was just created is written even where nothing is loaded.
Created(q, c, e) ==
    Write(q, Appended1(IF q.data = None THEN NoComments ELSE q.data, c, e))

\* Variant of Granular: a deleted comment leaves its replies.
GranularShallow(q, f) ==
    IF f.type = "create" THEN Created(q, f.comment, f.entry)
    ELSE IF q.data = None THEN q
    ELSE Write(q, IF f.type = "delete" THEN With(q.data, f.comment, None)
                  ELSE Replaced(q.data, f.comment, f.entry))

\* The hook's own handlers.  The reactions that the event of a re-opened comment
\* lacks are gone from the screen, and nothing brings them back.
Granular(q, f) ==
    IF f.type = "create" THEN Created(q, f.comment, f.entry)
    ELSE IF q.data = None THEN q
    ELSE CASE f.type = "delete" -> Write(q, Without(q.data, f.comment))
           [] f.type \in {"update", "resolve"} ->
                 Write(q, Replaced(q.data, f.comment, f.entry))
           [] f.type = "reopen" ->
                 LET n == Write(q, Replaced(q.data, f.comment, f.entry))
                 IN  IF q.data[f.comment] # None /\ q.data[f.comment].liked
                     THEN [n EXCEPT !.doubt = @ \cup {"stripped"}] ELSE n
           [] f.type = "react" ->
                 Write(q, IF q.data[f.comment] = None THEN q.data
                          ELSE [q.data EXCEPT ![f.comment].liked = f.entry.liked])

\* A closed page's timeline is flagged (invalidateTimeline, refetchType
\* "none").  An open one's is patched, and flagged before or after that.
ReceiveCommentEvent ==
    /\ Deliver
    /\ timeline' =
          IF ~ timeline.mounted THEN Flag(timeline)
          ELSE LET q == Granular(timeline, Head(wire))
               IN  IF hookFirst /\ q.data # None
                   THEN [q EXCEPT !.stale = TRUE] ELSE q
    /\ UNCHANGED <<comment, born, hookFirst, commentRequest>>

-----------------------------------------------------------------------------
\* The user's requests.

NewCommentRequest(kind, c, e, prev) ==
    [kind |-> kind, comment |-> c, entry |-> e, sent |-> TRUE, prev |-> prev]

Displayed(c) == timeline.mounted /\ timeline.data # None /\ timeline.data[c] # None

Creating(c) == \E r \in CommentSlots :
                  /\ commentRequest[r] # None
                  /\ commentRequest[r].kind = "create"
                  /\ commentRequest[r].comment = c

\* submitComment (one at a time) and submitReply: useCreateComment writes
\* nothing before the response.
SubmitComment(r, c, t) ==
    /\ commentRequest[r] = None /\ c \notin born /\ ~ Creating(c)
    /\ timeline.mounted
    /\ IF ParentOf[c] = None
       THEN \A d \in Comments : ParentOf[d] = None => ~ Creating(d)
       ELSE Displayed(ParentOf[c])
    /\ Spend
    /\ commentRequest' = [commentRequest EXCEPT ![r] =
          NewCommentRequest("create", c, Fresh(t), None)]
    /\ UNCHANGED <<conn, wire, comment, born, timeline, hookFirst>>

\* useUpdateComment, useResolveComment and useDeleteComment: the fetch in
\* flight is cancelled, the snapshot taken, the timeline patched.
ChangeShownComment(r, kind, c) ==
    /\ commentRequest[r] = None /\ Displayed(c)
    /\ Spend
    /\ \E e \in Edits(kind, c, timeline.data[c]) :
          /\ timeline' = Write(Cancel(timeline),
                               IF kind = "delete" THEN Without(timeline.data, c)
                               ELSE With(timeline.data, c, e))
          /\ commentRequest' = [commentRequest EXCEPT ![r] =
                NewCommentRequest(kind, c, e, timeline.data)]
    /\ UNCHANGED <<conn, wire, comment, born, hookFirst>>

\* toggleReaction: what to ask for is decided on what the cache holds; the
\* optimistic reaction is drawn from the request and not written.
ToggleReaction(r, c) ==
    /\ commentRequest[r] = None /\ Displayed(c)
    /\ Spend
    /\ \E e \in Edits("react", c, timeline.data[c]) :
          commentRequest' = [commentRequest EXCEPT ![r] =
             NewCommentRequest("react", c, e, None)]
    /\ UNCHANGED <<conn, wire, comment, born, timeline, hookFirst>>

\* onSuccess of useCreateComment; nothing is invalidated.  A comment that is
\* gone by then, with its events, comes back to stay.
CreatedResponse(q, c, e) ==
    LET n == Created(q, c, e)
    IN  IF n.data # q.data /\ comment[c] = None
        THEN [n EXCEPT !.doubt = @ \cup {"late"}] ELSE n

\* The response arrives: onSuccess, onSettled.
CommentRequestSucceeds(r) ==
    LET q == commentRequest[r] IN
    /\ q # None /\ ~ q.sent
    /\ timeline' = IF q.kind = "create"
                   THEN CreatedResponse(timeline, q.comment, q.entry)
                   ELSE Invalidate(timeline)
    /\ commentRequest' = [commentRequest EXCEPT ![r] = None]
    /\ UNCHANGED <<socketVars, comment, born, hookFirst>>

\* Refused, or the answer was lost: onError, onSettled.
CommentRequestFails(r) ==
    LET q == commentRequest[r] IN
    /\ q # None
    /\ timeline' = IF q.kind = "create" THEN timeline
                   ELSE Invalidate(IF q.prev = None THEN timeline
                                   ELSE Write(timeline, q.prev))
    /\ commentRequest' = [commentRequest EXCEPT ![r] = None]
    /\ UNCHANGED <<socketVars, comment, born, hookFirst>>

-----------------------------------------------------------------------------
TimelineNext ==
    \/ \E kind \in {"create", "update", "resolve", "react", "delete"},
          c \in Comments : CommentChangesElsewhere(kind, c)
    \/ AnswerTimeline \/ LandTimeline \/ OpenTimeline \/ CloseTimeline
    \/ RefetchTimeline \/ ReceiveCommentEvent
    \/ Disconnect /\ UNCHANGED timelineVars
    \/ \E r \in CommentSlots, c \in Comments, t \in Texts : SubmitComment(r, c, t)
    \/ \E r \in CommentSlots, kind \in {"update", "resolve", "delete"},
          c \in Comments : ChangeShownComment(r, kind, c)
    \/ \E r \in CommentSlots, c \in Comments : ToggleReaction(r, c)
    \/ \E r \in CommentSlots :
          \/ CommitCommentRequest(r)
          \/ CommentRequestSucceeds(r)
          \/ CommentRequestFails(r)

-----------------------------------------------------------------------------
\* At rest the open timeline has data, and data that nothing is going to fetch
\* again is the server's: every comment once, with its latest text, resolution
\* and reaction, and no reply left of a thread that was deleted.  Doubt names
\* the exceptions: events missed while the timeline was not on screen or the
\* connection was down, a response that came after later changes, and the event
\* of a thread that a reply re-opened, which takes the reactions off it.
TimelineExact ==
    /\ wire = <<>> /\ conn = "up" /\ timeline.fetch = None
    /\ \A r \in CommentSlots : commentRequest[r] = None
    => /\ timeline.mounted => timeline.data # None
       /\ (/\ timeline.data # None /\ timeline.doubt = {}
           /\ timeline.mounted \/ ~ timeline.stale)
             => timeline.data = comment

-----------------------------------------------------------------------------
\* The comments of one issue by themselves.
TimelineSpec ==
    /\ SocketInit /\ TimelineInit
    /\ [][TimelineNext]_<<socketVars, timelineVars>>

-----------------------------------------------------------------------------
(***************************************************************************)
(* The inductive invariant behind TimelineExact.                           *)
(***************************************************************************)
CommentEvents ==
    [type : {"create", "update", "resolve", "react", "delete", "reopen"},
     comment : Comments, entry : Entry \cup {None}]

CreateOf(f, c) == f.type = "create" /\ f.comment = c

\* What an event carries; no event is about a comment before the one of its creation.
Ordered(w) ==
    /\ w \in Seq(CommentEvents)
    /\ \A i \in 1..Len(w) :
          /\ w[i].type # "delete" => w[i].entry # None
          /\ w[i].type = "reopen" => ~ w[i].entry.liked
          /\ w[i].type = "create" => \A j \in 1..(i - 1) : w[j].comment # w[i].comment

\* The parent of a comment is there as long as the comment is.
Rooted(t) ==
    \A c \in Comments : t[c] # None /\ ParentOf[c] # None => t[ParentOf[c]] # None

\* What the event f makes of the comments t, reactions and all.
Patched(t, f) ==
    CASE f.type = "create" -> Appended1(t, f.comment, f.entry)
      [] f.type = "delete" -> Without(t, f.comment)
      [] f.type \in {"update", "resolve"} -> Replaced(t, f.comment, f.entry)
      [] f.type = "reopen" ->
            IF t[f.comment] = None THEN t
            ELSE With(t, f.comment, [f.entry EXCEPT !.liked = t[f.comment].liked])
      [] f.type = "react" ->
            IF t[f.comment] = None THEN t
            ELSE With(t, f.comment, [t[f.comment] EXCEPT !.liked = f.entry.liked])

\* The data d are early in comment c: a response has brought it before its event.
Early(c, w, d) ==
    \E i \in 1..Len(w) : CreateOf(w[i], c) /\ d[c] = w[i].entry

\* S is what the server has held since the state that the data d show, early comments
\* aside: the events w lead from there to t.
Replays(S, w, t, d) ==
    /\ S[Len(w) + 1] = t
    /\ \A i \in 1..Len(w) : S[i + 1] = Patched(S[i], w[i])
    /\ \A i \in 1..(Len(w) + 1) :
          /\ Rooted(S[i])
          /\ \A c \in Comments : S[i][c] = None /\ t[c] # None =>
                \E j \in i..Len(w) : CreateOf(w[j], c)
    /\ \A c \in Comments : d[c] = S[1][c] \/ (S[1][c] = None /\ Early(c, w, d))

Replay(w, t, d) == \E S \in [1..(Len(w) + 1) -> Timeline] : Replays(S, w, t, d)

\* Something is going to fetch the timeline, or nothing will and doubt says why.
Excused ==
    \/ timeline.data = None \/ timeline.doubt # {} \/ timeline.fetch # None
    \/ timeline.owed \/ conn = "down"
    \/ \E r \in CommentSlots :
          commentRequest[r] # None /\ commentRequest[r].kind # "create"

CommentsSound ==
    /\ \A c \in Comments : comment[c] # None => c \in born
    /\ \A i \in 1..Len(wire) : wire[i].comment \in born
    /\ Rooted(comment)

\* A create request that is answered made the comment its event tells of.
RequestsSound ==
    \A r \in CommentSlots :
        LET q == commentRequest[r]
        IN  /\ q # None => q.entry # None
            /\ q # None /\ q.kind = "create" /\ ~ q.sent =>
                  /\ q.comment \in born
                  /\ \A i \in 1..Len(wire) :
                        CreateOf(wire[i], q.comment) => wire[i].entry = q.entry

\* A timeline that has been shown has data or is being loaded; a clean answer is what
\* the server holds, with no event on its way.
QuerySound ==
    /\ timeline.data = None /\ timeline.fetch = None =>
          ~ timeline.mounted /\ \A r \in CommentSlots : commentRequest[r] = None
    /\ timeline.owed => timeline.stale
    /\ timeline.mounted /\ timeline.owed => timeline.fetch # None
    /\ timeline.fetch # None /\ timeline.fetch.clean =>
          \A a \in timeline.fetch.answers : a[2] = comment /\ wire = <<>>

TimelineInv ==
    /\ TimelineTypeOK
    /\ conn \in {"up", "down"} /\ ops \in 0..MaxOps
    /\ conn = "down" => wire = <<>>
    /\ Ordered(wire)
    /\ CommentsSound /\ RequestsSound /\ QuerySound
    /\ Excused \/ Replay(wire, comment, timeline.data)
=============================================================================
