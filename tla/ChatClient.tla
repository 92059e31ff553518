----------------------------- MODULE ChatClient -----------------------------
(***************************************************************************)
(* The chat window of the web client: the messages and the task pill of    *)
(* each session, the list of sessions with their unread marks, what the    *)
(* user does to them (packages/views/chat/components/chat-window.tsx,      *)
(* packages/core/chat/mutations.ts) and what the events of the server do   *)
(* (packages/core/realtime/use-realtime-sync.ts).  The window is open.     *)
(*                                                                         *)
(* No key of the chat is among those a reconnection fetches again.         *)
(***************************************************************************)
EXTENDS WebSocketClient, FiniteSets

CONSTANTS Sessions,
          Existing,      \* bound: the sessions that exist at the start
          Scenarios,     \* bound: the kinds of moves that occur in one behaviour,
                         \* and the queries it follows
          MaxWire        \* bound: the events on their way when a task goes on

VARIABLES
    \* the server: each session, its messages, its active tasks in
    \* the order they were created, and whether it has something unread
    chat,
    \* chatKeys.messages and chatKeys.pendingTask of each session, and
    \* chatKeys.sessions
    queries,
    \* the session the window shows
    active,
    \* the create in flight with those who wait for it, and other requests
    creating, chatRequests,
    \* bound: the scenario of this behaviour
    scenario

chatVars == <<chat, queries, active, creating, chatRequests, scenario>>

\* The user, another tab or the network makes a move.
Moves(move) == move \in scenario.moves /\ Spend /\ UNCHANGED scenario

Ids == 1..MaxOps

Messages == {"user", "reply", "failure", "optimistic"} \X Ids

\* What the pill shows: nothing, or one task.
Pills == {{}} \cup {{t} : t \in Ids \X {"optimistic", "queued", "running"}}

Rows == [Sessions -> {"gone", "read", "unread"}]

ChatRequest ==
    [kind : {"send", "stop", "read", "delete"}, session : Sessions, id : Nat,
     phase : {"sent", "done", "refused"}, prev : Rows \cup {None}]

Session ==
    [state : {"unborn", "open", "deleted"}, messages : SUBSET Messages,
     tasks : Seq(Ids \X {"queued", "running"}), unread : BOOLEAN]

Creation == [session : Sessions \cup {None}, waiters : SUBSET ({"send", "upload"} \X Ids)]

ChatQueries ==
    [messages : [Sessions -> Query(SUBSET Messages, {"rows"} \X SUBSET Messages)],
     pending : [Sessions -> Query(Pills, {"rows"} \X Pills)],
     rows : Query(Rows, {"rows"} \X Rows)]

ASSUME ChatAssumption ==
    /\ MaxOps \in Nat /\ Existing \subseteq Sessions
    /\ None \notin Sessions \cup Rows \cup Creation
    /\ \A d \in (SUBSET Messages) \cup Pills : d # None
    /\ None \notin Fetches({"rows"} \X SUBSET Messages)
    /\ None \notin Fetches({"rows"} \X Pills) \cup Fetches({"rows"} \X Rows)

ChatTypeOK ==
    /\ chat \in [Sessions -> Session]
    /\ queries \in ChatQueries
    /\ active \in Sessions \cup {None} /\ creating \in Creation \cup {None}
    /\ chatRequests \subseteq ChatRequest /\ scenario \in Scenarios

NewSession == [state |-> "open", messages |-> {}, tasks |-> <<>>, unread |-> FALSE]

\* The sessions the server lists.
SessionRows(c) ==
    [s \in Sessions |-> IF c[s].state # "open" THEN "gone"
                        ELSE IF c[s].unread THEN "unread" ELSE "read"]

\* GetPendingChatTask: the most recent of the active tasks.
ServerPill(s) ==
    IF chat[s].tasks = <<>> THEN {} ELSE {chat[s].tasks[Len(chat[s].tasks)]}

Running(s, id) == \E i \in DOMAIN chat[s].tasks : chat[s].tasks[i][1] = id

ChatData(d) == [Absent EXCEPT !.data = d]

\* Op on the queries of session s that ks names and the scenario follows: none
\* of them depends on the messages, and only the list's own actions on the list.
OnKeys(c, s, ks, Op(_)) ==
    LET On(k) == k \in ks \cap scenario.follows
    IN  [messages |-> IF On("messages") THEN [c.messages EXCEPT ![s] = Op(@)] ELSE c.messages,
         pending |-> IF On("pending") THEN [c.pending EXCEPT ![s] = Op(@)] ELSE c.pending,
         rows |-> IF On("rows") THEN Op(c.rows) ELSE c.rows]

OnRows(c, Op(_)) == OnKeys(c, CHOOSE s \in Sessions : TRUE, {"rows"}, Op)

\* setActiveSession: the messages and the pill of the session are shown.
Showing(c, a) ==
    LET Shown(k) == IF k \notin scenario.follows THEN c[k]
                    ELSE [s \in Sessions |->
                             IF s = a THEN Mount(c[k][s]) ELSE Unmount(c[k][s])]
    IN  [c EXCEPT !.messages = Shown("messages"), !.pending = Shown("pending")]

ChatInit ==
    /\ chat = [s \in Sessions |->
                 IF s \in Existing THEN NewSession
                 ELSE [NewSession EXCEPT !.state = "unborn"]]
    /\ active \in Existing \cup {None}
    /\ queries = [messages |-> [s \in Sessions |->
                     IF s = active THEN [ChatData({}) EXCEPT !.mounted = TRUE] ELSE Absent],
                  pending |-> [s \in Sessions |->
                     IF s = active THEN [ChatData({}) EXCEPT !.mounted = TRUE] ELSE Absent],
                  rows |-> [ChatData(SessionRows(chat)) EXCEPT !.mounted = TRUE]]
    /\ creating = None /\ chatRequests = {} /\ scenario \in Scenarios

Uncertain(q, d) == IF q.data = None THEN q ELSE [q EXCEPT !.doubt = @ \cup {d}]

-----------------------------------------------------------------------------
\* The server: what it answers and what it tells.

ChatEvent(type, s, id) == [type |-> type, session |-> s, task |-> id]

\* The queries of its session that an event is about.
Concerned ==
    [queued |-> {"pending"}, dispatch |-> {"pending"}, cancelled |-> {"pending"},
     message |-> {"messages", "pending"}, failed |-> {"messages", "pending"},
     done |-> {"messages", "pending", "rows"}, read |-> {"rows"},
     deleted |-> {"messages", "pending", "rows"}]

ConcernedBy(events, s) ==
    UNION {Concerned[events[i].type] :
               i \in {j \in DOMAIN events : events[j].session = s}}

\* What the server answers about session s, by query.
Served(s) == [messages |-> chat[s].messages, pending |-> ServerPill(s),
              rows |-> SessionRows(chat)]

\* The server changes: a fetch in flight may have its answer from before.
Overtaken(c, s, ks) ==
    LET Old(k) == OnKeys(c, s, {k},
            LAMBDA q : IF q.fetch = None THEN q ELSE Answer(q, "rows", Served(s)[k], TRUE))
    IN  [messages |-> IF "messages" \in ks THEN Old("messages").messages ELSE c.messages,
         pending |-> IF "pending" \in ks THEN Old("pending").pending ELSE c.pending,
         rows |-> IF "rows" \in ks THEN Old("rows").rows ELSE c.rows]

\* Session s has changed, and the events say so to whom is connected.  Nothing
\* fetches what a client that is not has missed.
Tell(s, c, events) ==
    LET ks == ConcernedBy(events, s)
        touched == Overtaken(c, s, ks)
    IN  /\ Send(events)
        /\ queries' = IF conn = "up" THEN touched
                      ELSE OnKeys(touched, s, ks, LAMBDA q : Uncertain(q, "missed"))

\* SendChatMessage: the message and its task.
Sent(c, s, id) ==
    [c EXCEPT ![s].messages = @ \cup {<<"user", id>>},
              ![s].tasks = Append(@, <<id, "queued">>)]

SentEvents(s, id) == <<ChatEvent("queued", s, id), ChatEvent("message", s, id)>>

\* The i-th task of session s has ended.
Finished(c, s, i) ==
    LET tasks == c[s].tasks
    IN  [c EXCEPT ![s].tasks = [j \in 1..(Len(tasks) - 1) |->
                                   tasks[IF j < i THEN j ELSE j + 1]]]

\* DeleteChatSession cancels the session's tasks.
Deleted(c, s) == [c EXCEPT ![s] = [NewSession EXCEPT !.state = "deleted"]]

DeletedEvents(s) ==
    [i \in DOMAIN chat[s].tasks |-> ChatEvent("cancelled", s, chat[s].tasks[i][1])]
    \o <<ChatEvent("deleted", s, 0)>>

ChatChangesElsewhere(s) ==
    /\ chat[s].state = "open"
    /\ \/ /\ Moves("send elsewhere")
          /\ chat' = Sent(chat, s, ops')
          /\ Tell(s, queries, SentEvents(s, ops'))
       \/ /\ Moves("delete elsewhere")
          /\ chat' = Deleted(chat, s)
          /\ Tell(s, queries, DeletedEvents(s))
       \/ /\ Moves("cancel elsewhere")
          /\ \E i \in DOMAIN chat[s].tasks :
                /\ chat' = Finished(chat, s, i)
                /\ Tell(s, queries, <<ChatEvent("cancelled", s, chat[s].tasks[i][1])>>)
    /\ UNCHANGED <<conn, active, creating, chatRequests>>

\* A daemon claims a task and ends it.  FailTask marks the session unread as
\* CompleteTask does, and its event makes no client look at the list.
RunChatTask(s, i) ==
    LET id == chat[s].tasks[i][1]
        Ended(kind) == [Finished(chat, s, i) EXCEPT
                           ![s].messages = @ \cup {<<kind, id>>}, ![s].unread = TRUE]
    IN  /\ i \in DOMAIN chat[s].tasks /\ Len(wire) < MaxWire
        /\ \/ /\ chat[s].tasks[i][2] = "queued"
              /\ chat' = [chat EXCEPT ![s].tasks[i] = <<id, "running">>]
              /\ Tell(s, queries, <<ChatEvent("dispatch", s, id)>>)
           \/ /\ chat[s].tasks[i][2] = "running"
              /\ chat' = Ended("reply")
              /\ Tell(s, queries, <<ChatEvent("done", s, id)>>)
           \/ /\ chat[s].tasks[i][2] = "running"
              /\ chat' = Ended("failure")
              /\ Tell(s, OnRows(Overtaken(queries, s, {"rows"}),
                                LAMBDA q : Uncertain(q, "unannounced")),
                      <<ChatEvent("failed", s, id)>>)
        /\ UNCHANGED <<conn, ops, active, creating, chatRequests, scenario>>

CommitRequest(r) ==
    LET s == r.session
        open == chat[s].state = "open"
        Becomes(phase) == chatRequests' = (chatRequests \ {r}) \cup {[r EXCEPT !.phase = phase]}
    IN  /\ r.phase = "sent"
        /\ \/ /\ r.kind = "send" /\ open
              /\ chat' = Sent(chat, s, r.id) /\ Tell(s, queries, SentEvents(s, r.id))
              /\ Becomes("done")
           \/ /\ r.kind = "stop"
              /\ \E i \in DOMAIN chat[s].tasks :
                    chat[s].tasks[i][1] = r.id /\ chat' = Finished(chat, s, i)
              /\ Tell(s, queries, <<ChatEvent("cancelled", s, r.id)>>)
              /\ Becomes("done")
           \/ /\ r.kind = "read" /\ open
              /\ chat' = [chat EXCEPT ![s].unread = FALSE]
              /\ Tell(s, queries, <<ChatEvent("read", s, 0)>>)
              /\ Becomes("done")
           \/ /\ r.kind = "delete" /\ open
              /\ chat' = Deleted(chat, s) /\ Tell(s, queries, DeletedEvents(s))
              /\ Becomes("done")
           \/ /\ IF r.kind = "stop" THEN ~ Running(s, r.id) ELSE ~ open
              /\ Becomes("refused")
              /\ UNCHANGED <<chat, queries, wire>>
        /\ UNCHANGED <<conn, ops, active, creating, scenario>>

\* CreateChatSession.  No event tells of it.
CommitCreate(s) ==
    /\ creating # None /\ creating.session = None
    /\ chat[s].state = "unborn"
    /\ chat' = [chat EXCEPT ![s] = NewSession]
    /\ creating' = [creating EXCEPT !.session = s]
    /\ queries' = Overtaken(queries, s, {"rows"})
    /\ UNCHANGED <<socketVars, active, chatRequests, scenario>>

-----------------------------------------------------------------------------
\* What the user does.

\* A fetch lands: with what the server holds, or with an answer that has been
\* overtaken.  An answer of the list does not agree with marks still to come.
LandChat(s) ==
    LET marked == \E i \in DOMAIN wire : wire[i].type \in {"read", "deleted"}
    IN  /\ \E k \in {"messages", "pending", "rows"} :
              LET q == IF k = "rows" THEN queries.rows ELSE queries[k][s]
                  Landed(d, clean) ==
                      OnKeys(queries, s, {k},
                             LAMBDA p : Land([p EXCEPT !.fetch.clean = clean], d))
              IN  /\ q.fetch # None
                  /\ \/ queries' = Landed(Served(s)[k], k # "rows" \/ ~ marked)
                     \/ \E a \in q.fetch.answers : queries' = Landed(a[2], FALSE)
        /\ UNCHANGED <<socketVars, chat, active, creating, chatRequests, scenario>>

RequestOf(kind, s, id, prev) ==
    [kind |-> kind, session |-> s, id |-> id, phase |-> "sent", prev |-> prev]

\* The optimistic burst of handleSend: the message and a pill without a task.
Burst(c, s, id) ==
    LET message == {<<"optimistic", id>>}
        c1 == OnKeys(c, s, {"messages"},
                     LAMBDA q : Write(q, IF q.data = None THEN message
                                         ELSE q.data \cup message))
    IN  OnKeys(c1, s, {"pending"}, LAMBDA q : Write(q, {<<id, "optimistic">>}))

\* handleSend in a session; the input is locked while the pill shows a task.
HandleSend ==
    /\ active # None /\ Moves("send")
    /\ queries.pending[active].data \in {None, {}}
    /\ queries' = Burst(queries, active, ops')
    /\ chatRequests' = chatRequests \cup {RequestOf("send", active, ops', None)}
    /\ UNCHANGED <<conn, wire, chat, active, creating>>

\* ensureSession, for a message or for a file: whoever comes while a session
\* is being created waits for the same one.
EnsureSession(what) ==
    /\ active = None /\ Moves(what)
    /\ creating' = IF creating # None
                   THEN [creating EXCEPT !.waiters = @ \cup {<<what, ops'>>}]
                   ELSE [session |-> None, waiters |-> {<<what, ops'>>}]
    /\ UNCHANGED <<conn, wire, chat, queries, active, chatRequests>>

\* The session is created: its list is fetched again (onSettled), a file seeds
\* an empty conversation, messages are sent, and the window turns to it,
\* whatever it shows by now and whatever has become of the session.
CreateResponds ==
    LET s == creating.session
        sends == {w[2] : w \in {x \in creating.waiters : x[1] = "send"}}
        Seed(q) == Write(q, (IF q.data = None THEN {} ELSE q.data)
                            \cup {<<"optimistic", id>> : id \in sends})
        Pill(q) == IF sends = {} THEN q
                   ELSE Write(q, {<<CHOOSE i \in sends : \A j \in sends : j <= i,
                                    "optimistic">>})
        c1 == OnRows(queries, Invalidate)
        c2 == OnKeys(OnKeys(c1, s, {"messages"}, Seed), s, {"pending"}, Pill)
        Known(q) == IF chat[s] = NewSession THEN q ELSE Uncertain(q, "late")
    IN  /\ creating # None /\ s # None
        /\ active' = s
        /\ queries' = OnKeys(Showing(c2, s), s, {"messages", "pending", "rows"}, Known)
        /\ chatRequests' = chatRequests \cup {RequestOf("send", s, id, None) : id \in sends}
        /\ creating' = None
        /\ UNCHANGED <<socketVars, chat, scenario>>

CreateFails ==
    /\ creating # None /\ Moves("fail")
    /\ creating' = None
    /\ queries' = OnRows(queries, Invalidate)
    /\ UNCHANGED <<conn, wire, chat, active, chatRequests>>

\* handleStop: the pill goes at once; a pill without a task names none to the
\* server.
HandleStop ==
    /\ active # None /\ Moves("stop")
    /\ queries.pending[active].data \notin {None, {}}
    /\ LET task == CHOOSE t \in queries.pending[active].data : TRUE
           c1 == OnKeys(queries, active, {"pending"}, LAMBDA q : Write(q, {}))
       IN  /\ queries' = OnKeys(c1, active, {"messages"}, Invalidate)
           /\ chatRequests' = chatRequests \cup
                  {RequestOf("stop", active,
                             IF task[2] = "optimistic" THEN 0 ELSE task[1], None)}
    /\ UNCHANGED <<conn, wire, chat, active, creating>>

\* handleNewChat and handleSelectAgent (None), handleSelectSession.
ShowSession(a) ==
    /\ a # active /\ Moves("show")
    /\ a # None => queries.rows.data[a] # "gone"
    /\ active' = a
    /\ queries' = Showing(queries, a)
    /\ UNCHANGED <<conn, wire, chat, creating, chatRequests>>

Row(c, s, r) ==
    OnRows(c, LAMBDA q : Patch(q, [q.data EXCEPT ![s] = IF @ = "gone" THEN @ ELSE r]))

\* onMutate of a mutation of the list: the fetch is dropped, the row written.
RowMutation(c, s, r) ==
    Row(OnRows(c, Cancel), s, r)

\* handleConfirmDelete and the mutation's onMutate.
ConfirmDelete(s) ==
    LET a == IF active = s THEN None ELSE active
    IN  /\ queries.rows.data[s] # "gone" /\ Moves("delete")
        /\ active' = a
        /\ queries' = RowMutation(Showing(queries, a), s, "gone")
        /\ chatRequests' = chatRequests \cup
               {RequestOf("delete", s, ops', queries.rows.data)}
        /\ UNCHANGED <<conn, wire, chat, creating>>

\* The effect that marks what the window shows as read: it runs again whenever
\* the row has become unread.
MarkRead ==
    /\ active # None /\ queries.rows.data[active] = "unread"
    /\ queries' = RowMutation(queries, active, "read")
    /\ chatRequests' = chatRequests \cup
           {RequestOf("read", active,
               CHOOSE n \in 0..Cardinality(chatRequests) : \A r \in chatRequests : r.id # n,
               queries.rows.data)}
    /\ UNCHANGED <<socketVars, chat, active, creating, scenario>>

\* The answer to a message arrives: its task is queued, or was.
SendAnswered(c, s, id) ==
    LET Known(q) == IF ServerPill(s) = {<<id, "queued">>} THEN q
                    ELSE Uncertain(q, "late")
        c1 == OnKeys(c, s, {"pending"}, LAMBDA q : Known(Write(q, {<<id, "queued">>})))
    IN  OnKeys(c1, s, {"messages"}, Invalidate)

RequestSucceeds(r) ==
    /\ r.phase = "done"
    /\ queries' = IF r.kind = "send" THEN SendAnswered(queries, r.session, r.id)
                  ELSE IF r.kind = "stop" THEN queries
                  ELSE OnRows(queries, Invalidate)
    /\ chatRequests' = chatRequests \ {r}
    /\ UNCHANGED <<socketVars, chat, active, creating, scenario>>

\* Refused, or failed on the way there or back.  A message that was not sent
\* stays where it was shown; a mutation of the list is rolled back, and the
\* list fetched.
RequestFails(r) ==
    LET s == r.session
        Unstopped(q) == IF Running(s, r.id) THEN Uncertain(q, "unstopped") ELSE q
    IN  /\ IF r.phase = "refused" THEN UNCHANGED <<ops, scenario>> ELSE Moves("fail")
        /\ queries' =
             IF r.kind = "send"
             THEN OnKeys(queries, s, {"messages", "pending"},
                         LAMBDA q : Uncertain(q, "unsent"))
             ELSE IF r.kind = "stop" THEN OnKeys(queries, s, {"pending"}, Unstopped)
             ELSE OnRows(queries, LAMBDA q : Invalidate(Write(q, r.prev)))
        /\ chatRequests' = chatRequests \ {r}
        /\ UNCHANGED <<conn, wire, chat, active, creating>>

-----------------------------------------------------------------------------
\* The events.

OnTaskQueued(c, e) ==
    OnKeys(c, e.session, {"pending"}, LAMBDA q : Write(q, {<<e.task, "queued">>}))

OnTaskDispatch(c, e) ==
    OnKeys(c, e.session, {"pending"},
           LAMBDA q : Patch(q, IF \E t \in q.data : t[1] = e.task /\ t[2] # "optimistic"
                               THEN {<<e.task, "running">>} ELSE q.data))

\* Variant of OnChatMessage: the messages are not fetched.
OnChatMessagePillOnly(c, e) == OnKeys(c, e.session, {"pending"}, Invalidate)

OnChatMessage(c, e) == OnKeys(c, e.session, {"messages", "pending"}, Invalidate)

\* Variant of OnChatDone: without the lists.
OnChatDoneHere(c, e) ==
    LET c1 == OnKeys(c, e.session, {"messages"},
                     LAMBDA q : Invalidate(Patch(q, q.data \cup {<<"reply", e.task>>})))
    IN  OnKeys(c1, e.session, {"pending"}, LAMBDA q : Invalidate(Write(q, {})))

\* applyChatDoneToCache, and the lists.
OnChatDone(c, e) ==
    LET c1 == OnKeys(c, e.session, {"messages"},
                     LAMBDA q : Invalidate(Patch(q, q.data \cup {<<"reply", e.task>>})))
        c2 == OnKeys(c1, e.session, {"pending"}, LAMBDA q : Invalidate(Write(q, {})))
    IN  OnRows(c2, Invalidate)

\* Variant of OnTaskFailed: the pill is left as it is.
OnTaskFailedMessages(c, e) == OnKeys(c, e.session, {"messages"}, Invalidate)

OnTaskFailed(c, e) ==
    LET c1 == OnKeys(c, e.session, {"messages"}, Invalidate)
    IN  OnKeys(c1, e.session, {"pending"}, LAMBDA q : Invalidate(Write(q, {})))

\* The pill goes, whichever task it shows.  When that is another one, which no
\* event on its way will show again, it is lost.
OnTaskCancelled(c, e) ==
    LET s == e.session
        told == \E i \in DOMAIN wire : /\ wire[i].type = "queued" /\ wire[i].session = s
                                       /\ \E t \in ServerPill(s) : t[1] = wire[i].task
        Crossed(q) == IF ServerPill(s) = {} \/ told THEN q ELSE Uncertain(q, "crossed")
    IN  OnKeys(c, s, {"pending"}, LAMBDA q : Crossed(Write(q, {})))

OnSessionRead(c, e) == Row(c, e.session, "read")

OnSessionDeleted(c, e) ==
    OnKeys(Row(c, e.session, "gone"), e.session, {"messages", "pending"}, Forget)

OnChatEvent(c, e) ==
    CASE e.type = "queued" -> OnTaskQueued(c, e)
      [] e.type = "dispatch" -> OnTaskDispatch(c, e)
      [] e.type = "message" -> OnChatMessage(c, e)
      [] e.type = "done" -> OnChatDone(c, e)
      [] e.type = "failed" -> OnTaskFailed(c, e)
      [] e.type = "cancelled" -> OnTaskCancelled(c, e)
      [] e.type = "read" -> OnSessionRead(c, e)
      [] e.type = "deleted" -> OnSessionDeleted(c, e)

ReceiveChatEvent ==
    LET e == Head(wire)
        closes == e.type = "deleted" /\ e.session = active
    IN  /\ Deliver
        /\ active' = IF closes THEN None ELSE active
        /\ queries' = IF closes THEN Showing(OnChatEvent(queries, e), None)
                      ELSE OnChatEvent(queries, e)
        /\ UNCHANGED <<chat, creating, chatRequests, scenario>>

DisconnectChat ==
    /\ Moves("disconnect") /\ Disconnect
    /\ LET Lost(s, k) == IF k \in ConcernedBy(wire, s) \cap scenario.follows
                         THEN Uncertain(queries[k][s], "missed") ELSE queries[k][s]
       IN  queries' =
             [messages |-> [s \in Sessions |-> Lost(s, "messages")],
              pending |-> [s \in Sessions |-> Lost(s, "pending")],
              rows |-> IF \E s \in Sessions : "rows" \in ConcernedBy(wire, s)
                       THEN OnRows(queries, LAMBDA q : Uncertain(q, "missed")).rows
                       ELSE queries.rows]
    /\ UNCHANGED <<chat, active, creating, chatRequests>>

\* A reconnection fetches nothing of the chat.
ReconnectChat == Authenticated /\ UNCHANGED chatVars

-----------------------------------------------------------------------------
ChatNext ==
    \/ \E s \in Sessions : \/ ChatChangesElsewhere(s) \/ LandChat(s)
                           \/ \E i \in 1..MaxOps : RunChatTask(s, i)
                           \/ CommitCreate(s) \/ ConfirmDelete(s)
    \/ \E r \in chatRequests : CommitRequest(r) \/ RequestSucceeds(r) \/ RequestFails(r)
    \/ HandleSend \/ HandleStop
    \/ EnsureSession("send") \/ EnsureSession("upload")
    \/ CreateResponds \/ CreateFails
    \/ \E a \in Sessions \cup {None} : ShowSession(a)
    \/ MarkRead \/ ReceiveChatEvent \/ DisconnectChat \/ ReconnectChat

\* The chat by itself.
ChatSpec ==
    /\ SocketInit /\ ChatInit
    /\ [][ChatNext]_<<socketVars, chatVars>>

-----------------------------------------------------------------------------
\* No event, request or fetch under way, and nothing on screen still to be
\* marked as read.
ChatAtRest ==
    /\ conn = "up" /\ wire = <<>> /\ creating = None /\ chatRequests = {}
    /\ active # None => queries.rows.data[active] # "unread"
    /\ queries.rows.fetch = None
    /\ \A s \in Sessions : /\ queries.messages[s].fetch = None
                           /\ queries.pending[s].fetch = None

Settled(q) == q.data # None /\ q.doubt = {} /\ (q.mounted \/ ~ q.stale)

\* At rest the status pill of a session shows the task the server has for it,
\* and none when there is none: no task that ended leaves the session looking
\* busy, whatever order answers, events and fetches came in, and no task at work
\* is without its pill, the input unlocked.  Doubt names the exceptions:
\* what was missed while the connection was down (a reconnection fetches no
\* chat query), a message that was not sent, an answer that came late, a stop
\* that was refused, a cancellation that took the pill of another task.
PillHonest ==
    ChatAtRest /\ "pending" \in scenario.follows =>
        \A s \in Sessions : Settled(queries.pending[s]) =>
            queries.pending[s].data = ServerPill(s)

\* At rest the messages on screen are the session's: no optimistic message
\* stays beside the one it stood for, and no reply is missing.  The message of
\* a send that failed does stay (doubt), and events may have been missed.
MessagesExact ==
    ChatAtRest /\ "messages" \in scenario.follows =>
        \A s \in Sessions : Settled(queries.messages[s]) =>
            queries.messages[s].data = chat[s].messages

\* At rest the list has each session there is, with its unread mark, whichever
\* of the user's marks, deletions and rollbacks crossed the events of other
\* tabs.  Except for what was missed, and for a failed task, whose event makes
\* nobody fetch the list (doubt "unannounced").
UnreadShown ==
    ChatAtRest /\ "rows" \in scenario.follows /\ Settled(queries.rows) =>
        queries.rows.data = SessionRows(chat)
=============================================================================
