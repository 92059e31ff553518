-------------------------- MODULE ChatClientProofs --------------------------
(***************************************************************************)
(* What is proved about the chat window of ChatClient: at rest the pill,   *)
(* the messages and the list of sessions that are not doubted are what the *)
(* server has.                                                             *)
(*                                                                         *)
(* The invariant is ChatInv.  Its heart is MessagesTold, PillTold and      *)
(* RowsTold: what is Sure, that is loaded, not doubted, not stale and not  *)
(* being fetched, is the server's, but for what an event on the wire or a  *)
(* request of the user is still to bring.  Most events make what they are  *)
(* about stale, so it hardly matters what the wire holds, only which       *)
(* sessions it is about.  The queued and the dispatched task write the     *)
(* pill and fetch nothing, and need more: that an id is one task's         *)
(* (TasksFresh, SendsFresh), and that on the wire the message of a send    *)
(* follows its task (QueuedFirst), which makes the pill stale again.       *)
(*                                                                         *)
(* The lemmas say what the operations on one query keep (Stay: nothing     *)
(* that was sure has changed), what the server's changes send, and then,   *)
(* action by action, that the invariant holds.                             *)
(***************************************************************************)
EXTENDS ChatClient, FiniteSetTheorems, WellFoundedInduction, TLAPS

-----------------------------------------------------------------------------
(***************************************************************************)
(* The inductive invariant.                                                *)
(***************************************************************************)
\* A query is stale for a lack of data it has, and fetched if it is shown.
Sound(q) ==
    /\ q.stale = q.owed
    /\ q.stale => q.data # None
    /\ q.mounted /\ q.stale => q.fetch # None

\* Nothing is going to fetch the data again, and nothing is known to be missing.
Sure(q) == q.data # None /\ q.doubt = {} /\ ~ q.stale /\ q.fetch = None

\* Nothing that was sure has changed.
Stay(q, n) == Sure(n) => Sure(q) /\ n.data = q.data

\* An event of these types about session s is among the events w.
Hears(w, types, s) == \E k \in 1..Len(w) : w[k].type \in types /\ w[k].session = s

\* The dispatch of a task is among the events w.
Starting(w, s, id) ==
    \E k \in 1..Len(w) : w[k].type = "dispatch" /\ w[k].session = s /\ w[k].task = id

Sending(s) == \E r \in chatRequests : r.kind = "send" /\ r.session = s

Stopping(s) ==
    \E r \in chatRequests : /\ r.kind = "stop" /\ r.session = s /\ r.phase # "done"
                            /\ Running(s, r.id)

Editing == \E r \in chatRequests : r.kind \in {"read", "delete"}

MessageTypes == {"message", "done", "failed", "deleted"}

PillTypes == {"queued", "message", "done", "failed", "cancelled", "deleted"}

\* The messages that are sure are the server's, but for an event on its way or a
\* message that is being sent.
MessagesTold ==
    "messages" \in scenario.follows =>
        \A s \in Sessions :
            Sure(queries.messages[s]) /\ ~ Hears(wire, MessageTypes, s) /\ ~ Sending(s)
                => queries.messages[s].data = chat[s].messages

\* The pill is the server's, or it is about to be shown to run.
PillIs(d, s, pill, w) ==
    \/ pill = d
    \/ \E id \in Ids : /\ d = {<<id, "queued">>} /\ pill = {<<id, "running">>}
                       /\ Starting(w, s, id)

PillTold ==
    "pending" \in scenario.follows =>
        \A s \in Sessions :
            (/\ Sure(queries.pending[s]) /\ ~ Hears(wire, PillTypes, s)
             /\ ~ Sending(s) /\ ~ Stopping(s))
                => PillIs(queries.pending[s].data, s, ServerPill(s), wire)

\* A row once the marks on their way are made.
Marked(w, s, row) ==
    IF Hears(w, {"deleted"}, s) THEN "gone"
    ELSE IF Hears(w, {"read"}, s) /\ row # "gone" THEN "read" ELSE row

RowsTold ==
    (/\ "rows" \in scenario.follows /\ Sure(queries.rows)
     /\ \A s \in Sessions : ~ Hears(wire, {"done"}, s)
     /\ creating = None /\ ~ Editing) =>
        \A s \in Sessions : SessionRows(chat)[s] = Marked(wire, s, queries.rows.data[s])

\* An id is given to one task of a session; one that waits was not dispatched.
TasksFresh ==
    \A s \in Sessions :
        /\ \A i \in DOMAIN chat[s].tasks :
              /\ chat[s].tasks[i][1] <= ops
              /\ chat[s].tasks[i][2] = "queued" => ~ Starting(wire, s, chat[s].tasks[i][1])
              /\ \A j \in DOMAIN chat[s].tasks :
                    chat[s].tasks[i][1] = chat[s].tasks[j][1] => i = j
        /\ \A id \in Ids : Starting(wire, s, id) => id <= ops

\* The id of a message that is not sent yet is nobody's.
Unused(s, id) == ~ Running(s, id) /\ ~ Starting(wire, s, id)

SendsFresh ==
    /\ \A r \in chatRequests :
          r.kind = "send" => /\ r.id \in 1..ops /\ r.prev = None
                             /\ r.phase = "sent" => Unused(r.session, r.id)
    /\ creating # None =>
          \A w \in creating.waiters :
              /\ w[2] <= ops
              /\ w[1] = "send" =>
                    /\ \A s \in Sessions : Unused(s, w[2])
                    /\ \A r \in chatRequests : r.kind = "send" => r.id # w[2]

\* The message of a task is told after the task.
QueuedFirst(w) ==
    \A k \in 1..Len(w) : w[k].type = "queued" =>
        k < Len(w) /\ w[k + 1].type = "message" /\ w[k + 1].session = w[k].session

\* A session that is not created yet holds nothing.
UnbornEmpty ==
    \A s \in Sessions : chat[s].state = "unborn" => chat[s].messages = {} /\ chat[s].tasks = <<>>

ChatEvents ==
    [type : DOMAIN Concerned \ {"read", "deleted"}, session : Sessions, task : Ids]
        \cup [type : {"read", "deleted"}, session : Sessions, task : {0}]

AllSound(c) ==
    /\ Sound(c.rows)
    /\ \A s \in Sessions : Sound(c.messages[s]) /\ Sound(c.pending[s])

ChatBase ==
    /\ ChatTypeOK /\ AllSound(queries)
    /\ conn \in {"up", "down"} /\ ops \in 0..MaxOps
    /\ wire \in Seq(ChatEvents) /\ (conn = "down" => wire = <<>>)

ChatInv ==
    /\ ChatBase /\ MessagesTold /\ PillTold /\ RowsTold
    /\ TasksFresh /\ SendsFresh /\ QueuedFirst(wire)
    /\ UnbornEmpty /\ IsFiniteSet(chatRequests)

-----------------------------------------------------------------------------
(***************************************************************************)
(* The operations on a query.                                              *)
(***************************************************************************)
MessageQuery == Query(SUBSET Messages, {"rows"} \X SUBSET Messages)

PillQuery == Query(Pills, {"rows"} \X Pills)

RowsQuery == Query(Rows, {"rows"} \X Rows)

LEMMA ChatQueryHas ==
  ASSUME NEW Data, NEW Answers, NEW q \in Query(Data, Answers)
  PROVE  /\ q.data \in Data \cup {None} /\ q.stale \in BOOLEAN /\ q.owed \in BOOLEAN
         /\ q.mounted \in BOOLEAN /\ q.doubt \subseteq Doubts
         /\ q.fetch \in {None} \cup Fetches(Answers)
         /\ q.fetch # None => /\ q.fetch.answers \subseteq Answers
                              /\ q.fetch.clean \in BOOLEAN
BY DEF Query, Fetches

LEMMA ChatFetchStarts ==
  ASSUME NEW Answers, None \notin Fetches(Answers)
  PROVE  Fetching \in Fetches(Answers) /\ Fetching # None
<1>1. Fetching \in [answers : SUBSET Answers, clean : BOOLEAN]
  BY DEF Fetching
<1> QED
  BY <1>1 DEF Fetches

LEMMA ChatAbsentIs ==
  ASSUME NEW Data, NEW Answers
  PROVE  Absent \in Query(Data, Answers) /\ Sound(Absent) /\ ~ Sure(Absent)
BY DEF Absent, Query, Sound, Sure

LEMMA WriteIs ==
  ASSUME NEW Data, NEW Answers, NEW q \in Query(Data, Answers), NEW d \in Data
  PROVE  LET n == Write(q, d)
         IN  /\ n \in Query(Data, Answers) /\ Sound(n) /\ n.data = d
             /\ Sure(n) => q.fetch = None /\ q.doubt = {} /\ ~ q.owed
             /\ Sound(q) /\ Sure(n) /\ q.data # None => Sure(q)
             /\ n.data # None => d # None
             /\ n.mounted = q.mounted
<1>1. Write(q, d) \in Query(Data, Answers)
  BY DEF Query, Write, Doubts
<1> QED
  BY <1>1, ChatQueryHas DEF Write, Sound, Sure, Query

LEMMA PatchIs ==
  ASSUME NEW Data, NEW Answers, NEW q \in Query(Data, Answers), Sound(q), NEW d,
         q.data # None => d \in Data
  PROVE  LET n == Patch(q, d)
         IN  /\ n \in Query(Data, Answers) /\ Sound(n)
             /\ Sure(n) => Sure(q) /\ n.data = d
<1>1. CASE q.data = None
  BY <1>1 DEF Patch, Sure
<1>2. CASE q.data # None
  BY <1>2, WriteIs DEF Patch
<1> QED
  BY <1>1, <1>2

LEMMA InvalidateIs ==
  ASSUME NEW Data, NEW Answers, None \notin Fetches(Answers),
         NEW q \in Query(Data, Answers), Sound(q)
  PROVE  LET n == Invalidate(q)
         IN  n \in Query(Data, Answers) /\ Sound(n) /\ ~ Sure(n)
<1>1. Fetching \in Fetches(Answers) /\ Fetching # None
  BY ChatFetchStarts
<1>2. Invalidate(q) \in Query(Data, Answers)
  BY <1>1 DEF Query, Invalidate, Flag
<1> QED
  BY <1>1, <1>2, ChatQueryHas DEF Invalidate, Flag, Sound, Sure, Query

LEMMA UncertainIs ==
  ASSUME NEW Data, NEW Answers, NEW q \in Query(Data, Answers), Sound(q), NEW d \in Doubts
  PROVE  LET n == Uncertain(q, d)
         IN  n \in Query(Data, Answers) /\ Sound(n) /\ ~ Sure(n)
<1>1. Uncertain(q, d) \in Query(Data, Answers)
  BY DEF Query, Uncertain
<1> QED
  BY <1>1, ChatQueryHas DEF Uncertain, Sound, Sure, Query

LEMMA ForgetIs ==
  ASSUME NEW Data, NEW Answers, NEW q \in Query(Data, Answers)
  PROVE  LET n == Forget(q)
         IN  n \in Query(Data, Answers) /\ Sound(n) /\ ~ Sure(n)
BY DEF Query, Forget, Absent, Sound, Sure

LEMMA MountIs ==
  ASSUME NEW Data, NEW Answers, None \notin Fetches(Answers),
         NEW q \in Query(Data, Answers), Sound(q)
  PROVE  /\ Mount(q) \in Query(Data, Answers) /\ Sound(Mount(q)) /\ Stay(q, Mount(q))
         /\ Unmount(q) \in Query(Data, Answers) /\ Sound(Unmount(q)) /\ Stay(q, Unmount(q))
<1>1. Fetching \in Fetches(Answers) /\ Fetching # None
  BY ChatFetchStarts
<1>2. Mount(q) \in Query(Data, Answers)
  BY <1>1 DEF Query, Mount
<1>3. Unmount(q) \in Query(Data, Answers)
  BY DEF Query, Unmount
<1>4. Sound(Mount(q)) /\ Stay(q, Mount(q))
  BY <1>1, <1>2, ChatQueryHas DEF Mount, Sound, Sure, Stay, Query
<1> QED
  BY <1>2, <1>3, <1>4, ChatQueryHas DEF Unmount, Sound, Sure, Stay, Query

LEMMA AnswerIs ==
  ASSUME NEW Data, None \notin Fetches({"rows"} \X Data),
         NEW q \in Query(Data, {"rows"} \X Data), Sound(q), NEW d \in Data
  PROVE  LET n == IF q.fetch = None THEN q ELSE Answer(q, "rows", d, TRUE)
         IN  n \in Query(Data, {"rows"} \X Data) /\ Sound(n) /\ Stay(q, n)
<1>1. CASE q.fetch = None
  BY <1>1 DEF Stay
<1>2. CASE q.fetch # None
  <2> DEFINE f == [answers |-> q.fetch.answers \cup {<<"rows", d>>},
                   clean |-> q.fetch.clean /\ TRUE]
  <2>1. f \in Fetches({"rows"} \X Data)
    BY <1>2, ChatQueryHas DEF Fetches
  <2>2. f # None
    BY <2>1
  <2>3. Answer(q, "rows", d, TRUE) = [q EXCEPT !.fetch = f]
    BY DEF Answer, Query
  <2> HIDE DEF f
  <2> QED
    BY <1>2, <2>1, <2>2, <2>3 DEF Query, Sound, Sure, Stay
<1> QED
  BY <1>1, <1>2

LEMMA LandIs ==
  ASSUME NEW Data, NEW Answers, NEW q \in Query(Data, Answers), q.fetch # None,
         NEW d \in Data, NEW c \in BOOLEAN
  PROVE  LET n == Land([q EXCEPT !.fetch.clean = c], d)
         IN  n \in Query(Data, Answers) /\ Sound(n) /\ (Sure(n) => c /\ n.data = d)
<1> DEFINE f == [q.fetch EXCEPT !.clean = c]
           p == [q EXCEPT !.fetch.clean = c]
           n == Land(p, d)
<1>1. f \in Fetches(Answers) /\ f.clean = c
  BY ChatQueryHas DEF Fetches
<1>2. p = [q EXCEPT !.fetch = f]
  OBVIOUS
<1> HIDE DEF f, p
<1>3. p \in Query(Data, Answers) /\ p.fetch = f /\ p.mounted = q.mounted
  BY <1>1, <1>2 DEF Query
<1> HIDE DEF n
<1>4. /\ n.data = d /\ n.stale = FALSE /\ n.owed = FALSE /\ n.fetch = None
      /\ n.doubt = IF c THEN {} ELSE {"overlap"}
  BY <1>1, <1>3 DEF Land, Query, n
<1>5. n \in Query(Data, Answers)
  BY <1>3 DEF Query, Doubts, Land, n
<1>6. Sound(n) /\ (Sure(n) => c /\ n.data = d)
  BY <1>4 DEF Sound, Sure
<1> QED
  BY <1>5, <1>6 DEF n, p

-----------------------------------------------------------------------------
(***************************************************************************)
(* The events on their way.                                                *)
(***************************************************************************)
LEMMA TypesAre ==
  /\ DOMAIN Concerned = {"queued", "dispatch", "cancelled", "message", "failed", "done",
                         "read", "deleted"}
  /\ Concerned.queued = {"pending"} /\ Concerned.dispatch = {"pending"}
  /\ Concerned.cancelled = {"pending"} /\ Concerned.message = {"messages", "pending"}
  /\ Concerned.failed = {"messages", "pending"} /\ Concerned.read = {"rows"}
  /\ Concerned.done = {"messages", "pending", "rows"}
  /\ Concerned.deleted = {"messages", "pending", "rows"}
BY DEF Concerned

LEMMA ChatEventHas ==
  ASSUME NEW e \in ChatEvents
  PROVE  /\ e.type \in DOMAIN Concerned /\ e.session \in Sessions
         /\ e.type \notin {"read", "deleted"} => e.task \in Ids
BY TypesAre DEF ChatEvents

LEMMA HearsMore ==
  ASSUME NEW w \in Seq(ChatEvents), NEW v \in Seq(ChatEvents), NEW types, NEW s
  PROVE  Hears(w \o v, types, s) <=> Hears(w, types, s) \/ Hears(v, types, s)
<1> DEFINE u == w \o v
<1>1. /\ Len(w) \in Nat /\ Len(v) \in Nat /\ Len(u) = Len(w) + Len(v)
      /\ \A k \in 1..Len(w) : u[k] = w[k]
      /\ \A k \in 1..Len(v) : u[Len(w) + k] = v[k]
  OBVIOUS
<1> HIDE DEF u
<1>2. Hears(u, types, s) => Hears(w, types, s) \/ Hears(v, types, s)
  <2> SUFFICES ASSUME NEW k \in 1..Len(u), u[k].type \in types, u[k].session = s
               PROVE  Hears(w, types, s) \/ Hears(v, types, s)
    BY DEF Hears
  <2>1. CASE k \in 1..Len(w)
    BY <1>1, <2>1 DEF Hears
  <2>2. CASE k \notin 1..Len(w)
    <3> DEFINE j == k - Len(w)
    <3>1. j \in 1..Len(v) /\ k = Len(w) + j
      BY <1>1, <2>2
    <3> HIDE DEF j
    <3>2. u[k] = v[j]
      BY <1>1, <3>1
    <3> QED
      BY <3>1, <3>2 DEF Hears
  <2> QED
    BY <2>1, <2>2
<1>3. Hears(w, types, s) => Hears(u, types, s)
  <2> SUFFICES ASSUME NEW k \in 1..Len(w), w[k].type \in types, w[k].session = s
               PROVE  Hears(u, types, s)
    BY DEF Hears
  <2>1. k \in 1..Len(u) /\ u[k] = w[k]
    BY <1>1
  <2> QED
    BY <2>1 DEF Hears
<1>4. Hears(v, types, s) => Hears(u, types, s)
  <2> SUFFICES ASSUME NEW k \in 1..Len(v), v[k].type \in types, v[k].session = s
               PROVE  Hears(u, types, s)
    BY DEF Hears
  <2>1. Len(w) + k \in 1..Len(u) /\ u[Len(w) + k] = v[k]
    BY <1>1
  <2> QED
    BY <2>1 DEF Hears
<1> QED
  BY <1>2, <1>3, <1>4 DEF u

LEMMA StartingMore ==
  ASSUME NEW w \in Seq(ChatEvents), NEW v \in Seq(ChatEvents), NEW s, NEW id
  PROVE  Starting(w \o v, s, id) <=> Starting(w, s, id) \/ Starting(v, s, id)
<1> DEFINE u == w \o v
<1>1. /\ Len(w) \in Nat /\ Len(v) \in Nat /\ Len(u) = Len(w) + Len(v)
      /\ \A k \in 1..Len(w) : u[k] = w[k]
      /\ \A k \in 1..Len(v) : u[Len(w) + k] = v[k]
  OBVIOUS
<1> HIDE DEF u
<1>2. Starting(u, s, id) => Starting(w, s, id) \/ Starting(v, s, id)
  <2> SUFFICES ASSUME NEW k \in 1..Len(u), u[k].type = "dispatch", u[k].session = s,
                      u[k].task = id
               PROVE  Starting(w, s, id) \/ Starting(v, s, id)
    BY DEF Starting
  <2>1. CASE k \in 1..Len(w)
    BY <1>1, <2>1 DEF Starting
  <2>2. CASE k \notin 1..Len(w)
    <3> DEFINE j == k - Len(w)
    <3>1. j \in 1..Len(v) /\ k = Len(w) + j
      BY <1>1, <2>2
    <3> HIDE DEF j
    <3>2. u[k] = v[j]
      BY <1>1, <3>1
    <3> QED
      BY <3>1, <3>2 DEF Starting
  <2> QED
    BY <2>1, <2>2
<1>3. Starting(w, s, id) => Starting(u, s, id)
  <2> SUFFICES ASSUME NEW k \in 1..Len(w), w[k].type = "dispatch", w[k].session = s,
                      w[k].task = id
               PROVE  Starting(u, s, id)
    BY DEF Starting
  <2>1. k \in 1..Len(u) /\ u[k] = w[k]
    BY <1>1
  <2> QED
    BY <2>1 DEF Starting
<1>4. Starting(v, s, id) => Starting(u, s, id)
  <2> SUFFICES ASSUME NEW k \in 1..Len(v), v[k].type = "dispatch", v[k].session = s,
                      v[k].task = id
               PROVE  Starting(u, s, id)
    BY DEF Starting
  <2>1. Len(w) + k \in 1..Len(u) /\ u[Len(w) + k] = v[k]
    BY <1>1
  <2> QED
    BY <2>1 DEF Starting
<1> QED
  BY <1>2, <1>3, <1>4 DEF u

LEMMA QueuedMore ==
  ASSUME NEW w \in Seq(ChatEvents), NEW v \in Seq(ChatEvents), QueuedFirst(w), QueuedFirst(v)
  PROVE  QueuedFirst(w \o v)
<1> DEFINE u == w \o v
<1>1. /\ Len(w) \in Nat /\ Len(v) \in Nat /\ Len(u) = Len(w) + Len(v)
      /\ \A k \in 1..Len(w) : u[k] = w[k]
      /\ \A k \in 1..Len(v) : u[Len(w) + k] = v[k]
  OBVIOUS
<1> HIDE DEF u
<1> SUFFICES ASSUME NEW k \in 1..Len(u), u[k].type = "queued"
             PROVE  /\ k < Len(u) /\ u[k + 1].type = "message"
                    /\ u[k + 1].session = u[k].session
  BY DEF QueuedFirst, u
<1>2. CASE k \in 1..Len(w)
  <2>1. k < Len(w) /\ w[k + 1].type = "message" /\ w[k + 1].session = w[k].session
    BY <1>1, <1>2 DEF QueuedFirst
  <2>2. k + 1 \in 1..Len(w)
    BY <1>1, <1>2, <2>1
  <2> QED
    BY <1>1, <1>2, <2>1, <2>2
<1>3. CASE k \notin 1..Len(w)
  <2> DEFINE j == k - Len(w)
  <2>1. j \in 1..Len(v) /\ u[k] = v[j]
    BY <1>1, <1>3
  <2>2. j < Len(v) /\ v[j + 1].type = "message" /\ v[j + 1].session = v[j].session
    BY <2>1 DEF QueuedFirst
  <2>3. j + 1 \in 1..Len(v) /\ u[k + 1] = v[j + 1]
    <3>1. j + 1 \in 1..Len(v)
      BY <1>1, <2>1, <2>2
    <3>2. Len(w) + (j + 1) = k + 1
      BY <1>1
    <3> QED
      BY <1>1, <3>1, <3>2
  <2> QED
    BY <1>1, <2>1, <2>2, <2>3
<1> QED
  BY <1>2, <1>3

LEMMA TailHas ==
  ASSUME NEW w \in Seq(ChatEvents), w # <<>>
  PROVE  /\ Head(w) \in ChatEvents /\ Tail(w) \in Seq(ChatEvents)
         /\ Len(w) \in Nat /\ Len(Tail(w)) = Len(w) - 1 /\ Head(w) = w[1]
         /\ \A k \in 1..Len(Tail(w)) : Tail(w)[k] = w[k + 1]
OBVIOUS

LEMMA HearsTail ==
  ASSUME NEW w \in Seq(ChatEvents), w # <<>>, NEW types, NEW s
  PROVE  Hears(w, types, s) <=>
            \/ Head(w).type \in types /\ Head(w).session = s
            \/ Hears(Tail(w), types, s)
<1> PICK v \in Seq(ChatEvents) : v = Tail(w)
  BY TailHas
<1>1. /\ Len(w) \in Nat /\ Len(v) = Len(w) - 1 /\ Head(w) = w[1]
      /\ \A k \in 1..Len(v) : v[k] = w[k + 1]
  BY TailHas
<1>2. 1 \in 1..Len(w)
  OBVIOUS
<1>3. \A k \in 1..Len(v) : k + 1 \in 1..Len(w)
  BY <1>1
<1>4. \A k \in 1..Len(w) : k # 1 => k - 1 \in 1..Len(v) /\ v[k - 1] = w[k]
  BY <1>1
<1>5. Hears(w, types, s) => \/ Head(w).type \in types /\ Head(w).session = s
                            \/ Hears(v, types, s)
  BY <1>1, <1>4 DEF Hears
<1>6. Hears(v, types, s) => Hears(w, types, s)
  BY <1>1, <1>3 DEF Hears
<1>7. Head(w).type \in types /\ Head(w).session = s => Hears(w, types, s)
  BY <1>1, <1>2 DEF Hears
<1> QED
  BY <1>5, <1>6, <1>7

LEMMA StartingTail ==
  ASSUME NEW w \in Seq(ChatEvents), w # <<>>, NEW s, NEW id
  PROVE  Starting(w, s, id) <=>
            \/ Head(w).type = "dispatch" /\ Head(w).session = s /\ Head(w).task = id
            \/ Starting(Tail(w), s, id)
<1> PICK v \in Seq(ChatEvents) : v = Tail(w)
  BY TailHas
<1>1. /\ Len(w) \in Nat /\ Len(v) = Len(w) - 1 /\ Head(w) = w[1]
      /\ \A k \in 1..Len(v) : v[k] = w[k + 1]
  BY TailHas
<1>2. 1 \in 1..Len(w)
  OBVIOUS
<1>3. \A k \in 1..Len(v) : k + 1 \in 1..Len(w)
  BY <1>1
<1>4. \A k \in 1..Len(w) : k # 1 => k - 1 \in 1..Len(v) /\ v[k - 1] = w[k]
  BY <1>1
<1>5. Starting(w, s, id) =>
         \/ Head(w).type = "dispatch" /\ Head(w).session = s /\ Head(w).task = id
         \/ Starting(v, s, id)
  BY <1>1, <1>4 DEF Starting
<1>6. Starting(v, s, id) => Starting(w, s, id)
  BY <1>1, <1>3 DEF Starting
<1>7. Head(w).type = "dispatch" /\ Head(w).session = s /\ Head(w).task = id
         => Starting(w, s, id)
  BY <1>1, <1>2 DEF Starting
<1> QED
  BY <1>5, <1>6, <1>7

LEMMA QueuedTail ==
  ASSUME NEW w \in Seq(ChatEvents), w # <<>>, QueuedFirst(w)
  PROVE  /\ QueuedFirst(Tail(w))
         /\ Head(w).type = "queued" => Hears(Tail(w), {"message"}, Head(w).session)
<1> PICK v \in Seq(ChatEvents) : v = Tail(w)
  BY TailHas
<1>1. /\ Len(w) \in Nat /\ Len(v) = Len(w) - 1 /\ Head(w) = w[1]
      /\ \A k \in 1..Len(v) : v[k] = w[k + 1]
  BY TailHas
<1>2. QueuedFirst(v)
  <2> SUFFICES ASSUME NEW k \in 1..Len(v), v[k].type = "queued"
               PROVE  /\ k < Len(v) /\ v[k + 1].type = "message"
                      /\ v[k + 1].session = v[k].session
    BY DEF QueuedFirst
  <2>1. k + 1 \in 1..Len(w) /\ v[k] = w[k + 1]
    BY <1>1
  <2>2. k + 1 < Len(w) /\ w[k + 2].type = "message" /\ w[k + 2].session = v[k].session
    BY <2>1 DEF QueuedFirst
  <2>3. k + 1 \in 1..Len(v) /\ v[k + 1] = w[k + 2]
    BY <1>1, <2>2
  <2> QED
    BY <2>2, <2>3, <1>1
<1>3. ASSUME w[1].type = "queued"
      PROVE  Hears(v, {"message"}, w[1].session)
  <2>1. 1 \in 1..Len(w)
    OBVIOUS
  <2>2. 1 < Len(w) /\ w[2].type = "message" /\ w[2].session = w[1].session
    BY <1>3, <2>1 DEF QueuedFirst
  <2>3. 1 \in 1..Len(v) /\ v[1] = w[2]
    BY <1>1, <2>2
  <2> QED
    BY <2>2, <2>3 DEF Hears
<1> QED
  BY <1>1, <1>2, <1>3

LEMMA NothingHeard ==
  /\ <<>> \in Seq(ChatEvents) /\ QueuedFirst(<<>>)
  /\ \A types, s : ~ Hears(<<>>, types, s)
  /\ \A s, id : ~ Starting(<<>>, s, id)
BY DEF QueuedFirst, Hears, Starting

\* One event, two, and those of a deletion.
LEMMA OneEvent ==
  ASSUME NEW type \in DOMAIN Concerned, NEW s \in Sessions, NEW id, type # "queued",
         IF type \in {"read", "deleted"} THEN id = 0 ELSE id \in Ids
  PROVE  LET w == <<ChatEvent(type, s, id)>>
         IN  /\ w \in Seq(ChatEvents) /\ QueuedFirst(w)
             /\ \A types, t : Hears(w, types, t) <=> (type \in types /\ t = s)
             /\ \A t, j : Starting(w, t, j) <=> (type = "dispatch" /\ t = s /\ j = id)
             /\ ConcernedBy(w, s) = Concerned[type]
<1> PICK e \in ChatEvents : e = ChatEvent(type, s, id)
  BY DEF ChatEvents, ChatEvent
<1>1. e.type = type /\ e.session = s /\ e.task = id
  BY DEF ChatEvent
<1>2. <<e>> \in Seq(ChatEvents) /\ Len(<<e>>) = 1 /\ <<e>>[1] = e /\ DOMAIN <<e>> = {1}
  OBVIOUS
<1>3. QueuedFirst(<<e>>)
  BY <1>1, <1>2 DEF QueuedFirst
<1>4. \A types, t : Hears(<<e>>, types, t) <=> (type \in types /\ t = s)
  BY <1>1, <1>2 DEF Hears
<1>5. \A t, j : Starting(<<e>>, t, j) <=> (type = "dispatch" /\ t = s /\ j = id)
  BY <1>1, <1>2 DEF Starting
<1>6. ConcernedBy(<<e>>, s) = Concerned[type]
  BY <1>1, <1>2 DEF ConcernedBy
<1> QED
  BY <1>2, <1>3, <1>4, <1>5, <1>6

LEMMA TwoEvents ==
  ASSUME NEW s \in Sessions, NEW id \in Ids
  PROVE  LET w == SentEvents(s, id)
         IN  /\ w \in Seq(ChatEvents) /\ QueuedFirst(w)
             /\ \A types, t : Hears(w, types, t) <=>
                   (("queued" \in types \/ "message" \in types) /\ t = s)
             /\ \A t, j : ~ Starting(w, t, j)
             /\ ConcernedBy(w, s) = {"messages", "pending"}
<1> PICK e \in ChatEvents, f \in ChatEvents :
         e = ChatEvent("queued", s, id) /\ f = ChatEvent("message", s, id)
  BY TypesAre DEF ChatEvents, ChatEvent
<1>1. /\ e.type = "queued" /\ e.session = s /\ f.type = "message" /\ f.session = s
  BY DEF ChatEvent
<1>2. /\ <<e, f>> \in Seq(ChatEvents) /\ Len(<<e, f>>) = 2
      /\ <<e, f>>[1] = e /\ <<e, f>>[2] = f /\ DOMAIN <<e, f>> = {1, 2}
  OBVIOUS
<1>3. QueuedFirst(<<e, f>>)
  BY <1>1, <1>2 DEF QueuedFirst
<1>4. \A types, t : Hears(<<e, f>>, types, t) <=>
         (("queued" \in types \/ "message" \in types) /\ t = s)
  BY <1>1, <1>2 DEF Hears
<1>5. \A t, j : ~ Starting(<<e, f>>, t, j)
  BY <1>1, <1>2 DEF Starting
<1>6. ConcernedBy(<<e, f>>, s) = {"messages", "pending"}
  BY <1>1, <1>2 DEF ConcernedBy, Concerned
<1> QED
  BY <1>2, <1>3, <1>4, <1>5, <1>6 DEF SentEvents

LEMMA DeletionTold ==
  ASSUME ChatBase, NEW s \in Sessions
  PROVE  LET w == DeletedEvents(s)
         IN  /\ w \in Seq(ChatEvents) /\ QueuedFirst(w)
             /\ \A types, t : Hears(w, types, t) =>
                   t = s /\ ("deleted" \in types \/ "cancelled" \in types)
             /\ \A types : "deleted" \in types => Hears(w, types, s)
             /\ \A t, j : ~ Starting(w, t, j)
             /\ ConcernedBy(w, s) = {"messages", "pending", "rows"}
<1> DEFINE v == [i \in DOMAIN chat[s].tasks |-> ChatEvent("cancelled", s, chat[s].tasks[i][1])]
<1> PICK e \in ChatEvents : e = ChatEvent("deleted", s, 0)
  BY TypesAre DEF ChatEvents, ChatEvent
<1>1. e.type = "deleted" /\ e.session = s
  BY DEF ChatEvent
<1>2. chat[s].tasks \in Seq(Ids \X {"queued", "running"})
  BY DEF ChatBase, ChatTypeOK, Session
<1>3. /\ v \in Seq(ChatEvents) /\ Len(v) \in Nat
      /\ \A k \in 1..Len(v) : v[k].type = "cancelled" /\ v[k].session = s
  <2>1. DOMAIN chat[s].tasks = 1..Len(chat[s].tasks) /\ Len(chat[s].tasks) \in Nat
    BY <1>2
  <2>2. \A i \in 1..Len(chat[s].tasks) : chat[s].tasks[i][1] \in Ids
    BY <1>2
  <2>3. \A i \in 1..Len(chat[s].tasks) :
           /\ v[i] \in ChatEvents /\ v[i].type = "cancelled" /\ v[i].session = s
    BY <2>1, <2>2, TypesAre DEF ChatEvents, ChatEvent
  <2>4. v = [i \in 1..Len(chat[s].tasks) |-> v[i]]
    BY <2>1
  <2> HIDE DEF v
  <2>5. v \in [1..Len(chat[s].tasks) -> ChatEvents]
    BY <2>3, <2>4
  <2>6. v \in Seq(ChatEvents) /\ Len(v) = Len(chat[s].tasks)
    BY <2>1, <2>5
  <2> QED
    BY <2>1, <2>3, <2>6
<1> HIDE DEF v
<1> DEFINE w == v \o <<e>>
<1>4. /\ w \in Seq(ChatEvents) /\ Len(w) = Len(v) + 1 /\ w[Len(w)] = e
      /\ \A k \in 1..Len(v) : w[k] = v[k]
      /\ \A k \in 1..Len(w) : k \in 1..Len(v) \/ k = Len(w)
      /\ Len(w) \in 1..Len(w) /\ DOMAIN w = 1..Len(w)
  BY <1>3
<1> HIDE DEF w
<1>5. \A k \in 1..Len(w) : /\ w[k].type \in {"cancelled", "deleted"}
                           /\ w[k].session = s
  BY <1>1, <1>3, <1>4
<1>6. w[Len(w)].type = "deleted"
  BY <1>1, <1>4
<1>7. QueuedFirst(w) /\ \A t, j : ~ Starting(w, t, j)
  BY <1>5 DEF QueuedFirst, Starting
<1>8. \A types, t : Hears(w, types, t) =>
         t = s /\ ("deleted" \in types \/ "cancelled" \in types)
  BY <1>5 DEF Hears
<1>9. \A types : "deleted" \in types => Hears(w, types, s)
  BY <1>4, <1>5, <1>6 DEF Hears
<1>10. ConcernedBy(w, s) = {"messages", "pending", "rows"}
  <2>1. ConcernedBy(w, s) \subseteq {"messages", "pending", "rows"}
    BY <1>4, <1>5, TypesAre DEF ConcernedBy
  <2>2. Concerned[w[Len(w)].type] \subseteq ConcernedBy(w, s)
    BY <1>4, <1>5 DEF ConcernedBy
  <2> QED
    BY <1>6, <2>1, <2>2, TypesAre
<1> QED
  BY <1>4, <1>7, <1>8, <1>9, <1>10 DEF DeletedEvents, w, v

-----------------------------------------------------------------------------
(***************************************************************************)
(* The queries together.                                                   *)
(***************************************************************************)
LEMMA ChatApart ==
  /\ \A d \in SUBSET Messages : d # None
  /\ \A d \in Pills : d # None
  /\ \A d \in Rows : d # None
  /\ None \notin Fetches({"rows"} \X SUBSET Messages)
  /\ None \notin Fetches({"rows"} \X Pills)
  /\ None \notin Fetches({"rows"} \X Rows)
  /\ None \notin Sessions
  /\ \A c \in Creation : c # None
BY ChatAssumption

LEMMA QueriesHave ==
  ASSUME NEW c \in ChatQueries
  PROVE  /\ c.messages \in [Sessions -> MessageQuery]
         /\ c.pending \in [Sessions -> PillQuery]
         /\ c.rows \in RowsQuery
BY DEF ChatQueries, MessageQuery, PillQuery, RowsQuery

LEMMA ServedHas ==
  ASSUME ChatBase, NEW s \in Sessions
  PROVE  /\ chat[s].messages \in SUBSET Messages /\ ServerPill(s) \in Pills
         /\ SessionRows(chat) \in Rows
         /\ Served(s).messages = chat[s].messages /\ Served(s).pending = ServerPill(s)
         /\ Served(s).rows = SessionRows(chat)
<1>1. chat[s] \in Session
  BY DEF ChatBase, ChatTypeOK
<1>2. chat[s].messages \in SUBSET Messages /\ chat[s].tasks \in Seq(Ids \X {"queued", "running"})
  BY <1>1 DEF Session
<1>3. ServerPill(s) \in Pills
  <2>1. CASE chat[s].tasks = <<>>
    BY <2>1 DEF ServerPill, Pills
  <2>2. CASE chat[s].tasks # <<>>
    <3> PICK t : t = chat[s].tasks[Len(chat[s].tasks)]
      OBVIOUS
    <3>1. t \in Ids \X {"queued", "running"}
      BY <1>2, <2>2
    <3>2. t \in Ids \X {"optimistic", "queued", "running"}
      BY <3>1
    <3> QED
      BY <2>2, <3>2 DEF ServerPill, Pills
  <2> QED
    BY <2>1, <2>2
<1>4. SessionRows(chat) \in Rows
  BY DEF SessionRows, Rows
<1> QED
  BY <1>2, <1>3, <1>4 DEF Served

\* What Overtaken leaves of each query.
LEMMA OvertakenIs ==
  ASSUME ChatBase, NEW s \in Sessions, NEW c \in ChatQueries, AllSound(c), NEW ks
  PROVE  LET n == Overtaken(c, s, ks)
         IN  /\ n \in ChatQueries /\ AllSound(n) /\ Stay(c.rows, n.rows)
             /\ \A t \in Sessions : /\ Stay(c.messages[t], n.messages[t])
                                    /\ Stay(c.pending[t], n.pending[t])
<1> DEFINE n == Overtaken(c, s, ks)
           A(q, d) == IF q.fetch = None THEN q ELSE Answer(q, "rows", d, TRUE)
<1>1. /\ c.messages \in [Sessions -> MessageQuery] /\ c.pending \in [Sessions -> PillQuery]
      /\ c.rows \in RowsQuery
  BY QueriesHave
<1>2. /\ n.messages = IF "messages" \in ks /\ "messages" \in scenario.follows
                      THEN [c.messages EXCEPT ![s] = A(@, chat[s].messages)]
                      ELSE c.messages
      /\ n.pending = IF "pending" \in ks /\ "pending" \in scenario.follows
                     THEN [c.pending EXCEPT ![s] = A(@, ServerPill(s))]
                     ELSE c.pending
      /\ n.rows = IF "rows" \in ks /\ "rows" \in scenario.follows
                  THEN A(c.rows, SessionRows(chat)) ELSE c.rows
      /\ n = [messages |-> n.messages, pending |-> n.pending, rows |-> n.rows]
  BY ServedHas DEF Overtaken, OnKeys
<1> HIDE DEF n
<1>3. \A q \in MessageQuery : Sound(q) =>
         /\ A(q, chat[s].messages) \in MessageQuery /\ Sound(A(q, chat[s].messages))
         /\ Stay(q, A(q, chat[s].messages))
  BY AnswerIs, ChatApart, ServedHas DEF MessageQuery
<1>4. \A q \in PillQuery : Sound(q) =>
         /\ A(q, ServerPill(s)) \in PillQuery /\ Sound(A(q, ServerPill(s)))
         /\ Stay(q, A(q, ServerPill(s)))
  BY AnswerIs, ChatApart, ServedHas DEF PillQuery
<1>5. \A q \in RowsQuery : Sound(q) =>
         /\ A(q, SessionRows(chat)) \in RowsQuery /\ Sound(A(q, SessionRows(chat)))
         /\ Stay(q, A(q, SessionRows(chat)))
  BY AnswerIs, ChatApart, ServedHas DEF RowsQuery
<1> HIDE DEF A
<1>6. /\ n.messages \in [Sessions -> MessageQuery]
      /\ \A t \in Sessions : Sound(n.messages[t]) /\ Stay(c.messages[t], n.messages[t])
  BY <1>1, <1>2, <1>3 DEF AllSound, Stay
<1>7. /\ n.pending \in [Sessions -> PillQuery]
      /\ \A t \in Sessions : Sound(n.pending[t]) /\ Stay(c.pending[t], n.pending[t])
  BY <1>1, <1>2, <1>4 DEF AllSound, Stay
<1>8. n.rows \in RowsQuery /\ Sound(n.rows) /\ Stay(c.rows, n.rows)
  BY <1>1, <1>2, <1>5 DEF AllSound, Stay
<1>9. n \in ChatQueries
  BY <1>2, <1>6, <1>7, <1>8 DEF ChatQueries, MessageQuery, PillQuery, RowsQuery
<1> QED
  BY <1>6, <1>7, <1>8, <1>9 DEF n, AllSound

\* What is told leaves nothing sure that it concerns, if nobody hears it.
LEMMA TellIs ==
  ASSUME ChatBase, NEW s \in Sessions, NEW c \in ChatQueries, AllSound(c),
         NEW events \in Seq(ChatEvents), Tell(s, c, events)
  PROVE  /\ queries' \in ChatQueries /\ AllSound(queries') /\ Stay(c.rows, queries'.rows)
         /\ \A t \in Sessions : /\ Stay(c.messages[t], queries'.messages[t])
                                /\ Stay(c.pending[t], queries'.pending[t])
         /\ wire' = IF conn = "up" THEN wire \o events ELSE wire
         /\ wire' \in Seq(ChatEvents)
         /\ conn # "up" =>
               /\ "messages" \in ConcernedBy(events, s) \cap scenario.follows
                     => ~ Sure(queries'.messages[s])
               /\ "pending" \in ConcernedBy(events, s) \cap scenario.follows
                     => ~ Sure(queries'.pending[s])
               /\ "rows" \in ConcernedBy(events, s) \cap scenario.follows
                     => ~ Sure(queries'.rows)
<1> DEFINE ks == ConcernedBy(events, s)
           n == Overtaken(c, s, ks)
<1>1. /\ n \in ChatQueries /\ AllSound(n) /\ Stay(c.rows, n.rows)
      /\ \A t \in Sessions : /\ Stay(c.messages[t], n.messages[t])
                             /\ Stay(c.pending[t], n.pending[t])
  BY OvertakenIs
<1>2. /\ queries' = IF conn = "up" THEN n
                    ELSE OnKeys(n, s, ks, LAMBDA q : Uncertain(q, "missed"))
      /\ wire' = IF conn = "up" THEN wire \o events ELSE wire
  BY DEF Tell, Send
<1>3. wire' \in Seq(ChatEvents)
  BY <1>2 DEF ChatBase
<1> HIDE DEF ks, n
<1>4. CASE conn = "up"
  BY <1>1, <1>2, <1>3, <1>4
<1>5. CASE conn # "up"
  <2> DEFINE m == queries'
  <2>1. /\ n.messages \in [Sessions -> MessageQuery] /\ n.pending \in [Sessions -> PillQuery]
        /\ n.rows \in RowsQuery
    BY <1>1, QueriesHave
  <2>2. /\ m.messages = IF "messages" \in ks \cap scenario.follows
                        THEN [n.messages EXCEPT ![s] = Uncertain(@, "missed")]
                        ELSE n.messages
        /\ m.pending = IF "pending" \in ks \cap scenario.follows
                       THEN [n.pending EXCEPT ![s] = Uncertain(@, "missed")]
                       ELSE n.pending
        /\ m.rows = IF "rows" \in ks \cap scenario.follows
                    THEN Uncertain(n.rows, "missed") ELSE n.rows
        /\ m = [messages |-> m.messages, pending |-> m.pending, rows |-> m.rows]
    BY <1>2, <1>5 DEF OnKeys
  <2> HIDE DEF m
  <2>3. "missed" \in Doubts
    BY DEF Doubts
  <2>4. \A q \in MessageQuery : Sound(q) =>
           /\ Uncertain(q, "missed") \in MessageQuery /\ Sound(Uncertain(q, "missed"))
           /\ ~ Sure(Uncertain(q, "missed"))
    BY <2>3, UncertainIs DEF MessageQuery
  <2>5. \A q \in PillQuery : Sound(q) =>
           /\ Uncertain(q, "missed") \in PillQuery /\ Sound(Uncertain(q, "missed"))
           /\ ~ Sure(Uncertain(q, "missed"))
    BY <2>3, UncertainIs DEF PillQuery
  <2>6. \A q \in RowsQuery : Sound(q) =>
           /\ Uncertain(q, "missed") \in RowsQuery /\ Sound(Uncertain(q, "missed"))
           /\ ~ Sure(Uncertain(q, "missed"))
    BY <2>3, UncertainIs DEF RowsQuery
  <2>7. /\ m.messages \in [Sessions -> MessageQuery]
        /\ \A t \in Sessions : Sound(m.messages[t]) /\ Stay(c.messages[t], m.messages[t])
        /\ "messages" \in ks \cap scenario.follows => ~ Sure(m.messages[s])
    BY <1>1, <2>1, <2>2, <2>4 DEF AllSound, Stay
  <2>8. /\ m.pending \in [Sessions -> PillQuery]
        /\ \A t \in Sessions : Sound(m.pending[t]) /\ Stay(c.pending[t], m.pending[t])
        /\ "pending" \in ks \cap scenario.follows => ~ Sure(m.pending[s])
    BY <1>1, <2>1, <2>2, <2>5 DEF AllSound, Stay
  <2>9. /\ m.rows \in RowsQuery /\ Sound(m.rows) /\ Stay(c.rows, m.rows)
        /\ "rows" \in ks \cap scenario.follows => ~ Sure(m.rows)
    BY <1>1, <2>1, <2>2, <2>6 DEF AllSound, Stay
  <2>10. m \in ChatQueries
    BY <2>2, <2>7, <2>8, <2>9 DEF ChatQueries, MessageQuery, PillQuery, RowsQuery
  <2> QED
    BY <1>2, <1>3, <2>7, <2>8, <2>9, <2>10, <1>5 DEF m, ks, AllSound
<1> QED
  BY <1>4, <1>5

-----------------------------------------------------------------------------
(***************************************************************************)
(* What a change of a session, told by events, keeps of the invariant.     *)
(***************************************************************************)
\* Session s has changed, and these events about it are told to queries no surer than c.
Revised(s, c, events) ==
    /\ c \in ChatQueries /\ AllSound(c) /\ Stay(queries.rows, c.rows)
    /\ \A t \in Sessions : /\ Stay(queries.messages[t], c.messages[t])
                           /\ Stay(queries.pending[t], c.pending[t])
    /\ events \in Seq(ChatEvents) /\ \A types, t : Hears(events, types, t) => t = s
    /\ Tell(s, c, events) /\ UNCHANGED <<conn, scenario>>
    /\ chat' \in [Sessions -> Session]
    /\ \A t \in Sessions : t # s => chat'[t] = chat[t]

LEMMA ChangedBase ==
  ASSUME ChatBase, NEW s \in Sessions, NEW c, NEW events, Revised(s, c, events),
         ops' \in 0..MaxOps, chatRequests' \subseteq ChatRequest, active' = active,
         creating' \in Creation \cup {None}
  PROVE  ChatBase'
<1>1. /\ queries' \in ChatQueries /\ AllSound(queries') /\ wire' \in Seq(ChatEvents)
      /\ conn = "down" => wire' = wire
  BY TellIs DEF Revised
<1>2. AllSound(queries)'
  BY <1>1 DEF AllSound
<1> QED
  BY <1>1, <1>2 DEF ChatBase, ChatTypeOK, Revised

LEMMA ChangedMessages ==
  ASSUME ChatBase, MessagesTold, NEW s \in Sessions, NEW c, NEW events, Revised(s, c, events),
         \A t \in Sessions : Sending(t) => Sending(t)',
         \/ chat'[s].messages = chat[s].messages
         \/ /\ Hears(events, MessageTypes, s) /\ "messages" \in ConcernedBy(events, s)
  PROVE  MessagesTold'
<1> SUFFICES ASSUME "messages" \in scenario.follows, NEW t \in Sessions,
                    Sure(queries'.messages[t]), ~ Hears(wire', MessageTypes, t),
                    ~ Sending(t)'
             PROVE  queries'.messages[t].data = chat'[t].messages
  BY DEF MessagesTold, Revised
<1>1. /\ Stay(c.messages[t], queries'.messages[t])
      /\ Stay(queries.messages[t], c.messages[t])
      /\ wire' = IF conn = "up" THEN wire \o events ELSE wire
      /\ conn # "up" /\ "messages" \in ConcernedBy(events, s)
         => ~ Sure(queries'.messages[s])
  BY TellIs DEF Revised
<1>2. Sure(queries.messages[t]) /\ queries'.messages[t].data = queries.messages[t].data
  BY <1>1 DEF Stay
<1>3. ~ Hears(wire, MessageTypes, t) /\ (conn = "up" => ~ Hears(events, MessageTypes, t))
  BY <1>1, HearsMore DEF Revised, ChatBase
<1>4. queries.messages[t].data = chat[t].messages
  BY <1>2, <1>3 DEF MessagesTold
<1>5. chat'[t].messages = chat[t].messages
  BY <1>1, <1>3 DEF Revised
<1> QED
  BY <1>2, <1>4, <1>5

LEMMA ChangedPill ==
  ASSUME ChatBase, PillTold, NEW s \in Sessions, NEW c, NEW events, Revised(s, c, events),
         \A t \in Sessions : Sending(t) => Sending(t)',
         \A t \in Sessions : Stopping(t) /\ ~ Stopping(t)' =>
            t = s /\ Hears(events, PillTypes, s) /\ "pending" \in ConcernedBy(events, s),
         \/ ServerPill(s)' = ServerPill(s)
         \/ /\ Hears(events, PillTypes, s) /\ "pending" \in ConcernedBy(events, s)
         \/ /\ "pending" \in ConcernedBy(events, s)
            /\ \E id \in Ids : /\ ServerPill(s) = {<<id, "queued">>}
                               /\ ServerPill(s)' = {<<id, "running">>}
                               /\ Starting(events, s, id)
  PROVE  PillTold'
<1> SUFFICES ASSUME "pending" \in scenario.follows, NEW t \in Sessions,
                    Sure(queries'.pending[t]), ~ Hears(wire', PillTypes, t),
                    ~ Sending(t)', ~ Stopping(t)'
             PROVE  PillIs(queries'.pending[t].data, t, ServerPill(t)', wire')
  BY DEF PillTold, Revised
<1>1. /\ Stay(c.pending[t], queries'.pending[t])
      /\ Stay(queries.pending[t], c.pending[t])
      /\ wire' = IF conn = "up" THEN wire \o events ELSE wire
      /\ conn # "up" /\ "pending" \in ConcernedBy(events, s)
         => ~ Sure(queries'.pending[s])
  BY TellIs DEF Revised
<1>2. Sure(queries.pending[t]) /\ queries'.pending[t].data = queries.pending[t].data
  BY <1>1 DEF Stay
<1>3. ~ Hears(wire, PillTypes, t) /\ (conn = "up" => ~ Hears(events, PillTypes, t))
  BY <1>1, HearsMore DEF Revised, ChatBase
<1>4. ~ Stopping(t)
  BY <1>1, <1>3
<1>5. PillIs(queries.pending[t].data, t, ServerPill(t), wire)
  BY <1>2, <1>3, <1>4 DEF PillTold
<1>6. \A id : Starting(wire, t, id) => Starting(wire', t, id)
  BY <1>1, StartingMore DEF Revised, ChatBase
<1>7. CASE ServerPill(t)' = ServerPill(t)
  BY <1>2, <1>5, <1>6, <1>7 DEF PillIs
<1>8. CASE ServerPill(t)' # ServerPill(t)
  <2>1. t = s
    BY <1>8 DEF Revised, ServerPill
  <2>2. PICK id \in Ids : /\ ServerPill(s) = {<<id, "queued">>}
                          /\ ServerPill(s)' = {<<id, "running">>}
                          /\ Starting(events, s, id)
    BY <1>1, <1>3, <1>8, <2>1
  <2>3. conn = "up"
    BY <1>1, <1>8, <1>3, <2>1
  <2>4. Starting(wire', s, id)
    BY <1>1, <2>2, <2>3, StartingMore DEF Revised, ChatBase
  <2>5. queries.pending[s].data = {<<id, "queued">>}
    <3>1. \A j \in Ids : {<<id, "queued">>} # {<<j, "running">>}
      <4> SUFFICES ASSUME NEW j \in Ids, {<<id, "queued">>} = {<<j, "running">>}
                   PROVE  FALSE
        OBVIOUS
      <4>1. <<id, "queued">> = <<j, "running">>
        OBVIOUS
      <4> QED
        BY <4>1
    <3> QED
      BY <1>5, <2>1, <2>2, <3>1 DEF PillIs
  <2> QED
    BY <1>2, <2>1, <2>2, <2>4, <2>5 DEF PillIs
<1> QED
  BY <1>7, <1>8

LEMMA ChangedRows ==
  ASSUME ChatBase, RowsTold, NEW s \in Sessions, NEW c, NEW events, Revised(s, c, events),
         creating = None \/ creating' # None, Editing => Editing',
         \/ /\ chat'[s].state = chat[s].state /\ chat'[s].unread = chat[s].unread
            /\ ~ Hears(events, {"read"}, s) /\ ~ Hears(events, {"deleted"}, s)
         \/ /\ Hears(events, {"done"}, s) /\ "rows" \in ConcernedBy(events, s)
         \/ /\ Hears(events, {"deleted"}, s) /\ "rows" \in ConcernedBy(events, s)
            /\ chat'[s].state = "deleted"
         \/ /\ Hears(events, {"read"}, s) /\ "rows" \in ConcernedBy(events, s)
            /\ ~ Hears(events, {"deleted"}, s)
            /\ chat[s].state = "open" /\ chat'[s].state = "open" /\ ~ chat'[s].unread
         \/ "rows" \in scenario.follows => ~ Sure(c.rows)
  PROVE  RowsTold'
<1> SUFFICES ASSUME "rows" \in scenario.follows, Sure(queries'.rows),
                    \A t \in Sessions : ~ Hears(wire', {"done"}, t),
                    creating' = None, ~ Editing', NEW t \in Sessions
             PROVE  SessionRows(chat')[t] = Marked(wire', t, queries'.rows.data[t])
  BY DEF RowsTold, Revised
<1>1. /\ Stay(c.rows, queries'.rows) /\ Stay(queries.rows, c.rows)
      /\ wire' = IF conn = "up" THEN wire \o events ELSE wire
      /\ conn # "up" /\ "rows" \in ConcernedBy(events, s)
         => ~ Sure(queries'.rows)
  BY TellIs DEF Revised
<1>2. Sure(queries.rows) /\ queries'.rows.data = queries.rows.data /\ Sure(c.rows)
  BY <1>1 DEF Stay
<1>3. \A types, u : Hears(wire', types, u) <=>
         Hears(wire, types, u) \/ (conn = "up" /\ Hears(events, types, u))
  BY <1>1, HearsMore DEF Revised, ChatBase
<1>4. \A u \in Sessions : ~ Hears(wire, {"done"}, u)
  BY <1>3
<1>5. SessionRows(chat)[t] = Marked(wire, t, queries.rows.data[t])
  BY <1>2, <1>4 DEF RowsTold
<1>6. CASE t # s
  <2>1. SessionRows(chat')[t] = SessionRows(chat)[t]
    BY <1>6 DEF SessionRows, Revised
  <2>2. \A types : Hears(wire', types, t) <=> Hears(wire, types, t)
    BY <1>3, <1>6 DEF Revised
  <2> QED
    BY <1>2, <1>5, <2>1, <2>2 DEF Marked
<1>7. CASE t = s
  <2>1. conn = "up" => ~ Hears(events, {"done"}, s)
    BY <1>3
  <2>2. CASE /\ chat'[s].state = chat[s].state /\ chat'[s].unread = chat[s].unread
             /\ ~ Hears(events, {"read"}, s) /\ ~ Hears(events, {"deleted"}, s)
    <3>1. SessionRows(chat')[t] = SessionRows(chat)[t]
      BY <1>7, <2>2 DEF SessionRows
    <3> QED
      BY <1>2, <1>3, <1>5, <1>7, <2>2, <3>1 DEF Marked
  <2>3. CASE /\ Hears(events, {"deleted"}, s) /\ "rows" \in ConcernedBy(events, s)
             /\ chat'[s].state = "deleted"
    <3>1. Hears(wire', {"deleted"}, s)
      BY <1>1, <1>3, <2>3
    <3> QED
      BY <1>7, <2>3, <3>1 DEF SessionRows, Marked
  <2>4. CASE /\ Hears(events, {"read"}, s) /\ "rows" \in ConcernedBy(events, s)
             /\ ~ Hears(events, {"deleted"}, s)
             /\ chat[s].state = "open" /\ chat'[s].state = "open" /\ ~ chat'[s].unread
    <3>1. Hears(wire', {"read"}, s)
      BY <1>1, <1>3, <2>4
    <3>2. SessionRows(chat)[t] # "gone" /\ SessionRows(chat')[t] = "read"
      BY <1>7, <2>4 DEF SessionRows
    <3>3. ~ Hears(wire, {"deleted"}, s) /\ queries.rows.data[t] # "gone"
      BY <1>5, <1>7, <3>2 DEF Marked
    <3>4. ~ Hears(wire', {"deleted"}, s)
      BY <1>3, <2>4, <3>3
    <3> QED
      BY <1>2, <1>7, <3>1, <3>2, <3>3, <3>4 DEF Marked
  <2> QED
    BY <1>1, <1>2, <2>1, <2>2, <2>3, <2>4
<1> QED
  BY <1>6, <1>7

\* Tasks that were there, dispatches that were told, sends that were made.
LEMMA FreshStays ==
  ASSUME TasksFresh, SendsFresh, ChatBase, ops' \in Int, ops <= ops',
         \A t \in Sessions :
            /\ \A j \in DOMAIN chat'[t].tasks :
                  \E k \in DOMAIN chat[t].tasks : chat'[t].tasks[j] = chat[t].tasks[k]
            /\ \A j, k \in DOMAIN chat'[t].tasks :
                  chat'[t].tasks[j][1] = chat'[t].tasks[k][1] => j = k,
         \A t, id : Starting(wire', t, id) => Starting(wire, t, id),
         \A r \in chatRequests' : r.kind = "send" =>
            \E q \in chatRequests : /\ q.kind = "send" /\ q.id = r.id /\ q.prev = r.prev
                                    /\ q.session = r.session
                                    /\ r.phase = "sent" => q.phase = "sent",
         creating' # None => creating' # None /\ creating # None
                             /\ creating'.waiters = creating.waiters
  PROVE  TasksFresh' /\ SendsFresh'
<1>1. \A t \in Sessions : \A id : Running(t, id)' => Running(t, id)
  BY DEF Running
<1>2. \A t \in Sessions : \A id : Unused(t, id) => Unused(t, id)'
  BY <1>1 DEF Unused
<1>3. TasksFresh'
  <2> SUFFICES ASSUME NEW t \in Sessions
               PROVE  /\ \A i \in DOMAIN chat'[t].tasks :
                            /\ chat'[t].tasks[i][1] <= ops'
                            /\ chat'[t].tasks[i][2] = "queued"
                                  => ~ Starting(wire', t, chat'[t].tasks[i][1])
                            /\ \A j \in DOMAIN chat'[t].tasks :
                                  chat'[t].tasks[i][1] = chat'[t].tasks[j][1] => i = j
                      /\ \A id \in Ids : Starting(wire', t, id) => id <= ops'
    BY DEF TasksFresh
  <2>1. ASSUME NEW i \in DOMAIN chat'[t].tasks
        PROVE  /\ chat'[t].tasks[i][1] <= ops'
               /\ chat'[t].tasks[i][2] = "queued"
                     => ~ Starting(wire', t, chat'[t].tasks[i][1])
    <3> PICK k \in DOMAIN chat[t].tasks : chat'[t].tasks[i] = chat[t].tasks[k]
      OBVIOUS
    <3>1. chat[t].tasks[k] \in Ids \X {"queued", "running"}
      BY DEF ChatBase, ChatTypeOK, Session
    <3>2. chat[t].tasks[k][1] \in Int
      BY <3>1, ChatAssumption DEF Ids
    <3> QED
      BY <3>2 DEF TasksFresh, ChatBase
  <2>2. \A id \in Ids : Starting(wire', t, id) => id <= ops'
    BY ChatAssumption DEF TasksFresh, ChatBase, Ids
  <2> QED
    BY <2>1, <2>2
<1>4. ASSUME NEW r \in chatRequests', r.kind = "send"
      PROVE  /\ r.id \in 1..ops' /\ r.prev = None
             /\ r.phase = "sent" => Unused(r.session, r.id)'
  <2> PICK q \in chatRequests : /\ q.kind = "send" /\ q.id = r.id /\ q.prev = r.prev
                                /\ q.session = r.session
                                /\ r.phase = "sent" => q.phase = "sent"
    BY <1>4
  <2>1. q.session \in Sessions
    BY DEF ChatBase, ChatTypeOK, ChatRequest
  <2>2. q.id \in 1..ops /\ q.prev = None /\ (q.phase = "sent" => Unused(q.session, q.id))
    BY DEF SendsFresh
  <2> QED
    BY <1>2, <2>1, <2>2 DEF ChatBase
<1>5. ASSUME creating' # None, NEW w \in creating'.waiters
      PROVE  /\ w[2] <= ops'
             /\ w[1] = "send" => /\ \A t \in Sessions : Unused(t, w[2])'
                                 /\ \A r \in chatRequests' : r.kind = "send" => r.id # w[2]
  <2>1. creating # None /\ w \in creating.waiters
    BY <1>5
  <2>2. w \in {"send", "upload"} \X Ids
    BY <2>1 DEF ChatBase, ChatTypeOK, Creation
  <2>3. w[2] \in Int
    BY <2>2, ChatAssumption DEF Ids
  <2>4. w[2] <= ops'
    BY <2>1, <2>3 DEF SendsFresh, ChatBase
  <2>5. ASSUME w[1] = "send"
        PROVE  /\ \A t \in Sessions : Unused(t, w[2])'
               /\ \A r \in chatRequests' : r.kind = "send" => r.id # w[2]
    BY <1>2, <2>1, <2>5 DEF SendsFresh
  <2> QED
    BY <2>4, <2>5
<1> QED
  BY <1>3, <1>4, <1>5 DEF SendsFresh

-----------------------------------------------------------------------------
(***************************************************************************)
(* What becomes of a session.                                              *)
(***************************************************************************)
LEMMA SessionHas ==
  ASSUME ChatBase, NEW s \in Sessions
  PROVE  /\ chat[s].state \in {"unborn", "open", "deleted"}
         /\ chat[s].messages \subseteq Messages /\ chat[s].unread \in BOOLEAN
         /\ chat[s].tasks \in Seq(Ids \X {"queued", "running"})
         /\ Len(chat[s].tasks) \in Nat /\ DOMAIN chat[s].tasks = 1..Len(chat[s].tasks)
         /\ \A i \in DOMAIN chat[s].tasks :
               /\ chat[s].tasks[i] \in Ids \X {"queued", "running"}
               /\ chat[s].tasks[i][1] \in Ids /\ chat[s].tasks[i][1] \in 1..MaxOps
               /\ chat[s].tasks[i][2] \in {"queued", "running"}
               /\ chat[s].tasks[i] = <<chat[s].tasks[i][1], chat[s].tasks[i][2]>>
<1>1. chat[s] \in Session
  BY DEF ChatBase, ChatTypeOK
<1>2. chat[s].tasks \in Seq(Ids \X {"queued", "running"})
  BY <1>1 DEF Session
<1> QED
  BY <1>1, <1>2 DEF Session, Ids

LEMMA NewSessionIs ==
  /\ NewSession \in Session /\ NewSession.state = "open" /\ NewSession.messages = {}
  /\ NewSession.tasks = <<>> /\ NewSession.unread = FALSE
  /\ <<>> \in Seq(Ids \X {"queued", "running"})
BY DEF NewSession, Session

\* A session that differs from what it was in these.
LEMMA SessionMade ==
  ASSUME NEW c \in Session, NEW m \in SUBSET Messages,
         NEW tasks \in Seq(Ids \X {"queued", "running"}), NEW u \in BOOLEAN
  PROVE  LET n == [c EXCEPT !.messages = m, !.tasks = tasks, !.unread = u]
         IN  /\ n \in Session /\ n.state = c.state /\ n.messages = m /\ n.tasks = tasks
             /\ n.unread = u
BY DEF Session

Lacking(tasks, i) ==
    [j \in 1..(Len(tasks) - 1) |-> tasks[IF j < i THEN j ELSE j + 1]]

LEMMA LackingIs ==
  ASSUME NEW tasks \in Seq(Ids \X {"queued", "running"}), NEW i \in DOMAIN tasks
  PROVE  LET v == Lacking(tasks, i)
         IN  /\ v \in Seq(Ids \X {"queued", "running"})
             /\ \A j \in DOMAIN v : \E k \in DOMAIN tasks : v[j] = tasks[k] /\ k # i
             /\ (\A j, k \in DOMAIN tasks : tasks[j][1] = tasks[k][1] => j = k)
                   => /\ \A j, k \in DOMAIN v : v[j][1] = v[k][1] => j = k
                      /\ \A j \in DOMAIN v : v[j][1] # tasks[i][1]
<1> DEFINE v == Lacking(tasks, i)
<1>1. Len(tasks) \in Nat /\ DOMAIN tasks = 1..Len(tasks) /\ Len(tasks) - 1 \in Nat
  OBVIOUS
<1>2. \A j \in 1..(Len(tasks) - 1) :
         /\ v[j] = tasks[IF j < i THEN j ELSE j + 1]
         /\ (IF j < i THEN j ELSE j + 1) \in DOMAIN tasks
         /\ (IF j < i THEN j ELSE j + 1) # i
  BY <1>1 DEF Lacking
<1>3. v \in [1..(Len(tasks) - 1) -> Ids \X {"queued", "running"}]
  BY <1>1, <1>2 DEF Lacking
<1> HIDE DEF v
<1>4. v \in Seq(Ids \X {"queued", "running"}) /\ DOMAIN v = 1..(Len(tasks) - 1)
  BY <1>1, <1>3
<1>5. \A j \in DOMAIN v : \E k \in DOMAIN tasks : v[j] = tasks[k] /\ k # i
  BY <1>2, <1>4
<1>6. ASSUME \A j, k \in DOMAIN tasks : tasks[j][1] = tasks[k][1] => j = k
      PROVE  /\ \A j, k \in DOMAIN v : v[j][1] = v[k][1] => j = k
             /\ \A j \in DOMAIN v : v[j][1] # tasks[i][1]
  <2>1. ASSUME NEW j \in DOMAIN v, NEW k \in DOMAIN v, v[j][1] = v[k][1]
        PROVE  j = k
    <3>1. PICK a \in DOMAIN tasks : a = (IF j < i THEN j ELSE j + 1) /\ v[j] = tasks[a]
      BY <1>2, <1>4
    <3>2. PICK b \in DOMAIN tasks : b = (IF k < i THEN k ELSE k + 1) /\ v[k] = tasks[b]
      BY <1>2, <1>4
    <3>3. a = b
      BY <1>6, <2>1, <3>1, <3>2
    <3>4. i \in Int /\ j \in Int /\ k \in Int
      BY <1>1, <1>4
    <3> QED
      BY <3>1, <3>2, <3>3, <3>4
  <2>2. \A j \in DOMAIN v : v[j][1] # tasks[i][1]
    BY <1>5, <1>6
  <2> QED
    BY <2>1, <2>2
<1> QED
  BY <1>4, <1>5, <1>6 DEF v

LEMMA LackingApart ==
  ASSUME NEW tasks \in Seq(Ids \X {"queued", "running"}), NEW i \in DOMAIN tasks,
         \A j, k \in DOMAIN tasks : tasks[j][1] = tasks[k][1] => j = k
  PROVE  LET v == Lacking(tasks, i)
         IN  /\ \A j, k \in DOMAIN v : v[j][1] = v[k][1] => j = k
             /\ \A j \in DOMAIN v : v[j][1] # tasks[i][1]
BY LackingIs

LEMMA FinishedIs ==
  ASSUME ChatBase, NEW s \in Sessions, NEW i \in DOMAIN chat[s].tasks
  PROVE  LET n == Finished(chat, s, i)
         IN  /\ n \in [Sessions -> Session] /\ \A t \in Sessions : t # s => n[t] = chat[t]
             /\ n[s].state = chat[s].state /\ n[s].messages = chat[s].messages
             /\ n[s].unread = chat[s].unread /\ n[s].tasks = Lacking(chat[s].tasks, i)
<1>1. chat \in [Sessions -> Session] /\ chat[s] \in Session
  BY DEF ChatBase, ChatTypeOK
<1>2. Lacking(chat[s].tasks, i) \in Seq(Ids \X {"queued", "running"})
  BY SessionHas, LackingIs
<1>3. Finished(chat, s, i) =
         [chat EXCEPT ![s] = [chat[s] EXCEPT !.tasks = Lacking(chat[s].tasks, i)]]
  BY DEF Finished, Lacking
<1> PICK tasks \in Seq(Ids \X {"queued", "running"}) : tasks = Lacking(chat[s].tasks, i)
  BY <1>2
<1> PICK n : n = [chat[s] EXCEPT !.tasks = tasks]
  OBVIOUS
<1>4. /\ n \in Session /\ n.state = chat[s].state /\ n.messages = chat[s].messages
      /\ n.unread = chat[s].unread /\ n.tasks = tasks
  BY <1>1 DEF Session
<1>5. Finished(chat, s, i) = [chat EXCEPT ![s] = n]
  BY <1>3
<1> QED
  BY <1>1, <1>4, <1>5

LEMMA SentIs ==
  ASSUME ChatBase, NEW s \in Sessions, NEW id \in Ids
  PROVE  LET n == Sent(chat, s, id)
         IN  /\ n \in [Sessions -> Session] /\ \A t \in Sessions : t # s => n[t] = chat[t]
             /\ n[s].state = chat[s].state /\ n[s].unread = chat[s].unread
             /\ n[s].tasks = Append(chat[s].tasks, <<id, "queued">>)
<1>1. chat \in [Sessions -> Session] /\ chat[s] \in Session
  BY DEF ChatBase, ChatTypeOK
<1>2. Append(chat[s].tasks, <<id, "queued">>) \in Seq(Ids \X {"queued", "running"})
  <2>1. <<id, "queued">> \in Ids \X {"queued", "running"}
    OBVIOUS
  <2> QED
    BY <2>1, SessionHas
<1>3. chat[s].messages \cup {<<"user", id>>} \in SUBSET Messages
  BY SessionHas DEF Messages
<1> QED
  BY <1>1, <1>2, <1>3 DEF Sent, Session

LEMMA DeletedIs ==
  ASSUME ChatBase, NEW s \in Sessions
  PROVE  LET n == Deleted(chat, s)
         IN  /\ n \in [Sessions -> Session] /\ \A t \in Sessions : t # s => n[t] = chat[t]
             /\ n[s].state = "deleted" /\ n[s].unread = FALSE /\ n[s].tasks = <<>>
<1>1. [NewSession EXCEPT !.state = "deleted"] \in Session
  BY NewSessionIs DEF Session
<1>2. /\ [NewSession EXCEPT !.state = "deleted"].state = "deleted"
      /\ [NewSession EXCEPT !.state = "deleted"].unread = FALSE
      /\ [NewSession EXCEPT !.state = "deleted"].tasks = <<>>
  BY DEF NewSession
<1> QED
  BY <1>1, <1>2 DEF Deleted, ChatBase, ChatTypeOK

\* Tasks that were there, and those of the sessions that did not change.
LEMMA TasksStay ==
  ASSUME ChatBase, TasksFresh, NEW s \in Sessions,
         \A t \in Sessions : t # s => chat'[t] = chat[t],
         \/ chat'[s].tasks = chat[s].tasks
         \/ chat'[s].tasks = <<>>
         \/ \E i \in DOMAIN chat[s].tasks : chat'[s].tasks = Lacking(chat[s].tasks, i)
  PROVE  \A t \in Sessions :
            /\ \A j \in DOMAIN chat'[t].tasks :
                  \E k \in DOMAIN chat[t].tasks : chat'[t].tasks[j] = chat[t].tasks[k]
            /\ \A j, k \in DOMAIN chat'[t].tasks :
                  chat'[t].tasks[j][1] = chat'[t].tasks[k][1] => j = k
<1> SUFFICES ASSUME NEW t \in Sessions
             PROVE  /\ \A j \in DOMAIN chat'[t].tasks :
                          \E k \in DOMAIN chat[t].tasks : chat'[t].tasks[j] = chat[t].tasks[k]
                    /\ \A j, k \in DOMAIN chat'[t].tasks :
                          chat'[t].tasks[j][1] = chat'[t].tasks[k][1] => j = k
  OBVIOUS
<1>1. \A j, k \in DOMAIN chat[t].tasks : chat[t].tasks[j][1] = chat[t].tasks[k][1] => j = k
  BY DEF TasksFresh
<1>2. CASE chat'[t].tasks = chat[t].tasks
  BY <1>1, <1>2
<1>3. CASE chat'[t].tasks = <<>>
  BY <1>3
<1>4. CASE \E i \in DOMAIN chat[t].tasks : chat'[t].tasks = Lacking(chat[t].tasks, i)
  <2> PICK i \in DOMAIN chat[t].tasks : chat'[t].tasks = Lacking(chat[t].tasks, i)
    BY <1>4
  <2> PICK w \in Seq(Ids \X {"queued", "running"}) : w = chat[t].tasks
    BY SessionHas
  <2> PICK v : v = chat'[t].tasks /\ v = Lacking(w, i)
    OBVIOUS
  <2>1. /\ i \in DOMAIN w
        /\ \A j, k \in DOMAIN w : w[j][1] = w[k][1] => j = k
    BY <1>1
  <2>2. \A j \in DOMAIN v : \E k \in DOMAIN w : v[j] = w[k]
    BY <2>1, LackingIs
  <2>3. \A j, k \in DOMAIN v : v[j][1] = v[k][1] => j = k
    <3>1. LET u == Lacking(w, i) IN \A j, k \in DOMAIN u : u[j][1] = u[k][1] => j = k
      BY <2>1, LackingApart
    <3> QED
      BY <3>1
  <2>4. v = chat'[t].tasks /\ w = chat[t].tasks
    OBVIOUS
  <2> QED
    BY ONLY <2>2, <2>3, <2>4
<1>5. CASE t = s
  BY <1>2, <1>3, <1>4, <1>5
<1>6. CASE t # s
  BY <1>2, <1>6
<1> QED
  BY <1>5, <1>6

\* A waiting message becomes a task.
LEMMA SentFresh ==
  ASSUME ChatBase, TasksFresh, SendsFresh, NEW s \in Sessions, NEW id \in Ids,
         Unused(s, id), ops' \in Int, ops <= ops', id <= ops',
         chat' = Sent(chat, s, id),
         \A t, j : Starting(wire', t, j) => Starting(wire, t, j),
         \A r \in chatRequests' : r.kind = "send" =>
            \E q \in chatRequests : /\ q.kind = "send" /\ q.id = r.id /\ q.prev = r.prev
                                    /\ q.session = r.session
                                    /\ r.phase = "sent" =>
                                          q.phase = "sent" /\ <<q.session, q.id>> # <<s, id>>,
         creating' = creating,
         creating # None => \A w \in creating.waiters : w[1] = "send" => w[2] # id
  PROVE  TasksFresh' /\ SendsFresh'
<1>1. /\ \A t \in Sessions : t # s => chat'[t] = chat[t]
      /\ chat'[s].tasks = Append(chat[s].tasks, <<id, "queued">>)
  BY SentIs
<1>2. /\ chat[s].tasks \in Seq(Ids \X {"queued", "running"}) /\ Len(chat[s].tasks) \in Nat
      /\ \A t \in Sessions : \A i \in DOMAIN chat[t].tasks : chat[t].tasks[i][1] \in Ids
      /\ DOMAIN chat[s].tasks = 1..Len(chat[s].tasks)
  BY SessionHas
<1> PICK old, new : old = chat[s].tasks /\ new = chat'[s].tasks
  OBVIOUS
<1>3. /\ DOMAIN new = 1..(Len(old) + 1) /\ new[Len(old) + 1] = <<id, "queued">>
      /\ \A i \in 1..Len(old) : new[i] = old[i] /\ old[i][1] # id
  <2>1. \A i \in 1..Len(old) : old[i][1] # id
    BY <1>2 DEF Unused, Running
  <2>2. /\ old \in Seq(Ids \X {"queued", "running"}) /\ Len(old) \in Nat
        /\ new = Append(old, <<id, "queued">>)
    BY <1>1, <1>2
  <2>3. <<id, "queued">> \in Ids \X {"queued", "running"}
    OBVIOUS
  <2>4. /\ DOMAIN new = 1..(Len(old) + 1) /\ new[Len(old) + 1] = <<id, "queued">>
        /\ \A i \in 1..Len(old) : new[i] = old[i]
    BY ONLY <2>2, <2>3
  <2>5. \A i \in 1..Len(old) : old[i][1] # id
    BY <2>1
  <2> QED
    BY ONLY <2>4, <2>5
<1>4. \A t \in Sessions : \A j : Running(t, j)' => Running(t, j) \/ (t = s /\ j = id)
  <2> SUFFICES ASSUME NEW t \in Sessions, NEW j, Running(t, j)'
               PROVE  Running(t, j) \/ (t = s /\ j = id)
    OBVIOUS
  <2>1. CASE t # s
    BY <1>1, <2>1 DEF Running
  <2>2. CASE t = s
    <3> PICK i \in DOMAIN new : new[i][1] = j
      BY <2>2 DEF Running
    <3>1. CASE i = Len(old) + 1
      BY <1>3, <2>2, <3>1
    <3>2. CASE i # Len(old) + 1
      <4>1. i \in 1..Len(old)
        BY <1>2, <1>3, <3>2
      <4>2. i \in DOMAIN old /\ old[i][1] = j
        BY <1>2, <1>3, <4>1
      <4> QED
        BY <2>2, <4>2 DEF Running
    <3> QED
      BY <3>1, <3>2
  <2> QED
    BY <2>1, <2>2
<1>5. ASSUME NEW t \in Sessions
      PROVE  /\ \A i \in DOMAIN chat'[t].tasks :
                   /\ chat'[t].tasks[i][1] <= ops'
                   /\ chat'[t].tasks[i][2] = "queued"
                         => ~ Starting(wire', t, chat'[t].tasks[i][1])
                   /\ \A j \in DOMAIN chat'[t].tasks :
                         chat'[t].tasks[i][1] = chat'[t].tasks[j][1] => i = j
             /\ \A j \in Ids : Starting(wire', t, j) => j <= ops'
  <2>1. \A j \in Ids : Starting(wire', t, j) => j <= ops'
    BY ChatAssumption DEF TasksFresh, ChatBase, Ids
  <2>2. \A i \in DOMAIN chat[t].tasks :
           /\ chat[t].tasks[i][1] <= ops'
           /\ chat[t].tasks[i][2] = "queued" => ~ Starting(wire', t, chat[t].tasks[i][1])
           /\ \A j \in DOMAIN chat[t].tasks :
                 chat[t].tasks[i][1] = chat[t].tasks[j][1] => i = j
    BY <1>2, ChatAssumption DEF TasksFresh, ChatBase, Ids
  <2>3. CASE t # s
    BY <1>1, <2>1, <2>2, <2>3
  <2>4. CASE t = s
    <3>0. \A i \in 1..Len(old) :
             /\ old[i][1] <= ops'
             /\ old[i][2] = "queued" => ~ Starting(wire', t, old[i][1])
             /\ \A j \in 1..Len(old) : old[i][1] = old[j][1] => i = j
      BY <1>2, <2>2, <2>4
    <3>1. \A i \in 1..Len(old) :
             /\ new[i][1] <= ops'
             /\ new[i][2] = "queued" => ~ Starting(wire', t, new[i][1])
             /\ \A j \in 1..Len(old) : new[i][1] = new[j][1] => i = j
      <4> SUFFICES ASSUME NEW i \in 1..Len(old)
                   PROVE  /\ new[i][1] <= ops'
                          /\ new[i][2] = "queued" => ~ Starting(wire', t, new[i][1])
                          /\ \A j \in 1..Len(old) : new[i][1] = new[j][1] => i = j
        OBVIOUS
      <4>1. new[i] = old[i] /\ \A j \in 1..Len(old) : new[j] = old[j]
        BY <1>3
      <4>2. /\ old[i][1] <= ops'
            /\ old[i][2] = "queued" => ~ Starting(wire', t, old[i][1])
            /\ \A j \in 1..Len(old) : old[i][1] = old[j][1] => i = j
        BY <3>0
      <4>3. \A j \in 1..Len(old) : new[i][1] = new[j][1] => i = j
        BY ONLY <4>1, <4>2
      <4>4. new[i][1] <= ops' /\ (new[i][2] = "queued" => ~ Starting(wire', t, new[i][1]))
        BY ONLY <4>1, <4>2
      <4> QED
        BY ONLY <4>3, <4>4
    <3>2. ~ Starting(wire', t, id)
      BY <2>4 DEF Unused
    <3>3. \A i \in DOMAIN new : i \in 1..Len(old) \/ i = Len(old) + 1
      BY <1>2, <1>3
    <3>4. \A i \in DOMAIN new :
             /\ new[i][1] <= ops'
             /\ new[i][2] = "queued" => ~ Starting(wire', t, new[i][1])
      <4> SUFFICES ASSUME NEW i \in DOMAIN new
                   PROVE  /\ new[i][1] <= ops'
                          /\ new[i][2] = "queued" => ~ Starting(wire', t, new[i][1])
        OBVIOUS
      <4>1. CASE i \in 1..Len(old)
        BY <3>1, <4>1
      <4>2. CASE i = Len(old) + 1
        <5>1. new[i] = <<id, "queued">>
          BY <1>3, <4>2
        <5> QED
          BY <3>2, <5>1
      <4> QED
        BY <3>3, <4>1, <4>2
    <3>5. \A i \in DOMAIN new : \A j \in DOMAIN new : new[i][1] = new[j][1] => i = j
      <4> SUFFICES ASSUME NEW i \in DOMAIN new, NEW j \in DOMAIN new, new[i][1] = new[j][1]
                   PROVE  i = j
        OBVIOUS
      <4>1. new[Len(old) + 1][1] = id
        BY <1>3
      <4>2. \A k \in 1..Len(old) : new[k][1] # id
        BY <1>3
      <4> QED
        BY <3>1, <3>3, <4>1, <4>2
    <3> QED
      BY <2>1, <2>4, <3>4, <3>5
  <2> QED
    BY <2>3, <2>4
<1>6. ASSUME NEW r \in chatRequests', r.kind = "send"
      PROVE  /\ r.id \in 1..ops' /\ r.prev = None
             /\ r.phase = "sent" => Unused(r.session, r.id)'
  <2> PICK q \in chatRequests : /\ q.kind = "send" /\ q.id = r.id /\ q.prev = r.prev
                                /\ q.session = r.session
                                /\ r.phase = "sent" =>
                                      q.phase = "sent" /\ <<q.session, q.id>> # <<s, id>>
    BY <1>6
  <2>1. q.session \in Sessions
    BY DEF ChatBase, ChatTypeOK, ChatRequest
  <2>2. q.id \in 1..ops /\ q.prev = None /\ (q.phase = "sent" => Unused(q.session, q.id))
    BY DEF SendsFresh
  <2>3. r.phase = "sent" => Unused(r.session, r.id)'
    BY <1>4, <2>1, <2>2 DEF Unused
  <2> QED
    BY <2>2, <2>3 DEF ChatBase
<1>7. ASSUME creating' # None, NEW w \in creating'.waiters
      PROVE  /\ w[2] <= ops'
             /\ w[1] = "send" => /\ \A t \in Sessions : Unused(t, w[2])'
                                 /\ \A r \in chatRequests' : r.kind = "send" => r.id # w[2]
  <2>1. creating # None /\ w \in creating.waiters
    BY <1>7
  <2>2. w \in {"send", "upload"} \X Ids
    BY <2>1 DEF ChatBase, ChatTypeOK, Creation
  <2>3. w[2] \in Int
    BY <2>2, ChatAssumption DEF Ids
  <2>4. w[2] <= ops'
    BY <2>1, <2>3 DEF SendsFresh, ChatBase
  <2>5. ASSUME w[1] = "send"
        PROVE  /\ \A t \in Sessions : Unused(t, w[2])'
               /\ \A r \in chatRequests' : r.kind = "send" => r.id # w[2]
    BY <1>4, <2>1, <2>5 DEF SendsFresh, Unused
  <2> QED
    BY <2>4, <2>5
<1> QED
  BY <1>5, <1>6, <1>7 DEF TasksFresh, SendsFresh

\* A task is claimed.
LEMMA DispatchFresh ==
  ASSUME ChatBase, TasksFresh, SendsFresh, NEW s \in Sessions, NEW i \in DOMAIN chat[s].tasks,
         chat' = [chat EXCEPT ![s].tasks[i] = <<chat[s].tasks[i][1], "running">>],
         \A t, j : Starting(wire', t, j) =>
                      Starting(wire, t, j) \/ (t = s /\ j = chat[s].tasks[i][1]),
         UNCHANGED <<ops, chatRequests, creating>>
  PROVE  TasksFresh' /\ SendsFresh'
<1> PICK id : id = chat[s].tasks[i][1]
  OBVIOUS
<1>1. id \in Ids /\ id <= ops /\ Running(s, id)
  BY SessionHas DEF TasksFresh, Running
<1>2. /\ \A t \in Sessions : t # s => chat'[t] = chat[t]
      /\ chat'[s].tasks = [chat[s].tasks EXCEPT ![i] = <<id, "running">>]
  BY DEF ChatBase, ChatTypeOK, Session
<1> PICK old, new : old = chat[s].tasks /\ new = chat'[s].tasks
  OBVIOUS
<1>3. /\ DOMAIN new = DOMAIN old /\ new[i][1] = id /\ new[i][2] = "running"
      /\ \A j \in DOMAIN old : new[j][1] = old[j][1]
      /\ \A j \in DOMAIN old : j # i => new[j] = old[j]
  BY <1>2
<1>4. \A t \in Sessions : \A j : Unused(t, j) => Unused(t, j)'
  <2> SUFFICES ASSUME NEW t \in Sessions, NEW j, Unused(t, j)
               PROVE  Unused(t, j)'
    OBVIOUS
  <2>1. ~ Running(t, j)'
    <3>1. CASE t # s
      BY <1>2, <3>1 DEF Running, Unused
    <3>2. CASE t = s
      BY <1>3, <3>2 DEF Running, Unused
    <3> QED
      BY <3>1, <3>2
  <2>2. ~ Starting(wire', t, j)
    BY <1>1 DEF Unused
  <2> QED
    BY <2>1, <2>2 DEF Unused
<1>5. ASSUME NEW t \in Sessions
      PROVE  /\ \A k \in DOMAIN chat'[t].tasks :
                   /\ chat'[t].tasks[k][1] <= ops'
                   /\ chat'[t].tasks[k][2] = "queued"
                         => ~ Starting(wire', t, chat'[t].tasks[k][1])
                   /\ \A j \in DOMAIN chat'[t].tasks :
                         chat'[t].tasks[k][1] = chat'[t].tasks[j][1] => k = j
             /\ \A j \in Ids : Starting(wire', t, j) => j <= ops'
  <2>1. \A j \in Ids : Starting(wire', t, j) => j <= ops'
    BY <1>1 DEF TasksFresh
  <2>2. CASE t # s
    BY <1>2, <2>1, <2>2 DEF TasksFresh
  <2>3. CASE t = s
    <3>1. \A k \in DOMAIN old : /\ old[k][1] <= ops'
                                /\ old[k][2] = "queued" => ~ Starting(wire, t, old[k][1])
                                /\ \A j \in DOMAIN old : old[k][1] = old[j][1] => k = j
      BY <2>3 DEF TasksFresh
    <3>2. \A k \in DOMAIN old : k # i => old[k][1] # id
      BY <3>1
    <3>3. \A k \in DOMAIN new : /\ new[k][1] <= ops'
                                /\ new[k][2] = "queued" => ~ Starting(wire', t, new[k][1])
      BY <1>3, <2>3, <3>1, <3>2
    <3>4. \A k \in DOMAIN new : \A j \in DOMAIN new : new[k][1] = new[j][1] => k = j
      BY <1>3, <3>1
    <3> QED
      BY <2>1, <2>3, <3>3, <3>4
  <2> QED
    BY <2>2, <2>3
<1>6. ASSUME NEW r \in chatRequests, r.kind = "send", r.phase = "sent"
      PROVE  Unused(r.session, r.id)'
  BY <1>4, <1>6 DEF SendsFresh, ChatBase, ChatTypeOK, ChatRequest
<1> QED
  BY <1>4, <1>5, <1>6 DEF TasksFresh, SendsFresh

LEMMA UnbornStays ==
  ASSUME UnbornEmpty, NEW s \in Sessions, \A t \in Sessions : t # s => chat'[t] = chat[t],
         chat'[s].state # "unborn"
  PROVE  UnbornEmpty'
BY DEF UnbornEmpty

LEMMA ChatChangedIs ==
  ASSUME ChatBase, NEW s \in Sessions, NEW events \in Seq(ChatEvents),
         \A types, t : Hears(events, types, t) => t = s,
         Tell(s, queries, events), UNCHANGED <<conn, scenario>>,
         chat' \in [Sessions -> Session], \A t \in Sessions : t # s => chat'[t] = chat[t]
  PROVE  Revised(s, queries, events)
BY DEF Revised, ChatBase, ChatTypeOK, Stay

LEMMA WireGrows ==
  ASSUME ChatBase, QueuedFirst(wire), NEW s, NEW c, NEW events, Revised(s, c, events),
         QueuedFirst(events)
  PROVE  /\ QueuedFirst(wire')
         /\ \A t, j : Starting(wire', t, j) => Starting(wire, t, j) \/ Starting(events, t, j)
<1>1. wire' = (IF conn = "up" THEN wire \o events ELSE wire) /\ events \in Seq(ChatEvents)
  BY DEF Revised, Tell, Send
<1> QED
  BY <1>1, QueuedMore, StartingMore DEF ChatBase

\* The server has moved: at most a request about session s has been answered.
Moved(s) ==
    /\ UNCHANGED <<conn, active, creating, scenario>>
    /\ ops' \in 0..MaxOps /\ ops <= ops'
    /\ \/ chatRequests' = chatRequests
       \/ \E r \in chatRequests :
             /\ r.session = s /\ r.phase = "sent"
             /\ chatRequests' = (chatRequests \ {r}) \cup {[r EXCEPT !.phase = "done"]}

LEMMA MovedIs ==
  ASSUME ChatBase, IsFiniteSet(chatRequests), NEW s \in Sessions, Moved(s)
  PROVE  /\ chatRequests' \subseteq ChatRequest /\ IsFiniteSet(chatRequests')
         /\ creating' \in Creation \cup {None}
         /\ \A t : Sending(t) => Sending(t)'
         /\ Editing => Editing'
         /\ \A r \in chatRequests' : r.kind = "send" =>
               \E q \in chatRequests : /\ q.kind = "send" /\ q.id = r.id /\ q.prev = r.prev
                                       /\ q.session = r.session
                                       /\ r.phase = "sent" => q = r
         /\ \A t \in Sessions :
               t # s /\ chat'[t] = chat[t] /\ Stopping(t) => Stopping(t)'
<1>1. chatRequests \subseteq ChatRequest /\ creating' \in Creation \cup {None}
  BY DEF ChatBase, ChatTypeOK, Moved
<1>2. CASE chatRequests' = chatRequests
  BY <1>1, <1>2 DEF Sending, Editing, Stopping, Running
<1>3. ASSUME NEW r \in chatRequests, r.session = s, r.phase = "sent",
             chatRequests' = (chatRequests \ {r}) \cup {[r EXCEPT !.phase = "done"]}
      PROVE  /\ chatRequests' \subseteq ChatRequest /\ IsFiniteSet(chatRequests')
             /\ \A t : Sending(t) => Sending(t)'
             /\ Editing => Editing'
             /\ \A p \in chatRequests' : p.kind = "send" =>
                   \E q \in chatRequests : /\ q.kind = "send" /\ q.id = p.id /\ q.prev = p.prev
                                           /\ q.session = p.session
                                           /\ p.phase = "sent" => q = p
             /\ \A t \in Sessions :
                   t # s /\ chat'[t] = chat[t] /\ Stopping(t) => Stopping(t)'
  <2> PICK n : n = [r EXCEPT !.phase = "done"]
    OBVIOUS
  <2>1. /\ n \in ChatRequest /\ n.kind = r.kind /\ n.session = r.session /\ n.id = r.id
        /\ n.prev = r.prev /\ n.phase = "done"
    BY <1>1 DEF ChatRequest
  <2>2. chatRequests' = (chatRequests \ {r}) \cup {n}
    BY <1>3
  <2>3. IsFiniteSet(chatRequests')
    BY <2>2, FS_AddElement, FS_RemoveElement
  <2>4. \A q \in chatRequests : q \in chatRequests' \/ q = r
    BY <2>2
  <2>5. \A t \in Sessions :
           t # s /\ chat'[t] = chat[t] /\ Stopping(t) => Stopping(t)'
    <3> SUFFICES ASSUME NEW t \in Sessions, t # s, chat'[t] = chat[t], Stopping(t)
                 PROVE  Stopping(t)'
      OBVIOUS
    <3> PICK q \in chatRequests : /\ q.kind = "stop" /\ q.session = t /\ q.phase # "done"
                                  /\ Running(t, q.id)
      BY DEF Stopping
    <3>1. q \in chatRequests'
      BY <1>3, <2>4
    <3> QED
      BY <3>1 DEF Stopping, Running
  <2>6. \A t : Sending(t) => Sending(t)'
    BY <2>1, <2>2, <2>4 DEF Sending
  <2>7. Editing => Editing'
    BY <2>1, <2>2, <2>4 DEF Editing
  <2> QED
    BY <1>1, <2>1, <2>2, <2>3, <2>5, <2>6, <2>7
<1> QED
  BY <1>1, <1>2, <1>3 DEF Moved

-----------------------------------------------------------------------------
(***************************************************************************)
(* What the server does keeps the invariant.                               *)
(***************************************************************************)
LEMMA SentKeeps ==
  ASSUME ChatInv, NEW s \in Sessions, NEW id \in Ids, Moved(s), chat[s].state = "open",
         id <= ops', Unused(s, id), chat' = Sent(chat, s, id),
         Tell(s, queries, SentEvents(s, id)),
         \A r \in chatRequests' :
            r.kind = "send" /\ r.phase = "sent" => <<r.session, r.id>> # <<s, id>>,
         creating # None => \A w \in creating.waiters : w[1] = "send" => w[2] # id
  PROVE  ChatInv'
<1> USE DEF ChatInv
<1> PICK events : events = SentEvents(s, id)
  OBVIOUS
<1>1. /\ events \in Seq(ChatEvents) /\ QueuedFirst(events)
      /\ \A types, t : Hears(events, types, t) <=>
            (("queued" \in types \/ "message" \in types) /\ t = s)
      /\ \A t, j : ~ Starting(events, t, j)
      /\ ConcernedBy(events, s) = {"messages", "pending"}
  BY TwoEvents
<1>2. /\ chat' \in [Sessions -> Session] /\ \A t \in Sessions : t # s => chat'[t] = chat[t]
      /\ chat'[s].state = chat[s].state /\ chat'[s].unread = chat[s].unread
  BY SentIs
<1>3. /\ UNCHANGED <<conn, active, creating, scenario>> /\ ops' \in 0..MaxOps /\ ops <= ops'
  BY DEF Moved
<1>4. Revised(s, queries, events)
  BY <1>1, <1>2, <1>3, ChatChangedIs
<1>5. ChatBase'
  BY <1>3, <1>4, ChangedBase, MovedIs
<1>6. MessagesTold'
  BY <1>1, <1>4, ChangedMessages, MovedIs DEF MessageTypes
<1>7. PillTold'
  BY <1>1, <1>2, <1>4, ChangedPill, MovedIs DEF PillTypes
<1>8. RowsTold'
  BY <1>1, <1>2, <1>3, <1>4, ChangedRows, MovedIs
<1>9. TasksFresh' /\ SendsFresh'
  <2>1. \A t, j : Starting(wire', t, j) => Starting(wire, t, j)
    BY <1>1, <1>4, WireGrows
  <2>2. \A r \in chatRequests' : r.kind = "send" =>
           \E q \in chatRequests : /\ q.kind = "send" /\ q.id = r.id /\ q.prev = r.prev
                                   /\ q.session = r.session
                                   /\ r.phase = "sent" =>
                                         q.phase = "sent" /\ <<q.session, q.id>> # <<s, id>>
    BY MovedIs
  <2> QED
    BY <1>3, <2>1, <2>2, SentFresh
<1>10. UnbornEmpty' /\ QueuedFirst(wire')
  BY <1>1, <1>2, <1>4, UnbornStays, WireGrows
<1> QED
  BY <1>5, <1>6, <1>7, <1>8, <1>9, <1>10, MovedIs

LEMMA DeletionKeeps ==
  ASSUME ChatInv, NEW s \in Sessions, Moved(s), chat' = Deleted(chat, s),
         Tell(s, queries, DeletedEvents(s))
  PROVE  ChatInv'
<1> USE DEF ChatInv
<1> PICK events : events = DeletedEvents(s)
  OBVIOUS
<1>1. /\ events \in Seq(ChatEvents) /\ QueuedFirst(events)
      /\ \A types, t : Hears(events, types, t) =>
            t = s /\ ("deleted" \in types \/ "cancelled" \in types)
      /\ \A types : "deleted" \in types => Hears(events, types, s)
      /\ \A t, j : ~ Starting(events, t, j)
      /\ ConcernedBy(events, s) = {"messages", "pending", "rows"}
  BY DeletionTold
<1>2. /\ chat' \in [Sessions -> Session] /\ \A t \in Sessions : t # s => chat'[t] = chat[t]
      /\ chat'[s].state = "deleted" /\ chat'[s].tasks = <<>>
  BY DeletedIs
<1>3. /\ UNCHANGED <<conn, active, creating, scenario>> /\ ops' \in 0..MaxOps /\ ops <= ops'
  BY DEF Moved
<1>4. Revised(s, queries, events)
  BY <1>1, <1>2, <1>3, ChatChangedIs
<1>5. ChatBase'
  BY <1>3, <1>4, ChangedBase, MovedIs
<1>6. MessagesTold'
  BY <1>1, <1>4, ChangedMessages, MovedIs DEF MessageTypes
<1>7. PillTold'
  BY <1>1, <1>2, <1>4, ChangedPill, MovedIs DEF PillTypes
<1>8. RowsTold'
  BY <1>1, <1>2, <1>3, <1>4, ChangedRows, MovedIs
<1>9. TasksFresh' /\ SendsFresh'
  <2>1. \A t, j : Starting(wire', t, j) => Starting(wire, t, j)
    BY <1>1, <1>4, WireGrows
  <2>2. \A t \in Sessions :
           /\ \A j \in DOMAIN chat'[t].tasks :
                 \E k \in DOMAIN chat[t].tasks : chat'[t].tasks[j] = chat[t].tasks[k]
           /\ \A j, k \in DOMAIN chat'[t].tasks :
                 chat'[t].tasks[j][1] = chat'[t].tasks[k][1] => j = k
    BY <1>2, TasksStay
  <2> QED
    BY <1>3, <2>1, <2>2, FreshStays, MovedIs
<1>10. UnbornEmpty' /\ QueuedFirst(wire')
  BY <1>1, <1>2, <1>4, UnbornStays, WireGrows
<1> QED
  BY <1>5, <1>6, <1>7, <1>8, <1>9, <1>10, MovedIs

LEMMA CancelKeeps ==
  ASSUME ChatInv, NEW s \in Sessions, Moved(s), NEW i \in DOMAIN chat[s].tasks,
         chat' = Finished(chat, s, i),
         Tell(s, queries, <<ChatEvent("cancelled", s, chat[s].tasks[i][1])>>)
  PROVE  ChatInv'
<1> USE DEF ChatInv
<1> PICK events : events = <<ChatEvent("cancelled", s, chat[s].tasks[i][1])>>
  OBVIOUS
<1>1. /\ events \in Seq(ChatEvents) /\ QueuedFirst(events)
      /\ \A types, t : Hears(events, types, t) <=> ("cancelled" \in types /\ t = s)
      /\ \A t, j : ~ Starting(events, t, j)
      /\ ConcernedBy(events, s) = {"pending"}
  <2>1. chat[s].tasks[i][1] \in Ids
    BY SessionHas
  <2> QED
    BY <2>1, OneEvent, TypesAre
<1>2. /\ chat' \in [Sessions -> Session] /\ \A t \in Sessions : t # s => chat'[t] = chat[t]
      /\ chat'[s].state = chat[s].state /\ chat'[s].messages = chat[s].messages
      /\ chat'[s].unread = chat[s].unread /\ chat'[s].tasks = Lacking(chat[s].tasks, i)
  BY FinishedIs
<1>3. /\ UNCHANGED <<conn, active, creating, scenario>> /\ ops' \in 0..MaxOps /\ ops <= ops'
  BY DEF Moved
<1>4. Revised(s, queries, events)
  BY <1>1, <1>2, <1>3, ChatChangedIs
<1>5. ChatBase'
  BY <1>3, <1>4, ChangedBase, MovedIs
<1>6. MessagesTold'
  BY <1>1, <1>2, <1>4, ChangedMessages, MovedIs DEF MessageTypes
<1>7. PillTold'
  BY <1>1, <1>2, <1>4, ChangedPill, MovedIs DEF PillTypes
<1>8. RowsTold'
  BY <1>1, <1>2, <1>3, <1>4, ChangedRows, MovedIs
<1>9. TasksFresh' /\ SendsFresh'
  <2>1. \A t, j : Starting(wire', t, j) => Starting(wire, t, j)
    BY <1>1, <1>4, WireGrows
  <2>2. \A t \in Sessions :
           /\ \A j \in DOMAIN chat'[t].tasks :
                 \E k \in DOMAIN chat[t].tasks : chat'[t].tasks[j] = chat[t].tasks[k]
           /\ \A j, k \in DOMAIN chat'[t].tasks :
                 chat'[t].tasks[j][1] = chat'[t].tasks[k][1] => j = k
    BY <1>2, TasksStay
  <2> QED
    BY <1>3, <2>1, <2>2, FreshStays, MovedIs
<1>10. UnbornEmpty' /\ QueuedFirst(wire')
  <2>1. chat[s].state # "unborn"
    BY SessionHas DEF UnbornEmpty
  <2> QED
    BY <1>1, <1>2, <1>4, <2>1, UnbornStays, WireGrows
<1> QED
  BY <1>5, <1>6, <1>7, <1>8, <1>9, <1>10, MovedIs

LEMMA ChatElsewhereKeeps ==
  ASSUME ChatInv, NEW s \in Sessions, ChatChangesElsewhere(s)
  PROVE  ChatInv'
<1>0. /\ chat[s].state = "open"
      /\ UNCHANGED <<conn, active, creating, chatRequests, scenario>>
      /\ ops' \in Ids /\ ops' = ops + 1 /\ ops \in 0..MaxOps /\ ops' \in 0..MaxOps
  <2>1. /\ chat[s].state = "open" /\ Spend
        /\ UNCHANGED <<conn, active, creating, chatRequests, scenario>>
    BY DEF ChatChangesElsewhere, Moves
  <2>2. ops \in 0..MaxOps
    BY DEF ChatInv, ChatBase
  <2> QED
    BY <2>1, <2>2, ChatAssumption DEF Spend, Ids
<1>1. Moved(s)
  BY <1>0 DEF Moved
<1>2. CASE chat' = Sent(chat, s, ops') /\ Tell(s, queries, SentEvents(s, ops'))
  <2>1. Unused(s, ops')
    <3>1. ~ Running(s, ops')
      <4>1. \A i \in DOMAIN chat[s].tasks :
               chat[s].tasks[i][1] <= ops /\ chat[s].tasks[i][1] \in 1..MaxOps
        BY SessionHas DEF TasksFresh, ChatInv
      <4> QED
        BY <1>0, <4>1 DEF Running
    <3>2. ~ Starting(wire, s, ops')
      BY <1>0 DEF TasksFresh, ChatInv
    <3> QED
      BY <3>1, <3>2 DEF Unused
  <2>2. \A r \in chatRequests : r.kind = "send" => r.id # ops'
    BY <1>0 DEF SendsFresh, ChatInv
  <2>3. creating # None => \A w \in creating.waiters : w[2] # ops'
    BY <1>0 DEF SendsFresh, ChatInv
  <2>4. ops' <= ops'
    BY <1>0
  <2> QED
    BY <1>0, <1>1, <1>2, <2>1, <2>2, <2>3, <2>4, SentKeeps
<1>3. CASE chat' = Deleted(chat, s) /\ Tell(s, queries, DeletedEvents(s))
  BY <1>1, <1>3, DeletionKeeps
<1>4. ASSUME NEW i \in DOMAIN chat[s].tasks, chat' = Finished(chat, s, i),
             Tell(s, queries, <<ChatEvent("cancelled", s, chat[s].tasks[i][1])>>)
      PROVE  ChatInv'
  BY <1>1, <1>4, CancelKeeps
<1> QED
  BY <1>2, <1>3, <1>4 DEF ChatChangesElsewhere

\* The tasks of a session that ended one more way, with its message.
EndedTask(s, i, kind) ==
    [Finished(chat, s, i) EXCEPT ![s].messages = @ \cup {<<kind, chat[s].tasks[i][1]>>},
                                 ![s].unread = TRUE]

LEMMA EndedIs ==
  ASSUME ChatBase, NEW s \in Sessions, NEW i \in DOMAIN chat[s].tasks,
         NEW kind \in {"reply", "failure"}
  PROVE  LET n == EndedTask(s, i, kind)
         IN  /\ n \in [Sessions -> Session] /\ \A t \in Sessions : t # s => n[t] = chat[t]
             /\ n[s].state = chat[s].state /\ n[s].tasks = Lacking(chat[s].tasks, i)
<1> PICK f : f = Finished(chat, s, i)
  OBVIOUS
<1>1. /\ f \in [Sessions -> Session] /\ \A t \in Sessions : t # s => f[t] = chat[t]
      /\ f[s].state = chat[s].state /\ f[s].messages = chat[s].messages
      /\ f[s].tasks = Lacking(chat[s].tasks, i)
  BY FinishedIs
<1> PICK m \in SUBSET Messages : m = f[s].messages \cup {<<kind, chat[s].tasks[i][1]>>}
  <2>1. chat[s].tasks[i][1] \in Ids /\ chat[s].messages \subseteq Messages
    BY SessionHas
  <2>2. <<kind, chat[s].tasks[i][1]>> \in Messages
    BY <2>1 DEF Messages
  <2> QED
    BY <1>1, <2>1, <2>2
<1> PICK g : g = [f[s] EXCEPT !.messages = m, !.unread = TRUE]
  OBVIOUS
<1>2. g \in Session /\ g.state = f[s].state /\ g.tasks = f[s].tasks
  <2> PICK b \in Session : b = f[s]
    BY <1>1
  <2>1. g = [b EXCEPT !.messages = m, !.unread = TRUE]
    OBVIOUS
  <2>2. g \in Session
    BY <2>1 DEF Session
  <2>3. g.state = b.state /\ g.tasks = b.tasks
    BY <2>1 DEF Session
  <2> QED
    BY <2>2, <2>3
<1> PICK n : n = EndedTask(s, i, kind)
  OBVIOUS
<1>3. n = [f EXCEPT ![s] = g]
  BY <1>1 DEF Session, EndedTask
<1> QED
  BY <1>1, <1>2, <1>3

LEMMA RunKeeps ==
  ASSUME ChatInv, NEW s \in Sessions, NEW i \in 1..MaxOps, RunChatTask(s, i)
  PROVE  ChatInv'
<1> USE DEF ChatInv
<1> PICK id : id = chat[s].tasks[i][1]
  OBVIOUS
<1>1. /\ i \in DOMAIN chat[s].tasks /\ id \in 0..MaxOps /\ id \in Ids
      /\ chat[s].state # "unborn"
  <2>1. i \in DOMAIN chat[s].tasks
    BY DEF RunChatTask
  <2>2. id \in 0..MaxOps /\ id \in Ids /\ chat[s].tasks # <<>>
    BY <2>1, SessionHas, ChatAssumption
  <2> QED
    BY <2>1, <2>2 DEF UnbornEmpty
<1>2. UNCHANGED <<conn, ops, active, creating, chatRequests, scenario>>
  BY DEF RunChatTask
<1>3. Moved(s) /\ ops' \in 0..MaxOps /\ ops <= ops'
  BY <1>2 DEF Moved, ChatBase
<1>4. /\ \A t \in Sessions : Sending(t) => Sending(t)'
      /\ Editing => Editing' /\ chatRequests' \subseteq ChatRequest
      /\ IsFiniteSet(chatRequests') /\ creating' \in Creation \cup {None}
      /\ \A r \in chatRequests' : r.kind = "send" =>
            \E q \in chatRequests : /\ q.kind = "send" /\ q.id = r.id /\ q.prev = r.prev
                                    /\ q.session = r.session
                                    /\ r.phase = "sent" => q = r
  BY <1>3, MovedIs
<1>0. /\ active' = active /\ ops' \in 0..MaxOps /\ chatRequests' \subseteq ChatRequest
      /\ creating' \in Creation \cup {None}
  <2>1. chatRequests' \subseteq ChatRequest /\ creating' \in Creation \cup {None}
    BY <1>3, MovedIs
  <2> QED
    BY <1>2, <1>3, <2>1
<1>5. CASE /\ chat[s].tasks[i][2] = "queued"
           /\ chat' = [chat EXCEPT ![s].tasks[i] = <<id, "running">>]
           /\ Tell(s, queries, <<ChatEvent("dispatch", s, id)>>)
  <2> PICK events : events = <<ChatEvent("dispatch", s, id)>>
    OBVIOUS
  <2>1. /\ events \in Seq(ChatEvents) /\ QueuedFirst(events)
        /\ \A types, t : Hears(events, types, t) <=> ("dispatch" \in types /\ t = s)
        /\ \A t, j : Starting(events, t, j) <=> (t = s /\ j = id)
        /\ ConcernedBy(events, s) = {"pending"}
    BY <1>1, OneEvent, TypesAre
  <2> PICK new : new = [chat[s].tasks EXCEPT ![i] = <<id, "running">>]
    OBVIOUS
  <2>2. /\ chat' \in [Sessions -> Session] /\ \A t \in Sessions : t # s => chat'[t] = chat[t]
        /\ chat'[s].state = chat[s].state /\ chat'[s].messages = chat[s].messages
        /\ chat'[s].unread = chat[s].unread /\ chat'[s].tasks = new
    <3>1. chat \in [Sessions -> Session] /\ chat[s] \in Session
      BY DEF ChatBase, ChatTypeOK
    <3>2. new \in Seq(Ids \X {"queued", "running"})
      <4>1. <<id, "running">> \in Ids \X {"queued", "running"}
        BY <1>1
      <4> QED
        BY <1>1, <4>1, SessionHas
    <3> PICK n : n = [chat[s] EXCEPT !.tasks = new]
      OBVIOUS
    <3>3. /\ n \in Session /\ n.state = chat[s].state /\ n.messages = chat[s].messages
          /\ n.unread = chat[s].unread /\ n.tasks = new
      BY <3>1, <3>2 DEF Session
    <3>4. chat' = [chat EXCEPT ![s] = n]
      BY <1>5
    <3> QED
      BY <3>1, <3>3, <3>4
  <2>3. Revised(s, queries, events)
    <3>1. /\ events \in Seq(ChatEvents) /\ \A types, t : Hears(events, types, t) => t = s
          /\ Tell(s, queries, events)
      BY <1>5, <2>1
    <3>2. UNCHANGED <<conn, scenario>>
      BY <1>2
    <3>3. chat' \in [Sessions -> Session] /\ \A t \in Sessions : t # s => chat'[t] = chat[t]
      BY <2>2
    <3> QED
      BY <3>1, <3>2, <3>3, ChatChangedIs
  <2>4. ChatBase'
    BY <1>0, <2>3, ChangedBase
  <2>5. MessagesTold'
    BY <1>4, <2>2, <2>3, ChangedMessages
  <2>6. \A t \in Sessions : \A j : Running(t, j) => Running(t, j)'
    <3> SUFFICES ASSUME NEW t \in Sessions, NEW j, Running(t, j)
                 PROVE  Running(t, j)'
      OBVIOUS
    <3> PICK k \in DOMAIN chat[t].tasks : chat[t].tasks[k][1] = j
      BY DEF Running
    <3>1. CASE t = s
      <4>1. k \in DOMAIN new /\ new[k][1] = j
        BY <3>1
      <4> QED
        BY <2>2, <3>1, <4>1 DEF Running
    <3>2. CASE t # s
      BY <2>2, <3>2 DEF Running
    <3> QED
      BY <3>1, <3>2
  <2>7. \A t \in Sessions : Stopping(t) => Stopping(t)'
    BY <1>2, <2>6 DEF Stopping
  <2>8. \/ ServerPill(s)' = ServerPill(s)
        \/ ServerPill(s) = {<<id, "queued">>} /\ ServerPill(s)' = {<<id, "running">>}
    <3> PICK old : old = chat[s].tasks
      OBVIOUS
    <3>1. /\ DOMAIN old = 1..Len(old) /\ i \in 1..Len(old) /\ Len(old) \in Nat
          /\ Len(new) = Len(old) /\ old[i] = <<id, "queued">> /\ new[i] = <<id, "running">>
          /\ \A j \in 1..Len(old) : j # i => new[j] = old[j]
          /\ old # <<>> /\ new # <<>>
      BY <1>1, <1>5, SessionHas
    <3>2. ServerPill(s) = {old[Len(old)]} /\ ServerPill(s)' = {new[Len(old)]}
      BY <2>2, <3>1 DEF ServerPill
    <3>3. CASE i = Len(old)
      BY <3>1, <3>2, <3>3
    <3>4. CASE i # Len(old)
      <4>1. Len(old) \in 1..Len(old)
        BY <3>1
      <4> QED
        BY <3>1, <3>2, <3>4, <4>1
    <3> QED
      BY <3>3, <3>4
  <2>9. PillTold'
    <3>1. "pending" \in ConcernedBy(events, s) /\ Starting(events, s, id)
      BY <2>1
    <3> QED
      BY <1>1, <1>4, <2>3, <2>7, <2>8, <3>1, ChangedPill
  <2>10. RowsTold'
    <3>1. ~ Hears(events, {"read"}, s) /\ ~ Hears(events, {"deleted"}, s)
      BY <2>1
    <3> QED
      BY <1>2, <1>4, <2>2, <2>3, <3>1, ChangedRows
  <2>11. TasksFresh' /\ SendsFresh'
    <3>1. \A t, j : Starting(wire', t, j) => Starting(wire, t, j) \/ (t = s /\ j = id)
      BY <2>1, <2>3, WireGrows
    <3> QED
      BY <1>1, <1>2, <1>5, <3>1, DispatchFresh
  <2>12. UnbornEmpty' /\ QueuedFirst(wire')
    BY <1>1, <2>1, <2>2, <2>3, UnbornStays, WireGrows
  <2> QED
    BY <1>4, <2>4, <2>5, <2>9, <2>10, <2>11, <2>12
<1>6. ASSUME NEW kind \in {"reply", "failure"}, NEW type \in {"done", "failed"}, NEW c,
             /\ c = queries
             \/ /\ c \in ChatQueries /\ AllSound(c) /\ Stay(queries.rows, c.rows)
                /\ \A t \in Sessions : /\ Stay(queries.messages[t], c.messages[t])
                                       /\ Stay(queries.pending[t], c.pending[t]),
             type = "done" \/ ("rows" \in scenario.follows => ~ Sure(c.rows)),
             chat' = [Finished(chat, s, i) EXCEPT ![s].messages = @ \cup {<<kind, id>>},
                                                  ![s].unread = TRUE],
             Tell(s, c, <<ChatEvent(type, s, id)>>)
      PROVE  ChatInv'
  <2> PICK events : events = <<ChatEvent(type, s, id)>>
    OBVIOUS
  <2>1. /\ events \in Seq(ChatEvents) /\ QueuedFirst(events)
        /\ \A types, t : Hears(events, types, t) <=> (type \in types /\ t = s)
        /\ \A t, j : ~ Starting(events, t, j)
        /\ {"messages", "pending"} \subseteq ConcernedBy(events, s)
        /\ type = "done" => "rows" \in ConcernedBy(events, s)
    BY <1>1, OneEvent, TypesAre
  <2>2. /\ chat' \in [Sessions -> Session] /\ \A t \in Sessions : t # s => chat'[t] = chat[t]
        /\ chat'[s].state = chat[s].state /\ chat'[s].tasks = Lacking(chat[s].tasks, i)
    <3> PICK n : n = EndedTask(s, i, kind)
      OBVIOUS
    <3>1. chat' = n
      BY <1>6 DEF EndedTask
    <3>2. /\ n \in [Sessions -> Session] /\ \A t \in Sessions : t # s => n[t] = chat[t]
          /\ n[s].state = chat[s].state /\ n[s].tasks = Lacking(chat[s].tasks, i)
      BY <1>1, EndedIs
    <3> QED
      BY <3>1, <3>2
  <2>3. Revised(s, c, events)
    <3>1. CASE c = queries
      BY <1>2, <1>6, <2>1, <2>2, <3>1, ChatChangedIs
    <3>2. CASE c # queries
      BY <1>2, <1>6, <2>1, <2>2, <3>2 DEF Revised
    <3> QED
      BY <3>1, <3>2
  <2>4. ChatBase'
    BY <1>0, <2>3, ChangedBase
  <2>5. MessagesTold'
    BY <1>4, <2>1, <2>3, ChangedMessages DEF MessageTypes
  <2>6. \A t \in Sessions : t # s /\ Stopping(t) => Stopping(t)'
    BY <1>3, <2>2, MovedIs
  <2>7. PillTold'
    BY <1>4, <2>1, <2>3, <2>6, ChangedPill DEF PillTypes
  <2>8. RowsTold'
    BY <1>2, <1>4, <1>6, <2>1, <2>3, ChangedRows
  <2>9. TasksFresh' /\ SendsFresh'
    <3>1. \A t, j : Starting(wire', t, j) => Starting(wire, t, j)
      BY <2>1, <2>3, WireGrows
    <3>2. \A t \in Sessions :
             /\ \A j \in DOMAIN chat'[t].tasks :
                   \E k \in DOMAIN chat[t].tasks : chat'[t].tasks[j] = chat[t].tasks[k]
             /\ \A j, k \in DOMAIN chat'[t].tasks :
                   chat'[t].tasks[j][1] = chat'[t].tasks[k][1] => j = k
      BY <1>1, <2>2, TasksStay
    <3> QED
      BY <1>2, <1>3, <1>4, <3>1, <3>2, FreshStays
  <2>10. UnbornEmpty' /\ QueuedFirst(wire')
    BY <1>1, <2>1, <2>2, <2>3, UnbornStays, WireGrows
  <2> QED
    BY <1>4, <2>4, <2>5, <2>7, <2>8, <2>9, <2>10
<1>7. CASE /\ chat' = [Finished(chat, s, i) EXCEPT ![s].messages = @ \cup {<<"reply", id>>},
                                                   ![s].unread = TRUE]
           /\ Tell(s, queries, <<ChatEvent("done", s, id)>>)
  BY <1>6, <1>7
<1>8. ASSUME NEW c,
             c = OnRows(Overtaken(queries, s, {"rows"}), LAMBDA q : Uncertain(q, "unannounced")),
             chat' = [Finished(chat, s, i) EXCEPT ![s].messages = @ \cup {<<"failure", id>>},
                                                  ![s].unread = TRUE],
             Tell(s, c, <<ChatEvent("failed", s, id)>>)
      PROVE  ChatInv'
  <2> PICK n : n = Overtaken(queries, s, {"rows"})
    OBVIOUS
  <2>1. /\ n \in ChatQueries /\ AllSound(n) /\ Stay(queries.rows, n.rows)
        /\ \A t \in Sessions : /\ Stay(queries.messages[t], n.messages[t])
                               /\ Stay(queries.pending[t], n.pending[t])
    BY OvertakenIs DEF ChatBase, ChatTypeOK
  <2>2. /\ c.messages = n.messages /\ c.pending = n.pending
        /\ c.rows = IF "rows" \in scenario.follows
                    THEN Uncertain(n.rows, "unannounced") ELSE n.rows
        /\ c = [messages |-> c.messages, pending |-> c.pending, rows |-> c.rows]
    BY <1>8 DEF OnRows, OnKeys
  <2> PICK u : u = Uncertain(n.rows, "unannounced")
    OBVIOUS
  <2>3. u \in RowsQuery /\ Sound(u) /\ ~ Sure(u)
    <3>1. "unannounced" \in Doubts /\ n.rows \in RowsQuery /\ Sound(n.rows)
      BY <2>1, QueriesHave DEF Doubts, AllSound
    <3> QED
      BY <3>1, UncertainIs DEF RowsQuery
  <2>4. c \in ChatQueries /\ AllSound(c) /\ Stay(queries.rows, c.rows)
    BY <2>1, <2>2, <2>3, QueriesHave
       DEF ChatQueries, MessageQuery, PillQuery, RowsQuery, AllSound, Stay
  <2> QED
    BY <1>6, <1>8, <2>1, <2>2, <2>3, <2>4
<1> QED
  BY <1>5, <1>7, <1>8 DEF RunChatTask

LEMMA ReadKeeps ==
  ASSUME ChatInv, NEW r \in chatRequests, r.phase = "sent", r.kind = "read",
         chat[r.session].state = "open",
         chat' = [chat EXCEPT ![r.session].unread = FALSE],
         Tell(r.session, queries, <<ChatEvent("read", r.session, 0)>>),
         chatRequests' = (chatRequests \ {r}) \cup {[r EXCEPT !.phase = "done"]},
         UNCHANGED <<conn, ops, active, creating, scenario>>
  PROVE  ChatInv'
<1> USE DEF ChatInv
<1> PICK s \in Sessions : s = r.session
  BY DEF ChatBase, ChatTypeOK, ChatRequest
<1> PICK events : events = <<ChatEvent("read", s, 0)>>
  OBVIOUS
<1>1. /\ events \in Seq(ChatEvents) /\ QueuedFirst(events)
      /\ \A types, t : Hears(events, types, t) <=> ("read" \in types /\ t = s)
      /\ \A t, j : ~ Starting(events, t, j)
      /\ ConcernedBy(events, s) = {"rows"}
  BY OneEvent, TypesAre
<1>2. /\ chat' \in [Sessions -> Session] /\ \A t \in Sessions : t # s => chat'[t] = chat[t]
      /\ chat'[s].state = "open" /\ chat'[s].messages = chat[s].messages
      /\ chat'[s].unread = FALSE /\ chat'[s].tasks = chat[s].tasks
  <2>1. chat \in [Sessions -> Session] /\ chat[s] \in Session
    BY DEF ChatBase, ChatTypeOK
  <2> PICK n : n = [chat[s] EXCEPT !.unread = FALSE]
    OBVIOUS
  <2>2. /\ n \in Session /\ n.state = chat[s].state /\ n.messages = chat[s].messages
        /\ n.unread = FALSE /\ n.tasks = chat[s].tasks
    BY <2>1 DEF Session
  <2>3. chat' = [chat EXCEPT ![s] = n]
    OBVIOUS
  <2> QED
    BY <2>1, <2>2, <2>3
<1>3. UNCHANGED <<conn, active, creating, scenario>> /\ ops' \in 0..MaxOps /\ ops <= ops'
  BY DEF ChatBase
<1>4. Moved(s)
  BY <1>3 DEF Moved
<1>5. Revised(s, queries, events)
  <2>1. Tell(s, queries, events)
    OBVIOUS
  <2>2. \A types, t : Hears(events, types, t) => t = s
    BY <1>1
  <2> QED
    BY <1>1, <1>2, <1>3, <2>1, <2>2, ChatChangedIs
<1>6. ChatBase'
  BY <1>3, <1>4, <1>5, ChangedBase, MovedIs
<1>7. MessagesTold'
  BY <1>2, <1>4, <1>5, ChangedMessages, MovedIs
<1>8. PillTold'
  <2>1. ServerPill(s)' = ServerPill(s)
    BY <1>2 DEF ServerPill
  <2>2. \A t \in Sessions : \A id : Running(t, id) => Running(t, id)'
    BY <1>2 DEF Running
  <2>3. \A t \in Sessions : Stopping(t) => Stopping(t)'
    <3> SUFFICES ASSUME NEW t \in Sessions, Stopping(t)
                 PROVE  Stopping(t)'
      OBVIOUS
    <3> PICK q \in chatRequests : /\ q.kind = "stop" /\ q.session = t /\ q.phase # "done"
                                  /\ Running(t, q.id)
      BY DEF Stopping
    <3>1. q \in chatRequests' /\ Running(t, q.id)'
      BY <2>2
    <3> QED
      BY <3>1 DEF Stopping
  <2>4. \A t \in Sessions : Sending(t) => Sending(t)'
    BY <1>4, MovedIs
  <2> QED
    BY <1>5, <2>1, <2>3, <2>4, ChangedPill
<1>9. RowsTold'
  <2>1. /\ Hears(events, {"read"}, s) /\ "rows" \in ConcernedBy(events, s)
        /\ ~ Hears(events, {"deleted"}, s)
    BY <1>1
  <2>2. (creating = None \/ creating' # None) /\ (Editing => Editing')
    BY <1>3, <1>4, MovedIs
  <2> QED
    BY <1>2, <1>5, <2>1, <2>2, ChangedRows
<1>10. TasksFresh' /\ SendsFresh'
  <2>1. \A t, j : Starting(wire', t, j) => Starting(wire, t, j)
    BY <1>1, <1>5, WireGrows
  <2>2. \A t \in Sessions :
           /\ \A j \in DOMAIN chat'[t].tasks :
                 \E k \in DOMAIN chat[t].tasks : chat'[t].tasks[j] = chat[t].tasks[k]
           /\ \A j, k \in DOMAIN chat'[t].tasks :
                 chat'[t].tasks[j][1] = chat'[t].tasks[k][1] => j = k
    BY <1>2, TasksStay
  <2> QED
    BY <1>3, <1>4, <2>1, <2>2, FreshStays, MovedIs
<1>11. UnbornEmpty' /\ QueuedFirst(wire')
  BY <1>1, <1>2, <1>5, UnbornStays, WireGrows
<1> QED
  BY <1>4, <1>6, <1>7, <1>8, <1>9, <1>10, <1>11, MovedIs

\* A request that changes nothing on the server.
LEMMA RefusalKeeps ==
  ASSUME ChatInv, NEW r \in chatRequests, r.kind = "stop" => ~ Running(r.session, r.id),
         chatRequests' = (chatRequests \ {r}) \cup {[r EXCEPT !.phase = "refused"]},
         UNCHANGED <<chat, queries, wire, conn, ops, active, creating, scenario>>
  PROVE  ChatInv'
<1> PICK n : n = [r EXCEPT !.phase = "refused"]
  OBVIOUS
<1>1. /\ n \in ChatRequest /\ n.kind = r.kind /\ n.session = r.session /\ n.id = r.id
      /\ n.prev = r.prev /\ n.phase = "refused" /\ chatRequests \subseteq ChatRequest
  BY DEF ChatInv, ChatBase, ChatTypeOK, ChatRequest
<1>2. chatRequests' = (chatRequests \ {r}) \cup {n}
  OBVIOUS
<1>3. IsFiniteSet(chatRequests') /\ chatRequests' \subseteq ChatRequest
  <2>1. IsFiniteSet(chatRequests \ {r})
    BY FS_RemoveElement DEF ChatInv
  <2> QED
    BY <1>1, <1>2, <2>1, FS_AddElement
<1>4. \A t \in Sessions : Sending(t) => Sending(t)'
  BY <1>1, <1>2 DEF Sending
<1>5. Editing => Editing'
  BY <1>1, <1>2 DEF Editing
<1>6. \A t \in Sessions : Stopping(t) => Stopping(t)'
  <2> SUFFICES ASSUME NEW t \in Sessions, Stopping(t)
               PROVE  Stopping(t)'
    OBVIOUS
  <2> PICK q \in chatRequests : /\ q.kind = "stop" /\ q.session = t /\ q.phase # "done"
                                /\ Running(t, q.id)
    BY DEF Stopping
  <2>1. q \in chatRequests' /\ Running(t, q.id)'
    BY <1>2 DEF Running
  <2> QED
    BY <2>1 DEF Stopping
<1>7. ChatBase'
  BY <1>3 DEF ChatInv, ChatBase, ChatTypeOK, AllSound
<1>8. MessagesTold'
  BY <1>4 DEF ChatInv, MessagesTold
<1>9. PillTold'
  BY <1>4, <1>6 DEF ChatInv, PillTold, ServerPill
<1>10. RowsTold'
  BY <1>5 DEF ChatInv, RowsTold
<1>11. TasksFresh' /\ SendsFresh'
  <2>1. TasksFresh'
    BY DEF ChatInv, TasksFresh
  <2>2. \A t, id : Unused(t, id)' <=> Unused(t, id)
    BY DEF Unused, Running
  <2>3. \A q \in chatRequests' : q.kind = "send" =>
           \E p \in chatRequests : /\ p.kind = "send" /\ p.id = q.id /\ p.prev = q.prev
                                   /\ p.session = q.session
                                   /\ q.phase = "sent" => p.phase = "sent"
    BY <1>1, <1>2
  <2>4. \A q \in chatRequests' : q.kind = "send" =>
           /\ q.id \in 1..ops /\ q.prev = None
           /\ q.phase = "sent" => Unused(q.session, q.id)
    BY <2>3 DEF ChatInv, SendsFresh
  <2>5. creating # None =>
           \A w \in creating.waiters :
              /\ w[2] <= ops
              /\ w[1] = "send" =>
                    /\ \A t \in Sessions : Unused(t, w[2])
                    /\ \A q \in chatRequests' : q.kind = "send" => q.id # w[2]
    BY <2>3 DEF ChatInv, SendsFresh
  <2> QED
    BY <2>1, <2>2, <2>4, <2>5 DEF SendsFresh
<1> QED
  BY <1>3, <1>7, <1>8, <1>9, <1>10, <1>11 DEF ChatInv, UnbornEmpty

LEMMA ChatCommitKeeps ==
  ASSUME ChatInv, NEW r \in chatRequests, CommitRequest(r)
  PROVE  ChatInv'
<1> PICK s \in Sessions : s = r.session
  BY DEF ChatInv, ChatBase, ChatTypeOK, ChatRequest
<1>1. /\ r.phase = "sent" /\ UNCHANGED <<conn, ops, active, creating, scenario>>
      /\ ops' \in 0..MaxOps /\ ops <= ops'
  BY DEF CommitRequest, ChatInv, ChatBase
<1>2. CASE /\ r.kind = "send" /\ chat[s].state = "open"
           /\ chat' = Sent(chat, s, r.id) /\ Tell(s, queries, SentEvents(s, r.id))
           /\ chatRequests' = (chatRequests \ {r}) \cup {[r EXCEPT !.phase = "done"]}
  <2>1. r.id \in 1..ops /\ r.prev = None /\ Unused(s, r.id)
    BY <1>1, <1>2 DEF ChatInv, SendsFresh
  <2>2. r.id \in Ids /\ r.id <= ops'
    <3>1. ops \in 0..MaxOps /\ ops' = ops
      BY <1>1 DEF ChatInv, ChatBase
    <3> QED
      BY <2>1, <3>1, ChatAssumption DEF Ids
  <2>3. Moved(s)
    BY <1>1, <1>2 DEF Moved
  <2>4. ASSUME NEW q \in chatRequests', q.kind = "send", q.phase = "sent"
        PROVE  <<q.session, q.id>> # <<s, r.id>>
    <3>1. [r EXCEPT !.phase = "done"].phase = "done"
      BY DEF ChatInv, ChatBase, ChatTypeOK, ChatRequest
    <3>2. q \in chatRequests /\ q # r
      BY <1>2, <2>4, <3>1
    <3>3. q \in ChatRequest /\ r \in ChatRequest /\ q.prev = None
      BY <2>4, <3>2 DEF ChatInv, ChatBase, ChatTypeOK, SendsFresh
    <3>4. \/ q.kind # r.kind \/ q.session # r.session \/ q.id # r.id
          \/ q.phase # r.phase \/ q.prev # r.prev
      BY <3>2, <3>3 DEF ChatRequest
    <3> QED
      BY <1>1, <1>2, <2>1, <2>4, <3>3, <3>4
  <2>5. creating # None => \A w \in creating.waiters : w[1] = "send" => w[2] # r.id
    BY <1>2 DEF ChatInv, SendsFresh
  <2> QED
    BY <1>2, <2>1, <2>2, <2>3, <2>4, <2>5, SentKeeps
<1>3. CASE /\ r.kind = "stop"
           /\ \E i \in DOMAIN chat[s].tasks :
                 chat[s].tasks[i][1] = r.id /\ chat' = Finished(chat, s, i)
           /\ Tell(s, queries, <<ChatEvent("cancelled", s, r.id)>>)
           /\ chatRequests' = (chatRequests \ {r}) \cup {[r EXCEPT !.phase = "done"]}
  <2> PICK i \in DOMAIN chat[s].tasks :
         chat[s].tasks[i][1] = r.id /\ chat' = Finished(chat, s, i)
    BY <1>3
  <2>1. Moved(s)
    BY <1>1, <1>3 DEF Moved
  <2> QED
    BY <1>3, <2>1, CancelKeeps
<1>4. CASE /\ r.kind = "read" /\ chat[s].state = "open"
           /\ chat' = [chat EXCEPT ![s].unread = FALSE]
           /\ Tell(s, queries, <<ChatEvent("read", s, 0)>>)
           /\ chatRequests' = (chatRequests \ {r}) \cup {[r EXCEPT !.phase = "done"]}
  BY <1>1, <1>4, ReadKeeps
<1>5. CASE /\ r.kind = "delete"
           /\ chat' = Deleted(chat, s) /\ Tell(s, queries, DeletedEvents(s))
           /\ chatRequests' = (chatRequests \ {r}) \cup {[r EXCEPT !.phase = "done"]}
  <2>1. Moved(s)
    BY <1>1, <1>5 DEF Moved
  <2> QED
    BY <1>5, <2>1, DeletionKeeps
<1>6. CASE /\ IF r.kind = "stop" THEN ~ Running(s, r.id) ELSE chat[s].state # "open"
           /\ chatRequests' = (chatRequests \ {r}) \cup {[r EXCEPT !.phase = "refused"]}
           /\ UNCHANGED <<chat, queries, wire>>
  BY <1>1, <1>6, RefusalKeeps
<1> QED
  BY <1>2, <1>3, <1>4, <1>5, <1>6 DEF CommitRequest

LEMMA CreateKeeps ==
  ASSUME ChatInv, NEW s \in Sessions, CommitCreate(s)
  PROVE  ChatInv'
<1> USE DEF ChatInv
<1>1. /\ creating # None /\ creating.session = None /\ chat[s].state = "unborn"
      /\ chat' = [chat EXCEPT ![s] = NewSession]
      /\ creating' = [creating EXCEPT !.session = s]
      /\ queries' = Overtaken(queries, s, {"rows"})
      /\ UNCHANGED <<conn, wire, ops, active, chatRequests, scenario>>
  BY DEF CommitCreate, socketVars
<1>2. creating' \in Creation /\ creating'.waiters = creating.waiters /\ creating' # None
  BY <1>1, ChatApart DEF ChatBase, ChatTypeOK, Creation
<1>3. /\ queries' \in ChatQueries /\ AllSound(queries') /\ Stay(queries.rows, queries'.rows)
      /\ \A t \in Sessions : /\ Stay(queries.messages[t], queries'.messages[t])
                             /\ Stay(queries.pending[t], queries'.pending[t])
  BY <1>1, OvertakenIs DEF ChatBase, ChatTypeOK
<1>4. /\ chat' \in [Sessions -> Session]
      /\ \A t \in Sessions : /\ chat'[t].messages = chat[t].messages
                             /\ chat'[t].tasks = chat[t].tasks
      /\ chat'[s].state = "open" /\ \A t \in Sessions : t # s => chat'[t] = chat[t]
  BY <1>1, NewSessionIs DEF ChatBase, ChatTypeOK, UnbornEmpty
<1>5. ChatBase'
  BY <1>1, <1>2, <1>3, <1>4 DEF ChatBase, ChatTypeOK, AllSound
<1>6. ASSUME NEW t \in Sessions
      PROVE  /\ ServerPill(t)' = ServerPill(t)
             /\ Stopping(t) => Stopping(t)'
             /\ Sending(t) => Sending(t)'
  <2>1. ServerPill(t)' = ServerPill(t)
    BY <1>4 DEF ServerPill
  <2>2. \A id : Running(t, id) => Running(t, id)'
    BY <1>4 DEF Running
  <2>3. Stopping(t) => Stopping(t)'
    BY <1>1, <2>2 DEF Stopping
  <2>4. Sending(t) => Sending(t)'
    BY <1>1 DEF Sending
  <2> QED
    BY <2>1, <2>3, <2>4
<1>7. MessagesTold'
  BY <1>1, <1>3, <1>4, <1>6 DEF MessagesTold, Stay
<1>8. PillTold'
  BY <1>1, <1>3, <1>6 DEF PillTold, Stay
<1>9. RowsTold'
  BY <1>2 DEF RowsTold
<1>10. TasksFresh' /\ SendsFresh'
  <2>1. \A t, j : Starting(wire', t, j) => Starting(wire, t, j)
    BY <1>1
  <2>2. \A t \in Sessions :
           /\ \A j \in DOMAIN chat'[t].tasks :
                 \E k \in DOMAIN chat[t].tasks : chat'[t].tasks[j] = chat[t].tasks[k]
           /\ \A j, k \in DOMAIN chat'[t].tasks :
                 chat'[t].tasks[j][1] = chat'[t].tasks[k][1] => j = k
    BY <1>4, TasksStay
  <2>3. ops' \in Int /\ ops <= ops'
    BY <1>1 DEF ChatBase
  <2> QED
    BY <1>1, <1>2, <2>1, <2>2, <2>3, FreshStays
<1>11. UnbornEmpty'
  BY <1>4, UnbornStays
<1> QED
  BY <1>1, <1>5, <1>7, <1>8, <1>9, <1>10, <1>11

-----------------------------------------------------------------------------
(***************************************************************************)
(* What the client does to its queries, all together.                      *)
(***************************************************************************)
LEMMA QueriesMade ==
  ASSUME NEW c, c = [messages |-> c.messages, pending |-> c.pending, rows |-> c.rows],
         c.messages \in [Sessions -> MessageQuery], c.pending \in [Sessions -> PillQuery],
         c.rows \in RowsQuery,
         \A t \in Sessions : Sound(c.messages[t]) /\ Sound(c.pending[t]), Sound(c.rows)
  PROVE  c \in ChatQueries /\ AllSound(c)
BY DEF ChatQueries, MessageQuery, PillQuery, RowsQuery, AllSound

LEMMA QueriesAre ==
  ASSUME ChatBase
  PROVE  /\ queries \in ChatQueries /\ AllSound(queries)
         /\ queries.messages \in [Sessions -> MessageQuery]
         /\ queries.pending \in [Sessions -> PillQuery] /\ queries.rows \in RowsQuery
         /\ \A t \in Sessions : Sound(queries.messages[t]) /\ Sound(queries.pending[t])
         /\ Sound(queries.rows)
BY QueriesHave DEF ChatBase, ChatTypeOK, AllSound

LEMMA ShowingIs ==
  ASSUME NEW c \in ChatQueries, AllSound(c), NEW a
  PROVE  LET n == Showing(c, a)
         IN  /\ n \in ChatQueries /\ AllSound(n) /\ n.rows = c.rows
             /\ \A t \in Sessions : /\ Stay(c.messages[t], n.messages[t])
                                    /\ Stay(c.pending[t], n.pending[t])
<1> DEFINE n == Showing(c, a)
           M(q, s) == IF s = a THEN Mount(q) ELSE Unmount(q)
<1>1. /\ c.messages \in [Sessions -> MessageQuery] /\ c.pending \in [Sessions -> PillQuery]
      /\ c.rows \in RowsQuery
  BY QueriesHave
<1>2. /\ n.messages = IF "messages" \notin scenario.follows THEN c.messages
                      ELSE [s \in Sessions |-> M(c.messages[s], s)]
      /\ n.pending = IF "pending" \notin scenario.follows THEN c.pending
                     ELSE [s \in Sessions |-> M(c.pending[s], s)]
      /\ n.rows = c.rows
      /\ n = [messages |-> n.messages, pending |-> n.pending, rows |-> n.rows]
  <2> DEFINE m == IF "messages" \notin scenario.follows THEN c["messages"]
                  ELSE [s \in Sessions |-> IF s = a THEN Mount(c["messages"][s])
                                           ELSE Unmount(c["messages"][s])]
             p == IF "pending" \notin scenario.follows THEN c["pending"]
                  ELSE [s \in Sessions |-> IF s = a THEN Mount(c["pending"][s])
                                           ELSE Unmount(c["pending"][s])]
  <2>1. n = [c EXCEPT !.messages = m, !.pending = p]
    BY DEF Showing
  <2>2. c = [messages |-> c.messages, pending |-> c.pending, rows |-> c.rows]
    BY DEF ChatQueries
  <2> HIDE DEF n, m, p
  <2>3. n = [messages |-> m, pending |-> p, rows |-> c.rows]
    BY <2>1, <2>2
  <2> QED
    BY <2>3 DEF m, p
<1> HIDE DEF n
<1>3. \A s : \A q \in MessageQuery : Sound(q) =>
         M(q, s) \in MessageQuery /\ Sound(M(q, s)) /\ Stay(q, M(q, s))
  BY MountIs, ChatApart DEF MessageQuery
<1>4. \A s : \A q \in PillQuery : Sound(q) =>
         M(q, s) \in PillQuery /\ Sound(M(q, s)) /\ Stay(q, M(q, s))
  BY MountIs, ChatApart DEF PillQuery
<1> HIDE DEF M
<1>5. /\ n.messages \in [Sessions -> MessageQuery]
      /\ \A t \in Sessions : Sound(n.messages[t]) /\ Stay(c.messages[t], n.messages[t])
  BY <1>1, <1>2, <1>3 DEF AllSound, Stay
<1>6. /\ n.pending \in [Sessions -> PillQuery]
      /\ \A t \in Sessions : Sound(n.pending[t]) /\ Stay(c.pending[t], n.pending[t])
  BY <1>1, <1>2, <1>4 DEF AllSound, Stay
<1>7. n \in ChatQueries /\ AllSound(n)
  BY <1>1, <1>2, <1>5, <1>6, QueriesMade DEF AllSound
<1> QED
  BY <1>2, <1>5, <1>6, <1>7 DEF n

\* The list is fetched again.
LEMMA RowsInvalidated ==
  ASSUME NEW c \in ChatQueries, AllSound(c)
  PROVE  LET n == OnRows(c, Invalidate)
         IN  /\ n \in ChatQueries /\ AllSound(n)
             /\ n.messages = c.messages /\ n.pending = c.pending
             /\ "rows" \in scenario.follows => ~ Sure(n.rows)
<1> PICK n : n = OnRows(c, Invalidate)
  OBVIOUS
<1>1. /\ c.messages \in [Sessions -> MessageQuery] /\ c.pending \in [Sessions -> PillQuery]
      /\ c.rows \in RowsQuery
  BY QueriesHave
<1> PICK q : q = Invalidate(c.rows)
  OBVIOUS
<1>2. /\ n.messages = c.messages /\ n.pending = c.pending
      /\ n.rows = IF "rows" \in scenario.follows THEN q ELSE c.rows
      /\ n = [messages |-> n.messages, pending |-> n.pending, rows |-> n.rows]
  BY DEF OnRows, OnKeys
<1>3. q \in RowsQuery /\ Sound(q) /\ ~ Sure(q)
  BY <1>1, InvalidateIs, ChatApart DEF AllSound, RowsQuery
<1> QED
  BY <1>1, <1>2, <1>3, QueriesMade DEF AllSound

\* The messages of session s are fetched again.
LEMMA MessagesInvalidated ==
  ASSUME NEW c \in ChatQueries, AllSound(c), NEW s \in Sessions
  PROVE  LET n == OnKeys(c, s, {"messages"}, Invalidate)
         IN  /\ n \in ChatQueries /\ AllSound(n)
             /\ n.rows = c.rows /\ n.pending = c.pending
             /\ \A t \in Sessions : t # s => n.messages[t] = c.messages[t]
             /\ "messages" \in scenario.follows => ~ Sure(n.messages[s])
<1> PICK n : n = OnKeys(c, s, {"messages"}, Invalidate)
  OBVIOUS
<1>1. /\ c.messages \in [Sessions -> MessageQuery] /\ c.pending \in [Sessions -> PillQuery]
      /\ c.rows \in RowsQuery
  BY QueriesHave
<1> PICK q : q = Invalidate(c.messages[s])
  OBVIOUS
<1>2. /\ n.messages = (IF "messages" \in scenario.follows
                       THEN [c.messages EXCEPT ![s] = q] ELSE c.messages)
      /\ n.pending = c.pending /\ n.rows = c.rows
      /\ n = [messages |-> n.messages, pending |-> n.pending, rows |-> n.rows]
  BY DEF OnKeys
<1>3. q \in MessageQuery /\ Sound(q) /\ ~ Sure(q)
  BY <1>1, InvalidateIs, ChatApart DEF AllSound, MessageQuery
<1>4. /\ n.messages \in [Sessions -> MessageQuery]
      /\ \A t \in Sessions : Sound(n.messages[t])
      /\ \A t \in Sessions : t # s => n.messages[t] = c.messages[t]
      /\ "messages" \in scenario.follows => ~ Sure(n.messages[s])
  BY <1>1, <1>2, <1>3 DEF AllSound
<1> QED
  BY <1>1, <1>2, <1>4, QueriesMade DEF AllSound

\* The pill of session s is written.
Pilled(c, s, d) == OnKeys(c, s, {"pending"}, LAMBDA q : Write(q, d))

LEMMA PillWritten ==
  ASSUME NEW c \in ChatQueries, AllSound(c), NEW s \in Sessions, NEW d \in Pills
  PROVE  LET n == Pilled(c, s, d)
         IN  /\ n \in ChatQueries /\ AllSound(n)
             /\ n.rows = c.rows /\ n.messages = c.messages
             /\ \A t \in Sessions : t # s => n.pending[t] = c.pending[t]
             /\ "pending" \in scenario.follows => n.pending[s] = Write(c.pending[s], d)
             /\ "pending" \notin scenario.follows => n.pending = c.pending
<1> PICK n : n = Pilled(c, s, d)
  OBVIOUS
<1>1. /\ c.messages \in [Sessions -> MessageQuery] /\ c.pending \in [Sessions -> PillQuery]
      /\ c.rows \in RowsQuery
  BY QueriesHave
<1> PICK q : q = Write(c.pending[s], d)
  OBVIOUS
<1>2. /\ n.pending = (IF "pending" \in scenario.follows
                      THEN [c.pending EXCEPT ![s] = q] ELSE c.pending)
      /\ n.messages = c.messages /\ n.rows = c.rows
      /\ n = [messages |-> n.messages, pending |-> n.pending, rows |-> n.rows]
  BY DEF Pilled, OnKeys
<1>3. q \in PillQuery /\ Sound(q)
  BY <1>1, WriteIs DEF PillQuery
<1>4. /\ n.pending \in [Sessions -> PillQuery]
      /\ \A t \in Sessions : Sound(n.pending[t])
      /\ \A t \in Sessions : t # s => n.pending[t] = c.pending[t]
      /\ "pending" \in scenario.follows => n.pending[s] = q
  BY <1>1, <1>2, <1>3 DEF AllSound
<1> QED
  BY <1>1, <1>2, <1>4, QueriesMade DEF AllSound

-----------------------------------------------------------------------------
(***************************************************************************)
(* What a step of the client keeps of the invariant.                       *)
(***************************************************************************)
MessageStays(t) ==
    "messages" \in scenario.follows =>
        \/ ~ Sure(queries'.messages[t]) \/ Sending(t)'
        \/ queries'.messages[t].data = chat[t].messages
        \/ /\ Stay(queries.messages[t], queries'.messages[t])
           /\ Sending(t) => Sending(t)'

PillStays(t) ==
    "pending" \in scenario.follows =>
        \/ ~ Sure(queries'.pending[t]) \/ Sending(t)' \/ Stopping(t)'
        \/ Hears(wire, PillTypes, t)
        \/ queries'.pending[t].data = ServerPill(t)
        \/ /\ Stay(queries.pending[t], queries'.pending[t])
           /\ Sending(t) => Sending(t)'
           /\ Stopping(t) => Stopping(t)'

RowsStay ==
    "rows" \in scenario.follows =>
        \/ ~ Sure(queries'.rows) \/ creating' # None \/ Editing'
        \/ /\ Stay(queries.rows, queries'.rows)
           /\ creating = None /\ (Editing => Editing')
        \/ \A t \in Sessions : SessionRows(chat)[t] = Marked(wire, t, queries'.rows.data[t])

LEMMA TasksSame ==
  ASSUME ChatBase, TasksFresh, chat' = chat, ops' \in Int, ops <= ops',
         \A t, id : Starting(wire', t, id) => Starting(wire, t, id)
  PROVE  TasksFresh' /\ \A t, id : Unused(t, id) => Unused(t, id)'
<1>1. ASSUME NEW t \in Sessions
      PROVE  /\ \A i \in DOMAIN chat[t].tasks :
                   /\ chat[t].tasks[i][1] <= ops'
                   /\ chat[t].tasks[i][2] = "queued"
                         => ~ Starting(wire', t, chat[t].tasks[i][1])
                   /\ \A j \in DOMAIN chat[t].tasks :
                         chat[t].tasks[i][1] = chat[t].tasks[j][1] => i = j
             /\ \A id \in Ids : Starting(wire', t, id) => id <= ops'
  <2>1. \A i \in DOMAIN chat[t].tasks : chat[t].tasks[i][1] \in 1..MaxOps
    BY SessionHas
  <2>2. \A i \in DOMAIN chat[t].tasks : chat[t].tasks[i][1] <= ops'
    BY <2>1 DEF TasksFresh, ChatBase
  <2>3. \A id \in Ids : Starting(wire', t, id) => id <= ops'
    BY ChatAssumption DEF TasksFresh, ChatBase, Ids
  <2> QED
    BY <2>2, <2>3 DEF TasksFresh
<1>2. TasksFresh'
  BY <1>1 DEF TasksFresh
<1>3. \A t, id : Unused(t, id) => Unused(t, id)'
  BY DEF Unused, Running
<1> QED
  BY <1>2, <1>3

\* No message is sent.
LEMMA SendsSame ==
  ASSUME ChatBase, TasksFresh, SendsFresh, chat' = chat, ops' \in Int, ops <= ops',
         \A t, id : Starting(wire', t, id) => Starting(wire, t, id),
         \A r \in chatRequests' : r.kind = "send" => r \in chatRequests,
         creating' = None \/ creating' = creating
  PROVE  SendsFresh'
<1>1. \A t, id : Unused(t, id) => Unused(t, id)'
  BY TasksSame
<1>2. \A r \in chatRequests' :
         r.kind = "send" => /\ r.id \in 1..ops' /\ r.prev = None
                            /\ r.phase = "sent" => Unused(r.session, r.id)'
  BY <1>1 DEF SendsFresh, ChatBase
<1>3. ASSUME creating' # None, NEW w \in creating'.waiters
      PROVE  /\ w[2] <= ops'
             /\ w[1] = "send" => /\ \A t \in Sessions : Unused(t, w[2])'
                                 /\ \A r \in chatRequests' : r.kind = "send" => r.id # w[2]
  <2>1. creating # None /\ w \in creating.waiters
    BY <1>3
  <2>2. w \in {"send", "upload"} \X Ids
    BY <2>1 DEF ChatBase, ChatTypeOK, Creation
  <2>3. w[2] \in Int
    BY <2>2, ChatAssumption DEF Ids
  <2>4. w[2] <= ops'
    BY <2>1, <2>3 DEF SendsFresh, ChatBase
  <2> QED
    BY <1>1, <2>1, <2>4 DEF SendsFresh
<1> QED
  BY <1>2, <1>3 DEF SendsFresh

LEMMA ClientKeeps ==
  ASSUME ChatInv, UNCHANGED <<conn, wire, chat, scenario>>,
         ops' \in 0..MaxOps, ops <= ops', queries' \in ChatQueries, AllSound(queries'),
         active' \in Sessions \cup {None}, creating' \in Creation \cup {None},
         chatRequests' \subseteq ChatRequest, IsFiniteSet(chatRequests'),
         \A t \in Sessions : MessageStays(t) /\ PillStays(t), RowsStay, SendsFresh'
  PROVE  ChatInv'
<1> USE DEF ChatInv
<1>1. ChatBase'
  BY DEF ChatBase, ChatTypeOK, AllSound
<1>2. MessagesTold'
  BY DEF MessagesTold, MessageStays, Stay
<1>3. PillTold'
  <2>1. \A t : ServerPill(t)' = ServerPill(t)
    BY DEF ServerPill
  <2>2. \A d, t, pill : pill = d => PillIs(d, t, pill, wire)
    BY DEF PillIs
  <2> QED
    BY <2>1, <2>2 DEF PillTold, PillStays, Stay
<1>4. RowsTold'
  BY DEF RowsTold, RowsStay, Stay
<1>5. TasksFresh'
  BY TasksSame
<1> QED
  BY <1>1, <1>2, <1>3, <1>4, <1>5 DEF UnbornEmpty

-----------------------------------------------------------------------------
(***************************************************************************)
(* What the user does keeps the invariant.                                 *)
(***************************************************************************)
LEMMA MoveIs ==
  ASSUME ChatInv, NEW move, Moves(move)
  PROVE  /\ ops' \in 0..MaxOps /\ ops' \in Ids /\ ops \in 0..MaxOps /\ ops' = ops + 1
         /\ ops <= ops' /\ scenario' = scenario
<1>1. ops \in 0..MaxOps /\ MaxOps \in Nat /\ ops < MaxOps /\ ops' = ops + 1
  BY ChatAssumption DEF Moves, Spend, ChatInv, ChatBase
<1> QED
  BY <1>1 DEF Moves, Ids

LEMMA EnsureKeeps ==
  ASSUME ChatInv, NEW what \in {"send", "upload"}, EnsureSession(what)
  PROVE  ChatInv'
<1>1. /\ ops' \in 0..MaxOps /\ ops' \in Ids /\ ops \in 0..MaxOps /\ ops' = ops + 1
      /\ ops <= ops' /\ scenario' = scenario
  BY MoveIs DEF EnsureSession
<1>2. /\ UNCHANGED <<conn, wire, chat, queries, active, chatRequests>>
      /\ creating' = IF creating # None
                     THEN [creating EXCEPT !.waiters = @ \cup {<<what, ops'>>}]
                     ELSE [session |-> None, waiters |-> {<<what, ops'>>}]
  BY DEF EnsureSession
<1>3. <<what, ops'>> \in {"send", "upload"} \X Ids
  BY <1>1
<1>4. /\ creating' \in Creation
      /\ \A w \in creating'.waiters :
            w = <<what, ops'>> \/ (creating # None /\ w \in creating.waiters)
  <2>1. CASE creating # None
    <3>1. creating \in Creation
      BY <2>1 DEF ChatInv, ChatBase, ChatTypeOK
    <3> QED
      BY <1>2, <1>3, <2>1, <3>1 DEF Creation
  <2>2. CASE creating = None
    BY <1>2, <1>3, <2>2 DEF Creation
  <2> QED
    BY <2>1, <2>2
<1>5. creating' # None
  BY <1>4, ChatApart
<1>6. SendsFresh'
  <2>1. \A t, id : Unused(t, id) => Unused(t, id)'
    BY <1>1, <1>2, TasksSame DEF ChatInv
  <2>2. \A t \in Sessions : Unused(t, ops')
    <3> SUFFICES ASSUME NEW t \in Sessions
                 PROVE  Unused(t, ops')
      OBVIOUS
    <3>1. \A i \in DOMAIN chat[t].tasks :
             chat[t].tasks[i][1] <= ops /\ chat[t].tasks[i][1] \in 1..MaxOps
      BY SessionHas DEF TasksFresh, ChatInv
    <3> QED
      BY <1>1, <3>1 DEF ChatInv, TasksFresh, Unused, Running
  <2>3. \A r \in chatRequests : r.kind = "send" =>
           /\ r.id \in 1..ops' /\ r.id # ops' /\ r.prev = None
           /\ r.phase = "sent" => Unused(r.session, r.id)'
    BY <1>1, <2>1 DEF ChatInv, SendsFresh
  <2>4. ASSUME NEW w \in creating'.waiters
        PROVE  /\ w[2] <= ops'
               /\ w[1] = "send" => /\ \A t \in Sessions : Unused(t, w[2])'
                                   /\ \A r \in chatRequests : r.kind = "send" => r.id # w[2]
    <3>1. CASE w = <<what, ops'>>
      <4>1. w[2] = ops'
        BY <3>1
      <4> QED
        BY <1>1, <2>1, <2>2, <2>3, <4>1
    <3>2. CASE creating # None /\ w \in creating.waiters
      <4>1. w \in {"send", "upload"} \X Ids
        BY <3>2 DEF ChatInv, ChatBase, ChatTypeOK, Creation
      <4>2. w[2] \in Int
        BY <4>1, ChatAssumption DEF Ids
      <4>3. w[2] <= ops'
        BY <1>1, <3>2, <4>2 DEF ChatInv, SendsFresh
      <4> QED
        BY <2>1, <3>2, <4>3 DEF ChatInv, SendsFresh
    <3> QED
      BY <1>4, <3>1, <3>2
  <2> QED
    BY <1>2, <2>3, <2>4 DEF SendsFresh
<1>7. \A t \in Sessions : MessageStays(t) /\ PillStays(t)
  <2>1. \A t : Sending(t)' <=> Sending(t)
    BY <1>2 DEF Sending
  <2>2. \A t : Stopping(t)' <=> Stopping(t)
    BY <1>2 DEF Stopping, Running
  <2> QED
    BY <1>2, <2>1, <2>2 DEF MessageStays, PillStays, Stay
<1>8. RowsStay
  BY <1>5 DEF RowsStay
<1>9. /\ queries' \in ChatQueries /\ AllSound(queries') /\ active' \in Sessions \cup {None}
      /\ chatRequests' \subseteq ChatRequest /\ IsFiniteSet(chatRequests')
  BY <1>2 DEF ChatInv, ChatBase, ChatTypeOK
<1> QED
  BY <1>1, <1>2, <1>4, <1>6, <1>7, <1>8, <1>9, ClientKeeps

\* A number that no request has.
LEMMA FreeId ==
  ASSUME IsFiniteSet(chatRequests), chatRequests \subseteq ChatRequest
  PROVE  \E n \in 0..Cardinality(chatRequests) : \A r \in chatRequests : r.id # n
<1> DEFINE T == {r.id : r \in chatRequests}
           f == [r \in chatRequests |-> r.id]
<1>1. f \in Surjection(chatRequests, T)
  BY DEF Surjection
<1>2. IsFiniteSet(T) /\ Cardinality(T) <= Cardinality(chatRequests)
  BY <1>1, FS_Surjection
<1>3. Cardinality(chatRequests) \in Nat
  BY FS_CardinalityType
<1> PICK c \in Nat : c = Cardinality(chatRequests)
  BY <1>3
<1>4. Cardinality(0..c) = c + 1
  BY FS_Interval
<1>5. ~ (0..c \subseteq T)
  <2> SUFFICES ASSUME 0..c \subseteq T
               PROVE  FALSE
    OBVIOUS
  <2>1. Cardinality(0..c) <= Cardinality(T)
    BY <1>2, FS_Subset
  <2>2. Cardinality(T) \in Nat
    BY <1>2, FS_CardinalityType
  <2> QED
    BY <1>2, <1>4, <2>1, <2>2
<1> QED
  BY <1>5

\* The last of some ids.
LEMMA LastId ==
  ASSUME NEW S \in SUBSET Ids, S # {}
  PROVE  \E i \in S : \A j \in S : j <= i
<1> DEFINE T == {MaxOps - i : i \in S}
<1>1. \A i \in S : i \in Int /\ MaxOps - i \in Nat
  BY ChatAssumption DEF Ids
<1>2. T \subseteq Nat /\ T # {}
  BY <1>1
<1> DEFINE R == OpToRel(<, Nat)
<1>3. IsWellFoundedOn(R, Nat)
  BY NatLessThanWellFounded, Zenon
<1>4. \A y, x \in Nat : y < x => <<y, x>> \in R
  BY Zenon DEF OpToRel
<1> HIDE DEF R
<1>5. PICK x \in T : \A y \in T : ~ (<<y, x>> \in R)
  BY <1>2, <1>3, WFMin
<1>6. PICK i \in S : x = MaxOps - i
  OBVIOUS
<1>7. ASSUME NEW j \in S
      PROVE  j <= i
  <2>1. ~ (MaxOps - j < x)
    BY <1>1, <1>2, <1>4, <1>5
  <2> QED
    BY <1>1, <1>6, <2>1, ChatAssumption
<1> QED
  BY <1>7

\* Nothing about the requests has changed.
LEMMA RequestsSame ==
  ASSUME ChatInv, UNCHANGED <<chat, chatRequests>>
  PROVE  /\ chatRequests' \subseteq ChatRequest /\ IsFiniteSet(chatRequests')
         /\ \A t : (Sending(t) => Sending(t)') /\ (Stopping(t) => Stopping(t)')
         /\ Editing => Editing'
         /\ \A r \in chatRequests' : r.kind = "send" => r \in chatRequests
<1>1. \A t : (Sending(t) => Sending(t)') /\ (Stopping(t) => Stopping(t)')
  BY DEF Sending, Stopping, Running
<1>2. Editing => Editing'
  BY DEF Editing
<1> QED
  BY <1>1, <1>2 DEF ChatInv, ChatBase, ChatTypeOK

\* A request has been sent.
LEMMA RequestSent ==
  ASSUME ChatInv, chat' = chat, NEW r \in ChatRequest, chatRequests' = chatRequests \cup {r}
  PROVE  /\ chatRequests' \subseteq ChatRequest /\ IsFiniteSet(chatRequests')
         /\ \A t : (Sending(t) => Sending(t)') /\ (Stopping(t) => Stopping(t)')
         /\ Editing => Editing'
         /\ r.kind = "send" => Sending(r.session)'
         /\ r.kind = "stop" /\ r.phase = "sent" /\ Running(r.session, r.id)
               => Stopping(r.session)'
         /\ r.kind \in {"read", "delete"} => Editing'
         /\ r.kind # "send" => \A q \in chatRequests' : q.kind = "send" => q \in chatRequests
<1>1. \A t : Sending(t) => Sending(t)'
  BY DEF Sending
<1>2. \A t : Stopping(t) => Stopping(t)'
  BY DEF Stopping, Running
<1>3. Editing => Editing'
  BY DEF Editing
<1>4. r.kind = "send" => Sending(r.session)'
  BY DEF Sending
<1>5. r.kind = "stop" /\ r.phase = "sent" /\ Running(r.session, r.id) => Stopping(r.session)'
  BY DEF Stopping, Running
<1>6. r.kind \in {"read", "delete"} => Editing'
  BY DEF Editing
<1>7. chatRequests' \subseteq ChatRequest /\ IsFiniteSet(chatRequests')
  BY FS_AddElement DEF ChatInv, ChatBase, ChatTypeOK
<1> QED
  BY <1>1, <1>2, <1>3, <1>4, <1>5, <1>6, <1>7

LEMMA CreateFailKeeps ==
  ASSUME ChatInv, CreateFails
  PROVE  ChatInv'
<1>1. /\ ops' \in 0..MaxOps /\ ops <= ops' /\ ops' \in Int /\ scenario' = scenario
  BY MoveIs DEF CreateFails
<1>2. /\ creating' = None /\ queries' = OnRows(queries, Invalidate)
      /\ UNCHANGED <<conn, wire, chat, active, chatRequests>>
  BY DEF CreateFails
<1>3. /\ queries' \in ChatQueries /\ AllSound(queries')
      /\ queries'.messages = queries.messages /\ queries'.pending = queries.pending
      /\ "rows" \in scenario.follows => ~ Sure(queries'.rows)
  BY <1>2, QueriesAre, RowsInvalidated DEF ChatInv
<1>4. /\ chatRequests' \subseteq ChatRequest /\ IsFiniteSet(chatRequests')
      /\ \A t : (Sending(t) => Sending(t)') /\ (Stopping(t) => Stopping(t)')
      /\ \A r \in chatRequests' : r.kind = "send" => r \in chatRequests
  BY <1>2, RequestsSame
<1>5. \A t \in Sessions : MessageStays(t) /\ PillStays(t)
  BY <1>3, <1>4 DEF MessageStays, PillStays, Stay
<1>6. RowsStay
  BY <1>3 DEF RowsStay
<1>7. SendsFresh'
  BY <1>1, <1>2, <1>4, SendsSame DEF ChatInv
<1>8. active' \in Sessions \cup {None}
  BY <1>2 DEF ChatInv, ChatBase, ChatTypeOK
<1> QED
  BY <1>1, <1>2, <1>3, <1>4, <1>5, <1>6, <1>7, <1>8, ClientKeeps

LEMMA ShowKeeps ==
  ASSUME ChatInv, NEW a \in Sessions \cup {None}, ShowSession(a)
  PROVE  ChatInv'
<1>1. /\ ops' \in 0..MaxOps /\ ops <= ops' /\ ops' \in Int /\ scenario' = scenario
  BY MoveIs DEF ShowSession
<1>2. /\ active' = a /\ queries' = Showing(queries, a)
      /\ UNCHANGED <<conn, wire, chat, creating, chatRequests>>
  BY DEF ShowSession
<1>3. /\ queries' \in ChatQueries /\ AllSound(queries') /\ queries'.rows = queries.rows
      /\ \A t \in Sessions : /\ Stay(queries.messages[t], queries'.messages[t])
                             /\ Stay(queries.pending[t], queries'.pending[t])
  BY <1>2, QueriesAre, ShowingIs DEF ChatInv
<1>4. /\ chatRequests' \subseteq ChatRequest /\ IsFiniteSet(chatRequests')
      /\ \A t : (Sending(t) => Sending(t)') /\ (Stopping(t) => Stopping(t)')
      /\ Editing => Editing'
      /\ \A r \in chatRequests' : r.kind = "send" => r \in chatRequests
  BY <1>2, RequestsSame
<1>5. \A t \in Sessions : MessageStays(t) /\ PillStays(t)
  BY <1>3, <1>4 DEF MessageStays, PillStays
<1>6. RowsStay
  BY <1>2, <1>3, <1>4 DEF RowsStay, Stay
<1>7. SendsFresh'
  BY <1>1, <1>2, <1>4, SendsSame DEF ChatInv
<1>8. creating' \in Creation \cup {None}
  BY <1>2 DEF ChatInv, ChatBase, ChatTypeOK
<1> QED
  BY <1>1, <1>2, <1>3, <1>4, <1>5, <1>6, <1>7, <1>8, ClientKeeps

\* A message that the user has just written is nobody's.
LEMMA NewId ==
  ASSUME ChatInv, ops \in 0..MaxOps, ops' = ops + 1, ops' \in Ids
  PROVE  /\ \A t \in Sessions : Unused(t, ops')
         /\ \A r \in chatRequests : r.kind = "send" => r.id # ops'
         /\ creating # None => \A w \in creating.waiters : w[2] # ops'
<1>1. ASSUME NEW t \in Sessions
      PROVE  Unused(t, ops')
  <2>1. \A i \in DOMAIN chat[t].tasks :
           chat[t].tasks[i][1] <= ops /\ chat[t].tasks[i][1] \in 1..MaxOps
    BY SessionHas DEF TasksFresh, ChatInv
  <2> QED
    BY <2>1 DEF ChatInv, TasksFresh, Unused, Running
<1> QED
  BY <1>1 DEF ChatInv, SendsFresh

LEMMA SendKeeps ==
  ASSUME ChatInv, HandleSend
  PROVE  ChatInv'
<1>1. /\ ops' \in 0..MaxOps /\ ops' \in Ids /\ ops \in 0..MaxOps /\ ops' = ops + 1
      /\ ops <= ops' /\ scenario' = scenario
  BY MoveIs DEF HandleSend
<1> PICK s \in Sessions : s = active
  BY DEF HandleSend, ChatInv, ChatBase, ChatTypeOK
<1> PICK r : r = RequestOf("send", s, ops', None)
  OBVIOUS
<1>2. /\ queries' = Burst(queries, s, ops') /\ chatRequests' = chatRequests \cup {r}
      /\ UNCHANGED <<conn, wire, chat, active, creating>>
  BY DEF HandleSend
<1>3. /\ r \in ChatRequest /\ r.kind = "send" /\ r.session = s /\ r.id = ops'
      /\ r.prev = None /\ r.phase = "sent"
  BY <1>1 DEF RequestOf, ChatRequest
<1>4. /\ chatRequests' \subseteq ChatRequest /\ IsFiniteSet(chatRequests')
      /\ \A t : (Sending(t) => Sending(t)') /\ (Stopping(t) => Stopping(t)')
      /\ Editing => Editing' /\ Sending(s)'
  BY <1>2, <1>3, RequestSent
<1>5. /\ queries' \in ChatQueries /\ AllSound(queries') /\ queries'.rows = queries.rows
      /\ \A t \in Sessions : t # s => /\ queries'.messages[t] = queries.messages[t]
                                      /\ queries'.pending[t] = queries.pending[t]
  <2> DEFINE B(q) == Write(q, IF q.data = None THEN {<<"optimistic", ops'>>}
                              ELSE q.data \cup {<<"optimistic", ops'>>})
             c1 == OnKeys(queries, s, {"messages"}, B)
  <2> PICK n : n = c1
    OBVIOUS
  <2> PICK q : q = B(queries.messages[s])
    OBVIOUS
  <2>1. /\ n.messages = (IF "messages" \in scenario.follows
                         THEN [queries.messages EXCEPT ![s] = q] ELSE queries.messages)
        /\ n.pending = queries.pending /\ n.rows = queries.rows
        /\ n = [messages |-> n.messages, pending |-> n.pending, rows |-> n.rows]
    BY DEF OnKeys
  <2>2. q \in MessageQuery /\ Sound(q)
    <3> PICK p \in MessageQuery : p = queries.messages[s]
      BY QueriesAre DEF ChatInv
    <3> PICK d : d = (IF p.data = None THEN {<<"optimistic", ops'>>}
                      ELSE p.data \cup {<<"optimistic", ops'>>})
      OBVIOUS
    <3>1. d \in SUBSET Messages
      <4>1. <<"optimistic", ops'>> \in Messages
        BY <1>1 DEF Messages
      <4>2. p.data \in SUBSET Messages \/ p.data = None
        BY DEF MessageQuery, Query
      <4> QED
        BY <4>1, <4>2
    <3>2. q = Write(p, d)
      OBVIOUS
    <3> QED
      BY <3>1, <3>2, WriteIs DEF MessageQuery
  <2>3. /\ n \in ChatQueries /\ AllSound(n)
        /\ \A t \in Sessions : t # s => n.messages[t] = queries.messages[t]
    <3>1. /\ n.messages \in [Sessions -> MessageQuery]
          /\ \A t \in Sessions : Sound(n.messages[t])
          /\ \A t \in Sessions : t # s => n.messages[t] = queries.messages[t]
      BY <2>1, <2>2, QueriesAre DEF ChatInv
    <3> QED
      BY <2>1, <3>1, QueriesAre, QueriesMade DEF ChatInv
  <2> PICK d \in Pills : d = {<<ops', "optimistic">>}
    BY <1>1 DEF Pills
  <2>4. queries' = Pilled(n, s, d)
    BY <1>2 DEF Burst, Pilled
  <2> HIDE DEF c1, B
  <2> PICK m : m = Pilled(n, s, d)
    OBVIOUS
  <2>5. /\ m \in ChatQueries /\ AllSound(m) /\ m.rows = n.rows /\ m.messages = n.messages
        /\ \A t \in Sessions : t # s => m.pending[t] = n.pending[t]
    BY <2>3, PillWritten
  <2>6. queries' = m
    BY <2>4
  <2> QED
    BY <2>1, <2>3, <2>5, <2>6
<1>6. ASSUME NEW t \in Sessions
      PROVE  MessageStays(t) /\ PillStays(t)
  <2>1. CASE t = s
    <3>1. r \in chatRequests' /\ r.kind = "send" /\ r.session = t
      BY <1>2, <1>3, <2>1
    <3>2. Sending(t)'
      BY <3>1 DEF Sending
    <3> QED
      BY <3>2 DEF MessageStays, PillStays
  <2>2. CASE t # s
    BY <1>4, <1>5, <2>2 DEF MessageStays, PillStays, Stay
  <2> QED
    BY <2>1, <2>2
<1>7. RowsStay
  BY <1>2, <1>4, <1>5 DEF RowsStay, Stay
<1>8. SendsFresh'
  <2>1. \A t, id : Unused(t, id) => Unused(t, id)'
    BY <1>1, <1>2, TasksSame DEF ChatInv
  <2>2. /\ \A t \in Sessions : Unused(t, ops')
        /\ creating # None => \A w \in creating.waiters : w[2] # ops'
    BY <1>1, NewId
  <2>3. \A q \in chatRequests' :
           q.kind = "send" => /\ q.id \in 1..ops' /\ q.prev = None
                              /\ q.phase = "sent" => Unused(q.session, q.id)'
    <3>1. \A q \in chatRequests :
             q.kind = "send" => /\ q.id \in 1..ops' /\ q.prev = None
                                /\ q.phase = "sent" => Unused(q.session, q.id)'
      BY <1>1, <2>1 DEF ChatInv, SendsFresh
    <3>2. r.id \in 1..ops' /\ r.prev = None /\ Unused(r.session, r.id)'
      BY <1>1, <1>3, <2>1, <2>2
    <3> QED
      BY <1>2, <3>1, <3>2
  <2>4. ASSUME creating # None, NEW w \in creating.waiters
        PROVE  /\ w[2] <= ops'
               /\ w[1] = "send" => /\ \A t \in Sessions : Unused(t, w[2])'
                                   /\ \A q \in chatRequests' : q.kind = "send" => q.id # w[2]
    <3>1. w \in {"send", "upload"} \X Ids
      BY <2>4 DEF ChatInv, ChatBase, ChatTypeOK, Creation
    <3>2. w[2] \in Int
      BY <3>1, ChatAssumption DEF Ids
    <3>3. w[2] <= ops'
      BY <1>1, <2>4, <3>2 DEF ChatInv, SendsFresh
    <3>4. w[2] # r.id
      BY <1>3, <2>2, <2>4
    <3> QED
      BY <1>2, <2>1, <2>4, <3>3, <3>4 DEF ChatInv, SendsFresh
  <2> QED
    BY <1>2, <2>3, <2>4 DEF SendsFresh
<1>9. active' \in Sessions \cup {None} /\ creating' \in Creation \cup {None}
  BY <1>2 DEF ChatInv, ChatBase, ChatTypeOK
<1> QED
  BY <1>1, <1>2, <1>4, <1>5, <1>6, <1>7, <1>8, <1>9, ClientKeeps

\* The task that a sure pill shows is at work.
LEMMA PillRuns ==
  ASSUME ChatBase, NEW s \in Sessions, NEW t, NEW w, PillIs({t}, s, ServerPill(s), w)
  PROVE  t[2] # "optimistic" /\ Running(s, t[1])
<1>1. PICK u : ServerPill(s) = {u} /\ \E i \in DOMAIN chat[s].tasks : chat[s].tasks[i] = u
  <2>1. ServerPill(s) # {}
    BY DEF PillIs
  <2>2. chat[s].tasks # <<>> /\ ServerPill(s) = {chat[s].tasks[Len(chat[s].tasks)]}
    BY <2>1 DEF ServerPill
  <2>3. Len(chat[s].tasks) \in DOMAIN chat[s].tasks
    BY <2>2, SessionHas
  <2> QED
    BY <2>2, <2>3
<1>2. u[2] \in {"queued", "running"} /\ Running(s, u[1])
  BY <1>1, SessionHas DEF Running
<1>3. CASE ServerPill(s) = {t}
  <2>1. t = u
    BY <1>1, <1>3
  <2> QED
    BY <1>2, <2>1
<1>4. ASSUME NEW id, {t} = {<<id, "queued">>}, ServerPill(s) = {<<id, "running">>}
      PROVE  t[2] # "optimistic" /\ Running(s, t[1])
  <2>1. t = <<id, "queued">> /\ u = <<id, "running">>
    BY <1>1, <1>4
  <2>2. t[2] = "queued" /\ t[1] = u[1]
    BY <2>1
  <2> QED
    BY <1>2, <2>2
<1> QED
  BY <1>3, <1>4 DEF PillIs

LEMMA StopKeeps ==
  ASSUME ChatInv, HandleStop
  PROVE  ChatInv'
<1>1. /\ ops' \in 0..MaxOps /\ ops <= ops' /\ ops' \in Int /\ scenario' = scenario
  BY MoveIs DEF HandleStop
<1> PICK s \in Sessions : s = active
  BY DEF HandleStop, ChatInv, ChatBase, ChatTypeOK
<1> PICK q \in PillQuery : q = queries.pending[s]
  BY QueriesAre DEF ChatInv
<1> DEFINE task == CHOOSE t \in queries.pending[active].data : TRUE
<1>2. q.data = {task} /\ task \in Ids \X {"optimistic", "queued", "running"}
  <2>1. q.data \notin {None, {}}
    BY DEF HandleStop
  <2>2. q.data \in Pills
    BY <2>1 DEF PillQuery, Query
  <2>3. PICK t \in Ids \X {"optimistic", "queued", "running"} : q.data = {t}
    BY <2>1, <2>2 DEF Pills
  <2>4. task \in q.data
    BY <2>3
  <2> QED
    BY <2>3, <2>4
<1> HIDE DEF task
<1> PICK id \in Nat : /\ task[2] = "optimistic" => id = 0
                      /\ task[2] # "optimistic" => id = task[1]
  <2>1. task[1] \in Nat
    BY <1>2 DEF Ids
  <2> QED
    BY <2>1
<1> PICK r : r = RequestOf("stop", s, id, None)
  OBVIOUS
<1>3. /\ queries' = OnKeys(Pilled(queries, s, {}), s, {"messages"}, Invalidate)
      /\ chatRequests' = chatRequests \cup {r}
      /\ UNCHANGED <<conn, wire, chat, active, creating>>
  <2>1. /\ queries' = OnKeys(Pilled(queries, s, {}), s, {"messages"}, Invalidate)
        /\ UNCHANGED <<conn, wire, chat, active, creating>>
    BY DEF HandleStop, Pilled
  <2>2. chatRequests' = chatRequests \cup
           {RequestOf("stop", s, IF task[2] = "optimistic" THEN 0 ELSE task[1], None)}
    BY DEF HandleStop, task
  <2>3. CASE task[2] = "optimistic"
    BY <2>1, <2>2, <2>3
  <2>4. CASE task[2] # "optimistic"
    BY <2>1, <2>2, <2>4
  <2> QED
    BY <2>3, <2>4
<1>4. /\ r \in ChatRequest /\ r.kind = "stop" /\ r.session = s /\ r.id = id
      /\ r.prev = None /\ r.phase = "sent"
  BY DEF RequestOf, ChatRequest
<1>5. /\ chatRequests' \subseteq ChatRequest /\ IsFiniteSet(chatRequests')
      /\ \A t : (Sending(t) => Sending(t)') /\ (Stopping(t) => Stopping(t)')
      /\ Editing => Editing'
      /\ \A p \in chatRequests' : p.kind = "send" => p \in chatRequests
  BY <1>3, <1>4, RequestSent
<1>6. Running(s, id) => Stopping(s)'
  <2> SUFFICES ASSUME Running(s, id)
               PROVE  Stopping(s)'
    OBVIOUS
  <2>1. Running(s, id)'
    BY <1>3 DEF Running
  <2>2. r \in chatRequests'
    BY <1>3
  <2> QED
    BY <1>4, <2>1, <2>2 DEF Stopping
<1> PICK n : n = Pilled(queries, s, {})
  OBVIOUS
<1>7. /\ n \in ChatQueries /\ AllSound(n) /\ n.rows = queries.rows
      /\ n.messages = queries.messages
      /\ \A t \in Sessions : t # s => n.pending[t] = queries.pending[t]
      /\ "pending" \in scenario.follows => n.pending[s] = Write(q, {})
  <2>1. {} \in Pills
    BY DEF Pills
  <2> QED
    BY <2>1, QueriesAre, PillWritten DEF ChatInv
<1>8. /\ queries' \in ChatQueries /\ AllSound(queries') /\ queries'.rows = queries.rows
      /\ queries'.pending = n.pending
      /\ \A t \in Sessions : t # s => queries'.messages[t] = queries.messages[t]
      /\ "messages" \in scenario.follows => ~ Sure(queries'.messages[s])
  BY <1>3, <1>7, MessagesInvalidated
<1>9. ASSUME NEW t \in Sessions
      PROVE  MessageStays(t) /\ PillStays(t)
  <2>1. CASE t # s
    BY <1>5, <1>7, <1>8, <2>1 DEF MessageStays, PillStays, Stay
  <2>2. CASE t = s
    <3>1. MessageStays(t)
      BY <1>8, <2>2 DEF MessageStays
    <3>2. SUFFICES ASSUME "pending" \in scenario.follows, Sure(queries'.pending[s]),
                          ~ Sending(s)', ~ Stopping(s)', ~ Hears(wire, PillTypes, s)
                   PROVE  FALSE
      BY <2>2, <3>1 DEF PillStays
    <3>3. Sure(Write(q, {}))
      BY <1>7, <1>8, <3>2
    <3>4. Sure(q)
      <4>1. Sound(q) /\ q.data # None /\ {} \in Pills
        BY <1>2, QueriesAre DEF ChatInv, Pills, Sound, HandleStop
      <4> QED
        BY <3>3, <4>1, WriteIs DEF PillQuery
    <3>5. ~ Sending(s) /\ ~ Stopping(s)
      BY <1>5, <3>2
    <3>6. PillIs({task}, s, ServerPill(s), wire)
      BY <1>2, <3>2, <3>4, <3>5 DEF ChatInv, PillTold
    <3>7. task[2] # "optimistic" /\ Running(s, task[1])
      BY <3>6, PillRuns DEF ChatInv
    <3> QED
      BY <1>6, <3>2, <3>7
  <2> QED
    BY <2>1, <2>2
<1>10. RowsStay
  BY <1>3, <1>5, <1>8 DEF RowsStay, Stay
<1>11. SendsFresh'
  BY <1>1, <1>3, <1>5, SendsSame DEF ChatInv
<1>12. active' \in Sessions \cup {None} /\ creating' \in Creation \cup {None}
  BY <1>3 DEF ChatInv, ChatBase, ChatTypeOK
<1> QED
  BY <1>1, <1>3, <1>5, <1>8, <1>9, <1>10, <1>11, <1>12, ClientKeeps

\* A row is written.
LEMMA RowIs ==
  ASSUME NEW c \in ChatQueries, AllSound(c), NEW s \in Sessions, NEW row \in {"gone", "read"}
  PROVE  LET n == Row(c, s, row)
         IN  /\ n \in ChatQueries /\ AllSound(n)
             /\ n.messages = c.messages /\ n.pending = c.pending
             /\ "rows" \in scenario.follows /\ Sure(n.rows) =>
                   /\ Sure(c.rows)
                   /\ n.rows.data = [c.rows.data EXCEPT ![s] = IF @ = "gone" THEN @ ELSE row]
<1> PICK n, q : n = Row(c, s, row) /\ q = c.rows
  OBVIOUS
<1> PICK d : d = [q.data EXCEPT ![s] = IF @ = "gone" THEN @ ELSE row]
  OBVIOUS
<1>1. /\ n.messages = c.messages /\ n.pending = c.pending
      /\ n.rows = IF "rows" \in scenario.follows THEN Patch(q, d) ELSE q
      /\ n = [messages |-> n.messages, pending |-> n.pending, rows |-> n.rows]
  BY DEF Row, OnRows, OnKeys
<1>2. /\ c.messages \in [Sessions -> MessageQuery] /\ c.pending \in [Sessions -> PillQuery]
      /\ q \in RowsQuery /\ Sound(q)
  BY QueriesHave DEF AllSound
<1>3. q.data # None => d \in Rows
  BY <1>2 DEF RowsQuery, Query, Rows
<1> PICK p : p = Patch(q, d)
  OBVIOUS
<1>4. p \in RowsQuery /\ Sound(p) /\ (Sure(p) => Sure(q) /\ p.data = d)
  BY <1>2, <1>3, PatchIs DEF RowsQuery
<1>5. n \in ChatQueries /\ AllSound(n)
  BY <1>1, <1>2, <1>4, QueriesMade DEF AllSound
<1> QED
  BY <1>1, <1>4, <1>5

LEMMA RowMutationIs ==
  ASSUME NEW c \in ChatQueries, AllSound(c), NEW s \in Sessions, NEW row \in {"gone", "read"}
  PROVE  LET n == RowMutation(c, s, row)
         IN  /\ n \in ChatQueries /\ AllSound(n)
             /\ n.messages = c.messages /\ n.pending = c.pending
<1> PICK n, q : n = RowMutation(c, s, row) /\ q = c.rows
  OBVIOUS
<1> PICK m : m = Cancel(q)
  OBVIOUS
<1> PICK d : d = [m.data EXCEPT ![s] = IF @ = "gone" THEN @ ELSE row]
  OBVIOUS
<1>1. /\ n.messages = c.messages /\ n.pending = c.pending
      /\ n.rows = IF "rows" \in scenario.follows THEN Patch(m, d) ELSE q
      /\ n = [messages |-> n.messages, pending |-> n.pending, rows |-> n.rows]
  BY DEF RowMutation, Row, OnRows, OnKeys
<1>2. /\ c.messages \in [Sessions -> MessageQuery] /\ c.pending \in [Sessions -> PillQuery]
      /\ q \in RowsQuery /\ Sound(q)
  BY QueriesHave DEF AllSound
<1>3. m \in RowsQuery /\ m.data = q.data /\ m.stale = q.stale /\ m.owed = q.owed
  BY <1>2 DEF RowsQuery, Query, Cancel
<1>4. m.data # None => d \in Rows
  BY <1>3 DEF RowsQuery, Query, Rows
<1> PICK p : p = Patch(m, d)
  OBVIOUS
<1>5. p \in RowsQuery /\ Sound(p)
  <2>1. CASE m.data = None
    BY <1>2, <1>3, <2>1 DEF Patch, Sound
  <2>2. CASE m.data # None
    <3>1. p = Write(m, d)
      BY <2>2 DEF Patch
    <3> QED
      BY <1>3, <1>4, <2>2, <3>1, WriteIs DEF RowsQuery
  <2> QED
    BY <2>1, <2>2
<1>6. n \in ChatQueries /\ AllSound(n)
  BY <1>1, <1>2, <1>5, QueriesMade DEF AllSound
<1> QED
  BY <1>1, <1>6

\* A change of the list is asked for.
LEMMA EditKeeps ==
  ASSUME ChatInv, NEW c \in ChatQueries, AllSound(c), NEW s \in Sessions,
         NEW row \in {"gone", "read"}, queries' = RowMutation(c, s, row),
         \A t \in Sessions : /\ Stay(queries.messages[t], c.messages[t])
                             /\ Stay(queries.pending[t], c.pending[t]),
         NEW r \in ChatRequest, r.kind \in {"read", "delete"},
         chatRequests' = chatRequests \cup {r}, ops' \in 0..MaxOps, ops <= ops',
         active' \in Sessions \cup {None}, UNCHANGED <<conn, wire, chat, creating, scenario>>
  PROVE  ChatInv'
<1> PICK n : n = RowMutation(c, s, row)
  OBVIOUS
<1>1. /\ n \in ChatQueries /\ AllSound(n)
      /\ n.messages = c.messages /\ n.pending = c.pending
  BY RowMutationIs
<1>2. queries' = n
  OBVIOUS
<1>3. /\ queries' \in ChatQueries /\ AllSound(queries')
      /\ queries'.messages = c.messages /\ queries'.pending = c.pending
  BY ONLY <1>1, <1>2
<1>4. /\ chatRequests' \subseteq ChatRequest /\ IsFiniteSet(chatRequests')
      /\ \A t : (Sending(t) => Sending(t)') /\ (Stopping(t) => Stopping(t)')
      /\ Editing'
      /\ \A q \in chatRequests' : q.kind = "send" => q \in chatRequests
  BY RequestSent
<1>5. \A t \in Sessions : MessageStays(t) /\ PillStays(t)
  BY <1>3, <1>4 DEF MessageStays, PillStays
<1>6. RowsStay
  BY <1>4 DEF RowsStay
<1>7. SendsFresh'
  BY <1>4, SendsSame DEF ChatInv
<1>8. creating' \in Creation \cup {None}
  BY DEF ChatInv, ChatBase, ChatTypeOK
<1> QED
  BY <1>3, <1>4, <1>5, <1>6, <1>7, <1>8, ClientKeeps

LEMMA MarkKeeps ==
  ASSUME ChatInv, MarkRead
  PROVE  ChatInv'
<1> PICK s \in Sessions : s = active
  BY DEF MarkRead, ChatInv, ChatBase, ChatTypeOK
<1> DEFINE id == CHOOSE n \in 0..Cardinality(chatRequests) : \A r \in chatRequests : r.id # n
<1>1. id \in Nat
  <2>1. \E n \in 0..Cardinality(chatRequests) : \A r \in chatRequests : r.id # n
    BY FreeId DEF ChatInv, ChatBase, ChatTypeOK
  <2>2. id \in 0..Cardinality(chatRequests)
    BY <2>1
  <2>3. Cardinality(chatRequests) \in Nat
    BY FS_CardinalityType DEF ChatInv
  <2> HIDE DEF id
  <2> QED
    BY <2>2, <2>3
<1>2. queries.rows.data \in Rows \cup {None}
  BY QueriesAre, ChatQueryHas DEF ChatInv, RowsQuery
<1>3. /\ queries' = RowMutation(queries, s, "read")
      /\ chatRequests' = chatRequests \cup {RequestOf("read", s, id, queries.rows.data)}
      /\ UNCHANGED <<conn, wire, ops, chat, active, creating, scenario>>
  BY DEF MarkRead, socketVars
<1> HIDE DEF id
<1> PICK r : r = RequestOf("read", s, id, queries.rows.data)
  OBVIOUS
<1>4. r \in ChatRequest /\ r.kind = "read"
  BY <1>1, <1>2 DEF RequestOf, ChatRequest
<1>5. queries \in ChatQueries /\ AllSound(queries)
  BY QueriesAre DEF ChatInv
<1>6. \A t \in Sessions : /\ Stay(queries.messages[t], queries.messages[t])
                          /\ Stay(queries.pending[t], queries.pending[t])
  BY DEF Stay
<1>7. ops' \in 0..MaxOps /\ ops <= ops' /\ active' \in Sessions \cup {None}
  BY <1>3 DEF ChatInv, ChatBase, ChatTypeOK
<1>8. chatRequests' = chatRequests \cup {r}
  BY <1>3
<1>9. "read" \in {"gone", "read"} /\ r.kind \in {"read", "delete"}
  BY <1>4
<1> QED
  BY <1>3, <1>4, <1>5, <1>6, <1>7, <1>8, <1>9, EditKeeps

LEMMA DeleteKeeps ==
  ASSUME ChatInv, NEW s \in Sessions, ConfirmDelete(s)
  PROVE  ChatInv'
<1>1. /\ ops' \in 0..MaxOps /\ ops' \in Ids /\ ops <= ops' /\ scenario' = scenario
  BY MoveIs DEF ConfirmDelete
<1> PICK a : a = IF active = s THEN None ELSE active
  OBVIOUS
<1>2. queries.rows.data \in Rows \cup {None}
  BY QueriesAre, ChatQueryHas DEF ChatInv, RowsQuery
<1> PICK c : c = Showing(queries, a)
  OBVIOUS
<1> PICK r : r = RequestOf("delete", s, ops', queries.rows.data)
  OBVIOUS
<1>3. /\ active' = a /\ queries' = RowMutation(c, s, "gone")
      /\ chatRequests' = chatRequests \cup {r}
      /\ UNCHANGED <<conn, wire, chat, creating>>
  BY DEF ConfirmDelete
<1>4. r \in ChatRequest /\ r.kind = "delete"
  BY <1>1, <1>2 DEF RequestOf, ChatRequest, Ids
<1>5. /\ c \in ChatQueries /\ AllSound(c)
      /\ \A t \in Sessions : /\ Stay(queries.messages[t], c.messages[t])
                             /\ Stay(queries.pending[t], c.pending[t])
  BY QueriesAre, ShowingIs DEF ChatInv
<1>6. active' \in Sessions \cup {None}
  BY <1>3 DEF ChatInv, ChatBase, ChatTypeOK
<1>7. "gone" \in {"gone", "read"} /\ r.kind \in {"read", "delete"}
  BY <1>4
<1> QED
  BY <1>1, <1>3, <1>4, <1>5, <1>6, <1>7, EditKeeps

-----------------------------------------------------------------------------
(***************************************************************************)
(* Fetches land.                                                           *)
(***************************************************************************)
Landed(c, s, k, d, clean) ==
    OnKeys(c, s, {k}, LAMBDA p : Land([p EXCEPT !.fetch.clean = clean], d))

LEMMA MessagesLanded ==
  ASSUME NEW c \in ChatQueries, AllSound(c), NEW s \in Sessions,
         NEW d \in SUBSET Messages, NEW clean \in BOOLEAN, c.messages[s].fetch # None
  PROVE  LET n == Landed(c, s, "messages", d, clean)
         IN  /\ n \in ChatQueries /\ AllSound(n)
             /\ n.rows = c.rows /\ n.pending = c.pending
             /\ \A t \in Sessions : t # s => n.messages[t] = c.messages[t]
             /\ "messages" \in scenario.follows /\ Sure(n.messages[s])
                   => clean /\ n.messages[s].data = d
             /\ "messages" \notin scenario.follows => n.messages = c.messages
<1> PICK n : n = Landed(c, s, "messages", d, clean)
  OBVIOUS
<1>1. /\ c.messages \in [Sessions -> MessageQuery] /\ c.pending \in [Sessions -> PillQuery]
      /\ c.rows \in RowsQuery
  BY QueriesHave
<1> PICK p \in MessageQuery : p = c.messages[s]
  BY <1>1
<1> PICK q : q = Land([p EXCEPT !.fetch.clean = clean], d)
  OBVIOUS
<1>2. /\ n.messages = (IF "messages" \in scenario.follows
                       THEN [c.messages EXCEPT ![s] = q] ELSE c.messages)
      /\ n.pending = c.pending /\ n.rows = c.rows
      /\ n = [messages |-> n.messages, pending |-> n.pending, rows |-> n.rows]
  BY DEF OnKeys, Landed
<1>3. q \in MessageQuery /\ Sound(q) /\ (Sure(q) => clean /\ q.data = d)
  <2> PICK D : D = SUBSET Messages
    OBVIOUS
  <2>1. /\ p \in Query(D, {"rows"} \X D) /\ d \in D /\ p.fetch # None
        /\ clean \in BOOLEAN
    <3>1. p \in Query(D, {"rows"} \X D)
      BY DEF MessageQuery
    <3>2. d \in D
      OBVIOUS
    <3> QED
      BY <3>1, <3>2
  <2>2. LET r == Land([p EXCEPT !.fetch.clean = clean], d)
        IN  r \in Query(D, {"rows"} \X D) /\ Sound(r) /\ (Sure(r) => clean /\ r.data = d)
    BY ONLY <2>1, LandIs
  <2>3. q \in Query(D, {"rows"} \X D) /\ Sound(q) /\ (Sure(q) => clean /\ q.data = d)
    BY <2>2
  <2> QED
    BY <2>3 DEF MessageQuery
<1>4. /\ n.messages \in [Sessions -> MessageQuery]
      /\ \A t \in Sessions : Sound(n.messages[t])
      /\ \A t \in Sessions : t # s => n.messages[t] = c.messages[t]
      /\ "messages" \in scenario.follows => n.messages[s] = q
  BY <1>1, <1>2, <1>3 DEF AllSound
<1>5. n \in ChatQueries /\ AllSound(n)
  BY <1>1, <1>2, <1>4, QueriesMade DEF AllSound
<1> QED
  BY <1>2, <1>3, <1>4, <1>5

LEMMA PillLanded ==
  ASSUME NEW c \in ChatQueries, AllSound(c), NEW s \in Sessions,
         NEW d \in Pills, NEW clean \in BOOLEAN, c.pending[s].fetch # None
  PROVE  LET n == Landed(c, s, "pending", d, clean)
         IN  /\ n \in ChatQueries /\ AllSound(n)
             /\ n.rows = c.rows /\ n.messages = c.messages
             /\ \A t \in Sessions : t # s => n.pending[t] = c.pending[t]
             /\ "pending" \in scenario.follows /\ Sure(n.pending[s])
                   => clean /\ n.pending[s].data = d
             /\ "pending" \notin scenario.follows => n.pending = c.pending
<1> PICK n : n = Landed(c, s, "pending", d, clean)
  OBVIOUS
<1>1. /\ c.messages \in [Sessions -> MessageQuery] /\ c.pending \in [Sessions -> PillQuery]
      /\ c.rows \in RowsQuery
  BY QueriesHave
<1> PICK p \in PillQuery : p = c.pending[s]
  BY <1>1
<1> PICK q : q = Land([p EXCEPT !.fetch.clean = clean], d)
  OBVIOUS
<1>2. /\ n.pending = (IF "pending" \in scenario.follows
                      THEN [c.pending EXCEPT ![s] = q] ELSE c.pending)
      /\ n.messages = c.messages /\ n.rows = c.rows
      /\ n = [messages |-> n.messages, pending |-> n.pending, rows |-> n.rows]
  BY DEF OnKeys, Landed
<1>3. q \in PillQuery /\ Sound(q) /\ (Sure(q) => clean /\ q.data = d)
  BY <1>1, LandIs DEF PillQuery
<1>4. /\ n.pending \in [Sessions -> PillQuery]
      /\ \A t \in Sessions : Sound(n.pending[t])
      /\ \A t \in Sessions : t # s => n.pending[t] = c.pending[t]
      /\ "pending" \in scenario.follows => n.pending[s] = q
  BY <1>1, <1>2, <1>3 DEF AllSound
<1>5. n \in ChatQueries /\ AllSound(n)
  BY <1>1, <1>2, <1>4, QueriesMade DEF AllSound
<1> QED
  BY <1>2, <1>3, <1>4, <1>5

LEMMA RowsLanded ==
  ASSUME NEW c \in ChatQueries, AllSound(c), NEW s \in Sessions,
         NEW d \in Rows, NEW clean \in BOOLEAN, c.rows.fetch # None
  PROVE  LET n == Landed(c, s, "rows", d, clean)
         IN  /\ n \in ChatQueries /\ AllSound(n)
             /\ n.messages = c.messages /\ n.pending = c.pending
             /\ "rows" \in scenario.follows /\ Sure(n.rows) => clean /\ n.rows.data = d
<1> PICK n : n = Landed(c, s, "rows", d, clean)
  OBVIOUS
<1>1. /\ c.messages \in [Sessions -> MessageQuery] /\ c.pending \in [Sessions -> PillQuery]
      /\ c.rows \in RowsQuery
  BY QueriesHave
<1> PICK p : p = c.rows
  OBVIOUS
<1> PICK q : q = Land([p EXCEPT !.fetch.clean = clean], d)
  OBVIOUS
<1>2. /\ n.messages = c.messages /\ n.pending = c.pending
      /\ n.rows = IF "rows" \in scenario.follows THEN q ELSE c.rows
      /\ n = [messages |-> n.messages, pending |-> n.pending, rows |-> n.rows]
  BY DEF OnKeys, Landed
<1>3. q \in RowsQuery /\ Sound(q) /\ (Sure(q) => clean /\ q.data = d)
  BY <1>1, LandIs DEF RowsQuery
<1>5. n \in ChatQueries /\ AllSound(n)
  BY <1>1, <1>2, <1>3, QueriesMade DEF AllSound
<1> QED
  BY <1>2, <1>3, <1>5

\* What lands was an answer of the server, and is clean only as the server's.
LEMMA AnswerHas ==
  ASSUME NEW Data, NEW q \in Query(Data, {"rows"} \X Data), q.fetch # None,
         NEW a \in q.fetch.answers
  PROVE  a[2] \in Data
<1>1. a \in {"rows"} \X Data
  BY ChatQueryHas
<1> QED
  BY <1>1

LEMMA ChatLandKeeps ==
  ASSUME ChatInv, NEW s \in Sessions, LandChat(s)
  PROVE  ChatInv'
<1>1. UNCHANGED <<conn, wire, ops, chat, active, creating, chatRequests, scenario>>
  BY DEF LandChat, socketVars
<1>2. /\ queries \in ChatQueries /\ AllSound(queries)
      /\ queries.messages[s] \in MessageQuery /\ queries.pending[s] \in PillQuery
      /\ queries.rows \in RowsQuery
  BY QueriesAre DEF ChatInv
<1>3. /\ chat[s].messages \in SUBSET Messages /\ ServerPill(s) \in Pills
      /\ SessionRows(chat) \in Rows
      /\ Served(s)["messages"] = chat[s].messages /\ Served(s)["pending"] = ServerPill(s)
      /\ Served(s)["rows"] = SessionRows(chat)
  BY ServedHas DEF ChatInv
<1>4. /\ chatRequests' \subseteq ChatRequest /\ IsFiniteSet(chatRequests')
      /\ \A t : (Sending(t) => Sending(t)') /\ (Stopping(t) => Stopping(t)')
      /\ Editing => Editing'
      /\ \A r \in chatRequests' : r.kind = "send" => r \in chatRequests
  BY <1>1, RequestsSame
<1>5. ops' \in 0..MaxOps /\ ops <= ops' /\ ops' \in Int
  BY <1>1 DEF ChatInv, ChatBase
<1>6. SendsFresh'
  BY <1>1, <1>4, <1>5, SendsSame DEF ChatInv
<1>7. active' \in Sessions \cup {None} /\ creating' \in Creation \cup {None}
  BY <1>1 DEF ChatInv, ChatBase, ChatTypeOK
<1>8. SUFFICES /\ queries' \in ChatQueries /\ AllSound(queries')
               /\ \A t \in Sessions : MessageStays(t) /\ PillStays(t)
               /\ RowsStay
  BY <1>1, <1>4, <1>5, <1>6, <1>7, ClientKeeps
<1>9. ASSUME NEW d \in SUBSET Messages, NEW clean \in BOOLEAN,
             queries.messages[s].fetch # None, clean => d = chat[s].messages,
             queries' = Landed(queries, s, "messages", d, clean)
      PROVE  /\ queries' \in ChatQueries /\ AllSound(queries')
             /\ \A t \in Sessions : MessageStays(t) /\ PillStays(t)
             /\ RowsStay
  <2> PICK n : n = Landed(queries, s, "messages", d, clean)
    OBVIOUS
  <2>1. /\ n \in ChatQueries /\ AllSound(n)
        /\ n.rows = queries.rows /\ n.pending = queries.pending
        /\ \A t \in Sessions : t # s => n.messages[t] = queries.messages[t]
        /\ "messages" \in scenario.follows /\ Sure(n.messages[s])
              => clean /\ n.messages[s].data = d
    BY <1>2, <1>9, MessagesLanded
  <2>2. queries' = n
    BY <1>9
  <2>3. /\ queries' \in ChatQueries /\ AllSound(queries')
        /\ queries'.rows = queries.rows /\ queries'.pending = queries.pending
        /\ \A t \in Sessions : t # s => queries'.messages[t] = queries.messages[t]
        /\ "messages" \in scenario.follows /\ Sure(queries'.messages[s])
              => queries'.messages[s].data = chat[s].messages
    BY ONLY <1>9, <2>1, <2>2
  <2>4. ASSUME NEW t \in Sessions
        PROVE  MessageStays(t) /\ PillStays(t)
    BY <1>4, <2>3 DEF MessageStays, PillStays, Stay
  <2>5. RowsStay
    <3>1. Stay(queries.rows, queries'.rows) \/ ~ Sure(queries'.rows)
      BY <2>3 DEF Stay
    <3> QED
      BY <1>1, <1>4, <3>1 DEF RowsStay
  <2> QED
    BY <2>3, <2>4, <2>5
<1>10. ASSUME NEW d \in Pills, NEW clean \in BOOLEAN,
              queries.pending[s].fetch # None, clean => d = ServerPill(s),
              queries' = Landed(queries, s, "pending", d, clean)
       PROVE  /\ queries' \in ChatQueries /\ AllSound(queries')
              /\ \A t \in Sessions : MessageStays(t) /\ PillStays(t)
              /\ RowsStay
  <2> PICK n : n = Landed(queries, s, "pending", d, clean)
    OBVIOUS
  <2>1. /\ n \in ChatQueries /\ AllSound(n)
        /\ n.rows = queries.rows /\ n.messages = queries.messages
        /\ \A t \in Sessions : t # s => n.pending[t] = queries.pending[t]
        /\ "pending" \in scenario.follows /\ Sure(n.pending[s])
              => clean /\ n.pending[s].data = d
    BY <1>2, <1>10, PillLanded
  <2>2. queries' = n
    BY <1>10
  <2>3. /\ queries' \in ChatQueries /\ AllSound(queries')
        /\ queries'.rows = queries.rows /\ queries'.messages = queries.messages
        /\ \A t \in Sessions : t # s => queries'.pending[t] = queries.pending[t]
        /\ "pending" \in scenario.follows /\ Sure(queries'.pending[s])
              => queries'.pending[s].data = ServerPill(s)
    BY ONLY <1>10, <2>1, <2>2
  <2>4. ASSUME NEW t \in Sessions
        PROVE  MessageStays(t) /\ PillStays(t)
    BY <1>4, <2>3 DEF MessageStays, PillStays, Stay
  <2>5. RowsStay
    <3>1. Stay(queries.rows, queries'.rows) \/ ~ Sure(queries'.rows)
      BY <2>3 DEF Stay
    <3> QED
      BY <1>1, <1>4, <3>1 DEF RowsStay
  <2> QED
    BY <2>3, <2>4, <2>5
<1>11. ASSUME NEW d \in Rows, NEW clean \in BOOLEAN, queries.rows.fetch # None,
              clean => d = SessionRows(chat)
                       /\ \A t : ~ Hears(wire, {"read"}, t) /\ ~ Hears(wire, {"deleted"}, t),
              queries' = Landed(queries, s, "rows", d, clean)
       PROVE  /\ queries' \in ChatQueries /\ AllSound(queries')
              /\ \A t \in Sessions : MessageStays(t) /\ PillStays(t)
              /\ RowsStay
  <2> PICK n : n = Landed(queries, s, "rows", d, clean)
    OBVIOUS
  <2>1. /\ n \in ChatQueries /\ AllSound(n)
        /\ n.messages = queries.messages /\ n.pending = queries.pending
        /\ "rows" \in scenario.follows /\ Sure(n.rows) => clean /\ n.rows.data = d
    BY <1>2, <1>11, RowsLanded
  <2>2. queries' = n
    BY <1>11
  <2>3. /\ queries' \in ChatQueries /\ AllSound(queries')
        /\ queries'.messages = queries.messages /\ queries'.pending = queries.pending
        /\ "rows" \in scenario.follows /\ Sure(queries'.rows)
              => clean /\ queries'.rows.data = d
    BY ONLY <2>1, <2>2
  <2>4. ASSUME NEW t \in Sessions
        PROVE  MessageStays(t) /\ PillStays(t)
    BY <1>4, <2>3 DEF MessageStays, PillStays, Stay
  <2>5. RowsStay
    BY <1>11, <2>3 DEF RowsStay, Marked
  <2> QED
    BY <2>3, <2>4, <2>5
<1> DEFINE marked == \E i \in DOMAIN wire : wire[i].type \in {"read", "deleted"}
<1>12. ~ marked => \A t : ~ Hears(wire, {"read"}, t) /\ ~ Hears(wire, {"deleted"}, t)
  <2>1. DOMAIN wire = 1..Len(wire)
    BY DEF ChatInv, ChatBase
  <2> QED
    BY <2>1 DEF Hears
<1> PICK k \in {"messages", "pending", "rows"} :
       LET q == IF k = "rows" THEN queries.rows ELSE queries[k][s]
       IN  /\ q.fetch # None
           /\ \/ queries' = Landed(queries, s, k, Served(s)[k], k # "rows" \/ ~ marked)
              \/ \E a \in q.fetch.answers : queries' = Landed(queries, s, k, a[2], FALSE)
  BY DEF LandChat, Landed
<1> HIDE DEF marked
<1>13. CASE k = "messages"
  <2>1. queries.messages[s].fetch # None
    BY <1>13
  <2>2. CASE queries' = Landed(queries, s, k, Served(s)[k], k # "rows" \/ ~ marked)
    <3>1. queries' = Landed(queries, s, "messages", chat[s].messages, TRUE)
      BY <1>3, <1>13, <2>2
    <3> QED
      BY <1>3, <1>9, <2>1, <3>1
  <2>3. ASSUME NEW a \in queries.messages[s].fetch.answers,
               queries' = Landed(queries, s, k, a[2], FALSE)
        PROVE  /\ queries' \in ChatQueries /\ AllSound(queries')
               /\ \A t \in Sessions : MessageStays(t) /\ PillStays(t)
               /\ RowsStay
    <3>1. a[2] \in SUBSET Messages
      BY <1>2, <2>1, <2>3, AnswerHas DEF MessageQuery
    <3> QED
      BY <1>9, <1>13, <2>1, <2>3, <3>1
  <2> QED
    BY <1>13, <2>2, <2>3
<1>14. CASE k = "pending"
  <2>1. queries.pending[s].fetch # None
    BY <1>14
  <2>2. CASE queries' = Landed(queries, s, k, Served(s)[k], k # "rows" \/ ~ marked)
    <3>1. queries' = Landed(queries, s, "pending", ServerPill(s), TRUE)
      BY <1>3, <1>14, <2>2
    <3> QED
      BY <1>3, <1>10, <2>1, <3>1
  <2>3. ASSUME NEW a \in queries.pending[s].fetch.answers,
               queries' = Landed(queries, s, k, a[2], FALSE)
        PROVE  /\ queries' \in ChatQueries /\ AllSound(queries')
               /\ \A t \in Sessions : MessageStays(t) /\ PillStays(t)
               /\ RowsStay
    <3>1. a[2] \in Pills
      BY <1>2, <2>1, <2>3, AnswerHas DEF PillQuery
    <3> QED
      BY <1>10, <1>14, <2>1, <2>3, <3>1
  <2> QED
    BY <1>14, <2>2, <2>3
<1>15. CASE k = "rows"
  <2>1. queries.rows.fetch # None
    BY <1>15
  <2>2. CASE queries' = Landed(queries, s, k, Served(s)[k], k # "rows" \/ ~ marked)
    <3>1. queries' = Landed(queries, s, "rows", SessionRows(chat), ~ marked)
      BY <1>3, <1>15, <2>2
    <3> QED
      BY <1>3, <1>11, <1>12, <2>1, <3>1
  <2>3. ASSUME NEW a \in queries.rows.fetch.answers,
               queries' = Landed(queries, s, k, a[2], FALSE)
        PROVE  /\ queries' \in ChatQueries /\ AllSound(queries')
               /\ \A t \in Sessions : MessageStays(t) /\ PillStays(t)
               /\ RowsStay
    <3>1. a[2] \in Rows
      BY <1>2, <2>1, <2>3, AnswerHas DEF RowsQuery
    <3> QED
      BY <1>11, <1>15, <2>1, <2>3, <3>1
  <2> QED
    BY <1>15, <2>2, <2>3
<1> QED
  BY <1>13, <1>14, <1>15

-----------------------------------------------------------------------------
(***************************************************************************)
(* Queries that are put in the place of others.                            *)
(***************************************************************************)
PutMessages(c, s, q) ==
    [messages |-> IF "messages" \in scenario.follows THEN [c.messages EXCEPT ![s] = q]
                  ELSE c.messages,
     pending |-> c.pending, rows |-> c.rows]

PutPill(c, s, q) ==
    [messages |-> c.messages,
     pending |-> IF "pending" \in scenario.follows THEN [c.pending EXCEPT ![s] = q]
                 ELSE c.pending,
     rows |-> c.rows]

PutRows(c, q) ==
    [messages |-> c.messages, pending |-> c.pending,
     rows |-> IF "rows" \in scenario.follows THEN q ELSE c.rows]

LEMMA MessagesPut ==
  ASSUME NEW c \in ChatQueries, AllSound(c), NEW s \in Sessions,
         NEW q \in MessageQuery, Sound(q)
  PROVE  LET n == PutMessages(c, s, q)
         IN  /\ n \in ChatQueries /\ AllSound(n)
             /\ n.rows = c.rows /\ n.pending = c.pending
             /\ \A t \in Sessions : t # s => n.messages[t] = c.messages[t]
             /\ "messages" \in scenario.follows => n.messages[s] = q
<1> PICK n : n = PutMessages(c, s, q)
  OBVIOUS
<1>1. /\ c.messages \in [Sessions -> MessageQuery] /\ c.pending \in [Sessions -> PillQuery]
      /\ c.rows \in RowsQuery
  BY QueriesHave
<1>2. /\ n.messages = (IF "messages" \in scenario.follows
                       THEN [c.messages EXCEPT ![s] = q] ELSE c.messages)
      /\ n.pending = c.pending /\ n.rows = c.rows
      /\ n = [messages |-> n.messages, pending |-> n.pending, rows |-> n.rows]
  BY DEF PutMessages
<1>3. /\ n.messages \in [Sessions -> MessageQuery]
      /\ \A t \in Sessions : Sound(n.messages[t])
      /\ \A t \in Sessions : t # s => n.messages[t] = c.messages[t]
      /\ "messages" \in scenario.follows => n.messages[s] = q
  BY <1>1, <1>2 DEF AllSound
<1>4. n \in ChatQueries /\ AllSound(n)
  BY <1>1, <1>2, <1>3, QueriesMade DEF AllSound
<1> QED
  BY <1>2, <1>3, <1>4

LEMMA PillPut ==
  ASSUME NEW c \in ChatQueries, AllSound(c), NEW s \in Sessions,
         NEW q \in PillQuery, Sound(q)
  PROVE  LET n == PutPill(c, s, q)
         IN  /\ n \in ChatQueries /\ AllSound(n)
             /\ n.rows = c.rows /\ n.messages = c.messages
             /\ \A t \in Sessions : t # s => n.pending[t] = c.pending[t]
             /\ "pending" \in scenario.follows => n.pending[s] = q
<1> PICK n : n = PutPill(c, s, q)
  OBVIOUS
<1>1. /\ c.messages \in [Sessions -> MessageQuery] /\ c.pending \in [Sessions -> PillQuery]
      /\ c.rows \in RowsQuery
  BY QueriesHave
<1>2. /\ n.pending = (IF "pending" \in scenario.follows
                      THEN [c.pending EXCEPT ![s] = q] ELSE c.pending)
      /\ n.messages = c.messages /\ n.rows = c.rows
      /\ n = [messages |-> n.messages, pending |-> n.pending, rows |-> n.rows]
  BY DEF PutPill
<1>3. /\ n.pending \in [Sessions -> PillQuery]
      /\ \A t \in Sessions : Sound(n.pending[t])
      /\ \A t \in Sessions : t # s => n.pending[t] = c.pending[t]
      /\ "pending" \in scenario.follows => n.pending[s] = q
  BY <1>1, <1>2 DEF AllSound
<1>4. n \in ChatQueries /\ AllSound(n)
  BY <1>1, <1>2, <1>3, QueriesMade DEF AllSound
<1> QED
  BY <1>2, <1>3, <1>4

LEMMA RowsPut ==
  ASSUME NEW c \in ChatQueries, AllSound(c), NEW q \in RowsQuery, Sound(q)
  PROVE  LET n == PutRows(c, q)
         IN  /\ n \in ChatQueries /\ AllSound(n)
             /\ n.messages = c.messages /\ n.pending = c.pending
             /\ "rows" \in scenario.follows => n.rows = q
<1> PICK n : n = PutRows(c, q)
  OBVIOUS
<1>1. /\ c.messages \in [Sessions -> MessageQuery] /\ c.pending \in [Sessions -> PillQuery]
      /\ c.rows \in RowsQuery
  BY QueriesHave
<1>2. /\ n.messages = c.messages /\ n.pending = c.pending
      /\ n.rows = (IF "rows" \in scenario.follows THEN q ELSE c.rows)
      /\ n = [messages |-> n.messages, pending |-> n.pending, rows |-> n.rows]
  BY DEF PutRows
<1>3. n \in ChatQueries /\ AllSound(n)
  BY <1>1, <1>2, QueriesMade DEF AllSound
<1> QED
  BY <1>2, <1>3

-----------------------------------------------------------------------------
(***************************************************************************)
(* The answers to what the user did.                                       *)
(***************************************************************************)
\* A request is over.
LEMMA RequestGone ==
  ASSUME ChatInv, chat' = chat, NEW r \in chatRequests, chatRequests' = chatRequests \ {r}
  PROVE  /\ chatRequests' \subseteq ChatRequest /\ IsFiniteSet(chatRequests')
         /\ r \in ChatRequest /\ r.session \in Sessions
         /\ \A t : t # r.session \/ r.kind # "send" => (Sending(t) => Sending(t)')
         /\ \A t : \/ t # r.session \/ r.kind # "stop" \/ r.phase = "done"
                   \/ ~ Running(r.session, r.id)
               => (Stopping(t) => Stopping(t)')
         /\ r.kind \in {"send", "stop"} => (Editing => Editing')
         /\ \A q \in chatRequests' : q.kind = "send" => q \in chatRequests
<1>1. r \in ChatRequest /\ chatRequests' \subseteq ChatRequest /\ IsFiniteSet(chatRequests')
  BY FS_RemoveElement DEF ChatInv, ChatBase, ChatTypeOK
<1>2. r.session \in Sessions
  BY <1>1 DEF ChatRequest
<1>3. \A q \in chatRequests : q = r \/ q \in chatRequests'
  OBVIOUS
<1>4. ASSUME NEW t, t # r.session \/ r.kind # "send", Sending(t)
      PROVE  Sending(t)'
  <2> PICK q \in chatRequests : q.kind = "send" /\ q.session = t
    BY <1>4 DEF Sending
  <2>1. q \in chatRequests'
    BY <1>3, <1>4
  <2> QED
    BY <2>1 DEF Sending
<1>5. ASSUME NEW t, \/ t # r.session \/ r.kind # "stop" \/ r.phase = "done"
                    \/ ~ Running(r.session, r.id),
             Stopping(t)
      PROVE  Stopping(t)'
  <2> PICK q \in chatRequests : /\ q.kind = "stop" /\ q.session = t /\ q.phase # "done"
                                /\ Running(t, q.id)
    BY <1>5 DEF Stopping
  <2>1. q \in chatRequests'
    BY <1>3, <1>5
  <2>2. Running(t, q.id)'
    BY DEF Running
  <2> QED
    BY <2>1, <2>2 DEF Stopping
<1>6. r.kind \in {"send", "stop"} => (Editing => Editing')
  BY <1>3 DEF Editing
<1> QED
  BY <1>1, <1>2, <1>4, <1>5, <1>6

\* What RequestSucceeds and RequestFails have in common.
LEMMA OverKeeps ==
  ASSUME ChatInv, NEW r \in chatRequests, chatRequests' = chatRequests \ {r},
         UNCHANGED <<conn, wire, chat, active, creating, scenario>>,
         ops' \in 0..MaxOps, ops <= ops', queries' \in ChatQueries, AllSound(queries'),
         \A t \in Sessions : t # r.session =>
            /\ queries'.messages[t] = queries.messages[t]
            /\ queries'.pending[t] = queries.pending[t],
         MessageStays(r.session), PillStays(r.session),
         \/ "rows" \in scenario.follows => ~ Sure(queries'.rows)
         \/ queries'.rows = queries.rows /\ r.kind \in {"send", "stop"}
  PROVE  ChatInv'
<1>1. /\ chatRequests' \subseteq ChatRequest /\ IsFiniteSet(chatRequests')
      /\ \A t : t # r.session => (Sending(t) => Sending(t)')
      /\ \A t : t # r.session => (Stopping(t) => Stopping(t)')
      /\ r.kind \in {"send", "stop"} => (Editing => Editing')
      /\ \A q \in chatRequests' : q.kind = "send" => q \in chatRequests
  BY RequestGone
<1>2. \A t \in Sessions : MessageStays(t) /\ PillStays(t)
  <2> SUFFICES ASSUME NEW t \in Sessions
               PROVE  MessageStays(t) /\ PillStays(t)
    OBVIOUS
  <2>1. CASE t = r.session
    BY <2>1
  <2>2. CASE t # r.session
    BY <1>1, <2>2 DEF MessageStays, PillStays, Stay
  <2> QED
    BY <2>1, <2>2
<1>3. RowsStay
  BY <1>1 DEF RowsStay, Stay
<1>4. SendsFresh'
  BY <1>1, SendsSame DEF ChatInv
<1>5. active' \in Sessions \cup {None} /\ creating' \in Creation \cup {None}
  BY DEF ChatInv, ChatBase, ChatTypeOK
<1> QED
  BY <1>1, <1>2, <1>3, <1>4, <1>5, ClientKeeps

\* The pill when the answer to a message arrives.
Answered(c, s, id) ==
    OnKeys(c, s, {"pending"},
           LAMBDA q : IF ServerPill(s) = {<<id, "queued">>} THEN Write(q, {<<id, "queued">>})
                      ELSE Uncertain(Write(q, {<<id, "queued">>}), "late"))

LEMMA SucceedKeeps ==
  ASSUME ChatInv, NEW r \in chatRequests, RequestSucceeds(r)
  PROVE  ChatInv'
<1> PICK s : s = r.session
  OBVIOUS
<1>1. /\ r.phase = "done" /\ chatRequests' = chatRequests \ {r}
      /\ UNCHANGED <<conn, wire, ops, chat, active, creating, scenario>>
  BY DEF RequestSucceeds, socketVars
<1>2. /\ r \in ChatRequest /\ s \in Sessions
      /\ r.kind # "send" => (Sending(s) => Sending(s)')
      /\ Stopping(s) => Stopping(s)'
  BY <1>1, RequestGone
<1>3. ops' \in 0..MaxOps /\ ops <= ops'
  BY <1>1 DEF ChatInv, ChatBase
<1>4. queries \in ChatQueries /\ AllSound(queries)
  BY QueriesAre DEF ChatInv
<1>5. CASE r.kind = "send"
  <2> PICK id : id = r.id
    OBVIOUS
  <2>0. id \in Ids
    BY <1>5, ChatAssumption DEF ChatInv, SendsFresh, ChatBase, Ids
  <2> DEFINE d == {<<id, "queued">>}
  <2>9. d \in Pills
    BY <2>0 DEF Pills
  <2> HIDE DEF d
  <2> PICK q \in PillQuery : q = queries.pending[s] /\ Sound(q)
    BY <1>2, QueriesAre DEF ChatInv
  <2> PICK p : p = Write(q, d)
    OBVIOUS
  <2> PICK k : k = IF ServerPill(s) = d THEN p ELSE Uncertain(p, "late")
    OBVIOUS
  <2>1. p \in PillQuery /\ Sound(p) /\ p.data = d
    BY <2>9, WriteIs DEF PillQuery
  <2>2. k \in PillQuery /\ Sound(k) /\ (Sure(k) => k.data = ServerPill(s))
    <3>1. CASE ServerPill(s) = d
      BY <2>1, <3>1
    <3>2. CASE ServerPill(s) # d
      <4>1. "late" \in Doubts
        BY DEF Doubts
      <4> QED
        BY <2>1, <3>2, <4>1, UncertainIs DEF PillQuery
    <3> QED
      BY <3>1, <3>2
  <2> PICK c : c = PutPill(queries, s, k)
    OBVIOUS
  <2>3. /\ c \in ChatQueries /\ AllSound(c)
        /\ c.rows = queries.rows /\ c.messages = queries.messages
        /\ \A t \in Sessions : t # s => c.pending[t] = queries.pending[t]
        /\ "pending" \in scenario.follows => c.pending[s] = k
    BY <1>2, <1>4, <2>2, PillPut
  <2>4. queries' = OnKeys(c, s, {"messages"}, Invalidate)
    <3>1. queries' = SendAnswered(queries, s, id)
      BY <1>5 DEF RequestSucceeds
    <3>2. SendAnswered(queries, s, id)
             = OnKeys(Answered(queries, s, id), s, {"messages"}, Invalidate)
      BY DEF SendAnswered, Answered
    <3>3. Answered(queries, s, id) = c
      BY DEF Answered, OnKeys, PutPill, d
    <3> QED
      BY <3>1, <3>2, <3>3
  <2>9a. PICK n : n = OnKeys(c, s, {"messages"}, Invalidate)
    OBVIOUS
  <2>10. /\ n \in ChatQueries /\ AllSound(n)
         /\ n.rows = c.rows /\ n.pending = c.pending
         /\ \A t \in Sessions : t # s => n.messages[t] = c.messages[t]
         /\ "messages" \in scenario.follows => ~ Sure(n.messages[s])
    BY ONLY <1>2, <2>3, <2>9a, MessagesInvalidated
  <2>11. queries' = n
    BY <2>4, <2>9a
  <2>5. /\ queries' \in ChatQueries /\ AllSound(queries')
        /\ queries'.rows = c.rows /\ queries'.pending = c.pending
        /\ \A t \in Sessions : t # s => queries'.messages[t] = c.messages[t]
        /\ "messages" \in scenario.follows => ~ Sure(queries'.messages[s])
    BY ONLY <2>10, <2>11
  <2>6. MessageStays(s)
    BY ONLY <2>5 DEF MessageStays
  <2>7. PillStays(s)
    <3>1. "pending" \in scenario.follows =>
             ~ Sure(queries'.pending[s]) \/ queries'.pending[s].data = ServerPill(s)
      BY ONLY <2>2, <2>3, <2>5
    <3> QED
      BY ONLY <3>1 DEF PillStays
  <2>8. /\ queries'.rows = queries.rows
        /\ \A t \in Sessions : t # s =>
              /\ queries'.messages[t] = queries.messages[t]
              /\ queries'.pending[t] = queries.pending[t]
    BY ONLY <2>3, <2>5
  <2> QED
    BY <1>1, <1>3, <1>5, <2>5, <2>6, <2>7, <2>8, OverKeeps
<1>6. CASE r.kind = "stop"
  <2>1. queries' = queries
    BY <1>6 DEF RequestSucceeds
  <2>2. MessageStays(s) /\ PillStays(s)
    BY <1>2, <1>6, <2>1 DEF MessageStays, PillStays, Stay
  <2>3. AllSound(queries')
    BY <1>4, <2>1
  <2> QED
    BY <1>1, <1>3, <1>4, <1>6, <2>1, <2>2, <2>3, OverKeeps
<1>7. CASE r.kind \in {"read", "delete"}
  <2>1. queries' = OnRows(queries, Invalidate)
    BY <1>7 DEF RequestSucceeds
  <2>2. /\ queries' \in ChatQueries /\ AllSound(queries')
        /\ queries'.messages = queries.messages /\ queries'.pending = queries.pending
        /\ "rows" \in scenario.follows => ~ Sure(queries'.rows)
    BY <1>4, <2>1, RowsInvalidated
  <2>3. MessageStays(s) /\ PillStays(s)
    BY <1>2, <1>7, <2>2 DEF MessageStays, PillStays, Stay
  <2> QED
    BY <1>1, <1>3, <2>2, <2>3, OverKeeps
<1> QED
  BY <1>2, <1>5, <1>6, <1>7 DEF ChatRequest

\* The list as it was before a mutation, with a fetch to come.
LEMMA RolledBack ==
  ASSUME NEW q \in RowsQuery, Sound(q), NEW d \in Rows \cup {None}
  PROVE  LET n == Invalidate(Write(q, d))
         IN  n \in RowsQuery /\ Sound(n) /\ ~ Sure(n)
<1> PICK p : p = Write(q, d)
  OBVIOUS
<1>1. p \in RowsQuery /\ Sound(p)
  <2>1. CASE d \in Rows
    BY <2>1, WriteIs DEF RowsQuery
  <2>2. CASE d = None
    <3>1. p \in RowsQuery
      BY <2>2 DEF RowsQuery, Query, Write, Doubts
    <3>2. p.stale = FALSE /\ p.owed = FALSE
      BY DEF Write, RowsQuery, Query
    <3> QED
      BY <3>1, <3>2 DEF Sound
  <2> QED
    BY <2>1, <2>2
<1> PICK n : n = Invalidate(p)
  OBVIOUS
<1>2. n \in RowsQuery /\ Sound(n) /\ ~ Sure(n)
  BY <1>1, InvalidateIs, ChatApart DEF RowsQuery
<1> QED
  BY <1>2

LEMMA FailKeeps ==
  ASSUME ChatInv, NEW r \in chatRequests, RequestFails(r)
  PROVE  ChatInv'
<1> PICK s : s = r.session
  OBVIOUS
<1>1. /\ chatRequests' = chatRequests \ {r}
      /\ UNCHANGED <<conn, wire, chat, active, creating>>
  BY DEF RequestFails
<1>2. /\ r \in ChatRequest /\ s \in Sessions
      /\ r.kind # "send" => (Sending(s) => Sending(s)')
      /\ r.kind # "stop" \/ ~ Running(s, r.id) => (Stopping(s) => Stopping(s)')
  BY <1>1, RequestGone
<1>3. ops' \in 0..MaxOps /\ ops <= ops' /\ scenario' = scenario
  <2>1. CASE r.phase = "refused"
    BY <2>1 DEF ChatInv, ChatBase, RequestFails
  <2>2. CASE r.phase # "refused"
    BY <2>2, MoveIs DEF RequestFails
  <2> QED
    BY <2>1, <2>2
<1>4. /\ queries \in ChatQueries /\ AllSound(queries)
      /\ queries.messages[s] \in MessageQuery /\ Sound(queries.messages[s])
      /\ queries.pending[s] \in PillQuery /\ Sound(queries.pending[s])
      /\ queries.rows \in RowsQuery /\ Sound(queries.rows)
  BY <1>2, QueriesAre DEF ChatInv
<1>5. "unsent" \in Doubts /\ "unstopped" \in Doubts
  BY DEF Doubts
<1>6. CASE r.kind = "send"
  <2> PICK m, p : /\ m = Uncertain(queries.messages[s], "unsent")
                  /\ p = Uncertain(queries.pending[s], "unsent")
    OBVIOUS
  <2>1. m \in MessageQuery /\ Sound(m) /\ ~ Sure(m)
    BY <1>4, <1>5, UncertainIs DEF MessageQuery
  <2>2. p \in PillQuery /\ Sound(p) /\ ~ Sure(p)
    BY <1>4, <1>5, UncertainIs DEF PillQuery
  <2> PICK c : c = PutMessages(queries, s, m)
    OBVIOUS
  <2>3. /\ c \in ChatQueries /\ AllSound(c)
        /\ c.rows = queries.rows /\ c.pending = queries.pending
        /\ \A t \in Sessions : t # s => c.messages[t] = queries.messages[t]
        /\ "messages" \in scenario.follows => c.messages[s] = m
    BY <1>2, <1>4, <2>1, MessagesPut
  <2> PICK n : n = PutPill(c, s, p)
    OBVIOUS
  <2>4. /\ n \in ChatQueries /\ AllSound(n)
        /\ n.rows = c.rows /\ n.messages = c.messages
        /\ \A t \in Sessions : t # s => n.pending[t] = c.pending[t]
        /\ "pending" \in scenario.follows => n.pending[s] = p
    BY <1>2, <2>2, <2>3, PillPut
  <2>5. queries' = n
    <3>1. queries' = OnKeys(queries, s, {"messages", "pending"},
                            LAMBDA q : Uncertain(q, "unsent"))
      BY <1>6 DEF RequestFails
    <3>2. OnKeys(queries, s, {"messages", "pending"}, LAMBDA q : Uncertain(q, "unsent")) = n
      BY DEF OnKeys, PutMessages, PutPill
    <3> QED
      BY <3>1, <3>2
  <2>6. MessageStays(s) /\ PillStays(s)
    <3>1. "messages" \in scenario.follows => ~ Sure(queries'.messages[s])
      BY ONLY <2>1, <2>3, <2>4, <2>5
    <3>2. "pending" \in scenario.follows => ~ Sure(queries'.pending[s])
      BY ONLY <2>2, <2>4, <2>5
    <3> QED
      BY ONLY <3>1, <3>2 DEF MessageStays, PillStays
  <2>7. /\ queries'.rows = queries.rows /\ queries' \in ChatQueries /\ AllSound(queries')
        /\ \A t \in Sessions : t # s =>
              /\ queries'.messages[t] = queries.messages[t]
              /\ queries'.pending[t] = queries.pending[t]
    BY ONLY <2>3, <2>4, <2>5
  <2> QED
    BY <1>1, <1>3, <1>6, <2>6, <2>7, OverKeeps
<1>7. CASE r.kind = "stop"
  <2> PICK q : q = queries.pending[s]
    OBVIOUS
  <2> PICK p : p = IF Running(s, r.id) THEN Uncertain(q, "unstopped") ELSE q
    OBVIOUS
  <2>1. p \in PillQuery /\ Sound(p) /\ (Running(s, r.id) => ~ Sure(p))
    BY <1>4, <1>5, UncertainIs DEF PillQuery
  <2> PICK n : n = PutPill(queries, s, p)
    OBVIOUS
  <2>2. /\ n \in ChatQueries /\ AllSound(n)
        /\ n.rows = queries.rows /\ n.messages = queries.messages
        /\ \A t \in Sessions : t # s => n.pending[t] = queries.pending[t]
        /\ "pending" \in scenario.follows => n.pending[s] = p
    BY <1>2, <1>4, <2>1, PillPut
  <2>3. queries' = n
    <3>1. queries' = OnKeys(queries, s, {"pending"},
             LAMBDA k : IF Running(s, r.id) THEN Uncertain(k, "unstopped") ELSE k)
      BY <1>7 DEF RequestFails
    <3>2. OnKeys(queries, s, {"pending"},
             LAMBDA k : IF Running(s, r.id) THEN Uncertain(k, "unstopped") ELSE k) = n
      BY DEF OnKeys, PutPill
    <3> QED
      BY <3>1, <3>2
  <2>4. MessageStays(s)
    BY <1>2, <1>7, <2>2, <2>3 DEF MessageStays, Stay
  <2>5. PillStays(s)
    <3>1. CASE Running(s, r.id)
      BY <2>1, <2>2, <2>3, <3>1 DEF PillStays
    <3>2. CASE ~ Running(s, r.id)
      BY <1>2, <1>7, <2>2, <2>3, <3>2 DEF PillStays, Stay
    <3> QED
      BY <3>1, <3>2
  <2>6. /\ queries'.rows = queries.rows /\ queries' \in ChatQueries /\ AllSound(queries')
        /\ \A t \in Sessions : t # r.session =>
              /\ queries'.messages[t] = queries.messages[t]
              /\ queries'.pending[t] = queries.pending[t]
    BY <2>2, <2>3
  <2> QED
    BY <1>1, <1>3, <1>7, <2>4, <2>5, <2>6, OverKeeps
<1>8. CASE r.kind \in {"read", "delete"}
  <2>1. r.prev \in Rows \cup {None}
    BY <1>2 DEF ChatRequest
  <2> PICK q : q = Invalidate(Write(queries.rows, r.prev))
    OBVIOUS
  <2>2. q \in RowsQuery /\ Sound(q) /\ ~ Sure(q)
    BY <1>4, <2>1, RolledBack
  <2> PICK n : n = PutRows(queries, q)
    OBVIOUS
  <2>3. /\ n \in ChatQueries /\ AllSound(n)
        /\ n.messages = queries.messages /\ n.pending = queries.pending
        /\ "rows" \in scenario.follows => n.rows = q
    BY <1>4, <2>2, RowsPut
  <2>4. queries' = n
    <3>1. queries' = OnRows(queries, LAMBDA k : Invalidate(Write(k, r.prev)))
      BY <1>8 DEF RequestFails
    <3>2. OnRows(queries, LAMBDA k : Invalidate(Write(k, r.prev))) = n
      BY DEF OnRows, OnKeys, PutRows
    <3> QED
      BY <3>1, <3>2
  <2>5. MessageStays(s) /\ PillStays(s)
    BY <1>2, <1>8, <2>3, <2>4 DEF MessageStays, PillStays, Stay
  <2>6. /\ "rows" \in scenario.follows => ~ Sure(queries'.rows)
        /\ queries' \in ChatQueries /\ AllSound(queries')
        /\ queries'.messages = queries.messages /\ queries'.pending = queries.pending
    BY <2>2, <2>3, <2>4
  <2> QED
    BY <1>1, <1>3, <2>5, <2>6, OverKeeps
<1> QED
  BY <1>2, <1>6, <1>7, <1>8 DEF ChatRequest

-----------------------------------------------------------------------------
(***************************************************************************)
(* The session is created.                                                 *)
(***************************************************************************)
\* The messages that wait for the session that is being created.
Waiting == {w[2] : w \in {x \in creating.waiters : x[1] = "send"}}

LEMMA WaitingIs ==
  ASSUME ChatInv, creating # None
  PROVE  /\ Waiting \subseteq Ids /\ IsFiniteSet(Waiting)
         /\ \A id \in Waiting : /\ id \in 1..ops /\ \A t \in Sessions : Unused(t, id)
<1>1. creating.waiters \subseteq {"send", "upload"} \X Ids
  BY DEF ChatInv, ChatBase, ChatTypeOK, Creation
<1>2. Waiting \subseteq Ids
  BY <1>1 DEF Waiting
<1>3. IsFiniteSet(Ids)
  BY ChatAssumption, FS_Interval DEF Ids
<1>4. IsFiniteSet(Waiting)
  BY <1>2, <1>3, FS_Subset
<1>5. ASSUME NEW id \in Waiting
      PROVE  id \in 1..ops /\ \A t \in Sessions : Unused(t, id)
  <2> PICK w \in creating.waiters : w[1] = "send" /\ w[2] = id
    BY DEF Waiting
  <2>1. id <= ops /\ \A t \in Sessions : Unused(t, id)
    BY DEF ChatInv, SendsFresh
  <2>2. ops \in Nat
    BY ChatAssumption DEF ChatInv, ChatBase
  <2> QED
    BY <1>2, <2>1, <2>2, ChatAssumption DEF Ids
<1> QED
  BY <1>2, <1>4, <1>5

\* A finite set of requests grows by those of a finite set of ids.
LEMMA SendsFinite ==
  ASSUME NEW R, NEW S, NEW s, IsFiniteSet(R), IsFiniteSet(S)
  PROVE  IsFiniteSet(R \cup {RequestOf("send", s, id, None) : id \in S})
<1> DEFINE T == {RequestOf("send", s, id, None) : id \in S}
           f == [id \in S |-> RequestOf("send", s, id, None)]
<1>1. f \in Surjection(S, T)
  BY DEF Surjection
<1>2. IsFiniteSet(T)
  BY <1>1, FS_Surjection
<1> QED
  BY <1>2, FS_Union

LEMMA MessagesWritten ==
  ASSUME NEW q \in MessageQuery, Sound(q), NEW d \in SUBSET Messages
  PROVE  LET n == Write(q, d)
         IN  /\ n \in MessageQuery /\ Sound(n) /\ n.data = d
             /\ Sure(n) /\ q.data # None => Sure(q)
BY WriteIs DEF MessageQuery

\* The seeded messages, and the pill of the last of those who waited.
Seeded(q) ==
    Write(q, (IF q.data = None THEN {} ELSE q.data)
             \cup {<<"optimistic", id>> : id \in Waiting})

LEMMA SeededIs ==
  ASSUME Waiting \subseteq Ids, NEW q \in MessageQuery, Sound(q)
  PROVE  LET m == Seeded(q)
         IN  /\ m \in MessageQuery /\ Sound(m)
             /\ Waiting = {} /\ Sure(m) => m.data = {} \/ (Sure(q) /\ m.data = q.data)
<1> PICK o : o = {<<"optimistic", id>> : id \in Waiting}
  OBVIOUS
<1> PICK d : d = (IF q.data = None THEN {} ELSE q.data) \cup o
  OBVIOUS
<1>1. o \subseteq Messages
  <2>1. \A id \in Ids : <<"optimistic", id>> \in Messages
    BY DEF Messages
  <2> QED
    BY <2>1
<1>2. q.data = None \/ q.data \subseteq Messages
  BY DEF MessageQuery, Query
<1>3. d \in SUBSET Messages
  BY <1>1, <1>2
<1> PICK m : m = Write(q, d)
  OBVIOUS
<1>4. m = Seeded(q)
  BY DEF Seeded
<1>5. /\ m \in MessageQuery /\ Sound(m) /\ m.data = d
      /\ Sure(m) /\ q.data # None => Sure(q)
  <2> HIDE DEF Seeded
  <2>1. LET n == Write(q, d)
        IN  /\ n \in MessageQuery /\ Sound(n) /\ n.data = d
            /\ Sure(n) /\ q.data # None => Sure(q)
    BY ONLY <1>3, MessagesWritten, q \in MessageQuery, Sound(q)
  <2> QED
    BY <2>1
<1>6. Waiting = {} => d = IF q.data = None THEN {} ELSE q.data
  <2>1. Waiting = {} => o = {}
    OBVIOUS
  <2>2. o = {} => d = IF q.data = None THEN {} ELSE q.data
    <3> HIDE DEF Waiting
    <3>1. CASE q.data = None
      BY <3>1
    <3>2. CASE q.data # None
      BY <3>2
    <3> QED
      BY <3>1, <3>2
  <2> QED
    BY <2>1, <2>2
<1> QED
  BY <1>4, <1>5, <1>6

LastWaiting == CHOOSE i \in Waiting : \A j \in Waiting : j <= i

PilledBy(q) == IF Waiting = {} THEN q ELSE Write(q, {<<LastWaiting, "optimistic">>})

LEMMA PilledByIs ==
  ASSUME Waiting \subseteq Ids, NEW q \in PillQuery, Sound(q)
  PROVE  LET p == PilledBy(q)
         IN  /\ p \in PillQuery /\ Sound(p) /\ (Waiting = {} => p = q)
<1>1. CASE Waiting = {}
  BY <1>1 DEF PilledBy
<1>2. CASE Waiting # {}
  <2>1. \E i \in Waiting : \A j \in Waiting : j <= i
    BY <1>2, LastId
  <2>2. LastWaiting \in Waiting
    BY <2>1 DEF LastWaiting
  <2>3. {<<LastWaiting, "optimistic">>} \in Pills
    BY <2>2 DEF Pills
  <2>4. PilledBy(q) = Write(q, {<<LastWaiting, "optimistic">>})
    BY <1>2 DEF PilledBy
  <2> QED
    BY <1>2, <2>3, <2>4, WriteIs DEF PillQuery
<1> QED
  BY <1>1, <1>2

\* What is known of a session that has changed before the answer came.
Late(s, q) == IF chat[s] = NewSession THEN q ELSE Uncertain(q, "late")

LEMMA LateIs ==
  ASSUME NEW Data, NEW Answers, NEW q \in Query(Data, Answers), Sound(q), NEW s
  PROVE  LET n == Late(s, q)
         IN  /\ n \in Query(Data, Answers) /\ Sound(n) /\ Stay(q, n)
             /\ Sure(n) => chat[s] = NewSession
<1>1. CASE chat[s] = NewSession
  BY <1>1 DEF Late, Stay
<1>2. CASE chat[s] # NewSession
  <2>1. "late" \in Doubts
    BY DEF Doubts
  <2>2. Late(s, q) = Uncertain(q, "late")
    BY <1>2 DEF Late
  <2> QED
    BY <2>1, <2>2, UncertainIs DEF Stay
<1> QED
  BY <1>1, <1>2

\* The messages are seeded and the pill is shown.
Seeding(c, s) == OnKeys(OnKeys(c, s, {"messages"}, Seeded), s, {"pending"}, PilledBy)

LEMMA SeedingIs ==
  ASSUME Waiting \subseteq Ids, NEW c \in ChatQueries, AllSound(c), NEW s \in Sessions
  PROVE  LET n == Seeding(c, s)
         IN  /\ n \in ChatQueries /\ AllSound(n) /\ n.rows = c.rows
             /\ \A t \in Sessions : t # s => /\ n.messages[t] = c.messages[t]
                                             /\ n.pending[t] = c.pending[t]
             /\ "messages" \in scenario.follows => n.messages[s] = Seeded(c.messages[s])
             /\ "pending" \in scenario.follows => n.pending[s] = PilledBy(c.pending[s])
<1>1. /\ c.messages[s] \in MessageQuery /\ Sound(c.messages[s])
      /\ c.pending[s] \in PillQuery /\ Sound(c.pending[s])
  BY QueriesHave DEF AllSound
<1> PICK m, p : m = Seeded(c.messages[s]) /\ p = PilledBy(c.pending[s])
  OBVIOUS
<1>2. m \in MessageQuery /\ Sound(m)
  BY <1>1, SeededIs
<1>3. p \in PillQuery /\ Sound(p)
  BY <1>1, PilledByIs
<1> PICK d : d = PutMessages(c, s, m)
  OBVIOUS
<1>4. /\ d \in ChatQueries /\ AllSound(d)
      /\ d.rows = c.rows /\ d.pending = c.pending
      /\ \A t \in Sessions : t # s => d.messages[t] = c.messages[t]
      /\ "messages" \in scenario.follows => d.messages[s] = m
  BY <1>2, MessagesPut
<1> PICK n : n = PutPill(d, s, p)
  OBVIOUS
<1>5. /\ n \in ChatQueries /\ AllSound(n)
      /\ n.rows = d.rows /\ n.messages = d.messages
      /\ \A t \in Sessions : t # s => n.pending[t] = d.pending[t]
      /\ "pending" \in scenario.follows => n.pending[s] = p
  BY <1>3, <1>4, PillPut
<1>6. Seeding(c, s) = n
  BY DEF Seeding, OnKeys, PutMessages, PutPill
<1> QED
  BY <1>4, <1>5, <1>6

\* All that is known of session s may be late.
Lately(c, s) == OnKeys(c, s, {"messages", "pending", "rows"}, LAMBDA q : Late(s, q))

LEMMA LatelyIs ==
  ASSUME NEW c \in ChatQueries, AllSound(c), NEW s \in Sessions
  PROVE  LET n == Lately(c, s)
         IN  /\ n \in ChatQueries /\ AllSound(n) /\ Stay(c.rows, n.rows)
             /\ \A t \in Sessions : /\ Stay(c.messages[t], n.messages[t])
                                    /\ Stay(c.pending[t], n.pending[t])
             /\ "messages" \in scenario.follows /\ Sure(n.messages[s]) => chat[s] = NewSession
<1>1. /\ c.messages[s] \in MessageQuery /\ Sound(c.messages[s])
      /\ c.pending[s] \in PillQuery /\ Sound(c.pending[s])
      /\ c.rows \in RowsQuery /\ Sound(c.rows)
  BY QueriesHave DEF AllSound
<1> PICK m, p, r : /\ m = Late(s, c.messages[s]) /\ p = Late(s, c.pending[s])
                   /\ r = Late(s, c.rows)
  OBVIOUS
<1>2. /\ m \in MessageQuery /\ Sound(m) /\ Stay(c.messages[s], m)
      /\ Sure(m) => chat[s] = NewSession
  BY <1>1, LateIs DEF MessageQuery
<1>3. p \in PillQuery /\ Sound(p) /\ Stay(c.pending[s], p)
  BY <1>1, LateIs DEF PillQuery
<1>4. r \in RowsQuery /\ Sound(r) /\ Stay(c.rows, r)
  BY <1>1, LateIs DEF RowsQuery
<1> PICK d : d = PutMessages(c, s, m)
  OBVIOUS
<1>5. /\ d \in ChatQueries /\ AllSound(d)
      /\ d.rows = c.rows /\ d.pending = c.pending
      /\ \A t \in Sessions : t # s => d.messages[t] = c.messages[t]
      /\ "messages" \in scenario.follows => d.messages[s] = m
  BY <1>2, MessagesPut
<1> PICK e : e = PutPill(d, s, p)
  OBVIOUS
<1>6. /\ e \in ChatQueries /\ AllSound(e)
      /\ e.rows = d.rows /\ e.messages = d.messages
      /\ \A t \in Sessions : t # s => e.pending[t] = d.pending[t]
      /\ "pending" \in scenario.follows => e.pending[s] = p
  BY <1>3, <1>5, PillPut
<1> PICK n : n = PutRows(e, r)
  OBVIOUS
<1>7. /\ n \in ChatQueries /\ AllSound(n)
      /\ n.messages = e.messages /\ n.pending = e.pending
      /\ "rows" \in scenario.follows => n.rows = r
  BY <1>4, <1>6, RowsPut
<1>8. Lately(c, s) = n
  BY DEF Lately, OnKeys, PutMessages, PutPill, PutRows
<1>9. Stay(c.rows, n.rows)
  <2>1. "rows" \notin scenario.follows => n.rows = e.rows
    BY DEF PutRows
  <2> QED
    BY <1>4, <1>5, <1>6, <1>7, <2>1 DEF Stay
<1>10. ASSUME NEW t \in Sessions
       PROVE  Stay(c.messages[t], n.messages[t]) /\ Stay(c.pending[t], n.pending[t])
  <2>1. "messages" \notin scenario.follows => d.messages = c.messages
    BY DEF PutMessages
  <2>2. "pending" \notin scenario.follows => e.pending = d.pending
    BY DEF PutPill
  <2>3. Stay(c.messages[t], n.messages[t])
    BY <1>2, <1>5, <1>6, <1>7, <2>1 DEF Stay
  <2>4. Stay(c.pending[t], n.pending[t])
    BY <1>3, <1>5, <1>6, <1>7, <2>2 DEF Stay
  <2> QED
    BY <2>3, <2>4
<1>11. "messages" \in scenario.follows /\ Sure(n.messages[s]) => chat[s] = NewSession
  <2>1. "messages" \in scenario.follows => n.messages[s] = m
    BY <1>5, <1>6, <1>7
  <2> QED
    BY <1>2, <2>1
<1>12. n \in ChatQueries /\ AllSound(n)
  BY <1>7
<1> QED
  BY ONLY <1>8, <1>9, <1>10, <1>11, <1>12

\* The messages that waited are sent.
LEMMA WaitingSent ==
  ASSUME ChatInv, creating # None, NEW s \in Sessions, UNCHANGED <<wire, ops, chat>>,
         creating' = None,
         chatRequests' = chatRequests \cup {RequestOf("send", s, id, None) : id \in Waiting}
  PROVE  /\ chatRequests' \subseteq ChatRequest /\ IsFiniteSet(chatRequests')
         /\ \A t : (Sending(t) => Sending(t)') /\ (Stopping(t) => Stopping(t)')
         /\ Waiting # {} => Sending(s)'
         /\ SendsFresh'
<1>1. /\ Waiting \subseteq Ids /\ IsFiniteSet(Waiting)
      /\ \A id \in Waiting : id \in 1..ops /\ Unused(s, id)
  BY WaitingIs
<1>2. \A id \in Ids : /\ RequestOf("send", s, id, None) \in ChatRequest
                      /\ RequestOf("send", s, id, None).kind = "send"
                      /\ RequestOf("send", s, id, None).session = s
                      /\ RequestOf("send", s, id, None).id = id
                      /\ RequestOf("send", s, id, None).prev = None
  BY DEF RequestOf, ChatRequest, Ids
<1>3. chatRequests' \subseteq ChatRequest
  BY <1>1, <1>2 DEF ChatInv, ChatBase, ChatTypeOK
<1>4. IsFiniteSet(chatRequests')
  <2>1. IsFiniteSet(chatRequests)
    BY DEF ChatInv
  <2> QED
    BY <1>1, <2>1, SendsFinite
<1>5. \A t : Sending(t) => Sending(t)'
  BY DEF Sending
<1>6. \A t : Stopping(t) => Stopping(t)'
  BY DEF Stopping, Running
<1>7. ASSUME NEW id \in Waiting
      PROVE  Sending(s)'
  <2>1. RequestOf("send", s, id, None) \in chatRequests'
    OBVIOUS
  <2> QED
    BY <1>1, <1>2, <2>1 DEF Sending
<1>8. SendsFresh'
  <2>1. \A t, id : Unused(t, id) => Unused(t, id)'
    BY DEF Unused, Running
  <2>2. ASSUME NEW r \in chatRequests', r.kind = "send"
        PROVE  /\ r.id \in 1..ops' /\ r.prev = None
               /\ r.phase = "sent" => Unused(r.session, r.id)'
    <3>1. CASE r \in chatRequests
      BY <2>1, <2>2, <3>1 DEF ChatInv, SendsFresh
    <3>2. CASE r \notin chatRequests
      <4> PICK id \in Waiting : r = RequestOf("send", s, id, None)
        BY <3>2
      <4>1. r.id = id /\ r.session = s /\ r.prev = None
        BY <1>1, <1>2
      <4> QED
        BY <1>1, <2>1, <4>1
    <3> QED
      BY <3>1, <3>2
  <2> QED
    BY <2>2 DEF SendsFresh
<1> QED
  BY <1>3, <1>4, <1>5, <1>6, <1>7, <1>8

LEMMA RespondKeeps ==
  ASSUME ChatInv, CreateResponds
  PROVE  ChatInv'
<1> PICK s : s = creating.session
  OBVIOUS
<1>0. creating # None /\ s \in Sessions
  BY DEF CreateResponds, ChatInv, ChatBase, ChatTypeOK, Creation
<1>1. /\ active' = s /\ creating' = None
      /\ chatRequests' = chatRequests \cup {RequestOf("send", s, id, None) : id \in Waiting}
      /\ UNCHANGED <<conn, wire, ops, chat, scenario>>
  BY DEF CreateResponds, Waiting, socketVars
<1>2. Waiting \subseteq Ids
  BY <1>0, WaitingIs
<1>3. ops' \in 0..MaxOps /\ ops <= ops'
  BY <1>1 DEF ChatInv, ChatBase
<1>4. /\ queries \in ChatQueries /\ AllSound(queries)
      /\ queries.messages[s] \in MessageQuery /\ Sound(queries.messages[s])
      /\ queries.pending[s] \in PillQuery /\ Sound(queries.pending[s])
  BY <1>0, QueriesAre DEF ChatInv
<1>5. queries' = Lately(Showing(Seeding(OnRows(queries, Invalidate), s), s), s)
  <2>1. queries' = Lately(Showing(Seeding(OnRows(queries, Invalidate), creating.session),
                                  creating.session), creating.session)
    BY DEF CreateResponds, Seeding, Seeded, PilledBy, Lately, Late, Waiting, LastWaiting
  <2> QED
    BY <2>1
<1> PICK c1 : c1 = OnRows(queries, Invalidate)
  OBVIOUS
<1>6. /\ c1 \in ChatQueries /\ AllSound(c1)
      /\ c1.messages = queries.messages /\ c1.pending = queries.pending
      /\ "rows" \in scenario.follows => ~ Sure(c1.rows)
  BY <1>4, RowsInvalidated
<1> PICK c2 : c2 = Seeding(c1, s)
  OBVIOUS
<1>7. /\ c2 \in ChatQueries /\ AllSound(c2) /\ c2.rows = c1.rows
      /\ \A t \in Sessions : t # s => /\ c2.messages[t] = c1.messages[t]
                                      /\ c2.pending[t] = c1.pending[t]
      /\ "messages" \in scenario.follows => c2.messages[s] = Seeded(c1.messages[s])
      /\ "pending" \in scenario.follows => c2.pending[s] = PilledBy(c1.pending[s])
  BY <1>0, <1>2, <1>6, SeedingIs
<1> PICK c3 : c3 = Showing(c2, s)
  OBVIOUS
<1>8. /\ c3 \in ChatQueries /\ AllSound(c3) /\ c3.rows = c2.rows
      /\ \A t \in Sessions : /\ Stay(c2.messages[t], c3.messages[t])
                             /\ Stay(c2.pending[t], c3.pending[t])
  BY <1>7, ShowingIs
<1> PICK c4 : c4 = Lately(c3, s)
  OBVIOUS
<1>9. /\ c4 \in ChatQueries /\ AllSound(c4) /\ Stay(c3.rows, c4.rows)
      /\ \A t \in Sessions : /\ Stay(c3.messages[t], c4.messages[t])
                             /\ Stay(c3.pending[t], c4.pending[t])
      /\ "messages" \in scenario.follows /\ Sure(c4.messages[s]) => chat[s] = NewSession
  BY <1>0, <1>8, LatelyIs
<1>10. queries' = c4
  BY <1>5
<1>11. "rows" \in scenario.follows => ~ Sure(queries'.rows)
  BY ONLY <1>6, <1>7, <1>8, <1>9, <1>10 DEF Stay
<1>12. \A t \in Sessions : /\ Stay(c2.messages[t], queries'.messages[t])
                           /\ Stay(c2.pending[t], queries'.pending[t])
  BY ONLY <1>8, <1>9, <1>10 DEF Stay
<1>13. "messages" \in scenario.follows /\ Sure(queries'.messages[s]) => chat[s] = NewSession
  BY ONLY <1>9, <1>10
<1>14. /\ chatRequests' \subseteq ChatRequest /\ IsFiniteSet(chatRequests')
       /\ \A t : (Sending(t) => Sending(t)') /\ (Stopping(t) => Stopping(t)')
       /\ Waiting # {} => Sending(s)'
       /\ SendsFresh'
  BY <1>0, <1>1, WaitingSent
<1>15. ASSUME NEW t \in Sessions
       PROVE  MessageStays(t) /\ PillStays(t)
  <2>1. CASE t # s
    <3>1. /\ Stay(queries.messages[t], queries'.messages[t])
          /\ Stay(queries.pending[t], queries'.pending[t])
      BY <1>6, <1>7, <1>12, <2>1 DEF Stay
    <3> QED
      BY <1>14, <3>1 DEF MessageStays, PillStays
  <2>2. CASE t = s /\ Waiting # {}
    BY <1>14, <2>2 DEF MessageStays, PillStays
  <2>3. CASE t = s /\ Waiting = {}
    <3>1. "pending" \in scenario.follows => Stay(queries.pending[s], queries'.pending[s])
      BY <1>0, <1>6, <1>7, <1>12, <2>3 DEF PilledBy
    <3>2. PillStays(t)
      BY <1>14, <2>3, <3>1 DEF PillStays
    <3>3. ASSUME "messages" \in scenario.follows, Sure(queries'.messages[s])
          PROVE  \/ queries'.messages[s].data = chat[s].messages
                 \/ Stay(queries.messages[s], queries'.messages[s])
      <4> PICK m : m = Seeded(queries.messages[s])
        OBVIOUS
      <4>1. Sure(m) => m.data = {} \/ ( /\ Sure(queries.messages[s])
                                        /\ m.data = queries.messages[s].data)
        BY <1>2, <1>4, <2>3, SeededIs
      <4>2. c2.messages[s] = m
        BY <1>6, <1>7, <3>3
      <4>3. Sure(m) /\ queries'.messages[s].data = m.data
        BY <1>0, <1>12, <3>3, <4>2 DEF Stay
      <4>4. chat[s].messages = {}
        BY <1>13, <3>3, NewSessionIs
      <4> QED
        BY <4>1, <4>3, <4>4 DEF Stay
    <3>4. MessageStays(t)
      BY <1>14, <2>3, <3>3 DEF MessageStays
    <3> QED
      BY <3>2, <3>4
  <2> QED
    BY <2>1, <2>2, <2>3
<1>16. RowsStay
  BY <1>11 DEF RowsStay
<1>17. queries' \in ChatQueries /\ AllSound(queries')
  BY ONLY <1>9, <1>10
<1>18. active' \in Sessions \cup {None} /\ creating' \in Creation \cup {None}
  BY <1>0, <1>1
<1> QED
  BY <1>1, <1>3, <1>14, <1>15, <1>16, <1>17, <1>18, ClientKeeps

-----------------------------------------------------------------------------
(***************************************************************************)
(* What the handlers of the events do to the queries.                      *)
(***************************************************************************)
LEMMA BothPut ==
  ASSUME NEW c \in ChatQueries, AllSound(c), NEW s \in Sessions,
         NEW m \in MessageQuery, Sound(m), NEW p \in PillQuery, Sound(p)
  PROVE  LET n == PutPill(PutMessages(c, s, m), s, p)
         IN  /\ n \in ChatQueries /\ AllSound(n) /\ n.rows = c.rows
             /\ \A t \in Sessions : t # s => /\ n.messages[t] = c.messages[t]
                                             /\ n.pending[t] = c.pending[t]
             /\ "messages" \in scenario.follows => n.messages[s] = m
             /\ "pending" \in scenario.follows => n.pending[s] = p
<1> PICK d : d = PutMessages(c, s, m)
  OBVIOUS
<1>1. /\ d \in ChatQueries /\ AllSound(d)
      /\ d.rows = c.rows /\ d.pending = c.pending
      /\ \A t \in Sessions : t # s => d.messages[t] = c.messages[t]
      /\ "messages" \in scenario.follows => d.messages[s] = m
  BY MessagesPut
<1> PICK n : n = PutPill(d, s, p)
  OBVIOUS
<1>2. /\ n \in ChatQueries /\ AllSound(n)
      /\ n.rows = d.rows /\ n.messages = d.messages
      /\ \A t \in Sessions : t # s => n.pending[t] = d.pending[t]
      /\ "pending" \in scenario.follows => n.pending[s] = p
  BY <1>1, PillPut
<1> QED
  BY <1>1, <1>2

\* The task that the server says is at work will be shown to be queued.
ToldAgain(s) ==
    \E i \in DOMAIN wire : /\ wire[i].type = "queued" /\ wire[i].session = s
                           /\ \E t \in ServerPill(s) : t[1] = wire[i].task

PillHandled(q, n, e) ==
    Sure(n) =>
        \/ e.type = "queued"
        \/ e.type = "read" /\ Sure(q) /\ n.data = q.data
        \/ /\ e.type = "dispatch" /\ Sure(q)
           /\ n.data = IF \E t \in q.data : t[1] = e.task /\ t[2] # "optimistic"
                       THEN {<<e.task, "running">>} ELSE q.data
        \/ /\ e.type = "cancelled" /\ n.data = {}
           /\ ServerPill(e.session) = {} \/ ToldAgain(e.session)

RowsHandled(q, n, e) ==
    Sure(n) =>
        /\ Sure(q) /\ e.type # "done"
        /\ e.type = "read" =>
              n.data = [q.data EXCEPT ![e.session] = IF @ = "gone" THEN @ ELSE "read"]
        /\ e.type = "deleted" =>
              n.data = [q.data EXCEPT ![e.session] = IF @ = "gone" THEN @ ELSE "gone"]
        /\ e.type \notin {"read", "deleted"} => n.data = q.data

Handled(c, n, e) ==
    /\ n \in ChatQueries /\ AllSound(n)
    /\ \A t \in Sessions : t # e.session => /\ n.messages[t] = c.messages[t]
                                            /\ n.pending[t] = c.pending[t]
    /\ "messages" \in scenario.follows =>
          /\ Stay(c.messages[e.session], n.messages[e.session])
          /\ e.type \in MessageTypes => ~ Sure(n.messages[e.session])
    /\ "pending" \in scenario.follows =>
          PillHandled(c.pending[e.session], n.pending[e.session], e)
    /\ "rows" \in scenario.follows => RowsHandled(c.rows, n.rows, e)

\* An event that is only about the pill.
LEMMA PillOnlyHandled ==
  ASSUME NEW c \in ChatQueries, AllSound(c), NEW e \in ChatEvents,
         e.type \notin {"read", "deleted", "done", "message", "failed"},
         NEW p \in PillQuery, Sound(p), PillHandled(c.pending[e.session], p, e)
  PROVE  Handled(c, PutPill(c, e.session, p), e)
<1>1. e.session \in Sessions
  BY ChatEventHas
<1> PICK n : n = PutPill(c, e.session, p)
  OBVIOUS
<1>2. /\ n \in ChatQueries /\ AllSound(n)
      /\ n.rows = c.rows /\ n.messages = c.messages
      /\ \A t \in Sessions : t # e.session => n.pending[t] = c.pending[t]
      /\ "pending" \in scenario.follows => n.pending[e.session] = p
  BY <1>1, PillPut
<1>3. RowsHandled(c.rows, n.rows, e)
  BY <1>2 DEF RowsHandled
<1> QED
  BY <1>2, <1>3 DEF Handled, MessageTypes, Stay

\* An event after which the messages and the pill are fetched, or there are none.
LEMMA BothHandled ==
  ASSUME NEW c \in ChatQueries, AllSound(c), NEW e \in ChatEvents, NEW d \in ChatQueries,
         AllSound(d), d.messages = c.messages, d.pending = c.pending,
         "rows" \in scenario.follows => RowsHandled(c.rows, d.rows, e),
         NEW m \in MessageQuery, Sound(m), ~ Sure(m), NEW p \in PillQuery, Sound(p), ~ Sure(p)
  PROVE  Handled(c, PutPill(PutMessages(d, e.session, m), e.session, p), e)
<1>1. e.session \in Sessions
  BY ChatEventHas
<1> PICK n : n = PutPill(PutMessages(d, e.session, m), e.session, p)
  OBVIOUS
<1>2. /\ n \in ChatQueries /\ AllSound(n) /\ n.rows = d.rows
      /\ \A t \in Sessions : t # e.session => /\ n.messages[t] = d.messages[t]
                                              /\ n.pending[t] = d.pending[t]
      /\ "messages" \in scenario.follows => n.messages[e.session] = m
      /\ "pending" \in scenario.follows => n.pending[e.session] = p
  BY <1>1, BothPut
<1>3. "messages" \in scenario.follows => /\ Stay(c.messages[e.session], n.messages[e.session])
                                         /\ ~ Sure(n.messages[e.session])
  BY <1>2 DEF Stay
<1>4. "pending" \in scenario.follows =>
        PillHandled(c.pending[e.session], n.pending[e.session], e)
  BY <1>2 DEF PillHandled
<1> QED
  BY <1>2, <1>3, <1>4 DEF Handled

LEMMA DoneHandled ==
  ASSUME NEW c \in ChatQueries, AllSound(c), NEW e \in ChatEvents, e.type = "done",
         NEW m \in MessageQuery, Sound(m), ~ Sure(m), NEW p \in PillQuery, Sound(p), ~ Sure(p)
  PROVE  Handled(c, OnRows(PutPill(PutMessages(c, e.session, m), e.session, p), Invalidate), e)
<1>1. e.session \in Sessions
  BY ChatEventHas
<1> PICK b : b = PutPill(PutMessages(c, e.session, m), e.session, p)
  OBVIOUS
<1>2. /\ b \in ChatQueries /\ AllSound(b)
      /\ \A t \in Sessions : t # e.session => /\ b.messages[t] = c.messages[t]
                                              /\ b.pending[t] = c.pending[t]
      /\ "messages" \in scenario.follows => b.messages[e.session] = m
      /\ "pending" \in scenario.follows => b.pending[e.session] = p
  BY <1>1, BothPut
<1> PICK n : n = OnRows(b, Invalidate)
  OBVIOUS
<1>3. /\ n \in ChatQueries /\ AllSound(n)
      /\ n.messages = b.messages /\ n.pending = b.pending
      /\ "rows" \in scenario.follows => ~ Sure(n.rows)
  BY <1>2, RowsInvalidated
<1>4. "messages" \in scenario.follows => /\ Stay(c.messages[e.session], n.messages[e.session])
                                         /\ ~ Sure(n.messages[e.session])
  BY <1>2, <1>3 DEF Stay
<1>5. "pending" \in scenario.follows =>
        PillHandled(c.pending[e.session], n.pending[e.session], e)
  BY <1>2, <1>3 DEF PillHandled
<1>6. "rows" \in scenario.follows => RowsHandled(c.rows, n.rows, e)
  BY <1>3 DEF RowsHandled
<1>7. \A t \in Sessions : t # e.session => /\ n.messages[t] = c.messages[t]
                                          /\ n.pending[t] = c.pending[t]
  BY <1>2, <1>3
<1> QED
  BY <1>3, <1>4, <1>5, <1>6, <1>7 DEF Handled

LEMMA QueuedIs ==
  ASSUME NEW c \in ChatQueries, AllSound(c), NEW e \in ChatEvents, e.type = "queued"
  PROVE  Handled(c, OnTaskQueued(c, e), e)
<1>1. e.session \in Sessions /\ e.task \in Ids
  BY ChatEventHas
<1> DEFINE d == {<<e.task, "queued">>}
<1>2. d \in Pills
  BY <1>1 DEF Pills
<1>3. OnTaskQueued(c, e) = Pilled(c, e.session, d)
  BY DEF OnTaskQueued, Pilled
<1> HIDE DEF d
<1> PICK n : n = Pilled(c, e.session, d)
  OBVIOUS
<1>4. /\ n \in ChatQueries /\ AllSound(n)
      /\ n.rows = c.rows /\ n.messages = c.messages
      /\ \A t \in Sessions : t # e.session => n.pending[t] = c.pending[t]
  BY <1>1, <1>2, PillWritten
<1>5. Handled(c, n, e)
  BY <1>4 DEF Handled, PillHandled, RowsHandled, MessageTypes, Stay
<1> QED
  BY <1>3, <1>5

LEMMA DispatchIs ==
  ASSUME NEW c \in ChatQueries, AllSound(c), NEW e \in ChatEvents, e.type = "dispatch"
  PROVE  Handled(c, OnTaskDispatch(c, e), e)
<1> PICK s \in Sessions : s = e.session
  BY ChatEventHas
<1>1. e.task \in Ids
  BY ChatEventHas
<1> PICK q \in PillQuery : q = c.pending[s] /\ Sound(q)
  BY QueriesHave DEF AllSound
<1> PICK d : d = IF \E t \in q.data : t[1] = e.task /\ t[2] # "optimistic"
                 THEN {<<e.task, "running">>} ELSE q.data
  OBVIOUS
<1>2. q.data # None => d \in Pills
  <2>1. {<<e.task, "running">>} \in Pills
    BY <1>1 DEF Pills
  <2>2. q.data # None => q.data \in Pills
    BY DEF PillQuery, Query
  <2> QED
    BY <2>1, <2>2
<1> PICK p : p = Patch(q, d)
  OBVIOUS
<1>3. p \in PillQuery /\ Sound(p) /\ (Sure(p) => Sure(q) /\ p.data = d)
  BY <1>2, PatchIs DEF PillQuery
<1>4. PillHandled(c.pending[e.session], p, e)
  BY <1>3 DEF PillHandled
<1>5. OnTaskDispatch(c, e) = PutPill(c, e.session, p)
  BY DEF OnTaskDispatch, OnKeys, PutPill
<1>6. ASSUME NEW r \in PillQuery, Sound(r), PillHandled(c.pending[e.session], r, e)
      PROVE  Handled(c, PutPill(c, e.session, r), e)
  BY <1>6, PillOnlyHandled
<1>7. Handled(c, PutPill(c, e.session, p), e)
  BY ONLY <1>3, <1>4, <1>6
<1> QED
  BY <1>5, <1>7

LEMMA MessageIs ==
  ASSUME NEW c \in ChatQueries, AllSound(c), NEW e \in ChatEvents, e.type = "message"
  PROVE  Handled(c, OnChatMessage(c, e), e)
<1> PICK s \in Sessions : s = e.session
  BY ChatEventHas
<1>1. /\ c.messages[s] \in MessageQuery /\ Sound(c.messages[s])
      /\ c.pending[s] \in PillQuery /\ Sound(c.pending[s])
  BY QueriesHave DEF AllSound
<1> PICK m, p : m = Invalidate(c.messages[s]) /\ p = Invalidate(c.pending[s])
  OBVIOUS
<1>2. m \in MessageQuery /\ Sound(m) /\ ~ Sure(m)
  BY <1>1, InvalidateIs, ChatApart DEF MessageQuery
<1>3. p \in PillQuery /\ Sound(p) /\ ~ Sure(p)
  BY <1>1, InvalidateIs, ChatApart DEF PillQuery
<1>4. Handled(c, PutPill(PutMessages(c, e.session, m), e.session, p), e)
  <2>1. RowsHandled(c.rows, c.rows, e)
    BY DEF RowsHandled
  <2> QED
    BY <1>2, <1>3, <2>1, BothHandled
<1>5. OnChatMessage(c, e) = PutPill(PutMessages(c, e.session, m), e.session, p)
  BY DEF OnChatMessage, OnKeys, PutMessages, PutPill
<1> QED
  BY <1>4, <1>5

LEMMA DoneIs ==
  ASSUME NEW c \in ChatQueries, AllSound(c), NEW e \in ChatEvents, e.type = "done"
  PROVE  Handled(c, OnChatDone(c, e), e)
<1> PICK s \in Sessions : s = e.session
  BY ChatEventHas
<1>1. /\ c.messages[s] \in MessageQuery /\ Sound(c.messages[s])
      /\ c.pending[s] \in PillQuery /\ Sound(c.pending[s])
  BY QueriesHave DEF AllSound
<1> PICK q : q = c.messages[s]
  OBVIOUS
<1> PICK d : d = q.data \cup {<<"reply", e.task>>}
  OBVIOUS
<1>2. q.data # None => d \in SUBSET Messages
  <2>1. <<"reply", e.task>> \in Messages
    BY ChatEventHas DEF Messages
  <2>2. q.data # None => q.data \subseteq Messages
    BY <1>1 DEF MessageQuery, Query
  <2> QED
    BY <2>1, <2>2
<1> PICK m1 : m1 = Patch(q, d)
  OBVIOUS
<1> PICK m, p : m = Invalidate(m1) /\ p = Invalidate(Write(c.pending[s], {}))
  OBVIOUS
<1>3. m1 \in MessageQuery /\ Sound(m1)
  <2>1. q \in MessageQuery /\ Sound(q)
    BY <1>1
  <2> QED
    BY <1>2, <2>1, PatchIs DEF MessageQuery
<1>4. m \in MessageQuery /\ Sound(m) /\ ~ Sure(m)
  BY <1>3, InvalidateIs, ChatApart DEF MessageQuery
<1>5. p \in PillQuery /\ Sound(p) /\ ~ Sure(p)
  <2> PICK k : k = Write(c.pending[s], {})
    OBVIOUS
  <2>1. {} \in Pills
    BY DEF Pills
  <2>2. k \in PillQuery /\ Sound(k)
    BY <1>1, <2>1, WriteIs DEF PillQuery
  <2> QED
    BY <2>2, InvalidateIs, ChatApart DEF PillQuery
<1>6. Handled(c, OnRows(PutPill(PutMessages(c, e.session, m), e.session, p), Invalidate), e)
  BY <1>4, <1>5, DoneHandled
<1>7. OnChatDone(c, e) = OnRows(PutPill(PutMessages(c, e.session, m), e.session, p), Invalidate)
  <2> DEFINE c1 == OnKeys(c, e.session, {"messages"},
                     LAMBDA k : Invalidate(Patch(k, k.data \cup {<<"reply", e.task>>})))
             c2 == OnKeys(c1, e.session, {"pending"}, LAMBDA k : Invalidate(Write(k, {})))
  <2>1. OnChatDone(c, e) = OnRows(c2, Invalidate)
    BY DEF OnChatDone
  <2>2. c2 = PutPill(PutMessages(c, e.session, m), e.session, p)
    BY DEF OnKeys, PutMessages, PutPill
  <2> HIDE DEF c2
  <2> QED
    BY <2>1, <2>2
<1> QED
  BY <1>6, <1>7

LEMMA FailedIs ==
  ASSUME NEW c \in ChatQueries, AllSound(c), NEW e \in ChatEvents, e.type = "failed"
  PROVE  Handled(c, OnTaskFailed(c, e), e)
<1> PICK s \in Sessions : s = e.session
  BY ChatEventHas
<1>1. /\ c.messages[s] \in MessageQuery /\ Sound(c.messages[s])
      /\ c.pending[s] \in PillQuery /\ Sound(c.pending[s])
  BY QueriesHave DEF AllSound
<1> PICK m, p : m = Invalidate(c.messages[s]) /\ p = Invalidate(Write(c.pending[s], {}))
  OBVIOUS
<1>2. m \in MessageQuery /\ Sound(m) /\ ~ Sure(m)
  BY <1>1, InvalidateIs, ChatApart DEF MessageQuery
<1>3. p \in PillQuery /\ Sound(p) /\ ~ Sure(p)
  <2> PICK k : k = Write(c.pending[s], {})
    OBVIOUS
  <2>1. {} \in Pills
    BY DEF Pills
  <2>2. k \in PillQuery /\ Sound(k)
    BY <1>1, <2>1, WriteIs DEF PillQuery
  <2> QED
    BY <2>2, InvalidateIs, ChatApart DEF PillQuery
<1>4. Handled(c, PutPill(PutMessages(c, e.session, m), e.session, p), e)
  <2>1. RowsHandled(c.rows, c.rows, e)
    BY DEF RowsHandled
  <2> QED
    BY <1>2, <1>3, <2>1, BothHandled
<1>5. OnTaskFailed(c, e) = PutPill(PutMessages(c, e.session, m), e.session, p)
  BY DEF OnTaskFailed, OnKeys, PutMessages, PutPill
<1> QED
  BY <1>4, <1>5

\* The query of a pill that the cancellation of a task has cleared.
CrossedBy(q, s) ==
    LET told == \E i \in DOMAIN wire : /\ wire[i].type = "queued" /\ wire[i].session = s
                                       /\ \E t \in ServerPill(s) : t[1] = wire[i].task
    IN  IF ServerPill(s) = {} \/ told THEN Write(q, {}) ELSE Uncertain(Write(q, {}), "crossed")

LEMMA CancelledIs ==
  ASSUME NEW c \in ChatQueries, AllSound(c), NEW e \in ChatEvents, e.type = "cancelled"
  PROVE  Handled(c, OnTaskCancelled(c, e), e)
<1> PICK s \in Sessions : s = e.session
  BY ChatEventHas
<1>1. c.pending[s] \in PillQuery /\ Sound(c.pending[s])
  BY QueriesHave DEF AllSound
<1> PICK k : k = Write(c.pending[s], {})
  OBVIOUS
<1>2. k \in PillQuery /\ Sound(k) /\ k.data = {}
  <2>1. {} \in Pills
    BY DEF Pills
  <2> QED
    BY <1>1, <2>1, WriteIs DEF PillQuery
<1> PICK u : u = Uncertain(k, "crossed")
  OBVIOUS
<1>3. u \in PillQuery /\ Sound(u) /\ ~ Sure(u)
  <2>1. "crossed" \in Doubts
    BY DEF Doubts
  <2> QED
    BY <1>2, <2>1, UncertainIs DEF PillQuery
<1> PICK p : p = IF ServerPill(s) = {} \/ ToldAgain(s) THEN k ELSE u
  OBVIOUS
<1>4. /\ p \in PillQuery /\ Sound(p)
      /\ Sure(p) => p.data = {} /\ (ServerPill(s) = {} \/ ToldAgain(s))
  BY <1>2, <1>3
<1>5. PillHandled(c.pending[e.session], p, e)
  BY <1>4 DEF PillHandled
<1>6. p = CrossedBy(c.pending[s], s)
  BY DEF CrossedBy, ToldAgain
<1>7. OnTaskCancelled(c, e) = PutPill(c, e.session, p)
  <2>1. OnTaskCancelled(c, e) = PutPill(c, s, CrossedBy(c.pending[s], s))
    BY DEF OnTaskCancelled, OnKeys, PutPill, CrossedBy
  <2> QED
    BY <1>6, <2>1
<1>8. ASSUME NEW r \in PillQuery, Sound(r), PillHandled(c.pending[e.session], r, e)
      PROVE  Handled(c, PutPill(c, e.session, r), e)
  BY <1>8, PillOnlyHandled
<1>9. Handled(c, PutPill(c, e.session, p), e)
  BY ONLY <1>4, <1>5, <1>8
<1> QED
  BY <1>7, <1>9

LEMMA ReadIs ==
  ASSUME NEW c \in ChatQueries, AllSound(c), NEW e \in ChatEvents, e.type = "read"
  PROVE  Handled(c, OnSessionRead(c, e), e)
<1>1. e.session \in Sessions
  BY ChatEventHas
<1> PICK n : n = Row(c, e.session, "read")
  OBVIOUS
<1>2. /\ n \in ChatQueries /\ AllSound(n)
      /\ n.messages = c.messages /\ n.pending = c.pending
      /\ "rows" \in scenario.follows /\ Sure(n.rows) =>
            /\ Sure(c.rows)
            /\ n.rows.data = [c.rows.data EXCEPT
                                 ![e.session] = IF @ = "gone" THEN @ ELSE "read"]
  BY <1>1, RowIs
<1>3. "rows" \in scenario.follows => RowsHandled(c.rows, n.rows, e)
  BY <1>2 DEF RowsHandled
<1>4. PillHandled(c.pending[e.session], n.pending[e.session], e)
  BY <1>2 DEF PillHandled
<1>5. Handled(c, n, e)
  BY <1>2, <1>3, <1>4 DEF Handled, MessageTypes, Stay
<1> QED
  BY <1>5 DEF OnSessionRead

LEMMA DeletionIs ==
  ASSUME NEW c \in ChatQueries, AllSound(c), NEW e \in ChatEvents, e.type = "deleted"
  PROVE  Handled(c, OnSessionDeleted(c, e), e)
<1> PICK s \in Sessions : s = e.session
  BY ChatEventHas
<1> PICK d : d = Row(c, s, "gone")
  OBVIOUS
<1>1. /\ d \in ChatQueries /\ AllSound(d)
      /\ d.messages = c.messages /\ d.pending = c.pending
      /\ "rows" \in scenario.follows /\ Sure(d.rows) =>
            /\ Sure(c.rows)
            /\ d.rows.data = [c.rows.data EXCEPT ![s] = IF @ = "gone" THEN @ ELSE "gone"]
  BY RowIs
<1>2. /\ d.messages[s] \in MessageQuery /\ Sound(d.messages[s])
      /\ d.pending[s] \in PillQuery /\ Sound(d.pending[s])
  BY <1>1, QueriesHave DEF AllSound
<1> PICK m, p : m = Forget(d.messages[s]) /\ p = Forget(d.pending[s])
  OBVIOUS
<1>3. m \in MessageQuery /\ Sound(m) /\ ~ Sure(m)
  BY <1>2, ForgetIs DEF MessageQuery
<1>4. p \in PillQuery /\ Sound(p) /\ ~ Sure(p)
  BY <1>2, ForgetIs DEF PillQuery
<1>5. "rows" \in scenario.follows => RowsHandled(c.rows, d.rows, e)
  BY <1>1 DEF RowsHandled
<1>6. Handled(c, PutPill(PutMessages(d, e.session, m), e.session, p), e)
  BY <1>1, <1>3, <1>4, <1>5, BothHandled
<1>7. OnSessionDeleted(c, e) = PutPill(PutMessages(d, e.session, m), e.session, p)
  <2>1. OnSessionDeleted(c, e) = OnKeys(d, s, {"messages", "pending"}, Forget)
    BY DEF OnSessionDeleted
  <2> QED
    BY <2>1 DEF OnKeys, PutMessages, PutPill
<1> QED
  BY <1>6, <1>7

LEMMA EventIs ==
  ASSUME NEW c \in ChatQueries, AllSound(c), NEW e \in ChatEvents
  PROVE  Handled(c, OnChatEvent(c, e), e)
<1>1. e.type \in {"queued", "dispatch", "cancelled", "message", "failed", "done",
                  "read", "deleted"}
  BY ChatEventHas, TypesAre
<1>2. CASE e.type = "queued"
  <2>1. OnChatEvent(c, e) = OnTaskQueued(c, e)
    BY <1>2 DEF OnChatEvent
  <2> QED
    BY <1>2, <2>1, QueuedIs
<1>3. CASE e.type = "dispatch"
  <2>1. OnChatEvent(c, e) = OnTaskDispatch(c, e)
    BY <1>3 DEF OnChatEvent
  <2> QED
    BY <1>3, <2>1, DispatchIs
<1>4. CASE e.type = "cancelled"
  <2>1. OnChatEvent(c, e) = OnTaskCancelled(c, e)
    BY <1>4 DEF OnChatEvent
  <2> QED
    BY <1>4, <2>1, CancelledIs
<1>5. CASE e.type = "message"
  <2>1. OnChatEvent(c, e) = OnChatMessage(c, e)
    BY <1>5 DEF OnChatEvent
  <2> QED
    BY <1>5, <2>1, MessageIs
<1>6. CASE e.type = "failed"
  <2>1. OnChatEvent(c, e) = OnTaskFailed(c, e)
    BY <1>6 DEF OnChatEvent
  <2> QED
    BY <1>6, <2>1, FailedIs
<1>7. CASE e.type = "done"
  <2>1. OnChatEvent(c, e) = OnChatDone(c, e)
    BY <1>7 DEF OnChatEvent
  <2> QED
    BY <1>7, <2>1, DoneIs
<1>8. CASE e.type = "read"
  <2>1. OnChatEvent(c, e) = OnSessionRead(c, e)
    BY <1>8 DEF OnChatEvent
  <2> QED
    BY <1>8, <2>1, ReadIs
<1>9. CASE e.type = "deleted"
  <2>1. OnChatEvent(c, e) = OnSessionDeleted(c, e)
    BY <1>9 DEF OnChatEvent
  <2> QED
    BY <1>9, <2>1, DeletionIs
<1> QED
  BY <1>1, <1>2, <1>3, <1>4, <1>5, <1>6, <1>7, <1>8, <1>9

-----------------------------------------------------------------------------
(***************************************************************************)
(* The handling of an event, and the connection.                           *)
(***************************************************************************)
\* The task the server says is at work is the most recent of the session's.
LEMMA PillTask ==
  ASSUME ChatBase, NEW s \in Sessions, NEW t \in ServerPill(s)
  PROVE  /\ \E i \in DOMAIN chat[s].tasks : t = chat[s].tasks[i]
         /\ ServerPill(s) = {t} /\ t = <<t[1], t[2]>>
         /\ t[1] \in Ids /\ t[2] \in {"queued", "running"}
<1> PICK tasks : tasks = chat[s].tasks
  OBVIOUS
<1>1. tasks \in Seq(Ids \X {"queued", "running"}) /\ Len(tasks) \in Nat
      /\ DOMAIN tasks = 1..Len(tasks)
  BY SessionHas
<1>2. tasks # <<>> /\ ServerPill(s) = {tasks[Len(tasks)]} /\ t = tasks[Len(tasks)]
  BY DEF ServerPill
<1>3. Len(tasks) \in DOMAIN tasks
  BY <1>1, <1>2
<1> QED
  BY <1>2, <1>3, SessionHas

\* A task whose dispatch is on its way is shown to run when it is handled.
LEMMA DispatchShown ==
  ASSUME ChatBase, TasksFresh, wire # <<>>, NEW s \in Sessions, NEW d, NEW n,
         Head(wire).type = "dispatch", Head(wire).session = s, Head(wire).task \in Ids,
         PillIs(d, s, ServerPill(s), wire),
         n = IF \E t \in d : t[1] = Head(wire).task /\ t[2] # "optimistic"
             THEN {<<Head(wire).task, "running">>} ELSE d
  PROVE  PillIs(n, s, ServerPill(s), Tail(wire))
<1> PICK id \in Ids : id = Head(wire).task
  OBVIOUS
<1>1. Starting(wire, s, id)
  BY StartingTail DEF ChatBase
<1>2. CASE ServerPill(s) = d
  <2>1. CASE \E t \in d : t[1] = id /\ t[2] # "optimistic"
    <3> PICK t \in d : t[1] = id /\ t[2] # "optimistic"
      BY <2>1
    <3>1. PICK i \in DOMAIN chat[s].tasks : t = chat[s].tasks[i]
      BY <1>2, PillTask
    <3>2. t[2] # "queued"
      BY <1>1, <3>1 DEF TasksFresh
    <3>3. t = <<id, "running">> /\ d = {t}
      BY <1>2, <3>2, PillTask
    <3> QED
      BY <1>2, <2>1, <3>3 DEF PillIs
  <2>2. CASE ~ \E t \in d : t[1] = id /\ t[2] # "optimistic"
    BY <1>2, <2>2 DEF PillIs
  <2> QED
    BY <2>1, <2>2
<1>3. CASE ServerPill(s) # d
  <2>1. PICK k \in Ids : /\ d = {<<k, "queued">>} /\ ServerPill(s) = {<<k, "running">>}
                         /\ Starting(wire, s, k)
    BY <1>3 DEF PillIs
  <2>2. CASE k = id
    <3>1. <<k, "queued">> \in d /\ <<k, "queued">>[1] = id /\ <<k, "queued">>[2] = "queued"
      BY <2>1, <2>2
    <3>2. n = {<<id, "running">>}
      BY <3>1
    <3> QED
      BY <2>1, <2>2, <3>2 DEF PillIs
  <2>3. CASE k # id
    <3>1. \A t \in d : t[1] # id
      BY <2>1, <2>3
    <3>2. n = d
      BY <3>1
    <3>3. Starting(Tail(wire), s, k)
      BY <2>1, <2>3, StartingTail DEF ChatBase
    <3> QED
      BY <2>1, <3>2, <3>3 DEF PillIs
  <2> QED
    BY <2>2, <2>3
<1> QED
  BY <1>2, <1>3

LEMMA PillReceived ==
  ASSUME ChatInv, wire # <<>>, NEW e \in ChatEvents, e = Head(wire), NEW s \in Sessions,
         "pending" \in scenario.follows, NEW n, Sure(n),
         ~ Hears(Tail(wire), PillTypes, s), ~ Sending(s), ~ Stopping(s),
         e.session # s => Stay(queries.pending[s], n),
         e.session = s => PillHandled(queries.pending[s], n, e)
  PROVE  PillIs(n.data, s, ServerPill(s), Tail(wire))
<1>0. wire \in Seq(ChatEvents) /\ QueuedFirst(wire)
  BY DEF ChatInv, ChatBase
<1>1. ASSUME Sure(queries.pending[s]), e.session # s \/ e.type \notin PillTypes
      PROVE  PillIs(queries.pending[s].data, s, ServerPill(s), wire)
  <2>1. ~ Hears(wire, PillTypes, s)
    BY <1>0, <1>1, HearsTail
  <2> QED
    BY <1>1, <2>1 DEF ChatInv, PillTold
<1>2. ASSUME NEW d, e.session # s \/ e.type # "dispatch", PillIs(d, s, ServerPill(s), wire)
      PROVE  PillIs(d, s, ServerPill(s), Tail(wire))
  <2>1. \A id : Starting(wire, s, id) => Starting(Tail(wire), s, id)
    BY <1>0, <1>2, StartingTail
  <2> QED
    BY <1>2, <2>1 DEF PillIs
<1>3. CASE e.session # s
  BY <1>1, <1>2, <1>3 DEF Stay
<1>4. CASE e.session = s
  <2>1. CASE e.type = "queued"
    <3>1. Hears(Tail(wire), {"message"}, s)
      BY <1>0, <1>4, <2>1, QueuedTail
    <3>2. Hears(Tail(wire), PillTypes, s)
      BY <3>1 DEF Hears, PillTypes
    <3> QED
      BY <3>2
  <2>2. CASE e.type = "read"
    <3>1. Sure(queries.pending[s]) /\ n.data = queries.pending[s].data
      BY <1>4, <2>2 DEF PillHandled
    <3>2. PillIs(queries.pending[s].data, s, ServerPill(s), wire)
      BY <1>1, <2>2, <3>1 DEF PillTypes
    <3> QED
      BY <1>2, <2>2, <3>1, <3>2
  <2>3. CASE e.type = "dispatch"
    <3>1. /\ Sure(queries.pending[s])
          /\ n.data = IF \E t \in queries.pending[s].data : t[1] = e.task /\ t[2] # "optimistic"
                      THEN {<<e.task, "running">>} ELSE queries.pending[s].data
      BY <1>4, <2>3 DEF PillHandled
    <3>2. PillIs(queries.pending[s].data, s, ServerPill(s), wire)
      BY <1>1, <2>3, <3>1 DEF PillTypes
    <3>3. e.task \in Ids
      BY <2>3, ChatEventHas
    <3> QED
      BY <1>4, <2>3, <3>1, <3>2, <3>3, DispatchShown DEF ChatInv
  <2>4. CASE e.type \notin {"queued", "read", "dispatch"}
    <3>1. e.type = "cancelled" /\ n.data = {} /\ (ServerPill(s) = {} \/ ToldAgain(s))
      BY <1>4, <2>4 DEF PillHandled
    <3>2. ASSUME ToldAgain(s)
          PROVE  Hears(Tail(wire), PillTypes, s)
      <4>1. Hears(wire, {"queued"}, s)
        BY <1>0, <3>2 DEF ToldAgain, Hears
      <4>2. Hears(Tail(wire), {"queued"}, s)
        BY <1>0, <3>1, <4>1, HearsTail
      <4> QED
        BY <4>2 DEF Hears, PillTypes
    <3>3. ServerPill(s) = {}
      BY <3>1, <3>2
    <3> QED
      BY <3>1, <3>3 DEF PillIs
  <2> QED
    BY <2>1, <2>2, <2>3, <2>4
<1> QED
  BY <1>3, <1>4

LEMMA RowsReceived ==
  ASSUME ChatInv, wire # <<>>, NEW e \in ChatEvents, e = Head(wire), NEW s \in Sessions,
         "rows" \in scenario.follows, NEW n, Sure(n), RowsHandled(queries.rows, n, e),
         \A t \in Sessions : ~ Hears(Tail(wire), {"done"}, t),
         creating = None, ~ Editing
  PROVE  SessionRows(chat)[s] = Marked(Tail(wire), s, n.data[s])
<1> PICK d : d = queries.rows.data
  OBVIOUS
<1>0. wire \in Seq(ChatEvents) /\ e.session \in Sessions
  BY ChatEventHas DEF ChatInv, ChatBase
<1>1. Sure(queries.rows) /\ e.type # "done"
  BY DEF RowsHandled
<1>2. d \in Rows
  BY <1>1, QueriesAre DEF RowsQuery, Query, Sure, ChatInv
<1>3. \A t \in Sessions : ~ Hears(wire, {"done"}, t)
  BY <1>0, <1>1, HearsTail
<1>4. SessionRows(chat)[s] = Marked(wire, s, d[s])
  BY <1>1, <1>3 DEF ChatInv, RowsTold
<1>5. /\ Hears(wire, {"deleted"}, s) <=>
            (e.type = "deleted" /\ e.session = s) \/ Hears(Tail(wire), {"deleted"}, s)
      /\ Hears(wire, {"read"}, s) <=>
            (e.type = "read" /\ e.session = s) \/ Hears(Tail(wire), {"read"}, s)
  BY <1>0, HearsTail
<1>6. n.data[s] = IF e.session = s /\ d[s] # "gone" /\ e.type = "read" THEN "read"
                  ELSE IF e.session = s /\ e.type = "deleted" THEN "gone" ELSE d[s]
  <2>1. CASE e.type = "read"
    <3>1. n.data = [d EXCEPT ![e.session] = IF @ = "gone" THEN @ ELSE "read"]
      BY <2>1 DEF RowsHandled
    <3> QED
      BY <1>0, <1>2, <2>1, <3>1 DEF Rows
  <2>2. CASE e.type = "deleted"
    <3>1. n.data = [d EXCEPT ![e.session] = IF @ = "gone" THEN @ ELSE "gone"]
      BY <2>2 DEF RowsHandled
    <3> QED
      BY <1>0, <1>2, <2>2, <3>1 DEF Rows
  <2>3. CASE e.type \notin {"read", "deleted"}
    BY <2>3 DEF RowsHandled
  <2> QED
    BY <2>1, <2>2, <2>3
<1>7. Marked(Tail(wire), s, n.data[s]) = Marked(wire, s, d[s])
  BY <1>5, <1>6 DEF Marked
<1> QED
  BY <1>4, <1>7

LEMMA ChatReceiveKeeps ==
  ASSUME ChatInv, ReceiveChatEvent
  PROVE  ChatInv'
<1>1. /\ wire # <<>> /\ wire' = Tail(wire) /\ conn' = conn /\ ops' = ops
      /\ chat' = chat /\ creating' = creating /\ chatRequests' = chatRequests
      /\ scenario' = scenario
  BY DEF ReceiveChatEvent, Deliver
<1> PICK e : e = Head(wire)
  OBVIOUS
<1>2. /\ wire \in Seq(ChatEvents) /\ e \in ChatEvents /\ e.session \in Sessions
      /\ Tail(wire) \in Seq(ChatEvents) /\ ops \in 0..MaxOps /\ QueuedFirst(wire)
  <2>1. wire \in Seq(ChatEvents) /\ ops \in 0..MaxOps /\ QueuedFirst(wire)
    BY DEF ChatInv, ChatBase
  <2>2. e \in ChatEvents
    BY <1>1, <2>1
  <2>3. Tail(wire) \in Seq(ChatEvents)
    BY <1>1, <2>1
  <2> QED
    BY <2>1, <2>2, <2>3, ChatEventHas
<1>3. queries \in ChatQueries /\ AllSound(queries)
  BY QueriesAre DEF ChatInv
<1> PICK c : c = OnChatEvent(queries, e)
  OBVIOUS
<1>4. Handled(queries, c, e)
  BY <1>2, <1>3, EventIs
<1>5. queries' = Showing(c, None) \/ queries' = c
  BY DEF ReceiveChatEvent
<1>6. active' \in Sessions \cup {None}
  BY DEF ReceiveChatEvent, ChatInv, ChatBase, ChatTypeOK
<1>7. c \in ChatQueries /\ AllSound(c)
  BY <1>4 DEF Handled
<1>8. /\ queries' \in ChatQueries /\ AllSound(queries') /\ queries'.rows = c.rows
      /\ \A t \in Sessions : /\ Stay(c.messages[t], queries'.messages[t])
                             /\ Stay(c.pending[t], queries'.pending[t])
  <2>1. CASE queries' = c
    BY <1>7, <2>1 DEF Stay
  <2>2. CASE queries' = Showing(c, None)
    BY <1>7, <2>2, ShowingIs
  <2> QED
    BY <1>5, <2>1, <2>2
<1>9. /\ \A t : Sending(t)' = Sending(t) /\ Stopping(t)' = Stopping(t)
      /\ \A t : ServerPill(t)' = ServerPill(t)
      /\ Editing' = Editing
  BY <1>1 DEF Sending, Stopping, Running, ServerPill, Editing
<1>10. ChatBase'
  <2>1. conn \in {"up", "down"} /\ (conn = "down" => wire = <<>>)
    BY DEF ChatInv, ChatBase
  <2>2. ChatTypeOK'
    BY <1>1, <1>6, <1>8 DEF ChatInv, ChatBase, ChatTypeOK
  <2> QED
    BY <1>1, <1>2, <1>8, <2>1, <2>2 DEF ChatBase, AllSound
<1>11. MessagesTold'
  <2> SUFFICES ASSUME "messages" \in scenario.follows, NEW t \in Sessions,
                      Sure(queries'.messages[t]), ~ Hears(Tail(wire), MessageTypes, t),
                      ~ Sending(t)
               PROVE  queries'.messages[t].data = chat[t].messages
    BY <1>1, <1>9 DEF MessagesTold
  <2>1. Sure(c.messages[t]) /\ queries'.messages[t].data = c.messages[t].data
    BY <1>8 DEF Stay
  <2>2. /\ Sure(queries.messages[t]) /\ c.messages[t].data = queries.messages[t].data
        /\ e.type \notin MessageTypes \/ e.session # t
    BY <1>4, <2>1 DEF Handled, Stay
  <2>3. ~ Hears(wire, MessageTypes, t)
    BY <1>1, <1>2, <2>2, HearsTail
  <2> QED
    BY <2>1, <2>2, <2>3 DEF ChatInv, MessagesTold
<1>12. PillTold'
  <2> SUFFICES ASSUME "pending" \in scenario.follows, NEW t \in Sessions,
                      Sure(queries'.pending[t]), ~ Hears(Tail(wire), PillTypes, t),
                      ~ Sending(t), ~ Stopping(t)
               PROVE  PillIs(queries'.pending[t].data, t, ServerPill(t), Tail(wire))
    BY <1>1, <1>9 DEF PillTold
  <2>1. Sure(c.pending[t]) /\ queries'.pending[t].data = c.pending[t].data
    BY <1>8 DEF Stay
  <2>2. e.session # t => Stay(queries.pending[t], c.pending[t])
    BY <1>4 DEF Handled, Stay
  <2>3. e.session = t => PillHandled(queries.pending[t], c.pending[t], e)
    BY <1>4 DEF Handled
  <2>4. PillIs(c.pending[t].data, t, ServerPill(t), Tail(wire))
    BY <1>1, <1>2, <2>1, <2>2, <2>3, PillReceived
  <2> QED
    BY <2>1, <2>4
<1>13. RowsTold'
  <2> SUFFICES ASSUME "rows" \in scenario.follows, Sure(queries'.rows),
                      \A t \in Sessions : ~ Hears(Tail(wire), {"done"}, t),
                      creating = None, ~ Editing, NEW s \in Sessions
               PROVE  SessionRows(chat)[s] = Marked(Tail(wire), s, queries'.rows.data[s])
    BY <1>1, <1>9 DEF RowsTold
  <2>1. RowsHandled(queries.rows, c.rows, e) /\ Sure(c.rows)
    BY <1>4, <1>8 DEF Handled
  <2> QED
    BY <1>1, <1>2, <1>8, <2>1, RowsReceived
<1>14. TasksFresh' /\ SendsFresh'
  <2>1. \A t, id : Starting(wire', t, id) => Starting(wire, t, id)
    BY <1>1, <1>2, StartingTail
  <2>2. ops' \in Int /\ ops <= ops'
    BY <1>1, <1>2
  <2> QED
    BY <1>1, <2>1, <2>2, TasksSame, SendsSame DEF ChatInv
<1>15. QueuedFirst(wire')
  BY <1>1, <1>2, QueuedTail
<1> QED
  BY <1>1, <1>10, <1>11, <1>12, <1>13, <1>14, <1>15 DEF ChatInv, UnbornEmpty

\* What is not concerned by the events hears nothing of their types.
LEMMA NotConcerned ==
  ASSUME NEW w \in Seq(ChatEvents), NEW s, NEW k, k \notin ConcernedBy(w, s),
         NEW types, \A type \in types : k \in Concerned[type]
  PROVE  ~ Hears(w, types, s)
<1> SUFFICES ASSUME NEW i \in 1..Len(w), w[i].type \in types, w[i].session = s
             PROVE  k \in ConcernedBy(w, s)
  BY DEF Hears
<1>1. i \in {j \in DOMAIN w : w[j].session = s}
  OBVIOUS
<1>2. k \in Concerned[w[i].type]
  OBVIOUS
<1> QED
  BY <1>1, <1>2 DEF ConcernedBy

\* The query a disconnection leaves of q.
Lost(q, ks, k) == IF k \in ks \cap scenario.follows THEN Uncertain(q, "missed") ELSE q

LEMMA LostIs ==
  ASSUME NEW Data, NEW Answers, NEW q \in Query(Data, Answers), Sound(q), NEW ks, NEW k
  PROVE  LET n == Lost(q, ks, k)
         IN  /\ n \in Query(Data, Answers) /\ Sound(n)
             /\ k \in scenario.follows /\ Sure(n) => k \notin ks /\ n = q
<1>1. "missed" \in Doubts
  BY DEF Doubts
<1>2. CASE k \in ks \cap scenario.follows
  BY <1>1, <1>2, UncertainIs DEF Lost
<1>3. CASE k \notin ks \cap scenario.follows
  BY <1>3 DEF Lost
<1> QED
  BY <1>2, <1>3

LEMMA DisconnectIs ==
  ASSUME ChatInv, DisconnectChat
  PROVE  /\ queries' \in ChatQueries /\ AllSound(queries')
         /\ \A t \in Sessions :
               /\ "messages" \in scenario.follows /\ Sure(queries'.messages[t]) =>
                     /\ queries'.messages[t] = queries.messages[t]
                     /\ "messages" \notin ConcernedBy(wire, t)
               /\ "pending" \in scenario.follows /\ Sure(queries'.pending[t]) =>
                     /\ queries'.pending[t] = queries.pending[t]
                     /\ "pending" \notin ConcernedBy(wire, t)
         /\ "rows" \in scenario.follows /\ Sure(queries'.rows) =>
               /\ queries'.rows = queries.rows
               /\ \A t \in Sessions : "rows" \notin ConcernedBy(wire, t)
<1>1. /\ queries.messages \in [Sessions -> MessageQuery]
      /\ queries.pending \in [Sessions -> PillQuery] /\ queries.rows \in RowsQuery
      /\ \A t \in Sessions : Sound(queries.messages[t]) /\ Sound(queries.pending[t])
      /\ Sound(queries.rows)
  BY QueriesAre DEF ChatInv
<1> PICK n : n = queries'
  OBVIOUS
<1>2. /\ n.messages = [t \in Sessions |->
                         Lost(queries.messages[t], ConcernedBy(wire, t), "messages")]
      /\ n.pending = [t \in Sessions |->
                         Lost(queries.pending[t], ConcernedBy(wire, t), "pending")]
      /\ n.rows = IF \E s \in Sessions : "rows" \in ConcernedBy(wire, s)
                  THEN Lost(queries.rows, {"rows"}, "rows") ELSE queries.rows
      /\ n = [messages |-> n.messages, pending |-> n.pending, rows |-> n.rows]
  BY DEF DisconnectChat, Lost, OnRows, OnKeys
<1>3. \A t \in Sessions :
        /\ n.messages[t] \in MessageQuery /\ Sound(n.messages[t])
        /\ "messages" \in scenario.follows /\ Sure(n.messages[t]) =>
              /\ n.messages[t] = queries.messages[t]
              /\ "messages" \notin ConcernedBy(wire, t)
  <2> SUFFICES ASSUME NEW t \in Sessions
               PROVE  /\ n.messages[t] \in MessageQuery /\ Sound(n.messages[t])
                      /\ "messages" \in scenario.follows /\ Sure(n.messages[t]) =>
                            /\ n.messages[t] = queries.messages[t]
                            /\ "messages" \notin ConcernedBy(wire, t)
    OBVIOUS
  <2> PICK q \in MessageQuery : q = queries.messages[t] /\ Sound(q)
    BY <1>1
  <2> PICK ks : ks = ConcernedBy(wire, t)
    OBVIOUS
  <2> PICK m : m = Lost(q, ks, "messages")
    OBVIOUS
  <2>1. n.messages[t] = m
    BY <1>2
  <2>2. /\ m \in MessageQuery /\ Sound(m)
        /\ "messages" \in scenario.follows /\ Sure(m) => "messages" \notin ks /\ m = q
    BY LostIs DEF MessageQuery
  <2> QED
    BY <2>1, <2>2
<1>4. \A t \in Sessions :
        /\ n.pending[t] \in PillQuery /\ Sound(n.pending[t])
        /\ "pending" \in scenario.follows /\ Sure(n.pending[t]) =>
              /\ n.pending[t] = queries.pending[t]
              /\ "pending" \notin ConcernedBy(wire, t)
  <2> SUFFICES ASSUME NEW t \in Sessions
               PROVE  /\ n.pending[t] \in PillQuery /\ Sound(n.pending[t])
                      /\ "pending" \in scenario.follows /\ Sure(n.pending[t]) =>
                            /\ n.pending[t] = queries.pending[t]
                            /\ "pending" \notin ConcernedBy(wire, t)
    OBVIOUS
  <2> PICK q \in PillQuery : q = queries.pending[t] /\ Sound(q)
    BY <1>1
  <2> PICK ks : ks = ConcernedBy(wire, t)
    OBVIOUS
  <2> PICK m : m = Lost(q, ks, "pending")
    OBVIOUS
  <2>1. n.pending[t] = m
    BY <1>2
  <2>2. /\ m \in PillQuery /\ Sound(m)
        /\ "pending" \in scenario.follows /\ Sure(m) => "pending" \notin ks /\ m = q
    BY LostIs DEF PillQuery
  <2> QED
    BY <2>1, <2>2
<1>5. /\ n.rows \in RowsQuery /\ Sound(n.rows)
      /\ "rows" \in scenario.follows /\ Sure(n.rows) =>
            /\ n.rows = queries.rows
            /\ \A t \in Sessions : "rows" \notin ConcernedBy(wire, t)
  <2>1. CASE \E s \in Sessions : "rows" \in ConcernedBy(wire, s)
    BY <1>1, <1>2, <2>1, LostIs DEF RowsQuery
  <2>2. CASE ~ \E s \in Sessions : "rows" \in ConcernedBy(wire, s)
    BY <1>1, <1>2, <2>2
  <2> QED
    BY <2>1, <2>2
<1>6. n.messages \in [Sessions -> MessageQuery] /\ n.pending \in [Sessions -> PillQuery]
  BY <1>2, <1>3, <1>4
<1>7. n \in ChatQueries /\ AllSound(n)
  BY <1>2, <1>3, <1>4, <1>5, <1>6, QueriesMade
<1> QED
  BY <1>3, <1>4, <1>5, <1>7

\* While nothing is on its way nothing is heard, and the tasks stay fresh.
LEMMA QuietKeeps ==
  ASSUME ChatInv, wire' = <<>>, ops' \in 0..MaxOps, ops <= ops',
         UNCHANGED <<chat, active, creating, chatRequests, scenario>>,
         conn' \in {"up", "down"}, queries' \in ChatQueries, AllSound(queries'),
         \A t \in Sessions :
            /\ "messages" \in scenario.follows /\ Sure(queries'.messages[t]) =>
                  /\ queries'.messages[t] = queries.messages[t]
                  /\ ~ Hears(wire, MessageTypes, t)
            /\ "pending" \in scenario.follows /\ Sure(queries'.pending[t]) =>
                  /\ queries'.pending[t] = queries.pending[t]
                  /\ ~ Hears(wire, PillTypes, t) /\ \A id : ~ Starting(wire, t, id),
         "rows" \in scenario.follows /\ Sure(queries'.rows) =>
            /\ queries'.rows = queries.rows
            /\ \A t \in Sessions : ~ Hears(wire, {"done", "read", "deleted"}, t)
  PROVE  ChatInv'
<1>1. /\ <<>> \in Seq(ChatEvents) /\ QueuedFirst(<<>>)
      /\ \A types, s : ~ Hears(<<>>, types, s)
      /\ \A s, id : ~ Starting(<<>>, s, id)
  BY NothingHeard
<1>2. /\ \A t : Sending(t)' = Sending(t) /\ Stopping(t)' = Stopping(t)
      /\ \A t : ServerPill(t)' = ServerPill(t)
      /\ Editing' = Editing
  BY DEF Sending, Stopping, Running, ServerPill, Editing
<1>3. ChatBase'
  <2>1. ChatTypeOK'
    BY DEF ChatInv, ChatBase, ChatTypeOK
  <2> QED
    BY <1>1, <2>1 DEF ChatBase, AllSound
<1>4. MessagesTold'
  <2> SUFFICES ASSUME "messages" \in scenario.follows, NEW t \in Sessions,
                      Sure(queries'.messages[t]), ~ Sending(t)
               PROVE  queries'.messages[t].data = chat[t].messages
    BY <1>2 DEF MessagesTold
  <2> QED
    BY DEF ChatInv, MessagesTold
<1>5. PillTold'
  <2> SUFFICES ASSUME "pending" \in scenario.follows, NEW t \in Sessions,
                      Sure(queries'.pending[t]), ~ Sending(t), ~ Stopping(t)
               PROVE  PillIs(queries'.pending[t].data, t, ServerPill(t), <<>>)
    BY <1>2 DEF PillTold
  <2>1. PillIs(queries.pending[t].data, t, ServerPill(t), wire)
    BY DEF ChatInv, PillTold
  <2> QED
    BY <2>1 DEF PillIs
<1>6. RowsTold'
  <2> SUFFICES ASSUME "rows" \in scenario.follows, Sure(queries'.rows),
                      creating = None, ~ Editing, NEW s \in Sessions
               PROVE  SessionRows(chat)[s] = Marked(<<>>, s, queries'.rows.data[s])
    BY <1>2 DEF RowsTold
  <2>1. \A t \in Sessions : /\ ~ Hears(wire, {"done"}, t)
                            /\ ~ Hears(wire, {"read"}, t) /\ ~ Hears(wire, {"deleted"}, t)
    BY DEF Hears
  <2>2. SessionRows(chat)[s] = Marked(wire, s, queries.rows.data[s])
    BY <2>1 DEF ChatInv, RowsTold
  <2> QED
    BY <1>1, <2>1, <2>2 DEF Marked
<1>7. TasksFresh' /\ SendsFresh'
  <2>1. \A t, id : Starting(wire', t, id) => Starting(wire, t, id)
    BY <1>1
  <2> QED
    BY <2>1, TasksSame, SendsSame DEF ChatInv
<1> QED
  BY <1>1, <1>3, <1>4, <1>5, <1>6, <1>7 DEF ChatInv, UnbornEmpty

LEMMA ChatDisconnectKeeps ==
  ASSUME ChatInv, DisconnectChat
  PROVE  ChatInv'
<1>1. /\ wire' = <<>> /\ conn' = "down"
      /\ UNCHANGED <<chat, active, creating, chatRequests>>
  BY DEF DisconnectChat, Disconnect
<1>2. ops' \in 0..MaxOps /\ ops <= ops' /\ scenario' = scenario
  BY MoveIs DEF DisconnectChat
<1>3. wire \in Seq(ChatEvents)
  BY DEF ChatInv, ChatBase
<1>4. ASSUME NEW t \in Sessions, "messages" \notin ConcernedBy(wire, t)
      PROVE  ~ Hears(wire, MessageTypes, t)
  <2>1. \A type \in MessageTypes : "messages" \in Concerned[type]
    BY TypesAre DEF MessageTypes
  <2> QED
    BY <1>3, <1>4, <2>1, NotConcerned
<1>5. ASSUME NEW t \in Sessions, "pending" \notin ConcernedBy(wire, t)
      PROVE  ~ Hears(wire, PillTypes, t) /\ \A id : ~ Starting(wire, t, id)
  <2>1. \A type \in PillTypes \cup {"dispatch"} : "pending" \in Concerned[type]
    BY TypesAre DEF PillTypes
  <2>2. ~ Hears(wire, PillTypes \cup {"dispatch"}, t)
    BY <1>3, <1>5, <2>1, NotConcerned
  <2> QED
    BY <2>2 DEF Hears, Starting
<1>6. ASSUME NEW t \in Sessions, "rows" \notin ConcernedBy(wire, t)
      PROVE  ~ Hears(wire, {"done", "read", "deleted"}, t)
  <2>1. \A type \in {"done", "read", "deleted"} : "rows" \in Concerned[type]
    BY TypesAre
  <2> QED
    BY <1>3, <1>6, <2>1, NotConcerned
<1> QED
  BY <1>1, <1>2, <1>4, <1>5, <1>6, DisconnectIs, QuietKeeps

LEMMA ReconnectKeeps ==
  ASSUME ChatInv, ReconnectChat
  PROVE  ChatInv'
<1>1. /\ conn = "down" /\ conn' = "up"
      /\ UNCHANGED <<wire, ops, chat, queries, active, creating, chatRequests, scenario>>
  BY DEF ReconnectChat, Authenticated, chatVars
<1>2. wire = <<>> /\ ops' \in 0..MaxOps /\ ops <= ops'
  BY <1>1 DEF ChatInv, ChatBase
<1>3. queries' \in ChatQueries /\ AllSound(queries')
  BY <1>1, QueriesAre DEF ChatInv
<1>4. /\ \A types, s : ~ Hears(wire, types, s)
      /\ \A s, id : ~ Starting(wire, s, id)
  BY <1>2, NothingHeard
<1> QED
  BY <1>1, <1>2, <1>3, <1>4, QuietKeeps

-----------------------------------------------------------------------------
(***************************************************************************)
(* The theorems.                                                           *)
(***************************************************************************)
\* What the window starts with: no session holds anything, and what is loaded is the
\* server's.
LEMMA ChatBegins ==
  ASSUME ChatInit
  PROVE  /\ ChatTypeOK /\ AllSound(queries)
         /\ \A s \in Sessions :
               /\ chat[s].messages = {} /\ chat[s].tasks = <<>> /\ ServerPill(s) = {}
               /\ queries.messages[s].data \in {None, {}}
               /\ queries.pending[s].data \in {None, {}}
         /\ queries.rows.data = SessionRows(chat)
<1>1. ASSUME NEW s \in Sessions
      PROVE  /\ chat[s] \in Session /\ chat[s].messages = {} /\ chat[s].tasks = <<>>
             /\ ServerPill(s) = {}
  <2>1. \/ chat[s] = NewSession \/ chat[s] = [NewSession EXCEPT !.state = "unborn"]
    BY DEF ChatInit
  <2>2. CASE chat[s] = NewSession
    BY <2>2, NewSessionIs DEF ServerPill
  <2>3. CASE chat[s] = [NewSession EXCEPT !.state = "unborn"]
    <3> PICK c : c = [NewSession EXCEPT !.state = "unborn"]
      OBVIOUS
    <3>1. c \in Session
      BY NewSessionIs DEF Session
    <3>2. c.messages = {} /\ c.tasks = <<>>
      BY DEF NewSession
    <3> QED
      BY <2>3, <3>1, <3>2 DEF ServerPill
  <2> QED
    BY <2>1, <2>2, <2>3
<1>2. chat \in [Sessions -> Session]
  BY <1>1 DEF ChatInit
<1>3. SessionRows(chat) \in Rows
  BY DEF SessionRows, Rows
<1> PICK empty : empty = [ChatData({}) EXCEPT !.mounted = TRUE]
  OBVIOUS
<1>4. /\ empty \in MessageQuery /\ empty \in PillQuery /\ Sound(empty) /\ empty.data = {}
      /\ Absent \in MessageQuery /\ Absent \in PillQuery /\ Sound(Absent) /\ ~ Sure(Absent)
  BY ChatAbsentIs DEF ChatData, Absent, MessageQuery, PillQuery, Query, Pills, Sound
<1>5. /\ queries.messages = [s \in Sessions |-> IF s = active THEN empty ELSE Absent]
      /\ queries.pending = [s \in Sessions |-> IF s = active THEN empty ELSE Absent]
      /\ queries.rows = [ChatData(SessionRows(chat)) EXCEPT !.mounted = TRUE]
      /\ queries = [messages |-> queries.messages, pending |-> queries.pending,
                    rows |-> queries.rows]
  BY DEF ChatInit
<1>6. queries.rows \in RowsQuery /\ Sound(queries.rows) /\ queries.rows.data = SessionRows(chat)
  <2>1. PICK v : v = SessionRows(chat)
    OBVIOUS
  <2>2. PICK n : n = [ChatData(v) EXCEPT !.mounted = TRUE]
    OBVIOUS
  <2>3. v \in Rows
    BY <1>3, <2>1
  <2>4. n \in RowsQuery /\ Sound(n) /\ n.data = v
    BY ONLY <2>2, <2>3 DEF ChatData, Absent, RowsQuery, Query, Sound
  <2>5. queries.rows = n
    BY ONLY <1>5, <2>1, <2>2
  <2> QED
    BY ONLY <2>1, <2>4, <2>5
<1>7. queries \in ChatQueries /\ AllSound(queries)
  <2>1. /\ queries.messages \in [Sessions -> MessageQuery]
        /\ queries.pending \in [Sessions -> PillQuery]
    BY <1>4, <1>5
  <2>2. \A t \in Sessions : Sound(queries.messages[t]) /\ Sound(queries.pending[t])
    BY <1>4, <1>5
  <2> QED
    BY <1>5, <1>6, <2>1, <2>2, QueriesMade
<1>8. ChatTypeOK
  BY <1>2, <1>7, ChatAssumption DEF ChatTypeOK, ChatInit
<1>9. Absent.data = None
  BY DEF Absent
<1> QED
  BY <1>1, <1>4, <1>5, <1>6, <1>7, <1>8, <1>9

\* Where the window stays as it was opened, it shows what the server has.
LEMMA ChatOpens ==
  ASSUME ChatInit
  PROVE  ChatTypeOK /\ PillHonest /\ MessagesExact /\ UnreadShown
BY ChatBegins DEF PillHonest, MessagesExact, UnreadShown, Settled

LEMMA ChatStarts ==
  ASSUME SocketInit, ChatInit
  PROVE  ChatInv
<1>1. conn = "up" /\ wire = <<>> /\ ops = 0 /\ creating = None /\ chatRequests = {}
  BY DEF SocketInit, ChatInit
<1>2. /\ <<>> \in Seq(ChatEvents) /\ QueuedFirst(<<>>)
      /\ \A types, s : ~ Hears(<<>>, types, s)
      /\ \A s, id : ~ Starting(<<>>, s, id)
  BY NothingHeard
<1>3. /\ ChatTypeOK /\ AllSound(queries)
      /\ \A s \in Sessions :
            /\ chat[s].messages = {} /\ chat[s].tasks = <<>> /\ ServerPill(s) = {}
            /\ queries.messages[s].data \in {None, {}}
            /\ queries.pending[s].data \in {None, {}}
      /\ queries.rows.data = SessionRows(chat)
  BY ChatBegins
<1>4. ChatBase
  <2>1. ops \in 0..MaxOps
    BY <1>1, ChatAssumption
  <2> QED
    BY <1>1, <1>2, <1>3, <2>1 DEF ChatBase
<1>5. MessagesTold
  BY <1>3 DEF MessagesTold, Sure
<1>6. PillTold
  BY <1>3 DEF PillTold, PillIs, Sure
<1>7. RowsTold
  BY <1>1, <1>2, <1>3 DEF RowsTold, Marked
<1>8. TasksFresh /\ UnbornEmpty
  BY <1>1, <1>2, <1>3 DEF TasksFresh, UnbornEmpty
<1>9. SendsFresh
  BY <1>1 DEF SendsFresh
<1>10. IsFiniteSet(chatRequests)
  BY <1>1, FS_EmptySet
<1> QED
  BY <1>1, <1>2, <1>4, <1>5, <1>6, <1>7, <1>8, <1>9, <1>10 DEF ChatInv

LEMMA ChatStutters ==
  ASSUME ChatInv, UNCHANGED <<socketVars, chatVars>>
  PROVE  ChatInv'
<1>1. UNCHANGED <<conn, wire, ops, chat, queries, active, creating, chatRequests, scenario>>
  BY DEF socketVars, chatVars
<1>2. /\ ops' \in 0..MaxOps /\ ops <= ops' /\ queries' \in ChatQueries /\ AllSound(queries')
      /\ active' \in Sessions \cup {None} /\ creating' \in Creation \cup {None}
      /\ chatRequests' \subseteq ChatRequest /\ IsFiniteSet(chatRequests')
  BY <1>1 DEF ChatInv, ChatBase, ChatTypeOK, AllSound
<1>3. \A t \in Sessions : MessageStays(t) /\ PillStays(t)
  BY <1>1 DEF MessageStays, PillStays, Stay, Sending, Stopping, Running
<1>4. RowsStay
  BY <1>1 DEF RowsStay, Stay, Editing
<1>5. SendsFresh'
  BY <1>1 DEF ChatInv, SendsFresh, Unused, Running
<1> QED
  BY <1>1, <1>2, <1>3, <1>4, <1>5, ClientKeeps

\* No step of the chat breaks the invariant.
THEOREM ChatKeeps ==
  ASSUME ChatInv, [ChatNext]_<<socketVars, chatVars>>
  PROVE  ChatInv'
<1>1. ASSUME NEW s \in Sessions, ChatChangesElsewhere(s)
      PROVE  ChatInv'
  BY <1>1, ChatElsewhereKeeps
<1>2. ASSUME NEW s \in Sessions, LandChat(s)
      PROVE  ChatInv'
  BY <1>2, ChatLandKeeps
<1>3. ASSUME NEW s \in Sessions, NEW i \in 1..MaxOps, RunChatTask(s, i)
      PROVE  ChatInv'
  BY <1>3, RunKeeps
<1>4. ASSUME NEW s \in Sessions, CommitCreate(s)
      PROVE  ChatInv'
  BY <1>4, CreateKeeps
<1>5. ASSUME NEW s \in Sessions, ConfirmDelete(s)
      PROVE  ChatInv'
  BY <1>5, DeleteKeeps
<1>6. ASSUME NEW r \in chatRequests, CommitRequest(r)
      PROVE  ChatInv'
  BY <1>6, ChatCommitKeeps
<1>7. ASSUME NEW r \in chatRequests, RequestSucceeds(r)
      PROVE  ChatInv'
  BY <1>7, SucceedKeeps
<1>8. ASSUME NEW r \in chatRequests, RequestFails(r)
      PROVE  ChatInv'
  BY <1>8, FailKeeps
<1>9. CASE HandleSend
  BY <1>9, SendKeeps
<1>10. CASE HandleStop
  BY <1>10, StopKeeps
<1>11. CASE EnsureSession("send") \/ EnsureSession("upload")
  BY <1>11, EnsureKeeps
<1>12. CASE CreateResponds
  BY <1>12, RespondKeeps
<1>13. CASE CreateFails
  BY <1>13, CreateFailKeeps
<1>14. ASSUME NEW a \in Sessions \cup {None}, ShowSession(a)
       PROVE  ChatInv'
  BY <1>14, ShowKeeps
<1>15. CASE MarkRead
  BY <1>15, MarkKeeps
<1>16. CASE ReceiveChatEvent
  BY <1>16, ChatReceiveKeeps
<1>17. CASE DisconnectChat
  BY <1>17, ChatDisconnectKeeps
<1>18. CASE ReconnectChat
  BY <1>18, ReconnectKeeps
<1>19. CASE UNCHANGED <<socketVars, chatVars>>
  BY <1>19, ChatStutters
<1> QED
  BY <1>1, <1>2, <1>3, <1>4, <1>5, <1>6, <1>7, <1>8, <1>9, <1>10, <1>11, <1>12, <1>13, <1>14,
     <1>15, <1>16, <1>17, <1>18, <1>19 DEF ChatNext

\* At rest a query that is settled is sure.
LEMMA SettledIsSure ==
  ASSUME NEW q, Sound(q), Settled(q), q.fetch = None
  PROVE  Sure(q)
BY DEF Sound, Settled, Sure

\* In every state of the invariant the pill, the messages and the list are right.
THEOREM ChatShown ==
  ASSUME ChatInv
  PROVE  ChatTypeOK /\ PillHonest /\ MessagesExact /\ UnreadShown
<1>1. /\ \A types, s : ~ Hears(<<>>, types, s)
      /\ \A s, id : ~ Starting(<<>>, s, id)
  BY NothingHeard
<1>2. /\ \A t \in Sessions : Sound(queries.messages[t]) /\ Sound(queries.pending[t])
      /\ Sound(queries.rows)
  BY QueriesAre DEF ChatInv
<1>3. ASSUME ChatAtRest
      PROVE  /\ wire = <<>> /\ creating = None /\ queries.rows.fetch = None
             /\ \A s \in Sessions : /\ queries.messages[s].fetch = None
                                    /\ queries.pending[s].fetch = None
             /\ \A s \in Sessions : ~ Sending(s) /\ ~ Stopping(s)
             /\ ~ Editing
  BY <1>3 DEF ChatAtRest, Sending, Stopping, Editing
<1>4. PillHonest
  <2> SUFFICES ASSUME ChatAtRest, "pending" \in scenario.follows, NEW s \in Sessions,
                      Settled(queries.pending[s])
               PROVE  queries.pending[s].data = ServerPill(s)
    BY DEF PillHonest
  <2>1. Sure(queries.pending[s])
    BY <1>2, <1>3, SettledIsSure
  <2>2. PillIs(queries.pending[s].data, s, ServerPill(s), <<>>)
    BY <1>1, <1>3, <2>1 DEF ChatInv, PillTold
  <2> QED
    BY <1>1, <2>2 DEF PillIs
<1>5. MessagesExact
  <2> SUFFICES ASSUME ChatAtRest, "messages" \in scenario.follows, NEW s \in Sessions,
                      Settled(queries.messages[s])
               PROVE  queries.messages[s].data = chat[s].messages
    BY DEF MessagesExact
  <2>1. Sure(queries.messages[s])
    BY <1>2, <1>3, SettledIsSure
  <2> QED
    BY <1>1, <1>3, <2>1 DEF ChatInv, MessagesTold
<1>6. UnreadShown
  <2> SUFFICES ASSUME ChatAtRest, "rows" \in scenario.follows, Settled(queries.rows)
               PROVE  queries.rows.data = SessionRows(chat)
    BY DEF UnreadShown
  <2>1. Sure(queries.rows)
    BY <1>2, <1>3, SettledIsSure
  <2>2. \A s \in Sessions : SessionRows(chat)[s] = Marked(<<>>, s, queries.rows.data[s])
    BY <1>1, <1>3, <2>1 DEF ChatInv, RowsTold
  <2>3. \A s \in Sessions : SessionRows(chat)[s] = queries.rows.data[s]
    BY <1>1, <2>2 DEF Marked
  <2>4. queries.rows.data \in [Sessions -> {"gone", "read", "unread"}]
    BY <2>1, QueriesAre DEF ChatInv, RowsQuery, Query, Rows, Sure
  <2>5. SessionRows(chat) \in [Sessions -> {"gone", "read", "unread"}]
    BY DEF SessionRows
  <2> QED
    BY <2>3, <2>4, <2>5
<1> QED
  BY <1>4, <1>5, <1>6 DEF ChatInv, ChatBase

\* The chat by itself keeps the invariant.
THEOREM ChatInvariant == ChatSpec => []ChatInv
<1>1. SocketInit /\ ChatInit => ChatInv
  BY ChatStarts
<1>2. ChatInv /\ [ChatNext]_<<socketVars, chatVars>> => ChatInv'
  BY ChatKeeps
<1> QED
  BY <1>1, <1>2, PTL DEF ChatSpec
=================================
