--------------------------- MODULE IssueBoardProofs ---------------------------
(***************************************************************************)
(* What is proved about the issue board: at rest, the board and the page   *)
(* of an issue show what the server has (BoardExact, DetailExact), for any *)
(* issues, statuses, requests at once and pages.                           *)
(*                                                                         *)
(* The invariant is BoardInv.  Its heart is the server as the events that  *)
(* have been handled tell of it, a function b from which the events on the *)
(* wire lead to the server as it is (Told): what is neither stale nor      *)
(* being fetched nor doubted is exact as of b, and at rest b is the        *)
(* server.  A list that an optimistic write has changed is not exact until *)
(* the request is over, when it is fetched again; a clean fetch has        *)
(* answers of a server that has not changed since.  The lemmas say what    *)
(* the operations keep of one query, what events do to b, what the bucket  *)
(* helpers do to exact buckets, and then, step by step, that BoardInv      *)
(* holds.                                                                  *)
(***************************************************************************)
EXTENDS IssueBoard, FiniteSetTheorems, TLAPS

-----------------------------------------------------------------------------
(***************************************************************************)
(* The inductive invariant.                                                *)
(***************************************************************************)
Servers == [Issues -> Statuses \cup {"unborn", "deleted"}]

IssueEvents == {f \in IssueEvent : f.type # "deleted" => f.status \in Statuses}

\* The server as it was just before event f was sent, and after.
Happened(b, f) ==
    IF f.type = "created" THEN b[f.issue] = "unborn" ELSE b[f.issue] \in Statuses

After(b, f) ==
    [b EXCEPT ![f.issue] = IF f.type = "deleted" THEN "deleted" ELSE f.status]

\* The states S lead from b to t by the events w.
Leads(S, b, w, t) ==
    /\ S[1] = b /\ S[Len(w) + 1] = t
    /\ \A k \in 1..Len(w) : Happened(S[k], w[k]) /\ S[k + 1] = After(S[k], w[k])

\* b is the server as the events that have been handled tell of it: those on the wire
\* lead from there to the server as it is.
Told(b, w, t) == \E S \in [1..(Len(w) + 1) -> Servers] : Leads(S, b, w, t)

Having(b, s) == {i \in Issues : b[i] = s}

\* The buckets are exact as of server b.
ExactAt(d, b) ==
    \A s \in Paginated :
        /\ d[s].total = Cardinality(Having(b, s))
        /\ \A i \in Issues : d[s].rows[i] > 0 => d[s].rows[i] = 1 /\ b[i] = s

\* An answer of server t for status s.
PageAt(t, s, u) ==
    /\ u.total = Cardinality(Having(t, s))
    /\ \A i \in Issues : u.rows[i] > 0 => u.rows[i] = 1 /\ t[i] = s

\* What the list needs whatever is under way: a clean fetch has the answers of the
\* server as it is, and no event has been sent since.
ListFetched(q, t, w) ==
    /\ q.stale = q.owed
    /\ q.fetch # None /\ q.fetch.clean /\ q.fetch.answers # {} =>
          w = <<>> /\ \A a \in q.fetch.answers : PageAt(t, a[1], a[2])

\* The list, for the server t, events w on the wire of connection c, which lead from b
\* to t, and requests rs: what is stale is fetched, now or when the requests are over,
\* and what is neither stale nor fetched nor doubted is exact.
ListSound(q, b, t, c, w, rs) ==
    /\ ListFetched(q, t, w)
    /\ q.mounted /\ (q.data = None \/ q.stale) => q.fetch # None \/ rs # {}
    /\ (/\ q.data # None /\ q.doubt = {} /\ q.stale = FALSE /\ q.fetch = None
        /\ c = "up" /\ rs = {}) => ExactAt(q.data, b)

\* A fetch of the page of an issue, whose status is t now and was v before the events
\* news that are still on the wire.
DetailFetched(q, v, t, news) ==
    /\ q.stale = q.owed
    /\ q.mounted \/ q.fetch # None => t # "unborn"
    /\ q.fetch # None => \A a \in q.fetch.answers :
          /\ a[2] = None => t = "deleted"
          /\ a[2] # None /\ q.fetch.clean => a[2] = v /\ v = t /\ news = {}

\* The page; rs are the requests whose end fetches it again.
DetailSound(q, v, t, c, news, rs) ==
    /\ DetailFetched(q, v, t, news)
    /\ q.mounted /\ q.stale /\ q.fetch = None => t = "deleted"
    /\ (/\ q.data # None /\ q.doubt = {} /\ q.stale = FALSE
        /\ c = "up" /\ rs = {}) => q.data = v

\* useLoadMoreByStatus in flight.
MoreSound(m, t, w) ==
    \/ m = None
    \/ /\ m \in More
       /\ m.answer # None /\ m.clean => w = <<>> /\ PageAt(t, m.status, m.answer)

Requests == {r \in Slots : issueRequest[r] # None}

UpdatesOf(i) == {r \in Requests : issueRequest[r].kind = "update" /\ i \in issueRequest[r].ids}

NewsOf(i) == {k \in 1..Len(wire) : wire[k].issue = i}

RequestSound(q) ==
    /\ q.ids # {}
    /\ q.kind \in {"create", "update", "batchUpdate"} => q.status \in Statuses
    /\ q.kind \in {"create", "batchUpdate", "batchDelete"} => q.prevDetail = None

ListQuery == Query(Buckets, Paginated \X Bucket)

DetailQuery == Query(Statuses, {"issue"} \X (Statuses \cup {None}))

BoardTyped ==
    /\ serverIssue \in Servers /\ page \in Pages
    /\ list \in ListQuery /\ detail \in [Opened -> DetailQuery]
    /\ issueRequest \in [Slots -> IssueRequest \cup {None}]
    /\ \A r \in Slots : issueRequest[r] # None => RequestSound(issueRequest[r])
    /\ wire \in Seq(IssueEvents) /\ conn \in {"up", "down"}
    /\ conn = "down" => wire = <<>>

ClientSound(b) ==
    /\ Told(b, wire, serverIssue)
    /\ ListSound(list, b, serverIssue, conn, wire, Requests)
    /\ \A i \in Opened :
          DetailSound(detail[i], b[i], serverIssue[i], conn, NewsOf(i), UpdatesOf(i))

BoardInv ==
    /\ BoardTyped /\ MoreSound(more, serverIssue, wire)
    /\ \E b \in Servers : ClientSound(b)

-----------------------------------------------------------------------------
(***************************************************************************)
(* The operations on a query, whatever its data and answers.               *)
(***************************************************************************)
LEMMA QueryHas ==
  ASSUME NEW Data, NEW Answers, NEW q \in Query(Data, Answers)
  PROVE  /\ q.data \in Data \cup {None} /\ q.stale \in BOOLEAN /\ q.owed \in BOOLEAN
         /\ q.mounted \in BOOLEAN /\ q.doubt \subseteq Doubts
         /\ q.fetch \in {None} \cup Fetches(Answers)
         /\ q.fetch # None => /\ q.fetch.answers \subseteq Answers
                              /\ q.fetch.clean \in BOOLEAN
BY DEF Query, Fetches

LEMMA FetchStarts ==
  ASSUME NEW Answers, None \notin Fetches(Answers)
  PROVE  /\ Fetching \in Fetches(Answers) /\ Fetching # None
         /\ Fetching.answers = {} /\ Fetching.clean
<1>1. Fetching \in [answers : SUBSET Answers, clean : BOOLEAN]
  BY DEF Fetching
<1> QED
  BY <1>1 DEF Fetches, Fetching

LEMMA AbsentIs ==
  ASSUME NEW Data, NEW Answers
  PROVE  /\ Absent \in Query(Data, Answers) /\ Absent.data = None /\ ~ Absent.stale
         /\ ~ Absent.owed /\ ~ Absent.mounted /\ Absent.fetch = None
         /\ Absent.doubt = {}
BY DEF Absent, Query

LEMMA QueryWritten ==
  ASSUME NEW Data, NEW Answers, NEW q \in Query(Data, Answers), NEW d \in Data
  PROVE  LET n == Write(q, d)
         IN  /\ n \in Query(Data, Answers) /\ n.data = d
             /\ n.fetch = q.fetch /\ n.mounted = q.mounted
             /\ ~ n.stale /\ ~ n.owed /\ q.doubt \subseteq n.doubt
             /\ q.owed /\ q.fetch = None => n.doubt # {}
<1> DEFINE e == IF q.owed /\ q.fetch = None THEN q.doubt \cup {"forgotten"} ELSE q.doubt
<1>1. e \in SUBSET Doubts /\ q.doubt \subseteq e /\ (q.owed /\ q.fetch = None => e # {})
  BY QueryHas DEF Doubts
<1>2. q \in [data : Data \cup {None}, stale : BOOLEAN, owed : BOOLEAN, mounted : BOOLEAN,
             fetch : {None} \cup Fetches(Answers), doubt : SUBSET Doubts]
  BY DEF Query
<1> HIDE DEF e
<1>3. Write(q, d) = [q EXCEPT !.data = d, !.stale = FALSE, !.owed = FALSE, !.doubt = e]
  BY DEF Write, e
<1>4. /\ Write(q, d).data = d /\ Write(q, d).fetch = q.fetch
      /\ Write(q, d).mounted = q.mounted /\ Write(q, d).doubt = e
      /\ Write(q, d).stale = FALSE /\ Write(q, d).owed = FALSE
  BY <1>2, <1>3
<1>5. Write(q, d) \in Query(Data, Answers)
  BY <1>1, <1>2, <1>3 DEF Query
<1> QED
  BY <1>1, <1>4, <1>5

\* setQueryData with an updater, whose value d is used only when there is data.
LEMMA QueryPatched ==
  ASSUME NEW Data, NEW Answers, NEW q \in Query(Data, Answers), None \notin Data,
         NEW d, q.data # None => d \in Data
  PROVE  LET n == Patch(q, d)
         IN  /\ n \in Query(Data, Answers) /\ n.fetch = q.fetch /\ n.mounted = q.mounted
             /\ q.data = None => n = q
             /\ q.data # None => n.data = d /\ ~ n.stale /\ ~ n.owed
             /\ (n.data = None <=> q.data = None) /\ q.doubt \subseteq n.doubt
             /\ q.data # None /\ q.owed /\ q.fetch = None => n.doubt # {}
<1>1. CASE q.data = None
  BY <1>1 DEF Patch
<1>2. CASE q.data # None
  <2>1. d \in Data /\ Patch(q, d) = Write(q, d)
    BY <1>2 DEF Patch
  <2> DEFINE n == Write(q, d)
  <2>2. /\ n \in Query(Data, Answers) /\ n.data = d
        /\ n.fetch = q.fetch /\ n.mounted = q.mounted
        /\ n.stale = FALSE /\ n.owed = FALSE /\ q.doubt \subseteq n.doubt
        /\ q.owed /\ q.fetch = None => n.doubt # {}
    BY <2>1, QueryWritten
  <2> HIDE DEF n
  <2> QED
    BY <1>2, <2>1, <2>2 DEF n
<1> QED
  BY <1>1, <1>2

LEMMA QueryDoubted ==
  ASSUME NEW Data, NEW Answers, NEW q \in Query(Data, Answers), NEW why \in Doubts
  PROVE  LET n == [q EXCEPT !.doubt = @ \cup {why}]
         IN  /\ n \in Query(Data, Answers) /\ n.data = q.data /\ n.fetch = q.fetch
             /\ n.mounted = q.mounted /\ n.stale = q.stale /\ n.owed = q.owed
             /\ n.doubt # {}
<1> DEFINE e == q.doubt \cup {why}
<1>1. e \in SUBSET Doubts /\ e # {}
  BY QueryHas
<1>2. [q EXCEPT !.doubt = @ \cup {why}] = [q EXCEPT !.doubt = e]
  OBVIOUS
<1> HIDE DEF e
<1> QED
  BY <1>1, <1>2 DEF Query

\* What an invalidation leaves is stale, or fetched again, or without data.
LEMMA QueryInvalidated ==
  ASSUME NEW Data, NEW Answers, NEW q \in Query(Data, Answers), None \notin Fetches(Answers)
  PROVE  LET n == Invalidate(q)
         IN  /\ n \in Query(Data, Answers) /\ n.data = q.data /\ n.mounted = q.mounted
             /\ n.doubt = q.doubt
             /\ q.data # None => n.stale /\ n.owed
             /\ q.data = None => n.stale = q.stale /\ n.owed = q.owed
             /\ q.mounted => n.fetch # None
             /\ n.fetch = q.fetch \/ (n.fetch = Fetching /\ q.mounted)
BY FetchStarts, QueryHas DEF Invalidate, Flag, Query

LEMMA QueryCancelled ==
  ASSUME NEW Data, NEW Answers, NEW q \in Query(Data, Answers)
  PROVE  LET n == Cancel(q)
         IN  /\ n \in Query(Data, Answers) /\ n.data = q.data /\ n.fetch = None
             /\ n.mounted = q.mounted /\ n.stale = q.stale /\ n.owed = q.owed
             /\ n.doubt = q.doubt
BY QueryHas DEF Cancel, Query

LEMMA QueryForgotten ==
  ASSUME NEW Data, NEW Answers, NEW q \in Query(Data, Answers)
  PROVE  LET n == Forget(q)
         IN  /\ n \in Query(Data, Answers) /\ n.data = None /\ n.fetch = None
             /\ n.mounted = q.mounted /\ ~ n.stale /\ ~ n.owed
BY QueryHas DEF Forget, Absent, Query

LEMMA QueryMounted ==
  ASSUME NEW Data, NEW Answers, NEW q \in Query(Data, Answers), None \notin Fetches(Answers)
  PROVE  LET n == Mount(q)
         IN  /\ n \in Query(Data, Answers) /\ n.data = q.data /\ n.mounted
             /\ n.stale = q.stale /\ n.owed = q.owed /\ n.doubt = q.doubt
             /\ (q.data = None \/ q.stale) => n.fetch # None
             /\ n.fetch = q.fetch \/ n.fetch = Fetching
             /\ n.fetch = None => q.fetch = None
BY FetchStarts, QueryHas DEF Mount, Query

LEMMA QueryUnmounted ==
  ASSUME NEW Data, NEW Answers, NEW q \in Query(Data, Answers)
  PROVE  LET n == Unmount(q)
         IN  /\ n \in Query(Data, Answers) /\ n.data = q.data /\ ~ n.mounted
             /\ n.stale = q.stale /\ n.owed = q.owed /\ n.doubt = q.doubt
             /\ n.fetch = q.fetch
BY QueryHas DEF Unmount, Query

LEMMA QueryAnswered ==
  ASSUME NEW Data, NEW Answers, NEW q \in Query(Data, Answers), None \notin Fetches(Answers),
         NEW part, NEW answer, <<part, answer>> \in Answers, NEW quiet \in BOOLEAN,
         q.fetch # None
  PROVE  LET n == Answer(q, part, answer, quiet)
         IN  /\ n \in Query(Data, Answers) /\ n.data = q.data /\ n.mounted = q.mounted
             /\ n.stale = q.stale /\ n.owed = q.owed /\ n.doubt = q.doubt
             /\ n.fetch # None /\ n.fetch.answers = q.fetch.answers \cup {<<part, answer>>}
             /\ n.fetch.clean = (q.fetch.clean /\ quiet)
<1> DEFINE u == q.fetch.answers \cup {<<part, answer>>}
           c == q.fetch.clean /\ quiet
           f == [answers |-> u, clean |-> c]
<1>1. u \in SUBSET Answers /\ c \in BOOLEAN
  BY QueryHas
<1>2. f \in Fetches(Answers) /\ f.answers = u /\ f.clean = c
  BY <1>1 DEF Fetches
<1>3. Answer(q, part, answer, quiet) = [q EXCEPT !.fetch = f]
  BY DEF Answer
<1> HIDE DEF f
<1> QED
  BY <1>2, <1>3 DEF Query

LEMMA QueryLanded ==
  ASSUME NEW Data, NEW Answers, NEW q \in Query(Data, Answers), NEW d \in Data,
         q.fetch # None
  PROVE  LET n == Land(q, d)
         IN  /\ n \in Query(Data, Answers) /\ n.data = d /\ n.mounted = q.mounted
             /\ ~ n.stale /\ ~ n.owed /\ n.fetch = None
             /\ n.doubt = {} => q.fetch.clean
<1> DEFINE e == IF q.fetch.clean THEN {} ELSE {"overlap"}
<1>1. e \in SUBSET Doubts /\ (e = {} => q.fetch.clean)
  BY QueryHas DEF Doubts
<1>2. Land(q, d) = [q EXCEPT !.data = d, !.stale = FALSE, !.owed = FALSE, !.fetch = None,
                             !.doubt = e]
  BY DEF Land
<1> HIDE DEF e
<1> QED
  BY <1>1, <1>2 DEF Query

\* The server's change is noticed by a fetch that has some of its answers.
LEMMA QueryTouched ==
  ASSUME NEW Data, NEW Answers, NEW q \in Query(Data, Answers), None \notin Fetches(Answers)
  PROVE  LET n == Touch(q)
         IN  /\ n \in Query(Data, Answers) /\ n.data = q.data /\ n.mounted = q.mounted
             /\ n.stale = q.stale /\ n.owed = q.owed /\ n.doubt = q.doubt
             /\ (n.fetch = None <=> q.fetch = None)
             /\ q.fetch # None => n.fetch.answers = q.fetch.answers
             /\ n.fetch # None /\ n.fetch.clean => n.fetch.answers = {}
<1>1. CASE q.fetch # None /\ q.fetch.answers # {}
  <2> DEFINE f == [q.fetch EXCEPT !.clean = FALSE]
  <2>1. q.fetch \in [answers : SUBSET Answers, clean : BOOLEAN]
    BY <1>1, QueryHas DEF Fetches
  <2>2. f \in Fetches(Answers) /\ f.answers = q.fetch.answers /\ f.clean = FALSE
    BY <2>1 DEF Fetches
  <2>3. Touch(q) = [q EXCEPT !.fetch = f]
    BY <1>1 DEF Touch
  <2> HIDE DEF f
  <2> QED
    BY <1>1, <2>2, <2>3 DEF Query
<1>2. CASE ~ (q.fetch # None /\ q.fetch.answers # {})
  <2>1. Touch(q) = q
    BY <1>2 DEF Touch, Query
  <2> QED
    BY <1>2, <2>1
<1> QED
  BY <1>1, <1>2

-----------------------------------------------------------------------------
(***************************************************************************)
(* The events on the wire and what they tell of the server.                *)
(***************************************************************************)
LEMMA ToldNow == ASSUME NEW t \in Servers PROVE Told(t, <<>>, t)
<1> DEFINE S == [k \in 1..(Len(<<>>) + 1) |-> t]
<1>1. S \in [1..(Len(<<>>) + 1) -> Servers] /\ S[1] = t
  OBVIOUS
<1>2. Leads(S, t, <<>>, t)
  BY <1>1 DEF Leads
<1> HIDE DEF S
<1> QED
  BY <1>1, <1>2 DEF Told

LEMMA ToldDone == ASSUME NEW b, NEW t, Told(b, <<>>, t) PROVE b = t
BY DEF Told, Leads

LEMMA EventHas ==
  ASSUME NEW f \in IssueEvents
  PROVE  /\ f.type \in {"created", "updated", "deleted"} /\ f.issue \in Issues
         /\ f.type # "deleted" => f.status \in Statuses
BY DEF IssueEvents, IssueEvent

LEMMA AfterIs ==
  ASSUME NEW b \in Servers, NEW f \in IssueEvents
  PROVE  LET v == IF f.type = "deleted" THEN "deleted" ELSE f.status
         IN  /\ After(b, f) \in Servers
             /\ \A i \in Issues : After(b, f)[i] = IF i = f.issue THEN v ELSE b[i]
BY EventHas DEF After, Servers

\* Handling the event at the head.
LEMMA ToldHandled ==
  ASSUME NEW w \in Seq(IssueEvents), NEW b \in Servers, NEW t, w # <<>>, Told(b, w, t)
  PROVE  /\ w[1] \in IssueEvents /\ Happened(b, w[1]) /\ After(b, w[1]) \in Servers
         /\ Tail(w) \in Seq(IssueEvents) /\ Len(Tail(w)) = Len(w) - 1
         /\ \A k \in 1..Len(Tail(w)) : k + 1 \in 1..Len(w) /\ Tail(w)[k] = w[k + 1]
         /\ Told(After(b, w[1]), Tail(w), t)
<1>1. /\ Len(w) \in Nat /\ Len(w) # 0 /\ 1 \in 1..Len(w) /\ w[1] \in IssueEvents
      /\ Tail(w) \in Seq(IssueEvents) /\ Len(Tail(w)) = Len(w) - 1
      /\ \A k \in 1..(Len(w) - 1) : k + 1 \in 1..Len(w) /\ Tail(w)[k] = w[k + 1]
  OBVIOUS
<1>2. PICK S \in [1..(Len(w) + 1) -> Servers] : Leads(S, b, w, t)
  BY DEF Told
<1> DEFINE n == Len(w)
           v == Tail(w)
           R == [k \in 1..n |-> S[k + 1]]
<1>3. /\ S[1] = b /\ S[n + 1] = t
      /\ \A k \in 1..n : Happened(S[k], w[k]) /\ S[k + 1] = After(S[k], w[k])
  BY <1>2 DEF Leads
<1>4. Happened(b, w[1]) /\ S[2] = After(b, w[1])
  BY <1>1, <1>3
<1>5. After(b, w[1]) \in Servers
  BY <1>1, AfterIs
<1>6. R \in [1..n -> Servers] /\ R[1] = After(b, w[1]) /\ R[n] = t
  BY <1>1, <1>3, <1>4
<1> HIDE DEF n, v
<1>7. n \in Nat /\ n # 0 /\ Len(v) = n - 1 /\ \A k \in 1..(n - 1) : k + 1 \in 1..n /\ v[k] = w[k + 1]
  BY <1>1 DEF n, v
<1>8. ASSUME NEW k \in 1..Len(v)
      PROVE  Happened(R[k], v[k]) /\ R[k + 1] = After(R[k], v[k])
  <2>1. k \in 1..(n - 1) /\ k + 1 \in 1..n /\ k \in 1..n /\ k + 2 = (k + 1) + 1
    BY <1>7
  <2>2. R[k] = S[k + 1] /\ R[k + 1] = S[k + 2] /\ v[k] = w[k + 1]
    BY <1>7, <2>1
  <2>3. Happened(S[k + 1], w[k + 1]) /\ S[k + 2] = After(S[k + 1], w[k + 1])
    BY <1>3, <2>1
  <2> QED
    BY <2>2, <2>3
<1> HIDE DEF R
<1>9. Len(v) + 1 = n
  BY <1>7
<1>10. Leads(R, After(b, w[1]), v, t)
  BY <1>6, <1>8, <1>9 DEF Leads
<1>11. Told(After(b, w[1]), v, t)
  BY <1>6, <1>9, <1>10 DEF Told
<1> QED
  BY <1>1, <1>4, <1>5, <1>11 DEF n, v

\* What a change of the issues ids makes of them.
ChangedTo(t, ids, type, s) ==
    [i \in Issues |-> IF i \in ids THEN IF type = "deleted" THEN "deleted" ELSE s ELSE t[i]]

\* A change that the server can make.
CanChange(t, ids, type, s) ==
    /\ ids \subseteq Issues /\ type \in {"created", "updated", "deleted"}
    /\ s \in Statuses \cup {None} /\ (type # "deleted" => s \in Statuses)
    /\ \A i \in ids : IF type = "created" THEN t[i] = "unborn" ELSE t[i] \in Statuses

LEMMA ChangedIs ==
  ASSUME NEW t \in Servers, NEW ids, NEW type, NEW s, CanChange(t, ids, type, s)
  PROVE  ChangedTo(t, ids, type, s) \in Servers
BY DEF CanChange, ChangedTo, Servers

\* The events of a change, in any order, follow those on their way.
LEMMA ToldMore ==
  ASSUME NEW w \in Seq(IssueEvents), NEW b \in Servers, NEW t \in Servers, Told(b, w, t),
         NEW ids, NEW type, NEW s, CanChange(t, ids, type, s), NEW n \in Nat,
         NEW order \in Bijection(1..n, ids), NEW events,
         events = [k \in 1..n |-> IssueEventOf(order[k], type, s)]
  PROVE  /\ w \o events \in Seq(IssueEvents)
         /\ Told(b, w \o events, ChangedTo(t, ids, type, s))
         /\ \A k \in 1..Len(w \o events) :
               \/ k \in 1..Len(w) /\ (w \o events)[k] = w[k]
               \/ (w \o events)[k].issue \in ids
<1> DEFINE m == Len(w)
           u == w \o events
           v == IF type = "deleted" THEN "deleted" ELSE s
           Mid(j) == [i \in Issues |-> IF \E k \in 1..j : order[k] = i THEN v ELSE t[i]]
<1>1. /\ order \in [1..n -> ids]
      /\ \A j, k \in 1..n : order[j] = order[k] => j = k
      /\ \A i \in ids : \E k \in 1..n : order[k] = i
  <2>1. order \in [1..n -> ids] /\ IsInjective(order)
    BY DEF Bijection, Injection
  <2>2. DOMAIN order = 1..n
    BY <2>1
  <2> QED
    BY <2>1, <2>2 DEF Bijection, Surjection, IsInjective
<1>2. ids \subseteq Issues /\ v \in Statuses \cup {"deleted"}
  BY DEF CanChange
<1>3. ASSUME NEW k \in 1..n
      PROVE  /\ events[k] \in IssueEvents /\ events[k].issue = order[k]
             /\ events[k].type = type /\ events[k].status = s
  <2>1. order[k] \in ids /\ events[k] = IssueEventOf(order[k], type, s)
    BY <1>1
  <2> QED
    BY <2>1, <1>2 DEF IssueEventOf, IssueEvents, IssueEvent, CanChange
<1>4. events \in Seq(IssueEvents) /\ Len(events) = n
  BY <1>3
<1>5. /\ m \in Nat /\ u \in Seq(IssueEvents) /\ Len(u) = m + n
      /\ \A k \in 1..m : u[k] = w[k]
      /\ \A k \in 1..n : u[m + k] = events[k]
  BY <1>4
<1>6. PICK S \in [1..(m + 1) -> Servers] : Leads(S, b, w, t)
  BY DEF Told
<1>7. /\ S[1] = b /\ S[m + 1] = t
      /\ \A k \in 1..m : Happened(S[k], w[k]) /\ S[k + 1] = After(S[k], w[k])
  BY <1>6 DEF Leads
<1> HIDE DEF m, u
<1>8. \A j \in 0..n : Mid(j) \in Servers
  BY <1>2 DEF Servers
<1>9. Mid(0) = t
  BY DEF Servers
<1>10. Mid(n) = ChangedTo(t, ids, type, s)
  <2>1. \A i \in Issues : (\E k \in 1..n : order[k] = i) <=> i \in ids
    BY <1>1
  <2> QED
    BY <2>1 DEF ChangedTo
<1>11. ASSUME NEW j \in 0..(n - 1)
       PROVE  /\ Happened(Mid(j), events[j + 1])
              /\ Mid(j + 1) = After(Mid(j), events[j + 1])
  <2> DEFINE f == events[j + 1]
             o == order[j + 1]
  <2>1. /\ j + 1 \in 1..n /\ f \in IssueEvents /\ f.issue = o
        /\ f.type = type /\ f.status = s
    <3>1. j + 1 \in 1..n
      OBVIOUS
    <3> QED
      BY <3>1, <1>3
  <2>2. o \in ids /\ o \in Issues
    BY <1>1, <1>2, <2>1
  <2>3. \A k \in 1..j : order[k] # o
    <3> SUFFICES ASSUME NEW k \in 1..j PROVE order[k] # o
      OBVIOUS
    <3>1. k \in 1..n /\ k # j + 1
      OBVIOUS
    <3> QED
      BY <3>1, <2>1, <1>1
  <2>4. Mid(j)[o] = t[o]
    BY <2>2, <2>3
  <2>5. Happened(Mid(j), f)
    BY <2>1, <2>2, <2>4 DEF Happened, CanChange
  <2>6. \A i \in Issues : (\E k \in 1..(j + 1) : order[k] = i)
                             <=> i = o \/ (\E k \in 1..j : order[k] = i)
    <3>1. \A k \in 1..(j + 1) : k = j + 1 \/ k \in 1..j
      OBVIOUS
    <3>2. j + 1 \in 1..(j + 1) /\ \A k \in 1..j : k \in 1..(j + 1)
      OBVIOUS
    <3> QED
      BY <3>1, <3>2
  <2>7. After(Mid(j), f) = [i \in Issues |-> IF i = o THEN v ELSE Mid(j)[i]]
    BY <2>1, <2>2 DEF After
  <2>8. Mid(j + 1) = [i \in Issues |-> IF i = o THEN v ELSE Mid(j)[i]]
    BY <2>6
  <2> QED
    BY <2>5, <2>7, <2>8
<1> DEFINE R == [k \in 1..(m + n + 1) |-> IF k \in 1..m THEN S[k] ELSE Mid(k - m - 1)]
<1>12. R \in [1..(m + n + 1) -> Servers]
  <2> SUFFICES ASSUME NEW k \in 1..(m + n + 1)
               PROVE  (IF k \in 1..m THEN S[k] ELSE Mid(k - m - 1)) \in Servers
    OBVIOUS
  <2>1. CASE k \in 1..m
    BY <2>1, <1>5
  <2>2. CASE k \notin 1..m
    <3>1. k - m - 1 \in 0..n
      BY <2>2, <1>5
    <3> QED
      BY <2>2, <3>1, <1>8
  <2> QED
    BY <2>1, <2>2
<1> HIDE DEF Mid
<1>13. R[m + 1] = t /\ \A k \in 1..m : R[k] = S[k]
  <2>1. m + 1 \in 1..(m + n + 1) /\ m + 1 \notin 1..m /\ (m + 1) - m - 1 = 0
    BY <1>5
  <2>2. R[m + 1] = Mid(0)
    BY <2>1
  <2>3. \A k \in 1..m : k \in 1..(m + n + 1)
    BY <1>5
  <2> QED
    BY <2>2, <2>3, <1>9
<1>14. R[1] = b
  <2>1. CASE m = 0
    BY <2>1, <1>7, <1>13
  <2>2. CASE m # 0
    <3>1. 1 \in 1..m
      BY <2>2, <1>5
    <3> QED
      BY <3>1, <1>7, <1>13
  <2> QED
    BY <2>1, <2>2
<1>15. \A j \in 0..n : R[m + 1 + j] = Mid(j)
  <2> SUFFICES ASSUME NEW j \in 0..n PROVE R[m + 1 + j] = Mid(j)
    OBVIOUS
  <2>1. m \in Nat /\ j \in Nat /\ j <= n
    BY <1>5
  <2>2. m + 1 + j \in 1..(m + n + 1) /\ m + 1 + j \notin 1..m
    BY <2>1
  <2>3. (m + 1 + j) - m - 1 = j
    BY <2>1
  <2>4. R[m + 1 + j] = Mid((m + 1 + j) - m - 1)
    BY <2>2
  <2> QED
    BY <2>3, <2>4
<1> HIDE DEF R
<1>16. ASSUME NEW k \in 1..Len(u)
       PROVE  Happened(R[k], u[k]) /\ R[k + 1] = After(R[k], u[k])
  <2>1. CASE k \in 1..m
    <3>1. u[k] = w[k] /\ R[k] = S[k] /\ Happened(S[k], w[k]) /\ S[k + 1] = After(S[k], w[k])
      BY <2>1, <1>5, <1>7, <1>13
    <3>2. R[k + 1] = S[k + 1]
      <4>1. CASE k = m
        BY <4>1, <1>7, <1>13
      <4>2. CASE k # m
        <5>1. k + 1 \in 1..m
          BY <2>1, <4>2, <1>5
        <5> QED
          BY <5>1, <1>13
      <4> QED
        BY <4>1, <4>2
    <3> QED
      BY <3>1, <3>2
  <2>2. CASE k \notin 1..m
    <3> DEFINE j == k - m - 1
    <3>1. /\ j \in 0..(n - 1) /\ j \in 0..n /\ j + 1 \in 0..n /\ j + 1 \in 1..n
          /\ k = m + (j + 1) /\ k = m + 1 + j /\ k + 1 = m + 1 + (j + 1)
      BY <2>2, <1>5
    <3> HIDE DEF j
    <3>2. u[k] = events[j + 1] /\ R[k] = Mid(j) /\ R[k + 1] = Mid(j + 1)
      BY <3>1, <1>5, <1>15
    <3> QED
      BY <3>1, <3>2, <1>11
  <2> QED
    BY <2>1, <2>2
<1>17. Leads(R, b, u, ChangedTo(t, ids, type, s))
  <2>1. R[Len(u) + 1] = Mid(n)
    <3>1. n \in 0..n /\ Len(u) + 1 = m + 1 + n
      BY <1>5
    <3> QED
      BY <3>1, <1>15
  <2> QED
    BY <2>1, <1>10, <1>14, <1>16 DEF Leads
<1>18. Told(b, u, ChangedTo(t, ids, type, s))
  <2>1. Len(u) + 1 = m + n + 1
    BY <1>5
  <2> QED
    BY <2>1, <1>12, <1>17 DEF Told
<1>19. ASSUME NEW k \in 1..Len(u)
       PROVE  (k \in 1..m /\ u[k] = w[k]) \/ u[k].issue \in ids
  <2>1. CASE k \in 1..m
    BY <2>1, <1>5
  <2>2. CASE k \notin 1..m
    <3> DEFINE j == k - m
    <3>1. j \in 1..n /\ k = m + j
      BY <2>2, <1>5
    <3> HIDE DEF j
    <3>2. u[k] = events[j] /\ order[j] \in ids
      BY <3>1, <1>5, <1>1
    <3> QED
      BY <3>1, <3>2, <1>3
  <2> QED
    BY <2>1, <2>2
<1> QED
  BY <1>5, <1>18, <1>19 DEF m, u

-----------------------------------------------------------------------------
(***************************************************************************)
(* The buckets: what the cache helpers keep exact.                         *)
(***************************************************************************)
LEMMA Apart ==
  /\ IsFiniteSet(Issues) /\ Opened \subseteq Issues
  /\ "unborn" \notin Statuses /\ "deleted" \notin Statuses /\ None \notin Statuses
  /\ None \notin Buckets /\ None \notin Bucket /\ None \notin IssueRequest
  /\ None \notin Fetches(Paginated \X Bucket)
  /\ None \notin Fetches({"issue"} \X (Statuses \cup {None}))
BY IssuesAssumption

LEMMA CountIs ==
  ASSUME NEW b, NEW s
  PROVE  /\ IsFiniteSet(Having(b, s)) /\ Cardinality(Having(b, s)) \in Nat
         /\ Having(b, s) \subseteq Issues
<1>1. Having(b, s) \subseteq Issues
  BY DEF Having
<1> QED
  BY <1>1, Apart, FS_Subset, FS_CardinalityType

\* How the number of issues with a status follows an event.
LEMMA CountAfter ==
  ASSUME NEW b \in Servers, NEW f \in IssueEvents, f.type # "deleted", NEW s
  PROVE  /\ f.status = s /\ b[f.issue] # s =>
               Cardinality(Having(After(b, f), s)) = Cardinality(Having(b, s)) + 1
         /\ f.status # s /\ b[f.issue] = s =>
               Cardinality(Having(After(b, f), s)) = Cardinality(Having(b, s)) - 1
         /\ (f.status = s <=> b[f.issue] = s) =>
               Cardinality(Having(After(b, f), s)) = Cardinality(Having(b, s))
<1> DEFINE c == After(b, f)
           i == f.issue
           v == f.status
<1>1. i \in Issues /\ \A j \in Issues : c[j] = IF j = i THEN v ELSE b[j]
  BY EventHas, AfterIs
<1> HIDE DEF c
<1>2. ASSUME v = s, b[i] # s
      PROVE  Cardinality(Having(c, s)) = Cardinality(Having(b, s)) + 1
  <2>1. Having(c, s) = Having(b, s) \cup {i} /\ i \notin Having(b, s)
    BY <1>1, <1>2 DEF Having
  <2>2. IsFiniteSet(Having(b, s))
    BY CountIs
  <2>3. Cardinality(Having(b, s) \cup {i}) = Cardinality(Having(b, s)) + 1
    BY ONLY <2>1, <2>2, FS_AddElement
  <2> QED
    BY ONLY <2>1, <2>3
<1>3. ASSUME v # s, b[i] = s
      PROVE  Cardinality(Having(c, s)) = Cardinality(Having(b, s)) - 1
  <2>1. Having(c, s) = Having(b, s) \ {i} /\ i \in Having(b, s)
    BY <1>1, <1>3 DEF Having
  <2>2. IsFiniteSet(Having(b, s))
    BY CountIs
  <2>3. Cardinality(Having(b, s) \ {i}) = Cardinality(Having(b, s)) - 1
    BY ONLY <2>1, <2>2, FS_RemoveElement
  <2> QED
    BY ONLY <2>1, <2>3
<1>4. ASSUME v = s <=> b[i] = s
      PROVE  Cardinality(Having(c, s)) = Cardinality(Having(b, s))
  <2>1. Having(c, s) = Having(b, s)
    BY <1>1, <1>4 DEF Having
  <2> QED
    BY <2>1
<1> QED
  BY <1>2, <1>3, <1>4 DEF c

LEMMA BucketHas ==
  ASSUME NEW d \in Buckets, NEW s \in Statuses
  PROVE  /\ d[s] \in Bucket /\ d[s].rows \in [Issues -> Nat] /\ d[s].total \in Nat
         /\ \A i \in Issues : d[s].rows[i] \in Nat
BY DEF Buckets, Bucket

LEMMA PaginatedIs ==
  /\ Paginated \subseteq Statuses /\ DOMAIN Board \subseteq Nat
  /\ \A k \in DOMAIN Board : Board[k] \in Paginated
BY BoardAssumption DEF Paginated, Statuses

LEMMA NatLeast ==
  ASSUME NEW T, T \subseteq Nat, T # {}
  PROVE  \E x \in T : \A y \in T : x <= y
<1> DEFINE R == OpToRel(<, Nat)
<1>1. IsWellFoundedOn(R, Nat)
  BY NatLessThanWellFounded
<1>2. PICK x \in T : \A y \in T : ~ (<<y, x>> \in R)
  <2> HIDE DEF R
  <2> QED
    BY <1>1, WFMin
<1>3. \A y \in T : x <= y
  <2> SUFFICES ASSUME NEW y \in T PROVE x <= y
    OBVIOUS
  <2>1. ~ (y < x)
    BY <1>2 DEF OpToRel
  <2> QED
    BY <2>1
<1> QED
  BY <1>3

\* findIssueLocation finds a bucket that holds the issue, if there is one.
LEMMA LocationIs ==
  ASSUME NEW d \in Buckets, NEW i \in Issues
  PROVE  /\ Located(d, i) => /\ LocationOf(d, i) \in Paginated
                             /\ d[LocationOf(d, i)].rows[i] > 0
         /\ ~ Located(d, i) => \A s \in Paginated : d[s].rows[i] = 0
<1>1. ASSUME Located(d, i)
      PROVE  LocationOf(d, i) \in Paginated /\ d[LocationOf(d, i)].rows[i] > 0
  <2> DEFINE T == PlacesOf(d, i)
             k == CHOOSE x \in T : \A y \in T : x <= y
  <2>1. T \subseteq Nat /\ T # {} /\ \A x \in T : x \in DOMAIN Board /\ d[Board[x]].rows[i] > 0
    BY <1>1, PaginatedIs DEF Located, PlacesOf
  <2> HIDE DEF T
  <2>2. \E x \in T : \A y \in T : x <= y
    BY <2>1, NatLeast
  <2>3. k \in T
    BY <2>2
  <2>4. LocationOf(d, i) = Board[k]
    BY DEF LocationOf, T
  <2> HIDE DEF k
  <2> QED
    BY <2>1, <2>3, <2>4, PaginatedIs
<1>2. ASSUME ~ Located(d, i), NEW s \in Paginated
      PROVE  d[s].rows[i] = 0
  <2>1. PICK k \in DOMAIN Board : s = Board[k]
    BY DEF Paginated
  <2>2. ~ (d[s].rows[i] > 0)
    BY <1>2, <2>1 DEF Located, PlacesOf
  <2>3. d[s].rows[i] \in Nat
    BY PaginatedIs, BucketHas
  <2> QED
    BY <2>2, <2>3
<1> QED
  BY <1>1, <1>2

LEMMA WithRowIs ==
  ASSUME NEW d \in Buckets, NEW s \in Statuses, NEW i \in Issues
  PROVE  LET n == WithRow(d, s, i)
         IN  /\ n \in Buckets
             /\ \A t \in Statuses : t # s => n[t] = d[t]
             /\ n[s].total = d[s].total + 1
             /\ \A j \in Issues : n[s].rows[j] = IF j = i THEN d[s].rows[j] + 1
                                                 ELSE d[s].rows[j]
<1> DEFINE r == [d[s].rows EXCEPT ![i] = @ + 1]
           u == [rows |-> r, total |-> d[s].total + 1]
<1>1. /\ r \in [Issues -> Nat]
      /\ \A j \in Issues : r[j] = IF j = i THEN d[s].rows[j] + 1 ELSE d[s].rows[j]
  BY BucketHas
<1>2. u \in Bucket /\ u.rows = r /\ u.total = d[s].total + 1
  BY <1>1, BucketHas DEF Bucket
<1>3. WithRow(d, s, i) = [d EXCEPT ![s] = u]
  BY DEF WithRow
<1> HIDE DEF r, u
<1> QED
  BY <1>1, <1>2, <1>3 DEF Buckets

LEMMA WithoutRowIs ==
  ASSUME NEW d \in Buckets, NEW s \in Statuses, NEW i \in Issues
  PROVE  LET n == WithoutRow(d, s, i)
         IN  /\ n \in Buckets
             /\ \A t \in Statuses : t # s => n[t] = d[t]
             /\ n[s].total = IF d[s].total > 0 THEN d[s].total - 1 ELSE 0
             /\ \A j \in Issues : n[s].rows[j] = IF j = i THEN 0 ELSE d[s].rows[j]
<1> DEFINE r == [d[s].rows EXCEPT ![i] = 0]
           u == [rows |-> r, total |-> OneLess(d[s].total)]
<1>1. /\ r \in [Issues -> Nat]
      /\ \A j \in Issues : r[j] = IF j = i THEN 0 ELSE d[s].rows[j]
  BY BucketHas
<1>2. /\ OneLess(d[s].total) \in Nat
      /\ OneLess(d[s].total) = IF d[s].total > 0 THEN d[s].total - 1 ELSE 0
  BY BucketHas DEF OneLess
<1>3. u \in Bucket /\ u.rows = r /\ u.total = OneLess(d[s].total)
  BY <1>1, <1>2 DEF Bucket
<1>4. WithoutRow(d, s, i) = [d EXCEPT ![s] = u]
  BY DEF WithoutRow
<1> HIDE DEF r, u
<1> QED
  BY <1>1, <1>2, <1>3, <1>4 DEF Buckets

LEMMA HelpersTyped ==
  ASSUME NEW d \in Buckets, NEW i \in Issues
  PROVE  /\ \A s \in Statuses : AddIssue(d, i, s) \in Buckets /\ PatchIssue(d, i, s) \in Buckets
         /\ RemoveIssue(d, i) \in Buckets
<1>1. ASSUME Located(d, i)
      PROVE  LocationOf(d, i) \in Statuses /\ WithoutRow(d, LocationOf(d, i), i) \in Buckets
  <2>1. LocationOf(d, i) \in Statuses
    BY <1>1, LocationIs, PaginatedIs
  <2> QED
    BY <2>1, WithoutRowIs
<1>2. ASSUME NEW s \in Statuses
      PROVE  AddIssue(d, i, s) \in Buckets /\ PatchIssue(d, i, s) \in Buckets
  <2>1. AddIssue(d, i, s) \in Buckets
    BY <1>2, WithRowIs DEF AddIssue
  <2>2. Located(d, i) => WithRow(WithoutRow(d, LocationOf(d, i), i), s, i) \in Buckets
    BY <1>1, <1>2, WithRowIs
  <2> QED
    BY <2>1, <2>2 DEF PatchIssue
<1>3. RemoveIssue(d, i) \in Buckets
  BY <1>1 DEF RemoveIssue
<1> QED
  BY <1>2, <1>3

LEMMA BatchTyped ==
  ASSUME NEW d \in Buckets, NEW ids, ids \subseteq Issues
  PROVE  /\ \A s \in Statuses : PatchAll(d, ids, s) \in Buckets
         /\ RemoveAll(d, ids) \in Buckets
<1>1. ASSUME NEW u \in Bucket, NEW js, js \subseteq Issues
      PROVE  Losing(u, js) \in Bucket /\ Gaining(u, js) \in Bucket
  <2>1. Cardinality(js) \in Nat
    BY <1>1, Apart, FS_Subset, FS_CardinalityType
  <2>2. u.rows \in [Issues -> Nat] /\ u.total \in Nat
    BY DEF Bucket
  <2> QED
    BY <2>1, <2>2 DEF Losing, Gaining, Bucket
<1>2. \A t \in Statuses : d[t] \in Bucket
  BY BucketHas
<1>3. ASSUME NEW t
      PROVE  Leaving(d, ids, t) \subseteq Issues
  BY DEF Leaving
<1>4. RemoveAll(d, ids) \in Buckets
  <2>1. \A t \in Statuses : Losing(d[t], Leaving(d, ids, t)) \in Bucket
    BY <1>1, <1>2, <1>3
  <2> QED
    BY <2>1 DEF RemoveAll, Buckets
<1>5. ASSUME NEW s \in Statuses
      PROVE  PatchAll(d, ids, s) \in Buckets
  <2> DEFINE js == {i \in ids : Located(d, i)} \ Leaving(d, ids, s)
  <2>1. js \subseteq Issues
    OBVIOUS
  <2> HIDE DEF js
  <2>2. \A t \in Statuses : /\ Losing(d[t], Leaving(d, ids, t)) \in Bucket
                            /\ Gaining(d[t], js) \in Bucket
    BY <1>1, <1>2, <1>3, <2>1
  <2>3. PatchAll(d, ids, s) = [t \in Statuses |-> IF t = s THEN Gaining(d[t], js)
                                ELSE Losing(d[t], Leaving(d, ids, t))]
    BY DEF PatchAll, js
  <2> QED
    BY <2>2, <2>3 DEF Buckets
<1> QED
  BY <1>4, <1>5

LEMMA ExactHas ==
  ASSUME NEW d \in Buckets, NEW b, ExactAt(d, b), NEW s \in Paginated
  PROVE  /\ d[s].total = Cardinality(Having(b, s))
         /\ \A i \in Issues : /\ d[s].rows[i] \in Nat
                              /\ d[s].rows[i] > 0 => d[s].rows[i] = 1 /\ b[i] = s
                              /\ b[i] # s => d[s].rows[i] = 0
<1>1. s \in Statuses
  BY PaginatedIs
<1> QED
  BY <1>1, BucketHas DEF ExactAt

\* onIssueCreated keeps exact buckets exact.
LEMMA CreatedExact ==
  ASSUME NEW d \in Buckets, NEW b \in Servers, NEW f \in IssueEvents, ExactAt(d, b),
         f.type = "created", Happened(b, f)
  PROVE  ExactAt(AddIssue(d, f.issue, f.status), After(b, f))
<1> DEFINE i == f.issue
           s == f.status
           c == After(b, f)
           n == WithRow(d, s, i)
<1>1. i \in Issues /\ s \in Statuses /\ b[i] = "unborn" /\ c = [b EXCEPT ![i] = s]
  BY EventHas DEF Happened, After
<1>2. \A j \in Issues : c[j] = IF j = i THEN s ELSE b[j]
  BY <1>1 DEF Servers
<1>3. /\ \A t \in Statuses : t # s => n[t] = d[t]
      /\ n[s].total = d[s].total + 1
      /\ \A j \in Issues : n[s].rows[j] = IF j = i THEN d[s].rows[j] + 1 ELSE d[s].rows[j]
  BY <1>1, WithRowIs
<1> HIDE DEF c, n
<1>4. \A t \in Paginated : t \in Statuses /\ t # "unborn"
  BY Apart, PaginatedIs
<1>5. ASSUME NEW t \in Paginated
      PROVE  /\ AddIssue(d, i, s)[t].total = Cardinality(Having(c, t))
             /\ \A j \in Issues : AddIssue(d, i, s)[t].rows[j] > 0 =>
                   AddIssue(d, i, s)[t].rows[j] = 1 /\ c[j] = t
  <2>1. t \in Statuses /\ b[i] # t
    BY <1>1, <1>4
  <2>2. /\ d[t].total = Cardinality(Having(b, t))
        /\ d[t].rows[i] = 0
        /\ \A j \in Issues : d[t].rows[j] > 0 => d[t].rows[j] = 1 /\ b[j] = t
    BY <1>1, <2>1, ExactHas
  <2>3. CASE t = s
    <3>1. AddIssue(d, i, s) = n
      BY <2>2, <2>3 DEF AddIssue, n
    <3>2. Cardinality(Having(c, t)) = Cardinality(Having(b, t)) + 1
      BY <1>1, <2>1, <2>3, CountAfter DEF c
    <3>3. n[t].total = Cardinality(Having(c, t))
      BY <1>3, <2>2, <2>3, <3>2
    <3>4. ASSUME NEW j \in Issues, n[t].rows[j] > 0
          PROVE  n[t].rows[j] = 1 /\ c[j] = t
      BY <3>4, <1>2, <1>3, <2>2, <2>3
    <3> QED
      BY <3>1, <3>3, <3>4
  <2>4. CASE t # s
    <3>1. AddIssue(d, i, s)[t] = d[t]
      BY <1>3, <2>1, <2>4 DEF AddIssue, n
    <3>2. Cardinality(Having(c, t)) = Cardinality(Having(b, t))
      BY <1>1, <2>1, <2>4, CountAfter DEF c
    <3>3. ASSUME NEW j \in Issues, d[t].rows[j] > 0
          PROVE  d[t].rows[j] = 1 /\ c[j] = t
      BY <3>3, <1>2, <2>2
    <3> QED
      BY <2>2, <3>1, <3>2, <3>3
  <2> QED
    BY <2>3, <2>4
<1> QED
  BY <1>5 DEF ExactAt, c

\* onIssueUpdated keeps exact buckets exact when they hold the issue.
LEMMA UpdatedExact ==
  ASSUME NEW d \in Buckets, NEW b \in Servers, NEW f \in IssueEvents, ExactAt(d, b),
         f.type = "updated", Located(d, f.issue)
  PROVE  ExactAt(PatchIssue(d, f.issue, f.status), After(b, f))
<1> DEFINE i == f.issue
           s == f.status
           c == After(b, f)
           o == LocationOf(d, i)
           m == WithoutRow(d, o, i)
           n == WithRow(m, s, i)
<1>1. i \in Issues /\ s \in Statuses /\ c = [b EXCEPT ![i] = s]
  BY EventHas DEF After
<1>2. \A j \in Issues : c[j] = IF j = i THEN s ELSE b[j]
  BY <1>1 DEF Servers
<1>3. o \in Paginated /\ o \in Statuses /\ d[o].rows[i] > 0
  BY <1>1, LocationIs, PaginatedIs
<1>4. b[i] = o
  BY <1>1, <1>3, ExactHas
<1>5. /\ m \in Buckets
      /\ \A t \in Statuses : t # o => m[t] = d[t]
      /\ m[o].total = IF d[o].total > 0 THEN d[o].total - 1 ELSE 0
      /\ \A j \in Issues : m[o].rows[j] = IF j = i THEN 0 ELSE d[o].rows[j]
  BY <1>1, <1>3, WithoutRowIs
<1> HIDE DEF m
<1>6. /\ \A t \in Statuses : t # s => n[t] = m[t]
      /\ n[s].total = m[s].total + 1
      /\ \A j \in Issues : n[s].rows[j] = IF j = i THEN m[s].rows[j] + 1 ELSE m[s].rows[j]
  BY <1>1, <1>5, WithRowIs
<1>7. PatchIssue(d, i, s) = IF o = s THEN d ELSE n
  BY DEF PatchIssue, m
<1> HIDE DEF c, n, o
<1>8. CASE o = s
  <2>1. c = b
    BY <1>1, <1>4, <1>8 DEF Servers
  <2> QED
    BY <1>7, <1>8, <2>1 DEF c
<1>9. CASE o # s
  <2>1. ASSUME NEW t \in Paginated
        PROVE  /\ n[t].total = Cardinality(Having(c, t))
               /\ \A j \in Issues : n[t].rows[j] > 0 => n[t].rows[j] = 1 /\ c[j] = t
    <3>1. t \in Statuses
      BY PaginatedIs
    <3>2. /\ d[t].total = Cardinality(Having(b, t)) /\ d[t].total \in Nat
          /\ \A j \in Issues : /\ d[t].rows[j] > 0 => d[t].rows[j] = 1 /\ b[j] = t
                               /\ b[j] # t => d[t].rows[j] = 0
      BY <3>1, ExactHas, CountIs
    <3>3. CASE t = o
      <4>1. Cardinality(Having(c, t)) = Cardinality(Having(b, t)) - 1
        BY <1>1, <1>4, <1>9, <3>3, CountAfter DEF c
      <4>2. Cardinality(Having(b, t)) > 0
        <5>1. i \in Having(b, t)
          BY <1>1, <1>4, <3>3 DEF Having
        <5>2. Cardinality(Having(b, t)) # 0
          BY <5>1, CountIs, FS_EmptySet
        <5> QED
          BY <5>2, CountIs
      <4>3. n[t].total = Cardinality(Having(c, t))
        BY <1>5, <1>6, <1>9, <3>1, <3>2, <3>3, <4>1, <4>2
      <4>4. ASSUME NEW j \in Issues, n[t].rows[j] > 0
            PROVE  n[t].rows[j] = 1 /\ c[j] = t
        BY <4>4, <1>2, <1>5, <1>6, <1>9, <3>1, <3>2, <3>3
      <4> QED
        BY <4>3, <4>4
    <3>4. CASE t = s
      <4>1. Cardinality(Having(c, t)) = Cardinality(Having(b, t)) + 1
        BY <1>1, <1>4, <1>9, <3>4, CountAfter DEF c
      <4>2. m[t] = d[t]
        BY <1>5, <1>9, <3>1, <3>4
      <4>3. n[t].total = Cardinality(Having(c, t))
        BY <1>6, <3>2, <3>4, <4>1, <4>2
      <4>4. d[t].rows[i] = 0
        BY <1>1, <1>4, <1>9, <3>2, <3>4
      <4>5. ASSUME NEW j \in Issues, n[t].rows[j] > 0
            PROVE  n[t].rows[j] = 1 /\ c[j] = t
        BY <4>5, <1>2, <1>6, <3>2, <3>4, <4>2, <4>4
      <4> QED
        BY <4>3, <4>5
    <3>5. CASE t # o /\ t # s
      <4>1. Cardinality(Having(c, t)) = Cardinality(Having(b, t))
        BY <1>1, <1>4, <3>5, CountAfter DEF c
      <4>2. n[t] = d[t]
        BY <1>5, <1>6, <3>1, <3>5
      <4>3. ASSUME NEW j \in Issues, d[t].rows[j] > 0
            PROVE  d[t].rows[j] = 1 /\ c[j] = t
        BY <4>3, <1>2, <1>4, <3>2, <3>5
      <4> QED
        BY <3>2, <4>1, <4>2, <4>3
    <3> QED
      BY <3>3, <3>4, <3>5
  <2> QED
    BY <1>7, <1>9, <2>1 DEF ExactAt, c
<1> QED
  BY <1>8, <1>9

-----------------------------------------------------------------------------
(***************************************************************************)
(* The list: what each operation keeps of ListSound.                       *)
(***************************************************************************)
LEMMA ListTyped ==
  ASSUME NEW q \in ListQuery
  PROVE  /\ q.data \in Buckets \cup {None} /\ q.stale \in BOOLEAN /\ q.owed \in BOOLEAN
         /\ q.mounted \in BOOLEAN /\ q.doubt \subseteq Doubts
         /\ q.fetch # None => /\ q.fetch.answers \subseteq Paginated \X Bucket
                              /\ q.fetch.clean \in BOOLEAN
BY QueryHas DEF ListQuery

LEMMA ListInvalidated ==
  ASSUME NEW q \in ListQuery, NEW t, NEW w, ListFetched(q, t, w), NEW b, NEW c, NEW rs
  PROVE  Invalidate(q) \in ListQuery /\ ListSound(Invalidate(q), b, t, c, w, rs)
<1> DEFINE n == Invalidate(q)
<1>1. /\ n \in ListQuery /\ n.data = q.data /\ n.mounted = q.mounted
      /\ q.data # None => n.stale = TRUE /\ n.owed = TRUE
      /\ q.data = None => n.stale = q.stale /\ n.owed = q.owed
      /\ q.mounted => n.fetch # None
      /\ n.fetch = q.fetch \/ n.fetch = Fetching
  BY QueryInvalidated, Apart DEF ListQuery
<1>2. Fetching.answers = {}
  BY DEF Fetching
<1> HIDE DEF n
<1> QED
  BY <1>1, <1>2, ListTyped DEF ListSound, ListFetched, n

\* While a request is in flight, only the fetch matters.
LEMMA ListBusy ==
  ASSUME NEW q, NEW t, NEW w, ListFetched(q, t, w), NEW b, NEW c, NEW rs, rs # {}
  PROVE  ListSound(q, b, t, c, w, rs)
BY DEF ListSound

LEMMA ListRewritten ==
  ASSUME NEW q \in ListQuery, NEW t, NEW w, ListFetched(q, t, w)
  PROVE  /\ Cancel(q) \in ListQuery /\ ListFetched(Cancel(q), t, w)
         /\ Cancel(q).data = q.data
         /\ \A d \in Buckets : Write(q, d) \in ListQuery /\ ListFetched(Write(q, d), t, w)
         /\ \A d : (q.data # None => d \in Buckets) =>
               Patch(q, d) \in ListQuery /\ ListFetched(Patch(q, d), t, w)
<1>1. Cancel(q) \in ListQuery /\ ListFetched(Cancel(q), t, w) /\ Cancel(q).data = q.data
  <2> DEFINE n == Cancel(q)
  <2>1. /\ n \in ListQuery /\ n.data = q.data /\ n.fetch = None
        /\ n.stale = q.stale /\ n.owed = q.owed
    BY QueryCancelled DEF ListQuery
  <2> HIDE DEF n
  <2> QED
    BY <2>1 DEF ListFetched, n
<1>2. ASSUME NEW d \in Buckets
      PROVE  Write(q, d) \in ListQuery /\ ListFetched(Write(q, d), t, w)
  <2> DEFINE n == Write(q, d)
  <2>1. n \in ListQuery /\ n.fetch = q.fetch /\ n.stale = FALSE /\ n.owed = FALSE
    BY QueryWritten DEF ListQuery
  <2> HIDE DEF n
  <2> QED
    BY <2>1 DEF ListFetched, n
<1>3. ASSUME NEW d, q.data # None => d \in Buckets
      PROVE  Patch(q, d) \in ListQuery /\ ListFetched(Patch(q, d), t, w)
  BY <1>2, <1>3 DEF Patch
<1> QED
  BY <1>1, <1>2, <1>3

\* An event or a page that arrives writes d, which is exact if the data was.
LEMMA ListPatched ==
  ASSUME NEW q \in ListQuery, NEW b, NEW t, NEW c, NEW w, NEW rs,
         ListSound(q, b, t, c, w, rs), NEW d, q.data # None => d \in Buckets,
         NEW z, q.data # None /\ ExactAt(q.data, b) => ExactAt(d, z),
         NEW v, w = <<>> => v = <<>>
  PROVE  Patch(q, d) \in ListQuery /\ ListSound(Patch(q, d), z, t, c, v, rs)
<1> DEFINE n == Patch(q, d)
<1>1. /\ n \in ListQuery /\ n.fetch = q.fetch /\ n.mounted = q.mounted
      /\ q.data = None => n = q
      /\ q.data # None => n.data = d /\ n.stale = FALSE /\ n.owed = FALSE
      /\ (n.data = None <=> q.data = None) /\ q.doubt \subseteq n.doubt
      /\ q.data # None /\ q.owed /\ q.fetch = None => n.doubt # {}
  BY QueryPatched, Apart DEF ListQuery
<1> HIDE DEF n
<1>2. ListFetched(n, t, v)
  BY <1>1 DEF ListSound, ListFetched
<1>3. n.mounted /\ (n.data = None \/ n.stale) => n.fetch # None \/ rs # {}
  BY <1>1 DEF ListSound
<1>4. ASSUME n.data # None, n.doubt = {}, n.stale = FALSE, n.fetch = None, c = "up", rs = {}
      PROVE  ExactAt(n.data, z)
  <2>1. q.data # None /\ q.doubt = {} /\ q.fetch = None /\ q.owed = FALSE /\ n.data = d
    BY <1>1, <1>4, ListTyped
  <2>2. q.stale = FALSE
    BY <2>1 DEF ListSound, ListFetched
  <2> QED
    BY <1>4, <2>1, <2>2 DEF ListSound
<1> QED
  BY <1>1, <1>2, <1>3, <1>4 DEF ListSound, n

\* ... or leaves a doubt.
LEMMA ListDoubted ==
  ASSUME NEW q \in ListQuery, NEW b, NEW t, NEW c, NEW w, NEW rs,
         ListSound(q, b, t, c, w, rs), NEW d, q.data # None => d \in Buckets,
         NEW z, NEW v, w = <<>> => v = <<>>, NEW why \in Doubts
  PROVE  LET n == [Patch(q, d) EXCEPT !.doubt = @ \cup {why}]
         IN  n \in ListQuery /\ ListSound(n, z, t, c, v, rs)
<1> DEFINE m == Patch(q, d)
           n == [m EXCEPT !.doubt = @ \cup {why}]
<1>1. /\ m \in ListQuery /\ m.fetch = q.fetch /\ m.mounted = q.mounted
      /\ q.data = None => m = q
      /\ q.data # None => m.stale = FALSE /\ m.owed = FALSE
      /\ (m.data = None <=> q.data = None)
  BY QueryPatched, Apart DEF ListQuery
<1> HIDE DEF m
<1>2. /\ n \in ListQuery /\ n.data = m.data /\ n.fetch = m.fetch
      /\ n.mounted = m.mounted /\ n.stale = m.stale /\ n.owed = m.owed
      /\ n.doubt # {}
  BY <1>1, QueryDoubted DEF ListQuery
<1> HIDE DEF n
<1>3. ListFetched(n, t, v)
  BY <1>1, <1>2 DEF ListSound, ListFetched
<1>4. n.mounted /\ (n.data = None \/ n.stale) => n.fetch # None \/ rs # {}
  BY <1>1, <1>2 DEF ListSound
<1>5. ListSound(n, z, t, c, v, rs)
  BY <1>2, <1>3, <1>4 DEF ListSound
<1> QED
  BY <1>2, <1>5 DEF n, m

LEMMA ListMounted ==
  ASSUME NEW q \in ListQuery, NEW b, NEW t, NEW c, NEW w, NEW rs, ListSound(q, b, t, c, w, rs)
  PROVE  /\ Mount(q) \in ListQuery /\ ListSound(Mount(q), b, t, c, w, rs)
         /\ Unmount(q) \in ListQuery /\ ListSound(Unmount(q), b, t, c, w, rs)
<1> DEFINE n == Mount(q)
           m == Unmount(q)
<1>1. /\ n \in ListQuery /\ n.data = q.data /\ n.mounted = TRUE
      /\ n.stale = q.stale /\ n.owed = q.owed /\ n.doubt = q.doubt
      /\ q.data = None \/ q.stale => n.fetch # None
      /\ n.fetch = q.fetch \/ n.fetch = Fetching
      /\ n.fetch = None => q.fetch = None
  BY QueryMounted, Apart DEF ListQuery
<1>2. /\ m \in ListQuery /\ m.data = q.data /\ m.mounted = FALSE
      /\ m.stale = q.stale /\ m.owed = q.owed /\ m.doubt = q.doubt
      /\ m.fetch = q.fetch
  BY QueryUnmounted DEF ListQuery
<1>3. Fetching.answers = {}
  BY DEF Fetching
<1> HIDE DEF n, m
<1>4. ListSound(n, b, t, c, w, rs)
  BY <1>1, <1>3 DEF ListSound, ListFetched
<1>5. ListSound(m, b, t, c, w, rs)
  BY <1>2 DEF ListSound, ListFetched
<1> QED
  BY <1>1, <1>2, <1>4, <1>5 DEF n, m

LEMMA ListAnswered ==
  ASSUME NEW q \in ListQuery, NEW b, NEW t, NEW c, NEW w, NEW rs, ListSound(q, b, t, c, w, rs),
         q.fetch # None, NEW s \in Paginated, NEW u \in Bucket, PageAt(t, s, u)
  PROVE  LET n == Answer(q, s, u, w = <<>>)
         IN  n \in ListQuery /\ ListSound(n, b, t, c, w, rs)
<1> DEFINE quiet == w = <<>>
           n == Answer(q, s, u, quiet)
<1>1. <<s, u>> \in Paginated \X Bucket /\ quiet \in BOOLEAN
  OBVIOUS
<1> HIDE DEF quiet
<1>2. /\ n \in ListQuery /\ n.data = q.data /\ n.mounted = q.mounted
      /\ n.stale = q.stale /\ n.owed = q.owed /\ n.doubt = q.doubt
      /\ n.fetch # None /\ n.fetch.answers = q.fetch.answers \cup {<<s, u>>}
      /\ n.fetch.clean = (q.fetch.clean /\ quiet)
  BY <1>1, QueryAnswered, Apart DEF ListQuery
<1> HIDE DEF n
<1>3. ASSUME n.fetch.clean
      PROVE  w = <<>> /\ \A a \in n.fetch.answers : PageAt(t, a[1], a[2])
  <2>1. q.fetch.clean /\ w = <<>>
    BY <1>1, <1>2, <1>3, ListTyped DEF quiet
  <2>2. \A a \in q.fetch.answers : PageAt(t, a[1], a[2])
    BY <2>1 DEF ListSound, ListFetched
  <2> QED
    BY <1>2, <2>1, <2>2
<1>4. ListFetched(n, t, w)
  BY <1>2, <1>3 DEF ListSound, ListFetched
<1>5. ListSound(n, b, t, c, w, rs)
  BY <1>2, <1>4 DEF ListSound
<1> QED
  BY <1>2, <1>5 DEF n, quiet

LEMMA ListLanded ==
  ASSUME NEW q \in ListQuery, NEW b, NEW t, NEW c, NEW w, NEW rs, ListSound(q, b, t, c, w, rs),
         q.fetch # None, NEW d \in Buckets, q.fetch.clean => ExactAt(d, b)
  PROVE  Land(q, d) \in ListQuery /\ ListSound(Land(q, d), b, t, c, w, rs)
<1> DEFINE n == Land(q, d)
<1>1. /\ n \in ListQuery /\ n.data = d /\ n.mounted = q.mounted
      /\ n.stale = FALSE /\ n.owed = FALSE /\ n.fetch = None
      /\ n.doubt = {} => q.fetch.clean
  BY QueryLanded DEF ListQuery
<1>2. d # None
  BY Apart
<1> HIDE DEF n
<1> QED
  BY <1>1, <1>2 DEF ListSound, ListFetched, n

LEMMA ListTouched ==
  ASSUME NEW q \in ListQuery, NEW b, NEW t, NEW c, NEW w, NEW rs, ListSound(q, b, t, c, w, rs),
         NEW u, NEW v, NEW z, z = b \/ c # "up"
  PROVE  Touch(q) \in ListQuery /\ ListSound(Touch(q), z, u, c, v, rs)
<1> DEFINE n == Touch(q)
<1>1. /\ n \in ListQuery /\ n.data = q.data /\ n.mounted = q.mounted
      /\ n.stale = q.stale /\ n.owed = q.owed /\ n.doubt = q.doubt
      /\ (n.fetch = None <=> q.fetch = None)
      /\ n.fetch # None /\ n.fetch.clean => n.fetch.answers = {}
  BY QueryTouched, Apart DEF ListQuery
<1> HIDE DEF n
<1> QED
  BY <1>1 DEF ListSound, ListFetched, n

\* The connection goes, and what was on the wire with it.
LEMMA ListCutOff ==
  ASSUME NEW q \in ListQuery, NEW b, NEW t, NEW c, NEW w, NEW rs, ListSound(q, b, t, c, w, rs),
         NEW z
  PROVE  ListSound(q, z, t, "down", <<>>, rs)
BY DEF ListSound, ListFetched


-----------------------------------------------------------------------------
(***************************************************************************)
(* The page of an issue: what each operation keeps of DetailSound.         *)
(***************************************************************************)
LEMMA DetailTyped ==
  ASSUME NEW q \in DetailQuery
  PROVE  /\ q.data \in Statuses \cup {None} /\ q.stale \in BOOLEAN /\ q.owed \in BOOLEAN
         /\ q.mounted \in BOOLEAN /\ q.doubt \subseteq Doubts
         /\ q.fetch # None =>
               /\ \A a \in q.fetch.answers : a[2] \in Statuses \cup {None}
               /\ q.fetch.clean \in BOOLEAN
<1>1. /\ q.data \in Statuses \cup {None} /\ q.stale \in BOOLEAN /\ q.owed \in BOOLEAN
      /\ q.mounted \in BOOLEAN /\ q.doubt \subseteq Doubts
      /\ q.fetch # None => /\ q.fetch.answers \subseteq {"issue"} \X (Statuses \cup {None})
                           /\ q.fetch.clean \in BOOLEAN
  BY QueryHas DEF DetailQuery
<1> QED
  BY <1>1

\* Events for other issues come and go, and so do requests that do not fetch the page.
LEMMA DetailKept ==
  ASSUME NEW q, NEW v, NEW t, NEW c, NEW news, NEW rs, DetailSound(q, v, t, c, news, rs),
         NEW later, news = {} => later = {}
  PROVE  DetailSound(q, v, t, c, later, rs)
BY DEF DetailSound, DetailFetched

LEMMA DetailInvalidated ==
  ASSUME NEW q \in DetailQuery, NEW v, NEW t, NEW news, DetailFetched(q, v, t, news),
         NEW c, NEW rs
  PROVE  Invalidate(q) \in DetailQuery /\ DetailSound(Invalidate(q), v, t, c, news, rs)
<1> DEFINE n == Invalidate(q)
<1>1. /\ n \in DetailQuery /\ n.data = q.data /\ n.mounted = q.mounted
      /\ q.data # None => n.stale /\ n.owed
      /\ q.data = None => n.stale = q.stale /\ n.owed = q.owed
      /\ q.mounted => n.fetch # None
      /\ n.fetch = q.fetch \/ (n.fetch = Fetching /\ q.mounted)
  BY QueryInvalidated, Apart DEF DetailQuery
<1>2. Fetching.answers = {}
  BY DEF Fetching
<1> HIDE DEF n
<1> QED
  BY <1>1, <1>2, DetailTyped DEF DetailSound, DetailFetched, n

\* A snapshot written back, before the page is fetched again or doubted.
LEMMA DetailWritten ==
  ASSUME NEW q \in DetailQuery, NEW v, NEW t, NEW news, DetailFetched(q, v, t, news),
         NEW d \in Statuses, NEW why \in Doubts, NEW c, NEW rs
  PROVE  /\ Write(q, d) \in DetailQuery /\ DetailFetched(Write(q, d), v, t, news)
         /\ LET n == [Write(q, d) EXCEPT !.doubt = @ \cup {why}]
            IN  n \in DetailQuery /\ DetailSound(n, v, t, c, news, rs)
<1> DEFINE m == Write(q, d)
           n == [m EXCEPT !.doubt = @ \cup {why}]
<1>1. /\ m \in DetailQuery /\ m.fetch = q.fetch /\ m.mounted = q.mounted
      /\ ~ m.stale /\ ~ m.owed
  BY QueryWritten DEF DetailQuery
<1> HIDE DEF m
<1>2. /\ n \in DetailQuery /\ n.fetch = m.fetch /\ n.mounted = m.mounted
      /\ n.stale = m.stale /\ n.owed = m.owed /\ n.doubt # {}
  BY <1>1, QueryDoubted DEF DetailQuery
<1>3. m.stale = FALSE /\ m.owed = FALSE
  BY <1>1, DetailTyped
<1> HIDE DEF n
<1>4. DetailFetched(m, v, t, news) /\ DetailFetched(n, v, t, news)
  BY <1>1, <1>2, <1>3 DEF DetailFetched
<1>5. DetailSound(n, v, t, c, news, rs)
  BY <1>2, <1>3, <1>4 DEF DetailSound
<1> QED
  BY <1>1, <1>2, <1>4, <1>5 DEF m, n

\* useUpdateIssue writes the status it asks for, an event the status it tells.
LEMMA DetailPatched ==
  ASSUME NEW q \in DetailQuery, NEW v, NEW t, NEW c, NEW news, NEW rs,
         DetailSound(q, v, t, c, news, rs), NEW d \in Statuses, NEW z, NEW later, NEW us,
         (us # {} /\ z = v /\ later = news) \/ (us = rs /\ z = d /\ news # {})
  PROVE  Patch(q, d) \in DetailQuery /\ DetailSound(Patch(q, d), z, t, c, later, us)
<1> DEFINE n == Patch(q, d)
<1>1. /\ n \in DetailQuery /\ n.fetch = q.fetch /\ n.mounted = q.mounted
      /\ q.data = None => n = q
      /\ q.data # None => n.data = d /\ ~ n.stale /\ ~ n.owed
  BY QueryPatched, Apart DEF DetailQuery
<1> HIDE DEF n
<1>2. DetailFetched(n, z, t, later)
  BY <1>1, DetailTyped DEF DetailSound, DetailFetched
<1>3. n.mounted /\ n.stale /\ n.fetch = None => t = "deleted"
  BY <1>1, DetailTyped DEF DetailSound
<1>4. n.data # None /\ us = {} => n.data = z
  BY <1>1
<1> QED
  BY <1>1, <1>2, <1>3, <1>4 DEF DetailSound, n

LEMMA DetailForgotten ==
  ASSUME NEW q \in DetailQuery, NEW v, NEW t, NEW news, DetailFetched(q, v, t, news),
         NEW z, NEW c, NEW later, NEW rs
  PROVE  Forget(q) \in DetailQuery /\ DetailSound(Forget(q), z, t, c, later, rs)
<1> DEFINE n == Forget(q)
<1>1. /\ n \in DetailQuery /\ n.data = None /\ n.fetch = None
      /\ n.mounted = q.mounted /\ ~ n.stale /\ ~ n.owed
  BY QueryForgotten DEF DetailQuery
<1> HIDE DEF n
<1> QED
  BY <1>1, DetailTyped DEF DetailSound, DetailFetched, n

LEMMA DetailMounted ==
  ASSUME NEW q \in DetailQuery, NEW v, NEW t, NEW c, NEW news, NEW rs,
         DetailSound(q, v, t, c, news, rs)
  PROVE  /\ t # "unborn" =>
               Mount(q) \in DetailQuery /\ DetailSound(Mount(q), v, t, c, news, rs)
         /\ Unmount(q) \in DetailQuery /\ DetailSound(Unmount(q), v, t, c, news, rs)
<1> DEFINE n == Mount(q)
           m == Unmount(q)
<1>1. /\ n \in DetailQuery /\ n.data = q.data /\ n.mounted
      /\ n.stale = q.stale /\ n.owed = q.owed /\ n.doubt = q.doubt
      /\ (q.data = None \/ q.stale) => n.fetch # None
      /\ n.fetch = q.fetch \/ n.fetch = Fetching
      /\ n.fetch = None => q.fetch = None
  BY QueryMounted, Apart DEF DetailQuery
<1>2. /\ m \in DetailQuery /\ m.data = q.data /\ ~ m.mounted
      /\ m.stale = q.stale /\ m.owed = q.owed /\ m.doubt = q.doubt
      /\ m.fetch = q.fetch
  BY QueryUnmounted DEF DetailQuery
<1>3. Fetching.answers = {}
  BY DEF Fetching
<1> HIDE DEF n, m
<1>4. t # "unborn" => DetailSound(n, v, t, c, news, rs)
  BY <1>1, <1>3, DetailTyped DEF DetailSound, DetailFetched
<1>5. DetailSound(m, v, t, c, news, rs)
  BY <1>2, DetailTyped DEF DetailSound, DetailFetched
<1> QED
  BY <1>1, <1>2, <1>4, <1>5 DEF n, m

LEMMA DetailAnswered ==
  ASSUME NEW q \in DetailQuery, NEW v, NEW t, NEW c, NEW news, NEW rs,
         DetailSound(q, v, t, c, news, rs), q.fetch # None, q.fetch.answers = {},
         NEW u \in Statuses \cup {None}, u = IF t \in Statuses THEN t ELSE None,
         t \in Statuses \cup {"unborn", "deleted"},
         NEW quiet \in BOOLEAN, quiet => v = t /\ news = {}
  PROVE  LET n == Answer(q, "issue", u, quiet)
         IN  n \in DetailQuery /\ DetailSound(n, v, t, c, news, rs)
<1> DEFINE n == Answer(q, "issue", u, quiet)
<1>1. <<"issue", u>> \in {"issue"} \X (Statuses \cup {None})
  OBVIOUS
<1>2. /\ n \in DetailQuery /\ n.data = q.data /\ n.mounted = q.mounted
      /\ n.stale = q.stale /\ n.owed = q.owed /\ n.doubt = q.doubt
      /\ n.fetch # None /\ n.fetch.answers = q.fetch.answers \cup {<<"issue", u>>}
      /\ n.fetch.clean = (q.fetch.clean /\ quiet)
  BY <1>1, QueryAnswered, Apart DEF DetailQuery
<1> HIDE DEF n
<1>3. t # "unborn" /\ (u = None => t = "deleted") /\ (u # None => u = t)
  BY Apart DEF DetailSound, DetailFetched
<1>4. \A a \in n.fetch.answers : a[2] = u
  BY <1>2
<1>5. n.fetch.clean => quiet
  BY <1>2, DetailTyped
<1>6. DetailFetched(n, v, t, news)
  BY <1>2, <1>3, <1>4, <1>5 DEF DetailSound, DetailFetched
<1> QED
  BY <1>2, <1>6, DetailTyped DEF DetailSound, n

LEMMA DetailLanded ==
  ASSUME NEW q \in DetailQuery, NEW v, NEW t, NEW c, NEW news, NEW rs,
         DetailSound(q, v, t, c, news, rs), q.fetch # None, NEW a \in q.fetch.answers
  PROVE  LET n == IF a[2] = None THEN Cancel(q) ELSE Land(q, a[2])
         IN  n \in DetailQuery /\ DetailSound(n, v, t, c, news, rs)
<1>1. CASE a[2] = None
  <2> DEFINE n == Cancel(q)
  <2>1. /\ n \in DetailQuery /\ n.data = q.data /\ n.fetch = None
        /\ n.mounted = q.mounted /\ n.stale = q.stale /\ n.owed = q.owed
        /\ n.doubt = q.doubt
    BY QueryCancelled DEF DetailQuery
  <2>2. t = "deleted"
    BY <1>1 DEF DetailSound, DetailFetched
  <2> HIDE DEF n
  <2> QED
    BY <1>1, <2>1, <2>2 DEF DetailSound, DetailFetched, n
<1>2. CASE a[2] # None
  <2> DEFINE d == a[2]
             n == Land(q, d)
  <2>1. d \in Statuses /\ d # None
    BY <1>2, DetailTyped
  <2>2. q.fetch.clean => d = v
    BY <1>2 DEF DetailSound, DetailFetched
  <2>3. t # "unborn"
    BY DEF DetailSound, DetailFetched
  <2> HIDE DEF d
  <2>4. /\ n \in DetailQuery /\ n.data = d /\ n.mounted = q.mounted
        /\ ~ n.stale /\ ~ n.owed /\ n.fetch = None
        /\ n.doubt = {} => q.fetch.clean
    BY <2>1, QueryLanded DEF DetailQuery
  <2>5. n.stale = FALSE /\ n.owed = FALSE
    BY <2>4, DetailTyped
  <2> HIDE DEF n
  <2>6. DetailSound(n, v, t, c, news, rs)
    BY <2>2, <2>3, <2>4, <2>5 DEF DetailSound, DetailFetched
  <2> QED
    BY <1>2, <2>4, <2>6 DEF n, d
<1> QED
  BY <1>1, <1>2

\* The issue changes, which one that is deleted does not.
LEMMA DetailTouched ==
  ASSUME NEW q \in DetailQuery, NEW v, NEW t, NEW c, NEW news, NEW rs,
         DetailSound(q, v, t, c, news, rs), t # "deleted", NEW u, u # "unborn", NEW later,
         NEW z, z = v \/ c # "up"
  PROVE  Touch(q) \in DetailQuery /\ DetailSound(Touch(q), z, u, c, later, rs)
<1> DEFINE n == Touch(q)
<1>1. /\ n \in DetailQuery /\ n.data = q.data /\ n.mounted = q.mounted
      /\ n.stale = q.stale /\ n.owed = q.owed /\ n.doubt = q.doubt
      /\ (n.fetch = None <=> q.fetch = None)
      /\ q.fetch # None => n.fetch.answers = q.fetch.answers
      /\ n.fetch # None /\ n.fetch.clean => n.fetch.answers = {}
  BY QueryTouched, Apart DEF DetailQuery
<1> HIDE DEF n
<1>2. n.fetch # None => \A a \in n.fetch.answers : a[2] # None /\ ~ n.fetch.clean
  BY <1>1 DEF DetailSound, DetailFetched
<1>3. DetailFetched(n, z, u, later)
  BY <1>1, <1>2 DEF DetailSound, DetailFetched
<1> QED
  BY <1>1, <1>3 DEF DetailSound, n

LEMMA DetailCutOff ==
  ASSUME NEW q \in DetailQuery, NEW v, NEW t, NEW c, NEW news, NEW rs,
         DetailSound(q, v, t, c, news, rs)
  PROVE  DetailSound(q, t, t, "down", {}, rs)
BY DEF DetailSound, DetailFetched

-----------------------------------------------------------------------------
(***************************************************************************)
(* The server's answers.                                                   *)
(***************************************************************************)
LEMMA BucketIs ==
  ASSUME NEW set, set \subseteq Issues, NEW total \in Nat
  PROVE  /\ BucketOf(set, total) \in Bucket /\ BucketOf(set, total).total = total
         /\ \A i \in Issues : BucketOf(set, total).rows[i] = IF i \in set THEN 1 ELSE 0
BY DEF BucketOf, Bucket

LEMMA PageIs ==
  ASSUME NEW s, NEW offset
  PROVE  Page(s, offset) \in Bucket /\ PageAt(serverIssue, s, Page(s, offset))
<1>1. ServerRows(s) = Having(serverIssue, s)
  BY DEF ServerRows, Having
<1>2. PageOf(s, offset) \subseteq Having(serverIssue, s)
  BY <1>1 DEF PageOf
<1> DEFINE set == PageOf(s, offset)
           n == Cardinality(Having(serverIssue, s))
<1>3. set \subseteq Issues /\ n \in Nat /\ \A i \in set : serverIssue[i] = s
  BY <1>2, CountIs DEF Having
<1>4. Page(s, offset) = BucketOf(set, n)
  BY <1>1 DEF Page
<1> HIDE DEF set
<1> DEFINE u == BucketOf(set, n)
<1>5. /\ u \in Bucket /\ u.total = n
      /\ \A i \in Issues : u.rows[i] = IF i \in set THEN 1 ELSE 0
  BY <1>3, BucketIs
<1> HIDE DEF u
<1>6. PageAt(serverIssue, s, u)
  BY <1>3, <1>5 DEF PageAt
<1> QED
  BY <1>4, <1>5, <1>6 DEF u

\* What fetchFirstPages makes of the answers.
LEMMA FirstPagesAre ==
  ASSUME NEW as, as \subseteq Paginated \X Bucket, {a[1] : a \in as} = Paginated, NEW t
  PROVE  /\ FirstPages(as) \in Buckets
         /\ (\A a \in as : PageAt(t, a[1], a[2])) => ExactAt(FirstPages(as), t)
<1>1. EmptyBucket \in Bucket
  BY DEF EmptyBucket, NoRows, Bucket
<1>2. ASSUME NEW s \in Statuses, \E a \in as : a[1] = s
      PROVE  (CHOOSE a \in as : a[1] = s) \in as /\ (CHOOSE a \in as : a[1] = s)[1] = s
  BY <1>2
<1>3. ASSUME NEW s \in Statuses
      PROVE  FirstPages(as)[s] \in Bucket
  BY <1>1, <1>2 DEF FirstPages
<1>4. FirstPages(as) \in Buckets
  BY <1>3 DEF Buckets, FirstPages
<1>5. ASSUME \A a \in as : PageAt(t, a[1], a[2]), NEW s \in Paginated
      PROVE  PageAt(t, s, FirstPages(as)[s])
  <2> DEFINE a == CHOOSE x \in as : x[1] = s
  <2>1. s \in Statuses /\ \E x \in as : x[1] = s
    BY PaginatedIs
  <2>2. a \in as /\ a[1] = s
    BY <2>1
  <2>3. FirstPages(as)[s] = a[2]
    BY <2>1 DEF FirstPages
  <2> HIDE DEF a
  <2> QED
    BY <2>2, <2>3, <1>5
<1> QED
  BY <1>4, <1>5 DEF PageAt, ExactAt

\* A further page that the buckets' own server answered.
LEMMA AppendedIs ==
  ASSUME NEW d \in Buckets, NEW s \in Paginated, NEW u \in Bucket, NEW t
  PROVE  LET n == [d EXCEPT ![s] = Appended(@, u)]
         IN  /\ n \in Buckets
             /\ ExactAt(d, t) /\ PageAt(t, s, u) => ExactAt(n, t)
<1> DEFINE m == Appended(d[s], u)
           n == [d EXCEPT ![s] = m]
<1>1. s \in Statuses /\ u.rows \in [Issues -> Nat] /\ u.total \in Nat
  BY PaginatedIs DEF Bucket
<1>2. /\ m \in Bucket /\ m.total = u.total
      /\ \A i \in Issues : m.rows[i] = IF d[s].rows[i] > 0 THEN d[s].rows[i] ELSE u.rows[i]
  BY <1>1, BucketHas DEF Appended, Bucket
<1> HIDE DEF m
<1>3. n \in Buckets /\ \A r \in Statuses : n[r] = IF r = s THEN m ELSE d[r]
  BY <1>1, <1>2 DEF Buckets
<1> HIDE DEF n
<1>4. ASSUME ExactAt(d, t), PageAt(t, s, u) PROVE ExactAt(n, t)
  BY <1>2, <1>3, <1>4, PaginatedIs DEF ExactAt, PageAt
<1> QED
  BY <1>3, <1>4 DEF n, m

-----------------------------------------------------------------------------
(***************************************************************************)
(* The steps of the server and of the network.                             *)
(***************************************************************************)
LEMMA MoreTouched ==
  ASSUME NEW m, NEW t, NEW w, MoreSound(m, t, w), NEW u, NEW v
  PROVE  MoreSound(IF m # None /\ m.answer # None THEN [m EXCEPT !.clean = FALSE] ELSE m, u, v)
<1>1. CASE m = None \/ m.answer = None
  BY <1>1, Apart DEF MoreSound
<1>2. CASE m # None /\ m.answer # None
  <2>1. m \in More
    BY <1>2 DEF MoreSound
  <2> DEFINE n == [m EXCEPT !.clean = FALSE]
  <2>2. /\ n \in More
        /\ ~ n.clean
    BY <2>1 DEF More
  <2> HIDE DEF n
  <2>3. MoreSound(n, u, v)
    BY <2>2 DEF MoreSound
  <2> QED
    BY <1>2, <2>3 DEF n
<1> QED
  BY <1>1, <1>2

\* A change of some issues, by a request or by somebody else.
LEMMA IssuesChanged ==
  ASSUME BoardTyped, MoreSound(more, serverIssue, wire), NEW b \in Servers, ClientSound(b),
         NEW ids, NEW type, NEW s, CanChange(serverIssue, ids, type, s),
         ChangeIssues(ids, type, s), conn' = conn, page' = page,
         issueRequest' \in [Slots -> IssueRequest \cup {None}],
         \A r \in Slots : issueRequest'[r] # None => RequestSound(issueRequest'[r]),
         Requests' = Requests, \A i \in Opened : UpdatesOf(i)' = UpdatesOf(i)
  PROVE  BoardInv'
<1> DEFINE t == serverIssue
           u == ChangedTo(t, ids, type, s)
<1>0. PICK z : z = IF conn = "up" THEN b ELSE u
  OBVIOUS
<1>1. /\ serverIssue' = u /\ u \in Servers /\ z \in Servers
      /\ \A i \in Issues : i \notin ids => u[i] = t[i]
      /\ \A i \in ids : u[i] # "unborn" /\ t[i] # "deleted"
  <2>1. serverIssue' = u
    BY DEF ChangeIssues, ChangedTo
  <2>2. u \in Servers /\ z \in Servers
    BY <1>0, ChangedIs DEF BoardTyped
  <2>3. \A i \in ids : u[i] # "unborn" /\ t[i] # "deleted"
    BY Apart DEF CanChange, ChangedTo
  <2> QED
    BY <2>1, <2>2, <2>3 DEF ChangedTo
<1>2. ids \subseteq Issues /\ Cardinality(ids) \in Nat
  BY Apart, FS_Subset, FS_CardinalityType DEF CanChange
<1>3. Told(b, wire, t)
  BY DEF ClientSound
<1>4. /\ wire' \in Seq(IssueEvents) /\ Told(z, wire', u)
      /\ (conn = "down" => wire' = <<>>)
      /\ \A k \in 1..Len(wire') : (k \in 1..Len(wire) /\ wire'[k] = wire[k])
                                     \/ wire'[k].issue \in ids
  <2>1. CASE conn = "up"
    <3>1. PICK order \in Bijection(1..Cardinality(ids), ids) :
             Send([k \in 1..Cardinality(ids) |-> IssueEventOf(order[k], type, s)])
      BY DEF ChangeIssues
    <3> DEFINE n == Cardinality(ids)
               events == [k \in 1..n |-> IssueEventOf(order[k], type, s)]
    <3>2. wire' = wire \o events
      BY <2>1, <3>1 DEF Send
    <3>3. n \in Nat /\ order \in Bijection(1..n, ids)
      BY <1>2
    <3>4. wire \in Seq(IssueEvents) /\ t \in Servers /\ CanChange(t, ids, type, s) /\ Told(b, wire, t)
      BY <1>3 DEF BoardTyped
    <3>5. events = [k \in 1..n |-> IssueEventOf(order[k], type, s)]
      OBVIOUS
    <3> HIDE DEF t
    <3> HIDE DEF n, events
    <3>6. /\ wire \o events \in Seq(IssueEvents)
          /\ Told(b, wire \o events, ChangedTo(t, ids, type, s))
          /\ \A k \in 1..Len(wire \o events) :
               \/ k \in 1..Len(wire) /\ (wire \o events)[k] = wire[k]
               \/ (wire \o events)[k].issue \in ids
      BY <3>3, <3>4, <3>5, ToldMore
    <3> QED
      BY <1>0, <2>1, <3>2, <3>6
  <2>2. CASE conn # "up"
    <3>1. wire' = <<>> /\ z = u
      BY <1>0, <2>2 DEF ChangeIssues, Send, BoardTyped
    <3> QED
      BY <3>1, <1>1, ToldNow
  <2> QED
    BY <2>1, <2>2
<1>5. \A i \in Issues : i \notin ids => z[i] = b[i]
  <2>1. CASE conn = "up"
    BY <1>0, <2>1
  <2>2. CASE conn # "up"
    <3>1. b = t
      BY <2>2, <1>3, ToldDone DEF BoardTyped
    <3> QED
      BY <1>0, <2>2, <3>1, <1>1
  <2> QED
    BY <2>1, <2>2
<1>6. ASSUME NEW i \in Opened, i \notin ids, NewsOf(i) = {}
      PROVE  NewsOf(i)' = {}
  BY <1>4, <1>6 DEF NewsOf
<1> HIDE DEF u
<1>7. z = b \/ conn # "up"
  BY <1>0
<1>8. list' \in ListQuery /\ ListSound(list', z, u, conn, wire', Requests)
  <2>1. list' = Touch(list)
    BY DEF ChangeIssues, TouchIssueQueries
  <2>2. list \in ListQuery /\ ListSound(list, b, t, conn, wire, Requests)
    BY DEF BoardTyped, ClientSound
  <2>3. Touch(list) \in ListQuery /\ ListSound(Touch(list), z, u, conn, wire', Requests)
    BY <2>2, <1>7, ListTouched
  <2> QED
    BY <2>1, <2>3
<1>9. ASSUME NEW i \in Opened
      PROVE  /\ detail'[i] \in DetailQuery
             /\ DetailSound(detail'[i], z[i], u[i], conn, NewsOf(i)', UpdatesOf(i))
  <2>1. detail'[i] = IF i \in ids THEN Touch(detail[i]) ELSE detail[i]
    BY DEF ChangeIssues, TouchIssueQueries
  <2>2. /\ detail[i] \in DetailQuery
        /\ DetailSound(detail[i], b[i], t[i], conn, NewsOf(i), UpdatesOf(i))
    BY DEF BoardTyped, ClientSound
  <2>3. i \in Issues
    BY Apart
  <2>4. CASE i \in ids
    <3>1. t[i] # "deleted" /\ u[i] # "unborn" /\ (z[i] = b[i] \/ conn # "up")
      BY <1>1, <1>7, <2>4
    <3>2. /\ Touch(detail[i]) \in DetailQuery
          /\ DetailSound(Touch(detail[i]), z[i], u[i], conn, NewsOf(i)', UpdatesOf(i))
      BY <2>2, <3>1, DetailTouched
    <3> QED
      BY <2>1, <2>4, <3>2
  <2>5. CASE i \notin ids
    <3>1. z[i] = b[i] /\ u[i] = t[i] /\ (NewsOf(i) = {} => NewsOf(i)' = {})
      BY <1>1, <1>5, <1>6, <2>3, <2>5
    <3>2. DetailSound(detail[i], b[i], t[i], conn, NewsOf(i)', UpdatesOf(i))
      BY <2>2, <3>1, DetailKept
    <3> QED
      BY <2>1, <2>2, <2>5, <3>1, <3>2
  <2> QED
    BY <2>4, <2>5
<1>10. detail' \in [Opened -> DetailQuery]
  BY <1>9 DEF ChangeIssues, TouchIssueQueries
<1>11. MoreSound(more', u, wire')
  <2>1. more' = IF more # None /\ more.answer # None THEN [more EXCEPT !.clean = FALSE] ELSE more
    BY DEF ChangeIssues, TouchIssueQueries
  <2> QED
    BY <2>1, MoreTouched
<1>12. BoardTyped'
  BY <1>1, <1>4, <1>8, <1>10 DEF BoardTyped
<1>13. ClientSound(z)'
  BY <1>1, <1>4, <1>8, <1>9 DEF ClientSound
<1> QED
  BY <1>1, <1>11, <1>12, <1>13 DEF BoardInv

LEMMA ChangedElsewhere ==
  ASSUME BoardInv, NEW i \in Issues, NEW type \in {"created", "updated", "deleted"},
         NEW s \in Statuses \cup {None}, IssueChangesElsewhere(i, type, s)
  PROVE  BoardInv'
<1> DEFINE ids == {i}
<1>1. PICK b \in Servers : ClientSound(b)
  BY DEF BoardInv
<1>2. /\ BoardTyped /\ MoreSound(more, serverIssue, wire) /\ conn' = conn /\ page' = page
      /\ issueRequest' = issueRequest /\ ChangeIssues(ids, type, s)
  BY DEF BoardInv, IssueChangesElsewhere
<1>3. CanChange(serverIssue, ids, type, s)
  BY DEF IssueChangesElsewhere, PossibleIssueChange, Alive, CanChange
<1> HIDE DEF ids
<1>4. /\ issueRequest' \in [Slots -> IssueRequest \cup {None}]
      /\ \A r \in Slots : issueRequest'[r] # None => RequestSound(issueRequest'[r])
  BY <1>2 DEF BoardTyped
<1>5. Requests' = Requests /\ \A j \in Opened : UpdatesOf(j)' = UpdatesOf(j)
  BY <1>2 DEF Requests, UpdatesOf
<1> QED
  BY <1>1, <1>2, <1>3, <1>4, <1>5, IssuesChanged

LEMMA RequestIs ==
  ASSUME BoardTyped, NEW r \in Slots, issueRequest[r] # None
  PROVE  LET q == issueRequest[r]
         IN  /\ q \in IssueRequest /\ RequestSound(q) /\ q.ids \subseteq Issues
             /\ q.kind \in {"create", "update", "delete", "batchUpdate", "batchDelete"}
             /\ q.status \in Statuses \cup {None} /\ q.prevList \in Buckets \cup {None}
             /\ q.prevDetail \in Statuses \cup {None}
             /\ r \in Requests
BY DEF BoardTyped, IssueRequest, Requests

\* A request that was carried out keeps what it is for.
LEMMA RequestCommitted ==
  ASSUME NEW q \in IssueRequest, RequestSound(q), NEW done \in SUBSET Issues
  PROVE  LET n == [q EXCEPT !.sent = FALSE, !.done = done]
         IN  /\ n \in IssueRequest /\ RequestSound(n) /\ n.kind = q.kind /\ n.ids = q.ids
<1> DEFINE n == [q EXCEPT !.sent = FALSE, !.done = done]
<1>1. /\ n \in IssueRequest /\ n.kind = q.kind /\ n.ids = q.ids
      /\ n.status = q.status /\ n.prevDetail = q.prevDetail
  BY DEF IssueRequest
<1> HIDE DEF n
<1> QED
  BY <1>1 DEF RequestSound, n

LEMMA RequestDone ==
  ASSUME BoardInv, NEW r \in Slots, CommitIssueRequest(r)
  PROVE  BoardInv'
<1> DEFINE q == issueRequest[r]
           type == CASE q.kind = "create" -> "created"
                     [] q.kind \in {"update", "batchUpdate"} -> "updated"
                     [] OTHER -> "deleted"
<1>1. PICK b \in Servers : ClientSound(b)
  BY DEF BoardInv
<1>2. BoardTyped /\ MoreSound(more, serverIssue, wire)
  BY DEF BoardInv
<1>3. /\ q # None /\ conn' = conn /\ page' = page
      /\ \E done \in SUBSET q.ids :
            /\ \A i \in done : IF type = "created" THEN serverIssue[i] = "unborn" ELSE Alive(i)
            /\ ChangeIssues(done, type, q.status)
            /\ issueRequest' = [issueRequest EXCEPT ![r].sent = FALSE, ![r].done = done]
  BY DEF CommitIssueRequest
<1>4. PICK done \in SUBSET q.ids :
            /\ \A i \in done : IF type = "created" THEN serverIssue[i] = "unborn" ELSE Alive(i)
            /\ ChangeIssues(done, type, q.status)
            /\ issueRequest' = [issueRequest EXCEPT ![r].sent = FALSE, ![r].done = done]
  BY <1>3
<1>5. /\ q \in IssueRequest /\ RequestSound(q) /\ q.ids \subseteq Issues
      /\ q.kind \in {"create", "update", "delete", "batchUpdate", "batchDelete"}
      /\ q.status \in Statuses \cup {None}
  BY <1>2, <1>3, RequestIs
<1> DEFINE n == [q EXCEPT !.sent = FALSE, !.done = done]
           s == q.status
<1>6. /\ n \in IssueRequest /\ RequestSound(n) /\ n.kind = q.kind /\ n.ids = q.ids
  <2>1. done \in SUBSET Issues
    BY <1>5
  <2> HIDE DEF q
  <2> QED
    BY <1>5, <2>1, RequestCommitted
<1>7. issueRequest' = [issueRequest EXCEPT ![r] = n]
  BY <1>2, <1>4 DEF BoardTyped
<1>8. /\ type \in {"created", "updated", "deleted"}
      /\ (type # "deleted" => s \in Statuses)
  <2>1. /\ q.kind = "create" => type = "created" /\ s \in Statuses
        /\ q.kind \in {"update", "batchUpdate"} => type = "updated" /\ s \in Statuses
        /\ q.kind \in {"delete", "batchDelete"} => type = "deleted"
    BY <1>5 DEF RequestSound
  <2> QED
    BY <1>5, <2>1
<1> HIDE DEF type
<1>9. CanChange(serverIssue, done, type, s)
  BY <1>4, <1>5, <1>8 DEF CanChange, Alive
<1>10. /\ issueRequest' \in [Slots -> IssueRequest \cup {None}]
       /\ \A x \in Slots : issueRequest'[x] = IF x = r THEN n ELSE issueRequest[x]
  BY <1>2, <1>6, <1>7 DEF BoardTyped
<1>11. n # None
  BY <1>6, Apart
<1> HIDE DEF n, s
<1>12. \A x \in Slots : issueRequest'[x] # None => RequestSound(issueRequest'[x])
  BY <1>2, <1>6, <1>10 DEF BoardTyped
<1>13. Requests' = Requests
  BY <1>3, <1>10, <1>11 DEF Requests
<1>14. \A i \in Opened : UpdatesOf(i)' = UpdatesOf(i)
  <2> SUFFICES ASSUME NEW i \in Opened PROVE UpdatesOf(i)' = UpdatesOf(i)
    OBVIOUS
  <2>1. \A x \in Requests : /\ issueRequest'[x].kind = issueRequest[x].kind
                            /\ issueRequest'[x].ids = issueRequest[x].ids
    BY <1>6, <1>10 DEF Requests
  <2> QED
    BY <1>13, <2>1 DEF UpdatesOf
<1>15. ChangeIssues(done, type, s)
  BY <1>4 DEF s
<1> QED
  BY <1>1, <1>2, <1>3, <1>9, <1>10, <1>12, <1>13, <1>14, <1>15, IssuesChanged

\* A step that changes the queries and the requests, not what is told of the server.
LEMMA QueriesChanged ==
  ASSUME BoardTyped, NEW b \in Servers, Told(b, wire, serverIssue),
         serverIssue' = serverIssue, wire' = wire, page' \in Pages, conn' \in {"up", "down"},
         conn' = "down" => wire = <<>>,
         list' \in ListQuery, ListSound(list', b, serverIssue, conn', wire, Requests'),
         detail' = [i \in Opened |-> detail'[i]],
         \A i \in Opened :
            /\ detail'[i] \in DetailQuery
            /\ DetailSound(detail'[i], b[i], serverIssue[i], conn', NewsOf(i), UpdatesOf(i)'),
         issueRequest' \in [Slots -> IssueRequest \cup {None}],
         \A r \in Slots : issueRequest'[r] # None => RequestSound(issueRequest'[r]),
         MoreSound(more', serverIssue, wire)
  PROVE  BoardInv'
<1>1. detail' \in [Opened -> DetailQuery]
  <2> DEFINE e == detail'
  <2>1. e = [i \in Opened |-> e[i]] /\ \A i \in Opened : e[i] \in DetailQuery
    OBVIOUS
  <2> HIDE DEF e
  <2>2. e \in [Opened -> DetailQuery]
    BY <2>1
  <2> QED
    BY <2>2 DEF e
<1>2. BoardTyped'
  BY <1>1 DEF BoardTyped
<1>3. \A i \in Opened : NewsOf(i)' = NewsOf(i)
  BY DEF NewsOf
<1>4. ClientSound(b)'
  BY <1>3 DEF ClientSound
<1> QED
  BY <1>2, <1>4 DEF BoardInv

\* ... with the requests as they are.
LEMMA RequestsKept ==
  ASSUME BoardTyped, issueRequest' = issueRequest
  PROVE  /\ issueRequest' \in [Slots -> IssueRequest \cup {None}]
         /\ \A r \in Slots : issueRequest'[r] # None => RequestSound(issueRequest'[r])
         /\ Requests' = Requests /\ \A i \in Opened : UpdatesOf(i)' = UpdatesOf(i)
<1>1. Requests' = Requests /\ \A i \in Opened : UpdatesOf(i)' = UpdatesOf(i)
  BY DEF Requests, UpdatesOf
<1> QED
  BY <1>1 DEF BoardTyped

\* A step that changes only the list, or what is to be appended to it.
LEMMA ListChanged ==
  ASSUME BoardTyped, NEW b \in Servers, ClientSound(b),
         UNCHANGED <<serverIssue, conn, wire, detail, page, issueRequest>>,
         list' \in ListQuery, ListSound(list', b, serverIssue, conn, wire, Requests),
         MoreSound(more', serverIssue, wire)
  PROVE  BoardInv'
<1>1. /\ Told(b, wire, serverIssue) /\ serverIssue' = serverIssue /\ wire' = wire
      /\ page' \in Pages /\ conn' \in {"up", "down"} /\ (conn' = "down" => wire = <<>>)
      /\ conn' = conn
  BY DEF BoardTyped, ClientSound
<1>2. /\ issueRequest' \in [Slots -> IssueRequest \cup {None}]
      /\ \A r \in Slots : issueRequest'[r] # None => RequestSound(issueRequest'[r])
      /\ Requests' = Requests /\ \A i \in Opened : UpdatesOf(i)' = UpdatesOf(i)
  BY RequestsKept
<1>3. ListSound(list', b, serverIssue, conn', wire, Requests')
  BY <1>1, <1>2
<1>4. /\ detail' = [i \in Opened |-> detail'[i]]
      /\ \A i \in Opened :
            /\ detail'[i] \in DetailQuery
            /\ DetailSound(detail'[i], b[i], serverIssue[i], conn', NewsOf(i), UpdatesOf(i)')
  BY <1>1, <1>2 DEF BoardTyped, ClientSound
<1> QED
  BY <1>1, <1>2, <1>3, <1>4, QueriesChanged

\* A step that changes one page.
LEMMA DetailChanged ==
  ASSUME BoardInv, NEW b \in Servers, ClientSound(b),
         UNCHANGED <<serverIssue, conn, wire, list, page, issueRequest, more>>,
         NEW i \in Opened, NEW n \in DetailQuery, detail' = [detail EXCEPT ![i] = n],
         DetailSound(n, b[i], serverIssue[i], conn, NewsOf(i), UpdatesOf(i))
  PROVE  BoardInv'
<1>1. /\ BoardTyped /\ Told(b, wire, serverIssue)
      /\ serverIssue' = serverIssue /\ wire' = wire
      /\ page' \in Pages /\ conn' \in {"up", "down"} /\ (conn' = "down" => wire = <<>>)
      /\ conn' = conn /\ list' \in ListQuery /\ MoreSound(more', serverIssue, wire)
  BY DEF BoardInv, BoardTyped, ClientSound
<1>2. /\ issueRequest' \in [Slots -> IssueRequest \cup {None}]
      /\ \A r \in Slots : issueRequest'[r] # None => RequestSound(issueRequest'[r])
      /\ Requests' = Requests /\ \A j \in Opened : UpdatesOf(j)' = UpdatesOf(j)
  BY <1>1, RequestsKept
<1>3. ListSound(list', b, serverIssue, conn', wire, Requests')
  BY <1>1, <1>2 DEF ClientSound
<1>4. /\ detail' = [j \in Opened |-> detail'[j]]
      /\ \A j \in Opened :
            /\ detail'[j] \in DetailQuery
            /\ DetailSound(detail'[j], b[j], serverIssue[j], conn', NewsOf(j), UpdatesOf(j)')
  BY <1>1, <1>2 DEF BoardTyped, ClientSound
<1> QED
  BY <1>1, <1>2, <1>3, <1>4, QueriesChanged

\* Nothing on the wire: the events that were sent have all been handled.
LEMMA Quiet ==
  ASSUME NEW b, Told(b, wire, serverIssue), wire = <<>>
  PROVE  b = serverIssue /\ \A i \in Opened : NewsOf(i) = {}
<1>1. Len(wire) = 0
  OBVIOUS
<1> QED
  BY <1>1, ToldDone DEF NewsOf

LEMMA AnsweredList ==
  ASSUME BoardInv, NEW s \in Paginated, AnswerList(s)
  PROVE  BoardInv'
<1>1. PICK b \in Servers : ClientSound(b)
  BY DEF BoardInv
<1>2. /\ BoardTyped /\ list \in ListQuery /\ list.fetch # None
      /\ ListSound(list, b, serverIssue, conn, wire, Requests)
      /\ UNCHANGED <<serverIssue, conn, wire, detail, page, issueRequest>>
      /\ MoreSound(more', serverIssue, wire)
  BY <1>1 DEF BoardInv, BoardTyped, ClientSound, AnswerList
<1> DEFINE u == Page(s, 0)
           n == Answer(list, s, u, wire = <<>>)
<1>3. u \in Bucket /\ PageAt(serverIssue, s, u)
  BY PageIs
<1>4. list' = n
  BY DEF AnswerList
<1> HIDE DEF u
<1>5. n \in ListQuery /\ ListSound(n, b, serverIssue, conn, wire, Requests)
  BY <1>2, <1>3, ListAnswered
<1> HIDE DEF n
<1> QED
  BY <1>1, <1>2, <1>4, <1>5, ListChanged

LEMMA AnsweredDetail ==
  ASSUME BoardInv, NEW i \in Opened, AnswerDetail(i)
  PROVE  BoardInv'
<1>1. PICK b \in Servers : ClientSound(b)
  BY DEF BoardInv
<1> DEFINE q == detail[i]
           t == serverIssue[i]
           u == IF t \in Statuses THEN t ELSE None
           quiet == wire = <<>>
           n == Answer(q, "issue", u, quiet)
<1>2. /\ BoardTyped /\ q \in DetailQuery /\ q.fetch # None /\ q.fetch.answers = {}
      /\ t \in Statuses \cup {"unborn", "deleted"}
      /\ DetailSound(q, b[i], t, conn, NewsOf(i), UpdatesOf(i))
      /\ UNCHANGED <<serverIssue, conn, wire, list, page, issueRequest, more>>
  BY <1>1, Apart DEF BoardInv, BoardTyped, ClientSound, AnswerDetail, Servers
<1>3. quiet \in BOOLEAN /\ (quiet => b[i] = t /\ NewsOf(i) = {})
  BY <1>1, Quiet DEF ClientSound
<1>4. u \in Statuses \cup {None}
  OBVIOUS
<1>5. detail' = [detail EXCEPT ![i] = n]
  BY DEF AnswerDetail, Alive
<1>6. n \in DetailQuery /\ DetailSound(n, b[i], t, conn, NewsOf(i), UpdatesOf(i))
  <2> HIDE DEF q, t, quiet
  <2>1. u = IF t \in Statuses THEN t ELSE None
    OBVIOUS
  <2> HIDE DEF u
  <2> QED
    BY <1>2, <1>3, <1>4, <2>1, DetailAnswered
<1> HIDE DEF n
<1> QED
  BY <1>1, <1>2, <1>5, <1>6, DetailChanged

LEMMA AnsweredMore ==
  ASSUME BoardInv, AnswerMore
  PROVE  BoardInv'
<1>1. PICK b \in Servers : ClientSound(b)
  BY DEF BoardInv
<1> DEFINE u == Page(more.status, more.offset)
           quiet == wire = <<>>
           m == [more EXCEPT !.answer = u, !.clean = quiet]
<1>2. /\ BoardTyped /\ list' \in ListQuery /\ more # None
      /\ ListSound(list', b, serverIssue, conn, wire, Requests)
      /\ UNCHANGED <<serverIssue, conn, wire, detail, page, issueRequest>>
      /\ more \in More
  BY <1>1 DEF BoardInv, BoardTyped, ClientSound, AnswerMore, MoreSound
<1>3. u \in Bucket /\ PageAt(serverIssue, more.status, u)
  BY PageIs
<1>4. more' = m
  BY DEF AnswerMore
<1>5. quiet \in BOOLEAN
  OBVIOUS
<1> HIDE DEF u, quiet
<1>6. /\ m \in More
      /\ m.answer = u /\ m.status = more.status /\ m.clean = quiet
  BY <1>2, <1>3, <1>5 DEF More
<1> HIDE DEF m
<1>7. MoreSound(more', serverIssue, wire)
  BY <1>3, <1>4, <1>6 DEF MoreSound, quiet
<1> QED
  BY <1>1, <1>2, <1>7, ListChanged

LEMMA Refetched ==
  ASSUME BoardInv, RefetchBoard
  PROVE  BoardInv'
<1>1. PICK b \in Servers : ClientSound(b)
  BY DEF BoardInv
<1>2. /\ BoardTyped /\ Told(b, wire, serverIssue) /\ wire = <<>>
      /\ serverIssue' = serverIssue /\ wire' = wire
      /\ page' \in Pages /\ conn' \in {"up", "down"} /\ (conn' = "down" => wire = <<>>)
      /\ issueRequest' = issueRequest /\ MoreSound(more', serverIssue, wire)
  BY <1>1 DEF BoardInv, BoardTyped, ClientSound, RefetchBoard, Authenticated
<1>3. /\ issueRequest' \in [Slots -> IssueRequest \cup {None}]
      /\ \A r \in Slots : issueRequest'[r] # None => RequestSound(issueRequest'[r])
  BY <1>2, RequestsKept
<1>4. list' \in ListQuery /\ ListSound(list', b, serverIssue, conn', wire, Requests')
  <2>1. list \in ListQuery /\ ListFetched(list, serverIssue, wire) /\ list' = Invalidate(list)
    BY <1>1 DEF BoardInv, BoardTyped, ClientSound, ListSound, RefetchBoard
  <2>2. /\ Invalidate(list) \in ListQuery
        /\ ListSound(Invalidate(list), b, serverIssue, conn', wire, Requests')
    BY <2>1, ListInvalidated
  <2> QED
    BY <2>1, <2>2
<1>5. ASSUME NEW i \in Opened
      PROVE  /\ detail'[i] \in DetailQuery
             /\ DetailSound(detail'[i], b[i], serverIssue[i], conn', NewsOf(i), UpdatesOf(i)')
  <2> DEFINE q == detail[i]
  <2>1. /\ q \in DetailQuery /\ DetailFetched(q, b[i], serverIssue[i], NewsOf(i))
        /\ detail'[i] = Invalidate(q)
    BY <1>1 DEF BoardInv, BoardTyped, ClientSound, DetailSound, RefetchBoard
  <2> HIDE DEF q
  <2>2. /\ Invalidate(q) \in DetailQuery
        /\ DetailSound(Invalidate(q), b[i], serverIssue[i], conn', NewsOf(i), UpdatesOf(i)')
    BY <2>1, DetailInvalidated
  <2> QED
    BY <2>1, <2>2
<1>6. detail' = [i \in Opened |-> detail'[i]]
  BY DEF RefetchBoard
<1> QED
  BY <1>2, <1>3, <1>4, <1>5, <1>6, QueriesChanged

LEMMA CutOff ==
  ASSUME BoardInv, Disconnect, UNCHANGED boardVars
  PROVE  BoardInv'
<1>1. PICK b \in Servers : ClientSound(b)
  BY DEF BoardInv
<1> DEFINE t == serverIssue
<1>2. /\ BoardTyped /\ t \in Servers /\ MoreSound(more, t, wire)
      /\ UNCHANGED <<serverIssue, list, detail, page, issueRequest, more>>
      /\ conn' = "down" /\ wire' = <<>>
      /\ list \in ListQuery /\ ListSound(list, b, t, conn, wire, Requests)
  BY <1>1 DEF BoardInv, BoardTyped, ClientSound, Disconnect, boardVars
<1>3. Requests' = Requests /\ \A i \in Opened : UpdatesOf(i)' = UpdatesOf(i)
  BY <1>2, RequestsKept
<1>4. ListSound(list, t, t, "down", <<>>, Requests)
  BY <1>2, ListCutOff
<1>5. ASSUME NEW i \in Opened
      PROVE  DetailSound(detail[i], t[i], t[i], "down", {}, UpdatesOf(i))
  <2>1. DetailSound(detail[i], b[i], t[i], conn, NewsOf(i), UpdatesOf(i))
    BY <1>1 DEF ClientSound
  <2>2. detail[i] \in DetailQuery
    BY <1>2 DEF BoardTyped
  <2> QED
    BY <2>1, <2>2, DetailCutOff
<1>6. Told(t, <<>>, t)
  BY <1>2, ToldNow
<1>7. \A i \in Opened : NewsOf(i)' = {}
  <2>1. Len(wire') = 0
    BY <1>2
  <2> QED
    BY <2>1 DEF NewsOf
<1>8. BoardTyped'
  BY <1>2 DEF BoardTyped
<1>9. MoreSound(more, t, <<>>)
  BY <1>2 DEF MoreSound
<1>10. PICK z \in Servers : z = t
  BY <1>2
<1>11. ClientSound(z)'
  BY <1>2, <1>3, <1>4, <1>5, <1>6, <1>7, <1>10 DEF ClientSound
<1> QED
  BY <1>2, <1>8, <1>9, <1>11 DEF BoardInv

LEMMA PageOpened ==
  ASSUME BoardInv, NEW p \in Pages, OpenPage(p)
  PROVE  BoardInv'
<1>1. PICK b \in Servers : ClientSound(b)
  BY DEF BoardInv
<1>2. /\ BoardTyped /\ Told(b, wire, serverIssue)
      /\ serverIssue' = serverIssue /\ wire' = wire /\ conn' = conn
      /\ page' \in Pages /\ conn' \in {"up", "down"} /\ (conn' = "down" => wire = <<>>)
      /\ issueRequest' = issueRequest /\ MoreSound(more', serverIssue, wire)
  BY <1>1 DEF BoardInv, BoardTyped, ClientSound, OpenPage
<1>3. /\ issueRequest' \in [Slots -> IssueRequest \cup {None}]
      /\ \A r \in Slots : issueRequest'[r] # None => RequestSound(issueRequest'[r])
      /\ Requests' = Requests /\ \A j \in Opened : UpdatesOf(j)' = UpdatesOf(j)
  BY <1>2, RequestsKept
<1>4. list' \in ListQuery /\ ListSound(list', b, serverIssue, conn, wire, Requests)
  <2>1. /\ list \in ListQuery /\ ListSound(list, b, serverIssue, conn, wire, Requests)
        /\ list' = Mount(list) \/ list' = Unmount(list)
    BY <1>1 DEF BoardInv, BoardTyped, ClientSound, OpenPage
  <2>2. /\ Mount(list) \in ListQuery
        /\ ListSound(Mount(list), b, serverIssue, conn, wire, Requests)
        /\ Unmount(list) \in ListQuery
        /\ ListSound(Unmount(list), b, serverIssue, conn, wire, Requests)
    BY <2>1, ListMounted
  <2> QED
    BY <2>1, <2>2
<1>5. ASSUME NEW i \in Opened
      PROVE  /\ detail'[i] \in DetailQuery
             /\ DetailSound(detail'[i], b[i], serverIssue[i], conn, NewsOf(i), UpdatesOf(i))
  <2> DEFINE q == detail[i]
             t == serverIssue[i]
  <2>1. /\ q \in DetailQuery /\ DetailSound(q, b[i], t, conn, NewsOf(i), UpdatesOf(i))
        /\ detail'[i] = IF p = OnIssue(i) THEN Mount(q) ELSE Unmount(q)
        /\ p = OnIssue(i) => t # "unborn"
    BY <1>1 DEF BoardInv, BoardTyped, ClientSound, OpenPage
  <2> HIDE DEF q, t
  <2>2. /\ t # "unborn" =>
             Mount(q) \in DetailQuery
             /\ DetailSound(Mount(q), b[i], t, conn, NewsOf(i), UpdatesOf(i))
        /\ Unmount(q) \in DetailQuery
        /\ DetailSound(Unmount(q), b[i], t, conn, NewsOf(i), UpdatesOf(i))
    BY <2>1, DetailMounted
  <2> QED
    BY <2>1, <2>2 DEF t
<1>6. detail' = [i \in Opened |-> detail'[i]]
  BY DEF OpenPage
<1>7. /\ ListSound(list', b, serverIssue, conn', wire, Requests')
      /\ \A i \in Opened :
            /\ detail'[i] \in DetailQuery
            /\ DetailSound(detail'[i], b[i], serverIssue[i], conn', NewsOf(i), UpdatesOf(i)')
  BY <1>2, <1>3, <1>4, <1>5
<1> QED
  BY <1>2, <1>3, <1>4, <1>6, <1>7, QueriesChanged

LEMMA LandedList ==
  ASSUME BoardInv, LandList
  PROVE  BoardInv'
<1>1. PICK b \in Servers : ClientSound(b)
  BY DEF BoardInv
<1> DEFINE as == list.fetch.answers
           d == FirstPages(as)
<1>2. /\ BoardTyped /\ list \in ListQuery /\ list.fetch # None
      /\ {a[1] : a \in as} = Paginated /\ list' = Land(list, d)
      /\ ListSound(list, b, serverIssue, conn, wire, Requests)
      /\ UNCHANGED <<serverIssue, conn, wire, detail, page, issueRequest>>
      /\ MoreSound(more', serverIssue, wire) /\ Told(b, wire, serverIssue)
  BY <1>1 DEF BoardInv, BoardTyped, ClientSound, LandList
<1>3. as \subseteq Paginated \X Bucket /\ list.fetch.clean \in BOOLEAN
  BY <1>2, ListTyped
<1>4. CASE as # {}
  <2>1. list.fetch.clean => wire = <<>> /\ \A a \in as : PageAt(serverIssue, a[1], a[2])
    BY <1>2, <1>4 DEF ListSound, ListFetched
  <2>2. list.fetch.clean => b = serverIssue
    BY <1>2, <2>1, Quiet
  <2> HIDE DEF as
  <2>3. /\ d \in Buckets
        /\ (\A a \in as : PageAt(serverIssue, a[1], a[2])) => ExactAt(d, serverIssue)
    BY <1>2, <1>3, FirstPagesAre
  <2> HIDE DEF d
  <2>4. Land(list, d) \in ListQuery /\ ListSound(Land(list, d), b, serverIssue, conn, wire, Requests)
    <3>1. list.fetch.clean => ExactAt(d, b)
      BY <2>1, <2>2, <2>3
    <3> QED
      BY <1>2, <2>3, <3>1, ListLanded
  <2> QED
    BY <1>1, <1>2, <2>4, ListChanged
<1>5. CASE as = {}
  <2>1. Paginated = {}
    BY <1>2, <1>5
  <2> HIDE DEF as
  <2>2. d \in Buckets
    BY <1>2, <1>3, FirstPagesAre
  <2> HIDE DEF d
  <2>3. ExactAt(d, b)
    BY <2>1 DEF ExactAt
  <2>4. Land(list, d) \in ListQuery /\ ListSound(Land(list, d), b, serverIssue, conn, wire, Requests)
    BY <1>2, <2>2, <2>3, ListLanded
  <2> QED
    BY <1>1, <1>2, <2>4, ListChanged
<1> QED
  BY <1>4, <1>5

LEMMA LandedDetail ==
  ASSUME BoardInv, NEW i \in Opened, LandDetail(i)
  PROVE  BoardInv'
<1>1. PICK b \in Servers : ClientSound(b)
  BY DEF BoardInv
<1> DEFINE q == detail[i]
           a == CHOOSE x \in q.fetch.answers : TRUE
           n == IF a[2] = None THEN Cancel(q) ELSE Land(q, a[2])
<1>2. /\ BoardTyped /\ q \in DetailQuery /\ q.fetch # None /\ a \in q.fetch.answers
      /\ DetailSound(q, b[i], serverIssue[i], conn, NewsOf(i), UpdatesOf(i))
      /\ UNCHANGED <<serverIssue, conn, wire, list, page, issueRequest, more>>
      /\ detail' = [detail EXCEPT ![i] = n]
  BY <1>1 DEF BoardInv, BoardTyped, ClientSound, LandDetail
<1> HIDE DEF a
<1>3. n \in DetailQuery /\ DetailSound(n, b[i], serverIssue[i], conn, NewsOf(i), UpdatesOf(i))
  BY <1>2, DetailLanded
<1> HIDE DEF n
<1> QED
  BY <1>1, <1>2, <1>3, DetailChanged

\* The rows of a bucket are numbered.
LEMMA LoadedIs ==
  ASSUME NEW bucket \in Bucket
  PROVE  Loaded(bucket) \in Nat
<1> DEFINE f == [i \in Issues |-> {i} \X (1..bucket.rows[i])]
           S == {{i} \X (1..bucket.rows[i]) : i \in Issues}
<1>1. IsFiniteSet(S)
  <2>1. f \in Surjection(Issues, S)
    BY DEF Surjection
  <2>2. IsFiniteSet(Issues)
    BY IssuesAssumption
  <2> HIDE DEF f, S
  <2> QED
    BY ONLY <2>1, <2>2, FS_Surjection
<1>2. ASSUME NEW T \in S
      PROVE  IsFiniteSet(T)
  <2>1. PICK i \in Issues : T = {i} \X (1..bucket.rows[i])
    OBVIOUS
  <2>2. bucket.rows[i] \in Int
    BY DEF Bucket
  <2>3. IsFiniteSet({i}) /\ IsFiniteSet(1..bucket.rows[i])
    <3>1. PICK k \in Int : k = bucket.rows[i]
      BY <2>2
    <3>2. IsFiniteSet(1..k)
      BY FS_Interval
    <3> QED
      BY <3>1, <3>2, FS_Singleton
  <2>4. IsFiniteSet({i} \X (1..bucket.rows[i]))
    BY <2>3, FS_Product
  <2> QED
    BY <2>1, <2>4
<1>3. IsFiniteSet(UNION S)
  BY <1>1, <1>2, FS_UNION
<1> QED
  BY <1>3, FS_CardinalityType DEF Loaded

LEMMA MoreLoaded ==
  ASSUME BoardInv, NEW s \in Paginated, LoadMore(s)
  PROVE  BoardInv'
<1>1. PICK b \in Servers : ClientSound(b)
  BY DEF BoardInv
<1> DEFINE m == [status |-> s, offset |-> Loaded(list.data[s]), answer |-> None, clean |-> TRUE]
<1>2. /\ BoardTyped /\ list' \in ListQuery
      /\ ListSound(list', b, serverIssue, conn, wire, Requests)
      /\ UNCHANGED <<serverIssue, conn, wire, detail, page, issueRequest>>
      /\ more' = m
  BY <1>1 DEF BoardInv, BoardTyped, ClientSound, LoadMore
<1>3. /\ m \in More
      /\ m.answer = None
  <2>1. list.data[s] \in Bucket
    <3>1. list.data # None
      BY DEF LoadMore
    <3> QED
      BY <1>2, <3>1 DEF BoardInv, BoardTyped, ListQuery, Query, Buckets, Statuses
  <2> QED
    BY <2>1, LoadedIs DEF More
<1> HIDE DEF m
<1>4. MoreSound(more', serverIssue, wire)
  BY <1>2, <1>3 DEF MoreSound
<1> QED
  BY <1>1, <1>2, <1>4, ListChanged

LEMMA LandedMore ==
  ASSUME BoardInv, LandMore
  PROVE  BoardInv'
<1>1. PICK b \in Servers : ClientSound(b)
  BY DEF BoardInv
<1> DEFINE s == more.status
           u == more.answer
           d == [list.data EXCEPT ![s] = Appended(@, u)]
           n == Patch(list, d)
           k == [Patch(list, d) EXCEPT !.doubt = @ \cup {"overlap"}]
<1>2. /\ BoardTyped /\ list \in ListQuery /\ Told(b, wire, serverIssue)
      /\ ListSound(list, b, serverIssue, conn, wire, Requests)
      /\ UNCHANGED <<serverIssue, conn, wire, detail, page, issueRequest>>
      /\ s \in Paginated /\ u \in Bucket /\ more' = None
      /\ more.clean => wire = <<>> /\ PageAt(serverIssue, s, u)
  BY <1>1 DEF BoardInv, BoardTyped, ClientSound, LandMore, MoreSound, More
<1>3. list' = IF list.data = None THEN list ELSE IF more.clean THEN n ELSE k
  BY DEF LandMore
<1> HIDE DEF s, u
<1>4. list.data # None =>
         /\ d \in Buckets
         /\ ExactAt(list.data, serverIssue) /\ PageAt(serverIssue, s, u) => ExactAt(d, serverIssue)
  <2>1. list.data # None => list.data \in Buckets
    BY <1>2, ListTyped
  <2> QED
    BY <1>2, <2>1, AppendedIs
<1>5. MoreSound(more', serverIssue, wire)
  BY <1>2 DEF MoreSound
<1> HIDE DEF d
<1>6. CASE list.data = None
  <2>1. list' \in ListQuery /\ ListSound(list', b, serverIssue, conn, wire, Requests)
    BY <1>2, <1>3, <1>6
  <2> QED
    BY <1>1, <1>2, <1>5, <2>1, ListChanged
<1>7. CASE list.data # None /\ more.clean
  <2>1. b = serverIssue
    BY <1>2, <1>7, Quiet
  <2>2. list.data # None /\ ExactAt(list.data, b) => ExactAt(d, b)
    BY <1>2, <1>4, <1>7, <2>1
  <2>3. n \in ListQuery /\ ListSound(n, b, serverIssue, conn, wire, Requests)
    <3>1. list.data # None => d \in Buckets
      BY <1>4
    <3>2. wire = <<>> => wire = <<>>
      OBVIOUS
    <3>3. list \in ListQuery /\ ListSound(list, b, serverIssue, conn, wire, Requests)
      BY <1>2
    <3> QED
      BY <3>1, <3>2, <3>3, <2>2, ListPatched
  <2> HIDE DEF n
  <2> QED
    BY <1>1, <1>2, <1>3, <1>5, <1>7, <2>3, ListChanged
<1>8. CASE list.data # None /\ ~ more.clean
  <2>1. k \in ListQuery /\ ListSound(k, b, serverIssue, conn, wire, Requests)
    <3>1. "overlap" \in Doubts
      BY DEF Doubts
    <3>2. list.data # None => d \in Buckets
      BY <1>4
    <3>3. wire = <<>> => wire = <<>>
      OBVIOUS
    <3>4. list \in ListQuery /\ ListSound(list, b, serverIssue, conn, wire, Requests)
      BY <1>2
    <3> QED
      BY <3>1, <3>2, <3>3, <3>4, ListDoubted
  <2> HIDE DEF k
  <2> QED
    BY <1>1, <1>2, <1>3, <1>5, <1>8, <2>1, ListChanged
<1> QED
  BY <1>6, <1>7, <1>8

\* What handling the event at the head of the wire is, apart from the queries.
LEMMA EventHandled ==
  ASSUME BoardInv, NEW b \in Servers, ClientSound(b), Deliver,
         UNCHANGED <<serverIssue, page, issueRequest, more>>,
         NEW f, f = Head(wire), NEW z, z = After(b, f),
         list' \in ListQuery, ListSound(list', z, serverIssue, conn, wire', Requests),
         detail' \in [Opened -> DetailQuery],
         \A i \in Opened : (NewsOf(i) = {} => NewsOf(i)' = {}) =>
            DetailSound(detail'[i], z[i], serverIssue[i], conn, NewsOf(i)', UpdatesOf(i))
  PROVE  BoardInv'
<1>1. /\ BoardTyped /\ Told(b, wire, serverIssue) /\ wire # <<>> /\ wire' = Tail(wire)
      /\ wire \in Seq(IssueEvents) /\ conn' = conn /\ issueRequest' = issueRequest
      /\ MoreSound(more, serverIssue, wire) /\ f = wire[1]
  BY DEF BoardInv, BoardTyped, ClientSound, Deliver
<1>2. /\ z \in Servers /\ wire' \in Seq(IssueEvents) /\ Len(wire') = Len(wire) - 1
      /\ \A k \in 1..Len(wire') : k + 1 \in 1..Len(wire) /\ wire'[k] = wire[k + 1]
      /\ Told(z, wire', serverIssue)
  BY <1>1, ToldHandled
<1>3. Requests' = Requests /\ \A i \in Opened : UpdatesOf(i)' = UpdatesOf(i)
  BY <1>1, RequestsKept
<1>4. ASSUME NEW i \in Opened, NewsOf(i) = {} PROVE NewsOf(i)' = {}
  BY <1>2, <1>4 DEF NewsOf
<1>5. BoardTyped'
  BY <1>1, <1>2 DEF BoardTyped
<1>6. MoreSound(more', serverIssue, wire')
  BY <1>1 DEF MoreSound
<1>7. PICK y \in Servers : y = z
  BY <1>2
<1>8. ClientSound(y)'
  BY <1>1, <1>2, <1>3, <1>4, <1>7 DEF ClientSound
<1> QED
  BY <1>5, <1>6, <1>8 DEF BoardInv

LEMMA FirstEvent ==
  ASSUME BoardInv, NEW b \in Servers, ClientSound(b), Deliver, NEW f, f = Head(wire)
  PROVE  /\ f \in IssueEvents /\ Happened(b, f) /\ f.issue \in Issues /\ b[f.issue] # "deleted"
         /\ \A i \in Issues : i # f.issue => After(b, f)[i] = b[i]
         /\ After(b, f)[f.issue] = IF f.type = "deleted" THEN "deleted" ELSE f.status
         /\ f.issue \in Opened => NewsOf(f.issue) # {}
<1>1. /\ wire # <<>> /\ wire \in Seq(IssueEvents) /\ Told(b, wire, serverIssue)
      /\ f = wire[1]
  BY DEF BoardInv, BoardTyped, ClientSound, Deliver
<1>2. f \in IssueEvents /\ Happened(b, f)
  BY <1>1, ToldHandled
<1>3. 1 \in NewsOf(f.issue)
  <2>1. 1 \in 1..Len(wire)
    BY <1>1
  <2> QED
    BY <1>1, <2>1 DEF NewsOf
<1>4. b[f.issue] # "deleted"
  BY <1>2, Apart DEF Happened
<1>5. f.issue \in Issues
  BY <1>2, EventHas
<1>6. \A i \in Issues : After(b, f)[i] = IF i = f.issue THEN IF f.type = "deleted"
                                                             THEN "deleted" ELSE f.status
                                         ELSE b[i]
  BY <1>2, AfterIs
<1> QED
  BY <1>2, <1>3, <1>4, <1>5, <1>6

LEMMA HandledCreated ==
  ASSUME BoardInv, NEW b \in Servers, ClientSound(b), Deliver,
         UNCHANGED <<serverIssue, page, issueRequest, more>>,
         NEW f, f = Head(wire), f.type = "created", OnCreated(f)
  PROVE  BoardInv'
<1>1. /\ f \in IssueEvents /\ Happened(b, f) /\ f.issue \in Issues
      /\ \A i \in Issues : i # f.issue => After(b, f)[i] = b[i]
      /\ f.issue \in Opened => NewsOf(f.issue) # {}
  BY FirstEvent
<1>2. /\ list \in ListQuery /\ ListSound(list, b, serverIssue, conn, wire, Requests)
      /\ wire # <<>> /\ detail' = detail /\ detail \in [Opened -> DetailQuery]
  BY DEF BoardInv, BoardTyped, ClientSound, Deliver, OnCreated
<1>3. f.status \in Statuses
  BY <1>1, EventHas
<1>4. PICK z : z = After(b, f)
  OBVIOUS
<1> DEFINE d == AddIssue(list.data, f.issue, f.status)
<1>5. list' = Patch(list, d)
  BY DEF OnCreated, Patch
<1>6. list.data # None =>
         d \in Buckets /\ (ExactAt(list.data, b) => ExactAt(d, z))
  <2>1. list.data # None => list.data \in Buckets
    BY <1>2, ListTyped
  <2>2. list.data # None => d \in Buckets
    BY <1>1, <1>3, <2>1, HelpersTyped
  <2>3. list.data # None /\ ExactAt(list.data, b) => ExactAt(d, After(b, f))
    BY <1>1, <2>1, CreatedExact
  <2> QED
    BY <1>4, <2>2, <2>3
<1> HIDE DEF d
<1>7. Patch(list, d) \in ListQuery /\ ListSound(Patch(list, d), z, serverIssue, conn, wire', Requests)
  <2>1. list.data # None => d \in Buckets
    BY <1>6
  <2>2. list.data # None /\ ExactAt(list.data, b) => ExactAt(d, z)
    BY <1>6
  <2>3. wire = <<>> => wire' = <<>>
    BY <1>2
  <2> QED
    BY <1>2, <2>1, <2>2, <2>3, ListPatched
<1>8. ASSUME NEW i \in Opened, NewsOf(i) = {} => NewsOf(i)' = {}
      PROVE  DetailSound(detail[i], z[i], serverIssue[i], conn, NewsOf(i)', UpdatesOf(i))
  <2>1. /\ detail[i] \in DetailQuery /\ i \in Issues
        /\ DetailSound(detail[i], b[i], serverIssue[i], conn, NewsOf(i), UpdatesOf(i))
    BY Apart DEF BoardInv, BoardTyped, ClientSound
  <2>2. CASE i = f.issue
    <3>1. b[i] \notin Statuses /\ NewsOf(i) # {}
      BY <1>1, <2>2, Apart DEF Happened
    <3> QED
      BY <2>1, <3>1, DetailTyped DEF DetailSound, DetailFetched
  <2>3. CASE i # f.issue
    <3>1. z[i] = b[i]
      BY <1>1, <1>4, <2>1, <2>3
    <3> QED
      BY <1>8, <2>1, <3>1, DetailKept
  <2> QED
    BY <2>2, <2>3
<1> QED
  BY <1>2, <1>4, <1>5, <1>7, <1>8, EventHandled

LEMMA HandledUpdated ==
  ASSUME BoardInv, NEW b \in Servers, ClientSound(b), Deliver,
         UNCHANGED <<serverIssue, page, issueRequest, more>>,
         NEW f, f = Head(wire), f.type = "updated", OnUpdated(f)
  PROVE  BoardInv'
<1>1. /\ f \in IssueEvents /\ Happened(b, f) /\ f.issue \in Issues
      /\ \A i \in Issues : i # f.issue => After(b, f)[i] = b[i]
      /\ After(b, f)[f.issue] = f.status
      /\ f.issue \in Opened => NewsOf(f.issue) # {}
  BY FirstEvent
<1>2. /\ list \in ListQuery /\ ListSound(list, b, serverIssue, conn, wire, Requests)
      /\ wire # <<>> /\ detail \in [Opened -> DetailQuery]
      /\ (wire = <<>> => wire' = <<>>)
  BY DEF BoardInv, BoardTyped, ClientSound, Deliver
<1>3. f.status \in Statuses
  BY <1>1, EventHas
<1>4. PICK z : z = After(b, f)
  OBVIOUS
<1> DEFINE d == PatchIssue(list.data, f.issue, f.status)
           k == [Patch(list, d) EXCEPT !.doubt = @ \cup {"unlocated"}]
<1>5. list' = IF list.data = None \/ Located(list.data, f.issue) THEN Patch(list, d) ELSE k
  BY DEF OnUpdated, Patch
<1>6. list.data # None => list.data \in Buckets
  BY <1>2, ListTyped
<1>7. list.data # None => d \in Buckets
  BY <1>1, <1>3, <1>6, HelpersTyped
<1>8. list.data # None /\ Located(list.data, f.issue) /\ ExactAt(list.data, b) => ExactAt(d, z)
  <2>1. list.data # None /\ Located(list.data, f.issue) /\ ExactAt(list.data, b) =>
           ExactAt(d, After(b, f))
    BY <1>1, <1>6, UpdatedExact
  <2> QED
    BY <1>4, <2>1
<1> HIDE DEF d
<1>9. list' \in ListQuery /\ ListSound(list', z, serverIssue, conn, wire', Requests)
  <2>1. CASE list.data = None \/ Located(list.data, f.issue)
    <3>1. list.data # None /\ ExactAt(list.data, b) => ExactAt(d, z)
      BY <1>8, <2>1
    <3>2. /\ Patch(list, d) \in ListQuery
          /\ ListSound(Patch(list, d), z, serverIssue, conn, wire', Requests)
      BY <1>2, <1>7, <3>1, ListPatched
    <3> QED
      BY <1>5, <2>1, <3>2
  <2>2. CASE ~ (list.data = None \/ Located(list.data, f.issue))
    <3>1. "unlocated" \in Doubts
      BY DEF Doubts
    <3>2. k \in ListQuery /\ ListSound(k, z, serverIssue, conn, wire', Requests)
      BY <1>2, <1>7, <3>1, ListDoubted
    <3> HIDE DEF k
    <3> QED
      BY <1>5, <2>2, <3>2
  <2> QED
    BY <2>1, <2>2
<1>10. ASSUME NEW i \in Opened
       PROVE  /\ detail'[i] \in DetailQuery
              /\ (NewsOf(i) = {} => NewsOf(i)' = {}) =>
                    DetailSound(detail'[i], z[i], serverIssue[i], conn, NewsOf(i)', UpdatesOf(i))
  <2>1. /\ detail[i] \in DetailQuery /\ i \in Issues
        /\ DetailSound(detail[i], b[i], serverIssue[i], conn, NewsOf(i), UpdatesOf(i))
        /\ detail'[i] = IF i = f.issue THEN Patch(detail[i], f.status) ELSE detail[i]
    BY Apart DEF BoardInv, BoardTyped, ClientSound, OnUpdated
  <2>2. CASE i = f.issue
    <3>1. z[i] = f.status /\ NewsOf(i) # {}
      BY <1>1, <1>4, <2>2
    <3>2. /\ Patch(detail[i], f.status) \in DetailQuery
          /\ DetailSound(Patch(detail[i], f.status), z[i], serverIssue[i], conn, NewsOf(i)', UpdatesOf(i))
      BY <1>3, <2>1, <3>1, DetailPatched
    <3> QED
      BY <2>1, <2>2, <3>2
  <2>3. CASE i # f.issue
    <3>1. z[i] = b[i]
      BY <1>1, <1>4, <2>1, <2>3
    <3>2. (NewsOf(i) = {} => NewsOf(i)' = {}) =>
             DetailSound(detail[i], b[i], serverIssue[i], conn, NewsOf(i)', UpdatesOf(i))
      BY <2>1, DetailKept
    <3> QED
      BY <2>1, <2>3, <3>1, <3>2
  <2> QED
    BY <2>2, <2>3
<1>11. detail' \in [Opened -> DetailQuery]
  BY <1>10 DEF OnUpdated
<1> QED
  BY <1>4, <1>9, <1>10, <1>11, EventHandled

LEMMA HandledDeleted ==
  ASSUME BoardInv, NEW b \in Servers, ClientSound(b), Deliver,
         UNCHANGED <<serverIssue, page, issueRequest, more>>,
         NEW f, f = Head(wire), f.type = "deleted", CleanupDeletedIssues({f.issue})
  PROVE  BoardInv'
<1>1. /\ f \in IssueEvents /\ f.issue \in Issues
      /\ \A i \in Issues : i # f.issue => After(b, f)[i] = b[i]
  BY FirstEvent
<1>2. /\ list \in ListQuery /\ ListFetched(list, serverIssue, wire)
      /\ wire # <<>> /\ detail \in [Opened -> DetailQuery]
  BY DEF BoardInv, BoardTyped, ClientSound, Deliver, ListSound
<1>3. PICK z : z = After(b, f)
  OBVIOUS
<1>4. list' \in ListQuery /\ ListSound(list', z, serverIssue, conn, wire', Requests)
  <2> DEFINE d == RemoveAll(list.data, {f.issue})
             n == Patch(list, d)
  <2>1. list' = Invalidate(n)
    BY DEF CleanupDeletedIssues, Patch
  <2>2. list.data # None => d \in Buckets
    <3>1. list.data # None => list.data \in Buckets
      BY <1>2, ListTyped
    <3> QED
      BY <1>1, <3>1, BatchTyped
  <2> HIDE DEF d
  <2>3. n \in ListQuery /\ ListFetched(n, serverIssue, wire)
    BY <1>2, <2>2, ListRewritten
  <2> HIDE DEF n
  <2>4. ListFetched(n, serverIssue, wire')
    BY <1>2, <2>3 DEF ListFetched
  <2>5. Invalidate(n) \in ListQuery /\ ListSound(Invalidate(n), z, serverIssue, conn, wire', Requests)
    BY <2>3, <2>4, ListInvalidated
  <2> QED
    BY <2>1, <2>5
<1>5. ASSUME NEW i \in Opened
      PROVE  /\ detail'[i] \in DetailQuery
             /\ (NewsOf(i) = {} => NewsOf(i)' = {}) =>
                   DetailSound(detail'[i], z[i], serverIssue[i], conn, NewsOf(i)', UpdatesOf(i))
  <2>1. /\ detail[i] \in DetailQuery /\ i \in Issues
        /\ DetailSound(detail[i], b[i], serverIssue[i], conn, NewsOf(i), UpdatesOf(i))
        /\ detail'[i] = IF i = f.issue THEN Forget(detail[i]) ELSE detail[i]
    BY Apart DEF BoardInv, BoardTyped, ClientSound, CleanupDeletedIssues
  <2>2. CASE i = f.issue
    <3>1. DetailFetched(detail[i], b[i], serverIssue[i], NewsOf(i))
      BY <2>1 DEF DetailSound
    <3>2. /\ Forget(detail[i]) \in DetailQuery
          /\ DetailSound(Forget(detail[i]), z[i], serverIssue[i], conn, NewsOf(i)', UpdatesOf(i))
      BY <2>1, <3>1, DetailForgotten
    <3> QED
      BY <2>1, <2>2, <3>2
  <2>3. CASE i # f.issue
    <3>1. z[i] = b[i]
      BY <1>1, <1>3, <2>1, <2>3
    <3>2. (NewsOf(i) = {} => NewsOf(i)' = {}) =>
             DetailSound(detail[i], b[i], serverIssue[i], conn, NewsOf(i)', UpdatesOf(i))
      BY <2>1, DetailKept
    <3> QED
      BY <2>1, <2>3, <3>1, <3>2
  <2> QED
    BY <2>2, <2>3
<1>6. detail' \in [Opened -> DetailQuery]
  BY <1>5 DEF CleanupDeletedIssues
<1> QED
  BY <1>3, <1>4, <1>5, <1>6, EventHandled

LEMMA EventReceived ==
  ASSUME BoardInv, ReceiveIssueEvent
  PROVE  BoardInv'
<1>1. PICK b \in Servers : ClientSound(b)
  BY DEF BoardInv
<1>2. PICK f : f = Head(wire)
  OBVIOUS
<1>3. Deliver /\ UNCHANGED <<serverIssue, page, issueRequest, more>>
  BY DEF ReceiveIssueEvent
<1>4. f.type \in {"created", "updated", "deleted"}
  BY <1>1, <1>2, <1>3, FirstEvent, EventHas
<1>5. CASE f.type = "created"
  <2>1. OnCreated(f)
    BY <1>2, <1>5 DEF ReceiveIssueEvent
  <2> QED
    BY <1>1, <1>2, <1>3, <1>5, <2>1, HandledCreated
<1>6. CASE f.type = "updated"
  <2>1. OnUpdated(f)
    BY <1>2, <1>6 DEF ReceiveIssueEvent
  <2> QED
    BY <1>1, <1>2, <1>3, <1>6, <2>1, HandledUpdated
<1>7. CASE f.type = "deleted"
  <2>1. CleanupDeletedIssues({f.issue})
    BY <1>2, <1>7 DEF ReceiveIssueEvent
  <2> QED
    BY <1>1, <1>2, <1>3, <1>7, <2>1, HandledDeleted
<1> QED
  BY <1>4, <1>5, <1>6, <1>7

-----------------------------------------------------------------------------
(***************************************************************************)
(* The steps of the user's requests.                                       *)
(***************************************************************************)
LEMMA IssueRequestAdded ==
  ASSUME BoardTyped, NEW r \in Slots, issueRequest[r] = None,
         NEW n \in IssueRequest, RequestSound(n),
         issueRequest' = [issueRequest EXCEPT ![r] = n]
  PROVE  /\ issueRequest' \in [Slots -> IssueRequest \cup {None}]
         /\ \A x \in Slots : issueRequest'[x] # None => RequestSound(issueRequest'[x])
         /\ Requests' # {}
         /\ \A i : UpdatesOf(i)' # {} \/ UpdatesOf(i)' = UpdatesOf(i)
         /\ \A i \in n.ids : n.kind = "update" => UpdatesOf(i)' # {}
<1>1. /\ issueRequest' \in [Slots -> IssueRequest \cup {None}]
      /\ \A x \in Slots : issueRequest'[x] = IF x = r THEN n ELSE issueRequest[x]
      /\ n # None
  BY Apart DEF BoardTyped
<1>2. \A x \in Slots : issueRequest'[x] # None => RequestSound(issueRequest'[x])
  BY <1>1 DEF BoardTyped
<1>3. Requests' = Requests \cup {r} /\ r \notin Requests
  BY <1>1 DEF Requests
<1>4. ASSUME NEW i
      PROVE  /\ n.kind = "update" /\ i \in n.ids => UpdatesOf(i)' # {}
             /\ ~ (n.kind = "update" /\ i \in n.ids) => UpdatesOf(i)' = UpdatesOf(i)
  <2>1. \A x \in Requests : issueRequest'[x] = issueRequest[x]
    BY <1>1, <1>3 DEF Requests
  <2>2. issueRequest'[r] = n
    BY <1>1
  <2> QED
    BY <1>3, <2>1, <2>2 DEF UpdatesOf
<1> QED
  BY <1>1, <1>2, <1>3, <1>4

\* The optimistic writes of a request.
LEMMA RequestMade ==
  ASSUME BoardInv, NEW b \in Servers, ClientSound(b), NEW r \in Slots, issueRequest[r] = None,
         NEW n \in IssueRequest, RequestSound(n),
         issueRequest' = [issueRequest EXCEPT ![r] = n],
         UNCHANGED <<serverIssue, conn, wire, page, more>>,
         list' \in ListQuery, ListFetched(list', serverIssue, wire),
         detail' = [i \in Opened |-> detail'[i]],
         \A i \in Opened :
            /\ detail'[i] \in DetailQuery
            /\ DetailSound(detail'[i], b[i], serverIssue[i], conn, NewsOf(i), UpdatesOf(i)')
  PROVE  BoardInv'
<1>1. /\ BoardTyped /\ Told(b, wire, serverIssue)
      /\ serverIssue' = serverIssue /\ wire' = wire /\ conn' = conn
      /\ page' \in Pages /\ conn' \in {"up", "down"} /\ (conn' = "down" => wire = <<>>)
      /\ MoreSound(more', serverIssue, wire)
  BY DEF BoardInv, BoardTyped, ClientSound
<1>2. /\ issueRequest' \in [Slots -> IssueRequest \cup {None}]
      /\ \A x \in Slots : issueRequest'[x] # None => RequestSound(issueRequest'[x])
      /\ Requests' # {}
  BY <1>1, IssueRequestAdded
<1>3. ListSound(list', b, serverIssue, conn', wire, Requests')
  BY <1>2, ListBusy
<1>4. \A i \in Opened :
         /\ detail'[i] \in DetailQuery
         /\ DetailSound(detail'[i], b[i], serverIssue[i], conn', NewsOf(i), UpdatesOf(i)')
  BY <1>1
<1> QED
  BY <1>1, <1>2, <1>3, <1>4, QueriesChanged

\* A page that the request does not touch.
LEMMA DetailBeside ==
  ASSUME NEW q, NEW v, NEW t, NEW c, NEW news, NEW rs, DetailSound(q, v, t, c, news, rs),
         NEW us, us # {} \/ us = rs
  PROVE  DetailSound(q, v, t, c, news, us)
BY DEF DetailSound

LEMMA NewIssueRequestIs ==
  ASSUME NEW ids \in SUBSET Issues, NEW s \in Statuses \cup {None},
         NEW kind \in {"create", "update", "delete", "batchUpdate", "batchDelete"}
  PROVE  LET n == NewIssueRequest(kind, ids, s)
         IN  /\ n \in IssueRequest /\ n.kind = kind /\ n.ids = ids /\ n.status = s
             /\ n.prevDetail = None
<1>1. NewIssueRequest(kind, ids, s) \in IssueRequest
  BY DEF NewIssueRequest, IssueRequest
<1> QED
  BY <1>1 DEF NewIssueRequest

\* ... with the snapshots it keeps.
LEMMA SnapshotKept ==
  ASSUME NEW q \in IssueRequest, NEW d \in Buckets \cup {None}
  PROVE  LET m == [q EXCEPT !.prevList = d]
         IN  /\ m \in IssueRequest /\ m.kind = q.kind /\ m.ids = q.ids
             /\ m.status = q.status /\ m.prevDetail = q.prevDetail
BY DEF IssueRequest

LEMMA SnapshotsKept ==
  ASSUME NEW q \in IssueRequest, NEW d \in Buckets \cup {None}, NEW v \in Statuses \cup {None}
  PROVE  LET n == [q EXCEPT !.prevList = d, !.prevDetail = v]
         IN  /\ n \in IssueRequest /\ n.kind = q.kind /\ n.ids = q.ids
             /\ n.status = q.status /\ n.prevDetail = v
BY DEF IssueRequest

LEMMA IssueCreated ==
  ASSUME BoardInv, NEW r \in Slots, NEW i \in Issues, NEW s \in Statuses, CreateIssue(r, i, s)
  PROVE  BoardInv'
<1>1. PICK b \in Servers : ClientSound(b)
  BY DEF BoardInv
<1> DEFINE ids == {i}
           n == NewIssueRequest("create", ids, s)
<1>2. /\ BoardTyped /\ issueRequest[r] = None
      /\ issueRequest' = [issueRequest EXCEPT ![r] = n]
      /\ UNCHANGED <<serverIssue, conn, wire, list, detail, page, more>>
      /\ list' \in ListQuery /\ ListFetched(list', serverIssue, wire)
  BY <1>1 DEF BoardInv, BoardTyped, ClientSound, ListSound, CreateIssue
<1>3. n \in IssueRequest /\ RequestSound(n)
  <2>1. ids \in SUBSET Issues /\ ids # {} /\ s \in Statuses \cup {None}
    OBVIOUS
  <2> HIDE DEF ids
  <2>2. /\ n \in IssueRequest /\ n.kind = "create" /\ n.ids = ids /\ n.status = s
        /\ n.prevDetail = None
    BY <2>1, NewIssueRequestIs
  <2> HIDE DEF n
  <2> QED
    BY <2>1, <2>2 DEF RequestSound
<1> HIDE DEF n
<1>4. \A j : UpdatesOf(j)' # {} \/ UpdatesOf(j)' = UpdatesOf(j)
  BY <1>2, <1>3, IssueRequestAdded
<1>5. \A j \in Opened :
         /\ detail'[j] \in DetailQuery
         /\ DetailSound(detail'[j], b[j], serverIssue[j], conn, NewsOf(j), UpdatesOf(j)')
  BY <1>1, <1>2, <1>4, DetailBeside DEF BoardTyped, ClientSound
<1>6. detail' = [j \in Opened |-> detail'[j]]
  BY <1>2 DEF BoardTyped
<1> QED
  BY <1>1, <1>2, <1>3, <1>5, <1>6, RequestMade

\* onMutate stops the list's fetch and writes d to it.
LEMMA ListOverwritten ==
  ASSUME BoardInv, NEW d, list.data # None => d \in Buckets
  PROVE  LET n == Patch(Cancel(list), d)
         IN  n \in ListQuery /\ ListFetched(n, serverIssue, wire)
<1>1. list \in ListQuery /\ ListFetched(list, serverIssue, wire)
  BY DEF BoardInv, BoardTyped, ClientSound, ListSound
<1> DEFINE m == Cancel(list)
<1>2. m \in ListQuery /\ ListFetched(m, serverIssue, wire) /\ m.data = list.data
  BY <1>1, ListRewritten
<1> HIDE DEF m
<1>3. Patch(m, d) \in ListQuery /\ ListFetched(Patch(m, d), serverIssue, wire)
  BY <1>2, ListRewritten
<1> QED
  BY <1>3 DEF m

LEMMA SnapshotsAre ==
  ASSUME BoardInv
  PROVE  /\ list.data \in Buckets \cup {None} /\ Cancel(list).data = list.data
         /\ \A i : DetailData(i) \in Statuses \cup {None}
<1>1. list \in ListQuery /\ detail \in [Opened -> DetailQuery]
  BY DEF BoardInv, BoardTyped
<1>2. \A i \in Opened : detail[i].data \in Statuses \cup {None}
  BY <1>1, DetailTyped
<1>3. Cancel(list).data = list.data
  BY <1>1, QueryCancelled DEF ListQuery
<1> QED
  BY <1>1, <1>2, <1>3, ListTyped DEF DetailData

LEMMA IssueUpdated ==
  ASSUME BoardInv, NEW r \in Slots, NEW i \in Issues, NEW s \in Statuses, UpdateIssue(r, i, s)
  PROVE  BoardInv'
<1>1. PICK b \in Servers : ClientSound(b)
  BY DEF BoardInv
<1> DEFINE ids == {i}
           v == DetailData(i)
           q == NewIssueRequest("update", ids, s)
           n == [q EXCEPT !.prevList = list.data, !.prevDetail = v]
           d == PatchIssue(list.data, i, s)
<1>2. /\ BoardTyped /\ issueRequest[r] = None
      /\ issueRequest' = [issueRequest EXCEPT ![r] = n]
      /\ UNCHANGED <<serverIssue, conn, wire, page, more>>
      /\ detail' = [j \in Opened |-> IF j = i THEN Patch(detail[j], s) ELSE detail[j]]
  BY DEF BoardInv, UpdateIssue
<1>3. /\ list.data \in Buckets \cup {None} /\ Cancel(list).data = list.data
      /\ v \in Statuses \cup {None}
  BY SnapshotsAre
<1>4. n \in IssueRequest /\ RequestSound(n) /\ n.kind = "update" /\ n.ids = ids
  <2>1. ids \in SUBSET Issues /\ ids # {} /\ s \in Statuses \cup {None}
    OBVIOUS
  <2> HIDE DEF ids, v
  <2>2. /\ q \in IssueRequest /\ q.kind = "update" /\ q.ids = ids /\ q.status = s
        /\ q.prevDetail = None
    BY <2>1, NewIssueRequestIs
  <2> HIDE DEF q
  <2>3. /\ n \in IssueRequest /\ n.kind = q.kind /\ n.ids = q.ids
        /\ n.status = q.status /\ n.prevDetail = v
    <3>1. list.data \in Buckets \cup {None} /\ v \in Statuses \cup {None}
      BY <1>3
    <3>2. q \in IssueRequest
      BY <2>2
    <3> QED
      BY ONLY <3>1, <3>2, SnapshotsKept
  <2> HIDE DEF n
  <2> QED
    BY <2>1, <2>2, <2>3 DEF RequestSound
<1>5. list' \in ListQuery /\ ListFetched(list', serverIssue, wire)
  <2>1. list.data # None => d \in Buckets
    BY <1>3, HelpersTyped
  <2>2. list' = Patch(Cancel(list), d)
    BY <1>3 DEF UpdateIssue, Patch
  <2> HIDE DEF d
  <2>3. Patch(Cancel(list), d) \in ListQuery /\ ListFetched(Patch(Cancel(list), d), serverIssue, wire)
    BY <2>1, ListOverwritten
  <2> QED
    BY <2>2, <2>3
<1>6. i \in n.ids
  BY <1>4
<1> HIDE DEF n, v, q
<1>7. /\ \A j : UpdatesOf(j)' # {} \/ UpdatesOf(j)' = UpdatesOf(j)
      /\ UpdatesOf(i)' # {}
  BY <1>2, <1>4, <1>6, IssueRequestAdded
<1>8. ASSUME NEW j \in Opened
      PROVE  /\ detail'[j] \in DetailQuery
             /\ DetailSound(detail'[j], b[j], serverIssue[j], conn, NewsOf(j), UpdatesOf(j)')
  <2>1. /\ detail[j] \in DetailQuery
        /\ DetailSound(detail[j], b[j], serverIssue[j], conn, NewsOf(j), UpdatesOf(j))
        /\ detail'[j] = IF j = i THEN Patch(detail[j], s) ELSE detail[j]
    BY <1>1, <1>2 DEF BoardTyped, ClientSound
  <2>2. CASE j = i
    <3>1. UpdatesOf(j)' # {}
      BY <1>7, <2>2
    <3>2. PICK us : us = UpdatesOf(j)'
      OBVIOUS
    <3>3. /\ Patch(detail[j], s) \in DetailQuery
          /\ DetailSound(Patch(detail[j], s), b[j], serverIssue[j], conn, NewsOf(j), us)
      BY <2>1, <3>1, <3>2, DetailPatched
    <3> QED
      BY <2>1, <2>2, <3>2, <3>3
  <2>3. CASE j # i
    BY <1>7, <2>1, <2>3, DetailBeside
  <2> QED
    BY <2>2, <2>3
<1>9. detail' = [j \in Opened |-> detail'[j]]
  BY <1>2
<1> QED
  BY <1>1, <1>2, <1>4, <1>5, <1>8, <1>9, RequestMade

LEMMA IssueDeleted ==
  ASSUME BoardInv, NEW r \in Slots, NEW i \in Issues, DeleteIssue(r, i)
  PROVE  BoardInv'
<1>1. PICK b \in Servers : ClientSound(b)
  BY DEF BoardInv
<1> DEFINE ids == {i}
           v == DetailData(i)
           q == NewIssueRequest("delete", ids, None)
           n == [q EXCEPT !.prevList = list.data, !.prevDetail = v]
           d == RemoveIssue(list.data, i)
<1>2. /\ BoardTyped /\ issueRequest[r] = None
      /\ issueRequest' = [issueRequest EXCEPT ![r] = n]
      /\ UNCHANGED <<serverIssue, conn, wire, page, more>>
      /\ detail' = [j \in Opened |-> IF j = i THEN Forget(detail[j]) ELSE detail[j]]
  BY DEF BoardInv, DeleteIssue
<1>3. /\ list.data \in Buckets \cup {None} /\ Cancel(list).data = list.data
      /\ v \in Statuses \cup {None}
  BY SnapshotsAre
<1>4. n \in IssueRequest /\ RequestSound(n)
  <2>1. ids \in SUBSET Issues /\ ids # {} /\ None \in Statuses \cup {None}
    OBVIOUS
  <2> HIDE DEF ids, v
  <2>2. /\ q \in IssueRequest /\ q.kind = "delete" /\ q.ids = ids /\ q.status = None
        /\ q.prevDetail = None
    BY <2>1, NewIssueRequestIs
  <2> HIDE DEF q
  <2>3. /\ n \in IssueRequest /\ n.kind = q.kind /\ n.ids = q.ids
        /\ n.status = q.status /\ n.prevDetail = v
    BY <1>3, <2>2, SnapshotsKept
  <2> HIDE DEF n
  <2> QED
    BY <2>1, <2>2, <2>3 DEF RequestSound
<1>5. list' \in ListQuery /\ ListFetched(list', serverIssue, wire)
  <2>1. list.data # None => d \in Buckets
    BY <1>3, HelpersTyped
  <2>2. list' = Patch(Cancel(list), d)
    BY <1>3 DEF DeleteIssue, Patch
  <2> HIDE DEF d
  <2>3. Patch(Cancel(list), d) \in ListQuery /\ ListFetched(Patch(Cancel(list), d), serverIssue, wire)
    BY <2>1, ListOverwritten
  <2> QED
    BY <2>2, <2>3
<1> HIDE DEF n, v, q
<1>6. \A j : UpdatesOf(j)' # {} \/ UpdatesOf(j)' = UpdatesOf(j)
  BY <1>2, <1>4, IssueRequestAdded
<1>7. ASSUME NEW j \in Opened
      PROVE  /\ detail'[j] \in DetailQuery
             /\ DetailSound(detail'[j], b[j], serverIssue[j], conn, NewsOf(j), UpdatesOf(j)')
  <2>1. /\ detail[j] \in DetailQuery
        /\ DetailSound(detail[j], b[j], serverIssue[j], conn, NewsOf(j), UpdatesOf(j))
        /\ detail'[j] = IF j = i THEN Forget(detail[j]) ELSE detail[j]
    BY <1>1, <1>2 DEF BoardTyped, ClientSound
  <2>2. CASE j = i
    <3>1. DetailFetched(detail[j], b[j], serverIssue[j], NewsOf(j))
      BY <2>1 DEF DetailSound
    <3>2. /\ Forget(detail[j]) \in DetailQuery
          /\ DetailSound(Forget(detail[j]), b[j], serverIssue[j], conn, NewsOf(j), UpdatesOf(j)')
      BY <2>1, <3>1, DetailForgotten
    <3> QED
      BY <2>1, <2>2, <3>2
  <2>3. CASE j # i
    BY <1>6, <2>1, <2>3, DetailBeside
  <2> QED
    BY <2>2, <2>3
<1>8. detail' = [j \in Opened |-> detail'[j]]
  BY <1>2
<1> QED
  BY <1>1, <1>2, <1>4, <1>5, <1>7, <1>8, RequestMade

LEMMA BatchRequested ==
  ASSUME BoardInv, NEW r \in Slots, NEW ids \in SUBSET Issues,
         NEW kind \in {"batchUpdate", "batchDelete"}, NEW s \in Statuses \cup {None},
         kind = "batchUpdate" => s \in Statuses, BatchIssues(r, kind, ids, s)
  PROVE  BoardInv'
<1>1. PICK b \in Servers : ClientSound(b)
  BY DEF BoardInv
<1> DEFINE q == NewIssueRequest(kind, ids, s)
           n == [q EXCEPT !.prevList = list.data]
           d == IF kind = "batchUpdate" THEN PatchAll(list.data, ids, s)
                ELSE RemoveAll(list.data, ids)
<1>2. /\ BoardTyped /\ issueRequest[r] = None /\ ids # {}
      /\ issueRequest' = [issueRequest EXCEPT ![r] = n]
      /\ UNCHANGED <<serverIssue, conn, wire, detail, page, more>>
  BY DEF BoardInv, BatchIssues
<1>3. list.data \in Buckets \cup {None} /\ Cancel(list).data = list.data
  BY SnapshotsAre
<1>4. n \in IssueRequest /\ RequestSound(n)
  <2>1. /\ q \in IssueRequest /\ q.kind = kind /\ q.ids = ids /\ q.status = s
        /\ q.prevDetail = None
    BY NewIssueRequestIs
  <2> HIDE DEF q
  <2>2. /\ n \in IssueRequest /\ n.kind = q.kind /\ n.ids = q.ids
        /\ n.status = q.status /\ n.prevDetail = q.prevDetail
    BY <1>3, <2>1, SnapshotKept
  <2> HIDE DEF n
  <2> QED
    BY <1>2, <2>1, <2>2 DEF RequestSound
<1>5. list' \in ListQuery /\ ListFetched(list', serverIssue, wire)
  <2>1. list.data # None => d \in Buckets
    BY <1>3, BatchTyped
  <2>2. list' = Patch(Cancel(list), d)
    BY <1>3 DEF BatchIssues
  <2> HIDE DEF d
  <2>3. Patch(Cancel(list), d) \in ListQuery /\ ListFetched(Patch(Cancel(list), d), serverIssue, wire)
    BY <2>1, ListOverwritten
  <2> QED
    BY <2>2, <2>3
<1> HIDE DEF n, q
<1>6. \A j : UpdatesOf(j)' # {} \/ UpdatesOf(j)' = UpdatesOf(j)
  BY <1>2, <1>4, IssueRequestAdded
<1>7. \A j \in Opened :
         /\ detail'[j] \in DetailQuery
         /\ DetailSound(detail'[j], b[j], serverIssue[j], conn, NewsOf(j), UpdatesOf(j)')
  BY <1>1, <1>2, <1>6, DetailBeside DEF BoardTyped, ClientSound
<1>8. detail' = [j \in Opened |-> detail'[j]]
  BY <1>2 DEF BoardTyped
<1> QED
  BY <1>1, <1>2, <1>4, <1>5, <1>7, <1>8, RequestMade

LEMMA IssueRequestEnded ==
  ASSUME BoardTyped, NEW r \in Slots, issueRequest[r] # None,
         issueRequest' = [issueRequest EXCEPT ![r] = None]
  PROVE  /\ issueRequest' \in [Slots -> IssueRequest \cup {None}]
         /\ \A x \in Slots : issueRequest'[x] # None => RequestSound(issueRequest'[x])
         /\ \A i : ~ (issueRequest[r].kind = "update" /\ i \in issueRequest[r].ids) =>
               UpdatesOf(i)' = UpdatesOf(i)
<1>1. /\ issueRequest' \in [Slots -> IssueRequest \cup {None}]
      /\ \A x \in Slots : issueRequest'[x] = IF x = r THEN None ELSE issueRequest[x]
  BY DEF BoardTyped
<1>2. \A x \in Slots : issueRequest'[x] # None => RequestSound(issueRequest'[x])
  BY <1>1 DEF BoardTyped
<1>3. Requests' = Requests \ {r}
  BY <1>1 DEF Requests
<1>4. \A x \in Requests' : issueRequest'[x] = issueRequest[x]
  BY <1>1, <1>3 DEF Requests
<1>5. ASSUME NEW i, ~ (issueRequest[r].kind = "update" /\ i \in issueRequest[r].ids)
      PROVE  UpdatesOf(i)' = UpdatesOf(i)
  BY <1>3, <1>4, <1>5 DEF UpdatesOf
<1> QED
  BY <1>1, <1>2, <1>5

PageSound(n, b, i, us) ==
    n \in DetailQuery /\ DetailSound(n, b[i], serverIssue[i], conn, NewsOf(i), us)

\* What the end of a request may make of a page.
LEMMA PageAfter ==
  ASSUME BoardInv, NEW b \in Servers, ClientSound(b), NEW i \in Opened, NEW us
  PROVE  /\ us = UpdatesOf(i) => PageSound(detail[i], b, i, us)
         /\ PageSound(Invalidate(detail[i]), b, i, us) /\ PageSound(Forget(detail[i]), b, i, us)
         /\ \A d \in Statuses :
               /\ PageSound(Invalidate(Write(detail[i], d)), b, i, us)
               /\ PageSound([Write(detail[i], d) EXCEPT !.doubt = @ \cup {"restored"}], b, i, us)
<1> DEFINE q == detail[i]
           v == b[i]
           t == serverIssue[i]
           news == NewsOf(i)
<1>1. /\ q \in DetailQuery /\ DetailSound(q, v, t, conn, news, UpdatesOf(i))
      /\ DetailFetched(q, v, t, news)
  BY DEF BoardInv, BoardTyped, ClientSound, DetailSound
<1> HIDE DEF q, v, t, news
<1>2. Invalidate(q) \in DetailQuery /\ DetailSound(Invalidate(q), v, t, conn, news, us)
  BY <1>1, DetailInvalidated
<1>3. Forget(q) \in DetailQuery /\ DetailSound(Forget(q), v, t, conn, news, us)
  BY <1>1, DetailForgotten
<1>4. "restored" \in Doubts
  BY DEF Doubts
<1>5. ASSUME NEW d \in Statuses
      PROVE  LET n == [Write(q, d) EXCEPT !.doubt = @ \cup {"restored"}]
             IN  /\ Write(q, d) \in DetailQuery /\ DetailFetched(Write(q, d), v, t, news)
                 /\ n \in DetailQuery /\ DetailSound(n, v, t, conn, news, us)
  BY <1>1, <1>4, DetailWritten
<1>6. ASSUME NEW d \in Statuses
      PROVE  /\ Invalidate(Write(q, d)) \in DetailQuery
             /\ DetailSound(Invalidate(Write(q, d)), v, t, conn, news, us)
  <2> DEFINE m == Write(q, d)
  <2>1. m \in DetailQuery /\ DetailFetched(m, v, t, news)
    BY <1>5
  <2> HIDE DEF m
  <2>2. Invalidate(m) \in DetailQuery /\ DetailSound(Invalidate(m), v, t, conn, news, us)
    BY <2>1, DetailInvalidated
  <2> QED
    BY <2>2 DEF m
<1>7. us = UpdatesOf(i) => PageSound(q, b, i, us)
  BY <1>1 DEF PageSound, v, t, news
<1>8. PageSound(Invalidate(q), b, i, us) /\ PageSound(Forget(q), b, i, us)
  BY <1>2, <1>3 DEF PageSound, v, t, news
<1>9. ASSUME NEW d \in Statuses
      PROVE  /\ PageSound(Invalidate(Write(q, d)), b, i, us)
             /\ PageSound([Write(q, d) EXCEPT !.doubt = @ \cup {"restored"}], b, i, us)
  <2> DEFINE n == [Write(q, d) EXCEPT !.doubt = @ \cup {"restored"}]
  <2>1. n \in DetailQuery /\ DetailSound(n, v, t, conn, news, us)
    BY <1>5
  <2> HIDE DEF n
  <2>2. PageSound(n, b, i, us)
    BY <2>1 DEF PageSound, v, t, news
  <2>3. PageSound(Invalidate(Write(q, d)), b, i, us)
    BY <1>6 DEF PageSound, v, t, news
  <2> QED
    BY <2>2, <2>3 DEF n
<1> QED
  BY <1>7, <1>8, <1>9 DEF q

\* ... and of the list, which is invalidated at the end.
LEMMA ListAfter ==
  ASSUME BoardInv
  PROVE  /\ list \in ListQuery /\ ListFetched(list, serverIssue, wire)
         /\ list.data \in Buckets \cup {None}
         /\ \A d \in Buckets :
               Write(list, d) \in ListQuery /\ ListFetched(Write(list, d), serverIssue, wire)
         /\ \A d : (list.data # None => d \in Buckets) =>
               Patch(list, d) \in ListQuery /\ ListFetched(Patch(list, d), serverIssue, wire)
<1>1. list \in ListQuery /\ ListFetched(list, serverIssue, wire)
  BY DEF BoardInv, BoardTyped, ClientSound, ListSound
<1> QED
  BY <1>1, ListRewritten, ListTyped

\* onSettled.
LEMMA RequestSettled ==
  ASSUME BoardInv, NEW b \in Servers, ClientSound(b), NEW r \in Slots, issueRequest[r] # None,
         issueRequest' = [issueRequest EXCEPT ![r] = None],
         UNCHANGED <<serverIssue, conn, wire, page, more>>,
         NEW m \in ListQuery, ListFetched(m, serverIssue, wire), list' = Invalidate(m),
         detail' = [i \in Opened |-> detail'[i]],
         \A i \in Opened : PageSound(detail'[i], b, i, UpdatesOf(i)')
  PROVE  BoardInv'
<1>1. /\ BoardTyped /\ Told(b, wire, serverIssue)
      /\ serverIssue' = serverIssue /\ wire' = wire /\ conn' = conn
      /\ page' \in Pages /\ conn' \in {"up", "down"} /\ (conn' = "down" => wire = <<>>)
      /\ MoreSound(more', serverIssue, wire)
  BY DEF BoardInv, BoardTyped, ClientSound
<1>2. /\ issueRequest' \in [Slots -> IssueRequest \cup {None}]
      /\ \A x \in Slots : issueRequest'[x] # None => RequestSound(issueRequest'[x])
  BY <1>1, IssueRequestEnded
<1>3. list' \in ListQuery /\ ListSound(list', b, serverIssue, conn', wire, Requests')
  <2>1. PICK c, rs : c = conn' /\ rs = Requests'
    OBVIOUS
  <2>2. Invalidate(m) \in ListQuery /\ ListSound(Invalidate(m), b, serverIssue, c, wire, rs)
    BY ListInvalidated
  <2> QED
    BY <2>1, <2>2
<1>4. \A i \in Opened :
         /\ detail'[i] \in DetailQuery
         /\ DetailSound(detail'[i], b[i], serverIssue[i], conn', NewsOf(i), UpdatesOf(i)')
  BY <1>1 DEF PageSound
<1> QED
  BY <1>1, <1>2, <1>3, <1>4, QueriesChanged

\* The issues of a request are gone, as it asked or as an event tells.
LEMMA DeletedSettled ==
  ASSUME BoardInv, NEW b \in Servers, ClientSound(b), NEW r \in Slots, issueRequest[r] # None,
         issueRequest[r].kind # "update",
         issueRequest' = [issueRequest EXCEPT ![r] = None],
         UNCHANGED <<serverIssue, conn, wire, page, more>>,
         NEW ids \in SUBSET Issues, CleanupDeletedIssues(ids)
  PROVE  BoardInv'
<1> DEFINE d == RemoveAll(list.data, ids)
           m == Patch(list, d)
<1>1. list' = Invalidate(m)
  BY DEF CleanupDeletedIssues, Patch
<1>2. list.data # None => d \in Buckets
  BY ListAfter, BatchTyped
<1> HIDE DEF d
<1>3. m \in ListQuery /\ ListFetched(m, serverIssue, wire)
  BY <1>2, ListAfter
<1> HIDE DEF m
<1>4. detail' = [i \in Opened |-> detail'[i]]
  BY DEF CleanupDeletedIssues
<1>5. ASSUME NEW i \in Opened PROVE PageSound(detail'[i], b, i, UpdatesOf(i)')
  <2>1. UpdatesOf(i)' = UpdatesOf(i)
    BY IssueRequestEnded DEF BoardInv
  <2>2. detail'[i] = IF i \in ids THEN Forget(detail[i]) ELSE detail[i]
    BY DEF CleanupDeletedIssues
  <2>3. PICK us : us = UpdatesOf(i)
    OBVIOUS
  <2>4. PageSound(detail[i], b, i, us) /\ PageSound(Forget(detail[i]), b, i, us)
    BY <2>3, PageAfter
  <2> QED
    BY <2>1, <2>2, <2>3, <2>4
<1> QED
  BY <1>1, <1>3, <1>4, <1>5, RequestSettled

\* The snapshot of the list, if there is one, is written back.
LEMMA ListRestored ==
  ASSUME BoardInv, NEW d \in Buckets \cup {None}
  PROVE  LET m == IF d # None THEN Write(list, d) ELSE list
         IN  m \in ListQuery /\ ListFetched(m, serverIssue, wire)
BY ListAfter

LEMMA PartlySettled ==
  ASSUME BoardInv, NEW b \in Servers, ClientSound(b), NEW r \in Slots, issueRequest[r] # None,
         issueRequest' = [issueRequest EXCEPT ![r] = None],
         UNCHANGED <<serverIssue, conn, wire, page, more>>,
         PartlyDeleted(issueRequest[r])
  PROVE  BoardInv'
<1> DEFINE d == issueRequest[r].prevList
           m == IF d # None THEN Write(list, d) ELSE list
<1>1. d \in Buckets \cup {None}
  BY RequestIs DEF BoardInv
<1>2. list' = Invalidate(m) /\ detail' = [i \in Opened |-> Invalidate(detail[i])]
  BY DEF PartlyDeleted
<1> HIDE DEF d
<1>3. m \in ListQuery /\ ListFetched(m, serverIssue, wire)
  BY <1>1, ListRestored
<1> HIDE DEF m
<1>4. ASSUME NEW i \in Opened PROVE PageSound(detail'[i], b, i, UpdatesOf(i)')
  <2>1. PICK us : us = UpdatesOf(i)'
    OBVIOUS
  <2>2. PageSound(Invalidate(detail[i]), b, i, us)
    BY PageAfter
  <2> QED
    BY <1>2, <2>1, <2>2
<1>5. detail' = [i \in Opened |-> detail'[i]]
  BY <1>2
<1> QED
  BY <1>2, <1>3, <1>4, <1>5, RequestSettled

LEMMA RequestSucceeded ==
  ASSUME BoardInv, NEW r \in Slots, IssueRequestSucceeds(r)
  PROVE  BoardInv'
<1>1. PICK b \in Servers : ClientSound(b)
  BY DEF BoardInv
<1> DEFINE q == issueRequest[r]
<1>2. /\ q # None /\ issueRequest' = [issueRequest EXCEPT ![r] = None]
      /\ UNCHANGED <<serverIssue, conn, wire, page, more>>
  BY DEF IssueRequestSucceeds
<1>3. /\ q.kind \in {"create", "update", "delete", "batchUpdate", "batchDelete"}
      /\ q.ids \in SUBSET Issues /\ RequestSound(q)
  BY <1>2, RequestIs DEF BoardInv
<1>4. \A i : ~ (q.kind = "update" /\ i \in q.ids) => UpdatesOf(i)' = UpdatesOf(i)
  BY <1>2, IssueRequestEnded DEF BoardInv
<1>5. list \in ListQuery /\ ListFetched(list, serverIssue, wire)
  BY ListAfter
<1>6. CASE q.kind = "create"
  <2> DEFINE i == CHOOSE x \in q.ids : TRUE
             d == AddIssue(list.data, i, q.status)
             m == Patch(list, d)
  <2>1. list' = Invalidate(m) /\ detail' = detail
    BY <1>6 DEF IssueRequestSucceeds, Patch
  <2>2. i \in Issues /\ q.status \in Statuses
    BY <1>3, <1>6 DEF RequestSound
  <2> HIDE DEF i
  <2>3. list.data # None => d \in Buckets
    BY <2>2, ListAfter, HelpersTyped
  <2> HIDE DEF d
  <2>4. m \in ListQuery /\ ListFetched(m, serverIssue, wire)
    BY <2>3, ListAfter
  <2> HIDE DEF m
  <2>5. detail' = [j \in Opened |-> detail'[j]]
    BY <2>1 DEF BoardInv, BoardTyped
  <2>6. ASSUME NEW j \in Opened PROVE PageSound(detail'[j], b, j, UpdatesOf(j)')
    <3>1. PICK us : us = UpdatesOf(j)
      OBVIOUS
    <3>2. PageSound(detail[j], b, j, us)
      BY <1>1, <3>1, PageAfter
    <3> QED
      BY <1>4, <1>6, <2>1, <3>1, <3>2
  <2> QED
    BY <1>1, <1>2, <2>1, <2>4, <2>5, <2>6, RequestSettled
<1>7. CASE q.kind = "update"
  <2>1. /\ list' = Invalidate(list)
        /\ detail' = [j \in Opened |-> IF j \in q.ids THEN Invalidate(detail[j]) ELSE detail[j]]
    BY <1>7 DEF IssueRequestSucceeds
  <2>2. ASSUME NEW j \in Opened PROVE PageSound(detail'[j], b, j, UpdatesOf(j)')
    <3>1. PICK us : us = UpdatesOf(j)'
      OBVIOUS
    <3>2. /\ us = UpdatesOf(j) => PageSound(detail[j], b, j, us)
          /\ PageSound(Invalidate(detail[j]), b, j, us)
      BY <1>1, PageAfter
    <3> QED
      BY <1>4, <2>1, <3>1, <3>2
  <2>3. detail' = [j \in Opened |-> detail'[j]]
    BY <2>1
  <2> QED
    BY <1>1, <1>2, <1>5, <2>1, <2>2, <2>3, RequestSettled
<1>8. CASE q.kind = "batchUpdate"
  <2>1. list' = Invalidate(list) /\ detail' = detail
    BY <1>8 DEF IssueRequestSucceeds
  <2>2. ASSUME NEW j \in Opened PROVE PageSound(detail'[j], b, j, UpdatesOf(j)')
    <3>1. PICK us : us = UpdatesOf(j)
      OBVIOUS
    <3>2. PageSound(detail[j], b, j, us)
      BY <1>1, <3>1, PageAfter
    <3> QED
      BY <1>4, <1>8, <2>1, <3>1, <3>2
  <2>3. detail' = [j \in Opened |-> detail'[j]]
    BY <2>1 DEF BoardInv, BoardTyped
  <2> QED
    BY <1>1, <1>2, <1>5, <2>1, <2>2, <2>3, RequestSettled
<1>9. CASE q.kind \in {"delete", "batchDelete"}
  <2>1. CleanupDeletedIssues(q.ids) \/ PartlyDeleted(q)
    BY <1>9 DEF IssueRequestSucceeds
  <2>2. q.kind # "update"
    BY <1>9
  <2>3. CASE CleanupDeletedIssues(q.ids)
    BY <1>1, <1>2, <1>3, <2>2, <2>3, DeletedSettled
  <2>4. CASE PartlyDeleted(q)
    BY <1>1, <1>2, <2>4, PartlySettled
  <2> QED
    BY <2>1, <2>3, <2>4
<1> QED
  BY <1>3, <1>6, <1>7, <1>8, <1>9

LEMMA RequestFailed ==
  ASSUME BoardInv, NEW r \in Slots, IssueRequestFails(r)
  PROVE  BoardInv'
<1>1. PICK b \in Servers : ClientSound(b)
  BY DEF BoardInv
<1> DEFINE q == issueRequest[r]
           d == q.prevList
           m == IF d # None THEN Write(list, d) ELSE list
           w(i) == IF q.prevDetail = None THEN detail[i] ELSE Write(detail[i], q.prevDetail)
<1>2. /\ q # None /\ issueRequest' = [issueRequest EXCEPT ![r] = None]
      /\ UNCHANGED <<serverIssue, conn, wire, page, more>>
      /\ list' = Invalidate(m)
      /\ detail' = [i \in Opened |->
                     IF i \notin q.ids THEN detail[i]
                     ELSE CASE q.kind = "update" -> Invalidate(w(i))
                            [] q.kind = "delete" /\ q.prevDetail # None ->
                                 [w(i) EXCEPT !.doubt = @ \cup {"restored"}]
                            [] OTHER -> w(i)]
  BY DEF IssueRequestFails, RollBackIssues
<1>3. /\ q.kind \in {"create", "update", "delete", "batchUpdate", "batchDelete"}
      /\ q.ids \in SUBSET Issues /\ RequestSound(q) /\ d \in Buckets \cup {None}
      /\ q.prevDetail \in Statuses \cup {None}
  BY <1>2, RequestIs DEF BoardInv
<1>4. \A i : ~ (q.kind = "update" /\ i \in q.ids) => UpdatesOf(i)' = UpdatesOf(i)
  BY <1>2, IssueRequestEnded DEF BoardInv
<1> HIDE DEF d
<1>5. m \in ListQuery /\ ListFetched(m, serverIssue, wire)
  BY <1>3, ListRestored
<1> HIDE DEF m
<1>6. ASSUME NEW i \in Opened PROVE PageSound(detail'[i], b, i, UpdatesOf(i)')
  <2>1. PICK us : us = UpdatesOf(i)'
    OBVIOUS
  <2>2. /\ us = UpdatesOf(i) => PageSound(detail[i], b, i, us)
        /\ PageSound(Invalidate(detail[i]), b, i, us)
        /\ \A e \in Statuses :
              /\ PageSound(Invalidate(Write(detail[i], e)), b, i, us)
              /\ PageSound([Write(detail[i], e) EXCEPT !.doubt = @ \cup {"restored"}], b, i, us)
    BY <1>1, PageAfter
  <2>3. CASE i \notin q.ids
    <3>1. detail'[i] = detail[i]
      BY <1>2, <2>3
    <3> QED
      BY <1>4, <2>1, <2>2, <2>3, <3>1
  <2>4. CASE i \in q.ids /\ q.kind = "update"
    <3>1. detail'[i] = Invalidate(w(i))
      BY <1>2, <2>4
    <3>2. PageSound(Invalidate(w(i)), b, i, us)
      BY <1>3, <2>2
    <3> QED
      BY <2>1, <3>1, <3>2
  <2>5. CASE i \in q.ids /\ q.kind = "delete" /\ q.prevDetail # None
    <3>1. detail'[i] = [w(i) EXCEPT !.doubt = @ \cup {"restored"}]
      BY <1>2, <2>5
    <3>2. w(i) = Write(detail[i], q.prevDetail) /\ q.prevDetail \in Statuses
      BY <1>3, <2>5
    <3> HIDE DEF w
    <3>3. PageSound([w(i) EXCEPT !.doubt = @ \cup {"restored"}], b, i, us)
      BY <2>2, <3>2
    <3> QED
      BY <2>1, <3>1, <3>3
  <2>6. CASE i \in q.ids /\ q.kind # "update" /\ ~ (q.kind = "delete" /\ q.prevDetail # None)
    <3>1. q.prevDetail = None
      BY <1>3, <2>6 DEF RequestSound
    <3>2. detail'[i] = detail[i]
      BY <1>2, <2>6, <3>1
    <3> QED
      BY <1>4, <2>1, <2>2, <2>6, <3>2
  <2> QED
    BY <2>3, <2>4, <2>5, <2>6
<1>7. detail' = [i \in Opened |-> detail'[i]]
  BY <1>2
<1> HIDE DEF w
<1> QED
  BY <1>1, <1>2, <1>5, <1>6, <1>7, RequestSettled

-----------------------------------------------------------------------------
(***************************************************************************)
(* The invariant and what it says at rest.                                 *)
(***************************************************************************)
LEMMA BoardStart ==
  ASSUME SocketInit, BoardInit
  PROVE  BoardInv
<1> DEFINE t == serverIssue
<1>1. /\ conn = "up" /\ wire = <<>> /\ page \in Pages /\ t \in Servers
      /\ issueRequest = [r \in Slots |-> None] /\ more = None
      /\ list = IF page = OnBoard THEN Mount(Absent) ELSE Absent
      /\ detail = [i \in Opened |-> IF page = OnIssue(i) THEN Mount(Absent) ELSE Absent]
      /\ \A i \in Opened : page = OnIssue(i) => t[i] # "unborn"
  BY IssuesAssumption DEF SocketInit, BoardInit, Servers
<1>2. Requests = {}
  BY <1>1 DEF Requests
<1>3. /\ Absent \in ListQuery /\ Absent \in DetailQuery /\ Absent.data = None
      /\ ~ Absent.stale /\ ~ Absent.owed /\ ~ Absent.mounted /\ Absent.fetch = None
  BY AbsentIs DEF ListQuery, DetailQuery
<1>4. Absent.stale = FALSE /\ Absent.owed = FALSE
  BY <1>3, ListTyped
<1>5. ListSound(Absent, t, t, "up", <<>>, {})
  BY <1>3, <1>4 DEF ListSound, ListFetched
<1>6. \A i \in Opened : DetailSound(Absent, t[i], t[i], "up", {}, {})
  BY <1>3, <1>4 DEF DetailSound, DetailFetched
<1>7. list \in ListQuery /\ ListSound(list, t, t, "up", <<>>, {})
  <2>1. Mount(Absent) \in ListQuery /\ ListSound(Mount(Absent), t, t, "up", <<>>, {})
    BY <1>3, <1>5, ListMounted
  <2> QED
    BY <1>1, <1>3, <1>5, <2>1
<1>8. ASSUME NEW i \in Opened
      PROVE  detail[i] \in DetailQuery /\ DetailSound(detail[i], t[i], t[i], "up", {}, {})
  <2>1. t[i] # "unborn" =>
           /\ Mount(Absent) \in DetailQuery
           /\ DetailSound(Mount(Absent), t[i], t[i], "up", {}, {})
    BY <1>3, <1>6, DetailMounted
  <2> QED
    BY <1>1, <1>3, <1>6, <2>1
<1>9. \A i \in Opened : NewsOf(i) = {} /\ UpdatesOf(i) = {}
  <2>1. Len(wire) = 0
    BY <1>1
  <2> QED
    BY <1>2, <2>1 DEF NewsOf, UpdatesOf
<1>10. BoardTyped
  <2>1. detail \in [Opened -> DetailQuery]
    BY <1>1, <1>8
  <2> QED
    BY <1>1, <1>7, <2>1 DEF BoardTyped
<1>11. ClientSound(t)
  BY <1>1, <1>2, <1>7, <1>8, <1>9, ToldNow DEF ClientSound
<1> QED
  BY <1>1, <1>10, <1>11 DEF BoardInv, MoreSound

LEMMA BoardSteps ==
  ASSUME BoardInv, BoardNext
  PROVE  BoardInv'
<1>1. CASE \E i \in Issues, type \in {"created", "updated", "deleted"},
              s \in Statuses \cup {None} : IssueChangesElsewhere(i, type, s)
  BY <1>1, ChangedElsewhere
<1>2. CASE \E s \in Paginated : AnswerList(s) \/ LoadMore(s)
  BY <1>2, AnsweredList, MoreLoaded
<1>3. CASE AnswerMore \/ LandList \/ LandMore
  BY <1>3, AnsweredMore, LandedList, LandedMore
<1>4. CASE \E i \in Opened : AnswerDetail(i) \/ LandDetail(i)
  BY <1>4, AnsweredDetail, LandedDetail
<1>5. CASE RefetchBoard \/ ReceiveIssueEvent
  BY <1>5, Refetched, EventReceived
<1>6. CASE Disconnect /\ UNCHANGED boardVars
  BY <1>6, CutOff
<1>7. CASE \E p \in Pages : OpenPage(p)
  BY <1>7, PageOpened
<1>8. CASE \E r \in Slots, i \in Issues, s \in Statuses :
              CreateIssue(r, i, s) \/ UpdateIssue(r, i, s)
  BY <1>8, IssueCreated, IssueUpdated
<1>9. CASE \E r \in Slots, i \in Issues : DeleteIssue(r, i)
  BY <1>9, IssueDeleted
<1>10. CASE \E r \in Slots, ids \in SUBSET Issues :
              \/ \E s \in Statuses : BatchIssues(r, "batchUpdate", ids, s)
              \/ BatchIssues(r, "batchDelete", ids, None)
  <2>1. PICK r \in Slots, ids \in SUBSET Issues :
              \/ \E s \in Statuses : BatchIssues(r, "batchUpdate", ids, s)
              \/ BatchIssues(r, "batchDelete", ids, None)
    BY <1>10
  <2>2. ASSUME NEW s \in Statuses, BatchIssues(r, "batchUpdate", ids, s) PROVE BoardInv'
    BY <2>2, BatchRequested
  <2>3. ASSUME BatchIssues(r, "batchDelete", ids, None) PROVE BoardInv'
    BY <2>3, BatchRequested
  <2> QED
    BY <2>1, <2>2, <2>3
<1>11. CASE \E r \in Slots :
              CommitIssueRequest(r) \/ IssueRequestSucceeds(r) \/ IssueRequestFails(r)
  BY <1>11, RequestDone, RequestSucceeded, RequestFailed
<1> QED
  BY <1>1, <1>2, <1>3, <1>4, <1>5, <1>6, <1>7, <1>8, <1>9, <1>10, <1>11 DEF BoardNext

LEMMA BoardUnchanged ==
  ASSUME BoardInv, UNCHANGED <<socketVars, boardVars>>
  PROVE  BoardInv'
<1>1. PICK b \in Servers : ClientSound(b)
  BY DEF BoardInv
<1>2. /\ BoardTyped /\ UNCHANGED <<serverIssue, conn, wire, detail, page, issueRequest>>
      /\ list' \in ListQuery /\ ListSound(list', b, serverIssue, conn, wire, Requests)
      /\ MoreSound(more', serverIssue, wire)
  BY <1>1 DEF BoardInv, BoardTyped, ClientSound, socketVars, boardVars
<1> QED
  BY <1>1, <1>2, ListChanged

LEMMA BoardRest ==
  ASSUME BoardInv
  PROVE  BoardExact /\ DetailExact
<1>1. PICK b \in Servers : ClientSound(b)
  BY DEF BoardInv
<1>2. /\ list \in ListQuery /\ detail \in [Opened -> DetailQuery] /\ Told(b, wire, serverIssue)
      /\ ListSound(list, b, serverIssue, conn, wire, Requests)
      /\ \A i \in Opened :
            DetailSound(detail[i], b[i], serverIssue[i], conn, NewsOf(i), UpdatesOf(i))
  BY <1>1 DEF BoardInv, BoardTyped, ClientSound
<1> SUFFICES ASSUME BoardAtRest
             PROVE  /\ list.mounted => list.data # None
                    /\ (list.data # None /\ list.doubt = {} /\ (list.mounted \/ ~ list.stale))
                          => Exact(list.data)
                    /\ \A i \in Opened :
                          LET q == detail[i]
                          IN  (q.data # None /\ q.doubt = {} /\ (q.mounted \/ ~ q.stale))
                                  => IF Alive(i) THEN q.data = serverIssue[i] ELSE q.stale
  BY DEF BoardExact, DetailExact
<1>3. /\ Requests = {} /\ wire = <<>> /\ conn = "up" /\ list.fetch = None
      /\ \A i \in Opened : detail[i].fetch = None /\ UpdatesOf(i) = {}
  BY DEF BoardAtRest, Requests, UpdatesOf
<1>4. b = serverIssue
  BY <1>2, <1>3, Quiet
<1>5. list.mounted => list.data # None /\ ~ list.stale
  BY <1>2, <1>3 DEF ListSound
<1>6. ASSUME list.data # None, list.doubt = {}, list.mounted \/ ~ list.stale
      PROVE  Exact(list.data)
  <2>1. list.stale = FALSE
    BY <1>2, <1>5, <1>6, ListTyped
  <2>2. ExactAt(list.data, serverIssue)
    BY <1>2, <1>3, <1>4, <1>6, <2>1 DEF ListSound
  <2>3. \A s : ServerRows(s) = Having(serverIssue, s)
    BY DEF ServerRows, Having
  <2> QED
    BY <2>2, <2>3 DEF ExactAt, Exact
<1>7. ASSUME NEW i \in Opened, detail[i].data # None, detail[i].doubt = {},
             detail[i].mounted \/ ~ detail[i].stale
      PROVE  IF Alive(i) THEN detail[i].data = serverIssue[i] ELSE detail[i].stale
  <2> DEFINE q == detail[i]
             t == serverIssue[i]
  <2>1. /\ q \in DetailQuery /\ DetailSound(q, t, t, conn, NewsOf(i), UpdatesOf(i))
        /\ q.fetch = None /\ UpdatesOf(i) = {} /\ q.data # None /\ q.doubt = {}
    BY <1>2, <1>3, <1>4, <1>7
  <2> HIDE DEF q
  <2>2. CASE q.stale
    <3>1. t = "deleted"
      BY <1>7, <2>1, <2>2 DEF DetailSound, q
    <3>2. ~ Alive(i)
      BY <3>1, Apart DEF Alive
    <3> QED
      BY <2>2, <3>2 DEF q
  <2>3. CASE ~ q.stale
    <3>1. q.data = t
      BY <1>3, <2>1, <2>3, DetailTyped DEF DetailSound
    <3>2. Alive(i)
      BY <2>1, <3>1, DetailTyped DEF Alive
    <3> QED
      BY <3>1, <3>2 DEF q
  <2> QED
    BY <2>2, <2>3
<1> QED
  BY <1>5, <1>6, <1>7

LEMMA BoardInvariant == BoardSpec => []BoardInv
<1>1. SocketInit /\ BoardInit => BoardInv
  BY BoardStart
<1>2. BoardInv /\ [BoardNext]_<<socketVars, boardVars>> => BoardInv'
  BY BoardSteps, BoardUnchanged
<1> QED
  BY <1>1, <1>2, PTL DEF BoardSpec

\* BoardExact (useUpdateIssue, useDeleteIssue and the batch hooks of mutations.ts, with
\* the handlers of ws-updaters.ts): for every board, every number of issues and of
\* requests at once, what is left on screen when everything is over is the server's.
THEOREM BoardSettles == BoardSpec => []BoardExact
<1>1. BoardInv => BoardExact
  BY BoardRest
<1> QED
  BY <1>1, BoardInvariant, PTL

\* DetailExact: the same of the page of an issue.
THEOREM DetailSettles == BoardSpec => []DetailExact
<1>1. BoardInv => DetailExact
  BY BoardRest
<1> QED
  BY <1>1, BoardInvariant, PTL
============================================================================
