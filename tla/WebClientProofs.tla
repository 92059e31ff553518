--------------------------- MODULE WebClientProofs ---------------------------
(***************************************************************************)
(* What is proved about the web client: the workspace-wide queries of      *)
(* WorkspaceSync and the comments of CommentTimeline, by themselves and    *)
(* beside the other parts of WebClient, and the issue board and the chat   *)
(* beside them, from the invariants of IssueBoardProofs and                *)
(* ChatClientProofs.                                                       *)
(*                                                                         *)
(* The invariant of the first is SyncInv.  Its heart is Kept: data without *)
(* doubt lacks only what Coming says something yet to happen will make it  *)
(* stale for, namely an event on the wire, a timer, or the recovery that a *)
(* reconnection or a new client brings.  The invariant of the second is    *)
(* TimelineInv.  Its heart is Replay: the events on the wire lead from     *)
(* what the timeline shows to what the server holds.  The lemmas say what  *)
(* the operations on one query keep, what the code's tables of events and  *)
(* mutations contain, what an event makes of the comments, and then,       *)
(* action by action, that the invariants hold.                             *)
(***************************************************************************)
EXTENDS WebClient, IssueBoardProofs, ChatClientProofs, TLAPS

-----------------------------------------------------------------------------
(***************************************************************************)
(* One query of a workspace: what each operation keeps of it.              *)
(***************************************************************************)
KeyQuery == Query(Held, {"rows"} \X Held)

LEMMA NoneApart == /\ \A d \in Held : d # None
                   /\ \A f \in Fetches({"rows"} \X Held) : f # None
                   /\ \A f \in Fetches({"rows"} \X Directory) : f # None
                   /\ \A d \in Directory : d # None
                   /\ \A m \in Mutation : m # None
BY WorkspaceAssumption

LEMMA FetchingIs ==
  /\ Fetching \in Fetches({"rows"} \X Held) /\ Fetching # None
  /\ Fetching.answers = {} /\ Fetching.clean
BY NoneApart DEF Fetching, Fetches

LEMMA QueryFields ==
  ASSUME NEW q \in KeyQuery
  PROVE  /\ q.data \in Held \cup {None} /\ q.stale \in BOOLEAN /\ q.owed \in BOOLEAN
         /\ q.mounted \in BOOLEAN /\ q.doubt \subseteq Doubts
         /\ q.fetch \in {None} \cup Fetches({"rows"} \X Held)
         /\ q.fetch # None => /\ q.fetch.answers \subseteq {"rows"} \X Held
                              /\ q.fetch.clean \in BOOLEAN
BY DEF KeyQuery, Query, Fetches

LEMMA InvalidateKeeps ==
  ASSUME NEW q \in KeyQuery, NEW d, NEW ahead, NEW coming, NEW other,
         Kept(q, d, ahead, coming)
  PROVE  /\ Invalidate(q) \in KeyQuery
         /\ Kept(Invalidate(q), d, ahead, other)
         /\ Invalidate(q).data = q.data /\ Invalidate(q).mounted = q.mounted
         /\ Invalidate(q).doubt = q.doubt
<1> PICK f : f = Flag(q)
  OBVIOUS
<1>1. /\ f \in KeyQuery /\ f.data = q.data /\ f.mounted = q.mounted /\ f.doubt = q.doubt
      /\ f.fetch = q.fetch /\ f.stale = f.owed /\ (f.data # None => f.stale)
  BY QueryFields DEF Flag, Kept, Fetched, KeyQuery, Query
<1> PICK g : g = IF f.mounted /\ (f.fetch = None \/ f.data # None) THEN Fetching ELSE f.fetch
  OBVIOUS
<1>2. g \in {None} \cup Fetches({"rows"} \X Held) /\ g \in {Fetching, q.fetch}
  BY <1>1, FetchingIs, QueryFields
<1>8. PICK n : n = [f EXCEPT !.fetch = g]
  OBVIOUS
<1>3. n = Invalidate(q)
  <2>1. q.mounted = f.mounted /\ q.data = f.data /\ f = Flag(q)
    BY <1>1
  <2> QED
    BY <1>8, <2>1 DEF Invalidate
<1>4. /\ n \in KeyQuery /\ n.data = q.data /\ n.mounted = q.mounted /\ n.doubt = q.doubt
      /\ n.fetch = g /\ n.stale = f.stale /\ n.owed = f.owed
  <2>1. f \in KeyQuery
    BY <1>1
  <2>2. n \in KeyQuery /\ n.data = f.data /\ n.mounted = f.mounted /\ n.doubt = f.doubt
        /\ n.fetch = g /\ n.stale = f.stale /\ n.owed = f.owed
    BY ONLY <1>2, <1>8, <2>1 DEF KeyQuery, Query
  <2> QED
    BY <1>1, <2>2
<1>5. n.mounted /\ (n.data = None \/ n.stale) => n.fetch # None
  BY <1>1, <1>4, FetchingIs
<1>6. n.fetch # None => \A a \in n.fetch.answers :
         a[2] \subseteq d /\ (n.fetch.clean => a[2] = d)
  BY <1>2, <1>4, FetchingIs DEF Kept
<1>7. Kept(n, d, ahead, other)
  BY <1>1, <1>4, <1>5, <1>6 DEF Kept, Fetched
<1> QED
  BY <1>3, <1>4, <1>7

LEMMA DoubtedKeeps ==
  ASSUME NEW q \in KeyQuery, NEW d, NEW ahead, NEW coming, NEW other,
         NEW why \in Doubts, Kept(q, d, ahead, coming)
  PROVE  /\ Doubted(q, why) \in KeyQuery
         /\ Kept(Doubted(q, why), d, ahead, other)
BY QueryFields DEF Doubted, Kept, Fetched, KeyQuery, Query

LEMMA TouchKeeps ==
  ASSUME NEW q \in KeyQuery, NEW d \in Held, NEW ahead, NEW coming, NEW c,
         Kept(q, d, ahead, coming)
  PROVE  /\ Touch(q) \in KeyQuery /\ Touch(q).data = q.data
         /\ Kept(Touch(q), d \cup {c}, ahead, coming \cup {c})
<1> PICK g : g = IF q.fetch # None /\ q.fetch.answers # {}
                 THEN [q.fetch EXCEPT !.clean = FALSE] ELSE q.fetch
  OBVIOUS
<1>1. /\ g \in {None} \cup Fetches({"rows"} \X Held) /\ (g = None => q.fetch = None)
      /\ g # None => g.answers = q.fetch.answers /\ (g.clean => g.answers = {})
  BY QueryFields, NoneApart DEF Fetches
<1>6. PICK n : n = [q EXCEPT !.fetch = g]
  OBVIOUS
<1>2. n = Touch(q)
  BY <1>6 DEF Touch
<1>3. /\ n \in KeyQuery /\ n.data = q.data /\ n.mounted = q.mounted /\ n.doubt = q.doubt
      /\ n.fetch = g /\ n.stale = q.stale /\ n.owed = q.owed
  BY <1>1, <1>6 DEF KeyQuery, Query
<1>4. n.fetch # None => \A a \in n.fetch.answers :
         a[2] \subseteq d \cup {c} /\ (n.fetch.clean => a[2] = d \cup {c})
  BY <1>1, <1>3 DEF Kept
<1>5. Kept(n, d \cup {c}, ahead, coming \cup {c})
  BY <1>1, <1>3, <1>4 DEF Kept, Fetched
<1> QED
  BY <1>2, <1>3, <1>5

LEMMA MountKeeps ==
  ASSUME NEW q \in KeyQuery, NEW d, NEW ahead, NEW coming, Kept(q, d, ahead, coming)
  PROVE  /\ Mount(q) \in KeyQuery /\ Kept(Mount(q), d, ahead, coming)
         /\ Unmount(q) \in KeyQuery /\ Kept(Unmount(q), d, ahead, coming)
BY QueryFields, FetchingIs DEF Mount, Unmount, Kept, Fetched, KeyQuery, Query

LEMMA AnswerKeeps ==
  ASSUME NEW q \in KeyQuery, NEW d \in Held, NEW ahead, NEW coming,
         Kept(q, d, ahead, coming), q.fetch # None, q.fetch.answers = {}
  PROVE  /\ Answer(q, "rows", d, TRUE) \in KeyQuery
         /\ Kept(Answer(q, "rows", d, TRUE), d, ahead, coming)
BY QueryFields, NoneApart DEF Answer, Kept, Fetched, KeyQuery, Query, Fetches

LEMMA LandKeeps ==
  ASSUME NEW q \in KeyQuery, NEW d, NEW ahead, NEW coming,
         Kept(q, d, ahead, coming), q.fetch # None, NEW a \in q.fetch.answers
  PROVE  /\ Land(q, a[2]) \in KeyQuery
         /\ Kept(Land(q, a[2]), d, ahead, coming)
<1> PICK v : v = a[2]
  OBVIOUS
<1>1. v \in Held /\ v # None /\ v \subseteq d /\ (q.fetch.clean => v = d)
  BY QueryFields, NoneApart DEF Kept
<1> PICK e : e = IF q.fetch.clean THEN {} ELSE {"overlap"}
  OBVIOUS
<1>2. e \in SUBSET Doubts /\ (e = {} => q.fetch.clean)
  BY DEF Doubts
<1>6. PICK n : n = [q EXCEPT !.data = v, !.stale = FALSE, !.owed = FALSE, !.fetch = None,
                             !.doubt = e]
  OBVIOUS
<1>3. n = Land(q, a[2])
  BY <1>6 DEF Land
<1>4. /\ n.data = v /\ n.fetch = None /\ n.doubt = e /\ n.stale = FALSE /\ n.owed = FALSE
      /\ n \in KeyQuery
  BY <1>1, <1>2, <1>6 DEF KeyQuery, Query
<1>5. Kept(n, d, ahead, coming)
  BY <1>1, <1>2, <1>4 DEF Kept, Fetched
<1> QED
  BY <1>3, <1>4, <1>5

LEMMA WriteFields ==
  ASSUME NEW q \in KeyQuery, NEW rows \in Held
  PROVE  /\ Write(q, rows) \in KeyQuery /\ Write(q, rows).data = rows /\ rows # None
         /\ Write(q, rows).fetch = q.fetch /\ Write(q, rows).mounted = q.mounted
         /\ ~ Write(q, rows).stale /\ ~ Write(q, rows).owed
<1> DEFINE e == IF q.owed /\ q.fetch = None THEN q.doubt \cup {"forgotten"} ELSE q.doubt
<1>1. e \in SUBSET Doubts
  BY QueryFields DEF Doubts
<1>2. q \in [data : Held \cup {None}, stale : BOOLEAN, owed : BOOLEAN, mounted : BOOLEAN,
             fetch : {None} \cup Fetches({"rows"} \X Held), doubt : SUBSET Doubts]
  BY DEF KeyQuery, Query
<1> HIDE DEF e
<1>3. Write(q, rows) = [q EXCEPT !.data = rows, !.stale = FALSE, !.owed = FALSE, !.doubt = e]
  BY DEF Write, e
<1>4. /\ Write(q, rows).data = rows /\ Write(q, rows).fetch = q.fetch
      /\ Write(q, rows).mounted = q.mounted
      /\ ~ Write(q, rows).stale /\ ~ Write(q, rows).owed
  BY <1>2, <1>3
<1>5. Write(q, rows) \in KeyQuery
  BY <1>1, <1>2, <1>3 DEF KeyQuery, Query
<1>6. rows # None
  BY NoneApart
<1> QED
  BY <1>4, <1>5, <1>6

LEMMA CancelFields ==
  ASSUME NEW q \in KeyQuery
  PROVE  /\ Cancel(q) \in KeyQuery /\ Cancel(q).data = q.data /\ Cancel(q).fetch = None
BY QueryFields DEF Cancel, KeyQuery, Query

\* onMutate: what the user did is ahead of the server.
LEMMA AheadKeeps ==
  ASSUME NEW q \in KeyQuery, NEW d, NEW coming, NEW c \in Changes,
         Kept(q, d, {}, coming), q.data # None
  PROVE  /\ Patch(Cancel(q), q.data \cup {c}) \in KeyQuery
         /\ Kept(Patch(Cancel(q), q.data \cup {c}), d, {c}, coming)
<1> DEFINE rows == q.data \cup {c}
           n == Write(Cancel(q), rows)
<1>1. q.data \in Held /\ rows \in Held
  BY QueryFields DEF Held
<1>2. Patch(Cancel(q), rows) = n
  BY CancelFields DEF Patch
<1>3. n \in KeyQuery /\ n.data = rows /\ rows # None /\ n.fetch = None
      /\ ~ n.stale /\ ~ n.owed
  <2>1. Cancel(q) \in KeyQuery /\ Cancel(q).fetch = None
    BY CancelFields
  <2> HIDE DEF rows
  <2> QED
    BY <1>1, <2>1, WriteFields
<1>4. n.doubt = {} => q.doubt = {} /\ ~ q.owed
  BY QueryFields DEF Write, Cancel, KeyQuery, Query
<1> HIDE DEF n
<1>5. n.data \subseteq d \cup {c}
  BY <1>3 DEF Kept
<1>6. n.doubt = {} => d \subseteq n.data \cup coming
  <2> SUFFICES ASSUME n.doubt = {} PROVE d \subseteq n.data \cup coming
    OBVIOUS
  <2>1. q.data # None /\ q.doubt = {} /\ ~ q.stale
    BY <1>4 DEF Kept, Fetched
  <2> QED
    BY <1>3, <2>1 DEF Kept
<1>7. Kept(n, d, {c}, coming)
  BY <1>3, <1>5, <1>6, QueryFields DEF Kept, Fetched
<1> QED
  BY <1>2, <1>3, <1>7

\* A write that is followed by an invalidation, or leaves a doubt.
LEMMA WriteKeeps ==
  ASSUME NEW q \in KeyQuery, NEW d, NEW ahead, NEW coming, NEW other,
         Kept(q, d, ahead, coming), NEW rows \in Held, rows \subseteq d
  PROVE  /\ Invalidate(Write(q, rows)) \in KeyQuery
         /\ Kept(Invalidate(Write(q, rows)), d, {}, other)
         /\ Doubted(Write(q, rows), "restored") \in KeyQuery
         /\ Kept(Doubted(Write(q, rows), "restored"), d, {}, other)
<1>1. Write(q, rows) \in KeyQuery /\ Write(q, rows).data = rows /\ rows # None
      /\ Write(q, rows).fetch = q.fetch /\ ~ Write(q, rows).stale /\ ~ Write(q, rows).owed
  BY WriteFields
<1> DEFINE n == Write(q, rows)
<1> HIDE DEF n
<1>2. \A f \in {n.fetch} : f # None => \A a \in f.answers :
          a[2] \subseteq d /\ (f.clean => a[2] = d)
  BY <1>1 DEF n, Kept
<1>3. n \in KeyQuery /\ n.data = rows /\ rows # None /\ ~ n.stale /\ ~ n.owed
  BY <1>1 DEF n
<1>4. Invalidate(n) \in KeyQuery /\ Kept(Invalidate(n), d, {}, other)
  BY <1>2, <1>3, FetchingIs, QueryFields DEF Invalidate, Flag, Kept, Fetched, KeyQuery, Query
<1>5. Doubted(n, "restored") \in KeyQuery /\ Kept(Doubted(n, "restored"), d, {}, other)
  BY <1>2, <1>3, QueryFields DEF Doubted, Kept, Fetched, KeyQuery, Query, Doubts
<1> QED
  BY <1>4, <1>5 DEF n

LEMMA KeptMore ==
  ASSUME NEW q, NEW d, NEW ahead, NEW extra, NEW coming, NEW others,
         Kept(q, d, ahead, coming), ahead \subseteq extra, coming \subseteq others
  PROVE  Kept(q, d, extra, others)
BY DEF Kept

-----------------------------------------------------------------------------
(***************************************************************************)
(* The tables of events and mutations.                                     *)
(***************************************************************************)
\* What an event announces is what its refresh makes stale, but for the prefix of a
\* workspace; only the preferences are announced by none.
LEMMA EventTables ==
  /\ \A p \in DOMAIN Refreshed :
        p \in DOMAIN Altered /\ (p # "workspace" => Altered[p] \subseteq Refreshed[p])
  /\ "workspace" \in DOMAIN Refreshed /\ Altered["workspace"] = {"issues"}
  /\ \A p \in DOMAIN Altered \ DOMAIN Refreshed :
        p = "preferences" /\ Altered[p] \cap Recovered = {}
<1>1. DOMAIN Refreshed = {"inbox", "agent", "member", "workspace", "skill", "project",
                          "squad", "label", "pin", "daemon", "autopilot",
                          "github_installation", "task"}
  BY DEF Refreshed
<1>2. DOMAIN Altered = DOMAIN Refreshed \cup {"preferences"}
  BY <1>1 DEF Altered
<1>3. /\ Altered["workspace"] = {"issues"} /\ Altered["preferences"] = {"preferences"}
  BY DEF Altered
<1>4. \A p \in DOMAIN Refreshed : p # "workspace" => Altered[p] = Refreshed[p]
  <2>1. /\ Altered["inbox"] = Refreshed["inbox"] /\ Altered["agent"] = Refreshed["agent"]
        /\ Altered["member"] = Refreshed["member"] /\ Altered["skill"] = Refreshed["skill"]
        /\ Altered["project"] = Refreshed["project"]
    BY DEF Altered, Refreshed
  <2>2. /\ Altered["squad"] = Refreshed["squad"] /\ Altered["label"] = Refreshed["label"]
        /\ Altered["pin"] = Refreshed["pin"] /\ Altered["daemon"] = Refreshed["daemon"]
        /\ Altered["autopilot"] = Refreshed["autopilot"]
    BY DEF Altered, Refreshed
  <2>3. /\ Altered["github_installation"] = Refreshed["github_installation"]
        /\ Altered["task"] = Refreshed["task"]
    BY DEF Altered, Refreshed
  <2> QED
    BY <1>1, <2>1, <2>2, <2>3
<1>5. "preferences" \notin Recovered
  BY DEF Recovered
<1> QED
  BY <1>1, <1>2, <1>3, <1>4, <1>5

\* What the code of a mutation of one of the families says.
Described(m, d) ==
  /\ d.writes \in {"before", "after", "never"}
  /\ d.key \in {"labels", "pins", "projects", "autopilots", "inbox", "runtimes",
                "preferences"}
  /\ d.writes = "after" => d.key \in d.settles

LEMMA MutationTables ==
  \A m \in MutationKinds :
    IF OfSettings(m)
    THEN Mutations[m].key = "workspace" /\ Mutations[m].writes = "after"
    ELSE Described(m, Mutations[m]) /\ m # "savePrefix"
<1>0. /\ DOMAIN LabelMutations = {"createLabel", "updateLabel", "deleteLabel"}
      /\ DOMAIN PinMutations = {"createPin", "deletePin", "reorderPins"}
      /\ DOMAIN ProjectMutations = {"createProject", "updateProject", "deleteProject"}
      /\ DOMAIN AutopilotMutations =
            {"createAutopilot", "updateAutopilot", "deleteAutopilot"}
      /\ DOMAIN InboxMutations =
            {"markInboxRead", "archiveInbox", "markAllInboxRead", "archiveAllInbox"}
      /\ DOMAIN PreferenceMutations = {"updateNotificationPreferences"}
      /\ DOMAIN RuntimeMutations = {"deleteRuntime", "updateRuntime"}
      /\ DOMAIN SettingsMutations = {"saveName", "savePrefix"}
  BY DEF LabelMutations, PinMutations, ProjectMutations, AutopilotMutations, InboxMutations,
     PreferenceMutations, RuntimeMutations, SettingsMutations
<1> SUFFICES ASSUME NEW m \in MutationKinds
             PROVE  IF OfSettings(m)
                    THEN Mutations[m].key = "workspace" /\ Mutations[m].writes = "after"
                    ELSE Described(m, Mutations[m]) /\ m # "savePrefix"
  OBVIOUS
<1>1. CASE m \in DOMAIN LabelMutations
  <2>1. Mutations[m] = LabelMutations[m] /\ ~ OfSettings(m)
    BY <1>0, <1>1 DEF Mutations, OfSettings
  <2>2. Described(m, LabelMutations[m])
    BY <1>0, <1>1 DEF LabelMutations, Mutating, Described
  <2> QED
    BY <1>0, <1>1, <2>1, <2>2
<1>2. CASE m \in DOMAIN PinMutations
  <2>1. Mutations[m] = PinMutations[m] /\ ~ OfSettings(m)
    BY <1>0, <1>2 DEF Mutations, OfSettings
  <2>2. Described(m, PinMutations[m])
    BY <1>0, <1>2 DEF PinMutations, Mutating, Described
  <2> QED
    BY <1>0, <1>2, <2>1, <2>2
<1>3. CASE m \in DOMAIN ProjectMutations
  <2>1. Mutations[m] = ProjectMutations[m] /\ ~ OfSettings(m)
    BY <1>0, <1>3 DEF Mutations, OfSettings
  <2>2. Described(m, ProjectMutations[m])
    BY <1>0, <1>3 DEF ProjectMutations, Mutating, Described
  <2> QED
    BY <1>0, <1>3, <2>1, <2>2
<1>4. CASE m \in DOMAIN AutopilotMutations
  <2>1. Mutations[m] = AutopilotMutations[m] /\ ~ OfSettings(m)
    BY <1>0, <1>4 DEF Mutations, OfSettings
  <2>2. Described(m, AutopilotMutations[m])
    BY <1>0, <1>4 DEF AutopilotMutations, Mutating, Described
  <2> QED
    BY <1>0, <1>4, <2>1, <2>2
<1>5. CASE m \in DOMAIN InboxMutations
  <2>1. Mutations[m] = InboxMutations[m] /\ ~ OfSettings(m)
    BY <1>0, <1>5 DEF Mutations, OfSettings
  <2>2. Described(m, InboxMutations[m])
    BY <1>0, <1>5 DEF InboxMutations, Mutating, Described
  <2> QED
    BY <1>0, <1>5, <2>1, <2>2
<1>6. CASE m \in DOMAIN PreferenceMutations \cup DOMAIN RuntimeMutations
  <2>1. /\ m \in DOMAIN PreferenceMutations => Mutations[m] = PreferenceMutations[m]
        /\ m \in DOMAIN RuntimeMutations => Mutations[m] = RuntimeMutations[m]
        /\ ~ OfSettings(m)
    BY <1>0, <1>6 DEF Mutations, OfSettings
  <2>2. /\ m \in DOMAIN PreferenceMutations => Described(m, PreferenceMutations[m])
        /\ m \in DOMAIN RuntimeMutations => Described(m, RuntimeMutations[m])
    BY <1>0, <1>6 DEF PreferenceMutations, RuntimeMutations, Mutating, Described
  <2> QED
    BY <1>0, <1>6, <2>1, <2>2
<1>7. CASE m \in DOMAIN SettingsMutations
  <2>1. Mutations[m] = SettingsMutations[m] /\ OfSettings(m)
    BY <1>0, <1>7 DEF Mutations, OfSettings
  <2> QED
    BY <1>0, <1>7, <2>1 DEF SettingsMutations, Mutating
<1> QED
  BY <1>1, <1>2, <1>3, <1>4, <1>5, <1>6, <1>7 DEF MutationKinds

\* The event that announces a mutation alters its key.
LEMMA AnnouncedTables ==
  /\ Announced["workspace"] = "workspace"
  /\ \A k \in {"labels", "pins", "projects", "autopilots", "inbox", "runtimes",
               "preferences"} :
        /\ Announced[k] \in DOMAIN Altered /\ Announced[k] # "workspace"
        /\ k \in Altered[Announced[k]]
<1>1. /\ Announced["workspace"] = "workspace"
      /\ Announced["labels"] = "label" /\ Announced["pins"] = "pin"
      /\ Announced["projects"] = "project" /\ Announced["autopilots"] = "autopilot"
      /\ Announced["inbox"] = "inbox" /\ Announced["runtimes"] = "daemon"
      /\ Announced["preferences"] = "preferences"
  BY DEF Announced
<1>2. /\ {"label", "pin", "project", "autopilot", "inbox", "daemon", "preferences"}
            \subseteq DOMAIN Altered
      /\ "labels" \in Altered["label"] /\ "pins" \in Altered["pin"]
      /\ "projects" \in Altered["project"] /\ "autopilots" \in Altered["autopilot"]
      /\ "inbox" \in Altered["inbox"] /\ "runtimes" \in Altered["daemon"]
      /\ "preferences" \in Altered["preferences"]
  BY DEF Altered
<1> QED
  BY <1>1, <1>2

-----------------------------------------------------------------------------
(***************************************************************************)
(* What a step leaves alone.                                               *)
(***************************************************************************)
DirQuery == Query(Directory, {"rows"} \X Directory)

KeysKept == \A w \in Workspaces, k \in Keys :
                Kept(cache[w][k], held[w][k], Ahead(w, k), Coming(w, k))

LEMMA InvParts == SyncInv <=> /\ WorkspaceTypeOK /\ SocketKept /\ KeysKept
                              /\ DirectoryKept /\ MutationKept
BY DEF SyncInv, KeysKept

LEMMA Assemble ==
  ASSUME WorkspaceTypeOK', SocketKept', KeysKept', DirectoryKept', MutationKept'
  PROVE  SyncInv'
BY DEF SyncInv, KeysKept

LEMMA TypeParts ==
  ASSUME SyncInv
  PROVE  /\ \A w \in Workspaces, k \in Keys : cache[w][k] \in KeyQuery /\ held[w][k] \in Held
         /\ cache = [w \in Workspaces |-> [k \in Keys |-> cache[w][k]]]
         /\ held = [w \in Workspaces |-> [k \in Keys |-> held[w][k]]]
         /\ directory \in DirQuery /\ prefix \in Directory
         /\ current \in Workspaces /\ adopted \in BOOLEAN /\ view \in Views
         /\ timers \subseteq DOMAIN Refreshed /\ mutation \in Mutation \cup {None}
BY DEF SyncInv, WorkspaceTypeOK, KeyQuery, DirQuery

LEMMA CacheTyped ==
  ASSUME NEW c, c = [w \in Workspaces |-> [k \in Keys |-> c[w][k]]],
         \A w \in Workspaces, k \in Keys : c[w][k] \in KeyQuery
  PROVE  c \in [Workspaces -> [Keys -> Query(Held, {"rows"} \X Held)]]
BY DEF KeyQuery

LEMMA SameAhead ==
  ASSUME UNCHANGED mutation
  PROVE  \A w, k : Ahead(w, k)' = Ahead(w, k)
BY DEF Ahead

LEMMA SameComing ==
  ASSUME UNCHANGED <<conn, wire, current, adopted, timers>>
  PROVE  \A w, k : Coming(w, k)' = Coming(w, k)
BY DEF Coming, Recovering

LEMMA SameDirectory ==
  ASSUME DirectoryKept, UNCHANGED <<directory, prefix, adopted, conn, wire>>
  PROVE  DirectoryKept'
BY DEF DirectoryKept, Fetched

LEMMA SameMutation ==
  ASSUME MutationKept, UNCHANGED <<mutation, prefix, held>>
  PROVE  MutationKept'
BY DEF MutationKept

LEMMA SameSocket ==
  ASSUME SocketKept, UNCHANGED <<conn, wire, adopted>>, ops' = ops \/ Spend
  PROVE  SocketKept'
BY WorkspaceAssumption DEF SocketKept, Spend

\* A step that changes queries and nothing else that matters to them.
LEMMA QueriesStep ==
  ASSUME SyncInv,
         cache' = [w \in Workspaces |-> [k \in Keys |-> cache'[w][k]]],
         UNCHANGED <<conn, wire, held, prefix, directory, current, adopted, timers, mutation>>,
         ops' = ops \/ Spend, view' \in Views,
         \A w \in Workspaces, k \in Keys :
            /\ cache'[w][k] \in KeyQuery
            /\ Kept(cache'[w][k], held[w][k], Ahead(w, k), Coming(w, k))
  PROVE  SyncInv'
<1>1. WorkspaceTypeOK'
  BY CacheTyped DEF SyncInv, WorkspaceTypeOK
<1>2. SocketKept' /\ DirectoryKept' /\ MutationKept'
  BY SameSocket, SameDirectory, SameMutation DEF SyncInv
<1>3. KeysKept'
  BY SameAhead, SameComing DEF KeysKept
<1> QED
  BY <1>1, <1>2, <1>3, Assemble

-----------------------------------------------------------------------------
(***************************************************************************)
(* Fetches, and what is mounted.                                           *)
(***************************************************************************)
LEMMA AnswerKeyKeeps ==
  ASSUME SyncInv, NEW w \in Workspaces, NEW k \in Keys, AnswerKey(w, k)
  PROVE  SyncInv'
<1>1. \A x \in Workspaces, j \in Keys :
         cache'[x][j] = IF x = w /\ j = k THEN Answer(cache[w][k], "rows", held[w][k], TRUE)
                        ELSE cache[x][j]
  BY TypeParts DEF AnswerKey, At
<1>2. cache' = [x \in Workspaces |-> [j \in Keys |-> cache'[x][j]]]
  BY TypeParts DEF AnswerKey, At
<1>3. /\ UNCHANGED <<conn, wire, held, prefix, directory, current, adopted, timers, mutation>>
      /\ ops' = ops /\ view' \in Views
      /\ cache[w][k].fetch # None /\ cache[w][k].fetch.answers = {}
  BY TypeParts DEF AnswerKey, socketVars
<1>4. ASSUME NEW x \in Workspaces, NEW j \in Keys
      PROVE  /\ cache'[x][j] \in KeyQuery
             /\ Kept(cache'[x][j], held[x][j], Ahead(x, j), Coming(x, j))
  <2>1. /\ cache[x][j] \in KeyQuery /\ held[x][j] \in Held
        /\ Kept(cache[x][j], held[x][j], Ahead(x, j), Coming(x, j))
    BY TypeParts DEF SyncInv
  <2>2. CASE x = w /\ j = k
    <3>1. /\ cache[w][k] \in KeyQuery /\ held[w][k] \in Held
          /\ Kept(cache[w][k], held[w][k], Ahead(x, j), Coming(x, j))
      BY <2>1, <2>2
    <3> QED
      BY <1>1, <1>3, <2>2, <3>1, AnswerKeeps
  <2>3. CASE ~ (x = w /\ j = k)
    BY <1>1, <2>1, <2>3
  <2> QED
    BY <2>2, <2>3
<1> QED
  BY <1>2, <1>3, <1>4, QueriesStep

LEMMA LandKeyKeeps ==
  ASSUME SyncInv, NEW w \in Workspaces, NEW k \in Keys, LandKey(w, k)
  PROVE  SyncInv'
<1>0. PICK a \in cache[w][k].fetch.answers :
         cache' = At(cache, w, {k}, LAMBDA q : Land(q, a[2]))
  BY DEF LandKey
<1>1. \A x \in Workspaces, j \in Keys :
         cache'[x][j] = IF x = w /\ j = k THEN Land(cache[w][k], a[2]) ELSE cache[x][j]
  BY <1>0, TypeParts DEF At
<1>2. cache' = [x \in Workspaces |-> [j \in Keys |-> cache'[x][j]]]
  BY <1>0, TypeParts DEF At
<1>3. /\ UNCHANGED <<conn, wire, held, prefix, directory, current, adopted, timers, mutation>>
      /\ ops' = ops /\ view' \in Views /\ cache[w][k].fetch # None
  BY TypeParts DEF LandKey, socketVars
<1>4. ASSUME NEW x \in Workspaces, NEW j \in Keys
      PROVE  /\ cache'[x][j] \in KeyQuery
             /\ Kept(cache'[x][j], held[x][j], Ahead(x, j), Coming(x, j))
  <2>1. /\ cache[x][j] \in KeyQuery
        /\ Kept(cache[x][j], held[x][j], Ahead(x, j), Coming(x, j))
    BY TypeParts DEF SyncInv
  <2> QED
    BY <1>1, <1>3, <2>1, LandKeeps
<1> QED
  BY <1>2, <1>3, <1>4, QueriesStep

LEMMA OpenViewKeeps ==
  ASSUME SyncInv, NEW v \in Views, OpenView(v)
  PROVE  SyncInv'
<1>1. \A x \in Workspaces, j \in Keys :
         cache'[x][j] \in {Mount(cache[x][j]), Unmount(cache[x][j])}
  BY TypeParts DEF OpenView, Reading
<1>2. cache' = [x \in Workspaces |-> [j \in Keys |-> cache'[x][j]]]
  BY DEF OpenView, Reading
<1>3. /\ UNCHANGED <<conn, wire, held, prefix, directory, current, adopted, timers, mutation>>
      /\ Spend /\ view' \in Views
  BY DEF OpenView
<1>4. ASSUME NEW x \in Workspaces, NEW j \in Keys
      PROVE  /\ cache'[x][j] \in KeyQuery
             /\ Kept(cache'[x][j], held[x][j], Ahead(x, j), Coming(x, j))
  <2>1. /\ cache[x][j] \in KeyQuery
        /\ Kept(cache[x][j], held[x][j], Ahead(x, j), Coming(x, j))
    BY TypeParts DEF SyncInv
  <2> QED
    BY <1>1, <2>1, MountKeeps
<1> QED
  BY <1>2, <1>3, <1>4, QueriesStep

\* A step that changes the list of workspaces only.
LEMMA DirectoryStep ==
  ASSUME SyncInv, directory' \in DirQuery, DirectoryKept',
         UNCHANGED <<socketVars, held, prefix, cache, current, adopted, view, timers, mutation>>
  PROVE  SyncInv'
<1>1. WorkspaceTypeOK'
  BY DEF SyncInv, WorkspaceTypeOK, DirQuery
<1>2. SocketKept' /\ MutationKept'
  BY SameSocket, SameMutation DEF SyncInv, socketVars
<1>3. KeysKept'
  BY SameAhead, SameComing DEF SyncInv, KeysKept, socketVars
<1> QED
  BY <1>1, <1>2, <1>3, Assemble

LEMMA DirectoryFields ==
  ASSUME NEW q \in DirQuery
  PROVE  /\ q.data \in Directory \cup {None} /\ q.stale \in BOOLEAN /\ q.owed \in BOOLEAN
         /\ q.mounted \in BOOLEAN /\ q.doubt \subseteq Doubts
         /\ q.fetch \in {None} \cup Fetches({"rows"} \X Directory)
         /\ q.fetch # None => /\ q.fetch.answers \subseteq {"rows"} \X Directory
                              /\ q.fetch.clean \in BOOLEAN
BY DEF DirQuery, Query, Fetches

LEMMA AnswerDirectoryKeeps == SyncInv /\ AnswerDirectory => SyncInv'
<1> SUFFICES ASSUME SyncInv, AnswerDirectory PROVE SyncInv'
  OBVIOUS
<1>1. directory \in DirQuery /\ prefix \in Directory /\ DirectoryKept
  BY TypeParts DEF SyncInv
<1>2. /\ directory.fetch # None /\ directory.fetch.answers = {}
      /\ directory' = Answer(directory, "rows", prefix, TRUE)
      /\ UNCHANGED <<socketVars, held, prefix, cache, current, adopted, view, timers, mutation>>
  BY DEF AnswerDirectory
<1>3. directory' \in DirQuery
  BY <1>1, <1>2, DirectoryFields DEF Answer, DirQuery, Query, Fetches
<1>4. /\ directory'.data = directory.data /\ directory'.mounted = directory.mounted
      /\ directory'.stale = directory.stale /\ directory'.owed = directory.owed
      /\ directory'.doubt = directory.doubt /\ directory'.fetch # None
      /\ directory'.fetch.answers = {<<"rows", prefix>>}
  BY <1>1, <1>2, DirectoryFields, NoneApart DEF Answer, DirQuery, Query, Fetches
<1>5. \A a \in directory'.fetch.answers : a[2] = prefix
  BY <1>4
<1>6. DirectoryKept'
  <2>1. Fetched(directory)'
    BY <1>1, <1>4 DEF DirectoryKept, Fetched
  <2>2. prefix' = prefix
    BY <1>2
  <2> QED
    BY <1>1, <1>4, <1>5, <2>1, <2>2 DEF DirectoryKept
<1> QED
  BY <1>2, <1>3, <1>6, DirectoryStep

LEMMA LandDirectoryKeeps == SyncInv /\ LandDirectory => SyncInv'
<1> SUFFICES ASSUME SyncInv, LandDirectory PROVE SyncInv'
  OBVIOUS
<1>1. directory \in DirQuery /\ prefix \in Directory /\ DirectoryKept
  BY TypeParts DEF SyncInv
<1>2. PICK a \in directory.fetch.answers : directory' = Land(directory, a[2])
  BY DEF LandDirectory
<1>3. /\ directory.fetch # None
      /\ UNCHANGED <<socketVars, held, prefix, cache, current, adopted, view, timers, mutation>>
  BY DEF LandDirectory
<1>4. a[2] \in Directory /\ a[2] # None
  BY <1>1, <1>2, <1>3, DirectoryFields, NoneApart
<1>5. directory' \in DirQuery
  BY <1>1, <1>2, <1>3, <1>4, DirectoryFields DEF Land, DirQuery, Query, Doubts
<1>6. /\ directory'.data = a[2] /\ directory'.mounted = directory.mounted
      /\ directory'.stale = FALSE /\ directory'.owed = FALSE /\ directory'.fetch = None
      /\ directory'.doubt = IF directory.fetch.clean THEN {} ELSE {"overlap"}
  BY <1>1, <1>2 DEF Land, DirQuery, Query
<1>7. \A w \in Workspaces : a[2][w] \subseteq prefix[w]
  BY <1>1, <1>2, <1>3 DEF DirectoryKept
<1>8. directory.fetch.clean => a[2] = prefix
  BY <1>1, <1>2, <1>3 DEF DirectoryKept
<1>9. DirectoryKept'
  <2>1. Fetched(directory)'
    BY <1>1, <1>4, <1>5, <1>6, DirectoryFields DEF Fetched
  <2>2. directory'.doubt = {} => directory'.data = prefix
    BY <1>6, <1>8
  <2> QED
    BY <1>1, <1>3, <1>4, <1>6, <1>7, <2>1, <2>2 DEF DirectoryKept
<1> QED
  BY <1>3, <1>5, <1>9, DirectoryStep

-----------------------------------------------------------------------------
(***************************************************************************)
(* The server changes.                                                     *)
(***************************************************************************)
\* Events that are sent after those on their way.
LEMMA SentAfter ==
  ASSUME NEW e \in WorkspaceEvent, NEW s \in Seq(WorkspaceEvent)
  PROVE  /\ Append(s, e) \in Seq(WorkspaceEvent)
         /\ \A i \in DOMAIN s : i \in DOMAIN Append(s, e) /\ Append(s, e)[i] = s[i]
         /\ Len(s) + 1 \in DOMAIN Append(s, e) /\ Append(s, e)[Len(s) + 1] = e
OBVIOUS

\* What was coming still is when an event is sent.
LEMMA ComingStays ==
  ASSUME UNCHANGED <<conn, current, adopted, timers>>,
         \A i \in DOMAIN wire : i \in DOMAIN wire' /\ wire'[i] = wire[i]
  PROVE  \A w, k : Coming(w, k) \subseteq Coming(w, k)'
BY DEF Coming, Recovering

LEMMA TouchDirectory ==
  ASSUME NEW q \in DirQuery
  PROVE  /\ Touch(q) \in DirQuery /\ Touch(q).data = q.data /\ Touch(q).mounted = q.mounted
         /\ Touch(q).stale = q.stale /\ Touch(q).owed = q.owed /\ Touch(q).doubt = q.doubt
         /\ Touch(q).fetch = None <=> q.fetch = None
         /\ q.fetch # None => /\ Touch(q).fetch.answers = q.fetch.answers
                              /\ Touch(q).fetch.clean => q.fetch.answers = {}
BY DirectoryFields, NoneApart DEF Touch, DirQuery, Query, Fetches

LEMMA DoubtDirectory ==
  ASSUME NEW q \in DirQuery, NEW why \in Doubts
  PROVE  /\ Doubted(q, why) \in DirQuery
         /\ Doubted(q, why).data = q.data /\ Doubted(q, why).mounted = q.mounted
         /\ Doubted(q, why).stale = q.stale /\ Doubted(q, why).owed = q.owed
         /\ Doubted(q, why).fetch = q.fetch
         /\ q.data # None => Doubted(q, why).doubt # {}
BY DirectoryFields DEF Doubted, DirQuery, Query

\* A change of workspace w that the event p announces, and what it leaves; of the
\* mutations m, the one of the prefix renames.
Changing(w, p, c, m) ==
  /\ w \in Workspaces /\ p \in DOMAIN Altered /\ c \in Changes
  /\ (m = "savePrefix" => p = "workspace")
  /\ ChangeWorkspace(w, p, c, m = "savePrefix")
  /\ UNCHANGED <<conn, current, adopted, view, timers>>
  /\ ops' = ops \/ Spend

\* The keys it alters.
ChangedKeys(p, m) == IF p = "workspace" /\ m # "savePrefix" THEN {} ELSE Altered[p]

\* Whether the client is told.
ToldOf(w, p) == w = current /\ conn = "up" /\ p \in DOMAIN Refreshed

LEMMA ChangeHeld ==
  ASSUME SyncInv, NEW w, NEW p, NEW c, NEW m, Changing(w, p, c, m)
  PROVE  \A x \in Workspaces, j \in Keys :
            held'[x][j] = IF x = w /\ j \in ChangedKeys(p, m) THEN held[x][j] \cup {c}
                          ELSE held[x][j]
<1>1. held \in [Workspaces -> [Keys -> Held]] /\ w \in Workspaces
  BY DEF SyncInv, WorkspaceTypeOK, Changing
<1>2. held' = [held EXCEPT ![w] = [k \in Keys |-> IF k \in ChangedKeys(p, m)
                                                  THEN held[w][k] \cup {c} ELSE held[w][k]]]
  BY DEF Changing, ChangeWorkspace, ChangedKeys
<1> QED
  BY <1>1, <1>2

LEMMA ChangePrefix ==
  ASSUME SyncInv, NEW w, NEW p, NEW c, NEW m, Changing(w, p, c, m)
  PROVE  \A x \in Workspaces :
            prefix'[x] = IF x = w /\ m = "savePrefix" THEN prefix[x] \cup {c} ELSE prefix[x]
<1>1. prefix \in [Workspaces -> Held] /\ w \in Workspaces
  BY DEF SyncInv, WorkspaceTypeOK, Changing, Directory
<1>2. prefix' = IF m = "savePrefix" THEN [prefix EXCEPT ![w] = prefix[w] \cup {c}] ELSE prefix
  BY DEF Changing, ChangeWorkspace
<1> QED
  BY <1>1, <1>2

LEMMA ChangeTyped ==
  ASSUME SyncInv, NEW w, NEW p, NEW c, NEW m, Changing(w, p, c, m)
  PROVE  held' \in [Workspaces -> [Keys -> Held]] /\ prefix' \in Directory
<1>1. held \in [Workspaces -> [Keys -> Held]] /\ prefix \in [Workspaces -> Held]
      /\ w \in Workspaces /\ c \in Changes
  BY DEF SyncInv, WorkspaceTypeOK, Changing, Directory
<1> DEFINE row == [k \in Keys |-> IF k \in ChangedKeys(p, m) THEN held[w][k] \cup {c}
                                  ELSE held[w][k]]
<1>2. held' = [held EXCEPT ![w] = row]
  BY DEF Changing, ChangeWorkspace, ChangedKeys
<1>3. prefix' = IF m = "savePrefix" THEN [prefix EXCEPT ![w] = prefix[w] \cup {c}] ELSE prefix
  BY DEF Changing, ChangeWorkspace
<1>4. row \in [Keys -> Held]
  BY <1>1 DEF Held
<1>5. prefix' \in Directory
  BY <1>1, <1>3 DEF Directory, Held
<1> HIDE DEF row
<1>6. held' \in [Workspaces -> [Keys -> Held]]
  BY <1>1, <1>2, <1>4
<1> QED
  BY <1>5, <1>6

LEMMA ChangeWire ==
  ASSUME SyncInv, NEW w, NEW p, NEW c, NEW m, Changing(w, p, c, m)
  PROVE  /\ SocketKept'
         /\ \A x, j : Coming(x, j) \subseteq Coming(x, j)'
         /\ ToldOf(w, p) =>
               \E i \in DOMAIN wire' : wire'[i].type = p /\ wire'[i].change = c
                                       /\ wire'[i].prefix = prefix'[w]
<1> DEFINE e == [type |-> p, change |-> c, prefix |-> prefix'[w]]
<1>1. /\ wire' = IF ToldOf(w, p) THEN Append(wire, e) ELSE wire
      /\ UNCHANGED <<conn, current, adopted, timers>> /\ (ops' = ops \/ Spend)
      /\ c \in Changes /\ w \in Workspaces
  BY DEF Changing, ChangeWorkspace, ToldOf
<1>2. SocketKept /\ wire \in Seq(WorkspaceEvent) /\ prefix'[w] \in Held
  <2>1. prefix' \in [Workspaces -> Held]
    BY ChangeTyped DEF Directory
  <2> QED
    BY <1>1, <2>1 DEF SyncInv, SocketKept
<1>3. CASE ToldOf(w, p)
  <2>1. e \in WorkspaceEvent
    BY <1>1, <1>2, <1>3 DEF ToldOf, WorkspaceEvent
  <2>2. e.type = p /\ e.change = c /\ e.prefix = prefix'[w]
    OBVIOUS
  <2> HIDE DEF e
  <2>3. wire' = Append(wire, e)
    BY <1>1, <1>3
  <2>4. /\ wire' \in Seq(WorkspaceEvent)
        /\ \A i \in DOMAIN wire : i \in DOMAIN wire' /\ wire'[i] = wire[i]
        /\ Len(wire) + 1 \in DOMAIN wire' /\ wire'[Len(wire) + 1] = e
    BY <1>2, <2>1, <2>3, SentAfter
  <2>5. \A x, j : Coming(x, j) \subseteq Coming(x, j)'
    BY <1>1, <2>4, ComingStays
  <2>6. ops' \in 0..MaxOps
    BY <1>1, <1>2, WorkspaceAssumption DEF SocketKept, Spend
  <2>7. SocketKept'
    BY <1>1, <1>2, <1>3, <2>4, <2>6 DEF SocketKept, ToldOf
  <2> QED
    BY <2>2, <2>4, <2>5, <2>7
<1>4. CASE ~ ToldOf(w, p)
  BY <1>1, <1>2, <1>4, SameSocket, ComingStays
<1> QED
  BY <1>3, <1>4

LEMMA ChangeQueries ==
  ASSUME SyncInv, NEW w, NEW p, NEW c, NEW m, Changing(w, p, c, m)
  PROVE  /\ cache' \in [Workspaces -> [Keys -> Query(Held, {"rows"} \X Held)]]
         /\ \A x \in Workspaces, j \in Keys :
               Kept(cache'[x][j], held'[x][j], Ahead(x, j), Coming(x, j)')
<1> DEFINE Unaware(k, q) ==
              IF ToldOf(w, p) \/ q.data = None THEN q
              ELSE IF conn = "new" /\ w = current THEN Doubted(q, "early")
              ELSE IF k \in Recovered THEN q ELSE Unrecovered(q)
           row == [k \in Keys |-> IF k \in ChangedKeys(p, m)
                                  THEN Unaware(k, Touch(cache[w][k])) ELSE cache[w][k]]
<1>1. /\ cache' = [cache EXCEPT ![w] = row]
      /\ w \in Workspaces /\ c \in Changes /\ p \in DOMAIN Altered
      /\ (m = "savePrefix" => p = "workspace")
      /\ UNCHANGED <<conn, current, adopted, timers>>
  BY DEF Changing, ChangeWorkspace, ToldOf, ChangedKeys
<1>2. \A x \in Workspaces, j \in Keys :
         cache'[x][j] = IF x = w /\ j \in ChangedKeys(p, m)
                        THEN Unaware(j, Touch(cache[w][j])) ELSE cache[x][j]
  BY <1>1, TypeParts
<1>3. cache' = [x \in Workspaces |-> [j \in Keys |-> cache'[x][j]]]
  BY <1>1, TypeParts
<1> HIDE DEF row, Unaware
<1>4. ASSUME NEW x \in Workspaces, NEW j \in Keys
      PROVE  /\ cache'[x][j] \in KeyQuery
             /\ Kept(cache'[x][j], held'[x][j], Ahead(x, j), Coming(x, j)')
  <2>1. /\ cache[x][j] \in KeyQuery /\ held[x][j] \in Held
        /\ Kept(cache[x][j], held[x][j], Ahead(x, j), Coming(x, j))
        /\ Coming(x, j) \subseteq Coming(x, j)'
    BY TypeParts, ChangeWire DEF SyncInv
  <2>2. held'[x][j] = IF x = w /\ j \in ChangedKeys(p, m)
                      THEN held[x][j] \cup {c} ELSE held[x][j]
    BY ChangeHeld
  <2>3. CASE ~ (x = w /\ j \in ChangedKeys(p, m))
    BY <1>2, <2>1, <2>2, <2>3, KeptMore
  <2>4. CASE x = w /\ j \in ChangedKeys(p, m)
    <3> DEFINE q == Touch(cache[x][j])
               d == held[x][j] \cup {c}
    <3>1. q \in KeyQuery /\ Kept(q, d, Ahead(x, j), Coming(x, j) \cup {c})
          /\ held'[x][j] = d /\ cache'[x][j] = Unaware(j, q)
      BY <1>2, <2>1, <2>2, <2>4, TouchKeeps
    <3> HIDE DEF q, d
    <3>2. j \in Altered[p] /\ (p = "workspace" => m = "savePrefix")
      BY <2>4 DEF ChangedKeys
    <3>3. CASE ToldOf(w, p)
      <4>1. PICK i \in DOMAIN wire' : wire'[i].type = p /\ wire'[i].change = c
                                      /\ wire'[i].prefix = prefix'[w]
        BY <3>3, ChangeWire
      <4>2. p = "workspace" => j = "issues" /\ c \in prefix'[w]
        <5>1. p = "workspace" => Altered[p] = {"issues"}
          BY EventTables
        <5>2. \A y \in Workspaces :
                 prefix'[y] = IF y = w /\ m = "savePrefix" THEN prefix[y] \cup {c}
                              ELSE prefix[y]
          BY ChangePrefix
        <5>3. p = "workspace" => prefix'[w] = prefix[w] \cup {c}
          BY <1>1, <3>2, <5>2
        <5> QED
          BY <3>2, <5>1, <5>3
      <4>3. p # "workspace" => j \in Refreshed[p]
        BY <3>2, <3>3, EventTables DEF ToldOf
      <4>4. c \in Coming(x, j)'
        BY <1>1, <2>4, <3>3, <4>1, <4>2, <4>3 DEF Coming, ToldOf
      <4>5. cache'[x][j] = q
        BY <3>1, <3>3 DEF Unaware
      <4> QED
        BY <2>1, <3>1, <4>4, <4>5, KeptMore
    <3>4. CASE q.data = None
      <4>1. cache'[x][j] = q
        BY <3>1, <3>4 DEF Unaware
      <4> QED
        BY <3>1, <3>4, <4>1 DEF Kept
    <3>5. CASE ~ ToldOf(w, p) /\ q.data # None /\ conn = "new" /\ w = current
      BY <3>1, <3>5, DoubtedKeeps DEF Unaware, Doubts
    <3>6. CASE /\ ~ ToldOf(w, p) /\ q.data # None /\ ~ (conn = "new" /\ w = current)
               /\ j \in Recovered
      <4>1. cache'[x][j] = q
        BY <3>1, <3>6 DEF Unaware
      <4>2. p \in DOMAIN Refreshed
        BY <1>1, <3>2, <3>6, EventTables
      <4>3. w # current \/ conn = "down"
        BY <3>6, <4>2 DEF ToldOf, SyncInv, SocketKept
      <4>4. c \in Coming(x, j)'
        BY <1>1, <2>4, <3>6, <4>3 DEF Coming, Recovering
      <4> QED
        BY <2>1, <3>1, <4>1, <4>4, KeptMore
    <3>7. CASE /\ ~ ToldOf(w, p) /\ q.data # None /\ ~ (conn = "new" /\ w = current)
               /\ j \notin Recovered
      BY <3>1, <3>7, DoubtedKeeps DEF Unaware, Unrecovered, Doubts
    <3> QED
      BY <3>3, <3>4, <3>5, <3>6, <3>7
  <2> QED
    BY <2>3, <2>4
<1> QED
  BY <1>3, <1>4, CacheTyped

LEMMA ChangeDirectory ==
  ASSUME SyncInv, NEW w, NEW p, NEW c, NEW m, Changing(w, p, c, m)
  PROVE  directory' \in DirQuery /\ DirectoryKept'
<1>1. /\ w \in Workspaces /\ c \in Changes
      /\ (m = "savePrefix" => p = "workspace")
      /\ UNCHANGED <<conn, current, adopted, timers>>
      /\ directory' =
               IF m # "savePrefix" THEN directory
               ELSE IF conn = "new" /\ w = current
               THEN Doubted(Touch(directory), "early")
               ELSE IF w # current THEN Unrecovered(Touch(directory))
               ELSE Touch(directory)
  BY DEF Changing, ChangeWorkspace
<1>2. /\ directory \in DirQuery /\ DirectoryKept /\ prefix \in Directory
      /\ prefix' \in Directory
      /\ \A x \in Workspaces : prefix'[x] = IF x = w /\ m = "savePrefix" THEN prefix[x] \cup {c}
                                            ELSE prefix[x]
  <2>1. \A x \in Workspaces :
           prefix'[x] = IF x = w /\ m = "savePrefix" THEN prefix[x] \cup {c} ELSE prefix[x]
    BY ChangePrefix
  <2>2. prefix' \in Directory
    BY ChangeTyped
  <2> QED
    BY <2>1, <2>2, TypeParts DEF SyncInv
<1>3. \A i \in DOMAIN wire : i \in DOMAIN wire' /\ wire'[i] = wire[i]
  <2>1. ToldOf(w, p) \/ wire' = wire
    BY DEF Changing, ChangeWorkspace, ToldOf
  <2>2. ASSUME ToldOf(w, p) PROVE \E e \in WorkspaceEvent : wire' = Append(wire, e)
    <3>1. wire' = Append(wire, [type |-> p, change |-> c, prefix |-> prefix'[w]])
      BY <2>2 DEF Changing, ChangeWorkspace, ToldOf
    <3>2. prefix'[w] \in Held
      BY <1>1, <1>2 DEF Directory
    <3> QED
      BY <1>1, <2>2, <3>1, <3>2 DEF WorkspaceEvent, ToldOf
  <2>3. wire \in Seq(WorkspaceEvent)
    BY DEF SyncInv, SocketKept
  <2> QED
    BY <2>1, <2>2, <2>3, SentAfter
<1>4. CASE m # "savePrefix"
  <2>1. prefix' = prefix /\ directory' = directory
    BY <1>1, <1>4 DEF Changing, ChangeWorkspace
  <2> QED
    BY <1>1, <1>2, <1>3, <2>1 DEF DirectoryKept, Fetched
<1>5. CASE m = "savePrefix"
  <2> DEFINE t == Touch(directory)
  <2>1. /\ t \in DirQuery /\ t.data = directory.data /\ t.mounted = directory.mounted
        /\ t.stale = directory.stale /\ t.owed = directory.owed /\ t.doubt = directory.doubt
        /\ t.fetch = None <=> directory.fetch = None
        /\ directory.fetch # None => /\ t.fetch.answers = directory.fetch.answers
                                     /\ t.fetch.clean => directory.fetch.answers = {}
    BY <1>2, TouchDirectory
  <2>2. directory' \in {t, Doubted(t, "early"), Doubted(t, "missed")}
    BY <1>1, <1>5 DEF Unrecovered
  <2> HIDE DEF t
  <2>3. t.data # None
    BY <1>2, <2>1 DEF DirectoryKept
  <2>4. /\ directory' \in DirQuery /\ directory'.data = directory.data
        /\ directory'.mounted = directory.mounted
        /\ directory'.stale = directory.stale /\ directory'.owed = directory.owed
        /\ directory'.fetch = None <=> directory.fetch = None
        /\ directory.fetch # None =>
              /\ directory'.fetch.answers = directory.fetch.answers
              /\ directory'.fetch.clean => directory.fetch.answers = {}
        /\ directory' # t => directory'.doubt # {}
    BY <2>1, <2>2, <2>3, DoubtDirectory DEF Doubts
  <2>5. directory'.doubt = {} => directory.doubt = {} /\ w = current /\ conn # "new"
    <3> SUFFICES ASSUME directory'.doubt = {}
                 PROVE  directory.doubt = {} /\ w = current /\ conn # "new"
      OBVIOUS
    <3>1. directory' = t
      BY <2>4
    <3>2. Doubted(t, "early").doubt # {} /\ Doubted(t, "missed").doubt # {}
      BY <2>1, <2>3, DoubtDirectory DEF Doubts
    <3>3. /\ conn = "new" /\ w = current => directory' = Doubted(t, "early")
          /\ w # current => directory' = Doubted(t, "missed")
      BY <1>1, <1>5 DEF t, Unrecovered
    <3> QED
      BY <2>1, <3>1, <3>2, <3>3
  <2>6. w = current /\ conn = "up" =>
           \E i \in DOMAIN wire' : wire'[i].type = "workspace"
    <3> SUFFICES ASSUME w = current /\ conn = "up"
                 PROVE  \E i \in DOMAIN wire' : wire'[i].type = "workspace"
      OBVIOUS
    <3>1. p = "workspace" /\ ToldOf(w, p)
      BY <1>1, <1>5, EventTables DEF ToldOf
    <3> QED
      BY <3>1, ChangeWire
  <2>7. conn \in {"up", "down", "new"}
    BY DEF SyncInv, SocketKept
  <2>8. Fetched(directory)'
    BY <1>2, <2>4 DEF DirectoryKept, Fetched
  <2>9. directory'.fetch # None => \A a \in directory'.fetch.answers :
          /\ \A x \in Workspaces : a[2][x] \subseteq prefix'[x]
          /\ directory'.fetch.clean => a[2] = prefix'
    BY <1>2, <2>4 DEF DirectoryKept
  <2>10. \A x \in Workspaces : directory'.data[x] \subseteq prefix'[x]
    BY <1>2, <2>4 DEF DirectoryKept
  <2>11. directory'.doubt = {} => \/ conn' = "down"
                                  \/ \E i \in DOMAIN wire' : wire'[i].type = "workspace"
    BY <1>1, <2>5, <2>6, <2>7
  <2> QED
    BY <1>2, <2>4, <2>8, <2>9, <2>10, <2>11 DEF DirectoryKept
<1> QED
  BY <1>1, <1>4, <1>5

\* What the server held it still holds, so a mutation stays what it was.
LEMMA ElsewhereKeeps ==
  ASSUME SyncInv, NEW w \in Workspaces, NEW p \in Prefixes, WorkspaceChangesElsewhere(w, p)
  PROVE  SyncInv'
<1> DEFINE m == IF p = "workspace" THEN "savePrefix" ELSE "saveName"
<1>1. Changing(w, p, ops', m)
  <2>1. ops' \in Changes
    BY WorkspaceAssumption DEF WorkspaceChangesElsewhere, Spend, Changes, SyncInv, SocketKept
  <2>2. p \in DOMAIN Altered
    BY WorkspaceAssumption
  <2>3. /\ ChangeWorkspace(w, p, ops', p = "workspace") /\ Spend
        /\ UNCHANGED <<conn, current, adopted, view, timers>>
    BY DEF WorkspaceChangesElsewhere
  <2>4. (p = "workspace") <=> (m = "savePrefix")
    OBVIOUS
  <2>5. ChangeWorkspace(w, p, ops', m = "savePrefix")
    BY <2>3, <2>4
  <2> HIDE DEF m
  <2> QED
    BY <2>1, <2>2, <2>3, <2>4, <2>5 DEF Changing
<1>2. /\ UNCHANGED <<current, adopted, view, timers, mutation>>
  BY DEF WorkspaceChangesElsewhere
<1> HIDE DEF m
<1>3. WorkspaceTypeOK'
  BY <1>1, <1>2, ChangeTyped, ChangeQueries, ChangeDirectory
     DEF SyncInv, WorkspaceTypeOK, DirQuery
<1>4. SocketKept' /\ DirectoryKept'
  BY <1>1, ChangeWire, ChangeDirectory
<1>5. KeysKept'
  BY <1>1, <1>2, ChangeQueries, SameAhead DEF KeysKept
<1>6. MutationKept'
  <2>1. \A x \in Workspaces, j \in Keys : held[x][j] \subseteq held'[x][j]
    <3>1. \A x \in Workspaces, j \in Keys :
               held'[x][j] = IF x = w /\ j \in ChangedKeys(p, m)
                             THEN held[x][j] \cup {ops'} ELSE held[x][j]
      BY <1>1, ChangeHeld
    <3> QED
      BY <3>1
  <2>2. \A x \in Workspaces : prefix[x] \subseteq prefix'[x]
    <3>1. \A x \in Workspaces :
               prefix'[x] = IF x = w /\ m = "savePrefix" THEN prefix[x] \cup {ops'}
                            ELSE prefix[x]
      BY <1>1, ChangePrefix
    <3> QED
      BY <3>1
  <2>3. mutation # None => mutation.of \in Workspaces
    BY TypeParts DEF Mutation
  <2> QED
    BY <1>2, <2>1, <2>2, <2>3 DEF SyncInv, MutationKept
<1> QED
  BY <1>3, <1>4, <1>5, <1>6, Assemble

\* The server takes the user's change.
LEMMA CommitKeeps == SyncInv /\ CommitMutation => SyncInv'
<1> SUFFICES ASSUME SyncInv, CommitMutation PROVE SyncInv'
  OBVIOUS
<1> DEFINE m == mutation.kind
           w == mutation.of
           key == Mutations[m].key
           p == Announced[key]
           c == mutation.change
<1>1. /\ mutation \in Mutation /\ MutationKept /\ mutation # None
      /\ m \in MutationKinds /\ w \in Workspaces /\ c \in Changes
  BY TypeParts DEF CommitMutation, Mutation, SyncInv
<1>2. IF OfSettings(m) THEN key = "workspace" ELSE Described(m, Mutations[m]) /\ m # "savePrefix"
  BY <1>1, MutationTables
<1>3. /\ p \in DOMAIN Altered /\ (m = "savePrefix" => p = "workspace")
      /\ ~ OfSettings(m) => p # "workspace" /\ key \in Altered[p]
  <2>1. CASE OfSettings(m)
    BY <1>2, <2>1, AnnouncedTables, EventTables
  <2>2. CASE ~ OfSettings(m)
    <3>1. key \in {"labels", "pins", "projects", "autopilots", "inbox", "runtimes",
                   "preferences"} /\ m # "savePrefix"
      BY <1>2, <2>2 DEF Described
    <3> HIDE DEF key
    <3> QED
      BY <2>2, <3>1, AnnouncedTables
  <2> QED
    BY <2>1, <2>2
<1>4. /\ ChangeWorkspace(w, p, c, m = "savePrefix")
      /\ mutation' = [mutation EXCEPT !.sent = FALSE, !.answer = prefix'[w]]
      /\ UNCHANGED <<conn, ops, current, adopted, view, timers>>
  BY DEF CommitMutation
<1> HIDE DEF m, w, p, c
<1>5. Changing(w, p, c, m)
  BY <1>1, <1>3, <1>4 DEF Changing
<1>6. \A x \in Workspaces, j \in Keys :
            held'[x][j] = IF x = w /\ j \in ChangedKeys(p, m) THEN held[x][j] \cup {c}
                          ELSE held[x][j]
  BY <1>5, ChangeHeld
<1>7. held' \in [Workspaces -> [Keys -> Held]] /\ prefix' \in Directory
  BY <1>5, ChangeTyped
<1>8. /\ mutation' \in Mutation /\ mutation' # None
      /\ mutation'.kind = mutation.kind /\ mutation'.of = mutation.of
      /\ mutation'.change = mutation.change /\ mutation'.prev = mutation.prev
      /\ mutation'.answer = prefix'[w]
  <2>1. prefix'[w] \in Held
    BY <1>1, <1>7 DEF Directory
  <2>2. mutation' \in Mutation
    BY <1>1, <1>4, <2>1 DEF Mutation
  <2> QED
    BY <1>1, <1>4, <2>2, NoneApart DEF Mutation
<1>9. \A x, j : Ahead(x, j)' = Ahead(x, j)
  BY <1>1, <1>8 DEF Ahead
<1>10. WorkspaceTypeOK'
  <2>1. /\ cache' \in [Workspaces -> [Keys -> Query(Held, {"rows"} \X Held)]]
        /\ directory' \in DirQuery
    BY <1>5, ChangeQueries, ChangeDirectory
  <2> QED
    BY <1>4, <1>7, <1>8, <2>1 DEF SyncInv, WorkspaceTypeOK, DirQuery
<1>11. SocketKept' /\ DirectoryKept'
  BY <1>5, ChangeWire, ChangeDirectory
<1>12. KeysKept'
  <2>1. \A x \in Workspaces, j \in Keys :
               Kept(cache'[x][j], held'[x][j], Ahead(x, j), Coming(x, j)')
    BY <1>5, ChangeQueries
  <2> QED
    BY <1>9, <2>1 DEF KeysKept
<1>13. MutationKept'
  <2>1. /\ mutation.kind \in UserMutations
        /\ mutation.prev # None <=> Mutations[m].writes = "before"
        /\ key \in Keys /\ ~ OfSettings(m) /\ mutation.prev # None =>
              mutation.prev \subseteq held[w][key]
    BY <1>1 DEF MutationKept, m, w
  <2>2. key \in Keys /\ ~ OfSettings(m) => held'[w][key] = held[w][key] \cup {c}
    BY <1>1, <1>3, <1>6 DEF ChangedKeys
  <2> QED
    BY <1>8, <2>1, <2>2 DEF MutationKept, m, w, c
<1> QED
  BY <1>10, <1>11, <1>12, <1>13, Assemble

-----------------------------------------------------------------------------
(***************************************************************************)
(* The connection, the workspaces and the timers.                          *)
(***************************************************************************)
\* A step that changes neither what the server holds nor the mutation.
LEMMA CacheStep ==
  ASSUME SyncInv,
         cache' = [w \in Workspaces |-> [k \in Keys |-> cache'[w][k]]],
         \A w \in Workspaces, k \in Keys :
            /\ cache'[w][k] \in KeyQuery
            /\ Kept(cache'[w][k], held[w][k], Ahead(w, k), Coming(w, k)'),
         UNCHANGED <<held, prefix, mutation>>,
         SocketKept', DirectoryKept', directory' \in DirQuery,
         current' \in Workspaces, adopted' \in BOOLEAN, view' \in Views,
         timers' \subseteq DOMAIN Refreshed
  PROVE  SyncInv'
<1>1. WorkspaceTypeOK'
  BY CacheTyped DEF SyncInv, WorkspaceTypeOK, DirQuery
<1>2. MutationKept'
  BY SameMutation DEF SyncInv
<1>3. KeysKept'
  BY SameAhead DEF KeysKept
<1> QED
  BY <1>1, <1>2, <1>3, Assemble

\* The list of workspaces is fetched again.
LEMMA DirectoryFetched ==
  ASSUME SyncInv, directory' = Invalidate(directory), UNCHANGED prefix
  PROVE  directory' \in DirQuery /\ DirectoryKept'
<1>1. directory \in DirQuery /\ DirectoryKept
  BY TypeParts DEF SyncInv
<1>2. /\ Fetching \in Fetches({"rows"} \X Directory) /\ Fetching # None
      /\ Fetching.answers = {}
  BY NoneApart DEF Fetching, Fetches
<1>3. directory.data # None /\ directory.mounted
  BY <1>1 DEF DirectoryKept
<1>4. directory' = [directory EXCEPT !.stale = TRUE, !.owed = TRUE, !.fetch = Fetching]
  BY <1>1, <1>3, DirectoryFields DEF Invalidate, Flag, DirQuery, Query
<1>5. directory' \in DirQuery
  BY <1>1, <1>2, <1>4 DEF DirQuery, Query
<1>6. /\ directory'.data = directory.data /\ directory'.mounted /\ directory'.fetch = Fetching
      /\ directory'.stale = TRUE /\ directory'.owed = TRUE
  BY <1>1, <1>3, <1>4 DEF DirQuery, Query
<1>7. DirectoryKept'
  BY <1>1, <1>2, <1>3, <1>6 DEF DirectoryKept, Fetched
<1> QED
  BY <1>5, <1>7

LEMMA ComingWhole ==
  /\ \A w, k : Coming(w, k) \subseteq Changes
  /\ \A w, k : k \in Recovered /\ Recovering(w) => Coming(w, k) = Changes
  /\ \A w, k : k \notin Recovered /\ w # current => Coming(w, k) = {}
BY DEF Coming

LEMMA ComingWholeNext ==
  /\ \A w, k : k \in Recovered /\ Recovering(w)' => Coming(w, k)' = Changes
BY DEF Coming

LEMMA SwitchKeeps ==
  ASSUME SyncInv, NEW w \in Workspaces, SwitchWorkspace(w)
  PROVE  SyncInv'
<1>1. /\ w # current /\ Spend /\ current' = w /\ adopted' = FALSE /\ conn' = "new"
      /\ wire' = <<>> /\ UNCHANGED <<held, prefix, directory, view, timers, mutation>>
  BY DEF SwitchWorkspace
<1> DEFINE q(x, j) == IF x = current /\ j \notin Recovered THEN Unrecovered(cache[x][j])
                      ELSE cache[x][j]
           c == At(cache, current, Keys \ Recovered, Unrecovered)
<1>2. \A x \in Workspaces, j \in Keys : c[x][j] = q(x, j)
  BY TypeParts DEF At
<1>3. cache' = Reading(c, w, view)
  BY DEF SwitchWorkspace
<1> HIDE DEF q, c
<1>4. \A x \in Workspaces, j \in Keys : cache'[x][j] \in {Mount(q(x, j)), Unmount(q(x, j))}
  BY <1>2, <1>3 DEF Reading
<1>5. cache' = [x \in Workspaces |-> [j \in Keys |-> cache'[x][j]]]
  BY <1>3 DEF Reading
<1>6. ASSUME NEW x \in Workspaces, NEW j \in Keys
      PROVE  /\ cache'[x][j] \in KeyQuery
             /\ Kept(cache'[x][j], held[x][j], Ahead(x, j), Coming(x, j)')
  <2>1. /\ cache[x][j] \in KeyQuery
        /\ Kept(cache[x][j], held[x][j], Ahead(x, j), Coming(x, j))
    BY TypeParts DEF SyncInv
  <2>2. Recovering(x)'
    BY <1>1 DEF Recovering
  <2>3. q(x, j) \in KeyQuery /\ Kept(q(x, j), held[x][j], Ahead(x, j), Coming(x, j)')
    <3>1. CASE x = current /\ j \notin Recovered
      BY <2>1, <3>1, DoubtedKeeps DEF q, Unrecovered, Doubts
    <3>2. CASE x # current /\ j \notin Recovered
      <4>1. Coming(x, j) \subseteq Coming(x, j)'
        BY <3>2, ComingWhole
      <4> QED
        BY <2>1, <3>2, <4>1, KeptMore DEF q
    <3>3. CASE j \in Recovered
      <4>1. Coming(x, j) \subseteq Coming(x, j)'
        BY <2>2, <3>3, ComingWhole, ComingWholeNext
      <4> QED
        BY <2>1, <3>3, <4>1, KeptMore DEF q
    <3> QED
      BY <3>1, <3>2, <3>3
  <2> QED
    BY <1>4, <2>3, MountKeeps
<1>7. SocketKept'
  BY <1>1, WorkspaceAssumption DEF SyncInv, SocketKept, Spend
<1>8. DirectoryKept'
  BY <1>1 DEF SyncInv, DirectoryKept, Fetched
<1> QED
  BY <1>1, <1>5, <1>6, <1>7, <1>8, CacheStep, TypeParts

\* Invalidation of the recovered keys, where nothing else is left to come.
LEMMA RecoveryStep ==
  ASSUME SyncInv, InvalidateWorkspace, UNCHANGED <<held, prefix, current, view, mutation>>,
         SocketKept', adopted' \in BOOLEAN, timers' \subseteq DOMAIN Refreshed,
         \A w \in Workspaces, k \in Keys :
            w # current \/ k \notin Recovered => Coming(w, k) \subseteq Coming(w, k)'
  PROVE  SyncInv'
<1>1. \A x \in Workspaces, j \in Keys :
         cache'[x][j] = IF x = current /\ j \in Recovered THEN Invalidate(cache[x][j])
                        ELSE cache[x][j]
  BY TypeParts DEF InvalidateWorkspace, At
<1>2. cache' = [x \in Workspaces |-> [j \in Keys |-> cache'[x][j]]]
  BY TypeParts DEF InvalidateWorkspace, At
<1>3. ASSUME NEW x \in Workspaces, NEW j \in Keys
      PROVE  /\ cache'[x][j] \in KeyQuery
             /\ Kept(cache'[x][j], held[x][j], Ahead(x, j), Coming(x, j)')
  <2>1. /\ cache[x][j] \in KeyQuery
        /\ Kept(cache[x][j], held[x][j], Ahead(x, j), Coming(x, j))
    BY TypeParts DEF SyncInv
  <2>2. CASE x = current /\ j \in Recovered
    BY <1>1, <2>1, <2>2, InvalidateKeeps
  <2>3. CASE ~ (x = current /\ j \in Recovered)
    <3>1. Coming(x, j) \subseteq Coming(x, j)'
      BY <2>3
    <3> QED
      BY <1>1, <2>1, <2>3, <3>1, KeptMore
  <2> QED
    BY <2>2, <2>3
<1>4. directory' \in DirQuery /\ DirectoryKept'
  BY DirectoryFetched DEF InvalidateWorkspace
<1> QED
  BY <1>2, <1>3, <1>4, CacheStep, TypeParts

LEMMA AdoptKeeps == SyncInv /\ AdoptClient => SyncInv'
<1> SUFFICES ASSUME SyncInv, AdoptClient PROVE SyncInv'
  OBVIOUS
<1>1. /\ ~ adopted /\ adopted' = TRUE /\ timers' = {} /\ InvalidateWorkspace
      /\ UNCHANGED <<conn, wire, ops, held, prefix, current, view, mutation>>
  BY DEF AdoptClient, socketVars
<1>2. conn = "new" /\ wire = <<>> /\ SocketKept
  BY <1>1 DEF SyncInv, SocketKept
<1>3. SocketKept'
  BY <1>1, <1>2 DEF SocketKept
<1>4. \A w \in Workspaces, k \in Keys :
         w # current \/ k \notin Recovered => Coming(w, k) \subseteq Coming(w, k)'
  <2>1. DOMAIN wire = {}
    BY <1>2
  <2> QED
    BY <1>1, <2>1 DEF Coming, Recovering
<1> QED
  BY <1>1, <1>3, <1>4, RecoveryStep

LEMMA RefetchKeeps == SyncInv /\ RefetchWorkspace => SyncInv'
<1> SUFFICES ASSUME SyncInv, RefetchWorkspace PROVE SyncInv'
  OBVIOUS
<1>1. /\ conn = "down" /\ conn' = "up" /\ InvalidateWorkspace
      /\ UNCHANGED <<wire, ops, held, prefix, current, adopted, view, timers, mutation>>
  BY DEF RefetchWorkspace, Authenticated
<1>2. SocketKept'
  BY <1>1 DEF SyncInv, SocketKept
<1>3. \A w \in Workspaces, k \in Keys :
         w # current \/ k \notin Recovered => Coming(w, k) \subseteq Coming(w, k)'
  BY <1>1 DEF Coming, Recovering
<1> QED
  BY <1>1, <1>2, <1>3, RecoveryStep, TypeParts

LEMMA FirstAuthenticatedKeeps == SyncInv /\ FirstAuthenticated => SyncInv'
<1> SUFFICES ASSUME SyncInv, FirstAuthenticated PROVE SyncInv'
  OBVIOUS
<1>1. /\ conn = "new" /\ adopted /\ conn' = "up"
      /\ UNCHANGED <<wire, ops, held, prefix, cache, directory, current, adopted, view,
                     timers, mutation>>
  BY DEF FirstAuthenticated, workspaceVars
<1>2. SocketKept'
  BY <1>1 DEF SyncInv, SocketKept
<1>3. DirectoryKept'
  BY <1>1 DEF SyncInv, DirectoryKept, Fetched
<1>4. \A w, k : Coming(w, k)' = Coming(w, k)
  BY <1>1 DEF Coming, Recovering
<1>5. \A w \in Workspaces, k \in Keys :
            /\ cache'[w][k] \in KeyQuery
            /\ Kept(cache'[w][k], held[w][k], Ahead(w, k), Coming(w, k)')
  BY <1>1, <1>4, TypeParts DEF SyncInv
<1> QED
  BY <1>1, <1>2, <1>3, <1>5, CacheStep, TypeParts

LEMMA DisconnectKeeps == SyncInv /\ DisconnectWorkspace => SyncInv'
<1> SUFFICES ASSUME SyncInv, DisconnectWorkspace PROVE SyncInv'
  OBVIOUS
<1>1. /\ conn = "up" /\ Spend /\ conn' = "down" /\ wire' = <<>>
      /\ UNCHANGED <<held, prefix, directory, current, adopted, view, timers, mutation>>
  BY DEF DisconnectWorkspace, Disconnect
<1>2. \A x \in Workspaces, j \in Keys :
         cache'[x][j] = IF x = current /\ j \notin Recovered THEN Unrecovered(cache[x][j])
                        ELSE cache[x][j]
  BY TypeParts DEF DisconnectWorkspace, At
<1>3. cache' = [x \in Workspaces |-> [j \in Keys |-> cache'[x][j]]]
  BY TypeParts DEF DisconnectWorkspace, At
<1>4. ASSUME NEW x \in Workspaces, NEW j \in Keys
      PROVE  /\ cache'[x][j] \in KeyQuery
             /\ Kept(cache'[x][j], held[x][j], Ahead(x, j), Coming(x, j)')
  <2>1. /\ cache[x][j] \in KeyQuery
        /\ Kept(cache[x][j], held[x][j], Ahead(x, j), Coming(x, j))
    BY TypeParts DEF SyncInv
  <2>2. CASE x = current /\ j \notin Recovered
    BY <1>2, <2>1, <2>2, DoubtedKeeps DEF Unrecovered, Doubts
  <2>3. CASE x # current /\ j \notin Recovered
    <3>1. Coming(x, j) \subseteq Coming(x, j)'
      BY <2>3, ComingWhole
    <3> QED
      BY <1>2, <2>1, <2>3, <3>1, KeptMore
  <2>4. CASE j \in Recovered
    <3>1. Recovering(x)'
      BY <1>1 DEF Recovering
    <3>2. Coming(x, j) \subseteq Coming(x, j)'
      BY <2>4, <3>1, ComingWhole, ComingWholeNext
    <3> QED
      BY <1>2, <2>1, <2>4, <3>2, KeptMore
  <2> QED
    BY <2>2, <2>3, <2>4
<1>5. SocketKept'
  BY <1>1, WorkspaceAssumption DEF SyncInv, SocketKept, Spend
<1>6. DirectoryKept'
  BY <1>1 DEF SyncInv, DirectoryKept, Fetched
<1> QED
  BY <1>1, <1>3, <1>4, <1>5, <1>6, CacheStep, TypeParts

\* An event that is handled leaves its timer, or makes the issues stale.
LEMMA TailOf ==
  ASSUME NEW s \in Seq(WorkspaceEvent), s # <<>>
  PROVE  /\ Tail(s) \in Seq(WorkspaceEvent) /\ Head(s) = s[1] /\ Head(s) \in WorkspaceEvent
         /\ \A i \in DOMAIN s : i # 1 =>
               \E j \in DOMAIN Tail(s) : Tail(s)[j] = s[i]
<1>1. Tail(s) \in Seq(WorkspaceEvent) /\ Head(s) = s[1] /\ Head(s) \in WorkspaceEvent
  OBVIOUS
<1>2. ASSUME NEW i \in DOMAIN s, i # 1
      PROVE  \E j \in DOMAIN Tail(s) : Tail(s)[j] = s[i]
  <2>1. i \in 1..Len(s) /\ Len(s) \in Nat
    OBVIOUS
  <2>2. i - 1 \in 1..(Len(s) - 1) /\ Len(Tail(s)) = Len(s) - 1
    BY <1>2, <2>1
  <2>3. i - 1 \in DOMAIN Tail(s) /\ Tail(s)[i - 1] = s[(i - 1) + 1]
    BY <2>1, <2>2
  <2>4. (i - 1) + 1 = i
    BY <2>1
  <2> QED
    BY <2>3, <2>4
<1> QED
  BY <1>1, <1>2

LEMMA ReceiveKeeps == SyncInv /\ ReceiveWorkspaceEvent => SyncInv'
<1> SUFFICES ASSUME SyncInv, ReceiveWorkspaceEvent PROVE SyncInv'
  OBVIOUS
<1> DEFINE f == Head(wire)
<1>1. /\ wire # <<>> /\ wire' = Tail(wire)
      /\ UNCHANGED <<conn, ops, held, prefix, current, adopted, view, mutation>>
      /\ IF f.type = "workspace" THEN OnWorkspaceUpdated(f) ELSE StartTimer(f)
  BY DEF ReceiveWorkspaceEvent, Deliver
<1>2. SocketKept /\ wire \in Seq(WorkspaceEvent)
  BY DEF SyncInv, SocketKept
<1>3. /\ Tail(wire) \in Seq(WorkspaceEvent) /\ f = wire[1] /\ f \in WorkspaceEvent
      /\ \A i \in DOMAIN wire : i # 1 => \E j \in DOMAIN wire' : wire'[j] = wire[i]
  BY <1>1, <1>2, TailOf
<1> HIDE DEF f
<1>4. conn = "up" /\ adopted
  BY <1>1, <1>2 DEF SyncInv, SocketKept
<1>5. SocketKept'
  BY <1>1, <1>2, <1>3, <1>4 DEF SocketKept
<1>6. f.type \in DOMAIN Refreshed
  BY <1>3 DEF WorkspaceEvent
<1>7. CASE f.type # "workspace"
  <2>1. timers' = timers \cup {f.type} /\ UNCHANGED <<cache, directory>>
    BY <1>1, <1>7 DEF StartTimer
  <2>2. ASSUME NEW x \in Workspaces, NEW j \in Keys
        PROVE  Coming(x, j) \subseteq Coming(x, j)'
    <3> SUFFICES ASSUME NEW c \in Coming(x, j) PROVE c \in Coming(x, j)'
      OBVIOUS
    <3>1. c \in Changes
      BY DEF Coming
    <3>2. CASE j \in Recovered /\ Recovering(x)
      BY <1>1, <3>1, <3>2 DEF Coming, Recovering
    <3>3. CASE x = current /\ \E p \in timers : j \in Refreshed[p]
      BY <1>1, <1>4, <2>1, <3>1, <3>3 DEF Coming
    <3>4. CASE /\ x = current
               /\ \E i \in DOMAIN wire :
                     IF wire[i].type = "workspace"
                     THEN j = "issues" /\ c = wire[i].change /\ c \in wire[i].prefix
                     ELSE j \in Refreshed[wire[i].type]
      <4>1. PICK i \in DOMAIN wire :
                     IF wire[i].type = "workspace"
                     THEN j = "issues" /\ c = wire[i].change /\ c \in wire[i].prefix
                     ELSE j \in Refreshed[wire[i].type]
        BY <3>4
      <4>2. CASE i = 1
        BY <1>1, <1>3, <1>4, <1>7, <2>1, <3>1, <3>4, <4>1, <4>2 DEF Coming
      <4>3. CASE i # 1
        <5>1. PICK i2 \in DOMAIN wire' : wire'[i2] = wire[i]
          BY <1>3, <4>3
        <5> QED
          BY <1>1, <3>1, <3>4, <4>1, <5>1 DEF Coming
      <4> QED
        BY <4>2, <4>3
    <3> QED
      BY <3>2, <3>3, <3>4 DEF Coming
  <2>3. DirectoryKept'
    <3>1. (\E i \in DOMAIN wire : wire[i].type = "workspace") =>
             \E i \in DOMAIN wire' : wire'[i].type = "workspace"
      BY <1>3, <1>7
    <3> QED
      BY <1>1, <2>1, <3>1 DEF SyncInv, DirectoryKept, Fetched
  <2>4. \A x \in Workspaces, j \in Keys :
           /\ cache'[x][j] \in KeyQuery
           /\ Kept(cache'[x][j], held[x][j], Ahead(x, j), Coming(x, j)')
    <3> SUFFICES ASSUME NEW x \in Workspaces, NEW j \in Keys
                 PROVE  /\ cache'[x][j] \in KeyQuery
                        /\ Kept(cache'[x][j], held[x][j], Ahead(x, j), Coming(x, j)')
      OBVIOUS
    <3>1. cache[x][j] \in KeyQuery /\ Kept(cache[x][j], held[x][j], Ahead(x, j), Coming(x, j))
      BY TypeParts DEF SyncInv
    <3> QED
      BY <2>1, <2>2, <3>1, KeptMore
  <2>5. cache' = [w \in Workspaces |-> [k \in Keys |-> cache'[w][k]]]
    BY <2>1, TypeParts
  <2> QED
    BY <1>1, <1>5, <1>6, <2>1, <2>3, <2>4, <2>5, CacheStep, TypeParts
<1>8. CASE f.type = "workspace"
  <2> DEFINE known == directory.data # None /\ directory.data[current] = f.prefix
             Behind(q) == IF q.data # None /\ f.change \in f.prefix \ q.data
                          THEN Doubted(q, "raced") ELSE q
  <2>1. /\ cache' = At(cache, current, {"issues"},
                       LAMBDA q : IF known THEN Behind(q) ELSE Invalidate(q))
        /\ directory' = Invalidate(directory) /\ UNCHANGED timers
    BY <1>1, <1>8 DEF OnWorkspaceUpdated
  <2> HIDE DEF known
  <2>2. \A x \in Workspaces, j \in Keys :
           cache'[x][j] = IF x = current /\ j = "issues"
                          THEN IF known THEN Behind(cache[x][j]) ELSE Invalidate(cache[x][j])
                          ELSE cache[x][j]
    BY <2>1, TypeParts DEF At
  <2>3. cache' = [w \in Workspaces |-> [k \in Keys |-> cache'[w][k]]]
    BY <2>1, TypeParts DEF At
  <2>4. ASSUME NEW x \in Workspaces, NEW j \in Keys,
               NEW c \in Coming(x, j), c \notin Coming(x, j)'
        PROVE  x = current /\ j = "issues" /\ c = f.change /\ c \in f.prefix
    <3>1. c \in Changes
      BY DEF Coming
    <3>2. ~ (j \in Recovered /\ Recovering(x))
      BY <1>1, <2>4, <3>1 DEF Coming, Recovering
    <3>3. ~ (x = current /\ adopted /\ \E p \in timers : j \in Refreshed[p])
      BY <1>1, <2>1, <2>4, <3>1 DEF Coming
    <3>4. x = current
      BY <3>2, <3>3 DEF Coming
    <3>5. PICK i \in DOMAIN wire :
                     IF wire[i].type = "workspace"
                     THEN j = "issues" /\ c = wire[i].change /\ c \in wire[i].prefix
                     ELSE j \in Refreshed[wire[i].type]
      BY <3>2, <3>3 DEF Coming
    <3>6. CASE i = 1
      BY <1>3, <1>8, <3>4, <3>5, <3>6
    <3>7. CASE i # 1
      <4>1. PICK i2 \in DOMAIN wire' : wire'[i2] = wire[i]
        BY <1>3, <3>7
      <4> QED
        BY <1>1, <2>4, <3>1, <3>4, <3>5, <4>1 DEF Coming
    <3> QED
      BY <3>6, <3>7
  <2>5. ASSUME NEW x \in Workspaces, NEW j \in Keys
        PROVE  /\ cache'[x][j] \in KeyQuery
               /\ Kept(cache'[x][j], held[x][j], Ahead(x, j), Coming(x, j)')
    <3>1. /\ cache[x][j] \in KeyQuery
          /\ Kept(cache[x][j], held[x][j], Ahead(x, j), Coming(x, j))
      BY TypeParts DEF SyncInv
    <3>2. CASE ~ (x = current /\ j = "issues")
      <4>1. Coming(x, j) \subseteq Coming(x, j)'
        BY <2>4, <3>2
      <4> QED
        BY <2>2, <3>1, <3>2, <4>1, KeptMore
    <3>3. CASE x = current /\ j = "issues" /\ ~ known
      BY <2>2, <3>1, <3>3, InvalidateKeeps
    <3>4. CASE /\ x = current /\ j = "issues" /\ known
               /\ cache[x][j].data # None /\ f.change \in f.prefix \ cache[x][j].data
      BY <2>2, <3>1, <3>4, DoubtedKeeps DEF Doubts
    <3>5. CASE /\ x = current /\ j = "issues" /\ known
               /\ ~ (cache[x][j].data # None /\ f.change \in f.prefix \ cache[x][j].data)
      <4>1. cache'[x][j] = cache[x][j]
        BY <2>2, <3>5
      <4>2. cache[x][j].data # None =>
               Coming(x, j) \subseteq cache[x][j].data \cup Coming(x, j)'
        BY <2>4, <3>5
      <4> QED
        BY <3>1, <4>1, <4>2 DEF Kept
    <3> QED
      BY <3>2, <3>3, <3>4, <3>5
  <2>6. directory' \in DirQuery /\ DirectoryKept'
    BY <1>1, <2>1, DirectoryFetched
  <2> QED
    BY <1>1, <1>5, <2>1, <2>3, <2>5, <2>6, CacheStep, TypeParts
<1> QED
  BY <1>7, <1>8

LEMMA FireKeeps ==
  ASSUME SyncInv, NEW p \in DOMAIN Refreshed, FireTimer(p)
  PROVE  SyncInv'
<1>1. /\ p \in timers /\ timers' = timers \ {p}
      /\ UNCHANGED <<conn, wire, ops, held, prefix, directory, current, adopted, view, mutation>>
  BY DEF FireTimer, socketVars
<1>2. \A x \in Workspaces, j \in Keys :
         cache'[x][j] = IF x = current /\ j \in Refreshed[p] THEN Invalidate(cache[x][j])
                        ELSE cache[x][j]
  BY TypeParts DEF FireTimer, At
<1>3. cache' = [x \in Workspaces |-> [j \in Keys |-> cache'[x][j]]]
  BY TypeParts DEF FireTimer, At
<1>4. ASSUME NEW x \in Workspaces, NEW j \in Keys
      PROVE  /\ cache'[x][j] \in KeyQuery
             /\ Kept(cache'[x][j], held[x][j], Ahead(x, j), Coming(x, j)')
  <2>1. /\ cache[x][j] \in KeyQuery
        /\ Kept(cache[x][j], held[x][j], Ahead(x, j), Coming(x, j))
    BY TypeParts DEF SyncInv
  <2>2. CASE x = current /\ j \in Refreshed[p]
    BY <1>2, <2>1, <2>2, InvalidateKeeps
  <2>3. CASE ~ (x = current /\ j \in Refreshed[p])
    <3>1. Coming(x, j) \subseteq Coming(x, j)'
      BY <1>1, <2>3 DEF Coming, Recovering
    <3> QED
      BY <1>2, <2>1, <2>3, <3>1, KeptMore
  <2> QED
    BY <2>2, <2>3
<1>5. SocketKept'
  BY <1>1, SameSocket DEF SyncInv
<1>6. DirectoryKept'
  BY <1>1, SameDirectory DEF SyncInv
<1> QED
  BY <1>1, <1>3, <1>4, <1>5, <1>6, CacheStep, TypeParts

-----------------------------------------------------------------------------
(***************************************************************************)
(* The user's mutations.                                                   *)
(***************************************************************************)
LEMMA AheadIs ==
  /\ \A w, k : Ahead(w, k) # {} =>
        /\ mutation # None /\ mutation.prev # None /\ mutation.of = w
        /\ Mutations[mutation.kind].key = k /\ Ahead(w, k) = {mutation.change}
  /\ mutation = None => \A w, k : Ahead(w, k) = {}
BY DEF Ahead

LEMMA NoneAhead ==
  ASSUME mutation' = None
  PROVE  \A w, k : Ahead(w, k)' = {}
BY DEF Ahead

LEMMA MutateKeeps ==
  ASSUME SyncInv, NEW m \in UserMutations, Mutate(m)
  PROVE  SyncInv'
<1> DEFINE key == Mutations[m].key
           before == Mutations[m].writes = "before"
           Written(q) == Patch(Cancel(q), q.data \cup {ops'})
<1>1. /\ mutation = None /\ Spend
      /\ OfSettings(m) \/ (key \in view /\ cache[current][key].data # None)
      /\ cache' = IF before THEN At(cache, current, {key}, Written) ELSE cache
      /\ mutation' = [kind |-> m, of |-> current, change |-> ops', sent |-> TRUE,
                      prev |-> IF before THEN cache[current][key].data ELSE None,
                      answer |-> {}]
      /\ UNCHANGED <<conn, wire, held, prefix, directory, current, adopted, view, timers>>
  BY DEF Mutate
<1>2. m \in MutationKinds /\ ops' \in Changes /\ ops' \in 0..MaxOps
  BY <1>1, WorkspaceAssumption DEF Spend, SyncInv, SocketKept, Changes
<1>3. OfSettings(m) => ~ before
  BY <1>2, MutationTables
<1>4. /\ \A x \in Workspaces, j \in Keys :
            cache'[x][j] = IF before /\ x = current /\ j = key THEN Written(cache[x][j])
                           ELSE cache[x][j]
      /\ cache' = [w \in Workspaces |-> [k \in Keys |-> cache'[w][k]]]
  BY <1>1, TypeParts DEF At
<1>5. before => key \in Keys /\ cache[current][key].data # None
  <2>1. before => key \in view /\ cache[current][key].data # None
    BY <1>1, <1>3
  <2>2. view \in Views
    BY TypeParts
  <2> QED
    BY <2>1, <2>2 DEF Keys
<1>6. before => /\ cache[current][key].data \in Held
                /\ cache[current][key].data \subseteq held[current][key]
  <2> SUFFICES ASSUME before
               PROVE  /\ cache[current][key].data \in Held
                      /\ cache[current][key].data \subseteq held[current][key]
    OBVIOUS
  <2>1. /\ cache[current][key] \in KeyQuery
        /\ Kept(cache[current][key], held[current][key], Ahead(current, key), Coming(current, key))
    BY <1>5, TypeParts DEF SyncInv
  <2>2. Ahead(current, key) = {}
    BY <1>1, AheadIs
  <2> QED
    BY <1>5, <2>1, <2>2, QueryFields DEF Kept
<1>7. /\ mutation' \in Mutation /\ mutation' # None
      /\ mutation'.kind = m /\ mutation'.of = current /\ mutation'.change = ops'
      /\ mutation'.sent = TRUE /\ mutation'.answer = {}
      /\ mutation'.prev = IF before THEN cache[current][key].data ELSE None
      /\ mutation'.prev # None <=> before
  <2>1. mutation' \in Mutation
    BY <1>1, <1>2, <1>6, TypeParts DEF Mutation, Held
  <2> QED
    BY <1>1, <1>5, <2>1, NoneApart
<1> HIDE DEF key, before, Written
<1>8. WorkspaceTypeOK' /\ KeysKept'
  <2>1. ASSUME NEW x \in Workspaces, NEW j \in Keys
        PROVE  /\ cache'[x][j] \in KeyQuery
               /\ Kept(cache'[x][j], held[x][j], Ahead(x, j)', Coming(x, j))
    <3>1. /\ cache[x][j] \in KeyQuery /\ Ahead(x, j) = {}
          /\ Kept(cache[x][j], held[x][j], Ahead(x, j), Coming(x, j))
      BY <1>1, TypeParts, AheadIs DEF SyncInv
    <3>2. CASE before /\ x = current /\ j = key
      <4>1. Ahead(x, j)' = {ops'}
        BY <1>7, <3>2 DEF Ahead, key
      <4>2. cache'[x][j] = Patch(Cancel(cache[x][j]), cache[x][j].data \cup {ops'})
        BY <1>4, <3>2 DEF Written
      <4>3. cache[x][j].data # None
        BY <1>5, <3>2
      <4>4. Kept(cache[x][j], held[x][j], {}, Coming(x, j))
        BY <3>1
      <4>5. /\ Patch(Cancel(cache[x][j]), cache[x][j].data \cup {ops'}) \in KeyQuery
            /\ Kept(Patch(Cancel(cache[x][j]), cache[x][j].data \cup {ops'}),
                    held[x][j], {ops'}, Coming(x, j))
        BY <1>2, <3>1, <4>3, <4>4, AheadKeeps
      <4> QED
        BY <4>1, <4>2, <4>5
    <3>3. CASE ~ (before /\ x = current /\ j = key)
      <4>1. cache'[x][j] = cache[x][j]
        BY <1>4, <3>3
      <4> QED
        BY <3>1, <4>1, KeptMore
    <3> QED
      BY <3>2, <3>3
  <2>2. WorkspaceTypeOK'
    <3>1. cache' \in [Workspaces -> [Keys -> Query(Held, {"rows"} \X Held)]]
      BY <1>4, <2>1, CacheTyped
    <3> QED
      BY <1>1, <1>7, <3>1 DEF SyncInv, WorkspaceTypeOK
  <2>3. KeysKept'
    BY <1>1, <2>1, SameComing DEF KeysKept
  <2> QED
    BY <2>2, <2>3
<1>9. SocketKept' /\ DirectoryKept'
  BY <1>1, SameSocket, SameDirectory DEF SyncInv
<1>10. MutationKept'
  <2>1. mutation'.prev # None <=> Mutations[m].writes = "before"
    BY <1>7 DEF before
  <2>2. before => cache[current][key].data \subseteq held'[current][key]
    BY <1>1, <1>6
  <2>3. key = Mutations[m].key
    BY DEF key
  <2> QED
    BY <1>7, <2>1, <2>2, <2>3 DEF MutationKept
<1> QED
  BY <1>8, <1>9, <1>10, Assemble

\* The mutation is over.
LEMMA DoneStep ==
  ASSUME SyncInv, mutation' = None,
         UNCHANGED <<socketVars, held, prefix, current, adopted, view, timers>>,
         cache' = [w \in Workspaces |-> [k \in Keys |-> cache'[w][k]]],
         \A w \in Workspaces, k \in Keys :
            /\ cache'[w][k] \in KeyQuery
            /\ Kept(cache'[w][k], held[w][k], {}, Coming(w, k)),
         directory' \in DirQuery, DirectoryKept'
  PROVE  SyncInv'
<1>1. WorkspaceTypeOK'
  BY CacheTyped DEF SyncInv, WorkspaceTypeOK, DirQuery
<1>2. SocketKept'
  BY SameSocket DEF SyncInv, socketVars
<1>3. KeysKept'
  BY SameComing, NoneAhead DEF KeysKept, socketVars
<1>4. MutationKept'
  BY DEF MutationKept
<1> QED
  BY <1>1, <1>2, <1>3, <1>4, Assemble

\* The settings' answer is written over the row of its workspace.
LEMMA RowKeeps ==
  ASSUME SyncInv, NEW w \in Workspaces, NEW row \in Held, row \subseteq prefix[w],
         directory' = WithAnswer(directory, w, row), UNCHANGED <<prefix, adopted, conn, wire>>
  PROVE  directory' \in DirQuery /\ DirectoryKept'
<1>1. directory \in DirQuery /\ DirectoryKept /\ prefix \in Directory
  BY TypeParts DEF SyncInv
<1>2. directory.data # None /\ directory.data \in Directory
  BY <1>1, DirectoryFields DEF DirectoryKept
<1> DEFINE rows == [directory.data EXCEPT ![w] = row]
           n == Write(directory, rows)
           e == IF directory.owed /\ directory.fetch = None
                THEN directory.doubt \cup {"forgotten"} ELSE directory.doubt
<1>3. rows \in Directory /\ rows # None
      /\ \A x \in Workspaces : rows[x] = IF x = w THEN row ELSE directory.data[x]
  <2>1. rows \in Directory
    BY <1>2 DEF Directory
  <2> QED
    BY <1>2, <2>1, NoneApart DEF Directory
<1>4. e \in SUBSET Doubts
  BY <1>1, DirectoryFields DEF Doubts
<1>5. directory' = IF directory.data[w] \subseteq row THEN n ELSE Doubted(n, "late")
  BY <1>2 DEF WithAnswer
<1> HIDE DEF rows, e
<1>6. n = [directory EXCEPT !.data = rows, !.stale = FALSE, !.owed = FALSE, !.doubt = e]
  BY DEF Write, e
<1>7. n \in DirQuery
  BY <1>1, <1>3, <1>4, <1>6 DEF DirQuery, Query
<1>8. /\ n.data = rows /\ n.fetch = directory.fetch /\ n.mounted = directory.mounted
      /\ n.stale = FALSE /\ n.owed = FALSE /\ n.doubt = e
  BY <1>1, <1>6 DEF DirQuery, Query
<1> HIDE DEF n
<1>9. /\ directory' \in DirQuery /\ directory'.data = rows
      /\ directory'.fetch = directory.fetch /\ directory'.mounted = directory.mounted
      /\ directory'.stale = FALSE /\ directory'.owed = FALSE
  BY <1>5, <1>7, <1>8, DoubtDirectory DEF Doubts
<1>10. directory'.doubt = {} => directory.doubt = {} /\ directory.data[w] \subseteq row
  <2>1. Doubted(n, "late").doubt # {}
    BY <1>3, <1>7, <1>8, DoubtDirectory DEF Doubts
  <2>2. e = {} => directory.doubt = {}
    BY DEF e
  <2> QED
    BY <1>5, <1>8, <2>1, <2>2
<1>11. Fetched(directory)'
  BY <1>3, <1>9 DEF Fetched
<1>12. \A x \in Workspaces : rows[x] \subseteq prefix[x]
  BY <1>1, <1>3 DEF DirectoryKept
<1>13. directory'.doubt = {} /\ directory'.fetch = None =>
          \A x \in Workspaces : \/ rows[x] = prefix[x]
                                \/ ~ adopted \/ conn = "down"
                                \/ \E i \in DOMAIN wire : wire[i].type = "workspace"
  <2> SUFFICES ASSUME directory'.doubt = {}, directory'.fetch = None,
                      adopted, conn # "down",
                      ~ \E i \in DOMAIN wire : wire[i].type = "workspace",
                      NEW x \in Workspaces
               PROVE  rows[x] = prefix[x]
    OBVIOUS
  <2>1. directory.data[x] = prefix[x] /\ directory.data[w] = prefix[w]
    BY <1>1, <1>9, <1>10 DEF DirectoryKept
  <2>2. row = prefix[w]
    BY <1>10, <2>1
  <2> QED
    BY <1>3, <2>1, <2>2
<1>14. DirectoryKept'
  <2>1. directory.fetch # None => \A a \in directory.fetch.answers :
          /\ \A x \in Workspaces : a[2][x] \subseteq prefix[x]
          /\ directory.fetch.clean => a[2] = prefix
    BY <1>1 DEF DirectoryKept
  <2>2. directory'.mounted /\ directory'.data # None
    BY <1>1, <1>3, <1>9 DEF DirectoryKept
  <2> QED
    BY <1>9, <1>11, <1>12, <1>13, <2>1, <2>2 DEF DirectoryKept
<1> QED
  BY <1>9, <1>14

LEMMA SucceedsKeeps == SyncInv /\ MutationSucceeds => SyncInv'
<1> SUFFICES ASSUME SyncInv, MutationSucceeds PROVE SyncInv'
  OBVIOUS
<1> DEFINE m == mutation.kind
           d == Mutations[m]
           w == mutation.of
           c == mutation.change
           adds == d.writes = "after" /\ ~ OfSettings(m)
           Added(q) == IF q.data = None THEN q ELSE Write(q, q.data \cup {c})
           start == IF adds THEN At(cache, w, {d.key}, Added) ELSE cache
<1>1. /\ mutation # None /\ ~ mutation.sent /\ mutation \in Mutation /\ MutationKept
      /\ cache' = At(start, w, d.settles, Invalidate)
      /\ directory' = IF OfSettings(m) THEN WithAnswer(directory, w, mutation.answer)
                      ELSE directory
      /\ mutation' = None
      /\ UNCHANGED <<socketVars, held, prefix, current, adopted, view, timers>>
  BY TypeParts DEF MutationSucceeds, SyncInv
<1>2. w \in Workspaces /\ c \in Changes /\ m \in MutationKinds /\ mutation.answer \in Held
  BY <1>1 DEF Mutation
<1> DEFINE key == d.key
           settles == d.settles
<1>3. adds => key \in settles
  BY <1>2, MutationTables DEF Described
<1>4. \A j \in Keys : j = key /\ ~ OfSettings(m) => c \in held[w][j]
  BY <1>1 DEF MutationKept
<1>5. \A x, j : Ahead(x, j) # {} =>
         x = w /\ j = key /\ ~ OfSettings(m) /\ Ahead(x, j) = {c}
  <2>1. OfSettings(m) => mutation.prev = None
    BY <1>1, <1>2, MutationTables DEF MutationKept
  <2> QED
    BY <2>1, AheadIs
<1> HIDE DEF adds, Added
<1>6. /\ \A x \in Workspaces, j \in Keys :
            start[x][j] = IF adds /\ x = w /\ j = key THEN Added(cache[x][j]) ELSE cache[x][j]
      /\ start = [x \in Workspaces |-> [k \in Keys |-> start[x][k]]]
  BY <1>2, TypeParts DEF At
<1> HIDE DEF start, settles, key, d, w, c, m
<1>7. cache' = At(start, w, settles, Invalidate)
  BY <1>1 DEF settles, d
<1>8. \A x \in Workspaces, j \in Keys :
         cache'[x][j] = IF x = w /\ j \in settles THEN Invalidate(start[x][j])
                        ELSE start[x][j]
  BY <1>2, <1>6, <1>7 DEF At
<1>9. cache' = [x \in Workspaces |-> [k \in Keys |-> cache'[x][k]]]
  BY <1>2, <1>6, <1>7 DEF At
<1>10. ASSUME NEW x \in Workspaces, NEW j \in Keys
       PROVE  /\ cache'[x][j] \in KeyQuery
              /\ Kept(cache'[x][j], held[x][j], {}, Coming(x, j))
  <2>1. /\ cache[x][j] \in KeyQuery /\ held[x][j] \in Held
        /\ Kept(cache[x][j], held[x][j], Ahead(x, j), Coming(x, j))
    BY TypeParts DEF SyncInv
  <2>2. held[x][j] \cup Ahead(x, j) = held[x][j]
    BY <1>4, <1>5
  <2>3. Kept(cache[x][j], held[x][j], {}, Coming(x, j))
    BY <2>1, <2>2 DEF Kept
  <2>4. CASE adds /\ x = w /\ j = key /\ cache[x][j].data # None
    <3> DEFINE rows == cache[x][j].data \cup {c}
    <3>1. rows \in Held /\ rows \subseteq held[x][j]
      <4>1. ~ OfSettings(m)
        BY <2>4 DEF adds
      <4>2. cache[x][j].data \in Held
        BY <2>1, <2>4, QueryFields
      <4>3. cache[x][j].data \subseteq held[x][j]
        BY <2>3, <2>4 DEF Kept
      <4> QED
        BY <1>2, <1>4, <2>4, <4>1, <4>2, <4>3 DEF Held
    <3> HIDE DEF rows
    <3>2. cache'[x][j] = Invalidate(Write(cache[x][j], rows))
      BY <1>3, <1>6, <1>8, <2>4 DEF Added, rows
    <3> QED
      BY <2>1, <2>3, <3>1, <3>2, WriteKeeps
  <2>5. CASE ~ (adds /\ x = w /\ j = key /\ cache[x][j].data # None)
    <3>1. start[x][j] = cache[x][j]
      BY <1>6, <2>5 DEF Added
    <3>2. cache'[x][j] \in {Invalidate(cache[x][j]), cache[x][j]}
      BY <1>8, <3>1
    <3> QED
      BY <2>1, <2>3, <3>2, InvalidateKeeps
  <2> QED
    BY <2>4, <2>5
<1>11. directory' \in DirQuery /\ DirectoryKept'
  <2>1. CASE OfSettings(m)
    <3>1. mutation.answer \subseteq prefix[w]
      BY <1>1 DEF MutationKept, w
    <3> QED
      BY <1>1, <1>2, <2>1, <3>1, RowKeeps DEF socketVars
  <2>2. CASE ~ OfSettings(m)
    <3>1. UNCHANGED <<directory, prefix, adopted, conn, wire>>
      BY <1>1, <2>2 DEF socketVars
    <3> QED
      BY <3>1, SameDirectory, TypeParts DEF SyncInv
  <2> QED
    BY <2>1, <2>2
<1> QED
  BY <1>1, <1>9, <1>10, <1>11, DoneStep

LEMMA FailsKeeps == SyncInv /\ MutationFails => SyncInv'
<1> SUFFICES ASSUME SyncInv, MutationFails PROVE SyncInv'
  OBVIOUS
<1> DEFINE m == mutation.kind
           d == Mutations[m]
           w == mutation.of
           key == d.key
           back == mutation.prev # None
           settles == IF OfSettings(m) THEN {} ELSE d.settles
           Back(q) == LET n == Write(q, mutation.prev)
                      IN  IF key \in d.settles THEN n ELSE Doubted(n, "restored")
           start == IF ~ back THEN cache ELSE At(cache, w, {key}, Back)
<1>1. /\ mutation # None /\ mutation \in Mutation /\ MutationKept
      /\ cache' = At(start, w, settles, Invalidate)
      /\ mutation' = None
      /\ UNCHANGED <<socketVars, held, prefix, directory, current, adopted, view, timers>>
  BY TypeParts DEF MutationFails, SyncInv
<1>2. w \in Workspaces /\ m \in MutationKinds /\ mutation.prev \in Held \cup {None}
  BY <1>1 DEF Mutation
<1>3. back => ~ OfSettings(m)
  BY <1>1, <1>2, MutationTables DEF MutationKept
<1>4. \A j \in Keys : back /\ j = key => mutation.prev \subseteq held[w][j]
  BY <1>1, <1>3 DEF MutationKept
<1>5. \A x, j : Ahead(x, j) # {} => x = w /\ j = key /\ back
  BY AheadIs
<1> HIDE DEF Back
<1>6. /\ \A x \in Workspaces, j \in Keys :
            start[x][j] = IF back /\ x = w /\ j = key THEN Back(cache[x][j]) ELSE cache[x][j]
      /\ start = [x \in Workspaces |-> [k \in Keys |-> start[x][k]]]
  BY <1>2, TypeParts DEF At
<1>7. back => settles = d.settles
  BY <1>3
<1> HIDE DEF start, settles, back, key, d, w, m
<1>8. /\ \A x \in Workspaces, j \in Keys :
            cache'[x][j] = IF x = w /\ j \in settles THEN Invalidate(start[x][j])
                           ELSE start[x][j]
      /\ cache' = [x \in Workspaces |-> [k \in Keys |-> cache'[x][k]]]
  BY <1>1, <1>2, <1>6 DEF At
<1>9. ASSUME NEW x \in Workspaces, NEW j \in Keys
      PROVE  /\ cache'[x][j] \in KeyQuery
             /\ Kept(cache'[x][j], held[x][j], {}, Coming(x, j))
  <2>1. /\ cache[x][j] \in KeyQuery
        /\ Kept(cache[x][j], held[x][j], Ahead(x, j), Coming(x, j))
    BY TypeParts DEF SyncInv
  <2>2. CASE back /\ x = w /\ j = key
    <3> DEFINE rows == mutation.prev
               n == Write(cache[x][j], rows)
    <3>1. rows \in Held /\ rows \subseteq held[x][j]
      BY <1>2, <1>4, <2>2 DEF back
    <3>2. cache'[x][j] = IF key \in settles THEN Invalidate(n) ELSE Doubted(n, "restored")
      BY <1>6, <1>7, <1>8, <2>2 DEF Back
    <3>3. /\ Invalidate(n) \in KeyQuery /\ Kept(Invalidate(n), held[x][j], {}, Coming(x, j))
          /\ Doubted(n, "restored") \in KeyQuery
          /\ Kept(Doubted(n, "restored"), held[x][j], {}, Coming(x, j))
      <4> HIDE DEF rows
      <4> QED
        BY <2>1, <3>1, WriteKeeps
    <3> HIDE DEF n
    <3> QED
      BY <3>2, <3>3
  <2>3. CASE ~ (back /\ x = w /\ j = key)
    <3>1. Ahead(x, j) = {}
      BY <1>5, <2>3
    <3>2. cache'[x][j] \in {Invalidate(cache[x][j]), cache[x][j]}
      BY <1>6, <1>8, <2>3
    <3> QED
      BY <2>1, <3>1, <3>2, InvalidateKeeps
  <2> QED
    BY <2>2, <2>3
<1>10. directory' \in DirQuery /\ DirectoryKept'
  BY <1>1, SameDirectory, TypeParts DEF SyncInv, socketVars
<1> QED
  BY <1>1, <1>8, <1>9, <1>10, DoneStep

-----------------------------------------------------------------------------
(***************************************************************************)
(* The invariant, and what it says at rest.                                *)
(***************************************************************************)
\* The route has loaded the page of a workspace that nothing has changed.
LEMMA SyncStart == SocketInit /\ WorkspaceInit => SyncInv
<1> SUFFICES ASSUME SocketInit, WorkspaceInit PROVE SyncInv
  OBVIOUS
<1>1. /\ conn = "up" /\ wire = <<>> /\ ops = 0
      /\ held = [w \in Workspaces |-> [k \in Keys |-> {}]]
      /\ prefix = [w \in Workspaces |-> {}]
      /\ current \in Workspaces /\ adopted = TRUE /\ view \in Views
      /\ directory = Loaded1(prefix) /\ timers = {} /\ mutation = None
      /\ cache = [w \in Workspaces |-> [k \in Keys |->
                    IF w = current /\ k \in view THEN Loaded1({}) ELSE Absent]]
  BY DEF SocketInit, WorkspaceInit
<1>2. {} \in Held /\ prefix \in Directory
  BY <1>1 DEF Held, Directory
<1>3. /\ Absent \in KeyQuery /\ Absent.data = None /\ Absent.fetch = None
      /\ Absent.stale = FALSE /\ Absent.owed = FALSE /\ Absent.mounted = FALSE
  BY DEF Absent, KeyQuery, Query
<1>4. /\ Loaded1({}) \in KeyQuery /\ Loaded1({}).data = {} /\ Loaded1({}).fetch = None
      /\ Loaded1({}).stale = FALSE /\ Loaded1({}).owed = FALSE
  BY <1>2 DEF Loaded1, Absent, KeyQuery, Query
<1>5. /\ directory \in DirQuery /\ directory.data = prefix /\ directory.mounted
      /\ directory.fetch = None /\ directory.stale = FALSE /\ directory.owed = FALSE
  BY <1>1, <1>2 DEF Loaded1, Absent, DirQuery, Query
<1>6. \A w \in Workspaces, k \in Keys : cache[w][k] \in {Absent, Loaded1({})}
  BY <1>1
<1>7. WorkspaceTypeOK
  <2>1. held \in [Workspaces -> [Keys -> Held]]
    BY <1>1, <1>2
  <2>2. cache \in [Workspaces -> [Keys -> Query(Held, {"rows"} \X Held)]]
    BY <1>1, <1>3, <1>4 DEF KeyQuery
  <2> QED
    BY <1>1, <1>2, <1>5, <2>1, <2>2 DEF WorkspaceTypeOK, DirQuery
<1>8. SocketKept
  BY <1>1, WorkspaceAssumption DEF SocketKept
<1>9. \A w \in Workspaces, k \in Keys :
         Kept(cache[w][k], held[w][k], Ahead(w, k), Coming(w, k))
  <2> SUFFICES ASSUME NEW w \in Workspaces, NEW k \in Keys
               PROVE  Kept(cache[w][k], held[w][k], Ahead(w, k), Coming(w, k))
    OBVIOUS
  <2>1. held[w][k] = {}
    BY <1>1
  <2>2. CASE cache[w][k] = Absent
    BY <1>3, <2>2 DEF Kept, Fetched
  <2>3. CASE cache[w][k] = Loaded1({})
    <3>1. {} # None
      BY <1>2, NoneApart
    <3> QED
      BY <1>4, <2>1, <2>3, <3>1 DEF Kept, Fetched
  <2> QED
    BY <1>6, <2>2, <2>3
<1>10. DirectoryKept
  BY <1>2, <1>5, NoneApart DEF DirectoryKept, Fetched
<1>11. MutationKept
  BY <1>1 DEF MutationKept
<1> QED
  BY <1>7, <1>8, <1>9, <1>10, <1>11 DEF SyncInv

LEMMA SyncUnchanged == SyncInv /\ UNCHANGED <<socketVars, workspaceVars>> => SyncInv'
<1> SUFFICES ASSUME SyncInv, UNCHANGED <<socketVars, workspaceVars>> PROVE SyncInv'
  OBVIOUS
<1>1. UNCHANGED <<conn, wire, ops, held, prefix, cache, directory, current, adopted, view,
                  timers, mutation>>
  BY DEF socketVars, workspaceVars
<1>2. \A w \in Workspaces, k \in Keys :
            /\ cache'[w][k] \in KeyQuery
            /\ Kept(cache'[w][k], held[w][k], Ahead(w, k), Coming(w, k))
  BY <1>1, TypeParts DEF SyncInv
<1> QED
  BY <1>1, <1>2, QueriesStep, TypeParts

LEMMA SyncStep == SyncInv /\ WorkspaceNext => SyncInv'
<1> SUFFICES ASSUME SyncInv, WorkspaceNext PROVE SyncInv'
  OBVIOUS
<1>1. CASE \E w \in Workspaces, p \in Prefixes : WorkspaceChangesElsewhere(w, p)
  BY <1>1, ElsewhereKeeps
<1>2. CASE \E w \in Workspaces, k \in Keys : AnswerKey(w, k) \/ LandKey(w, k)
  BY <1>2, AnswerKeyKeeps, LandKeyKeeps
<1>3. CASE AnswerDirectory \/ LandDirectory
  BY <1>3, AnswerDirectoryKeeps, LandDirectoryKeeps
<1>4. CASE \E v \in Views : OpenView(v)
  BY <1>4, OpenViewKeeps
<1>5. CASE \E w \in Workspaces : SwitchWorkspace(w)
  BY <1>5, SwitchKeeps
<1>6. CASE AdoptClient \/ FirstAuthenticated \/ DisconnectWorkspace \/ RefetchWorkspace
  BY <1>6, AdoptKeeps, FirstAuthenticatedKeeps, DisconnectKeeps, RefetchKeeps
<1>7. CASE ReceiveWorkspaceEvent
  BY <1>7, ReceiveKeeps
<1>8. CASE \E p \in DOMAIN Refreshed : FireTimer(p)
  BY <1>8, FireKeeps
<1>9. CASE \E m \in UserMutations : Mutate(m)
  BY <1>9, MutateKeeps
<1>10. CASE CommitMutation \/ MutationSucceeds \/ MutationFails
  BY <1>10, CommitKeeps, SucceedsKeeps, FailsKeeps
<1> QED
  BY <1>1, <1>2, <1>3, <1>4, <1>5, <1>6, <1>7, <1>8, <1>9, <1>10 DEF WorkspaceNext

\* Nothing is left to come, and nothing is written ahead.
LEMMA RestExact == SyncInv => WorkspaceExact /\ DirectoryExact
<1> SUFFICES ASSUME SyncInv, WorkspaceAtRest
             PROVE  /\ \A k \in Keys :
                          /\ cache[current][k].mounted => cache[current][k].data # None
                          /\ Agrees(cache[current][k], held[current][k])
                    /\ Agrees([directory EXCEPT !.data = IF @ = None THEN None ELSE @[current]],
                              prefix[current])
  BY DEF WorkspaceExact, DirectoryExact
<1>1. /\ conn = "up" /\ adopted /\ wire = <<>> /\ timers = {} /\ mutation = None
      /\ directory.fetch = None /\ \A k \in Keys : cache[current][k].fetch = None
      /\ current \in Workspaces
  BY TypeParts DEF WorkspaceAtRest
<1>2. ASSUME NEW k \in Keys
      PROVE  /\ cache[current][k].mounted => cache[current][k].data # None
             /\ Agrees(cache[current][k], held[current][k])
  <2> DEFINE q == cache[current][k]
             d == held[current][k]
  <2>1. Kept(q, d, Ahead(current, k), Coming(current, k)) /\ q \in KeyQuery /\ q.fetch = None
    BY <1>1, TypeParts DEF SyncInv
  <2>2. Ahead(current, k) = {}
    BY <1>1, AheadIs
  <2>3. Coming(current, k) = {}
    BY <1>1 DEF Coming, Recovering
  <2> HIDE DEF q, d
  <2>4. q.mounted => q.data # None /\ ~ q.stale
    BY <2>1 DEF Kept, Fetched
  <2>5. q.data # None /\ q.doubt = {} /\ ~ q.stale => q.data \subseteq d /\ d \subseteq q.data
    BY <2>1, <2>2, <2>3 DEF Kept
  <2>6. Agrees(q, d)
    BY <2>4, <2>5 DEF Agrees
  <2> QED
    BY <2>4, <2>6 DEF q, d
<1>3. Agrees([directory EXCEPT !.data = IF @ = None THEN None ELSE @[current]], prefix[current])
  <2> DEFINE q == [directory EXCEPT !.data = IF @ = None THEN None ELSE @[current]]
  <2>1. directory \in DirQuery /\ DirectoryKept
    BY TypeParts DEF SyncInv
  <2>2. directory.data # None
    BY <2>1 DEF DirectoryKept
  <2>3. q.data = directory.data[current] /\ q.doubt = directory.doubt
    BY <2>1, <2>2 DEF DirQuery, Query
  <2> HIDE DEF q
  <2>4. DOMAIN wire = {}
    BY <1>1
  <2>5. directory.doubt = {} => directory.data[current] = prefix[current]
    BY <1>1, <2>1, <2>4 DEF DirectoryKept
  <2>6. Agrees(q, prefix[current])
    BY <2>3, <2>5 DEF Agrees
  <2> QED
    BY <2>6 DEF q
<1> QED
  BY <1>2, <1>3

-----------------------------------------------------------------------------
(***************************************************************************)
(* The behaviours of the web client: in the ones that are not about the    *)
(* workspace, its queries stay as they were loaded.                        *)
(***************************************************************************)
WorkspacePart == IF part = "workspace" THEN SyncInv ELSE WorkspaceInit

LEMMA LoadedExact == WorkspaceInit => WorkspaceExact /\ DirectoryExact
<1> SUFFICES ASSUME WorkspaceInit
             PROVE  /\ \A k \in Keys :
                          /\ cache[current][k].mounted => cache[current][k].data # None
                          /\ Agrees(cache[current][k], held[current][k])
                    /\ Agrees([directory EXCEPT !.data = IF @ = None THEN None ELSE @[current]],
                              prefix[current])
  BY DEF WorkspaceExact, DirectoryExact
<1>1. /\ held = [w \in Workspaces |-> [k \in Keys |-> {}]]
      /\ prefix = [w \in Workspaces |-> {}]
      /\ current \in Workspaces /\ directory = Loaded1(prefix)
      /\ cache = [w \in Workspaces |-> [k \in Keys |->
                    IF w = current /\ k \in view THEN Loaded1({}) ELSE Absent]]
  BY DEF WorkspaceInit
<1>2. {} # None /\ prefix # None
  <2>1. {} \in Held /\ prefix \in Directory
    BY <1>1 DEF Held, Directory
  <2> QED
    BY <2>1, NoneApart
<1>3. ASSUME NEW k \in Keys
      PROVE  /\ cache[current][k].mounted => cache[current][k].data # None
             /\ Agrees(cache[current][k], held[current][k])
  <2>1. cache[current][k] \in {Absent, Loaded1({})} /\ held[current][k] = {}
    BY <1>1
  <2>2. Absent.data = None /\ ~ Absent.mounted
    BY DEF Absent
  <2>3. Loaded1({}).data = {}
    BY DEF Loaded1, Absent
  <2> QED
    BY <1>2, <2>1, <2>2, <2>3 DEF Agrees
<1>4. Agrees([directory EXCEPT !.data = IF @ = None THEN None ELSE @[current]], prefix[current])
  <2>1. directory.data = prefix /\ directory = [directory EXCEPT !.data = prefix]
    BY <1>1 DEF Loaded1, Absent
  <2>2. [directory EXCEPT !.data = IF @ = None THEN None ELSE @[current]].data = prefix[current]
    BY <1>1, <1>2, <2>1 DEF Loaded1, Absent
  <2> QED
    BY <2>2 DEF Agrees
<1> QED
  BY <1>3, <1>4

LEMMA PartStart == WebInit => WorkspacePart
BY SyncStart DEF WebInit, WorkspacePart

LEMMA PartStep == WorkspacePart /\ [WebNext]_webVars => WorkspacePart'
<1> SUFFICES ASSUME WorkspacePart, [WebNext]_webVars PROVE WorkspacePart'
  OBVIOUS
<1>1. CASE WorkspaceMoves
  BY <1>1, SyncStep DEF WorkspaceMoves, WorkspacePart
<1>2. CASE BoardMoves \/ TimelineMoves \/ ChatMoves
  <2>1. part # "workspace" /\ UNCHANGED <<part, workspaceVars>>
    BY <1>2 DEF BoardMoves, TimelineMoves, ChatMoves
  <2> QED
    BY <2>1 DEF WorkspacePart, WorkspaceInit, workspaceVars
<1>3. CASE UNCHANGED webVars
  <2>1. UNCHANGED <<part, socketVars, workspaceVars>>
    BY <1>3 DEF webVars
  <2>2. SyncInv => SyncInv'
    BY <2>1, SyncUnchanged
  <2>3. WorkspaceInit => WorkspaceInit'
    BY <2>1 DEF WorkspaceInit, workspaceVars
  <2> QED
    BY <2>1, <2>2, <2>3 DEF WorkspacePart
<1> QED
  BY <1>1, <1>2, <1>3 DEF WebNext

LEMMA PartAlways == WebSpec => []WorkspacePart
<1> QED
  BY PartStart, PartStep, PTL DEF WebSpec

\* At rest every query of the current workspace that the page reads has data, and what the
\* cache keeps under any key is what the server holds, unless a reason named in its doubt
\* says otherwise: invalidateWorkspaceScopedQueries, refreshMap, applyWorkspaceUpdatedToCache
\* and the mutations' own writes and invalidations miss nothing, for every table of the
\* code's events and mutations.
THEOREM WorkspaceSettles == WebSpec => []WorkspaceExact
<1>1. WorkspacePart => WorkspaceExact
  BY RestExact, LoadedExact DEF WorkspacePart
<1> QED
  BY <1>1, PartAlways, PTL

\* The same of the row of the current workspace in the list of workspaces.
THEOREM DirectorySettles == WebSpec => []DirectoryExact
<1>1. WorkspacePart => DirectoryExact
  BY RestExact, LoadedExact DEF WorkspacePart
<1> QED
  BY <1>1, PartAlways, PTL

\* The same of the workspace-wide queries by themselves, whatever else is on the page.
THEOREM WorkspaceSynchronised == WorkspaceSpec => [](WorkspaceExact /\ DirectoryExact)
<1>1. SocketInit /\ WorkspaceInit => SyncInv
  BY SyncStart
<1>2. SyncInv /\ [WorkspaceNext]_<<socketVars, workspaceVars>> => SyncInv'
  BY SyncStep, SyncUnchanged
<1> QED
  BY <1>1, <1>2, RestExact, PTL DEF WorkspaceSpec
-----------------------------------------------------------------------------
(***************************************************************************)
(* The comments of one issue: what an event makes of them.                 *)
(***************************************************************************)
LEMMA TimelineApart ==
  /\ None \notin Comments
  /\ \A e \in Entry : e # None
  /\ \A t \in Timeline : t # None
  /\ \A q \in CommentRequest : q # None
  /\ \A f \in Fetches({"timeline"} \X Timeline) : f # None
BY TimelineAssumption

LEMMA EventFields ==
  ASSUME NEW f \in CommentEvents
  PROVE  /\ f.type \in {"create", "update", "resolve", "react", "delete", "reopen"}
         /\ f.comment \in Comments /\ f.entry \in Entry \cup {None}
BY DEF CommentEvents

LEMMA WithAt ==
  ASSUME NEW t \in Timeline, NEW c \in Comments, NEW e \in Entry \cup {None}
  PROVE  /\ With(t, c, e) \in Timeline /\ With(t, c, e)[c] = e
         /\ \A d \in Comments : d # c => With(t, c, e)[d] = t[d]
BY DEF With, Timeline

LEMMA CascadeHas ==
  ASSUME NEW t \in Timeline, NEW x \in Comments
  PROVE  /\ x \in Cascade(t, x)
         /\ \A a \in Comments :
               t[a] # None /\ ParentOf[a] \in Cascade(t, x) => a \in Cascade(t, x)
BY DEF Cascade

LEMMA CascadeLeast ==
  ASSUME NEW t \in Timeline, NEW x \in Comments, NEW S \in SUBSET Comments, x \in S,
         \A a \in Comments : t[a] # None /\ ParentOf[a] \in S => a \in S
  PROVE  Cascade(t, x) \subseteq S
BY DEF Cascade

LEMMA WithoutAt ==
  ASSUME NEW t \in Timeline, NEW x \in Comments
  PROVE  /\ Without(t, x) \in Timeline
         /\ \A d \in Comments :
               Without(t, x)[d] = IF d \in Cascade(t, x) THEN None ELSE t[d]
BY DEF Without, Timeline

\* An event changes the comment it is about and, when it is deleted, the cascade.
LEMMA PatchedAt ==
  ASSUME NEW t \in Timeline, NEW f \in CommentEvents,
         f.type # "delete" => f.entry # None
  PROVE  /\ Patched(t, f) \in Timeline
         /\ f.type = "delete" => Patched(t, f) = Without(t, f.comment)
         /\ f.type # "delete" =>
               \A d \in Comments : d # f.comment => Patched(t, f)[d] = t[d]
         /\ f.type = "create" =>
               Patched(t, f)[f.comment] =
                  IF t[f.comment] = None THEN f.entry ELSE t[f.comment]
         /\ f.type \notin {"create", "delete"} /\ t[f.comment] = None =>
               Patched(t, f) = t
<1> DEFINE c == f.comment
<1>1. /\ f.type \in {"create", "update", "resolve", "react", "delete", "reopen"}
      /\ c \in Comments /\ f.entry \in Entry \cup {None}
  BY EventFields
<1>2. t[c] \in Entry \cup {None}
  BY <1>1 DEF Timeline
<1> HIDE DEF c
<1>3. CASE f.type = "create"
  <2>1. Patched(t, f) = IF t[c] = None THEN With(t, c, f.entry) ELSE t
    BY <1>3 DEF Patched, Appended1, c
  <2> QED
    BY <2>1, <1>1, <1>2, <1>3, WithAt DEF c
<1>4. CASE f.type = "delete"
  <2>1. Patched(t, f) = Without(t, c)
    BY <1>4 DEF Patched, c
  <2> QED
    BY <2>1, <1>1, <1>4, WithoutAt DEF c
<1>5. CASE f.type \in {"update", "resolve"}
  <2>1. Patched(t, f) = IF t[c] = None THEN t ELSE With(t, c, f.entry)
    BY <1>5 DEF Patched, Replaced, c
  <2> QED
    BY <2>1, <1>1, <1>2, <1>5, WithAt DEF c
<1>6. CASE f.type = "reopen"
  <2> DEFINE e == [f.entry EXCEPT !.liked = t[c].liked]
  <2>1. Patched(t, f) = IF t[c] = None THEN t ELSE With(t, c, e)
    BY <1>6 DEF Patched, c
  <2>2. t[c] # None => e \in Entry
    BY <1>1, <1>2, <1>6 DEF Entry
  <2> HIDE DEF e
  <2> QED
    BY <2>1, <2>2, <1>1, <1>6, WithAt DEF c
<1>7. CASE f.type = "react"
  <2> DEFINE e == [t[c] EXCEPT !.liked = f.entry.liked]
  <2>1. Patched(t, f) = IF t[c] = None THEN t ELSE With(t, c, e)
    BY <1>7 DEF Patched, c
  <2>2. t[c] # None => e \in Entry
    BY <1>1, <1>2, <1>7 DEF Entry
  <2> HIDE DEF e
  <2> QED
    BY <2>1, <2>2, <1>1, <1>7, WithAt DEF c
<1> QED
  BY <1>1, <1>3, <1>4, <1>5, <1>6, <1>7

\* What the same event makes of the same comment is the same.
LEMMA PatchedSame ==
  ASSUME NEW t \in Timeline, NEW d \in Timeline, NEW f \in CommentEvents,
         f.type # "delete", t[f.comment] = d[f.comment]
  PROVE  Patched(t, f)[f.comment] = Patched(d, f)[f.comment]
<1> DEFINE c == f.comment
<1>1. c \in Comments /\ f.type \in {"create", "update", "resolve", "react", "reopen"}
  BY EventFields
<1> HIDE DEF c
<1>2. \A u \in Timeline : \A e : With(u, c, e)[c] = e
  BY <1>1 DEF With, Timeline
<1>3. CASE f.type = "create"
  BY <1>2, <1>3 DEF Patched, Appended1, c
<1>4. CASE f.type \in {"update", "resolve"}
  BY <1>2, <1>4 DEF Patched, Replaced, c
<1>5. CASE f.type = "reopen"
  BY <1>2, <1>5 DEF Patched, c
<1>6. CASE f.type = "react"
  BY <1>2, <1>6 DEF Patched, c
<1> QED
  BY <1>1, <1>3, <1>4, <1>5, <1>6

-----------------------------------------------------------------------------
(***************************************************************************)
(* The replay that leads from what the timeline shows to what the server   *)
(* holds.                                                                  *)
(***************************************************************************)
LEMMA ReplayNow ==
  ASSUME NEW t \in Timeline, Rooted(t)
  PROVE  Replay(<<>>, t, t)
<1> DEFINE S == [i \in 1..1 |-> t]
<1>1. Len(<<>>) = 0
  OBVIOUS
<1>2. S \in [1..(Len(<<>>) + 1) -> Timeline]
  BY <1>1
<1>3. \A i \in 1..1 : S[i] = t
  OBVIOUS
<1> HIDE DEF S
<1>4. Replays(S, <<>>, t, t)
  BY <1>1, <1>3 DEF Replays
<1> QED
  BY <1>2, <1>4 DEF Replay

LEMMA ReplayDone ==
  ASSUME NEW t \in Timeline, NEW d \in Timeline, Replay(<<>>, t, d)
  PROVE  d = t
<1>1. Len(<<>>) = 0
  OBVIOUS
<1>2. PICK S \in [1..(Len(<<>>) + 1) -> Timeline] : Replays(S, <<>>, t, d)
  BY DEF Replay
<1>3. \A c \in Comments : d[c] = t[c]
  BY <1>1, <1>2 DEF Replays, Early
<1> QED
  BY <1>3 DEF Timeline

\* One more event is on its way, and the server has done what it says.
LEMMA ReplayMore ==
  ASSUME NEW w \in Seq(CommentEvents), NEW t \in Timeline, NEW d \in Timeline,
         NEW f \in CommentEvents, NEW u \in Timeline, u = Patched(t, f), Rooted(u),
         \A c \in Comments : t[c] = None /\ u[c] # None => CreateOf(f, c),
         Replay(w, t, d)
  PROVE  Replay(Append(w, f), u, d)
<1>1. PICK S \in [1..(Len(w) + 1) -> Timeline] : Replays(S, w, t, d)
  BY DEF Replay
<1> DEFINE v == Append(w, f)
           n == Len(w)
           R == [i \in 1..(n + 2) |-> IF i = n + 2 THEN u ELSE S[i]]
<1>2. n \in Nat /\ Len(v) = n + 1 /\ v[n + 1] = f /\ \A i \in 1..n : v[i] = w[i]
  OBVIOUS
<1>3. R \in [1..(n + 2) -> Timeline]
  BY <1>2
<1>4. R[n + 2] = u /\ \A i \in 1..(n + 1) : R[i] = S[i]
  BY <1>2
<1>r. /\ S[n + 1] = t
      /\ \A i \in 1..n : S[i + 1] = Patched(S[i], w[i])
      /\ \A i \in 1..(n + 1) : Rooted(S[i])
      /\ \A i \in 1..(n + 1), c \in Comments :
            S[i][c] = None /\ t[c] # None => \E j \in i..n : CreateOf(w[j], c)
      /\ \A c \in Comments : d[c] = S[1][c] \/ (S[1][c] = None /\ Early(c, w, d))
  BY <1>1 DEF Replays
<1> HIDE DEF v, n, R
<1>5. \A i \in 1..(n + 1) : R[i + 1] = Patched(R[i], v[i])
  <2> TAKE i \in 1..(n + 1)
  <2>1. CASE i = n + 1
    BY <2>1, <1>2, <1>4, <1>r
  <2>2. CASE i # n + 1
    <3>1. i \in 1..n /\ i + 1 \in 1..(n + 1) /\ i \in 1..(n + 1)
      BY <2>2, <1>2
    <3> QED
      BY <3>1, <1>2, <1>4, <1>r
  <2> QED
    BY <2>1, <2>2
<1>6. \A i \in 1..(n + 2) :
        /\ Rooted(R[i])
        /\ \A c \in Comments :
              R[i][c] = None /\ u[c] # None => \E j \in i..(n + 1) : CreateOf(v[j], c)
  <2> TAKE i \in 1..(n + 2)
  <2>1. CASE i = n + 2
    BY <2>1, <1>4
  <2>2. CASE i # n + 2
    <3>1. i \in 1..(n + 1) /\ R[i] = S[i]
      BY <2>2, <1>2, <1>4
    <3>2. ASSUME NEW c \in Comments, S[i][c] = None, u[c] # None
          PROVE  \E j \in i..(n + 1) : CreateOf(v[j], c)
      <4>1. CASE t[c] = None
        <5>1. CreateOf(v[n + 1], c) /\ n + 1 \in i..(n + 1)
          BY <3>1, <3>2, <4>1, <1>2
        <5> QED
          BY <5>1
      <4>2. CASE t[c] # None
        <5>1. PICK j \in i..n : CreateOf(w[j], c)
          BY <3>1, <3>2, <4>2, <1>r
        <5>2. v[j] = w[j] /\ j \in i..(n + 1)
          BY <3>1, <5>1, <1>2
        <5> QED
          BY <5>1, <5>2
      <4> QED
        BY <4>1, <4>2
    <3> QED
      BY <3>1, <3>2, <1>r
  <2> QED
    BY <2>1, <2>2
<1>7. \A c \in Comments : Early(c, w, d) => Early(c, v, d)
  <2> SUFFICES ASSUME NEW c \in Comments, Early(c, w, d) PROVE Early(c, v, d)
    OBVIOUS
  <2>1. PICK i \in 1..n : CreateOf(w[i], c) /\ d[c] = w[i].entry
    BY DEF Early, n
  <2>2. i \in 1..(n + 1) /\ v[i] = w[i]
    BY <1>2
  <2> QED
    BY <2>1, <2>2, <1>2 DEF Early
<1>8. \A c \in Comments : d[c] = R[1][c] \/ (R[1][c] = None /\ Early(c, v, d))
  <2>1. R[1] = S[1]
    BY <1>2, <1>4
  <2> QED
    BY <2>1, <1>7, <1>r
<1>9. n + 1 + 1 = n + 2
  BY <1>2
<1>10. Replays(R, v, u, d)
  BY <1>2, <1>4, <1>5, <1>6, <1>8, <1>9 DEF Replays
<1> QED
  BY <1>2, <1>3, <1>9, <1>10 DEF Replay, v

\* A response brings a comment whose event of creation is on its way.
LEMMA ReplayEarly ==
  ASSUME NEW w \in Seq(CommentEvents), Ordered(w), NEW t \in Timeline, NEW d \in Timeline,
         NEW x \in Comments, NEW e \in Entry, t[x] # None, d[x] = None,
         \A i \in 1..Len(w) : CreateOf(w[i], x) => w[i].entry = e,
         Replay(w, t, d)
  PROVE  Replay(w, t, With(d, x, e))
<1>1. PICK S \in [1..(Len(w) + 1) -> Timeline] : Replays(S, w, t, d)
  BY DEF Replay
<1> DEFINE n == Len(w)
           u == With(d, x, e)
<1>2. n \in Nat /\ u[x] = e /\ \A c \in Comments : c # x => u[c] = d[c]
  BY WithAt
<1>r. /\ \A i \in 1..(n + 1), c \in Comments :
            S[i][c] = None /\ t[c] # None => \E j \in i..n : CreateOf(w[j], c)
      /\ \A c \in Comments : d[c] = S[1][c] \/ (S[1][c] = None /\ Early(c, w, d))
  BY <1>1 DEF Replays
<1>3. S[1][x] = None
  BY <1>r
<1>4. Early(x, w, u)
  <2>1. PICK j \in 1..n : CreateOf(w[j], x)
    BY <1>2, <1>3, <1>r
  <2> QED
    BY <2>1, <1>2 DEF Early
<1>5. \A c \in Comments : c # x => (Early(c, w, d) <=> Early(c, w, u))
  BY <1>2 DEF Early
<1> HIDE DEF u, n
<1>6. \A c \in Comments : u[c] = S[1][c] \/ (S[1][c] = None /\ Early(c, w, u))
  BY <1>2, <1>3, <1>4, <1>5, <1>r
<1>7. Replays(S, w, t, u)
  BY <1>1, <1>6 DEF Replays
<1> QED
  BY <1>7 DEF Replay, u

\* A deletion takes the same entries off what is shown, early ones aside.
LEMMA CascadeAgain ==
  ASSUME NEW s \in Timeline, NEW d \in Timeline, NEW x \in Comments, Rooted(s),
         \A c \in Comments : s[c] # None => d[c] = s[c]
  PROVE  /\ Cascade(s, x) \subseteq Cascade(d, x)
         /\ \A c \in Cascade(d, x) : c \in Cascade(s, x) \/ s[c] = None
<1>1. Cascade(s, x) \subseteq Cascade(d, x)
  <2>1. /\ Cascade(d, x) \in SUBSET Comments /\ x \in Cascade(d, x)
        /\ \A a \in Comments :
              d[a] # None /\ ParentOf[a] \in Cascade(d, x) => a \in Cascade(d, x)
    BY CascadeHas DEF Cascade
  <2> QED
    BY <2>1, CascadeLeast
<1> DEFINE S == Cascade(s, x) \cup {a \in Comments : s[a] = None}
<1>2. S \in SUBSET Comments /\ x \in S
  BY CascadeHas DEF Cascade
<1>3. ASSUME NEW a \in Comments, ParentOf[a] \in S
      PROVE  a \in S
  <2>1. CASE s[a] = None
    BY <2>1
  <2>2. CASE s[a] # None
    <3>1. ParentOf[a] \in Comments /\ ParentOf[a] # None
      BY <1>2, <1>3, TimelineApart
    <3>2. s[ParentOf[a]] # None
      BY <2>2, <3>1 DEF Rooted
    <3>3. ParentOf[a] \in Cascade(s, x)
      BY <1>3, <3>2
    <3> QED
      BY <2>2, <3>3, CascadeHas
  <2> QED
    BY <2>1, <2>2
<1>4. Cascade(d, x) \subseteq S
  <2> HIDE DEF S
  <2> QED
    BY <1>2, <1>3, CascadeLeast
<1> QED
  BY <1>1, <1>4

\* The head of the wire does to what is shown what it did to what the server held.
LEMMA HeadAgain ==
  ASSUME NEW w \in Seq(CommentEvents), Ordered(w), w # <<>>,
         NEW s \in Timeline, NEW d \in Timeline, Rooted(s),
         \A c \in Comments : d[c] = s[c] \/ (s[c] = None /\ Early(c, w, d)),
         NEW c \in Comments
  PROVE  LET z == Patched(s, w[1])
             y == Patched(d, w[1])
         IN  y[c] = z[c] \/ (z[c] = None /\ Early(c, Tail(w), y))
<1> DEFINE f == w[1]
           z == Patched(s, f)
           y == Patched(d, f)
           n == Len(w)
           v == Tail(w)
<1>1. /\ n \in Nat /\ n > 0 /\ 1 \in 1..n /\ f \in CommentEvents
      /\ Len(v) = n - 1 /\ \A i \in 1..(n - 1) : v[i] = w[i + 1]
      /\ \A i \in 1..n : w[i] \in CommentEvents
  OBVIOUS
<1>2. /\ f.type # "delete" => f.entry # None
      /\ f.comment \in Comments
      /\ f.type \in {"create", "update", "resolve", "react", "delete", "reopen"}
  BY <1>1, EventFields DEF Ordered
\* Another event of creation comes after the head, and is not about its comment.
<1>3. ASSUME NEW i \in 1..n, CreateOf(w[i], c), d[c] = w[i].entry,
             ~ CreateOf(f, c), y[c] = d[c]
      PROVE  Early(c, v, y)
  <2>1. i # 1 /\ i - 1 \in 1..Len(v) /\ v[i - 1] = w[i]
    BY <1>1, <1>3
  <2> QED
    BY <2>1, <1>3 DEF Early
<1>4. ASSUME NEW i \in 1..n, CreateOf(w[i], c)
      PROVE  i = 1 \/ f.comment # c
  BY <1>1, <1>4 DEF Ordered, CreateOf
<1>5. ASSUME Early(c, w, d) PROVE \E i \in 1..n : CreateOf(w[i], c) /\ d[c] = w[i].entry
  BY <1>5 DEF Early
<1>6. /\ z \in Timeline /\ y \in Timeline
      /\ f.type = "delete" => z = Without(s, f.comment) /\ y = Without(d, f.comment)
      /\ f.type # "delete" /\ c # f.comment => z[c] = s[c] /\ y[c] = d[c]
      /\ f.type = "create" => z[f.comment] = IF s[f.comment] = None
                                             THEN f.entry ELSE s[f.comment]
      /\ f.type = "create" => y[f.comment] = IF d[f.comment] = None
                                             THEN f.entry ELSE d[f.comment]
      /\ f.type # "delete" /\ s[f.comment] = d[f.comment] =>
            z[f.comment] = y[f.comment]
  BY <1>1, <1>2, PatchedAt, PatchedSame
<1> HIDE DEF z, y, v, n, f
<1>7. CASE f.type # "delete" /\ c # f.comment
  <2>1. CASE d[c] = s[c]
    BY <1>6, <1>7, <2>1 DEF z, y, f
  <2>2. CASE s[c] = None /\ Early(c, w, d)
    <3>1. PICK i \in 1..n : CreateOf(w[i], c) /\ d[c] = w[i].entry
      BY <1>5, <2>2
    <3>2. ~ CreateOf(f, c)
      BY <1>7 DEF CreateOf
    <3>3. Early(c, v, y)
      BY <1>3, <1>6, <1>7, <3>1, <3>2
    <3> QED
      BY <1>6, <1>7, <2>2, <3>3 DEF z, y, f, v
  <2> QED
    BY <2>1, <2>2
<1>8. CASE f.type # "delete" /\ c = f.comment
  <2>1. CASE d[c] = s[c]
    BY <1>6, <1>8, <2>1 DEF z, y, f
  <2>2. CASE s[c] = None /\ Early(c, w, d)
    <3>1. PICK i \in 1..n : CreateOf(w[i], c) /\ d[c] = w[i].entry
      BY <1>5, <2>2
    <3>2. i = 1
      BY <1>4, <1>8, <3>1
    <3>3. f.type = "create" /\ d[c] = f.entry
      BY <3>1, <3>2 DEF CreateOf, f
    <3> QED
      BY <1>2, <1>6, <1>8, <2>2, <3>3 DEF z, y, f
  <2> QED
    BY <2>1, <2>2
<1>9. CASE f.type = "delete"
  <2> DEFINE x == f.comment
  <2>1. /\ z[c] = IF c \in Cascade(s, x) THEN None ELSE s[c]
        /\ y[c] = IF c \in Cascade(d, x) THEN None ELSE d[c]
    BY <1>2, <1>6, <1>9, WithoutAt
  <2>2. /\ Cascade(s, x) \subseteq Cascade(d, x)
        /\ \A a \in Cascade(d, x) : a \in Cascade(s, x) \/ s[a] = None
    BY <1>2, CascadeAgain
  <2> HIDE DEF x
  <2>3. CASE c \in Cascade(d, x)
    BY <2>1, <2>2, <2>3 DEF z, y, f
  <2>4. CASE c \notin Cascade(d, x)
    <3>1. z[c] = s[c] /\ y[c] = d[c]
      BY <2>1, <2>2, <2>4
    <3>2. CASE d[c] = s[c]
      BY <3>1, <3>2 DEF z, y, f
    <3>3. CASE s[c] = None /\ Early(c, w, d)
      <4>1. PICK i \in 1..n : CreateOf(w[i], c) /\ d[c] = w[i].entry
        BY <1>5, <3>3
      <4>2. ~ CreateOf(f, c)
        BY <1>9 DEF CreateOf
      <4>3. Early(c, v, y)
        BY <1>3, <3>1, <4>1, <4>2
      <4> QED
        BY <3>1, <3>3, <4>3 DEF z, y, f, v
    <3> QED
      BY <3>2, <3>3
  <2> QED
    BY <2>3, <2>4
<1> QED
  BY <1>7, <1>8, <1>9

\* The timeline handles the head of the wire.
LEMMA ReplayHandled ==
  ASSUME NEW w \in Seq(CommentEvents), Ordered(w), w # <<>>,
         NEW t \in Timeline, NEW d \in Timeline, Replay(w, t, d)
  PROVE  Replay(Tail(w), t, Patched(d, w[1]))
<1>1. PICK S \in [1..(Len(w) + 1) -> Timeline] : Replays(S, w, t, d)
  BY DEF Replay
<1> DEFINE n == Len(w)
           v == Tail(w)
           y == Patched(d, w[1])
           R == [i \in 1..n |-> S[i + 1]]
<1>2. /\ n \in Nat /\ n > 0 /\ 1 \in 1..n /\ Len(v) = n - 1
      /\ \A i \in 1..(n - 1) : v[i] = w[i + 1]
      /\ Len(v) + 1 = n
  OBVIOUS
<1>r. /\ S[n + 1] = t
      /\ \A i \in 1..n : S[i + 1] = Patched(S[i], w[i])
      /\ \A i \in 1..(n + 1) : Rooted(S[i])
      /\ \A i \in 1..(n + 1), c \in Comments :
            S[i][c] = None /\ t[c] # None => \E j \in i..n : CreateOf(w[j], c)
      /\ \A c \in Comments : d[c] = S[1][c] \/ (S[1][c] = None /\ Early(c, w, d))
  BY <1>1 DEF Replays
<1>3. R \in [1..n -> Timeline] /\ \A i \in 1..n : R[i] = S[i + 1]
  BY <1>2
<1>4. S[1] \in Timeline /\ Rooted(S[1]) /\ S[2] = Patched(S[1], w[1]) /\ R[1] = S[2]
  BY <1>2, <1>3, <1>r
<1>5. \A c \in Comments : y[c] = S[2][c] \/ (S[2][c] = None /\ Early(c, v, y))
  BY <1>4, <1>r, HeadAgain
<1> HIDE DEF v, y, R, n
<1>6. R[n] = t
  BY <1>2, <1>3, <1>r
<1>7. \A i \in 1..(n - 1) : R[i + 1] = Patched(R[i], v[i])
  <2> TAKE i \in 1..(n - 1)
  <2>1. i \in 1..n /\ i + 1 \in 1..n
    BY <1>2
  <2> QED
    BY <2>1, <1>2, <1>3, <1>r
<1>8. \A i \in 1..n :
        /\ Rooted(R[i])
        /\ \A c \in Comments :
              R[i][c] = None /\ t[c] # None => \E j \in i..(n - 1) : CreateOf(v[j], c)
  <2> TAKE i \in 1..n
  <2>1. i + 1 \in 1..(n + 1) /\ R[i] = S[i + 1]
    BY <1>2, <1>3
  <2>2. ASSUME NEW c \in Comments, R[i][c] = None, t[c] # None
        PROVE  \E j \in i..(n - 1) : CreateOf(v[j], c)
    <3>1. PICK j \in (i + 1)..n : CreateOf(w[j], c)
      BY <2>1, <2>2, <1>r
    <3>2. j - 1 \in i..(n - 1) /\ j - 1 \in 1..(n - 1) /\ j - 1 + 1 = j
      BY <1>2
    <3>3. v[j - 1] = w[j]
      BY <3>2, <1>2
    <3> QED
      BY <3>1, <3>2, <3>3
  <2> QED
    BY <2>1, <2>2, <1>r
<1>9. Replays(R, v, t, y)
  BY <1>2, <1>4, <1>5, <1>6, <1>7, <1>8 DEF Replays
<1> QED
  BY <1>2, <1>3, <1>9 DEF Replay, v, y

-----------------------------------------------------------------------------
(***************************************************************************)
(* A change of the comments: what it leaves, and the events it sends.      *)
(***************************************************************************)
ChangeKinds == {"create", "update", "resolve", "react", "delete"}

LEMMA EntryFields ==
  ASSUME NEW e \in Entry
  PROVE  /\ e.text \in Texts /\ e.resolved \in BOOLEAN /\ e.liked \in BOOLEAN
         /\ \A t \in Texts : [e EXCEPT !.text = t] \in Entry
         /\ \A b \in BOOLEAN : /\ [e EXCEPT !.resolved = b] \in Entry
                               /\ [e EXCEPT !.liked = b] \in Entry
                               /\ [e EXCEPT !.liked = b].liked = b
BY DEF Entry

LEMMA FreshIn == \A t \in Texts : Fresh(t) \in Entry
BY DEF Fresh, Entry

LEMMA EditsIn ==
  ASSUME NEW kind \in ChangeKinds, kind # "create", NEW c \in Comments, NEW e \in Entry
  PROVE  Edits(kind, c, e) \subseteq Entry
<1>1. CASE kind = "update"
  BY <1>1, EntryFields DEF Edits
<1>2. CASE kind = "resolve"
  <2>1. [e EXCEPT !.resolved = ~ @] \in Entry
    BY EntryFields
  <2> QED
    BY <1>2, <2>1 DEF Edits
<1>3. CASE kind = "react"
  <2>1. [e EXCEPT !.liked = ~ @] \in Entry
    BY EntryFields
  <2> QED
    BY <1>3, <2>1 DEF Edits
<1>4. CASE kind = "delete"
  BY <1>4 DEF Edits
<1> QED
  BY <1>1, <1>2, <1>3, <1>4 DEF ChangeKinds

LEMMA OrderedMore ==
  ASSUME NEW w, Ordered(w), NEW f \in CommentEvents,
         f.type # "delete" => f.entry # None,
         f.type = "reopen" => ~ f.entry.liked,
         f.type = "create" => \A j \in 1..Len(w) : w[j].comment # f.comment
  PROVE  Ordered(Append(w, f))
<1>1. w \in Seq(CommentEvents) /\ Len(w) \in Nat
  BY DEF Ordered
<1> DEFINE v == Append(w, f)
<1>2. /\ v \in Seq(CommentEvents) /\ Len(v) = Len(w) + 1 /\ v[Len(w) + 1] = f
      /\ \A i \in 1..Len(w) : v[i] = w[i]
  BY <1>1
<1> HIDE DEF v
<1>3. ASSUME NEW i \in 1..Len(v)
      PROVE  /\ v[i].type # "delete" => v[i].entry # None
             /\ v[i].type = "reopen" => ~ v[i].entry.liked
             /\ v[i].type = "create" => \A j \in 1..(i - 1) : v[j].comment # v[i].comment
  <2>1. CASE i = Len(w) + 1
    <3>1. v[i] = f /\ \A j \in 1..(i - 1) : v[j] = w[j] /\ j \in 1..Len(w)
      BY <1>1, <1>2, <2>1
    <3> QED
      BY <3>1
  <2>2. CASE i # Len(w) + 1
    <3>1. i \in 1..Len(w) /\ v[i] = w[i] /\ \A j \in 1..(i - 1) : v[j] = w[j]
      BY <1>1, <1>2, <2>2
    <3> QED
      BY <3>1 DEF Ordered
  <2> QED
    BY <2>1, <2>2
<1>4. Ordered(v)
  BY <1>2, <1>3 DEF Ordered
<1> QED
  BY <1>4 DEF v

LEMMA WithoutRooted ==
  ASSUME NEW t \in Timeline, NEW x \in Comments, Rooted(t)
  PROVE  Rooted(Without(t, x))
<1> SUFFICES ASSUME NEW c \in Comments, Without(t, x)[c] # None, ParentOf[c] # None
             PROVE  Without(t, x)[ParentOf[c]] # None
  BY DEF Rooted
<1>1. t[c] # None /\ c \notin Cascade(t, x)
  BY WithoutAt
<1>2. ParentOf[c] \in Comments
  BY TimelineAssumption
<1>3. t[ParentOf[c]] # None
  BY <1>1 DEF Rooted
<1>4. ParentOf[c] \notin Cascade(t, x)
  BY <1>1, CascadeHas
<1> QED
  BY <1>2, <1>3, <1>4, WithoutAt

LEMMA WithRooted ==
  ASSUME NEW t \in Timeline, NEW c \in Comments, NEW e \in Entry, Rooted(t),
         t[c] # None \/ ParentOf[c] = None \/ t[ParentOf[c]] # None
  PROVE  Rooted(With(t, c, e))
<1> SUFFICES ASSUME NEW d \in Comments, With(t, c, e)[d] # None, ParentOf[d] # None
             PROVE  With(t, c, e)[ParentOf[d]] # None
  BY DEF Rooted
<1>1. ParentOf[d] \in Comments
  BY TimelineAssumption
<1>2. With(t, c, e)[ParentOf[d]] = IF ParentOf[d] = c THEN e ELSE t[ParentOf[d]]
  BY <1>1, WithAt
<1>3. d # c => t[d] # None
  BY WithAt
<1>4. t[ParentOf[d]] # None
  BY <1>3 DEF Rooted
<1> QED
  BY <1>2, <1>4, TimelineApart

\* A change of a comment that is there.
LEMMA EditTells ==
  ASSUME NEW t \in Timeline, Rooted(t), NEW c \in Comments, NEW n \in Entry, t[c] # None,
         NEW kind \in {"update", "resolve", "react"},
         kind = "react" => n = [t[c] EXCEPT !.liked = n.liked],
         NEW u, u = With(t, c, n)
  PROVE  /\ u \in Timeline /\ Rooted(u) /\ u[c] = n
         /\ u = Patched(t, CommentEvent(kind, c, n))
         /\ \A x \in Comments : t[x] = None => u[x] = None
<1>1. u \in Timeline /\ u[c] = n /\ \A d \in Comments : d # c => u[d] = t[d]
  BY WithAt
<1>2. Rooted(u)
  BY WithRooted
<1>3. u = Patched(t, CommentEvent(kind, c, n))
  <2>1. CASE kind \in {"update", "resolve"}
    BY <2>1 DEF Patched, CommentEvent, Replaced
  <2>2. CASE kind = "react"
    <3>1. Patched(t, CommentEvent(kind, c, n)) = With(t, c, [t[c] EXCEPT !.liked = n.liked])
      BY <2>2 DEF Patched, CommentEvent
    <3> QED
      BY <2>2, <3>1
  <2> QED
    BY <2>1, <2>2
<1> QED
  BY <1>1, <1>2, <1>3

LEMMA EventIn ==
  ASSUME NEW kind \in ChangeKinds \cup {"reopen"}, NEW c \in Comments,
         NEW e \in Entry \cup {None}
  PROVE  /\ CommentEvent(kind, c, e) \in CommentEvents
         /\ CommentEvent(kind, c, e).type = kind
         /\ CommentEvent(kind, c, e).comment = c
         /\ CommentEvent(kind, c, e).entry = e
BY DEF CommentEvent, CommentEvents, ChangeKinds

\* A reply that re-opens its thread: the two changes, one after the other.
LEMMA ReplyMade ==
  ASSUME NEW t \in Timeline, Rooted(t), NEW c \in Comments, NEW e \in Entry,
         NEW p \in Comments, p # c, t[c] = None, t[p] # None,
         ParentOf[c] \in Comments, t[ParentOf[c]] # None,
         NEW o \in Entry,
         NEW root, root = With(t, p, o), NEW u, u = With(root, c, e),
         NEW mid, mid = With(t, c, e)
  PROVE  /\ mid \in Timeline /\ Rooted(mid) /\ u \in Timeline /\ Rooted(u) /\ u[c] = e
         /\ u = With(mid, p, o) /\ mid[p] = t[p]
         /\ \A x \in Comments : t[x] = None /\ u[x] # None => x = c
         /\ \A x \in Comments : t[x] = None /\ mid[x] # None => x = c
         /\ \A x \in Comments : mid[x] = None => u[x] = None
<1>1. root \in Timeline /\ root[p] = o /\ \A x \in Comments : x # p => root[x] = t[x]
  BY DEF With, Timeline
<1>2. u \in Timeline /\ u[c] = e /\ \A x \in Comments : x # c => u[x] = root[x]
  BY <1>1 DEF With, Timeline
<1>3. mid \in Timeline /\ mid[c] = e /\ \A x \in Comments : x # c => mid[x] = t[x]
  BY DEF With, Timeline
<1>4. Rooted(mid)
  BY WithRooted
<1>5. Rooted(root)
  BY WithRooted
<1>6. Rooted(u)
  <2>1. root[ParentOf[c]] # None
    BY <1>1, TimelineApart
  <2> QED
    BY <2>1, <1>1, <1>5, WithRooted
<1>7. u = With(mid, p, o)
  <2>1. With(mid, p, o) \in Timeline
    BY <1>3 DEF With, Timeline
  <2>2. \A x \in Comments : With(mid, p, o)[x] = u[x]
    BY <1>1, <1>2, <1>3 DEF With, Timeline
  <2> QED
    BY <2>1, <2>2, <1>2 DEF Timeline
<1> QED
  BY <1>1, <1>2, <1>3, <1>4, <1>6, <1>7, TimelineApart

LEMMA ReplyTells ==
  ASSUME comment \in Timeline, Rooted(comment), NEW c \in Comments, NEW e \in Entry,
         comment[c] = None, Reopens("create", c),
         NEW u, u = Changed("create", c, e), NEW mid, mid = With(comment, c, e),
         NEW f, f = Reopened(ParentOf[c])
  PROVE  /\ mid \in Timeline /\ Rooted(mid) /\ u \in Timeline /\ Rooted(u) /\ u[c] = e
         /\ mid = Patched(comment, CommentEvent("create", c, e))
         /\ f \in CommentEvents /\ f.type = "reopen" /\ f.entry # None /\ ~ f.entry.liked
         /\ f.comment = ParentOf[c] /\ comment[ParentOf[c]] # None
         /\ u = Patched(mid, f)
         /\ \A x \in Comments : comment[x] = None /\ u[x] # None => x = c
         /\ \A x \in Comments : comment[x] = None /\ mid[x] # None => x = c
         /\ \A x \in Comments : mid[x] = None => u[x] = None
<1> DEFINE p == ParentOf[c]
           o == [comment[p] EXCEPT !.resolved = FALSE]
           shown == [comment[p] EXCEPT !.resolved = FALSE, !.liked = FALSE]
<1>1. p \in Comments /\ comment[p] # None /\ p # c
  BY TimelineAssumption DEF Reopens
<1>2. comment[p] \in Entry
  BY <1>1 DEF Timeline
<1>3. /\ o \in Entry /\ shown \in Entry /\ shown.liked = FALSE
      /\ [shown EXCEPT !.liked = comment[p].liked] = o
  BY <1>2 DEF Entry
<1>4. u = With(With(comment, p, o), c, e)
  <2>1. u = With([comment EXCEPT ![p].resolved = FALSE], c, e)
    BY DEF Changed
  <2>2. [comment EXCEPT ![p].resolved = FALSE] = With(comment, p, o)
    BY DEF With
  <2> QED
    BY <2>1, <2>2
<1>5. f = CommentEvent("reopen", p, shown)
  BY DEF Reopened
<1>p. p = ParentOf[c]
  OBVIOUS
<1> HIDE DEF p, o, shown
<1>6. /\ mid \in Timeline /\ Rooted(mid) /\ u \in Timeline /\ Rooted(u) /\ u[c] = e
      /\ u = With(mid, p, o) /\ mid[p] = comment[p]
      /\ \A x \in Comments : comment[x] = None /\ u[x] # None => x = c
      /\ \A x \in Comments : comment[x] = None /\ mid[x] # None => x = c
      /\ \A x \in Comments : mid[x] = None => u[x] = None
  <2>1. o \in Entry
    BY <1>3
  <2> QED
    BY <2>1, <1>1, <1>4, <1>p, ReplyMade
<1>7. mid = Patched(comment, CommentEvent("create", c, e))
  BY DEF Patched, CommentEvent, Appended1
<1>8. f \in CommentEvents /\ f.type = "reopen" /\ f.entry = shown /\ f.comment = p
  BY <1>1, <1>3, <1>5 DEF CommentEvent, CommentEvents
<1>9. u = Patched(mid, f)
  BY <1>1, <1>3, <1>6, <1>8 DEF Patched
<1>10. f.entry # None /\ ~ f.entry.liked
  BY <1>3, <1>8, TimelineApart
<1> QED
  BY <1>1, <1>6, <1>7, <1>8, <1>9, <1>10, <1>p

\* Every other change is told by one event.
LEMMA ChangeTells ==
  ASSUME comment \in Timeline, CommentsSound, NEW kind \in ChangeKinds,
         NEW c \in Comments, NEW e \in Entry, ~ Reopens(kind, c),
         NEW u, u = Changed(kind, c, e), ~ Refused(kind, c), NEW f, f = CommentEvent(kind, c, u[c])
  PROVE  /\ u \in Timeline /\ Rooted(u)
         /\ f \in CommentEvents /\ f.type = kind /\ f.comment = c /\ f.entry = u[c]
         /\ kind # "delete" => f.entry # None
         /\ u = Patched(comment, f)
         /\ \A x \in Comments : comment[x] = None /\ u[x] # None => CreateOf(f, x)
         /\ kind = "create" => u[c] = e /\ c \notin born
         /\ kind # "create" => comment[c] # None
<1>0. Rooted(comment) /\ \A x \in Comments : comment[x] # None => x \in born
  BY DEF CommentsSound
<1>1. CASE kind = "create"
  <2>1. /\ c \notin born /\ (ParentOf[c] = None \/ comment[ParentOf[c]] # None)
        /\ u = With(comment, c, e)
    BY <1>1 DEF Changed, Refused
  <2>2. comment[c] = None
    BY <2>1, <1>0
  <2>3. u \in Timeline /\ u[c] = e /\ \A x \in Comments : x # c => u[x] = comment[x]
    BY <2>1, WithAt
  <2>4. Rooted(u)
    BY <2>1, <1>0, WithRooted
  <2>5. e # None
    BY TimelineApart
  <2>6. f \in CommentEvents /\ f.type = kind /\ f.comment = c /\ f.entry = e
    BY <2>3, <2>5, EventIn
  <2>7. u = Patched(comment, f)
    BY <1>1, <2>1, <2>2, <2>6 DEF Patched, Appended1
  <2> QED
    BY <1>1, <2>1, <2>3, <2>4, <2>5, <2>6, <2>7 DEF CreateOf
<1>2. CASE kind = "delete"
  <2>1. u = Without(comment, c) /\ comment[c] # None
    BY <1>2 DEF Changed, Refused
  <2>2. u \in Timeline /\ \A x \in Comments : comment[x] = None => u[x] = None
    BY <2>1, WithoutAt
  <2>3. Rooted(u)
    BY <2>1, <1>0, WithoutRooted
  <2>4. u[c] \in Entry \cup {None}
    BY <2>2 DEF Timeline
  <2>5. f \in CommentEvents /\ f.type = kind /\ f.comment = c /\ f.entry = u[c]
    BY <2>4, EventIn
  <2>6. u = Patched(comment, f)
    BY <1>2, <2>1, <2>5 DEF Patched
  <2> QED
    BY <1>2, <2>1, <2>2, <2>3, <2>5, <2>6
<1>3. CASE kind \in {"update", "resolve", "react"}
  <2>1. comment[c] # None
    BY <1>3 DEF Refused
  <2>a. comment[c] \in Entry
    BY <2>1 DEF Timeline
  <2>2. PICK n \in Entry : /\ u = With(comment, c, n)
                           /\ kind = "react" => n = [comment[c] EXCEPT !.liked = n.liked]
    <3>1. CASE kind = "update"
      <4>1. [comment[c] EXCEPT !.text = e.text] \in Entry
        BY <2>a, EntryFields
      <4> QED
        BY <3>1, <4>1 DEF Changed
    <3>2. CASE kind = "resolve"
      <4>1. [comment[c] EXCEPT !.resolved = e.resolved] \in Entry
        BY <2>a, EntryFields
      <4> QED
        BY <3>2, <4>1 DEF Changed
    <3>3. CASE kind = "react"
      <4>1. /\ [comment[c] EXCEPT !.liked = e.liked] \in Entry
            /\ [comment[c] EXCEPT !.liked = e.liked].liked = e.liked
        BY <2>a, EntryFields
      <4> QED
        BY <3>3, <4>1 DEF Changed
    <3> QED
      BY <1>3, <3>1, <3>2, <3>3
  <2>3. /\ u \in Timeline /\ Rooted(u) /\ u[c] \in Entry
        /\ u = Patched(comment, CommentEvent(kind, c, u[c]))
        /\ \A x \in Comments : comment[x] = None => u[x] = None
    BY <1>0, <1>3, <2>1, <2>2, EditTells
  <2>4. f \in CommentEvents /\ f.type = kind /\ f.comment = c /\ f.entry = u[c]
    BY <2>3, EventIn
  <2> QED
    BY <1>3, <2>1, <2>3, <2>4, TimelineApart
<1> QED
  BY <1>1, <1>2, <1>3 DEF ChangeKinds

-----------------------------------------------------------------------------
(***************************************************************************)
(* The query of the timeline.                                              *)
(***************************************************************************)
TimelineQuery == Query(Timeline, {"timeline"} \X Timeline)

LEMMA TimelineFetching ==
  /\ Fetching \in Fetches({"timeline"} \X Timeline) /\ Fetching # None
  /\ Fetching.answers = {} /\ Fetching.clean
BY TimelineApart DEF Fetching, Fetches

LEMMA TimelineFields ==
  ASSUME NEW q \in TimelineQuery
  PROVE  /\ q.data \in Timeline \cup {None} /\ q.stale \in BOOLEAN /\ q.owed \in BOOLEAN
         /\ q.mounted \in BOOLEAN /\ q.doubt \subseteq Doubts
         /\ q.fetch \in {None} \cup Fetches({"timeline"} \X Timeline)
         /\ q.fetch # None => /\ q.fetch.answers \subseteq {"timeline"} \X Timeline
                              /\ q.fetch.clean \in BOOLEAN
BY DEF TimelineQuery, Query, Fetches

LEMMA TimelineWritten ==
  ASSUME NEW q \in TimelineQuery, NEW d \in Timeline
  PROVE  /\ Write(q, d) \in TimelineQuery /\ Write(q, d).data = d
         /\ Write(q, d).fetch = q.fetch /\ Write(q, d).mounted = q.mounted
         /\ Write(q, d).stale = FALSE /\ Write(q, d).owed = FALSE
         /\ q.doubt \subseteq Write(q, d).doubt
         /\ q.owed /\ q.fetch = None => Write(q, d).doubt # {}
<1> DEFINE e == IF q.owed /\ q.fetch = None THEN q.doubt \cup {"forgotten"} ELSE q.doubt
<1>1. e \in SUBSET Doubts /\ q.doubt \subseteq e /\ (q.owed /\ q.fetch = None => e # {})
  BY TimelineFields DEF Doubts
<1>2. q \in [data : Timeline \cup {None}, stale : BOOLEAN, owed : BOOLEAN, mounted : BOOLEAN,
             fetch : {None} \cup Fetches({"timeline"} \X Timeline), doubt : SUBSET Doubts]
  BY DEF TimelineQuery, Query
<1> HIDE DEF e
<1>3. Write(q, d) = [q EXCEPT !.data = d, !.stale = FALSE, !.owed = FALSE, !.doubt = e]
  BY DEF Write, e
<1>4. /\ Write(q, d).data = d /\ Write(q, d).fetch = q.fetch
      /\ Write(q, d).mounted = q.mounted /\ Write(q, d).doubt = e
      /\ Write(q, d).stale = FALSE /\ Write(q, d).owed = FALSE
  BY <1>2, <1>3
<1>5. Write(q, d) \in TimelineQuery
  BY <1>1, <1>2, <1>3 DEF TimelineQuery, Query
<1> QED
  BY <1>1, <1>4, <1>5

LEMMA TimelineDoubted ==
  ASSUME NEW q \in TimelineQuery, NEW why \in Doubts
  PROVE  LET n == [q EXCEPT !.doubt = @ \cup {why}]
         IN  /\ n \in TimelineQuery /\ n.data = q.data /\ n.fetch = q.fetch
             /\ n.mounted = q.mounted /\ n.stale = q.stale /\ n.owed = q.owed
             /\ n.doubt # {}
<1> DEFINE e == q.doubt \cup {why}
<1>1. e \in SUBSET Doubts /\ e # {}
  BY TimelineFields
<1>2. [q EXCEPT !.doubt = @ \cup {why}] = [q EXCEPT !.doubt = e]
  OBVIOUS
<1> HIDE DEF e
<1> QED
  BY <1>1, <1>2 DEF TimelineQuery, Query

LEMMA TimelineInvalidated ==
  ASSUME NEW q \in TimelineQuery
  PROVE  /\ Invalidate(q) \in TimelineQuery /\ Invalidate(q).data = q.data
         /\ Invalidate(q).mounted = q.mounted /\ Invalidate(q).doubt = q.doubt
         /\ Invalidate(q).owed => Invalidate(q).stale \/ q.owed
         /\ Invalidate(q).stale = q.stale \/ Invalidate(q).stale
         /\ q.data # None => Invalidate(q).owed /\ Invalidate(q).stale
         /\ q.data = None => Invalidate(q).owed = q.owed /\ Invalidate(q).stale = q.stale
         /\ q.mounted => Invalidate(q).fetch # None
         /\ Invalidate(q).fetch = q.fetch \/ Invalidate(q).fetch = Fetching
         /\ q.fetch # None => Invalidate(q).fetch # None
<1>1. PICK f : f = Flag(q)
  OBVIOUS
<1>2. /\ f \in TimelineQuery /\ f.data = q.data /\ f.mounted = q.mounted
      /\ f.doubt = q.doubt /\ f.fetch = q.fetch
  BY <1>1, TimelineFields DEF Flag, TimelineQuery, Query
<1>3. /\ q.data # None => f.owed /\ f.stale
      /\ q.data = None => f.owed = q.owed /\ f.stale = q.stale
  BY <1>1, TimelineFields DEF Flag, TimelineQuery, Query
<1>4. PICK g : g = IF f.mounted /\ (f.fetch = None \/ f.data # None) THEN Fetching ELSE f.fetch
  OBVIOUS
<1>5. /\ g \in {None} \cup Fetches({"timeline"} \X Timeline)
      /\ g = q.fetch \/ g = Fetching
      /\ q.mounted \/ q.fetch # None => g # None
  BY <1>2, <1>4, TimelineFetching, TimelineFields
<1>6. PICK n : n = [f EXCEPT !.fetch = g]
  OBVIOUS
<1>7. /\ n \in TimelineQuery /\ n.data = f.data /\ n.mounted = f.mounted
      /\ n.doubt = f.doubt /\ n.fetch = g /\ n.stale = f.stale /\ n.owed = f.owed
  <2>1. f \in TimelineQuery /\ g \in {None} \cup Fetches({"timeline"} \X Timeline)
    BY <1>2, <1>5
  <2> QED
    BY ONLY <1>6, <2>1 DEF TimelineQuery, Query
<1>8. n = Invalidate(q)
  BY <1>1, <1>2, <1>4, <1>6 DEF Invalidate
<1>9. n.owed \in BOOLEAN /\ n.stale \in BOOLEAN /\ q.stale \in BOOLEAN /\ q.owed \in BOOLEAN
  BY <1>7, TimelineFields
<1>10. /\ n.owed => n.stale \/ q.owed
       /\ n.stale = q.stale \/ n.stale
       /\ q.data # None => n.owed /\ n.stale
       /\ q.data = None => n.owed = q.owed /\ n.stale = q.stale
  BY ONLY <1>3, <1>7, <1>9
<1>11. /\ n \in TimelineQuery /\ n.data = q.data /\ n.mounted = q.mounted /\ n.doubt = q.doubt
       /\ q.mounted => n.fetch # None
       /\ n.fetch = q.fetch \/ n.fetch = Fetching
       /\ q.fetch # None => n.fetch # None
  BY ONLY <1>2, <1>5, <1>7
<1> QED
  BY ONLY <1>8, <1>10, <1>11

LEMMA TimelineFlagged ==
  ASSUME NEW q \in TimelineQuery
  PROVE  /\ Flag(q) \in TimelineQuery /\ Flag(q).data = q.data /\ Flag(q).fetch = q.fetch
         /\ Flag(q).mounted = q.mounted
         /\ q.data # None => Flag(q).owed /\ Flag(q).stale
         /\ q.data = None => Flag(q) = q
BY TimelineFields DEF Flag, TimelineQuery, Query

LEMMA TimelineCancelled ==
  ASSUME NEW q \in TimelineQuery
  PROVE  /\ Cancel(q) \in TimelineQuery /\ Cancel(q).data = q.data /\ Cancel(q).fetch = None
         /\ Cancel(q).mounted = q.mounted
BY TimelineFields DEF Cancel, TimelineQuery, Query

LEMMA TimelineMounted ==
  ASSUME NEW q \in TimelineQuery
  PROVE  /\ Mount(q) \in TimelineQuery /\ Mount(q).data = q.data /\ Mount(q).doubt = q.doubt
         /\ Mount(q).owed = q.owed /\ Mount(q).stale = q.stale /\ Mount(q).mounted = TRUE
         /\ Mount(q).fetch = q.fetch \/ Mount(q).fetch = Fetching
         /\ q.fetch # None => Mount(q).fetch # None
         /\ q.data = None \/ q.stale => Mount(q).fetch # None
         /\ Unmount(q) \in TimelineQuery /\ Unmount(q).data = q.data
         /\ Unmount(q).doubt = q.doubt /\ Unmount(q).owed = q.owed
         /\ Unmount(q).stale = q.stale /\ Unmount(q).mounted = FALSE
         /\ Unmount(q).fetch = q.fetch
BY TimelineFetching, TimelineFields DEF Mount, Unmount, TimelineQuery, Query

LEMMA TimelineAnswered ==
  ASSUME NEW q \in TimelineQuery, NEW t \in Timeline, q.fetch # None, q.fetch.answers = {},
         NEW quiet \in BOOLEAN
  PROVE  LET n == Answer(q, "timeline", t, quiet)
         IN  /\ n \in TimelineQuery /\ n.data = q.data /\ n.mounted = q.mounted
             /\ n.doubt = q.doubt /\ n.owed = q.owed /\ n.stale = q.stale
             /\ n.fetch # None /\ (n.fetch.clean => quiet)
             /\ \A a \in n.fetch.answers : a[2] = t
BY TimelineFields, TimelineApart DEF Answer, TimelineQuery, Query, Fetches

LEMMA TimelineLanded ==
  ASSUME NEW q \in TimelineQuery, q.fetch # None, NEW t \in Timeline
  PROVE  /\ Land(q, t) \in TimelineQuery /\ Land(q, t).data = t
         /\ Land(q, t).mounted = q.mounted /\ Land(q, t).fetch = None
         /\ Land(q, t).owed = FALSE /\ Land(q, t).stale = FALSE
         /\ ~ q.fetch.clean => Land(q, t).doubt # {}
BY TimelineFields, TimelineApart DEF Land, TimelineQuery, Query, Doubts

LEMMA TimelineTouched ==
  ASSUME NEW q \in TimelineQuery
  PROVE  /\ Touch(q) \in TimelineQuery /\ Touch(q).data = q.data
         /\ Touch(q).mounted = q.mounted /\ Touch(q).doubt = q.doubt
         /\ Touch(q).owed = q.owed /\ Touch(q).stale = q.stale
         /\ (Touch(q).fetch = None <=> q.fetch = None)
         /\ Touch(q).fetch # None /\ Touch(q).fetch.clean => Touch(q).fetch.answers = {}
BY TimelineFields, TimelineApart DEF Touch, TimelineQuery, Query, Fetches

-----------------------------------------------------------------------------
(***************************************************************************)
(* The server changes.                                                     *)
(***************************************************************************)
LEMMA WireAppended ==
  ASSUME NEW w \in Seq(CommentEvents), NEW f \in CommentEvents, NEW v, v = Append(w, f)
  PROVE  /\ v \in Seq(CommentEvents) /\ Len(w) \in Nat /\ Len(v) = Len(w) + 1
         /\ \A i \in 1..Len(w) : v[i] = w[i]
         /\ \A i \in 1..Len(v) : \/ i \in 1..Len(w) /\ v[i] = w[i]
                                 \/ i = Len(w) + 1 /\ v[i] = f
OBVIOUS

\* The wire after a change, and the comments after it.
ChangeSent(kind, c, e) ==
  /\ comment' \in Timeline /\ born' \in SUBSET Comments
  /\ Ordered(wire')
  /\ \A x \in Comments : comment'[x] # None => x \in born'
  /\ \A i \in 1..Len(wire') : wire'[i].comment \in born'
  /\ Rooted(comment')
  /\ conn = "down" => wire' = <<>>
  /\ \A i \in 1..Len(wire') :
        \/ i \in 1..Len(wire) /\ wire'[i] = wire[i]
        \/ wire'[i].type = "create" =>
              wire'[i].comment = c /\ c \notin born /\ wire'[i].entry = e
  /\ \A d \in Timeline :
        conn = "up" /\ Replay(wire, comment, d) => Replay(wire', comment', d)

LEMMA ReplySends ==
  ASSUME TimelineInv, NEW c \in Comments, NEW e \in Entry,
         ChangeComment("create", c, e), Reopens("create", c)
  PROVE  ChangeSent("create", c, e)
<1> DEFINE u == Changed("create", c, e)
           mid == With(comment, c, e)
           f == CommentEvent("create", c, e)
           g == Reopened(ParentOf[c])
           v == Append(wire, f)
           z == Append(v, g)
<1>1. /\ comment \in Timeline /\ born \in SUBSET Comments
      /\ \A x \in Comments : comment[x] # None => x \in born
      /\ \A i \in 1..Len(wire) : wire[i].comment \in born
      /\ Rooted(comment) /\ Ordered(wire) /\ wire \in Seq(CommentEvents)
      /\ conn \in {"up", "down"} /\ (conn = "down" => wire = <<>>)
  BY DEF TimelineInv, TimelineTypeOK, CommentsSound, Ordered
<1>2. c \notin born /\ comment[c] = None
  BY <1>1 DEF ChangeComment, Refused
<1>3. /\ mid \in Timeline /\ Rooted(mid) /\ u \in Timeline /\ Rooted(u) /\ u[c] = e
      /\ mid = Patched(comment, f)
      /\ g \in CommentEvents /\ g.type = "reopen" /\ g.entry # None /\ ~ g.entry.liked
      /\ g.comment = ParentOf[c] /\ comment[ParentOf[c]] # None
      /\ u = Patched(mid, g)
      /\ \A x \in Comments : comment[x] = None /\ u[x] # None => x = c
      /\ \A x \in Comments : comment[x] = None /\ mid[x] # None => x = c
      /\ \A x \in Comments : mid[x] = None => u[x] = None
  BY <1>1, <1>2, ReplyTells
<1>4. e # None
  BY TimelineApart
<1>5. f \in CommentEvents /\ f.type = "create" /\ f.comment = c /\ f.entry = e
  BY DEF CommentEvent, CommentEvents
<1>6. comment' = u /\ born' = born \cup {c}
  BY DEF ChangeComment
<1>7. Send(<<f>> \o <<g>>)
  <2>1. u # comment
    BY <1>2, <1>3, <1>4
  <2>2. u[c] = e
    BY <1>3
  <2> QED
    BY <2>1, <2>2 DEF ChangeComment
<1> HIDE DEF u, mid, f, g
<1>8. wire' = IF conn = "up" THEN z ELSE wire
  <2>1. wire \o (<<f>> \o <<g>>) = z
    BY <1>1, <1>3, <1>5
  <2> QED
    BY <2>1, <1>7 DEF Send
<1>9. /\ v \in Seq(CommentEvents) /\ Len(wire) \in Nat /\ Len(v) = Len(wire) + 1
      /\ \A i \in 1..Len(v) : \/ i \in 1..Len(wire) /\ v[i] = wire[i]
                              \/ i = Len(wire) + 1 /\ v[i] = f
  BY <1>1, <1>5, WireAppended
<1>10. /\ z \in Seq(CommentEvents) /\ Len(v) \in Nat /\ Len(z) = Len(v) + 1
       /\ \A i \in 1..Len(z) : \/ i \in 1..Len(v) /\ z[i] = v[i]
                               \/ i = Len(v) + 1 /\ z[i] = g
  BY <1>3, <1>9, WireAppended
<1>11. Ordered(v)
  BY <1>1, <1>2, <1>4, <1>5, OrderedMore
<1>12. Ordered(z)
  BY <1>3, <1>11, OrderedMore
<1>13. \A d \in Timeline : Replay(wire, comment, d) => Replay(z, u, d)
  <2> SUFFICES ASSUME NEW d \in Timeline, Replay(wire, comment, d) PROVE Replay(z, u, d)
    OBVIOUS
  <2>1. \A x \in Comments : comment[x] = None /\ mid[x] # None => CreateOf(f, x)
    BY <1>3, <1>5 DEF CreateOf
  <2>2. Replay(v, mid, d)
    BY <2>1, <1>1, <1>3, <1>5, ReplayMore
  <2>3. \A x \in Comments : mid[x] = None /\ u[x] # None => CreateOf(g, x)
    BY <1>3
  <2> HIDE DEF v
  <2> QED
    BY <2>2, <2>3, <1>3, <1>9, ReplayMore
<1> HIDE DEF v, z
<1>14. \A x \in Comments : u[x] # None => x \in born'
  BY <1>1, <1>3, <1>6
<1>15. ParentOf[c] \in born
  BY <1>1, <1>3, TimelineAssumption DEF Reopens
<1>16. \A i \in 1..Len(z) :
          /\ z[i].comment \in born'
          /\ \/ i \in 1..Len(wire) /\ z[i] = wire[i]
             \/ z[i].type = "create" =>
                   z[i].comment = c /\ c \notin born /\ z[i].entry = e
  BY <1>1, <1>2, <1>3, <1>5, <1>6, <1>9, <1>10, <1>15
<1>17. CASE conn = "up"
  BY <1>1, <1>3, <1>6, <1>8, <1>12, <1>13, <1>14, <1>16, <1>17 DEF ChangeSent
<1>18. CASE conn # "up"
  BY <1>1, <1>3, <1>6, <1>8, <1>14, <1>18 DEF ChangeSent
<1> QED
  BY <1>17, <1>18

LEMMA ChangeSends ==
  ASSUME TimelineInv, NEW kind \in ChangeKinds, NEW c \in Comments, NEW e \in Entry,
         ChangeComment(kind, c, e)
  PROVE  ChangeSent(kind, c, e)
<1>a. CASE Reopens(kind, c)
  <2>1. kind = "create"
    BY <1>a DEF Reopens
  <2> QED
    BY <2>1, <1>a, ReplySends
<1>b. CASE ~ Reopens(kind, c)
  <2> DEFINE u == Changed(kind, c, e)
             f == CommentEvent(kind, c, u[c])
             z == Append(wire, f)
  <2>1. /\ comment \in Timeline /\ born \in SUBSET Comments
        /\ \A x \in Comments : comment[x] # None => x \in born
        /\ \A i \in 1..Len(wire) : wire[i].comment \in born
        /\ Rooted(comment) /\ Ordered(wire) /\ wire \in Seq(CommentEvents)
        /\ conn \in {"up", "down"} /\ (conn = "down" => wire = <<>>)
        /\ CommentsSound
    BY DEF TimelineInv, TimelineTypeOK, CommentsSound, Ordered
  <2>2. /\ u \in Timeline /\ Rooted(u)
        /\ f \in CommentEvents /\ f.type = kind /\ f.comment = c /\ f.entry = u[c]
        /\ kind # "delete" => f.entry # None
        /\ u = Patched(comment, f)
        /\ \A x \in Comments : comment[x] = None /\ u[x] # None => CreateOf(f, x)
        /\ kind = "create" => u[c] = e /\ c \notin born
        /\ kind # "create" => comment[c] # None
    <3>1. ~ Refused(kind, c)
      BY DEF ChangeComment
    <3> QED
      BY <3>1, <2>1, <1>b, ChangeTells
  <2>3. comment' = u /\ born' = born \cup {c}
    BY DEF ChangeComment
  <2>4. Send(IF u = comment THEN <<>> ELSE <<f>> \o <<>>)
    BY <1>b DEF ChangeComment
  <2>k. kind \in {"create", "update", "resolve", "react", "delete"}
    BY DEF ChangeKinds
  <2> HIDE DEF u, f
  <2>5. wire' = IF conn = "up" /\ u # comment THEN z ELSE wire
    <3>1. wire \o (<<f>> \o <<>>) = z /\ wire \o <<>> = wire
      BY <2>1, <2>2
    <3> QED
      BY <3>1, <2>4 DEF Send
  <2>6. /\ z \in Seq(CommentEvents) /\ Len(wire) \in Nat /\ Len(z) = Len(wire) + 1
        /\ \A i \in 1..Len(z) : \/ i \in 1..Len(wire) /\ z[i] = wire[i]
                                \/ i = Len(wire) + 1 /\ z[i] = f
    BY <2>1, <2>2, WireAppended
  <2>7. Ordered(z)
    BY <2>k, <2>1, <2>2, OrderedMore
  <2>8. \A d \in Timeline : Replay(wire, comment, d) => Replay(z, u, d)
    BY <2>1, <2>2, ReplayMore
  <2> HIDE DEF z
  <2>9. \A x \in Comments : u[x] # None => x \in born'
    BY <2>1, <2>2, <2>3 DEF CreateOf
  <2>10. \A i \in 1..Len(z) :
            /\ z[i].comment \in born'
            /\ \/ i \in 1..Len(wire) /\ z[i] = wire[i]
               \/ z[i].type = "create" =>
                     z[i].comment = c /\ c \notin born /\ z[i].entry = e
    BY <2>1, <2>2, <2>3, <2>6
  <2>11. CASE conn = "up" /\ u # comment
    BY <2>1, <2>2, <2>3, <2>5, <2>7, <2>8, <2>9, <2>10, <2>11 DEF ChangeSent
  <2>12. CASE ~ (conn = "up" /\ u # comment)
    BY <2>1, <2>2, <2>3, <2>5, <2>9, <2>12 DEF ChangeSent
  <2> QED
    BY <2>11, <2>12
<1> QED
  BY <1>a, <1>b

-----------------------------------------------------------------------------
(***************************************************************************)
(* Action by action, TimelineInv holds.                                    *)
(***************************************************************************)
LEMMA TimelineParts ==
  ASSUME TimelineInv
  PROVE  /\ timeline \in TimelineQuery /\ comment \in Timeline /\ born \in SUBSET Comments
         /\ hookFirst \in BOOLEAN
         /\ commentRequest \in [CommentSlots -> CommentRequest \cup {None}]
         /\ Ordered(wire) /\ wire \in Seq(CommentEvents)
BY DEF TimelineInv, TimelineTypeOK, TimelineQuery, Ordered

LEMMA RequestFields ==
  ASSUME TimelineInv, NEW r \in CommentSlots, commentRequest[r] # None
  PROVE  /\ commentRequest[r].kind \in ChangeKinds /\ commentRequest[r].comment \in Comments
         /\ commentRequest[r].entry \in Entry
         /\ commentRequest[r].prev \in Timeline \cup {None}
         /\ commentRequest[r] \in CommentRequest
<1>1. commentRequest[r] \in CommentRequest
  BY TimelineParts
<1>2. commentRequest[r].entry # None
  BY DEF TimelineInv, RequestsSound
<1> QED
  BY <1>1, <1>2 DEF CommentRequest, ChangeKinds

\* What a change of the server keeps, whoever asked for it.
LEMMA ChangeKeeps ==
  ASSUME TimelineInv, NEW kind \in ChangeKinds, NEW c \in Comments, NEW e \in Entry,
         ChangeComment(kind, c, e), timeline' = Touch(timeline),
         conn' = conn, ops' \in 0..MaxOps, hookFirst' = hookFirst,
         commentRequest' \in [CommentSlots -> CommentRequest \cup {None}],
         RequestsSound',
         \A r \in CommentSlots :
            /\ commentRequest'[r] = None <=> commentRequest[r] = None
            /\ commentRequest[r] # None => commentRequest'[r].kind = commentRequest[r].kind
  PROVE  TimelineInv'
<1>1. /\ timeline' \in TimelineQuery /\ timeline'.data = timeline.data
      /\ timeline'.mounted = timeline.mounted /\ timeline'.doubt = timeline.doubt
      /\ timeline'.owed = timeline.owed /\ timeline'.stale = timeline.stale
      /\ (timeline'.fetch = None <=> timeline.fetch = None)
      /\ timeline'.fetch # None /\ timeline'.fetch.clean => timeline'.fetch.answers = {}
  BY TimelineParts, TimelineTouched
<1>2. ChangeSent(kind, c, e)
  BY ChangeSends
<1>3. TimelineTypeOK'
  BY <1>1, <1>2, TimelineParts DEF TimelineTypeOK, TimelineQuery, ChangeSent
<1>4. CommentsSound' /\ Ordered(wire') /\ (conn' = "down" => wire' = <<>>)
  BY <1>2 DEF ChangeSent, CommentsSound
<1>5. QuerySound'
  BY <1>1 DEF TimelineInv, QuerySound
<1>6. Excused => Excused'
  BY <1>1 DEF Excused
<1>7. ~ Excused => Replay(wire', comment', timeline'.data)
  <2> SUFFICES ASSUME ~ Excused PROVE Replay(wire', comment', timeline'.data)
    OBVIOUS
  <2>1. timeline.data # None /\ conn = "up"
    BY DEF Excused, TimelineInv
  <2>2. timeline.data \in Timeline
    BY <2>1, TimelineParts, TimelineFields
  <2>3. Replay(wire, comment, timeline.data)
    BY DEF TimelineInv
  <2> QED
    BY <1>1, <1>2, <2>1, <2>2, <2>3 DEF ChangeSent
<1> QED
  BY <1>3, <1>4, <1>5, <1>6, <1>7 DEF TimelineInv

LEMMA SpendIs == Spend /\ ops \in 0..MaxOps => ops' \in 0..MaxOps
BY TimelineAssumption DEF Spend

LEMMA ElsewhereSteps ==
  ASSUME TimelineInv, NEW kind \in ChangeKinds, NEW c \in Comments,
         CommentChangesElsewhere(kind, c)
  PROVE  TimelineInv'
<1>1. PICK e \in Entry : ChangeComment(kind, c, e)
  <2>1. PICK e \in IF kind = "create" THEN {Fresh(FirstText)}
                   ELSE IF comment[c] = None THEN {} ELSE Edits(kind, c, comment[c]) :
               ChangeComment(kind, c, e)
    BY DEF CommentChangesElsewhere
  <2>2. e \in Entry
    <3>1. CASE kind = "create"
      BY <2>1, <3>1, FreshIn, TimelineAssumption
    <3>2. CASE kind # "create"
      <4>1. comment[c] \in Entry
        BY <2>1, <3>2, TimelineParts DEF Timeline
      <4> QED
        BY <2>1, <3>2, <4>1, EditsIn
    <3> QED
      BY <3>1, <3>2
  <2> QED
    BY <2>1, <2>2
<1>2. /\ timeline' = Touch(timeline) /\ conn' = conn /\ hookFirst' = hookFirst
      /\ commentRequest' = commentRequest /\ Spend
  BY DEF CommentChangesElsewhere
<1>3. ops' \in 0..MaxOps
  BY <1>2, SpendIs DEF TimelineInv
<1>4. RequestsSound'
  <2>1. ChangeSent(kind, c, e)
    BY <1>1, ChangeSends
  <2>2. born' = born \cup {c}
    BY <1>1 DEF ChangeComment
  <2>3. RequestsSound
    BY DEF TimelineInv
  <2> QED
    BY <1>2, <2>1, <2>2, <2>3 DEF RequestsSound, ChangeSent, CreateOf
<1>5. commentRequest' \in [CommentSlots -> CommentRequest \cup {None}]
  BY <1>2, TimelineParts
<1>6. \A r \in CommentSlots :
         /\ commentRequest'[r] = None <=> commentRequest[r] = None
         /\ commentRequest[r] # None => commentRequest'[r].kind = commentRequest[r].kind
  BY <1>2
<1> QED
  BY <1>1, <1>2, <1>3, <1>4, <1>5, <1>6, ChangeKeeps

LEMMA CommitSteps ==
  ASSUME TimelineInv, NEW s \in CommentSlots, CommitCommentRequest(s)
  PROVE  TimelineInv'
<1> DEFINE q == commentRequest[s]
<1>1. /\ q # None /\ q.sent /\ ChangeComment(q.kind, q.comment, q.entry)
      /\ timeline' = Touch(timeline) /\ conn' = conn /\ hookFirst' = hookFirst
      /\ ops' = ops
      /\ commentRequest' = [commentRequest EXCEPT ![s].sent = FALSE]
  BY DEF CommitCommentRequest
<1>2. /\ q.kind \in ChangeKinds /\ q.comment \in Comments /\ q.entry \in Entry
      /\ q \in CommentRequest
  BY <1>1, RequestFields
<1>3. commentRequest \in [CommentSlots -> CommentRequest \cup {None}]
  BY TimelineParts
<1> DEFINE n == [q EXCEPT !.sent = FALSE]
<1>4. /\ n \in CommentRequest /\ n.kind = q.kind /\ n.comment = q.comment
      /\ n.entry = q.entry /\ n.sent = FALSE /\ n # None
  BY <1>2, TimelineApart DEF CommentRequest
<1>5. commentRequest' = [commentRequest EXCEPT ![s] = n]
  BY <1>1
<1> HIDE DEF n
<1>6. /\ commentRequest'[s] = n
      /\ \A r \in CommentSlots : r # s => commentRequest'[r] = commentRequest[r]
      /\ commentRequest' \in [CommentSlots -> CommentRequest \cup {None}]
  BY <1>3, <1>4, <1>5
<1>7. ChangeSent(q.kind, q.comment, q.entry)
  BY <1>1, <1>2, ChangeSends
<1>8. born' = born \cup {q.comment}
  BY <1>1 DEF ChangeComment
<1>9. RequestsSound'
  <2> SUFFICES ASSUME NEW r \in CommentSlots, commentRequest'[r] # None
               PROVE  /\ commentRequest'[r].entry # None
                      /\ commentRequest'[r].kind = "create" /\ ~ commentRequest'[r].sent =>
                            /\ commentRequest'[r].comment \in born'
                            /\ \A i \in 1..Len(wire') :
                                  CreateOf(wire'[i], commentRequest'[r].comment) =>
                                     wire'[i].entry = commentRequest'[r].entry
    BY DEF RequestsSound
  <2>0. RequestsSound /\ \A i \in 1..Len(wire) : wire[i].comment \in born
    BY DEF TimelineInv, CommentsSound
  <2>1. CASE r # s
    BY <1>6, <1>7, <1>8, <2>0, <2>1 DEF RequestsSound, ChangeSent, CreateOf
  <2>2. CASE r = s
    <3>1. q.kind = "create" => q.comment \notin born
      BY <1>1 DEF ChangeComment, Refused
    <3>2. ASSUME NEW i \in 1..Len(wire'), CreateOf(wire'[i], q.comment), q.kind = "create"
          PROVE  wire'[i].entry = q.entry
      BY <1>7, <2>0, <3>1, <3>2 DEF ChangeSent, CreateOf
    <3> QED
      BY <1>2, <1>4, <1>6, <1>8, <2>2, <3>2, TimelineApart
  <2> QED
    BY <2>1, <2>2
<1>10. \A r \in CommentSlots :
          /\ commentRequest'[r] = None <=> commentRequest[r] = None
          /\ commentRequest[r] # None => commentRequest'[r].kind = commentRequest[r].kind
  BY <1>1, <1>4, <1>6
<1>11. ops' \in 0..MaxOps
  BY <1>1 DEF TimelineInv
<1> HIDE DEF q
<1> QED
  BY <1>1, <1>2, <1>6, <1>9, <1>10, <1>11, ChangeKeeps

\* What the actions that leave the server and the wire alone have to show.
LEMMA OnlyQuery ==
  ASSUME TimelineInv, UNCHANGED <<wire, comment, born>>, conn' \in {"up", "down"},
         conn' = "down" => conn = "down", ops' \in 0..MaxOps, hookFirst' \in BOOLEAN,
         timeline' \in TimelineQuery,
         commentRequest' \in [CommentSlots -> CommentRequest \cup {None}],
         RequestsSound', QuerySound', Excused' \/ Replay(wire, comment, timeline'.data)
  PROVE  TimelineInv'
<1>1. TimelineTypeOK'
  BY TimelineParts DEF TimelineTypeOK, TimelineQuery
<1>2. CommentsSound' /\ Ordered(wire') /\ (conn' = "down" => wire' = <<>>)
  BY DEF TimelineInv, CommentsSound
<1> QED
  BY <1>1, <1>2 DEF TimelineInv

LEMMA AnswerSteps ==
  ASSUME TimelineInv, AnswerTimeline
  PROVE  TimelineInv'
<1>1. /\ timeline.fetch # None /\ timeline.fetch.answers = {}
      /\ timeline' = Answer(timeline, "timeline", comment, wire = <<>>)
      /\ UNCHANGED <<conn, wire, ops, comment, born, hookFirst, commentRequest>>
  BY DEF AnswerTimeline, socketVars
<1>2. /\ timeline' \in TimelineQuery /\ timeline'.data = timeline.data
      /\ timeline'.mounted = timeline.mounted
      /\ timeline'.doubt = timeline.doubt /\ timeline'.owed = timeline.owed
      /\ timeline'.stale = timeline.stale
      /\ timeline'.fetch # None /\ (timeline'.fetch.clean => wire = <<>>)
      /\ \A a \in timeline'.fetch.answers : a[2] = comment
  <2> DEFINE quiet == wire = <<>>
  <2>1. quiet \in BOOLEAN /\ (quiet => wire = <<>>)
    OBVIOUS
  <2>2. timeline' = Answer(timeline, "timeline", comment, quiet)
    BY <1>1
  <2> HIDE DEF quiet
  <2> QED
    BY <1>1, <2>1, <2>2, TimelineParts, TimelineAnswered
<1>3. QuerySound'
  BY <1>1, <1>2 DEF TimelineInv, QuerySound
<1>4. RequestsSound'
  BY <1>1 DEF TimelineInv, RequestsSound
<1>5. Excused'
  BY <1>2 DEF Excused
<1> QED
  BY <1>1, <1>2, <1>3, <1>4, <1>5, TimelineParts, OnlyQuery DEF TimelineInv

LEMMA LandSteps ==
  ASSUME TimelineInv, LandTimeline
  PROVE  TimelineInv'
<1>1. /\ timeline.fetch # None /\ timeline.fetch.answers # {}
      /\ UNCHANGED <<conn, wire, ops, comment, born, hookFirst, commentRequest>>
  BY DEF LandTimeline, socketVars
<1>2. PICK a \in timeline.fetch.answers : timeline' = Land(timeline, a[2])
  BY <1>1 DEF LandTimeline
<1>3. a[2] \in Timeline
  <2>1. timeline.fetch.answers \subseteq {"timeline"} \X Timeline
    BY <1>1, TimelineParts, TimelineFields
  <2> QED
    BY <2>1
<1>4. /\ timeline' \in TimelineQuery /\ timeline'.data = a[2]
      /\ timeline'.mounted = timeline.mounted /\ timeline'.fetch = None
      /\ timeline'.owed = FALSE /\ timeline'.stale = FALSE
      /\ ~ timeline.fetch.clean => timeline'.doubt # {}
  BY <1>1, <1>2, <1>3, TimelineParts, TimelineLanded
<1>5. QuerySound'
  BY <1>3, <1>4, TimelineApart DEF QuerySound
<1>6. RequestsSound'
  BY <1>1 DEF TimelineInv, RequestsSound
<1>7. Excused' \/ Replay(wire, comment, timeline'.data)
  <2>1. CASE timeline.fetch.clean
    <3>1. a[2] = comment /\ wire = <<>> /\ Rooted(comment)
      BY <1>1, <2>1 DEF TimelineInv, QuerySound, CommentsSound
    <3> QED
      BY <1>4, <3>1, TimelineParts, ReplayNow
  <2>2. CASE ~ timeline.fetch.clean
    BY <1>4, <2>2 DEF Excused
  <2> QED
    BY <2>1, <2>2
<1> QED
  BY <1>1, <1>4, <1>5, <1>6, <1>7, TimelineParts, OnlyQuery DEF TimelineInv

LEMMA ShownSteps ==
  ASSUME TimelineInv, OpenTimeline \/ CloseTimeline
  PROVE  TimelineInv'
<1>1. /\ UNCHANGED <<conn, wire, comment, born, commentRequest>> /\ Spend
      /\ hookFirst' \in BOOLEAN
      /\ \/ ~ timeline.mounted /\ timeline' = Mount(timeline)
         \/ timeline' = Unmount(timeline)
  BY TimelineParts DEF OpenTimeline, CloseTimeline
<1>2. ops' \in 0..MaxOps
  BY <1>1, SpendIs DEF TimelineInv
<1>3. RequestsSound'
  BY <1>1 DEF TimelineInv, RequestsSound
<1>4. QuerySound /\ (Excused \/ Replay(wire, comment, timeline.data))
  BY DEF TimelineInv
<1>5. CASE timeline' = Mount(timeline)
  <2>1. /\ timeline' \in TimelineQuery /\ timeline'.data = timeline.data
        /\ timeline'.doubt = timeline.doubt /\ timeline'.mounted = TRUE
        /\ timeline'.owed = timeline.owed /\ timeline'.stale = timeline.stale
        /\ timeline'.fetch = timeline.fetch \/ timeline'.fetch = Fetching
        /\ timeline.fetch # None => timeline'.fetch # None
        /\ timeline.data = None \/ timeline.stale => timeline'.fetch # None
    BY <1>5, TimelineParts, TimelineMounted
  <2>2. QuerySound'
    BY <1>1, <1>4, <2>1, TimelineFetching DEF QuerySound
  <2>3. Excused' \/ Replay(wire, comment, timeline'.data)
    BY <1>1, <1>4, <2>1 DEF Excused
  <2> QED
    BY <1>1, <1>2, <1>3, <2>1, <2>2, <2>3, TimelineParts, OnlyQuery DEF TimelineInv
<1>6. CASE timeline' = Unmount(timeline)
  <2>1. /\ timeline' \in TimelineQuery /\ timeline'.data = timeline.data
        /\ timeline'.doubt = timeline.doubt /\ timeline'.mounted = FALSE
        /\ timeline'.owed = timeline.owed /\ timeline'.stale = timeline.stale
        /\ timeline'.fetch = timeline.fetch
    BY <1>6, TimelineParts, TimelineMounted
  <2>2. QuerySound'
    BY <1>1, <1>4, <2>1 DEF QuerySound
  <2>3. Excused' \/ Replay(wire, comment, timeline'.data)
    BY <1>1, <1>4, <2>1 DEF Excused
  <2> QED
    BY <1>1, <1>2, <1>3, <2>1, <2>2, <2>3, TimelineParts, OnlyQuery DEF TimelineInv
<1> QED
  BY <1>1, <1>5, <1>6

LEMMA RefetchSteps ==
  ASSUME TimelineInv, RefetchTimeline
  PROVE  TimelineInv'
<1>1. /\ conn = "down" /\ conn' = "up"
      /\ UNCHANGED <<wire, ops, comment, born, hookFirst, commentRequest>>
  BY DEF RefetchTimeline, Authenticated
<1>2. RequestsSound'
  BY <1>1 DEF TimelineInv, RequestsSound
<1>3. QuerySound
  BY DEF TimelineInv
<1>4. timeline' \in TimelineQuery /\ QuerySound' /\ Excused'
  <2>1. CASE timeline.mounted
    <3>1. timeline' = Invalidate(timeline)
      BY <2>1 DEF RefetchTimeline
    <3>2. /\ timeline' \in TimelineQuery /\ timeline'.data = timeline.data
          /\ timeline'.mounted = timeline.mounted
          /\ timeline.data # None => timeline'.owed /\ timeline'.stale
          /\ timeline.data = None =>
                timeline'.owed = timeline.owed /\ timeline'.stale = timeline.stale
          /\ timeline.mounted => timeline'.fetch # None
          /\ timeline'.fetch = timeline.fetch \/ timeline'.fetch = Fetching
      BY <3>1, TimelineParts, TimelineInvalidated
    <3> QED
      BY <1>1, <1>3, <2>1, <3>2, TimelineFetching DEF QuerySound, Excused
  <2>2. CASE ~ timeline.mounted /\ timeline.data = None
    <3>1. timeline' = timeline
      BY <2>2 DEF RefetchTimeline
    <3> QED
      BY <1>1, <1>3, <2>2, <3>1, TimelineParts DEF QuerySound, Excused
  <2>3. CASE ~ timeline.mounted /\ timeline.data # None
    <3>1. timeline' = [timeline EXCEPT !.doubt = @ \cup {"missed"}]
      BY <2>3 DEF RefetchTimeline
    <3>2. /\ timeline' \in TimelineQuery /\ timeline'.data = timeline.data
          /\ timeline'.fetch = timeline.fetch
          /\ timeline'.mounted = timeline.mounted /\ timeline'.stale = timeline.stale
          /\ timeline'.owed = timeline.owed /\ timeline'.doubt # {}
      <4>1. "missed" \in Doubts
        BY DEF Doubts
      <4> QED
        BY <3>1, <4>1, TimelineParts, TimelineDoubted
    <3> QED
      BY <1>1, <1>3, <3>2 DEF QuerySound, Excused
  <2> QED
    BY <2>1, <2>2, <2>3
<1> QED
  BY <1>1, <1>2, <1>4, TimelineParts, OnlyQuery DEF TimelineInv

LEMMA DisconnectSteps ==
  ASSUME TimelineInv, Disconnect, UNCHANGED timelineVars
  PROVE  TimelineInv'
<1>1. /\ conn' = "down" /\ wire' = <<>> /\ Spend
      /\ UNCHANGED <<comment, born, timeline, hookFirst, commentRequest>>
  BY DEF Disconnect, timelineVars
<1>2. ops' \in 0..MaxOps
  BY <1>1, SpendIs DEF TimelineInv
<1>3. Len(<<>>) = 0 /\ <<>> \in Seq(CommentEvents)
  OBVIOUS
<1>4. Ordered(wire') /\ CommentsSound' /\ RequestsSound'
  BY <1>1, <1>3 DEF Ordered, CommentsSound, RequestsSound, TimelineInv
<1>5. QuerySound'
  BY <1>1 DEF TimelineInv, QuerySound
<1>6. TimelineTypeOK'
  BY <1>1 DEF TimelineInv, TimelineTypeOK
<1>7. Excused'
  BY <1>1 DEF Excused
<1> QED
  BY <1>1, <1>2, <1>4, <1>5, <1>6, <1>7 DEF TimelineInv

\* What the hook's handler makes of data is what the event says, doubt aside.
LEMMA GranularIs ==
  ASSUME NEW q \in TimelineQuery, q.data # None, NEW f \in CommentEvents,
         f.type # "delete" => f.entry # None, f.type = "reopen" => ~ f.entry.liked
  PROVE  LET n == Granular(q, f)
         IN  /\ n \in TimelineQuery /\ n.data # None
             /\ n.fetch = q.fetch /\ n.mounted = q.mounted
             /\ n.stale = FALSE /\ n.owed = FALSE
             /\ q.doubt # {} \/ (q.owed /\ q.fetch = None) => n.doubt # {}
             /\ n.doubt # {} \/ n.data = Patched(q.data, f)
<1> DEFINE d == q.data
           t == Patched(d, f)
<1>1. d \in Timeline
  BY TimelineFields
<1>2. t \in Timeline
  BY <1>1, PatchedAt
<1>3. /\ f.type \in {"create", "update", "resolve", "react", "delete", "reopen"}
      /\ f.comment \in Comments /\ f.entry \in Entry \cup {None}
  BY EventFields
<1>w. \A u \in Timeline :
         /\ Write(q, u) \in TimelineQuery /\ Write(q, u).data = u
         /\ Write(q, u).fetch = q.fetch /\ Write(q, u).mounted = q.mounted
         /\ Write(q, u).stale = FALSE /\ Write(q, u).owed = FALSE
         /\ q.doubt # {} \/ (q.owed /\ q.fetch = None) => Write(q, u).doubt # {}
  BY TimelineWritten
<1>a. \A u \in Timeline : u # None
  BY TimelineApart
<1> HIDE DEF d, t
<1>4. CASE Granular(q, f) = Write(q, t)
  BY <1>2, <1>4, <1>w, <1>a DEF t, d
<1>5. CASE f.type = "create"
  <2>1. t = Appended1(d, f.comment, f.entry)
    BY <1>5 DEF Patched, t
  <2>2. Granular(q, f) = Write(q, t)
    BY <1>5, <2>1 DEF Granular, Created, d
  <2> QED
    BY <2>2, <1>4
<1>6. CASE f.type \in {"update", "resolve", "delete"}
  <2>1. Granular(q, f) = Write(q, t)
    BY <1>6 DEF Granular, Patched, t, d
  <2> QED
    BY <2>1, <1>4
<1>7. CASE f.type = "react"
  <2>1. t = IF d[f.comment] = None THEN d
            ELSE With(d, f.comment, [d[f.comment] EXCEPT !.liked = f.entry.liked])
    BY <1>7 DEF Patched, t
  <2>2. Granular(q, f) = Write(q, IF d[f.comment] = None THEN d
                                  ELSE [d EXCEPT ![f.comment].liked = f.entry.liked])
    BY <1>7 DEF Granular, d
  <2>3. [d EXCEPT ![f.comment].liked = f.entry.liked]
           = With(d, f.comment, [d[f.comment] EXCEPT !.liked = f.entry.liked])
    BY DEF With
  <2>4. Granular(q, f) = Write(q, t)
    BY <2>1, <2>2, <2>3
  <2> QED
    BY <2>4, <1>4
<1>8. CASE f.type = "reopen"
  <2> DEFINE u == Replaced(d, f.comment, f.entry)
             n == Write(q, u)
  <2>1. u \in Timeline
    <3>1. u = IF d[f.comment] = None THEN d ELSE With(d, f.comment, f.entry)
      BY DEF Replaced
    <3>2. With(d, f.comment, f.entry) \in Timeline
      BY <1>1, <1>3, WithAt
    <3> QED
      BY <3>1, <3>2, <1>1
  <2>2. CASE d[f.comment] # None /\ d[f.comment].liked
    <3>1. Granular(q, f) = [n EXCEPT !.doubt = @ \cup {"stripped"}]
      BY <1>8, <2>2 DEF Granular, d
    <3> HIDE DEF u
    <3>2. n \in TimelineQuery /\ "stripped" \in Doubts
      BY <2>1, <1>w DEF Doubts
    <3> HIDE DEF n
    <3>3. LET m == [n EXCEPT !.doubt = @ \cup {"stripped"}]
          IN  /\ m \in TimelineQuery /\ m.data = n.data /\ m.fetch = n.fetch
              /\ m.mounted = n.mounted /\ m.stale = n.stale /\ m.owed = n.owed
              /\ m.doubt # {}
      BY <3>2, TimelineDoubted
    <3> QED
      BY <3>1, <3>3, <2>1, <1>w, <1>a DEF n
  <2>3. CASE ~ (d[f.comment] # None /\ d[f.comment].liked)
    <3>1. Granular(q, f) = Write(q, u)
      BY <1>8, <2>3 DEF Granular, d
    <3>2. u = t
      <4>1. CASE d[f.comment] = None
        BY <1>8, <4>1 DEF Replaced, Patched, t
      <4>2. CASE d[f.comment] # None
        <5>1. d[f.comment] \in Entry /\ f.entry \in Entry
          BY <1>1, <1>3, <1>8, <4>2 DEF Timeline
        <5>2. d[f.comment].liked = FALSE /\ f.entry.liked = FALSE
          BY <2>3, <4>2, <5>1, <1>8 DEF Entry
        <5>3. [f.entry EXCEPT !.liked = d[f.comment].liked] = f.entry
          BY <5>1, <5>2 DEF Entry
        <5> QED
          BY <1>8, <4>2, <5>3 DEF Replaced, Patched, t
      <4> QED
        BY <4>1, <4>2
    <3> QED
      BY <3>1, <3>2, <1>4
  <2> QED
    BY <2>2, <2>3
<1> QED
  BY <1>3, <1>5, <1>6, <1>7, <1>8

\* A comment that is written where nothing is loaded, or where it is missing.
LEMMA CreatedIs ==
  ASSUME NEW q \in TimelineQuery, NEW c \in Comments, NEW e \in Entry
  PROVE  LET n == Created(q, c, e)
         IN  /\ n \in TimelineQuery /\ n.data # None
             /\ n.fetch = q.fetch /\ n.mounted = q.mounted
             /\ n.stale = FALSE /\ n.owed = FALSE
             /\ q.doubt # {} \/ (q.owed /\ q.fetch = None) => n.doubt # {}
             /\ q.data # None => n.data = Appended1(q.data, c, e)
<1> DEFINE d == IF q.data = None THEN NoComments ELSE q.data
           u == Appended1(d, c, e)
<1>1. d \in Timeline
  <2>1. NoComments \in Timeline
    BY DEF NoComments, Timeline
  <2> QED
    BY <2>1, TimelineFields
<1>2. Created(q, c, e) = Write(q, u)
  BY DEF Created
<1>3. q.data # None => u = Appended1(q.data, c, e)
  OBVIOUS
<1> HIDE DEF d
<1>4. u \in Timeline /\ u # None
  <2>1. With(d, c, e) \in Timeline
    BY <1>1, WithAt
  <2> QED
    BY <2>1, <1>1, TimelineApart DEF Appended1
<1> HIDE DEF u
<1>5. /\ Write(q, u) \in TimelineQuery /\ Write(q, u).data = u
      /\ Write(q, u).fetch = q.fetch /\ Write(q, u).mounted = q.mounted
      /\ Write(q, u).stale = FALSE /\ Write(q, u).owed = FALSE
      /\ q.doubt \subseteq Write(q, u).doubt
      /\ q.owed /\ q.fetch = None => Write(q, u).doubt # {}
  BY <1>4, TimelineWritten
<1>6. q.doubt # {} => Write(q, u).doubt # {}
  BY <1>5
<1> QED
  BY <1>2, <1>3, <1>4, <1>5, <1>6

LEMMA ReceiveSteps ==
  ASSUME TimelineInv, ReceiveCommentEvent
  PROVE  TimelineInv'
<1> DEFINE f == wire[1]
<1>1. /\ wire # <<>> /\ wire' = Tail(wire)
      /\ UNCHANGED <<conn, ops, comment, born, hookFirst, commentRequest>>
  BY DEF ReceiveCommentEvent, Deliver
<1>2. wire \in Seq(CommentEvents) /\ Ordered(wire) /\ Head(wire) = f
  BY <1>1, TimelineParts
<1>3. /\ Len(wire) \in Nat /\ Len(wire) > 0 /\ Len(wire') = Len(wire) - 1
      /\ wire' \in Seq(CommentEvents) /\ f \in CommentEvents
      /\ \A i \in 1..Len(wire') : i + 1 \in 1..Len(wire) /\ wire'[i] = wire[i + 1]
  BY <1>1, <1>2
<1>4. /\ f.type # "delete" => f.entry # None
      /\ f.type = "reopen" => ~ f.entry.liked
  BY <1>2, <1>3 DEF Ordered
<1>5. Ordered(wire')
  <2> SUFFICES ASSUME NEW i \in 1..Len(wire')
               PROVE  /\ wire'[i].type # "delete" => wire'[i].entry # None
                      /\ wire'[i].type = "reopen" => ~ wire'[i].entry.liked
                      /\ wire'[i].type = "create" =>
                            \A j \in 1..(i - 1) : wire'[j].comment # wire'[i].comment
    BY <1>3 DEF Ordered
  <2>1. i + 1 \in 1..Len(wire) /\ wire'[i] = wire[i + 1]
    BY <1>3
  <2>2. ASSUME NEW j \in 1..(i - 1), wire[i + 1].type = "create"
        PROVE  wire'[j].comment # wire[i + 1].comment
    <3>1. j \in 1..Len(wire') /\ j + 1 \in 1..((i + 1) - 1)
      BY <1>3
    <3>2. wire'[j] = wire[j + 1]
      BY <3>1, <1>3
    <3> QED
      BY <2>1, <2>2, <3>1, <3>2, <1>2 DEF Ordered
  <2> QED
    BY <2>1, <2>2, <1>2 DEF Ordered
<1>6. CommentsSound' /\ RequestsSound'
  BY <1>1, <1>3 DEF TimelineInv, CommentsSound, RequestsSound
<1>7. QuerySound /\ (Excused \/ Replay(wire, comment, timeline.data)) /\ conn # "down"
  BY <1>1 DEF TimelineInv
<1>8. timeline \in TimelineQuery /\ comment \in Timeline
  BY TimelineParts
<1>9. CASE ~ timeline.mounted
  <2>1. timeline' = Flag(timeline)
    BY <1>9 DEF ReceiveCommentEvent
  <2>2. /\ timeline' \in TimelineQuery /\ timeline'.data = timeline.data
        /\ timeline'.fetch = timeline.fetch /\ timeline'.mounted = timeline.mounted
        /\ timeline.data # None => timeline'.owed /\ timeline'.stale
        /\ timeline.data = None => timeline' = timeline
    BY <2>1, <1>8, TimelineFlagged
  <2>3. QuerySound'
    BY <1>1, <1>7, <1>9, <2>2 DEF QuerySound
  <2>4. Excused'
    BY <2>2 DEF Excused
  <2>5. TimelineTypeOK'
    BY <1>1, <2>2, TimelineParts DEF TimelineTypeOK, TimelineQuery
  <2> QED
    BY <1>1, <1>5, <1>6, <1>7, <2>3, <2>4, <2>5 DEF TimelineInv
<1>10. CASE timeline.mounted
  <2> DEFINE n == Granular(timeline, f)
  <2>1. timeline' = IF hookFirst /\ n.data # None THEN [n EXCEPT !.stale = TRUE] ELSE n
    BY <1>2, <1>10 DEF ReceiveCommentEvent
  <2>2. /\ n \in TimelineQuery
        /\ n.fetch = timeline.fetch /\ n.mounted = TRUE
        /\ n.data = None => timeline.data = None
        /\ n.owed => timeline.fetch # None
        /\ n.owed => n.stale
        /\ Excused => n.data = None \/ n.doubt # {} \/ n.fetch # None
              \/ \E r \in CommentSlots :
                    commentRequest[r] # None /\ commentRequest[r].kind # "create"
        /\ timeline.data # None =>
              n.doubt # {} \/ n.data = Patched(timeline.data, f)
    <3>1. CASE timeline.data # None
      <4>1. /\ n \in TimelineQuery /\ n.data # None
            /\ n.fetch = timeline.fetch /\ n.mounted = timeline.mounted
            /\ n.stale = FALSE /\ n.owed = FALSE
            /\ timeline.doubt # {} \/ (timeline.owed /\ timeline.fetch = None) => n.doubt # {}
            /\ n.doubt # {} \/ n.data = Patched(timeline.data, f)
        BY <3>1, <1>3, <1>4, <1>8, GranularIs
      <4> QED
        BY <3>1, <4>1, <1>7, <1>10 DEF Excused
    <3>2. CASE timeline.data = None
      <4>1. timeline.fetch # None
        BY <3>2, <1>7, <1>10 DEF QuerySound
      <4>2. CASE f.type = "create"
        <5>1. n = Created(timeline, f.comment, f.entry)
          BY <4>2 DEF Granular
        <5>2. f.comment \in Comments /\ f.entry \in Entry
          BY <1>3, <1>4, <4>2, EventFields
        <5> DEFINE m == Created(timeline, f.comment, f.entry)
        <5>3. /\ m \in TimelineQuery /\ m.data # None
              /\ m.fetch = timeline.fetch /\ m.mounted = timeline.mounted
              /\ m.stale = FALSE /\ m.owed = FALSE
          BY <5>2, <1>8, CreatedIs
        <5> HIDE DEF n, m
        <5> QED
          BY <3>2, <4>1, <5>1, <5>3, <1>10 DEF m
      <4>3. CASE f.type # "create"
        <5>1. n = timeline
          BY <3>2, <4>3 DEF Granular
        <5> QED
          BY <3>2, <4>1, <5>1, <1>7, <1>8, <1>10, TimelineFields DEF QuerySound
      <4> QED
        BY <4>2, <4>3
    <3> QED
      BY <3>1, <3>2
  <2> HIDE DEF n
  <2>3. /\ timeline' \in TimelineQuery /\ timeline'.fetch = n.fetch
        /\ timeline'.mounted = n.mounted /\ timeline'.data = n.data
        /\ timeline'.owed = n.owed /\ timeline'.doubt = n.doubt
        /\ n.stale => timeline'.stale
    BY <2>1, <2>2 DEF TimelineQuery, Query
  <2>4. QuerySound'
    BY <1>1, <1>7, <1>10, <2>2, <2>3 DEF QuerySound
  <2>5. Excused' \/ Replay(wire', comment', timeline'.data)
    <3>1. CASE Excused
      BY <1>1, <2>2, <2>3, <3>1 DEF Excused
    <3>2. CASE ~ Excused
      <4>1. timeline.data # None /\ Replay(wire, comment, timeline.data)
        BY <1>7, <3>2 DEF Excused
      <4>2. timeline.data \in Timeline
        BY <4>1, <1>8, TimelineFields
      <4>3. Replay(Tail(wire), comment, Patched(timeline.data, f))
        BY <4>1, <4>2, <1>1, <1>2, <1>8, ReplayHandled
      <4>4. CASE n.doubt # {}
        BY <2>3, <4>4 DEF Excused
      <4>5. CASE n.data = Patched(timeline.data, f)
        BY <1>1, <2>3, <4>3, <4>5
      <4> QED
        BY <2>2, <4>1, <4>4, <4>5
    <3> QED
      BY <3>1, <3>2
  <2>6. TimelineTypeOK'
    BY <1>1, <2>3, TimelineParts DEF TimelineTypeOK, TimelineQuery
  <2> QED
    BY <1>1, <1>5, <1>6, <1>7, <2>4, <2>5, <2>6 DEF TimelineInv
<1> QED
  BY <1>9, <1>10

\* A request that nobody has sent yet.
LEMMA NewRequestIs ==
  ASSUME NEW kind \in ChangeKinds, NEW c \in Comments, NEW e \in Entry,
         NEW d \in Timeline \cup {None}
  PROVE  LET q == NewCommentRequest(kind, c, e, d)
         IN  /\ q \in CommentRequest /\ q # None /\ q.kind = kind /\ q.entry = e
             /\ q.sent = TRUE
BY TimelineApart DEF NewCommentRequest, CommentRequest, ChangeKinds

\* A request is added.
LEMMA RequestAdded ==
  ASSUME TimelineInv, NEW s \in CommentSlots, commentRequest[s] = None,
         NEW kind \in ChangeKinds, NEW c \in Comments, NEW e \in Entry,
         NEW d \in Timeline \cup {None},
         commentRequest' = [commentRequest EXCEPT ![s] = NewCommentRequest(kind, c, e, d)],
         UNCHANGED <<wire, born>>
  PROVE  /\ commentRequest' \in [CommentSlots -> CommentRequest \cup {None}]
         /\ RequestsSound'
         /\ commentRequest'[s] # None /\ commentRequest'[s].kind = kind
         /\ \A r \in CommentSlots : commentRequest[r] # None =>
               commentRequest'[r] = commentRequest[r]
<1> DEFINE q == NewCommentRequest(kind, c, e, d)
<1>1. q \in CommentRequest /\ q # None /\ q.kind = kind /\ q.entry = e /\ q.sent = TRUE
  BY NewRequestIs
<1>2. commentRequest' = [commentRequest EXCEPT ![s] = q]
  OBVIOUS
<1> HIDE DEF q
<1>3. commentRequest \in [CommentSlots -> CommentRequest \cup {None}] /\ RequestsSound
  BY TimelineParts DEF TimelineInv
<1>4. /\ commentRequest' \in [CommentSlots -> CommentRequest \cup {None}]
      /\ commentRequest'[s] = q
      /\ \A r \in CommentSlots : r # s => commentRequest'[r] = commentRequest[r]
  BY <1>1, <1>2, <1>3
<1>5. e # None
  BY TimelineApart
<1>6. RequestsSound'
  BY <1>1, <1>3, <1>4, <1>5 DEF RequestsSound
<1> QED
  BY <1>1, <1>4, <1>6

\* A request is over.
LEMMA RequestOver ==
  ASSUME TimelineInv, NEW s \in CommentSlots,
         commentRequest' = [commentRequest EXCEPT ![s] = None],
         UNCHANGED <<wire, born>>
  PROVE  /\ commentRequest' \in [CommentSlots -> CommentRequest \cup {None}]
         /\ RequestsSound'
         /\ \A r \in CommentSlots :
               r # s => commentRequest'[r] = commentRequest[r]
         /\ commentRequest'[s] = None
<1>1. commentRequest \in [CommentSlots -> CommentRequest \cup {None}] /\ RequestsSound
  BY TimelineParts DEF TimelineInv
<1>2. /\ commentRequest' \in [CommentSlots -> CommentRequest \cup {None}]
      /\ commentRequest'[s] = None
      /\ \A r \in CommentSlots : r # s => commentRequest'[r] = commentRequest[r]
  BY <1>1
<1>3. RequestsSound'
  BY <1>1, <1>2 DEF RequestsSound
<1> QED
  BY <1>2, <1>3

LEMMA SubmitSteps ==
  ASSUME TimelineInv, NEW s \in CommentSlots, NEW c \in Comments, NEW t \in Texts,
         SubmitComment(s, c, t)
  PROVE  TimelineInv'
<1>1. /\ commentRequest[s] = None /\ timeline.mounted /\ Spend
      /\ commentRequest' = [commentRequest EXCEPT ![s] =
            NewCommentRequest("create", c, Fresh(t), None)]
      /\ UNCHANGED <<conn, wire, comment, born, timeline, hookFirst>>
  BY DEF SubmitComment
<1>2. Fresh(t) \in Entry /\ None \in Timeline \cup {None} /\ "create" \in ChangeKinds
  BY FreshIn DEF ChangeKinds
<1>3. /\ commentRequest' \in [CommentSlots -> CommentRequest \cup {None}]
      /\ RequestsSound'
      /\ \A r \in CommentSlots : commentRequest[r] # None =>
            commentRequest'[r] = commentRequest[r]
  BY <1>1, <1>2, RequestAdded
<1>4. ops' \in 0..MaxOps
  BY <1>1, SpendIs DEF TimelineInv
<1>5. QuerySound'
  BY <1>1 DEF TimelineInv, QuerySound
<1>6. Excused => Excused'
  BY <1>1, <1>3 DEF Excused
<1>7. timeline' \in TimelineQuery
  BY <1>1, TimelineParts
<1> QED
  BY <1>1, <1>3, <1>4, <1>5, <1>6, <1>7, TimelineParts, OnlyQuery DEF TimelineInv

LEMMA DisplayedIs ==
  ASSUME TimelineInv, NEW c \in Comments, Displayed(c)
  PROVE  timeline.data \in Timeline /\ timeline.data[c] \in Entry
<1>1. timeline.data \in Timeline
  BY TimelineParts, TimelineFields DEF Displayed
<1> QED
  BY <1>1 DEF Displayed, Timeline

LEMMA ShownChangeSteps ==
  ASSUME TimelineInv, NEW s \in CommentSlots, NEW kind \in {"update", "resolve", "delete"},
         NEW c \in Comments, ChangeShownComment(s, kind, c)
  PROVE  TimelineInv'
<1>1. /\ commentRequest[s] = None /\ Displayed(c) /\ Spend
      /\ UNCHANGED <<conn, wire, comment, born, hookFirst>>
  BY DEF ChangeShownComment
<1>2. timeline.data \in Timeline /\ timeline.data[c] \in Entry
  BY <1>1, DisplayedIs
<1>3. kind \in ChangeKinds /\ kind # "create"
  BY DEF ChangeKinds
<1>4. PICK e \in Edits(kind, c, timeline.data[c]) :
         /\ timeline' = Write(Cancel(timeline),
                              IF kind = "delete" THEN Without(timeline.data, c)
                              ELSE With(timeline.data, c, e))
         /\ commentRequest' = [commentRequest EXCEPT ![s] =
               NewCommentRequest(kind, c, e, timeline.data)]
  BY DEF ChangeShownComment
<1>5. e \in Entry
  BY <1>2, <1>3, <1>4, EditsIn
<1> DEFINE d == IF kind = "delete" THEN Without(timeline.data, c)
                ELSE With(timeline.data, c, e)
<1>6. d \in Timeline /\ d # None
  <2>1. Without(timeline.data, c) \in Timeline
    BY <1>2, WithoutAt
  <2>2. With(timeline.data, c, e) \in Timeline
    BY <1>2, <1>5, WithAt
  <2> QED
    BY <2>1, <2>2, TimelineApart
<1>7. timeline' = Write(Cancel(timeline), d)
  BY <1>4
<1> HIDE DEF d
<1>8. timeline' \in TimelineQuery /\ timeline'.data # None /\ timeline'.owed = FALSE
      /\ timeline'.fetch = None
  <2>1. Cancel(timeline) \in TimelineQuery /\ Cancel(timeline).fetch = None
    BY TimelineParts, TimelineCancelled
  <2> QED
    BY <1>6, <1>7, <2>1, TimelineWritten
<1>9. /\ commentRequest' \in [CommentSlots -> CommentRequest \cup {None}]
      /\ RequestsSound'
      /\ commentRequest'[s] # None /\ commentRequest'[s].kind = kind
  BY <1>1, <1>2, <1>3, <1>4, <1>5, RequestAdded
<1>10. QuerySound'
  BY <1>8 DEF QuerySound
<1>11. Excused'
  BY <1>3, <1>9 DEF Excused
<1>12. ops' \in 0..MaxOps
  BY <1>1, SpendIs DEF TimelineInv
<1> QED
  BY <1>1, <1>8, <1>9, <1>10, <1>11, <1>12, TimelineParts, OnlyQuery DEF TimelineInv

LEMMA ToggleSteps ==
  ASSUME TimelineInv, NEW s \in CommentSlots, NEW c \in Comments, ToggleReaction(s, c)
  PROVE  TimelineInv'
<1>1. /\ commentRequest[s] = None /\ Displayed(c) /\ Spend
      /\ UNCHANGED <<conn, wire, comment, born, timeline, hookFirst>>
  BY DEF ToggleReaction
<1>2. timeline.data \in Timeline /\ timeline.data[c] \in Entry
  BY <1>1, DisplayedIs
<1>3. "react" \in ChangeKinds /\ None \in Timeline \cup {None}
  BY DEF ChangeKinds
<1>4. PICK e \in Edits("react", c, timeline.data[c]) :
         commentRequest' = [commentRequest EXCEPT ![s] =
            NewCommentRequest("react", c, e, None)]
  BY DEF ToggleReaction
<1>5. e \in Entry
  BY <1>2, <1>3, <1>4, EditsIn
<1>6. /\ commentRequest' \in [CommentSlots -> CommentRequest \cup {None}]
      /\ RequestsSound'
      /\ commentRequest'[s] # None /\ commentRequest'[s].kind = "react"
  BY <1>1, <1>3, <1>4, <1>5, RequestAdded
<1>7. timeline.data # None
  BY <1>1 DEF Displayed
<1>8. QuerySound'
  BY <1>1, <1>7 DEF TimelineInv, QuerySound
<1>9. Excused'
  BY <1>6 DEF Excused
<1>10. ops' \in 0..MaxOps
  BY <1>1, SpendIs DEF TimelineInv
<1>11. timeline' \in TimelineQuery
  BY <1>1, TimelineParts
<1> QED
  BY <1>1, <1>6, <1>8, <1>9, <1>10, <1>11, TimelineParts, OnlyQuery DEF TimelineInv

\* What a request that is over leaves flagged or fetched.
LEMMA OverInvalidated ==
  ASSUME TimelineInv, NEW q \in TimelineQuery, timeline' = Invalidate(q),
         q.mounted = timeline.mounted, q.fetch = timeline.fetch,
         q.owed => q.stale, q.data = None => timeline.data = None,
         UNCHANGED <<wire, comment>>,
         \A r \in CommentSlots : commentRequest[r] = None => commentRequest'[r] = None
  PROVE  timeline' \in TimelineQuery /\ QuerySound' /\ Excused'
<1>1. /\ timeline' \in TimelineQuery /\ timeline'.data = q.data
      /\ timeline'.mounted = q.mounted
      /\ q.data # None => timeline'.owed /\ timeline'.stale
      /\ q.data = None => timeline'.owed = q.owed /\ timeline'.stale = q.stale
      /\ q.mounted => timeline'.fetch # None
      /\ timeline'.fetch = q.fetch \/ timeline'.fetch = Fetching
      /\ q.fetch # None => timeline'.fetch # None
  BY TimelineInvalidated
<1>2. QuerySound
  BY DEF TimelineInv
<1>3. QuerySound'
  BY <1>1, <1>2, TimelineFetching DEF QuerySound
<1>4. Excused'
  BY <1>1 DEF Excused
<1> QED
  BY <1>1, <1>3, <1>4

LEMMA SucceedSteps ==
  ASSUME TimelineInv, NEW s \in CommentSlots, CommentRequestSucceeds(s)
  PROVE  TimelineInv'
<1> DEFINE q == commentRequest[s]
<1>1. /\ q # None /\ ~ q.sent
      /\ timeline' = IF q.kind = "create"
                     THEN CreatedResponse(timeline, q.comment, q.entry)
                     ELSE Invalidate(timeline)
      /\ commentRequest' = [commentRequest EXCEPT ![s] = None]
      /\ UNCHANGED <<conn, wire, ops, comment, born, hookFirst>>
  BY DEF CommentRequestSucceeds, socketVars
<1>2. /\ commentRequest' \in [CommentSlots -> CommentRequest \cup {None}]
      /\ RequestsSound'
      /\ \A r \in CommentSlots : r # s => commentRequest'[r] = commentRequest[r]
      /\ commentRequest'[s] = None
  BY <1>1, RequestOver
<1>3. q.comment \in Comments /\ q.entry \in Entry
  BY <1>1, RequestFields
<1>4. /\ QuerySound /\ RequestsSound /\ Ordered(wire) /\ wire \in Seq(CommentEvents)
      /\ Excused \/ Replay(wire, comment, timeline.data)
      /\ timeline \in TimelineQuery /\ comment \in Timeline
      /\ hookFirst \in BOOLEAN /\ conn \in {"up", "down"} /\ ops \in 0..MaxOps
  BY TimelineParts DEF TimelineInv
<1> HIDE DEF q
<1>5. CASE q.kind # "create"
  <2>1. timeline' = Invalidate(timeline)
    BY <1>1, <1>5
  <2>2. timeline.owed => timeline.stale
    BY <1>4 DEF QuerySound
  <2>3. \A r \in CommentSlots : commentRequest[r] = None => commentRequest'[r] = None
    BY <1>2
  <2>4. timeline' \in TimelineQuery /\ QuerySound' /\ Excused'
    BY <1>1, <1>4, <2>1, <2>2, <2>3, OverInvalidated
  <2> QED
    BY <1>1, <1>2, <1>4, <2>4, OnlyQuery
<1>6. CASE q.kind = "create"
  <2> DEFINE n == Created(timeline, q.comment, q.entry)
             late == n.data # timeline.data /\ comment[q.comment] = None
  <2>1. timeline' = IF late THEN [n EXCEPT !.doubt = @ \cup {"late"}] ELSE n
    BY <1>1, <1>6 DEF CreatedResponse
  <2>2. /\ n \in TimelineQuery /\ n.data # None
        /\ n.fetch = timeline.fetch /\ n.mounted = timeline.mounted
        /\ n.stale = FALSE /\ n.owed = FALSE
        /\ timeline.doubt # {} \/ (timeline.owed /\ timeline.fetch = None) => n.doubt # {}
        /\ timeline.data # None => n.data = Appended1(timeline.data, q.comment, q.entry)
    BY <1>3, <1>4, CreatedIs
  <2>l. late <=> (n.data # timeline.data /\ comment[q.comment] = None)
    OBVIOUS
  <2> HIDE DEF n, late
  <2>3. /\ timeline' \in TimelineQuery /\ timeline'.data = n.data
        /\ timeline'.fetch = n.fetch /\ timeline'.mounted = n.mounted
        /\ timeline'.stale = n.stale /\ timeline'.owed = n.owed
        /\ n.doubt # {} \/ late => timeline'.doubt # {}
    <3>1. CASE late
      <4>1. "late" \in Doubts
        BY DEF Doubts
      <4>2. LET m == [n EXCEPT !.doubt = @ \cup {"late"}]
            IN  /\ m \in TimelineQuery /\ m.data = n.data /\ m.fetch = n.fetch
                /\ m.mounted = n.mounted /\ m.stale = n.stale /\ m.owed = n.owed
                /\ m.doubt # {}
        BY <2>2, <4>1, TimelineDoubted
      <4> QED
        BY <2>1, <3>1, <4>2
    <3>2. CASE ~ late
      BY <2>1, <2>2, <3>2
    <3> QED
      BY <3>1, <3>2
  <2>4. QuerySound'
    BY <1>1, <1>4, <2>2, <2>3 DEF QuerySound
  <2>5. Excused' \/ Replay(wire, comment, timeline'.data)
    <3>1. CASE Excused
      <4>1. timeline.data = None => timeline.fetch # None
        BY <1>1, <1>4 DEF QuerySound, q
      <4>2. \A r \in CommentSlots :
               commentRequest[r] # None /\ commentRequest[r].kind # "create" =>
                  commentRequest'[r] = commentRequest[r]
        BY <1>2, <1>6 DEF q
      <4> QED
        BY <1>1, <2>2, <2>3, <3>1, <4>1, <4>2 DEF Excused
    <3>2. CASE ~ Excused /\ ~ late
      <4>1. timeline.data # None /\ Replay(wire, comment, timeline.data)
        BY <1>4, <3>2 DEF Excused
      <4>2. timeline.data \in Timeline
        BY <1>4, <4>1, TimelineFields
      <4>3. CASE n.data = timeline.data
        BY <2>3, <4>1, <4>3
      <4>4. CASE n.data # timeline.data
        <5>1. /\ timeline.data[q.comment] = None
              /\ n.data = With(timeline.data, q.comment, q.entry)
          BY <2>2, <4>1, <4>4 DEF Appended1
        <5>2. comment[q.comment] # None
          BY <2>l, <3>2, <4>4
        <5>3. \A i \in 1..Len(wire) :
                 CreateOf(wire[i], q.comment) => wire[i].entry = q.entry
          BY <1>1, <1>4, <1>6 DEF RequestsSound, q
        <5>4. Replay(wire, comment, n.data)
          BY <1>3, <1>4, <4>1, <4>2, <5>1, <5>2, <5>3, ReplayEarly
        <5> QED
          BY <2>3, <5>4
      <4> QED
        BY <4>3, <4>4
    <3>3. CASE late
      BY <2>3, <3>3 DEF Excused
    <3> QED
      BY <3>1, <3>2, <3>3
  <2> QED
    BY <1>1, <1>2, <1>4, <2>3, <2>4, <2>5, OnlyQuery
<1> QED
  BY <1>5, <1>6

LEMMA FailSteps ==
  ASSUME TimelineInv, NEW s \in CommentSlots, CommentRequestFails(s)
  PROVE  TimelineInv'
<1> DEFINE q == commentRequest[s]
<1>1. /\ q # None
      /\ timeline' = IF q.kind = "create" THEN timeline
                     ELSE Invalidate(IF q.prev = None THEN timeline
                                     ELSE Write(timeline, q.prev))
      /\ commentRequest' = [commentRequest EXCEPT ![s] = None]
      /\ UNCHANGED <<conn, wire, ops, comment, born, hookFirst>>
  BY DEF CommentRequestFails, socketVars
<1>2. /\ commentRequest' \in [CommentSlots -> CommentRequest \cup {None}]
      /\ RequestsSound'
      /\ \A r \in CommentSlots : r # s => commentRequest'[r] = commentRequest[r]
      /\ commentRequest'[s] = None
  BY <1>1, RequestOver
<1>3. q.prev \in Timeline \cup {None}
  BY <1>1, RequestFields
<1>4. /\ QuerySound /\ (Excused \/ Replay(wire, comment, timeline.data))
      /\ timeline \in TimelineQuery
      /\ hookFirst \in BOOLEAN /\ conn \in {"up", "down"} /\ ops \in 0..MaxOps
  BY TimelineParts DEF TimelineInv
<1> HIDE DEF q
<1>5. CASE q.kind # "create"
  <2> DEFINE n == IF q.prev = None THEN timeline ELSE Write(timeline, q.prev)
  <2>1. timeline' = Invalidate(n)
    BY <1>1, <1>5
  <2>2. /\ n \in TimelineQuery /\ n.mounted = timeline.mounted /\ n.fetch = timeline.fetch
        /\ n.owed => n.stale
        /\ n.data = None => timeline.data = None
    <3>1. CASE q.prev = None
      BY <1>4, <3>1 DEF QuerySound
    <3>2. CASE q.prev # None
      <4>1. q.prev \in Timeline
        BY <1>3, <3>2
      <4> QED
        BY <1>4, <3>2, <4>1, TimelineWritten, TimelineApart
    <3> QED
      BY <3>1, <3>2
  <2> HIDE DEF n
  <2>3. \A r \in CommentSlots : commentRequest[r] = None => commentRequest'[r] = None
    BY <1>2
  <2>4. timeline' \in TimelineQuery /\ QuerySound' /\ Excused'
    BY <1>1, <2>1, <2>2, <2>3, OverInvalidated
  <2> QED
    BY <1>1, <1>2, <1>4, <2>4, OnlyQuery
<1>6. CASE q.kind = "create"
  <2>1. timeline' = timeline
    BY <1>1, <1>6
  <2>2. QuerySound'
    BY <1>1, <1>2, <1>4, <2>1 DEF QuerySound
  <2>3. Excused => Excused'
    <3>1. \A r \in CommentSlots :
             commentRequest[r] # None /\ commentRequest[r].kind # "create" =>
                commentRequest'[r] = commentRequest[r]
      BY <1>2, <1>6 DEF q
    <3> QED
      BY <1>1, <2>1, <3>1 DEF Excused
  <2> QED
    BY <1>1, <1>2, <1>4, <2>1, <2>2, <2>3, OnlyQuery
<1> QED
  BY <1>5, <1>6

LEMMA AbsentTimeline ==
  /\ Absent \in TimelineQuery /\ Absent.data = None /\ Absent.mounted = FALSE
  /\ Absent.owed = FALSE /\ Absent.fetch = None
  /\ Mount(Absent) \in TimelineQuery /\ Mount(Absent).data = None
  /\ Mount(Absent).owed = FALSE /\ Mount(Absent).mounted = TRUE
  /\ Mount(Absent).fetch = Fetching
<1>1. Absent \in TimelineQuery
  BY DEF Absent, TimelineQuery, Query
<1>2. /\ Absent.data = None /\ Absent.mounted = FALSE /\ Absent.fetch = None
      /\ Absent.owed = FALSE
  BY DEF Absent
<1> QED
  BY <1>1, <1>2, TimelineMounted

LEMMA TimelineStart == SocketInit /\ TimelineInit => TimelineInv
<1> SUFFICES ASSUME SocketInit, TimelineInit PROVE TimelineInv
  OBVIOUS
<1>1. /\ conn = "up" /\ wire = <<>> /\ ops = 0 /\ born \in SUBSET Comments
      /\ comment = [c \in Comments |-> IF c \in born THEN Fresh(FirstText) ELSE None]
      /\ \A c \in born : ParentOf[c] # None => ParentOf[c] \in born
      /\ hookFirst \in BOOLEAN
      /\ timeline = IF hookFirst THEN Mount(Absent) ELSE Absent
      /\ commentRequest = [r \in CommentSlots |-> None]
  BY DEF SocketInit, TimelineInit
<1>2. Fresh(FirstText) \in Entry /\ Fresh(FirstText) # None
  BY FreshIn, TimelineApart, TimelineAssumption
<1>3. comment \in Timeline /\ \A c \in Comments : comment[c] # None <=> c \in born
  BY <1>1, <1>2 DEF Timeline
<1>4. \A c \in Comments : ParentOf[c] \in Comments \cup {None}
  BY TimelineAssumption
<1>5. CommentsSound
  BY <1>1, <1>3, <1>4 DEF CommentsSound, Rooted
<1>6. Ordered(wire)
  BY <1>1 DEF Ordered
<1>7. /\ timeline \in TimelineQuery /\ timeline.data = None /\ timeline.owed = FALSE
      /\ timeline.fetch = None => ~ timeline.mounted
      /\ timeline.fetch \in {None, Fetching}
  BY <1>1, AbsentTimeline, TimelineFetching
<1>8. QuerySound
  BY <1>1, <1>7, TimelineFetching DEF QuerySound
<1>9. RequestsSound
  BY <1>1 DEF RequestsSound
<1>10. Excused
  BY <1>7 DEF Excused
<1>11. TimelineTypeOK
  BY <1>1, <1>3, <1>7 DEF TimelineTypeOK, TimelineQuery
<1>12. ops \in 0..MaxOps
  BY <1>1, TimelineAssumption
<1> QED
  BY <1>1, <1>5, <1>6, <1>8, <1>9, <1>10, <1>11, <1>12 DEF TimelineInv

LEMMA TimelineStep == TimelineInv /\ TimelineNext => TimelineInv'
<1> SUFFICES ASSUME TimelineInv, TimelineNext PROVE TimelineInv'
  OBVIOUS
<1>1. CASE \E kind \in {"create", "update", "resolve", "react", "delete"}, c \in Comments :
              CommentChangesElsewhere(kind, c)
  BY <1>1, ElsewhereSteps DEF ChangeKinds
<1>2. CASE AnswerTimeline
  BY <1>2, AnswerSteps
<1>3. CASE LandTimeline
  BY <1>3, LandSteps
<1>4. CASE OpenTimeline \/ CloseTimeline
  BY <1>4, ShownSteps
<1>5. CASE RefetchTimeline
  BY <1>5, RefetchSteps
<1>6. CASE ReceiveCommentEvent
  BY <1>6, ReceiveSteps
<1>7. CASE Disconnect /\ UNCHANGED timelineVars
  BY <1>7, DisconnectSteps
<1>8. CASE \E r \in CommentSlots, c \in Comments, t \in Texts : SubmitComment(r, c, t)
  BY <1>8, SubmitSteps
<1>9. CASE \E r \in CommentSlots, kind \in {"update", "resolve", "delete"}, c \in Comments :
              ChangeShownComment(r, kind, c)
  BY <1>9, ShownChangeSteps
<1>10. CASE \E r \in CommentSlots, c \in Comments : ToggleReaction(r, c)
  BY <1>10, ToggleSteps
<1>11. CASE \E r \in CommentSlots : \/ CommitCommentRequest(r)
                                    \/ CommentRequestSucceeds(r)
                                    \/ CommentRequestFails(r)
  BY <1>11, CommitSteps, SucceedSteps, FailSteps
<1> QED
  BY <1>1, <1>2, <1>3, <1>4, <1>5, <1>6, <1>7, <1>8, <1>9, <1>10, <1>11 DEF TimelineNext

LEMMA TimelineUnchanged ==
  TimelineInv /\ UNCHANGED <<socketVars, timelineVars>> => TimelineInv'
<1> SUFFICES ASSUME TimelineInv, UNCHANGED <<socketVars, timelineVars>> PROVE TimelineInv'
  OBVIOUS
<1>1. UNCHANGED <<conn, wire, ops, comment, born, timeline, hookFirst, commentRequest>>
  BY DEF socketVars, timelineVars
<1>2. RequestsSound' /\ QuerySound'
  BY <1>1 DEF TimelineInv, RequestsSound, QuerySound
<1>3. Excused' \/ Replay(wire, comment, timeline'.data)
  BY <1>1 DEF TimelineInv, Excused
<1> QED
  BY <1>1, <1>2, <1>3, TimelineParts, OnlyQuery DEF TimelineInv

LEMMA TimelineRest == TimelineInv => TimelineExact
<1> SUFFICES ASSUME TimelineInv, wire = <<>>, conn = "up", timeline.fetch = None,
                    \A r \in CommentSlots : commentRequest[r] = None
             PROVE  /\ timeline.mounted => timeline.data # None
                    /\ (/\ timeline.data # None /\ timeline.doubt = {}
                        /\ timeline.mounted \/ ~ timeline.stale)
                          => timeline.data = comment
  BY DEF TimelineExact
<1>1. timeline.mounted => timeline.data # None
  BY DEF TimelineInv, QuerySound
<1>2. ASSUME timeline.data # None, timeline.doubt = {}, timeline.mounted \/ ~ timeline.stale
      PROVE  timeline.data = comment
  <2>1. ~ timeline.owed
    BY <1>2 DEF TimelineInv, QuerySound
  <2>2. Replay(<<>>, comment, timeline.data)
    BY <1>2, <2>1 DEF TimelineInv, Excused
  <2>3. timeline.data \in Timeline
    BY <1>2, TimelineParts, TimelineFields
  <2> QED
    BY <2>2, <2>3, TimelineParts, ReplayDone
<1> QED
  BY <1>1, <1>2

\* A behaviour of WebClient that is about another part leaves the timeline as it began.
TimelinePart ==
  IF part = "timeline" THEN TimelineInv ELSE timeline \in {Absent, Mount(Absent)}

LEMMA TimelinePartStep == TimelinePart /\ [WebNext]_webVars => TimelinePart'
<1> SUFFICES ASSUME TimelinePart, [WebNext]_webVars PROVE TimelinePart'
  OBVIOUS
<1>1. CASE TimelineMoves
  BY <1>1, TimelineStep DEF TimelineMoves, TimelinePart
<1>2. CASE BoardMoves \/ WorkspaceMoves \/ ChatMoves
  <2>1. part # "timeline" /\ UNCHANGED <<part, timelineVars>>
    BY <1>2 DEF BoardMoves, WorkspaceMoves, ChatMoves
  <2> QED
    BY <2>1 DEF TimelinePart, timelineVars
<1>3. CASE UNCHANGED webVars
  <2>1. UNCHANGED <<part, socketVars, timelineVars>>
    BY <1>3 DEF webVars
  <2>2. TimelineInv => TimelineInv'
    BY <2>1, TimelineUnchanged
  <2> QED
    BY <2>1, <2>2 DEF TimelinePart, timelineVars
<1> QED
  BY <1>1, <1>2, <1>3 DEF WebNext

LEMMA TimelinePartExact == TimelinePart => TimelineExact
<1>1. TimelineInv => TimelineExact
  BY TimelineRest
<1>2. timeline \in {Absent, Mount(Absent)} => TimelineExact
  BY AbsentTimeline, TimelineFetching DEF TimelineExact
<1> QED
  BY <1>1, <1>2 DEF TimelinePart

\* At rest the open timeline has data, and data that nothing is going to fetch again is the
\* server's: the handlers of use-issue-timeline.ts, patching event by event, and the writes,
\* snapshots and roll-backs of the comment mutations lead to what the server holds, for any
\* threads, any number of requests in flight and any interleaving, the reasons that doubt
\* names aside.
THEOREM TimelineSettles == WebSpec => []TimelineExact
<1>1. WebInit => TimelinePart
  BY TimelineStart DEF WebInit, TimelinePart, TimelineInit
<1> QED
  BY <1>1, TimelinePartStep, TimelinePartExact, PTL DEF WebSpec

\* The same of the comments of one issue by themselves.
THEOREM TimelineSynchronised == TimelineSpec => []TimelineExact
<1>1. SocketInit /\ TimelineInit => TimelineInv
  BY TimelineStart
<1>2. TimelineInv /\ [TimelineNext]_<<socketVars, timelineVars>> => TimelineInv'
  BY TimelineStep, TimelineUnchanged
<1> QED
  BY <1>1, <1>2, TimelineRest, PTL DEF TimelineSpec

-----------------------------------------------------------------------------
(***************************************************************************)
(* The issue board beside the other parts.                                 *)
(***************************************************************************)
\* Beside another part, the first load of the board never ends.
BoardPart == IF part = "board" THEN BoardInv ELSE list.fetch # None

LEMMA BoardLoads == Mount(Absent).fetch # None
<1>1. None \notin Fetches(Paginated \X Bucket)
  BY IssuesAssumption
<1>2. Fetching # None
  BY <1>1, FetchStarts
<1> QED
  BY <1>2 DEF Mount, Absent

LEMMA BoardPartStart == WebInit => BoardPart
<1> SUFFICES ASSUME WebInit PROVE BoardPart
  OBVIOUS
<1>1. SocketInit /\ BoardInit
  BY DEF WebInit
<1>2. BoardInv
  BY <1>1, BoardStart
<1>3. ASSUME part # "board" PROVE list.fetch # None
  <2>1. list = Mount(Absent)
    BY <1>3 DEF WebInit, BoardInit
  <2> QED
    BY <2>1, BoardLoads
<1> QED
  BY <1>2, <1>3 DEF BoardPart

LEMMA BoardPartStep == BoardPart /\ [WebNext]_webVars => BoardPart'
<1> SUFFICES ASSUME BoardPart, [WebNext]_webVars PROVE BoardPart'
  OBVIOUS
<1>1. CASE BoardMoves
  <2>1. part = "board" /\ part' = part /\ BoardNext
    BY <1>1 DEF BoardMoves
  <2>2. BoardInv'
    BY <2>1, BoardSteps DEF BoardPart
  <2> QED
    BY <2>1, <2>2 DEF BoardPart
<1>2. CASE TimelineMoves \/ WorkspaceMoves \/ ChatMoves
  <2>1. part # "board" /\ UNCHANGED <<part, list>>
    BY <1>2 DEF TimelineMoves, WorkspaceMoves, ChatMoves, boardVars
  <2> QED
    BY <2>1 DEF BoardPart
<1>3. CASE UNCHANGED webVars
  <2>1. UNCHANGED <<part, list>> /\ UNCHANGED <<socketVars, boardVars>>
    BY <1>3 DEF webVars, boardVars
  <2>2. BoardInv => BoardInv'
    BY <2>1, BoardUnchanged
  <2> QED
    BY <2>1, <2>2 DEF BoardPart
<1> QED
  BY <1>1, <1>2, <1>3 DEF WebNext

\* BoardExact and DetailExact hold of the client of the runs, whichever part moves.
THEOREM BoardSynchronised == WebSpec => [](BoardExact /\ DetailExact)
<1>1. BoardPart => BoardExact /\ DetailExact
  <2>1. BoardInv => BoardExact /\ DetailExact
    BY BoardRest
  <2>2. list.fetch # None => BoardExact /\ DetailExact
    BY DEF BoardExact, DetailExact, BoardAtRest
  <2> QED
    BY <2>1, <2>2 DEF BoardPart
<1> QED
  BY <1>1, BoardPartStart, BoardPartStep, PTL DEF WebSpec

-----------------------------------------------------------------------------
(***************************************************************************)
(* The chat beside the other parts.                                        *)
(***************************************************************************)
ChatPart == IF part = "chat" THEN ChatInv ELSE ChatInit

LEMMA ChatInitStays == ChatInit /\ UNCHANGED chatVars => ChatInit'
BY DEF ChatInit, chatVars

LEMMA ChatPartStart == WebInit => ChatPart
BY ChatStarts DEF WebInit, ChatPart

LEMMA ChatPartStep == ChatPart /\ [WebNext]_webVars => ChatPart'
<1> SUFFICES ASSUME ChatPart, [WebNext]_webVars PROVE ChatPart'
  OBVIOUS
<1>1. CASE ChatMoves
  <2>1. part = "chat" /\ part' = part /\ ChatNext
    BY <1>1 DEF ChatMoves
  <2>2. ChatInv'
    BY <2>1, ChatKeeps DEF ChatPart
  <2> QED
    BY <2>1, <2>2 DEF ChatPart
<1>2. CASE BoardMoves \/ TimelineMoves \/ WorkspaceMoves
  <2>1. part # "chat" /\ UNCHANGED <<part, chatVars>>
    BY <1>2 DEF BoardMoves, TimelineMoves, WorkspaceMoves
  <2>2. ChatInit => ChatInit'
    BY <2>1, ChatInitStays
  <2> QED
    BY <2>1, <2>2 DEF ChatPart
<1>3. CASE UNCHANGED webVars
  <2>1. UNCHANGED <<part, socketVars, chatVars>>
    BY <1>3 DEF webVars
  <2>2. ChatInv => ChatInv'
    BY <2>1, ChatStutters
  <2>3. ChatInit => ChatInit'
    BY <2>1, ChatInitStays
  <2> QED
    BY <2>1, <2>2, <2>3 DEF ChatPart
<1> QED
  BY <1>1, <1>2, <1>3 DEF WebNext

LEMMA ChatPartShown == ChatPart => ChatTypeOK /\ PillHonest /\ MessagesExact /\ UnreadShown
BY ChatShown, ChatOpens DEF ChatPart

LEMMA ChatPartAlways == WebSpec => []ChatPart
<1> QED
  BY ChatPartStart, ChatPartStep, PTL DEF WebSpec

\* At rest the status pill of a session shows the task the server has for it, and none
\* when there is none, the reasons that doubt names aside: for any number of sessions,
\* tasks and requests in flight, whatever order the handlers of use-realtime-sync.ts, the
\* sends and stops of chat-window.tsx and the answers of fetches come in.
THEOREM ChatPillHonest == WebSpec => []PillHonest
<1> QED
  BY ChatPartShown, ChatPartAlways, PTL

\* At rest the messages of a session are the server's: the optimistic message of handleSend
\* and the reply applyChatDoneToCache appends are replaced, kept or taken back as the
\* server's answers say, the reasons that doubt names aside.
THEOREM ChatMessagesExact == WebSpec => []MessagesExact
<1> QED
  BY ChatPartShown, ChatPartAlways, PTL

\* At rest the list has each session there is with its unread mark, whichever marks,
\* deletions and roll-backs of packages/core/chat/mutations.ts crossed the events of other
\* tabs, the reasons that doubt names aside.
THEOREM ChatUnreadShown == WebSpec => []UnreadShown
<1> QED
  BY ChatPartShown, ChatPartAlways, PTL

\* The same of the chat by itself.
THEOREM ChatSynchronised == ChatSpec => [](PillHonest /\ MessagesExact /\ UnreadShown)
<1>1. ChatInv => PillHonest /\ MessagesExact /\ UnreadShown
  BY ChatShown
<1> QED
  BY <1>1, ChatInvariant, PTL

-----------------------------------------------------------------------------
(***************************************************************************)
(* The types of the four parts.                                            *)
(***************************************************************************)
LEMMA BoardTypes == BoardInv => BoardTypeOK
<1> SUFFICES ASSUME BoardInv PROVE BoardTypeOK
  OBVIOUS
<1>1. BoardTyped /\ MoreSound(more, serverIssue, wire)
  BY DEF BoardInv
<1> QED
  BY <1>1 DEF BoardTyped, MoreSound, BoardTypeOK, ListQuery, DetailQuery, Servers

\* The part that moves keeps its invariant, the others their types.
TypedPart ==
    /\ IF part = "board" THEN BoardInv ELSE BoardTypeOK
    /\ IF part = "timeline" THEN TimelineInv ELSE TimelineTypeOK
    /\ IF part = "workspace" THEN SyncInv ELSE WorkspaceTypeOK
    /\ IF part = "chat" THEN ChatInv ELSE ChatTypeOK

LEMMA InvTypes == /\ TimelineInv => TimelineTypeOK
                  /\ SyncInv => WorkspaceTypeOK
                  /\ ChatInv => ChatTypeOK
BY DEF TimelineInv, SyncInv, ChatInv, ChatBase

\* A part that does not move keeps its type.
LEMMA TypesStay == /\ BoardTypeOK /\ UNCHANGED boardVars => BoardTypeOK'
                   /\ TimelineTypeOK /\ UNCHANGED timelineVars => TimelineTypeOK'
                   /\ WorkspaceTypeOK /\ UNCHANGED workspaceVars => WorkspaceTypeOK'
                   /\ ChatTypeOK /\ UNCHANGED chatVars => ChatTypeOK'
<1>1. BoardTypeOK /\ UNCHANGED boardVars => BoardTypeOK'
  BY DEF BoardTypeOK, boardVars
<1>2. TimelineTypeOK /\ UNCHANGED timelineVars => TimelineTypeOK'
  BY DEF TimelineTypeOK, timelineVars
<1>3. WorkspaceTypeOK /\ UNCHANGED workspaceVars => WorkspaceTypeOK'
  BY DEF WorkspaceTypeOK, workspaceVars
<1>4. ChatTypeOK /\ UNCHANGED chatVars => ChatTypeOK'
  BY DEF ChatTypeOK, chatVars
<1> QED
  BY <1>1, <1>2, <1>3, <1>4

LEMMA TypedStart == WebInit => TypedPart
<1> SUFFICES ASSUME WebInit PROVE TypedPart
  OBVIOUS
<1>1. BoardInv /\ TimelineInv /\ SyncInv /\ ChatInv
  BY BoardStart, TimelineStart, SyncStart, ChatStarts DEF WebInit
<1> QED
  BY <1>1, BoardTypes, InvTypes DEF TypedPart

LEMMA TypedStep == TypedPart /\ [WebNext]_webVars => TypedPart'
<1> SUFFICES ASSUME TypedPart, [WebNext]_webVars PROVE TypedPart'
  OBVIOUS
<1>1. CASE BoardMoves
  <2>1. /\ part = "board" /\ part' = part /\ BoardNext
        /\ UNCHANGED timelineVars /\ UNCHANGED workspaceVars /\ UNCHANGED chatVars
    BY <1>1 DEF BoardMoves
  <2>2. BoardInv'
    BY <2>1, BoardSteps DEF TypedPart
  <2> QED
    BY <2>1, <2>2, TypesStay DEF TypedPart
<1>2. CASE TimelineMoves
  <2>1. /\ part = "timeline" /\ part' = part /\ TimelineNext
        /\ UNCHANGED boardVars /\ UNCHANGED workspaceVars /\ UNCHANGED chatVars
    BY <1>2 DEF TimelineMoves
  <2>2. TimelineInv'
    BY <2>1, TimelineStep DEF TypedPart
  <2> QED
    BY <2>1, <2>2, TypesStay DEF TypedPart
<1>3. CASE WorkspaceMoves
  <2>1. /\ part = "workspace" /\ part' = part /\ WorkspaceNext
        /\ UNCHANGED boardVars /\ UNCHANGED timelineVars /\ UNCHANGED chatVars
    BY <1>3 DEF WorkspaceMoves
  <2>2. SyncInv'
    BY <2>1, SyncStep DEF TypedPart
  <2> QED
    BY <2>1, <2>2, TypesStay DEF TypedPart
<1>4. CASE ChatMoves
  <2>1. /\ part = "chat" /\ part' = part /\ ChatNext
        /\ UNCHANGED boardVars /\ UNCHANGED timelineVars /\ UNCHANGED workspaceVars
    BY <1>4 DEF ChatMoves
  <2>2. ChatInv'
    BY <2>1, ChatKeeps DEF TypedPart
  <2> QED
    BY <2>1, <2>2, TypesStay DEF TypedPart
<1>5. CASE UNCHANGED webVars
  <2>1. /\ UNCHANGED part /\ UNCHANGED socketVars /\ UNCHANGED boardVars
        /\ UNCHANGED timelineVars /\ UNCHANGED workspaceVars /\ UNCHANGED chatVars
    BY <1>5 DEF webVars
  <2>2. /\ BoardInv => BoardInv'
        /\ TimelineInv => TimelineInv'
        /\ SyncInv => SyncInv'
        /\ ChatInv => ChatInv'
    BY <2>1, BoardUnchanged, TimelineUnchanged, SyncUnchanged, ChatStutters
  <2> QED
    BY <2>1, <2>2, TypesStay DEF TypedPart
<1> QED
  BY <1>1, <1>2, <1>3, <1>4, <1>5 DEF WebNext

\* Every variable of the four parts holds a value of its kind, for any issues, comments,
\* workspaces and sessions: among others no handler of an event, an answer or a failed
\* request leaves a bucket with a negative count, or a query with another query's data.
THEOREM WebTypes == WebSpec => []WebTypeOK
<1>1. TypedPart => WebTypeOK
  BY BoardTypes, InvTypes DEF TypedPart, WebTypeOK
<1> QED
  BY <1>1, TypedStart, TypedStep, PTL DEF WebSpec
============================================================================
