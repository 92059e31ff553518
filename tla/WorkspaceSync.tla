---------------------------- MODULE WorkspaceSync ----------------------------
(***************************************************************************)
(* The workspace-wide queries of the web client: agents, squads, projects, *)
(* labels, pins and the like.  An event says only which of them to fetch   *)
(* again, 100 ms after the last event of its kind                          *)
(* (packages/core/realtime/use-realtime-sync.ts); the user's mutations     *)
(* write ahead of the server and roll back (the mutations.ts files of      *)
(* packages/core); switching workspaces replaces the WebSocket client and  *)
(* recovers what was missed.                                               *)
(*                                                                         *)
(* What the server holds under a key is the set of changes made to it.     *)
(***************************************************************************)
EXTENDS WebSocketClient

CONSTANTS Workspaces,
          Views,          \* bound: the sets of keys a page reads
          Prefixes,       \* bound: the kinds of events others cause
          UserMutations   \* bound: the mutations the user makes

VARIABLES
    \* the server: what it holds under each key, and the changes of
    \* each workspace's issue prefix
    held, prefix,
    \* the queries of each workspace by key, and workspaceKeys.list
    cache, directory,
    \* the current workspace, whether useRealtimeSync has taken up its client,
    \* and the keys the page reads
    current, adopted, view,
    \* the debounce timers, by the prefix of their event
    timers,
    \* a mutation of the user in flight
    mutation

workspaceVars ==
    <<held, prefix, cache, directory, current, adopted, view, timers, mutation>>

Keys == UNION Views

\* Variant of Refreshed: the issues that carry a label are forgotten.
RefreshedLabelOnly ==
    [inbox |-> {"inbox"}, agent |-> {"agents"}, member |-> {"members"},
     workspace |-> {}, skill |-> {"skills"}, project |-> {"projects"},
     squad |-> {"squads"}, label |-> {"labels"}, pin |-> {"pins"},
     daemon |-> {"runtimes"}, autopilot |-> {"autopilots"},
     github_installation |-> {"installations"}, task |-> {"tasks"}]

\* refreshMap: what an event of a prefix makes stale, after the debounce.  The
\* prefix "workspace" refreshes the list of workspaces as well.
Refreshed ==
    [inbox |-> {"inbox"}, agent |-> {"agents", "squads"}, member |-> {"members"},
     workspace |-> {}, skill |-> {"skills"}, project |-> {"projects"},
     squad |-> {"squads", "issues"}, label |-> {"labels", "issues"},
     pin |-> {"pins"}, daemon |-> {"runtimes", "squads"},
     autopilot |-> {"autopilots"}, github_installation |-> {"installations"},
     task |-> {"tasks", "squads"}]

\* invalidateWorkspaceScopedQueries, which flags the list of workspaces too.
\* Of the keys above it lacks labels, pins and installations.
Recovered == {"issues", "inbox", "agents", "members", "squads", "skills",
              "projects", "runtimes", "autopilots", "tasks"}

\* What a mutation does to its key, and the keys it flags when it settles.
Mutating(key, writes, settles) ==
    [key |-> key, writes |-> writes, settles |-> settles]

LabelMutations ==
    [createLabel |-> Mutating("labels", "after", {"labels"}),
     updateLabel |-> Mutating("labels", "before", {"labels", "issues"}),
     deleteLabel |-> Mutating("labels", "before", {"labels", "issues"})]

PinMutations ==
    [createPin |-> Mutating("pins", "after", {"pins"}),
     deletePin |-> Mutating("pins", "before", {"pins"}),
     reorderPins |-> Mutating("pins", "before", {})]

ProjectMutations ==
    [createProject |-> Mutating("projects", "after", {"projects"}),
     updateProject |-> Mutating("projects", "before", {"projects"}),
     deleteProject |-> Mutating("projects", "before", {"projects"})]

AutopilotMutations ==
    [createAutopilot |-> Mutating("autopilots", "after", {"autopilots"}),
     updateAutopilot |-> Mutating("autopilots", "before", {"autopilots"}),
     deleteAutopilot |-> Mutating("autopilots", "before", {"autopilots"})]

InboxMutations ==
    [markInboxRead |-> Mutating("inbox", "before", {"inbox"}),
     archiveInbox |-> Mutating("inbox", "before", {"inbox"}),
     markAllInboxRead |-> Mutating("inbox", "before", {"inbox"}),
     archiveAllInbox |-> Mutating("inbox", "never", {"inbox"})]

PreferenceMutations ==
    [updateNotificationPreferences |->
        Mutating("preferences", "before", {"preferences"})]

RuntimeMutations ==
    [deleteRuntime |-> Mutating("runtimes", "never", {"runtimes"}),
     updateRuntime |-> Mutating("runtimes", "never", {"runtimes"})]

\* performSave of the workspace's settings, without and with a new prefix.
SettingsMutations ==
    [saveName |-> Mutating("workspace", "after", {}),
     savePrefix |-> Mutating("workspace", "after", {"issues"})]

MutationKinds ==
    DOMAIN LabelMutations \cup DOMAIN PinMutations \cup DOMAIN ProjectMutations
    \cup DOMAIN AutopilotMutations \cup DOMAIN InboxMutations
    \cup DOMAIN PreferenceMutations \cup DOMAIN RuntimeMutations
    \cup DOMAIN SettingsMutations

Mutations ==
    [m \in MutationKinds |->
        CASE m \in DOMAIN LabelMutations -> LabelMutations[m]
          [] m \in DOMAIN PinMutations -> PinMutations[m]
          [] m \in DOMAIN ProjectMutations -> ProjectMutations[m]
          [] m \in DOMAIN AutopilotMutations -> AutopilotMutations[m]
          [] m \in DOMAIN InboxMutations -> InboxMutations[m]
          [] m \in DOMAIN PreferenceMutations -> PreferenceMutations[m]
          [] m \in DOMAIN RuntimeMutations -> RuntimeMutations[m]
          [] m \in DOMAIN SettingsMutations -> SettingsMutations[m]]

OfSettings(m) == m \in DOMAIN SettingsMutations

Changes == 1..MaxOps

Held == SUBSET Changes

Directory == [Workspaces -> Held]

WorkspaceEvent == [type : DOMAIN Refreshed, change : Changes, prefix : Held]

Mutation == [kind : MutationKinds, of : Workspaces, change : Changes,
             sent : BOOLEAN, prev : Held \cup {None}, answer : Held]

WorkspaceTypeOK ==
    /\ held \in [Workspaces -> [Keys -> Held]] /\ prefix \in Directory
    /\ cache \in [Workspaces -> [Keys -> Query(Held, {"rows"} \X Held)]]
    /\ directory \in Query(Directory, {"rows"} \X Directory)
    /\ current \in Workspaces /\ adopted \in BOOLEAN /\ view \in Views
    /\ timers \in SUBSET DOMAIN Refreshed
    /\ mutation \in Mutation \cup {None}

Loaded1(d) == [Absent EXCEPT !.data = d, !.mounted = TRUE]

\* The route has found the workspace in the list, and its page is loaded.
WorkspaceInit ==
    /\ held = [w \in Workspaces |-> [k \in Keys |-> {}]]
    /\ prefix = [w \in Workspaces |-> {}]
    /\ current \in Workspaces /\ adopted = TRUE /\ view \in Views
    /\ cache = [w \in Workspaces |-> [k \in Keys |->
                  IF w = current /\ k \in view THEN Loaded1({}) ELSE Absent]]
    /\ directory = Loaded1(prefix)
    /\ timers = {} /\ mutation = None

\* Op(q) for the queries of workspace w under the keys ks.
At(c, w, ks, Op(_)) ==
    [c EXCEPT ![w] = [k \in Keys |-> IF k \in ks THEN Op(@[k]) ELSE @[k]]]

Doubted(q, d) == IF q.data = None THEN q ELSE [q EXCEPT !.doubt = @ \cup {d}]

\* Events that were sent or were to come will not: what no reconnection
\* fetches again is in doubt.
Unrecovered(q) == Doubted(q, "missed")

-----------------------------------------------------------------------------
\* The server: what it answers and what it tells.

\* What a change alters, by the event that announces it.  Nothing announces a
\* change of the preferences.
Altered ==
    [inbox |-> {"inbox"}, agent |-> {"agents", "squads"}, member |-> {"members"},
     workspace |-> {"issues"}, skill |-> {"skills"}, project |-> {"projects"},
     squad |-> {"squads", "issues"}, label |-> {"labels", "issues"},
     pin |-> {"pins"}, daemon |-> {"runtimes", "squads"},
     autopilot |-> {"autopilots"}, github_installation |-> {"installations"},
     task |-> {"tasks", "squads"}, preferences |-> {"preferences"}]

\* The event that announces a mutation of a key.
Announced ==
    [labels |-> "label", pins |-> "pin", projects |-> "project",
     autopilots |-> "autopilot", inbox |-> "inbox", runtimes |-> "daemon",
     workspace |-> "workspace", preferences |-> "preferences"]

ASSUME WorkspaceAssumption ==
    /\ MaxOps \in Nat
    /\ Prefixes \subseteq DOMAIN Altered /\ UserMutations \subseteq MutationKinds
    /\ None \notin Mutation /\ None \notin Directory /\ \A d \in Held : d # None
    /\ None \notin Fetches({"rows"} \X Held)
    /\ None \notin Fetches({"rows"} \X Directory)

\* Workspace w changes; renames says whether its issue prefix does.
ChangeWorkspace(w, p, change, renames) ==
    LET keys == IF p = "workspace" /\ ~ renames THEN {} ELSE Altered[p]
        told == w = current /\ conn = "up" /\ p \in DOMAIN Refreshed
        Unaware(k, q) == IF told \/ q.data = None THEN q
                         ELSE IF conn = "new" /\ w = current THEN Doubted(q, "early")
                         ELSE IF k \in Recovered THEN q ELSE Unrecovered(q)
    IN  /\ held' = [held EXCEPT ![w] =
               [k \in Keys |-> IF k \in keys THEN @[k] \cup {change} ELSE @[k]]]
        /\ prefix' = IF renames THEN [prefix EXCEPT ![w] = @ \cup {change}]
                     ELSE prefix
        /\ cache' = [cache EXCEPT ![w] =
               [k \in Keys |-> IF k \in keys THEN Unaware(k, Touch(@[k])) ELSE @[k]]]
        /\ directory' =
               IF ~ renames THEN directory
               ELSE IF conn = "new" /\ w = current
               THEN Doubted(Touch(directory), "early")
               ELSE IF w # current THEN Unrecovered(Touch(directory))
               ELSE Touch(directory)
        /\ wire' = IF told
                   THEN Append(wire, [type |-> p, change |-> change,
                                      prefix |-> prefix'[w]])
                   ELSE wire

WorkspaceChangesElsewhere(w, p) ==
    /\ Spend
    /\ ChangeWorkspace(w, p, ops', p = "workspace")
    /\ UNCHANGED <<conn, current, adopted, view, timers, mutation>>

AnswerKey(w, k) ==
    /\ cache[w][k].fetch # None /\ cache[w][k].fetch.answers = {}
    /\ cache' = At(cache, w, {k}, LAMBDA q : Answer(q, "rows", held[w][k], TRUE))
    /\ UNCHANGED <<socketVars, held, prefix, directory, current, adopted, view,
                   timers, mutation>>

AnswerDirectory ==
    /\ directory.fetch # None /\ directory.fetch.answers = {}
    /\ directory' = Answer(directory, "rows", prefix, TRUE)
    /\ UNCHANGED <<socketVars, held, prefix, cache, current, adopted, view,
                   timers, mutation>>

CommitMutation ==
    /\ mutation # None /\ mutation.sent
    /\ ChangeWorkspace(mutation.of, Announced[Mutations[mutation.kind].key], mutation.change,
                       mutation.kind = "savePrefix")
    /\ mutation' = [mutation EXCEPT !.sent = FALSE,
                                    !.answer = prefix'[mutation.of]]
    /\ UNCHANGED <<conn, ops, current, adopted, view, timers>>

-----------------------------------------------------------------------------
\* Queries that are read, and their fetches.

LandKey(w, k) ==
    /\ cache[w][k].fetch # None
    /\ \E a \in cache[w][k].fetch.answers :
          cache' = At(cache, w, {k}, LAMBDA q : Land(q, a[2]))
    /\ UNCHANGED <<socketVars, held, prefix, directory, current, adopted, view,
                   timers, mutation>>

LandDirectory ==
    /\ directory.fetch # None
    /\ \E a \in directory.fetch.answers : directory' = Land(directory, a[2])
    /\ UNCHANGED <<socketVars, held, prefix, cache, current, adopted, view,
                   timers, mutation>>

\* What is mounted once the page of workspace w reads the keys of v.
Reading(c, w, v) ==
    [x \in Workspaces |-> [k \in Keys |->
        IF x = w /\ k \in v THEN Mount(c[x][k]) ELSE Unmount(c[x][k])]]

OpenView(v) ==
    /\ v # view /\ Spend
    /\ view' = v
    /\ cache' = Reading(cache, current, v)
    /\ UNCHANGED <<conn, wire, held, prefix, directory, current, adopted, timers,
                   mutation>>

\* setCurrentWorkspace, and with it the provider's effect: the old client is
\* disconnected and a new one starts to connect.
SwitchWorkspace(w) ==
    /\ w # current /\ Spend
    /\ current' = w
    /\ adopted' = FALSE
    /\ conn' = "new" /\ wire' = <<>>
    /\ cache' = Reading(At(cache, current, Keys \ Recovered, Unrecovered), w, view)
    /\ UNCHANGED <<held, prefix, directory, view, timers, mutation>>

\* invalidateWorkspaceScopedQueries, of the workspace current by then.
InvalidateWorkspace ==
    /\ cache' = At(cache, current, Recovered, Invalidate)
    /\ directory' = Invalidate(directory)

\* The effects of useRealtimeSync run for the new client: the timers are
\* cleared, the handlers registered, what the old one missed is fetched.
AdoptClient ==
    /\ ~ adopted
    /\ adopted' = TRUE /\ timers' = {}
    /\ InvalidateWorkspace
    /\ UNCHANGED <<socketVars, held, prefix, current, view, mutation>>

\* onAuthenticated of a new client: nothing is called back.
FirstAuthenticated ==
    /\ conn = "new" /\ adopted
    /\ conn' = "up"
    /\ UNCHANGED <<wire, ops, workspaceVars>>

DisconnectWorkspace ==
    /\ Disconnect
    /\ cache' = At(cache, current, Keys \ Recovered, Unrecovered)
    /\ UNCHANGED <<held, prefix, directory, current, adopted, view, timers, mutation>>

RefetchWorkspace ==
    /\ Authenticated
    /\ InvalidateWorkspace
    /\ UNCHANGED <<held, prefix, current, adopted, view, timers, mutation>>

\* onAny: the timer of the event's prefix starts (again).
StartTimer(f) ==
    /\ timers' = timers \cup {f.type}
    /\ UNCHANGED <<cache, directory>>

\* Variant of OnWorkspaceUpdated: the list of workspaces is left alone.
OnWorkspaceUpdatedIssuesOnly(f) ==
    /\ cache' = At(cache, current, {"issues"}, Invalidate)
    /\ UNCHANGED <<directory, timers>>

\* applyWorkspaceUpdatedToCache.  Where the list was fetched or written since
\* the change, it does not show that the issues are older than the prefix.
OnWorkspaceUpdated(f) ==
    LET known == directory.data # None /\ directory.data[current] = f.prefix
        Behind(q) == IF q.data # None /\ f.change \in f.prefix \ q.data
                     THEN Doubted(q, "raced") ELSE q
    IN  /\ cache' = At(cache, current, {"issues"},
                       LAMBDA q : IF known THEN Behind(q) ELSE Invalidate(q))
        /\ directory' = Invalidate(directory)
        /\ UNCHANGED timers

ReceiveWorkspaceEvent ==
    /\ Deliver
    /\ IF Head(wire).type = "workspace" THEN OnWorkspaceUpdated(Head(wire))
       ELSE StartTimer(Head(wire))
    /\ UNCHANGED <<held, prefix, current, adopted, view, mutation>>

\* The refresh of a prefix reads the current workspace when the timer fires.
FireTimer(p) ==
    /\ p \in timers
    /\ timers' = timers \ {p}
    /\ cache' = At(cache, current, Refreshed[p], Invalidate)
    /\ UNCHANGED <<socketVars, held, prefix, directory, current, adopted, view,
                   mutation>>

-----------------------------------------------------------------------------
\* The user's mutations.

\* onMutate: the fetch is dropped, the data kept to roll back, and written
\* ahead of the server.
Mutate(m) ==
    LET key == Mutations[m].key
        Ahead(q) == Patch(Cancel(q), q.data \cup {ops'})
    IN  /\ mutation = None /\ Spend
        /\ OfSettings(m) \/ (key \in view /\ cache[current][key].data # None)
        /\ cache' = IF Mutations[m].writes = "before"
                    THEN At(cache, current, {key}, Ahead) ELSE cache
        /\ mutation' = [kind |-> m, of |-> current, change |-> ops', sent |-> TRUE,
                        prev |-> IF Mutations[m].writes = "before"
                                 THEN cache[current][key].data ELSE None,
                        answer |-> {}]
        /\ UNCHANGED <<conn, wire, held, prefix, directory, current, adopted, view,
                       timers>>

\* The row the settings' answer holds may be older than the one it replaces.
WithAnswer(q, w, row) ==
    IF q.data = None THEN q
    ELSE LET n == Write(q, [q.data EXCEPT ![w] = row])
         IN  IF q.data[w] \subseteq row THEN n ELSE Doubted(n, "late")

\* onSuccess, then onSettled, in the workspace the mutation was made in.
MutationSucceeds ==
    LET m == mutation.kind
        d == Mutations[m]
        Added(q) == IF q.data = None THEN q
                    ELSE Write(q, q.data \cup {mutation.change})
    IN  /\ mutation # None /\ ~ mutation.sent
        /\ cache' = At(IF d.writes = "after" /\ ~ OfSettings(m)
                       THEN At(cache, mutation.of, {d.key}, Added) ELSE cache,
                       mutation.of, d.settles, Invalidate)
        /\ directory' = IF OfSettings(m)
                        THEN WithAnswer(directory, mutation.of, mutation.answer)
                        ELSE directory
        /\ mutation' = None
        /\ UNCHANGED <<socketVars, held, prefix, current, adopted, view, timers>>

\* Refused, or the answer was lost: onError, then onSettled.  A rollback that
\* nothing settles may bring back what was fetched over.
MutationFails ==
    LET d == Mutations[mutation.kind]
        Back(q) == LET n == Write(q, mutation.prev)
                   IN  IF d.key \in d.settles THEN n ELSE Doubted(n, "restored")
    IN  /\ mutation # None
        /\ cache' = At(IF mutation.prev = None THEN cache
                       ELSE At(cache, mutation.of, {d.key}, Back),
                       mutation.of,
                       IF OfSettings(mutation.kind) THEN {} ELSE d.settles, Invalidate)
        /\ mutation' = None
        /\ UNCHANGED <<socketVars, held, prefix, directory, current, adopted, view,
                       timers>>

-----------------------------------------------------------------------------
WorkspaceNext ==
    \/ \E w \in Workspaces, p \in Prefixes : WorkspaceChangesElsewhere(w, p)
    \/ \E w \in Workspaces, k \in Keys : AnswerKey(w, k) \/ LandKey(w, k)
    \/ AnswerDirectory \/ LandDirectory
    \/ \E v \in Views : OpenView(v)
    \/ \E w \in Workspaces : SwitchWorkspace(w)
    \/ AdoptClient \/ FirstAuthenticated \/ DisconnectWorkspace \/ RefetchWorkspace
    \/ ReceiveWorkspaceEvent
    \/ \E p \in DOMAIN Refreshed : FireTimer(p)
    \/ \E m \in UserMutations : Mutate(m)
    \/ CommitMutation \/ MutationSucceeds \/ MutationFails

-----------------------------------------------------------------------------
\* Connected with the client that the effect subscribed to, no event, timer,
\* mutation or fetch under way.
WorkspaceAtRest ==
    /\ conn = "up" /\ adopted /\ wire = <<>> /\ timers = {} /\ mutation = None
    /\ directory.fetch = None /\ \A k \in Keys : cache[current][k].fetch = None

Agrees(q, d) ==
    q.data # None /\ q.doubt = {} /\ (q.mounted \/ ~ q.stale) => q.data = d

\* At rest every query the page reads has data, and what the cache of the
\* current workspace keeps under any key is what the server holds, however
\* events were debounced and workspaces switched meanwhile: the table from
\* event prefixes to keys, the mutations' own invalidations and the reconnect
\* list between them miss nothing but what doubt names.
WorkspaceExact ==
    WorkspaceAtRest =>
        \A k \in Keys : /\ cache[current][k].mounted => cache[current][k].data # None
                        /\ Agrees(cache[current][k], held[current][k])

\* The same of the current workspace's row in the list of workspaces, which
\* workspace:updated patches and the settings page writes.
DirectoryExact ==
    WorkspaceAtRest =>
        Agrees([directory EXCEPT !.data = IF @ = None THEN None ELSE @[current]],
               prefix[current])

-----------------------------------------------------------------------------
\* The workspace-wide queries by themselves.
WorkspaceSpec ==
    /\ SocketInit /\ WorkspaceInit
    /\ [][WorkspaceNext]_<<socketVars, workspaceVars>>

-----------------------------------------------------------------------------
(***************************************************************************)
(* The inductive invariant behind WorkspaceExact and DirectoryExact.       *)
(***************************************************************************)
\* Events reach the client that is connected, and that has its handlers.
SocketKept ==
    /\ conn \in {"up", "down", "new"} /\ wire \in Seq(WorkspaceEvent) /\ ops \in 0..MaxOps
    /\ conn # "up" => wire = <<>>
    /\ ~ adopted => conn = "new"

\* What the user has written under a key and the server has not got.
Ahead(w, k) ==
    IF /\ mutation # None /\ mutation.prev # None
       /\ mutation.of = w /\ Mutations[mutation.kind].key = k
    THEN {mutation.change} ELSE {}

\* A reconnection, or the adoption of a client, will fetch the recovered keys.
Recovering(w) == w # current \/ ~ adopted \/ conn = "down"

\* The changes that something yet to happen will make key k stale for, or doubted
\* if it finds the data without them.
Coming(w, k) ==
    {c \in Changes :
        \/ k \in Recovered /\ Recovering(w)
        \/ w = current /\ adopted /\ \E p \in timers : k \in Refreshed[p]
        \/ /\ w = current
           /\ \E i \in DOMAIN wire :
                 IF wire[i].type = "workspace"
                 THEN k = "issues" /\ c = wire[i].change /\ c \in wire[i].prefix
                 ELSE k \in Refreshed[wire[i].type]}

\* A query that is shown and lacks data, or has stale data, is being fetched.
Fetched(q) ==
    /\ q.stale = q.owed
    /\ q.mounted /\ (q.data = None \/ q.stale) => q.fetch # None

\* A query of which the server holds d: an answer holds what it held at some time,
\* and, if the fetch is clean, what it holds; what data without doubt lacks is coming.
Kept(q, d, ahead, coming) ==
    /\ Fetched(q)
    /\ q.fetch # None => \A a \in q.fetch.answers :
          a[2] \subseteq d /\ (q.fetch.clean => a[2] = d)
    /\ q.data # None => q.data \subseteq d \cup ahead
    /\ q.data # None /\ q.doubt = {} /\ ~ q.stale => d \subseteq q.data \cup coming

\* The same of the list of workspaces, which is always shown, and which each
\* workspace:updated makes stale.
DirectoryKept ==
    /\ directory.mounted /\ directory.data # None
    /\ Fetched(directory)
    /\ directory.fetch # None => \A a \in directory.fetch.answers :
          /\ \A w \in Workspaces : a[2][w] \subseteq prefix[w]
          /\ directory.fetch.clean => a[2] = prefix
    /\ \A w \in Workspaces : directory.data[w] \subseteq prefix[w]
    /\ directory.doubt = {} /\ directory.fetch = None =>
          \A w \in Workspaces : \/ directory.data[w] = prefix[w]
                                \/ ~ adopted \/ conn = "down"
                                \/ \E i \in DOMAIN wire : wire[i].type = "workspace"

\* What a mutation would write back was the server's, and what it has committed is.
MutationKept ==
    mutation # None =>
        LET d == Mutations[mutation.kind]
        IN  /\ mutation.kind \in UserMutations
            /\ mutation.answer \subseteq prefix[mutation.of]
            /\ mutation.prev # None <=> d.writes = "before"
            /\ d.key \in Keys /\ ~ OfSettings(mutation.kind) =>
                  /\ mutation.prev # None => mutation.prev \subseteq held[mutation.of][d.key]
                  /\ ~ mutation.sent => mutation.change \in held[mutation.of][d.key]

SyncInv ==
    /\ WorkspaceTypeOK /\ SocketKept
    /\ \A w \in Workspaces, k \in Keys :
          Kept(cache[w][k], held[w][k], Ahead(w, k), Coming(w, k))
    /\ DirectoryKept
    /\ MutationKept
=============================================================================
