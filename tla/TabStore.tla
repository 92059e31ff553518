------------------------------ MODULE TabStore ------------------------------
(***************************************************************************)
(* The tabs of the desktop application: one group per workspace, each with *)
(* its active tab and its pinned tabs first                                *)
(* (apps/desktop/src/renderer/src/stores/tab-store.ts), what navigation    *)
(* does to them (platform/navigation.tsx), and what the list of workspaces *)
(* and a logout do (App.tsx).                                              *)
(*                                                                         *)
(* A tab has a router of its own.  Where the router is and the path the    *)
(* store keeps differ while the tab is hidden: use-tab-router-sync.ts runs *)
(* for the tab on screen only.  Titles, icons and history are left out.    *)
(***************************************************************************)
EXTENDS Integers, Sequences, FiniteSets

CONSTANTS Slugs,      \* the workspaces
          Paths,      \* the paths pages of a workspace have, and "/"
          SlugOf,     \* the workspace a path belongs to, or Nobody's
          IssuesOf,   \* the path of a workspace's issues, its default
          Root,       \* the path "/"
          Nobody,     \* no workspace, no tab
          MaxTabs,    \* bound: tabs ever made
          V1Stores    \* bound: what version 1 may have stored

ASSUME SlugAssumption ==
    /\ Nobody \notin Slugs /\ Root \in Paths
    /\ SlugOf \in [Paths -> Slugs \cup {Nobody}]
    /\ \A p \in Paths : SlugOf[p] = Nobody <=> p = Root
    /\ IssuesOf \in [Slugs -> Paths]
    /\ \A s \in Slugs : SlugOf[IssuesOf[s]] = s

ASSUME MaxTabsAssumption == MaxTabs \in Nat

VARIABLES store,    \* activeWorkspaceSlug, byWorkspace, and the ids given out
          listed    \* the user's workspaces as last fetched, or Nobody

tabVars == <<store, listed>>

Ids == 1..MaxTabs

Tab == [id : Ids, path : Paths, at : Paths, pinned : BOOLEAN]

Group == [tabs : Seq(Tab), activeTabId : Ids]

\* The ids of version 1 are renamed to their places; it knew no pins.
ASSUME V1Assumption ==
    \A v1 \in V1Stores :
        /\ v1.tabs \in Seq(Tab) /\ Len(v1.tabs) <= MaxTabs
        /\ \A i \in DOMAIN v1.tabs : v1.tabs[i].id = i /\ ~ v1.tabs[i].pinned

StoreTypeOK(st) ==
    /\ st = [activeWorkspaceSlug |-> st.activeWorkspaceSlug,
             byWorkspace |-> st.byWorkspace, made |-> st.made]
    /\ st.activeWorkspaceSlug \in Slugs \cup {Nobody}
    /\ DOMAIN st.byWorkspace \subseteq Slugs
    /\ st.byWorkspace \in [DOMAIN st.byWorkspace -> Group]
    /\ st.made \in 0..MaxTabs

Live(st) == DOMAIN st.byWorkspace

IdsOf(tabs) == {tabs[i].id : i \in DOMAIN tabs}

\* The smallest of a non-empty set of numbers.
Least(S) == CHOOSE i \in S : \A j \in S : i <= j

At(tabs, id) == CHOOSE i \in DOMAIN tabs : tabs[i].id = id

\* findTabLocation.
Holder(st, id) == CHOOSE s \in Live(st) : id \in IdsOf(st.byWorkspace[s].tabs)

Exists(st, id) == \E s \in Live(st) : id \in IdsOf(st.byWorkspace[s].tabs)

WithGroup(st, s, tabs, id) ==
    [st EXCEPT !.byWorkspace =
        [x \in DOMAIN @ \cup {s} |->
            IF x = s THEN [tabs |-> tabs, activeTabId |-> id] ELSE @[x]]]

\* makeTab, with the next id.
MakeTab(st, path) == [id |-> st.made + 1, path |-> path, at |-> path, pinned |-> FALSE]

CanMake(st) == st.made < MaxTabs

Made(st) == [st EXCEPT !.made = @ + 1]

EmptyStore == [activeWorkspaceSlug |-> Nobody, byWorkspace |-> <<>>, made |-> 0]

-----------------------------------------------------------------------------
\* The store's operations.

\* Take the tab at i out; put a tab before position i.
Without(tabs, i) ==
    [j \in 1..(Len(tabs) - 1) |-> IF j < i THEN tabs[j] ELSE tabs[j + 1]]

Inserted(tabs, i, tab) ==
    [j \in 1..(Len(tabs) + 1) |->
        IF j < i THEN tabs[j] ELSE IF j = i THEN tab ELSE tabs[j - 1]]

\* pinnedBoundary: how many tabs come before the first that is not pinned.
PinnedBoundary(tabs) ==
    LET loose == {i \in DOMAIN tabs : ~ tabs[i].pinned}
    IN  IF loose = {} THEN Len(tabs) ELSE Least(loose) - 1

\* switchWorkspace(slug, path): into a tab with that path, or a new one.
SwitchTo(st, s, path) ==
    LET group == st.byWorkspace[s]
        same == {i \in DOMAIN group.tabs : group.tabs[i].path = path}
        to == [st EXCEPT !.activeWorkspaceSlug = s]
        tab == MakeTab(st, path)
    IN  IF s \notin Live(st) THEN WithGroup(Made(to), s, <<tab>>, tab.id)
        ELSE IF same # {}
        THEN WithGroup(to, s, group.tabs, group.tabs[Least(same)].id)
        ELSE WithGroup(Made(to), s, Append(group.tabs, tab), tab.id)

\* switchWorkspace(slug): the group as it was left, or a default tab.
RestoreWorkspace(st, s) ==
    IF s \in Live(st) THEN [st EXCEPT !.activeWorkspaceSlug = s]
    ELSE SwitchTo(st, s, IssuesOf[s])

\* addTab in the active workspace.
AddTab(st, path) ==
    LET s == st.activeWorkspaceSlug
        group == st.byWorkspace[s]
    IN  IF s \notin Live(st) THEN st
        ELSE WithGroup(Made(st), s, Append(group.tabs, MakeTab(st, path)),
                       group.activeTabId)

\* openTab: a tab of that path becomes the active one, or one is added behind.
OpenTab(st, path) ==
    LET s == st.activeWorkspaceSlug
        group == st.byWorkspace[s]
        same == {i \in DOMAIN group.tabs : group.tabs[i].path = path}
    IN  IF s \notin Live(st) \/ SlugOf[path] = Nobody THEN st
        ELSE IF same # {} THEN WithGroup(st, s, group.tabs, group.tabs[Least(same)].id)
        ELSE AddTab(st, path)

\* The id openTab returns.
Opened(st, path) ==
    LET s == st.activeWorkspaceSlug
        after == OpenTab(st, path)
    IN  IF after.made = st.made THEN after.byWorkspace[s].activeTabId ELSE after.made

SetActiveTab(st, id) ==
    LET s == Holder(st, id)
    IN  IF ~ Exists(st, id) THEN st
        ELSE WithGroup([st EXCEPT !.activeWorkspaceSlug = s], s,
                       st.byWorkspace[s].tabs, id)

\* closeTab: the tab that takes its place is active if it was; a workspace
\* whose last tab goes gets a default one.
CloseTab(st, id) ==
    LET s == Holder(st, id)
        group == st.byWorkspace[s]
        i == At(group.tabs, id)
        rest == Without(group.tabs, i)
        fresh == MakeTab(st, IssuesOf[s])
    IN  IF Len(group.tabs) = 1 THEN WithGroup(Made(st), s, <<fresh>>, fresh.id)
        ELSE WithGroup(st, s, rest,
                 IF group.activeTabId # id THEN group.activeTabId
                 ELSE rest[IF i <= Len(rest) THEN i ELSE Len(rest)].id)

\* Variant of MoveTab: wherever it is dropped.
MoveTabAnywhere(st, from, to) ==
    LET s == st.activeWorkspaceSlug
        group == st.byWorkspace[s]
    IN  WithGroup(st, s, Inserted(Without(group.tabs, from), to, group.tabs[from]),
                  group.activeTabId)

\* moveTab: within the pinned tabs, or within the others.
MoveTab(st, from, to) ==
    LET s == st.activeWorkspaceSlug
        group == st.byWorkspace[s]
        tabs == group.tabs
        b == PinnedBoundary(tabs)
        clamped == IF tabs[from].pinned THEN (IF to <= b THEN to ELSE b)
                   ELSE (IF to > b THEN to ELSE b + 1)
    IN  IF clamped = from THEN st
        ELSE WithGroup(st, s, Inserted(Without(tabs, from), clamped, tabs[from]),
                       group.activeTabId)

\* togglePin: to the end of the pinned tabs, or to the start of the others.
TogglePin(st, id) ==
    LET s == Holder(st, id)
        group == st.byWorkspace[s]
        i == At(group.tabs, id)
        rest == Without(group.tabs, i)
        tab == [group.tabs[i] EXCEPT !.pinned = ~ @]
    IN  WithGroup(st, s, Inserted(rest, PinnedBoundary(rest) + 1, tab),
                  group.activeTabId)

\* updateTab of a tab whose router is somewhere.
Relocated(st, id, path, syncs) ==
    LET s == Holder(st, id)
        group == st.byWorkspace[s]
        i == At(group.tabs, id)
        tab == group.tabs[i]
        moved == [tab EXCEPT !.at = path, !.path = IF syncs THEN path ELSE tab.path]
    IN  IF ~ Exists(st, id) THEN st
        ELSE WithGroup(st, s, [group.tabs EXCEPT ![i] = moved], group.activeTabId)

\* The tab on screen, or Nobody (getActiveTab).
ActiveTab(st) ==
    IF st.activeWorkspaceSlug \notin Live(st) THEN Nobody
    ELSE st.byWorkspace[st.activeWorkspaceSlug].activeTabId

TabOf(st, id) ==
    LET tabs == st.byWorkspace[Holder(st, id)].tabs IN tabs[At(tabs, id)]

\* useTabRouterSync of the tab on screen.
Synced(st) ==
    IF ActiveTab(st) = Nobody THEN st
    ELSE Relocated(st, ActiveTab(st), TabOf(st, ActiveTab(st)).at, TRUE)

\* Variant of Validated: always to the workspace that comes first.
ValidatedToFirst(st, valid, next) ==
    [st EXCEPT !.byWorkspace = [s \in DOMAIN @ \cap valid |-> @[s]],
               !.activeWorkspaceSlug = next]

\* validateWorkspaceSlugs, where next takes the place of a workspace that is
\* gone.
Validated(st, valid, next) ==
    [st EXCEPT !.byWorkspace = [s \in DOMAIN @ \cap valid |-> @[s]],
               !.activeWorkspaceSlug =
                   IF @ = Nobody \/ @ \in valid THEN @ ELSE next]

\* The groups that may follow: whichever key comes first, or none.
FirstOf(S) == IF S = {} THEN {Nobody} ELSE S

-----------------------------------------------------------------------------
\* What is kept across a restart.

\* The tabs of a group that merge keeps, pinned ones first.
Kept(tabs, s) == {i \in DOMAIN tabs : SlugOf[tabs[i].path] = s}

Arranged(tabs, keep, f) ==
    /\ \A i \in keep : \E j \in DOMAIN f : f[j] = i
    /\ \A i, j \in DOMAIN f : i < j =>
          \/ tabs[f[i]].pinned /\ ~ tabs[f[j]].pinned
          \/ tabs[f[i]].pinned = tabs[f[j]].pinned /\ f[i] < f[j]

\* A restored group: new routers, and an active tab among those left.
RestoredGroup(tabs, f, activeTabId) ==
    LET new == [j \in DOMAIN f |-> [tabs[f[j]] EXCEPT !.at = tabs[f[j]].path]]
    IN  [tabs |-> new,
         activeTabId |-> IF activeTabId \in IdsOf(new) THEN activeTabId ELSE new[1].id]

RestoredGroups(group, s) ==
    LET keep == Kept(group.tabs, s)
    IN  {RestoredGroup(group.tabs, f, group.activeTabId) :
            f \in {f \in [1..Cardinality(keep) -> keep] : Arranged(group.tabs, keep, f)}}

\* partialize and merge: every group that keeps a tab, and the workspace that
\* was active if it does.
KeptSlugs(st) == {s \in Live(st) : Kept(st.byWorkspace[s].tabs, s) # {}}

Restored(st, new) ==
    /\ \A s \in KeptSlugs(st) :
          new.byWorkspace[s] \in RestoredGroups(st.byWorkspace[s], s)
    /\ new.activeWorkspaceSlug \in
           IF st.activeWorkspaceSlug \in KeptSlugs(st) THEN {st.activeWorkspaceSlug}
           ELSE FirstOf(KeptSlugs(st))

GroupsOver(st) ==
    [KeptSlugs(st) -> UNION {RestoredGroups(st.byWorkspace[s], s) : s \in KeptSlugs(st)}]

Merges(st) ==
    {new \in [activeWorkspaceSlug : KeptSlugs(st) \cup {Nobody},
              byWorkspace : GroupsOver(st), made : {st.made}] : Restored(st, new)}

\* migrate: version 1 kept one row of tabs, without workspaces.  Each goes to
\* the group of its path's workspace; the group of the active one is active.
Migrated(v1) ==
    LET of(s) == Kept(v1.tabs, s)
        active == {s \in Slugs : \E i \in of(s) : v1.tabs[i].id = v1.activeTabId}
        slugs == {s \in Slugs : of(s) # {}}
    IN  [activeWorkspaceSlug |->
            IF active # {} THEN CHOOSE s \in active : TRUE
            ELSE IF slugs # {} THEN CHOOSE s \in slugs : TRUE ELSE Nobody,
         byWorkspace |->
            [s \in slugs |->
                [tabs |-> v1.tabs,
                 activeTabId |-> IF s \in active THEN v1.activeTabId
                                 ELSE v1.tabs[Least(of(s))].id]],
         made |-> Len(v1.tabs)]

-----------------------------------------------------------------------------
\* A first start, or the first one after an update from version 1.
TabInit ==
    /\ \E v1 \in V1Stores : store \in Merges(Migrated(v1))
    /\ listed = Nobody

TabTypeOK ==
    /\ StoreTypeOK(store)
    /\ listed = Nobody \/ listed \subseteq Slugs

Becomes(st) == store' = Synced(st) /\ UNCHANGED listed

\* The tabs a page may act from: those of any workspace, for what it awaits
\* may arrive when it is no longer shown; and the shell, which has none.
Origins == UNION {IdsOf(store.byWorkspace[s].tabs) : s \in Live(store)} \cup {Nobody}

\* The router of a tab goes to a path: the one on screen tells the store.
Navigated(st, origin, path) ==
    IF origin = Nobody THEN st
    ELSE Relocated(st, origin, path, origin = ActiveTab(st))

\* Variant of Push: a pinned tab navigates like any other.
PushInPlace(origin, path) ==
    /\ CanMake(store)
    /\ IF SlugOf[path] # store.activeWorkspaceSlug
       THEN Becomes(SwitchTo(store, SlugOf[path], path))
       ELSE Becomes(Navigated(store, origin, path))

\* Variant of Push: without tryRouteToOtherWorkspace.
PushWithin(origin, path) ==
    LET active == ActiveTab(store)
        parked == /\ active # Nobody /\ TabOf(store, active).pinned
                  /\ TabOf(store, active).at # path
    IN  /\ CanMake(store)
        /\ IF parked
           THEN Becomes(SetActiveTab(OpenTab(store, path), Opened(store, path)))
           ELSE Becomes(Navigated(store, origin, path))

\* push: into another workspace, away from a pinned tab, or within the tab.
\* Whether the tab is pinned is asked of the one on screen.
Push(origin, path) ==
    LET active == ActiveTab(store)
        parked == /\ active # Nobody /\ TabOf(store, active).pinned
                  /\ TabOf(store, active).at # path
    IN  /\ CanMake(store)
        /\ IF SlugOf[path] # store.activeWorkspaceSlug
           THEN Becomes(SwitchTo(store, SlugOf[path], path))
           ELSE IF parked
           THEN Becomes(SetActiveTab(OpenTab(store, path), Opened(store, path)))
           ELSE Becomes(Navigated(store, origin, path))

\* replace, which leaves a pinned tab's path as well.
Replace(origin, path) ==
    /\ CanMake(store)
    /\ IF SlugOf[path] # store.activeWorkspaceSlug
       THEN Becomes(SwitchTo(store, SlugOf[path], path))
       ELSE Becomes(Navigated(store, origin, path))

\* tryRouteToOverlay: the tab goes to "/" under the overlay.
OpenOverlay(origin) == Becomes(Navigated(store, origin, Root))

OpenInNewTab(path, activate) ==
    /\ CanMake(store)
    /\ IF SlugOf[path] # store.activeWorkspaceSlug
       THEN Becomes(SwitchTo(store, SlugOf[path], path))
       ELSE LET after == OpenTab(store, path)
            IN  Becomes(IF activate THEN SetActiveTab(after, Opened(store, path)) ELSE after)

\* The tab bar: what it does to the tabs of the active workspace.
Shown == IF store.activeWorkspaceSlug \notin Live(store) THEN {}
         ELSE DOMAIN store.byWorkspace[store.activeWorkspaceSlug].tabs

Here(i) == store.byWorkspace[store.activeWorkspaceSlug].tabs[i].id

NewTab ==
    /\ Shown # {} /\ CanMake(store)
    /\ Becomes(SetActiveTab(AddTab(store, IssuesOf[store.activeWorkspaceSlug]),
                            store.made + 1))

ClickTab(i) == i \in Shown /\ Becomes(SetActiveTab(store, Here(i)))

\* The X is there for a tab that is neither pinned nor the only one.
CloseShown(i) ==
    /\ i \in Shown /\ Cardinality(Shown) > 1 /\ CanMake(store)
    /\ ~ TabOf(store, Here(i)).pinned
    /\ Becomes(CloseTab(store, Here(i)))

DragTab(i, j) == i \in Shown /\ j \in Shown /\ i # j /\ Becomes(MoveTab(store, i, j))

PinTab(i) == i \in Shown /\ Becomes(TogglePin(store, Here(i)))

\* useInternalLinkHandler: a link in a text, or a notification of the system,
\* is opened in the active workspace, whichever its own.
OpenLink(path) ==
    /\ Shown # {} /\ CanMake(store)
    /\ Becomes(SetActiveTab(OpenTab(store, path), Opened(store, path)))

\* The list of workspaces arrives: groups of others go, and if no workspace is
\* active one of the list is.
ValidateWorkspaces(valid) ==
    /\ CanMake(store)
    /\ listed' = valid
    /\ \E next \in FirstOf(Live(store) \cap valid) :
          LET st == Validated(store, valid, next)
          IN  IF st.activeWorkspaceSlug = Nobody /\ valid # {}
              THEN \E s \in valid : store' = Synced(RestoreWorkspace(st, s))
              ELSE store' = Synced(st)

\* reset, when the user logs out.
Logout ==
    /\ store' = [EmptyStore EXCEPT !.made = store.made]
    /\ listed' = Nobody

\* The application is closed, or crashes, and starts again.
Restart ==
    /\ \E new \in Merges(store) : store' = Synced(new)
    /\ listed' = Nobody

TabNext ==
    \/ \E origin \in Origins, path \in Paths \ {Root} :
          Push(origin, path) \/ Replace(origin, path)
    \/ \E origin \in Origins : OpenOverlay(origin)
    \/ \E path \in Paths \ {Root}, activate \in BOOLEAN : OpenInNewTab(path, activate)
    \/ \E path \in Paths \ {Root} : OpenLink(path)
    \/ \E i, j \in Shown : DragTab(i, j)
    \/ \E i \in Shown : ClickTab(i) \/ CloseShown(i) \/ PinTab(i)
    \/ NewTab \/ Logout \/ Restart
    \/ \E valid \in SUBSET Slugs : ValidateWorkspaces(valid)

TabSpec == TabInit /\ [][TabNext]_tabVars

-----------------------------------------------------------------------------
ActiveSlugSound(st) ==
    IF Live(st) = {} THEN st.activeWorkspaceSlug = Nobody
    ELSE st.activeWorkspaceSlug \in Live(st)

PinnedFirst(tabs) ==
    \A k, l \in DOMAIN tabs : k < l /\ tabs[l].pinned => tabs[k].pinned

Distinct(tabs) ==
    \A k, l \in DOMAIN tabs : tabs[k].id = tabs[l].id => k = l

GroupSound(group) ==
    /\ group.activeTabId \in IdsOf(group.tabs)
    /\ PinnedFirst(group.tabs)
    /\ Distinct(group.tabs)

GroupsDisjoint(st) ==
    \A s, t \in Live(st) :
        s # t => IdsOf(st.byWorkspace[s].tabs) \cap IdsOf(st.byWorkspace[t].tabs) = {}

\* What every page and the tab bar take for granted, whatever a restored store
\* held: a workspace is active exactly if there is one with tabs, and it is one
\* of those; the active tab of a group is in the group; pinned tabs come first
\* (the invariant of moveTab and togglePin); and no tab is in two places, for
\* every operation finds its tab by its id alone (findTabLocation).
TabsSound ==
    /\ ActiveSlugSound(store)
    /\ \A s \in Live(store) : GroupSound(store.byWorkspace[s])
    /\ GroupsDisjoint(store)

\* A page that is not on screen navigates when what it awaited arrives.
HiddenPush ==
    \E origin \in Origins \ {ActiveTab(store)}, path \in Paths \ {Root} :
        Push(origin, path) \/ Replace(origin, path)

Replaces ==
    \/ \E origin \in Origins, path \in Paths \ {Root} : Replace(origin, path)
    \/ \E origin \in Origins : OpenOverlay(origin)

PinnedKept ==
    \A s \in Live(store), r \in Live(store') :
        LET tabs == store.byWorkspace[s].tabs
            kept == store'.byWorkspace[r].tabs
        IN  \A i \in DOMAIN tabs, j \in DOMAIN kept :
                tabs[i].pinned /\ tabs[i].id = kept[j].id => tabs[i].at = kept[j].at

\* A pinned tab keeps its page (the doc of Tab.pinned): whatever is opened from
\* it opens elsewhere.  Except by a replacement or an overlay on it, by a
\* restart, which gives it a new router, and by a page that is not on screen:
\* push asks whether the tab on screen is pinned.
PinnedStays ==
    [][\/ PinnedKept
       \/ /\ Replaces \/ HiddenPush \/ Restart
          /\ ~ \E path \in Paths \ {Root} : Push(ActiveTab(store), path)]_tabVars

Strayed(st, s) ==
    {t \in {st.byWorkspace[s].tabs[i] : i \in DOMAIN st.byWorkspace[s].tabs} :
        SlugOf[t.at] \notin {s, Nobody}}

NoneStrays ==
    \A s \in Live(store') : \A t \in Strayed(store', s) :
        \E r \in Live(store) : \E u \in Strayed(store, r) : u.id = t.id

LinkOpened == \E path \in Paths \ {Root} : OpenLink(path)

\* No step takes a tab of one workspace to a page of another: a path of another
\* workspace opens in that workspace (navigation.tsx, tab-store.ts).  Except,
\* again, from a page that is not on screen, for the path is compared with the
\* workspace on screen and not with the tab's own; and by a link or a
\* notification, which nothing compares (useInternalLinkHandler).
TabsStayHome ==
    [][NoneStrays \/ HiddenPush \/ LinkOpened]_tabVars

\* A new list of workspaces, or a restart, moves the user to another workspace
\* only when the one on screen is gone from the tabs (validateWorkspaceSlugs).
LastKept ==
    [][listed' # listed /\ store.activeWorkspaceSlug \in Live(store')
          => store'.activeWorkspaceSlug = store.activeWorkspaceSlug]_tabVars
=============================================================================
