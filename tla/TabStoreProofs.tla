--------------------------- MODULE TabStoreProofs ---------------------------
(***************************************************************************)
(* TabStore: whatever the user, a navigation, a list of workspaces, a      *)
(* logout or a restart does, the store of tabs is sound (TabsSound), for   *)
(* any workspaces, any paths and any number of tabs; and its tabs go only  *)
(* where the named steps take them.                                        *)
(*                                                                         *)
(* The induction is over TabsSound and two facts more: the store has its   *)
(* type, and no tab has an id that is still to be given out, so that a new *)
(* tab is in no group yet.  Each operation of the store is one lemma about *)
(* a store that is sound; the lemmas rest on what taking a tab out of a    *)
(* row of tabs and putting one in do to it.                                *)
(***************************************************************************)
EXTENDS TabStore, TLAPS, SequenceTheorems, FiniteSetTheorems, WellFoundedInduction

\* A row of tabs no operation has to repair.
RowSound(tabs) == tabs \in Seq(Tab) /\ PinnedFirst(tabs) /\ Distinct(tabs)

\* The groups of st, each on its own and against the others.
GroupsOK(st) ==
    /\ StoreTypeOK(st)
    /\ \A s \in Live(st) : GroupSound(st.byWorkspace[s])
    /\ \A s \in Live(st) : \A id \in IdsOf(st.byWorkspace[s].tabs) : id <= st.made
    /\ GroupsDisjoint(st)

StoreOK(st) == GroupsOK(st) /\ ActiveSlugSound(st)

\* The inductive invariant.
TabInv == StoreOK(store) /\ (listed = Nobody \/ listed \subseteq Slugs)

-----------------------------------------------------------------------------
\* Rows of tabs.

LEMMA RowFacts ==
    ASSUME NEW tabs \in Seq(Tab)
    PROVE  /\ Len(tabs) \in Nat
           /\ DOMAIN tabs = 1..Len(tabs)
           /\ \A i \in DOMAIN tabs :
                 /\ tabs[i] \in Tab /\ tabs[i].id \in Ids /\ tabs[i].path \in Paths
                 /\ tabs[i].at \in Paths /\ tabs[i].pinned \in BOOLEAN
<1>1. Len(tabs) \in Nat /\ DOMAIN tabs = 1..Len(tabs) /\ tabs \in [1..Len(tabs) -> Tab]
  BY LenProperties
<1>2. \A i \in 1..Len(tabs) : tabs[i] \in Tab
  BY <1>1
<1> QED BY <1>1, <1>2 DEF Tab

\* A function on 1..n is a row of n tabs.
LEMMA RowOf ==
    ASSUME NEW n \in Nat, NEW f \in [1..n -> Tab]
    PROVE  f \in Seq(Tab) /\ Len(f) = n
<1>1. f \in Seq(Tab)
  BY SeqDef
<1>2. DOMAIN f = 1..n /\ Len(f) \in Nat /\ DOMAIN f = 1..Len(f)
  BY <1>1, LenProperties
<1> QED BY <1>1, <1>2

LEMMA LeastFacts ==
    ASSUME NEW S \in SUBSET Nat, S # {}
    PROVE  /\ Least(S) \in S
           /\ \A j \in S : Least(S) <= j
<1> DEFINE R == {ss \in Nat \X Nat : ss[1] < ss[2]}
<1>1. IsWellFoundedOn(R, Nat)
  BY NatLessThanWellFounded DEF OpToRel
<1>2. PICK i \in S : \A j \in S : ~ (<<j, i>> \in R)
  <2> HIDE DEF R
  <2> QED BY <1>1, WFMin
<1>3. ASSUME NEW j \in S, j < i
      PROVE  FALSE
  <2>1. <<j, i>> \in Nat \X Nat /\ <<j, i>>[1] = j /\ <<j, i>>[2] = i
    OBVIOUS
  <2>2. <<j, i>> \in R
    BY <2>1, <1>3
  <2> HIDE DEF R
  <2> QED BY <2>2, <1>2
<1>4. \A j \in S : i <= j
  BY <1>3
<1> QED BY <1>4, Zenon DEF Least

\* The tab of an id that is there.
LEMMA AtFacts ==
    ASSUME NEW tabs \in Seq(Tab), NEW id \in IdsOf(tabs)
    PROVE  /\ At(tabs, id) \in 1..Len(tabs)
           /\ tabs[At(tabs, id)].id = id
<1>1. \E i \in DOMAIN tabs : tabs[i].id = id
  BY DEF IdsOf
<1>2. At(tabs, id) \in DOMAIN tabs /\ tabs[At(tabs, id)].id = id
  BY <1>1 DEF At
<1> QED BY <1>2, RowFacts

LEMMA WithoutFacts ==
    ASSUME NEW tabs, RowSound(tabs), NEW i \in 1..Len(tabs)
    PROVE  /\ RowSound(Without(tabs, i))
           /\ Len(Without(tabs, i)) = Len(tabs) - 1
           /\ IdsOf(Without(tabs, i)) = IdsOf(tabs) \ {tabs[i].id}
           /\ \A j \in 1..(Len(tabs) - 1) :
                 Without(tabs, i)[j] = IF j < i THEN tabs[j] ELSE tabs[j + 1]
<1> DEFINE n == Len(tabs)
           rest == Without(tabs, i)
<1>1. /\ tabs \in Seq(Tab) /\ n \in Nat /\ DOMAIN tabs = 1..n
      /\ \A j \in 1..n : tabs[j] \in Tab
  BY RowFacts DEF RowSound
<1>2. /\ n - 1 \in Nat
      /\ \A j \in 1..(n - 1) : j \in 1..n /\ j + 1 \in 1..n
  BY <1>1
<1>3. rest \in [1..(n - 1) -> Tab]
  BY <1>1, <1>2 DEF Without
<1>4. rest \in Seq(Tab) /\ Len(rest) = n - 1 /\ DOMAIN rest = 1..(n - 1)
  BY <1>2, <1>3, RowOf
<1>5. \A j \in 1..(n - 1) : rest[j] = IF j < i THEN tabs[j] ELSE tabs[j + 1]
  BY <1>1 DEF Without
<1>6. PinnedFirst(rest)
  <2> SUFFICES ASSUME NEW k \in 1..(n - 1), NEW l \in 1..(n - 1), k < l, rest[l].pinned
               PROVE  rest[k].pinned
    BY <1>4 DEF PinnedFirst
  <2>1. \A a, b \in 1..n : a < b /\ tabs[b].pinned => tabs[a].pinned
    BY <1>1 DEF RowSound, PinnedFirst
  <2> QED BY <2>1, <1>1, <1>2, <1>5
<1>7. \A a, b \in 1..n : tabs[a].id = tabs[b].id => a = b
  BY <1>1 DEF RowSound, Distinct
<1>8. Distinct(rest)
  <2> SUFFICES ASSUME NEW k \in 1..(n - 1), NEW l \in 1..(n - 1), rest[k].id = rest[l].id
               PROVE  k = l
    BY <1>4 DEF Distinct
  <2> QED BY <1>7, <1>1, <1>2, <1>5
<1>9. IdsOf(rest) = IdsOf(tabs) \ {tabs[i].id}
  <2>1. ASSUME NEW x \in IdsOf(rest)
        PROVE  x \in IdsOf(tabs) \ {tabs[i].id}
    <3>1. PICK j \in 1..(n - 1) : x = rest[j].id
      BY <1>4 DEF IdsOf
    <3>2. PICK m \in 1..n : m # i /\ rest[j] = tabs[m]
      BY <1>1, <1>2, <1>5
    <3> QED BY <3>1, <3>2, <1>1, <1>7 DEF IdsOf
  <2>2. ASSUME NEW x \in IdsOf(tabs), x # tabs[i].id
        PROVE  x \in IdsOf(rest)
    <3>1. PICK m \in 1..n : x = tabs[m].id
      BY <1>1 DEF IdsOf
    <3>2. PICK j \in 1..(n - 1) : rest[j] = tabs[m]
      <4>1. CASE m < i
        BY <4>1, <1>1, <1>5
      <4>2. CASE m > i
        <5>1. m - 1 \in 1..(n - 1) /\ ~ (m - 1 < i) /\ (m - 1) + 1 = m
          BY <4>2, <1>1
        <5> QED BY <5>1, <1>5
      <4> QED BY <4>1, <4>2, <3>1, <2>2, <1>1
    <3> QED BY <3>1, <3>2, <1>4 DEF IdsOf
  <2> QED BY <2>1, <2>2
<1> QED BY <1>4, <1>5, <1>6, <1>8, <1>9 DEF RowSound

\* A tab that goes where it may stand.
Fits(tabs, i, tab) ==
    /\ tab.pinned => \A j \in 1..Len(tabs) : j < i => tabs[j].pinned
    /\ ~ tab.pinned => \A j \in 1..Len(tabs) : i <= j => ~ tabs[j].pinned

LEMMA InsertedFacts ==
    ASSUME NEW tabs, RowSound(tabs), NEW i \in 1..(Len(tabs) + 1),
           NEW tab \in Tab, tab.id \notin IdsOf(tabs), Fits(tabs, i, tab)
    PROVE  /\ RowSound(Inserted(tabs, i, tab))
           /\ IdsOf(Inserted(tabs, i, tab)) = IdsOf(tabs) \cup {tab.id}
<1> DEFINE n == Len(tabs)
           row == Inserted(tabs, i, tab)
<1>1. /\ tabs \in Seq(Tab) /\ n \in Nat /\ DOMAIN tabs = 1..n
      /\ \A j \in 1..n : tabs[j] \in Tab
  BY RowFacts DEF RowSound
<1>2. /\ n + 1 \in Nat
      /\ \A j \in 1..(n + 1) : (j < i => j \in 1..n) /\ (j > i => j - 1 \in 1..n)
  BY <1>1
<1>3. row \in [1..(n + 1) -> Tab]
  BY <1>1, <1>2 DEF Inserted
<1>4. row \in Seq(Tab) /\ DOMAIN row = 1..(n + 1)
  BY <1>2, <1>3, RowOf
<1>5. \A j \in 1..(n + 1) :
          row[j] = IF j < i THEN tabs[j] ELSE IF j = i THEN tab ELSE tabs[j - 1]
  BY <1>1 DEF Inserted
<1>6. PinnedFirst(row)
  <2> SUFFICES ASSUME NEW k \in 1..(n + 1), NEW l \in 1..(n + 1), k < l, row[l].pinned
               PROVE  row[k].pinned
    BY <1>4 DEF PinnedFirst
  <2>1. \A a, b \in 1..n : a < b /\ tabs[b].pinned => tabs[a].pinned
    BY <1>1 DEF RowSound, PinnedFirst
  <2>2. CASE l < i
    BY <2>1, <2>2, <1>1, <1>2, <1>5
  <2>3. CASE l = i
    <3>1. tab.pinned /\ k < i /\ k \in 1..n /\ row[k] = tabs[k]
      BY <2>3, <1>1, <1>2, <1>5
    <3> QED BY <3>1 DEF Fits
  <2>4. CASE l > i
    <3>1. l - 1 \in 1..n /\ row[l] = tabs[l - 1] /\ i <= l - 1
      BY <2>4, <1>1, <1>2, <1>5
    <3>2. CASE k < i
      BY <3>1, <3>2, <2>1, <1>1, <1>2, <1>5
    <3>3. CASE k = i
      <4>1. row[k] = tab
        BY <3>3, <1>5
      <4> QED BY <4>1, <3>1, <1>1 DEF Fits, Tab
    <3>4. CASE k > i
      <4>1. k - 1 \in 1..n /\ row[k] = tabs[k - 1] /\ k - 1 < l - 1
        BY <3>4, <1>1, <1>2, <1>5
      <4> QED BY <4>1, <3>1, <2>1
    <3> QED BY <3>2, <3>3, <3>4, <1>1
  <2> QED BY <2>2, <2>3, <2>4, <1>1
<1>7. \A a, b \in 1..n : tabs[a].id = tabs[b].id => a = b
  BY <1>1 DEF RowSound, Distinct
<1>8. \A a \in 1..n : tabs[a].id # tab.id
  BY <1>1 DEF IdsOf
<1>9. Distinct(row)
  <2> SUFFICES ASSUME NEW k \in 1..(n + 1), NEW l \in 1..(n + 1), row[k].id = row[l].id
               PROVE  k = l
    BY <1>4 DEF Distinct
  <2>1. CASE k = i
    BY <2>1, <1>1, <1>2, <1>5, <1>8
  <2>2. CASE l = i
    BY <2>2, <1>1, <1>2, <1>5, <1>8
  <2>3. CASE k # i /\ l # i
    BY <2>3, <1>1, <1>2, <1>5, <1>7
  <2> QED BY <2>1, <2>2, <2>3
<1>10. IdsOf(row) = IdsOf(tabs) \cup {tab.id}
  <2>1. ASSUME NEW x \in IdsOf(row)
        PROVE  x \in IdsOf(tabs) \cup {tab.id}
    <3>1. PICK j \in 1..(n + 1) : x = row[j].id
      BY <1>4 DEF IdsOf
    <3>2. row[j] = tab \/ \E m \in 1..n : row[j] = tabs[m]
      BY <1>1, <1>2, <1>5
    <3> QED BY <3>1, <3>2, <1>1 DEF IdsOf
  <2>2. ASSUME NEW x \in IdsOf(tabs)
        PROVE  x \in IdsOf(row)
    <3>1. PICK m \in 1..n : x = tabs[m].id
      BY <1>1 DEF IdsOf
    <3>2. PICK j \in 1..(n + 1) : row[j] = tabs[m]
      <4>1. CASE m < i
        BY <4>1, <1>1, <1>5
      <4>2. CASE ~ (m < i)
        <5>1. m + 1 \in 1..(n + 1) /\ ~ (m + 1 < i) /\ m + 1 # i /\ (m + 1) - 1 = m
          BY <4>2, <1>1
        <5> QED BY <5>1, <1>5
      <4> QED BY <4>1, <4>2
    <3> QED BY <3>1, <3>2, <1>4 DEF IdsOf
  <2>3. row[i] = tab
    BY <1>5
  <2>4. tab.id \in IdsOf(row)
    BY <2>3, <1>4 DEF IdsOf
  <2> QED BY <2>1, <2>2, <2>4
<1> QED BY <1>4, <1>6, <1>9, <1>10 DEF RowSound

\* What append does is what putting in at the end does.
LEMMA AppendIsInserted ==
    ASSUME NEW tabs \in Seq(Tab), NEW tab \in Tab
    PROVE  Append(tabs, tab) = Inserted(tabs, Len(tabs) + 1, tab)
<1> DEFINE n == Len(tabs)
<1>1. n \in Nat /\ DOMAIN tabs = 1..n /\ \A j \in 1..n : tabs[j] \in Tab
  BY RowFacts
<1>2. Inserted(tabs, n + 1, tab) \in [1..(n + 1) -> Tab]
  BY <1>1 DEF Inserted
<1>3. Inserted(tabs, n + 1, tab) \in Seq(Tab) /\ Len(Inserted(tabs, n + 1, tab)) = n + 1
  BY <1>1, <1>2, RowOf
<1>4. /\ Append(tabs, tab) \in Seq(Tab) /\ Len(Append(tabs, tab)) = n + 1
      /\ \A j \in 1..n : Append(tabs, tab)[j] = tabs[j]
      /\ Append(tabs, tab)[n + 1] = tab
  BY AppendProperties
<1>5. \A j \in 1..(n + 1) :
          Inserted(tabs, n + 1, tab)[j] = IF j < n + 1 THEN tabs[j] ELSE tab
  BY <1>1 DEF Inserted
<1>6. \A j \in 1..(n + 1) : Append(tabs, tab)[j] = Inserted(tabs, n + 1, tab)[j]
  BY <1>1, <1>4, <1>5
<1> QED BY <1>3, <1>4, <1>6, SeqEqual

\* Where the pinned tabs end.
LEMMA BoundaryFacts ==
    ASSUME NEW tabs, RowSound(tabs)
    PROVE  /\ PinnedBoundary(tabs) \in 0..Len(tabs)
           /\ \A j \in 1..Len(tabs) : tabs[j].pinned <=> j <= PinnedBoundary(tabs)
<1> DEFINE n == Len(tabs)
           loose == {i \in DOMAIN tabs : ~ tabs[i].pinned}
<1>1. tabs \in Seq(Tab) /\ n \in Nat /\ DOMAIN tabs = 1..n
  BY RowFacts DEF RowSound
<1>2. CASE loose = {}
  BY <1>1, <1>2 DEF PinnedBoundary
<1>3. CASE loose # {}
  <2>1. loose \in SUBSET Nat
    BY <1>1
  <2>2. Least(loose) \in loose /\ \A j \in loose : Least(loose) <= j
    BY <2>1, <1>3, LeastFacts
  <2>3. PinnedBoundary(tabs) = Least(loose) - 1
    BY <1>3 DEF PinnedBoundary
  <2>4. Least(loose) \in 1..n /\ ~ tabs[Least(loose)].pinned
    BY <2>2, <1>1
  <2>5. \A j \in 1..n : ~ tabs[j].pinned => Least(loose) <= j
    BY <2>2, <1>1
  <2>6. \A j \in 1..n : Least(loose) <= j => ~ tabs[j].pinned
    BY <2>4, <1>1 DEF RowSound, PinnedFirst
  <2> HIDE DEF loose
  <2>7. \A j \in 1..n : tabs[j].pinned <=> j <= Least(loose) - 1
    BY <2>4, <2>5, <2>6, <1>1
  <2> QED BY <2>3, <2>4, <2>7, <1>1
<1> QED BY <1>2, <1>3

-----------------------------------------------------------------------------
\* Stores.

\* The store with another workspace on screen.
Turned(st, s) == [st EXCEPT !.activeWorkspaceSlug = s]

LEMMA StoreFacts ==
    ASSUME NEW st, GroupsOK(st)
    PROVE  /\ st.made \in 0..MaxTabs
           /\ Live(st) \subseteq Slugs
           /\ st.activeWorkspaceSlug \in Slugs \cup {Nobody}
           /\ \A s \in Live(st) :
                 /\ RowSound(st.byWorkspace[s].tabs)
                 /\ st.byWorkspace[s].activeTabId \in IdsOf(st.byWorkspace[s].tabs)
                 /\ \A id \in IdsOf(st.byWorkspace[s].tabs) : id \in Ids /\ id <= st.made
<1>1. /\ st.made \in 0..MaxTabs /\ Live(st) \subseteq Slugs
      /\ st.activeWorkspaceSlug \in Slugs \cup {Nobody}
  BY DEF GroupsOK, StoreTypeOK, Live
<1>2. ASSUME NEW s \in Live(st)
      PROVE  /\ RowSound(st.byWorkspace[s].tabs)
             /\ st.byWorkspace[s].activeTabId \in IdsOf(st.byWorkspace[s].tabs)
             /\ \A id \in IdsOf(st.byWorkspace[s].tabs) : id \in Ids /\ id <= st.made
  <2>1. st.byWorkspace[s] \in Group
    BY <1>2 DEF GroupsOK, StoreTypeOK, Live
  <2>2. st.byWorkspace[s].tabs \in Seq(Tab)
    BY <2>1 DEF Group
  <2>3. GroupSound(st.byWorkspace[s])
    BY <1>2 DEF GroupsOK
  <2>4. \A id \in IdsOf(st.byWorkspace[s].tabs) : id \in Ids
    BY <2>2, RowFacts DEF IdsOf
  <2> QED BY <2>2, <2>3, <2>4, <1>2 DEF GroupsOK, GroupSound, RowSound
<1> QED BY <1>1, <1>2

LEMMA WithGroupFacts ==
    ASSUME NEW st, StoreTypeOK(st), NEW s \in Slugs, NEW tabs \in Seq(Tab), NEW id \in Ids
    PROVE  /\ StoreTypeOK(WithGroup(st, s, tabs, id))
           /\ Live(WithGroup(st, s, tabs, id)) = Live(st) \cup {s}
           /\ WithGroup(st, s, tabs, id).byWorkspace[s].tabs = tabs
           /\ WithGroup(st, s, tabs, id).byWorkspace[s].activeTabId = id
           /\ \A x \in Live(st) \ {s} :
                 WithGroup(st, s, tabs, id).byWorkspace[x] = st.byWorkspace[x]
           /\ WithGroup(st, s, tabs, id).activeWorkspaceSlug = st.activeWorkspaceSlug
           /\ WithGroup(st, s, tabs, id).made = st.made
<1> DEFINE new == WithGroup(st, s, tabs, id)
           D == DOMAIN st.byWorkspace
           g == [x \in D \cup {s} |->
                    IF x = s THEN [tabs |-> tabs, activeTabId |-> id]
                    ELSE st.byWorkspace[x]]
<1>1. st = [activeWorkspaceSlug |-> st.activeWorkspaceSlug,
            byWorkspace |-> st.byWorkspace, made |-> st.made]
  BY DEF StoreTypeOK
<1>2. new = [activeWorkspaceSlug |-> st.activeWorkspaceSlug,
             byWorkspace |-> g, made |-> st.made]
  BY <1>1 DEF WithGroup
<1>3. D \subseteq Slugs /\ st.byWorkspace \in [D -> Group]
  BY DEF StoreTypeOK
<1>4. [tabs |-> tabs, activeTabId |-> id] \in Group
  BY DEF Group
<1>5. g \in [D \cup {s} -> Group] /\ D \cup {s} \subseteq Slugs /\ DOMAIN g = D \cup {s}
  BY <1>3, <1>4
<1>6. StoreTypeOK(new)
  <2> HIDE DEF g, D
  <2>1. new.byWorkspace = g /\ new.activeWorkspaceSlug = st.activeWorkspaceSlug
        /\ new.made = st.made
    BY <1>2
  <2>2. DOMAIN new.byWorkspace \subseteq Slugs
        /\ new.byWorkspace \in [DOMAIN new.byWorkspace -> Group]
    BY <2>1, <1>5
  <2>3. new = [activeWorkspaceSlug |-> new.activeWorkspaceSlug,
               byWorkspace |-> new.byWorkspace, made |-> new.made]
    BY <1>2, <2>1
  <2> HIDE DEF new
  <2> QED BY <2>1, <2>2, <2>3 DEF StoreTypeOK
<1>7. Live(new) = Live(st) \cup {s}
  BY <1>2, <1>5 DEF Live
<1>8. /\ new.byWorkspace[s].tabs = tabs /\ new.byWorkspace[s].activeTabId = id
      /\ \A x \in Live(st) \ {s} : new.byWorkspace[x] = st.byWorkspace[x]
  BY <1>2, <1>5 DEF Live
<1>9. new.activeWorkspaceSlug = st.activeWorkspaceSlug /\ new.made = st.made
  BY <1>2
<1> HIDE DEF new
<1> QED BY <1>6, <1>7, <1>8, <1>9 DEF new

\* A row of tabs that are in no other group.
LEMMA WithGroupOK ==
    ASSUME NEW st, GroupsOK(st), NEW s \in Slugs, NEW tabs, RowSound(tabs),
           NEW id \in IdsOf(tabs),
           \A j \in IdsOf(tabs) : j <= st.made,
           \A x \in Live(st) \ {s} : IdsOf(st.byWorkspace[x].tabs) \cap IdsOf(tabs) = {}
    PROVE  GroupsOK(WithGroup(st, s, tabs, id))
<1> DEFINE new == WithGroup(st, s, tabs, id)
<1>1. tabs \in Seq(Tab) /\ id \in Ids
  BY RowFacts DEF RowSound, IdsOf
<1>2. /\ StoreTypeOK(new)
      /\ Live(new) = Live(st) \cup {s}
      /\ new.byWorkspace[s].tabs = tabs /\ new.byWorkspace[s].activeTabId = id
      /\ \A x \in Live(st) \ {s} : new.byWorkspace[x] = st.byWorkspace[x]
      /\ new.made = st.made
  BY <1>1, WithGroupFacts DEF GroupsOK
<1> HIDE DEF new
<1>3. \A x \in Live(new) : GroupSound(new.byWorkspace[x])
  BY <1>2 DEF GroupsOK, GroupSound, RowSound
<1>4. \A x \in Live(new) : \A j \in IdsOf(new.byWorkspace[x].tabs) : j <= new.made
  BY <1>2 DEF GroupsOK
<1>5. GroupsDisjoint(new)
  <2> SUFFICES ASSUME NEW x \in Live(new), NEW y \in Live(new), x # y
               PROVE  IdsOf(new.byWorkspace[x].tabs) \cap IdsOf(new.byWorkspace[y].tabs) = {}
    BY DEF GroupsDisjoint
  <2>1. CASE x = s
    BY <2>1, <1>2
  <2>2. CASE y = s
    BY <2>2, <1>2
  <2>3. CASE x # s /\ y # s
    BY <2>3, <1>2 DEF GroupsOK, GroupsDisjoint
  <2> QED BY <2>1, <2>2, <2>3
<1> QED BY <1>2, <1>3, <1>4, <1>5 DEF GroupsOK, new

\* The tabs of a group, some of them gone or changed.
LEMMA EditOK ==
    ASSUME NEW st, GroupsOK(st), NEW s \in Live(st), NEW tabs, RowSound(tabs),
           NEW id \in IdsOf(tabs),
           IdsOf(tabs) \subseteq IdsOf(st.byWorkspace[s].tabs)
    PROVE  GroupsOK(WithGroup(st, s, tabs, id))
<1>1. s \in Slugs
  BY StoreFacts
<1>2. \A j \in IdsOf(tabs) : j <= st.made
  BY StoreFacts
<1>3. \A x \in Live(st) \ {s} : IdsOf(st.byWorkspace[x].tabs) \cap IdsOf(tabs) = {}
  BY DEF GroupsOK, GroupsDisjoint
<1> QED BY <1>1, <1>2, <1>3, WithGroupOK

LEMMA TurnedOK ==
    ASSUME NEW st, GroupsOK(st), NEW s \in Slugs \cup {Nobody}
    PROVE  /\ GroupsOK(Turned(st, s))
           /\ Live(Turned(st, s)) = Live(st)
           /\ Turned(st, s).byWorkspace = st.byWorkspace
           /\ Turned(st, s).made = st.made
           /\ Turned(st, s).activeWorkspaceSlug = s
<1>1. Turned(st, s) = [activeWorkspaceSlug |-> s, byWorkspace |-> st.byWorkspace,
                       made |-> st.made]
  BY DEF GroupsOK, StoreTypeOK, Turned
<1>2. /\ Turned(st, s).byWorkspace = st.byWorkspace
      /\ Turned(st, s).made = st.made
      /\ Turned(st, s).activeWorkspaceSlug = s
  BY <1>1
<1>3. StoreTypeOK(Turned(st, s))
  BY <1>1, <1>2 DEF GroupsOK, StoreTypeOK
<1> QED BY <1>2, <1>3 DEF GroupsOK, GroupsDisjoint, Live

LEMMA MadeOK ==
    ASSUME NEW st, GroupsOK(st), CanMake(st), NEW path \in Paths
    PROVE  /\ GroupsOK(Made(st))
           /\ Live(Made(st)) = Live(st)
           /\ Made(st).byWorkspace = st.byWorkspace
           /\ Made(st).activeWorkspaceSlug = st.activeWorkspaceSlug
           /\ Made(st).made = st.made + 1
           /\ MakeTab(st, path) \in Tab
           /\ MakeTab(st, path).id = st.made + 1
           /\ ~ MakeTab(st, path).pinned
           /\ \A s \in Live(st) : st.made + 1 \notin IdsOf(st.byWorkspace[s].tabs)
<1>1. st.made \in 0..MaxTabs /\ st.made < MaxTabs /\ MaxTabs \in Nat
  BY StoreFacts, MaxTabsAssumption DEF CanMake
<1>2. Made(st) = [activeWorkspaceSlug |-> st.activeWorkspaceSlug,
                  byWorkspace |-> st.byWorkspace, made |-> st.made + 1]
  BY DEF GroupsOK, StoreTypeOK, Made
<1>3. /\ Made(st).byWorkspace = st.byWorkspace
      /\ Made(st).activeWorkspaceSlug = st.activeWorkspaceSlug
      /\ Made(st).made = st.made + 1
  BY <1>2
<1>4. StoreTypeOK(Made(st))
  BY <1>1, <1>2, <1>3 DEF GroupsOK, StoreTypeOK
<1>5. /\ MakeTab(st, path) \in Tab /\ MakeTab(st, path).id = st.made + 1
      /\ ~ MakeTab(st, path).pinned
  BY <1>1 DEF MakeTab, Tab, Ids
<1>6. \A s \in Live(st) : \A id \in IdsOf(st.byWorkspace[s].tabs) :
          id \in Int /\ id <= st.made
  BY StoreFacts DEF Ids
<1>7. \A s \in Live(st) : \A id \in IdsOf(st.byWorkspace[s].tabs) : id <= st.made + 1
  BY <1>1, <1>6
<1>8. ASSUME NEW s \in Live(st), st.made + 1 \in IdsOf(st.byWorkspace[s].tabs)
      PROVE  FALSE
  <2>1. st.made + 1 <= st.made
    BY <1>6, <1>8
  <2> QED BY <2>1, <1>1
<1>9. GroupsOK(Made(st)) /\ Live(Made(st)) = Live(st)
  BY <1>3, <1>4, <1>7 DEF GroupsOK, GroupsDisjoint, Live
<1> QED BY <1>3, <1>5, <1>8, <1>9

\* A group of one new tab.
LEMMA FreshGroupOK ==
    ASSUME NEW st, GroupsOK(st), CanMake(st), NEW s \in Slugs, NEW path \in Paths
    PROVE  GroupsOK(WithGroup(Made(st), s, <<MakeTab(st, path)>>, MakeTab(st, path).id))
<1> DEFINE tab == MakeTab(st, path)
<1>1. /\ GroupsOK(Made(st)) /\ Live(Made(st)) = Live(st)
      /\ Made(st).byWorkspace = st.byWorkspace /\ Made(st).made = st.made + 1
      /\ tab \in Tab /\ tab.id = st.made + 1
      /\ \A x \in Live(st) : st.made + 1 \notin IdsOf(st.byWorkspace[x].tabs)
  BY MadeOK
<1>2. st.made \in Nat
  BY StoreFacts, MaxTabsAssumption
<1> HIDE DEF tab
<1>3. RowSound(<<tab>>) /\ IdsOf(<<tab>>) = {tab.id}
  BY <1>1 DEF RowSound, PinnedFirst, Distinct, IdsOf
<1>4. \A j \in IdsOf(<<tab>>) : j <= Made(st).made
  BY <1>1, <1>2, <1>3
<1>5. \A x \in Live(Made(st)) \ {s} :
          IdsOf(Made(st).byWorkspace[x].tabs) \cap IdsOf(<<tab>>) = {}
  BY <1>1, <1>3
<1> QED BY <1>1, <1>3, <1>4, <1>5, WithGroupOK DEF tab

\* A new tab at the end of a group.
LEMMA OneMoreOK ==
    ASSUME NEW st, GroupsOK(st), CanMake(st), NEW s \in Live(st), NEW path \in Paths,
           NEW id \in IdsOf(st.byWorkspace[s].tabs) \cup {MakeTab(st, path).id}
    PROVE  GroupsOK(WithGroup(Made(st), s,
                              Append(st.byWorkspace[s].tabs, MakeTab(st, path)), id))
<1> DEFINE tab == MakeTab(st, path)
           tabs == st.byWorkspace[s].tabs
           row == Append(tabs, tab)
<1>1. /\ GroupsOK(Made(st)) /\ Live(Made(st)) = Live(st)
      /\ Made(st).byWorkspace = st.byWorkspace /\ Made(st).made = st.made + 1
      /\ tab \in Tab /\ tab.id = st.made + 1 /\ ~ tab.pinned
      /\ \A x \in Live(st) : st.made + 1 \notin IdsOf(st.byWorkspace[x].tabs)
  BY MadeOK
<1>2. /\ st.made \in Nat /\ s \in Slugs /\ RowSound(tabs)
      /\ \A j \in IdsOf(tabs) : j \in Int /\ j <= st.made
  BY StoreFacts, MaxTabsAssumption DEF Ids
<1>3. tabs \in Seq(Tab) /\ Len(tabs) \in Nat
  BY <1>2, RowFacts DEF RowSound
<1> HIDE DEF tab, tabs
<1>4. row = Inserted(tabs, Len(tabs) + 1, tab)
  BY <1>1, <1>3, AppendIsInserted
<1>5. Fits(tabs, Len(tabs) + 1, tab) /\ tab.id \notin IdsOf(tabs)
  BY <1>1, <1>3 DEF Fits, tabs
<1>6. RowSound(row) /\ IdsOf(row) = IdsOf(tabs) \cup {tab.id}
  BY <1>1, <1>2, <1>3, <1>4, <1>5, InsertedFacts
<1> HIDE DEF row
<1>7. id \in IdsOf(row)
  BY <1>6 DEF tabs, tab
<1>8. \A j \in IdsOf(row) : j <= Made(st).made
  BY <1>1, <1>2, <1>6
<1>9. \A x \in Live(Made(st)) \ {s} :
          IdsOf(Made(st).byWorkspace[x].tabs) \cap IdsOf(row) = {}
  <2> SUFFICES ASSUME NEW x \in Live(st) \ {s}
               PROVE  IdsOf(st.byWorkspace[x].tabs) \cap IdsOf(row) = {}
    BY <1>1
  <2>1. IdsOf(st.byWorkspace[x].tabs) \cap IdsOf(tabs) = {}
    BY DEF GroupsOK, GroupsDisjoint, tabs
  <2> QED BY <2>1, <1>1, <1>6
<1> QED BY <1>1, <1>2, <1>6, <1>7, <1>8, <1>9, WithGroupOK DEF row, tabs, tab

\* Which workspace is on screen, once s has a group.
LEMMA WithGroupActive ==
    ASSUME NEW st, StoreTypeOK(st), NEW s, NEW tabs, NEW id,
           st.activeWorkspaceSlug \in Live(st) \cup {s}
    PROVE  ActiveSlugSound(WithGroup(st, s, tabs, id))
<1> DEFINE new == WithGroup(st, s, tabs, id)
<1>1. st = [activeWorkspaceSlug |-> st.activeWorkspaceSlug,
            byWorkspace |-> st.byWorkspace, made |-> st.made]
  BY DEF StoreTypeOK
<1>2. Live(new) = Live(st) \cup {s} /\ new.activeWorkspaceSlug = st.activeWorkspaceSlug
  BY <1>1 DEF WithGroup, Live
<1> HIDE DEF new
<1> QED BY <1>2 DEF ActiveSlugSound, new

LEMMA HolderFacts ==
    ASSUME NEW st, NEW id, Exists(st, id)
    PROVE  Holder(st, id) \in Live(st) /\ id \in IdsOf(st.byWorkspace[Holder(st, id)].tabs)
BY Zenon DEF Exists, Holder

LEMMA ActiveTabFacts ==
    ASSUME NEW st, StoreOK(st), NEW id, ActiveTab(st) = id, id # Nobody
    PROVE  /\ st.activeWorkspaceSlug \in Live(st)
           /\ Exists(st, id)
<1>1. st.activeWorkspaceSlug \in Live(st)
  BY DEF ActiveTab
<1>2. id = st.byWorkspace[st.activeWorkspaceSlug].activeTabId
  BY <1>1 DEF ActiveTab
<1>3. id \in IdsOf(st.byWorkspace[st.activeWorkspaceSlug].tabs)
  BY <1>1, <1>2, StoreFacts DEF StoreOK
<1> QED BY <1>1, <1>3 DEF Exists

-----------------------------------------------------------------------------
\* The operations.

LEMMA SwitchToOK ==
    ASSUME NEW st, StoreOK(st), CanMake(st), NEW s \in Slugs, NEW path \in Paths
    PROVE  StoreOK(SwitchTo(st, s, path))
<1> DEFINE to == Turned(st, s)
           tab == MakeTab(to, path)
           group == st.byWorkspace[s]
           same == {i \in DOMAIN group.tabs : group.tabs[i].path = path}
<1>1. /\ GroupsOK(to) /\ Live(to) = Live(st) /\ to.byWorkspace = st.byWorkspace
      /\ to.made = st.made /\ to.activeWorkspaceSlug = s /\ CanMake(to)
  BY TurnedOK DEF StoreOK, CanMake
<1>2. MakeTab(st, path) = tab
  BY <1>1 DEF MakeTab
<1>3. SwitchTo(st, s, path) =
         IF s \notin Live(to) THEN WithGroup(Made(to), s, <<tab>>, tab.id)
         ELSE IF same # {}
         THEN WithGroup(to, s, group.tabs, group.tabs[Least(same)].id)
         ELSE WithGroup(Made(to), s, Append(group.tabs, tab), tab.id)
  BY <1>1, <1>2 DEF SwitchTo, Turned
<1>4. /\ GroupsOK(Made(to)) /\ Made(to).activeWorkspaceSlug = s
      /\ StoreTypeOK(Made(to)) /\ StoreTypeOK(to)
  BY <1>1, MadeOK DEF GroupsOK
<1>5. CASE s \notin Live(to)
  <2>1. GroupsOK(WithGroup(Made(to), s, <<tab>>, tab.id))
    BY <1>1, FreshGroupOK
  <2>2. ActiveSlugSound(WithGroup(Made(to), s, <<tab>>, tab.id))
    BY <1>4, WithGroupActive
  <2> QED BY <2>1, <2>2, <1>3, <1>5 DEF StoreOK
<1>6. CASE s \in Live(to) /\ same # {}
  <2>1. RowSound(group.tabs)
    BY <1>1, <1>6, StoreFacts
  <2>2. same \in SUBSET Nat /\ same \subseteq DOMAIN group.tabs
    BY <2>1, RowFacts DEF RowSound
  <2>3. Least(same) \in same
    BY <2>2, <1>6, LeastFacts
  <2>4. group.tabs[Least(same)].id \in IdsOf(group.tabs)
    BY <2>2, <2>3 DEF IdsOf
  <2>5. GroupsOK(WithGroup(to, s, group.tabs, group.tabs[Least(same)].id))
    BY <2>1, <2>4, <1>1, <1>6, EditOK
  <2>6. ActiveSlugSound(WithGroup(to, s, group.tabs, group.tabs[Least(same)].id))
    BY <1>1, <1>4, WithGroupActive
  <2> QED BY <2>5, <2>6, <1>3, <1>6 DEF StoreOK
<1>7. CASE s \in Live(to) /\ same = {}
  <2>1. GroupsOK(WithGroup(Made(to), s, Append(to.byWorkspace[s].tabs, tab), tab.id))
    BY <1>1, <1>7, OneMoreOK
  <2>2. ActiveSlugSound(WithGroup(Made(to), s, Append(group.tabs, tab), tab.id))
    BY <1>4, WithGroupActive
  <2> QED BY <2>1, <2>2, <1>1, <1>3, <1>7 DEF StoreOK
<1> QED BY <1>5, <1>6, <1>7

LEMMA RestoreWorkspaceOK ==
    ASSUME NEW st, StoreOK(st), CanMake(st), NEW s \in Slugs
    PROVE  StoreOK(RestoreWorkspace(st, s))
<1>1. CASE s \in Live(st)
  <2>1. RestoreWorkspace(st, s) = Turned(st, s)
    BY <1>1 DEF RestoreWorkspace, Turned
  <2> QED BY <2>1, <1>1, TurnedOK DEF StoreOK, ActiveSlugSound
<1>2. CASE s \notin Live(st)
  BY <1>2, SwitchToOK, SlugAssumption DEF RestoreWorkspace
<1> QED BY <1>1, <1>2

\* A new tab in the workspace on screen, behind the others; its id is the
\* last one given out.
LEMMA AddTabOK ==
    ASSUME NEW st, StoreOK(st), CanMake(st), NEW path \in Paths
    PROVE  /\ StoreOK(AddTab(st, path))
           /\ AddTab(st, path).made \in {st.made, st.made + 1}
<1> DEFINE s == st.activeWorkspaceSlug
           group == st.byWorkspace[s]
<1>1. CASE s \notin Live(st)
  BY <1>1 DEF AddTab
<1>2. CASE s \in Live(st)
  <2>1. AddTab(st, path) = WithGroup(Made(st), s, Append(group.tabs, MakeTab(st, path)),
                                     group.activeTabId)
    BY <1>2 DEF AddTab
  <2>2. group.activeTabId \in IdsOf(group.tabs)
    BY <1>2, StoreFacts DEF StoreOK
  <2>3. GroupsOK(AddTab(st, path))
    BY <2>1, <2>2, <1>2, OneMoreOK DEF StoreOK
  <2>4. /\ StoreTypeOK(Made(st)) /\ Made(st).activeWorkspaceSlug = s
        /\ Live(Made(st)) = Live(st) /\ Made(st).made = st.made + 1
    BY MadeOK DEF StoreOK, GroupsOK
  <2>5. ActiveSlugSound(AddTab(st, path))
    BY <2>1, <2>4, <1>2, WithGroupActive
  <2>6. AddTab(st, path).made = st.made + 1
    BY <2>1, <2>4 DEF WithGroup, StoreTypeOK
  <2> QED BY <2>3, <2>5, <2>6 DEF StoreOK
<1> QED BY <1>1, <1>2

LEMMA SetActiveTabOK ==
    ASSUME NEW st, StoreOK(st), NEW id
    PROVE  StoreOK(SetActiveTab(st, id))
<1> DEFINE s == Holder(st, id)
           to == Turned(st, s)
<1>1. CASE ~ Exists(st, id)
  BY <1>1 DEF SetActiveTab
<1>2. CASE Exists(st, id)
  <2>1. s \in Live(st) /\ id \in IdsOf(st.byWorkspace[s].tabs)
    BY <1>2, HolderFacts
  <2>2. s \in Slugs /\ RowSound(st.byWorkspace[s].tabs)
    BY <2>1, StoreFacts DEF StoreOK
  <2>3. /\ GroupsOK(to) /\ Live(to) = Live(st) /\ to.byWorkspace = st.byWorkspace
        /\ to.activeWorkspaceSlug = s /\ StoreTypeOK(to)
    BY <2>2, TurnedOK DEF StoreOK, GroupsOK
  <2>4. SetActiveTab(st, id) = WithGroup(to, s, st.byWorkspace[s].tabs, id)
    BY <1>2 DEF SetActiveTab, Turned
  <2> HIDE DEF s, to
  <2>5. GroupsOK(WithGroup(to, s, st.byWorkspace[s].tabs, id))
    BY <2>1, <2>2, <2>3, EditOK
  <2>6. ActiveSlugSound(WithGroup(to, s, st.byWorkspace[s].tabs, id))
    BY <2>1, <2>3, WithGroupActive
  <2> QED BY <2>4, <2>5, <2>6 DEF StoreOK
<1> QED BY <1>1, <1>2

LEMMA OpenTabOK ==
    ASSUME NEW st, StoreOK(st), CanMake(st), NEW path \in Paths
    PROVE  StoreOK(OpenTab(st, path))
<1> DEFINE s == st.activeWorkspaceSlug
           group == st.byWorkspace[s]
           same == {i \in DOMAIN group.tabs : group.tabs[i].path = path}
<1>1. CASE s \notin Live(st) \/ SlugOf[path] = Nobody
  BY <1>1 DEF OpenTab
<1>2. CASE s \in Live(st) /\ SlugOf[path] # Nobody /\ same # {}
  <2>1. RowSound(group.tabs)
    BY <1>2, StoreFacts DEF StoreOK
  <2>2. same \in SUBSET Nat /\ same \subseteq DOMAIN group.tabs
    BY <2>1, RowFacts DEF RowSound
  <2>3. Least(same) \in same
    BY <2>2, <1>2, LeastFacts
  <2>4. group.tabs[Least(same)].id \in IdsOf(group.tabs)
    BY <2>2, <2>3 DEF IdsOf
  <2>5. OpenTab(st, path) = WithGroup(st, s, group.tabs, group.tabs[Least(same)].id)
    BY <1>2 DEF OpenTab
  <2>6. GroupsOK(OpenTab(st, path))
    BY <2>1, <2>4, <2>5, <1>2, EditOK DEF StoreOK
  <2>7. ActiveSlugSound(OpenTab(st, path))
    BY <2>5, <1>2, WithGroupActive DEF StoreOK, GroupsOK
  <2> QED BY <2>6, <2>7 DEF StoreOK
<1>3. CASE s \in Live(st) /\ SlugOf[path] # Nobody /\ same = {}
  <2>1. OpenTab(st, path) = AddTab(st, path)
    BY <1>3 DEF OpenTab
  <2> QED BY <2>1, AddTabOK
<1> QED BY <1>1, <1>2, <1>3

\* A group whose workspace is on screen, or is not, is edited.
LEMMA EditStoreOK ==
    ASSUME NEW st, StoreOK(st), NEW s \in Live(st), NEW tabs, RowSound(tabs),
           NEW id \in IdsOf(tabs),
           IdsOf(tabs) \subseteq IdsOf(st.byWorkspace[s].tabs)
    PROVE  StoreOK(WithGroup(st, s, tabs, id))
<1>1. GroupsOK(WithGroup(st, s, tabs, id))
  BY EditOK DEF StoreOK
<1>2. st.activeWorkspaceSlug \in Live(st) /\ StoreTypeOK(st)
  BY DEF StoreOK, GroupsOK, ActiveSlugSound
<1> QED BY <1>1, <1>2, WithGroupActive DEF StoreOK

LEMMA CloseTabOK ==
    ASSUME NEW st, StoreOK(st), CanMake(st), NEW id, Exists(st, id)
    PROVE  StoreOK(CloseTab(st, id))
<1> DEFINE s == Holder(st, id)
           group == st.byWorkspace[s]
           tabs == group.tabs
           i == At(tabs, id)
           rest == Without(tabs, i)
           fresh == MakeTab(st, IssuesOf[s])
           next == IF group.activeTabId # id THEN group.activeTabId
                   ELSE rest[IF i <= Len(rest) THEN i ELSE Len(rest)].id
<1>1. s \in Live(st) /\ id \in IdsOf(tabs)
  BY HolderFacts
<1>2. s \in Slugs /\ RowSound(tabs) /\ group.activeTabId \in IdsOf(tabs)
  BY <1>1, StoreFacts DEF StoreOK
<1>3. tabs \in Seq(Tab) /\ Len(tabs) \in Nat /\ i \in 1..Len(tabs) /\ tabs[i].id = id
  BY <1>1, <1>2, RowFacts, AtFacts DEF RowSound
<1>4. CASE Len(tabs) = 1
  <2>1. CloseTab(st, id) = WithGroup(Made(st), s, <<fresh>>, fresh.id)
    BY <1>4 DEF CloseTab
  <2>2. IssuesOf[s] \in Paths
    BY <1>2, SlugAssumption
  <2>3. GroupsOK(WithGroup(Made(st), s, <<fresh>>, fresh.id))
    BY <1>2, <2>2, FreshGroupOK DEF StoreOK
  <2>4. /\ StoreTypeOK(Made(st)) /\ Live(Made(st)) = Live(st)
        /\ Made(st).activeWorkspaceSlug = st.activeWorkspaceSlug
    BY <2>2, MadeOK DEF StoreOK, GroupsOK
  <2>5. st.activeWorkspaceSlug \in Live(st)
    BY <1>1 DEF StoreOK, ActiveSlugSound
  <2>6. ActiveSlugSound(WithGroup(Made(st), s, <<fresh>>, fresh.id))
    BY <2>4, <2>5, WithGroupActive
  <2> QED BY <2>1, <2>3, <2>6 DEF StoreOK
<1>5. CASE Len(tabs) # 1
  <2>1. CloseTab(st, id) = WithGroup(st, s, rest, next)
    BY <1>5 DEF CloseTab
  <2>2. /\ RowSound(rest) /\ Len(rest) = Len(tabs) - 1
        /\ IdsOf(rest) = IdsOf(tabs) \ {id}
    BY <1>2, <1>3, WithoutFacts
  <2>3. next \in IdsOf(rest)
    <3>1. CASE group.activeTabId # id
      BY <3>1, <2>2, <1>2
    <3>2. CASE group.activeTabId = id
      <4> DEFINE k == IF i <= Len(rest) THEN i ELSE Len(rest)
      <4>1. k \in 1..Len(rest)
        <5> HIDE DEF i, tabs, rest
        <5> QED BY <1>3, <1>5, <2>2
      <4>2. DOMAIN rest = 1..Len(rest)
        BY <2>2, RowFacts DEF RowSound
      <4>3. next = rest[k].id
        BY <3>2
      <4> QED BY <4>1, <4>2, <4>3 DEF IdsOf
    <3> QED BY <3>1, <3>2
  <2> HIDE DEF next, rest, tabs, s
  <2>4. StoreOK(WithGroup(st, s, rest, next))
    BY <1>1, <2>2, <2>3, EditStoreOK DEF tabs
  <2> QED BY <2>1, <2>4
<1> QED BY <1>4, <1>5

LEMMA MoveTabOK ==
    ASSUME NEW st, StoreOK(st), st.activeWorkspaceSlug \in Live(st),
           NEW from \in DOMAIN st.byWorkspace[st.activeWorkspaceSlug].tabs,
           NEW to \in DOMAIN st.byWorkspace[st.activeWorkspaceSlug].tabs
    PROVE  StoreOK(MoveTab(st, from, to))
<1> DEFINE s == st.activeWorkspaceSlug
           group == st.byWorkspace[s]
           tabs == group.tabs
           b == PinnedBoundary(tabs)
           clamped == IF tabs[from].pinned THEN (IF to <= b THEN to ELSE b)
                      ELSE (IF to > b THEN to ELSE b + 1)
           rest == Without(tabs, from)
           row == Inserted(rest, clamped, tabs[from])
<1>1. RowSound(tabs) /\ group.activeTabId \in IdsOf(tabs)
  BY StoreFacts DEF StoreOK
<1>2. /\ tabs \in Seq(Tab) /\ Len(tabs) \in Nat /\ DOMAIN tabs = 1..Len(tabs)
      /\ \A j \in 1..Len(tabs) : tabs[j] \in Tab /\ tabs[j].pinned \in BOOLEAN
  BY <1>1, RowFacts DEF RowSound
<1>3. from \in 1..Len(tabs) /\ to \in 1..Len(tabs)
  BY <1>2
<1>4. b \in 0..Len(tabs) /\ \A j \in 1..Len(tabs) : tabs[j].pinned <=> j <= b
  BY <1>1, BoundaryFacts
<1>5. /\ RowSound(rest) /\ Len(rest) = Len(tabs) - 1
      /\ IdsOf(rest) = IdsOf(tabs) \ {tabs[from].id}
      /\ \A j \in 1..(Len(tabs) - 1) : rest[j] = IF j < from THEN tabs[j] ELSE tabs[j + 1]
  BY <1>1, <1>3, WithoutFacts
<1> HIDE DEF b, tabs, rest
<1>6. clamped \in 1..(Len(rest) + 1)
  BY <1>2, <1>3, <1>4, <1>5
<1>7. Fits(rest, clamped, tabs[from])
  <2>1. CASE tabs[from].pinned
    <3>1. clamped <= b /\ from <= b /\ clamped \in Int
      BY <2>1, <1>2, <1>3, <1>4
    <3>2. ASSUME NEW j \in 1..Len(rest), j < clamped
          PROVE  rest[j].pinned
      <4>1. j + 1 <= b /\ j <= b /\ j \in 1..Len(tabs) /\ j + 1 \in 1..Len(tabs)
        BY <3>1, <3>2, <1>2, <1>4, <1>5
      <4> QED BY <4>1, <1>4, <1>5
    <3> QED BY <2>1, <3>2 DEF Fits
  <2>2. CASE ~ tabs[from].pinned
    <3>1. clamped > b /\ from > b /\ clamped \in Int
      BY <2>2, <1>2, <1>3, <1>4
    <3>2. ASSUME NEW j \in 1..Len(rest), clamped <= j
          PROVE  ~ rest[j].pinned
      <4>1. ~ (j + 1 <= b) /\ ~ (j <= b) /\ j \in 1..Len(tabs) /\ j + 1 \in 1..Len(tabs)
        BY <3>1, <3>2, <1>2, <1>4, <1>5
      <4> QED BY <4>1, <1>4, <1>5
    <3> QED BY <2>2, <3>2 DEF Fits
  <2> QED BY <2>1, <2>2
<1> HIDE DEF clamped
<1>8. tabs[from] \in Tab /\ tabs[from].id \notin IdsOf(rest) /\ tabs[from].id \in IdsOf(tabs)
  BY <1>2, <1>3, <1>5 DEF IdsOf
<1>9. RowSound(row) /\ IdsOf(row) = IdsOf(rest) \cup {tabs[from].id}
  BY <1>5, <1>6, <1>7, <1>8, InsertedFacts
<1>10. IdsOf(row) = IdsOf(tabs)
  BY <1>5, <1>8, <1>9
<1>11. MoveTab(st, from, to) = IF clamped = from THEN st
                               ELSE WithGroup(st, s, row, group.activeTabId)
  BY DEF MoveTab, clamped, b, tabs, rest
<1> HIDE DEF row
<1>12. StoreOK(WithGroup(st, s, row, group.activeTabId))
  BY <1>1, <1>9, <1>10, EditStoreOK DEF tabs
<1> QED BY <1>11, <1>12

LEMMA TogglePinOK ==
    ASSUME NEW st, StoreOK(st), NEW id, Exists(st, id)
    PROVE  StoreOK(TogglePin(st, id))
<1> DEFINE s == Holder(st, id)
           group == st.byWorkspace[s]
           tabs == group.tabs
           i == At(tabs, id)
           rest == Without(tabs, i)
           tab == [tabs[i] EXCEPT !.pinned = ~ @]
           b == PinnedBoundary(rest)
           row == Inserted(rest, b + 1, tab)
<1>1. s \in Live(st) /\ id \in IdsOf(tabs)
  BY HolderFacts
<1>2. RowSound(tabs) /\ group.activeTabId \in IdsOf(tabs)
  BY <1>1, StoreFacts DEF StoreOK
<1>3. /\ tabs \in Seq(Tab) /\ Len(tabs) \in Nat /\ i \in 1..Len(tabs) /\ tabs[i].id = id
      /\ tabs[i] \in Tab
  BY <1>1, <1>2, RowFacts, AtFacts DEF RowSound
<1>4. /\ RowSound(rest) /\ Len(rest) = Len(tabs) - 1
      /\ IdsOf(rest) = IdsOf(tabs) \ {id}
  BY <1>2, <1>3, WithoutFacts
<1>5. b \in 0..Len(rest) /\ \A j \in 1..Len(rest) : rest[j].pinned <=> j <= b
  BY <1>4, BoundaryFacts
<1>6. tab \in Tab /\ tab.id = id
  BY <1>3 DEF Tab
<1>7. Len(rest) \in Nat
  BY <1>4, RowFacts DEF RowSound
<1>8. TogglePin(st, id) = WithGroup(st, s, row, group.activeTabId)
  BY DEF TogglePin
<1> HIDE DEF b, rest, tab
<1>9. Fits(rest, b + 1, tab) /\ b + 1 \in 1..(Len(rest) + 1)
  BY <1>5, <1>7 DEF Fits
<1>10. RowSound(row) /\ IdsOf(row) = IdsOf(rest) \cup {id}
  BY <1>4, <1>6, <1>9, InsertedFacts
<1> HIDE DEF row, tabs, s
<1>11. IdsOf(row) = IdsOf(tabs)
  BY <1>1, <1>4, <1>10
<1>12. StoreOK(WithGroup(st, s, row, group.activeTabId))
  BY <1>1, <1>2, <1>10, <1>11, EditStoreOK DEF tabs
<1> QED BY <1>8, <1>12

LEMMA RelocatedOK ==
    ASSUME NEW st, StoreOK(st), NEW id, NEW path \in Paths, NEW syncs \in BOOLEAN
    PROVE  StoreOK(Relocated(st, id, path, syncs))
<1> DEFINE s == Holder(st, id)
           group == st.byWorkspace[s]
           tabs == group.tabs
           i == At(tabs, id)
           tab == [tabs[i] EXCEPT !.at = path, !.path = IF syncs THEN path ELSE tabs[i].path]
           row == [tabs EXCEPT ![i] = tab]
<1>1. CASE ~ Exists(st, id)
  BY <1>1 DEF Relocated
<1>2. CASE Exists(st, id)
  <2>1. s \in Live(st) /\ id \in IdsOf(tabs)
    BY <1>2, HolderFacts
  <2>2. RowSound(tabs) /\ group.activeTabId \in IdsOf(tabs)
    BY <2>1, StoreFacts DEF StoreOK
  <2>3. /\ tabs \in Seq(Tab) /\ Len(tabs) \in Nat /\ DOMAIN tabs = 1..Len(tabs)
        /\ i \in 1..Len(tabs) /\ tabs[i] \in Tab
    BY <2>1, <2>2, RowFacts, AtFacts DEF RowSound
  <2>4. tab \in Tab /\ tab.id = tabs[i].id /\ tab.pinned = tabs[i].pinned
    BY <2>3 DEF Tab
  <2>5. Relocated(st, id, path, syncs) = WithGroup(st, s, row, group.activeTabId)
    BY <1>2 DEF Relocated
  <2> HIDE DEF tab, i
  <2>6. /\ row \in Seq(Tab) /\ Len(row) = Len(tabs)
        /\ \A j \in 1..Len(tabs) : row[j] = IF j = i THEN tab ELSE tabs[j]
    BY <2>3, <2>4, ExceptSeq
  <2>7. DOMAIN row = 1..Len(tabs)
    BY <2>6, RowFacts
  <2> HIDE DEF row
  <2>8. \A j \in 1..Len(tabs) : row[j].id = tabs[j].id /\ row[j].pinned = tabs[j].pinned
    BY <2>4, <2>6
  <2> HIDE DEF tabs
  <2>9. RowSound(row) /\ IdsOf(row) = IdsOf(tabs)
    <3>1. PinnedFirst(row)
      BY <2>2, <2>3, <2>7, <2>8 DEF RowSound, PinnedFirst
    <3>2. Distinct(row)
      BY <2>2, <2>3, <2>7, <2>8 DEF RowSound, Distinct
    <3>3. IdsOf(row) = IdsOf(tabs)
      BY <2>3, <2>7, <2>8 DEF IdsOf
    <3> QED BY <2>6, <3>1, <3>2, <3>3 DEF RowSound
  <2> HIDE DEF s
  <2>10. StoreOK(WithGroup(st, s, row, group.activeTabId))
    BY <2>1, <2>2, <2>9, EditStoreOK DEF tabs
  <2> QED BY <2>5, <2>10
<1> QED BY <1>1, <1>2

LEMMA TabOfFacts ==
    ASSUME NEW st, StoreOK(st), NEW id, Exists(st, id)
    PROVE  TabOf(st, id).at \in Paths
<1> DEFINE tabs == st.byWorkspace[Holder(st, id)].tabs
<1>1. Holder(st, id) \in Live(st) /\ id \in IdsOf(tabs)
  BY HolderFacts
<1>2. tabs \in Seq(Tab)
  BY <1>1, StoreFacts DEF StoreOK, RowSound
<1>3. At(tabs, id) \in DOMAIN tabs
  BY <1>1, <1>2, AtFacts, RowFacts
<1> QED BY <1>2, <1>3, RowFacts DEF TabOf

LEMMA SyncedOK ==
    ASSUME NEW st, StoreOK(st)
    PROVE  StoreOK(Synced(st))
<1>1. CASE ActiveTab(st) = Nobody
  BY <1>1 DEF Synced
<1>2. CASE ActiveTab(st) # Nobody
  <2>1. Exists(st, ActiveTab(st))
    BY <1>2, ActiveTabFacts
  <2>2. TabOf(st, ActiveTab(st)).at \in Paths
    BY <2>1, TabOfFacts
  <2>3. Synced(st) = Relocated(st, ActiveTab(st), TabOf(st, ActiveTab(st)).at, TRUE)
    BY <1>2 DEF Synced
  <2> QED BY <2>2, <2>3, RelocatedOK
<1> QED BY <1>1, <1>2

LEMMA NavigatedOK ==
    ASSUME NEW st, StoreOK(st), NEW origin, NEW path \in Paths
    PROVE  StoreOK(Navigated(st, origin, path))
<1>1. (origin = ActiveTab(st)) \in BOOLEAN
  OBVIOUS
<1> QED BY <1>1, RelocatedOK DEF Navigated

LEMMA ValidatedOK ==
    ASSUME NEW st, StoreOK(st), NEW valid \in SUBSET Slugs,
           NEW next \in FirstOf(Live(st) \cap valid)
    PROVE  /\ StoreOK(Validated(st, valid, next))
           /\ Validated(st, valid, next).made = st.made
<1> DEFINE D == DOMAIN st.byWorkspace \cap valid
           g == [s \in D |-> st.byWorkspace[s]]
           a == IF st.activeWorkspaceSlug = Nobody \/ st.activeWorkspaceSlug \in valid
                THEN st.activeWorkspaceSlug ELSE next
           new == Validated(st, valid, next)
<1>1. new = [activeWorkspaceSlug |-> a, byWorkspace |-> g, made |-> st.made]
  <2>1. st = [activeWorkspaceSlug |-> st.activeWorkspaceSlug,
              byWorkspace |-> st.byWorkspace, made |-> st.made]
    BY DEF StoreOK, GroupsOK, StoreTypeOK
  <2>2. new = [st EXCEPT !.byWorkspace = g, !.activeWorkspaceSlug = a]
    BY Zenon DEF Validated
  <2> HIDE DEF g, a, new
  <2> QED BY <2>1, <2>2
<1>2. /\ Live(st) \subseteq Slugs /\ st.activeWorkspaceSlug \in Slugs \cup {Nobody}
      /\ st.made \in 0..MaxTabs
      /\ st.byWorkspace \in [Live(st) -> Group]
  BY DEF StoreOK, GroupsOK, StoreTypeOK, Live
<1>3. D = Live(st) \cap valid
  BY DEF Live
<1>4. g \in [D -> Group] /\ DOMAIN g = D /\ \A s \in D : g[s] = st.byWorkspace[s]
  BY <1>2, <1>3
<1>5. next \in Slugs \cup {Nobody} /\ (D = {} => next = Nobody) /\ (D # {} => next \in D)
  BY <1>2, <1>3 DEF FirstOf
<1>6. a \in Slugs \cup {Nobody}
  BY <1>2, <1>5
<1>7. IF D = {} THEN a = Nobody ELSE a \in D
  <2>1. IF Live(st) = {} THEN st.activeWorkspaceSlug = Nobody
        ELSE st.activeWorkspaceSlug \in Live(st)
    BY DEF StoreOK, ActiveSlugSound
  <2>2. Nobody \notin Slugs
    BY SlugAssumption
  <2> QED BY <2>1, <2>2, <1>2, <1>3, <1>5
<1>8. new.byWorkspace = g /\ new.activeWorkspaceSlug = a /\ new.made = st.made
  BY <1>1
<1> HIDE DEF g, a, D
<1>9. StoreTypeOK(new)
  BY <1>1, <1>2, <1>3, <1>4, <1>6, <1>8 DEF StoreTypeOK
<1> HIDE DEF new
<1>10. Live(new) = D /\ \A s \in D : new.byWorkspace[s] = st.byWorkspace[s] /\ s \in Live(st)
  BY <1>3, <1>4, <1>8 DEF Live
<1>11. GroupsOK(new)
  BY <1>8, <1>9, <1>10 DEF GroupsOK, GroupsDisjoint, StoreOK
<1>12. ActiveSlugSound(new)
  BY <1>7, <1>8, <1>10 DEF ActiveSlugSound
<1> QED BY <1>8, <1>11, <1>12 DEF StoreOK, new

-----------------------------------------------------------------------------
\* What is restored: the invariant does not have to hold of what was stored.

\* Rows whose ids are given out once in each, and once in what a restart keeps
\* of all.
Restorable(st) ==
    /\ st.made \in 0..MaxTabs /\ Live(st) \subseteq Slugs
    /\ \A s \in Live(st) :
          /\ st.byWorkspace[s].tabs \in Seq(Tab) /\ Distinct(st.byWorkspace[s].tabs)
          /\ \A id \in IdsOf(st.byWorkspace[s].tabs) : id <= st.made
    /\ \A s, t \in Live(st) : s # t =>
          \A i \in Kept(st.byWorkspace[s].tabs, s), j \in Kept(st.byWorkspace[t].tabs, t) :
              st.byWorkspace[s].tabs[i].id # st.byWorkspace[t].tabs[j].id

LEMMA RestoredGroupOK ==
    ASSUME NEW tabs \in Seq(Tab), Distinct(tabs), NEW s, Kept(tabs, s) # {},
           NEW f \in [1..Cardinality(Kept(tabs, s)) -> Kept(tabs, s)],
           Arranged(tabs, Kept(tabs, s), f), NEW active
    PROVE  /\ RestoredGroup(tabs, f, active) \in Group
           /\ GroupSound(RestoredGroup(tabs, f, active))
           /\ \A id \in IdsOf(RestoredGroup(tabs, f, active).tabs) :
                 \E i \in Kept(tabs, s) : tabs[i].id = id
<1> DEFINE keep == Kept(tabs, s)
           n == Cardinality(keep)
           new == [j \in DOMAIN f |-> [tabs[f[j]] EXCEPT !.at = tabs[f[j]].path]]
           act == IF active \in IdsOf(new) THEN active ELSE new[1].id
<1>1. /\ Len(tabs) \in Nat /\ DOMAIN tabs = 1..Len(tabs)
      /\ \A i \in DOMAIN tabs : tabs[i] \in Tab /\ tabs[i].path \in Paths
  BY RowFacts
<1>2. keep \subseteq DOMAIN tabs
  BY DEF Kept
<1>3. n \in Nat
  <2>1. IsFiniteSet(1..Len(tabs))
    BY <1>1, FS_Interval
  <2>2. keep \in SUBSET (1..Len(tabs))
    BY <1>1, <1>2
  <2> HIDE DEF keep
  <2>3. IsFiniteSet(keep)
    BY <2>1, <2>2, FS_Subset
  <2> QED BY <2>3, FS_CardinalityType
<1>4. RestoredGroup(tabs, f, active) = [tabs |-> new, activeTabId |-> act]
  BY DEF RestoredGroup
<1> HIDE DEF keep, n
<1>5. f \in [1..n -> keep] /\ DOMAIN f = 1..n
  BY DEF keep, n
<1>6. /\ \A i \in keep : \E j \in 1..n : f[j] = i
      /\ \A i, j \in 1..n : i < j =>
            \/ tabs[f[i]].pinned /\ ~ tabs[f[j]].pinned
            \/ tabs[f[i]].pinned = tabs[f[j]].pinned /\ f[i] < f[j]
  BY <1>5 DEF Arranged, keep
<1>7. \A j \in 1..n : f[j] \in keep /\ f[j] \in DOMAIN tabs
  BY <1>2, <1>5
<1>8. 1 \in 1..n
  <2>1. PICK i \in keep : TRUE
    BY DEF keep
  <2>2. PICK j \in 1..n : f[j] = i
    BY <1>6
  <2> QED BY <2>2, <1>3
<1>9. \A j \in 1..n : /\ new[j] \in Tab /\ new[j].id = tabs[f[j]].id
                      /\ new[j].pinned = tabs[f[j]].pinned
  <2> SUFFICES ASSUME NEW j \in 1..n
               PROVE  /\ new[j] \in Tab /\ new[j].id = tabs[f[j]].id
                      /\ new[j].pinned = tabs[f[j]].pinned
    OBVIOUS
  <2>1. tabs[f[j]] \in Tab
    BY <1>1, <1>7
  <2>2. new[j] = [tabs[f[j]] EXCEPT !.at = tabs[f[j]].path]
    BY <1>5
  <2> QED BY <2>1, <2>2 DEF Tab
<1>10. new \in [1..n -> Tab] /\ DOMAIN new = 1..n
  BY <1>5, <1>9
<1> HIDE DEF new
<1>11. new \in Seq(Tab)
  BY <1>3, <1>10, RowOf
<1>12. PinnedFirst(new)
  <2> SUFFICES ASSUME NEW k \in 1..n, NEW l \in 1..n, k < l, new[l].pinned
               PROVE  new[k].pinned
    BY <1>10 DEF PinnedFirst
  <2>1. new[l].pinned = tabs[f[l]].pinned /\ new[k].pinned = tabs[f[k]].pinned
    BY <1>9
  <2>2. \/ tabs[f[k]].pinned /\ ~ tabs[f[l]].pinned
        \/ tabs[f[k]].pinned = tabs[f[l]].pinned
    BY <1>6
  <2> QED BY <2>1, <2>2, Zenon
<1>13. Distinct(new)
  <2> SUFFICES ASSUME NEW k \in 1..n, NEW l \in 1..n, new[k].id = new[l].id
               PROVE  k = l
    BY <1>10 DEF Distinct
  <2>1. f[k] = f[l]
    BY <1>7, <1>9 DEF Distinct
  <2>2. f[k] \in Int
    BY <1>1, <1>7
  <2>3. ~ (k < l) /\ ~ (l < k)
    BY <2>1, <2>2, <1>6
  <2> QED BY <2>3, <1>3
<1>14. act \in IdsOf(new) /\ act \in Ids
  <2>1. new[1].id \in IdsOf(new)
    BY <1>8, <1>10 DEF IdsOf
  <2>2. \A id \in IdsOf(new) : id \in Ids
    BY <1>11, RowFacts DEF IdsOf
  <2> QED BY <2>1, <2>2
<1>15. \A id \in IdsOf(new) : \E i \in keep : tabs[i].id = id
  BY <1>7, <1>9, <1>10 DEF IdsOf
<1> HIDE DEF act
<1> QED BY <1>4, <1>11, <1>12, <1>13, <1>14, <1>15 DEF Group, GroupSound, keep

LEMMA RestoredOK ==
    ASSUME NEW st, Restorable(st), NEW new \in Merges(st)
    PROVE  StoreOK(new)
<1> DEFINE kept == KeptSlugs(st)
<1>1. /\ new \in [activeWorkspaceSlug : kept \cup {Nobody},
                 byWorkspace : GroupsOver(st), made : {st.made}]
      /\ Restored(st, new)
  BY DEF Merges
<1>2. /\ new = [activeWorkspaceSlug |-> new.activeWorkspaceSlug,
                byWorkspace |-> new.byWorkspace, made |-> new.made]
      /\ new.byWorkspace = [s \in kept |-> new.byWorkspace[s]]
      /\ DOMAIN new.byWorkspace = kept
      /\ \A s \in kept : new.byWorkspace[s] \in RestoredGroups(st.byWorkspace[s], s)
      /\ new.activeWorkspaceSlug \in
             IF st.activeWorkspaceSlug \in kept THEN {st.activeWorkspaceSlug}
             ELSE FirstOf(kept)
      /\ new.made = st.made
  BY <1>1 DEF Restored, GroupsOver
<1>3. ASSUME NEW s \in kept
      PROVE  /\ new.byWorkspace[s] \in Group
             /\ GroupSound(new.byWorkspace[s])
             /\ \A id \in IdsOf(new.byWorkspace[s].tabs) :
                   \E i \in Kept(st.byWorkspace[s].tabs, s) : st.byWorkspace[s].tabs[i].id = id
  <2> DEFINE tabs == st.byWorkspace[s].tabs
  <2>1. tabs \in Seq(Tab) /\ Distinct(tabs) /\ Kept(tabs, s) # {}
    BY DEF Restorable, KeptSlugs
  <2>2. PICK f \in [1..Cardinality(Kept(tabs, s)) -> Kept(tabs, s)] :
          /\ Arranged(tabs, Kept(tabs, s), f)
          /\ new.byWorkspace[s] = RestoredGroup(tabs, f, st.byWorkspace[s].activeTabId)
    BY <1>2 DEF RestoredGroups
  <2> DEFINE act == st.byWorkspace[s].activeTabId
             row == RestoredGroup(tabs, f, act)
  <2>3. /\ row \in Group /\ GroupSound(row)
        /\ \A id \in IdsOf(row.tabs) : \E i \in Kept(tabs, s) : tabs[i].id = id
    <3> HIDE DEF tabs, act
    <3> QED BY <2>1, <2>2, RestoredGroupOK
  <2>4. new.byWorkspace[s] = row
    BY <2>2
  <2> HIDE DEF row
  <2> QED BY <2>3, <2>4
<1>4. kept \subseteq Slugs /\ kept \subseteq Live(st) /\ st.made \in 0..MaxTabs
  BY DEF Restorable, KeptSlugs
<1>5. /\ new.activeWorkspaceSlug \in Slugs \cup {Nobody}
      /\ IF kept = {} THEN new.activeWorkspaceSlug = Nobody
         ELSE new.activeWorkspaceSlug \in kept
  BY <1>2, <1>4 DEF FirstOf
<1> HIDE DEF kept
<1>6. new.byWorkspace \in [DOMAIN new.byWorkspace -> Group]
  BY <1>1, <1>2, <1>3
<1>7. StoreTypeOK(new)
  BY <1>1, <1>2, <1>4, <1>5, <1>6 DEF StoreTypeOK
<1>8. \A s \in kept : \A id \in IdsOf(new.byWorkspace[s].tabs) : id <= new.made
  <2> SUFFICES ASSUME NEW s \in kept, NEW id \in IdsOf(new.byWorkspace[s].tabs)
               PROVE  id <= st.made
    BY <1>2
  <2>1. PICK i \in Kept(st.byWorkspace[s].tabs, s) : st.byWorkspace[s].tabs[i].id = id
    BY <1>3
  <2>2. id \in IdsOf(st.byWorkspace[s].tabs)
    BY <2>1 DEF Kept, IdsOf
  <2> QED BY <2>2, <1>4 DEF Restorable
<1>9. GroupsDisjoint(new)
  <2> SUFFICES ASSUME NEW s \in kept, NEW t \in kept, s # t, NEW id,
                      id \in IdsOf(new.byWorkspace[s].tabs),
                      id \in IdsOf(new.byWorkspace[t].tabs)
               PROVE  FALSE
    BY <1>2 DEF GroupsDisjoint, Live
  <2>1. PICK i \in Kept(st.byWorkspace[s].tabs, s) : st.byWorkspace[s].tabs[i].id = id
    BY <1>3
  <2>2. PICK j \in Kept(st.byWorkspace[t].tabs, t) : st.byWorkspace[t].tabs[j].id = id
    BY <1>3
  <2> QED BY <2>1, <2>2, <1>4 DEF Restorable
<1>10. GroupsOK(new)
  BY <1>2, <1>3, <1>7, <1>8, <1>9 DEF GroupsOK, Live
<1>11. ActiveSlugSound(new)
  BY <1>2, <1>5 DEF ActiveSlugSound, Live
<1> QED BY <1>10, <1>11 DEF StoreOK

\* Every sound store is restorable, and so is what version 1 may have stored.
LEMMA SoundIsRestorable ==
    ASSUME NEW st, StoreOK(st)
    PROVE  Restorable(st)
<1>1. st.made \in 0..MaxTabs /\ Live(st) \subseteq Slugs
  BY StoreFacts DEF StoreOK
<1>2. \A s \in Live(st) :
          /\ st.byWorkspace[s].tabs \in Seq(Tab) /\ Distinct(st.byWorkspace[s].tabs)
          /\ \A id \in IdsOf(st.byWorkspace[s].tabs) : id <= st.made
  BY StoreFacts DEF StoreOK, RowSound
<1>3. ASSUME NEW s \in Live(st), NEW t \in Live(st), s # t,
             NEW i \in Kept(st.byWorkspace[s].tabs, s),
             NEW j \in Kept(st.byWorkspace[t].tabs, t)
      PROVE  st.byWorkspace[s].tabs[i].id # st.byWorkspace[t].tabs[j].id
  <2>1. /\ st.byWorkspace[s].tabs[i].id \in IdsOf(st.byWorkspace[s].tabs)
        /\ st.byWorkspace[t].tabs[j].id \in IdsOf(st.byWorkspace[t].tabs)
    BY DEF IdsOf, Kept
  <2>2. IdsOf(st.byWorkspace[s].tabs) \cap IdsOf(st.byWorkspace[t].tabs) = {}
    BY <1>3 DEF StoreOK, GroupsOK, GroupsDisjoint
  <2> QED BY <2>1, <2>2
<1> QED BY <1>1, <1>2, <1>3 DEF Restorable

LEMMA MigratedIsRestorable ==
    ASSUME NEW v1 \in V1Stores
    PROVE  Restorable(Migrated(v1))
<1> DEFINE st == Migrated(v1)
           slugs == {s \in Slugs : Kept(v1.tabs, s) # {}}
<1>1. /\ v1.tabs \in Seq(Tab) /\ Len(v1.tabs) <= MaxTabs
      /\ \A i \in DOMAIN v1.tabs : v1.tabs[i].id = i
  BY V1Assumption
<1>2. Len(v1.tabs) \in Nat /\ DOMAIN v1.tabs = 1..Len(v1.tabs)
  BY <1>1, RowFacts
<1>3. /\ st.made = Len(v1.tabs) /\ Live(st) = slugs
      /\ \A s \in slugs : st.byWorkspace[s].tabs = v1.tabs
  BY DEF Migrated, Live
<1> HIDE DEF st
<1>4. Distinct(v1.tabs) /\ \A id \in IdsOf(v1.tabs) : id <= Len(v1.tabs)
  BY <1>1, <1>2 DEF Distinct, IdsOf
<1>5. ASSUME NEW s \in slugs, NEW t \in slugs, s # t,
             NEW i \in Kept(v1.tabs, s), NEW j \in Kept(v1.tabs, t)
      PROVE  v1.tabs[i].id # v1.tabs[j].id
  BY <1>1, <1>5 DEF Kept
<1>6. Live(st) \subseteq Slugs /\ st.made \in 0..MaxTabs
  BY <1>1, <1>2, <1>3, MaxTabsAssumption
<1> HIDE DEF slugs
<1> QED BY <1>1, <1>3, <1>4, <1>5, <1>6 DEF Restorable, st

-----------------------------------------------------------------------------
\* The next-state relation.

LEMMA BecomesOK ==
    ASSUME NEW st, StoreOK(st), TabInv, Becomes(st)
    PROVE  TabInv'
<1>1. StoreOK(Synced(st))
  BY SyncedOK
<1>2. store' = Synced(st) /\ listed' = listed
  BY DEF Becomes
<1>3. StoreOK(store')
  BY <1>1, <1>2, Zenon
<1> QED BY <1>2, <1>3 DEF TabInv, StoreOK, GroupsOK, StoreTypeOK, Live, ActiveSlugSound, GroupsDisjoint

LEMMA TabInit_Inv == TabInit => TabInv
<1> SUFFICES ASSUME TabInit PROVE TabInv
  OBVIOUS
<1>1. PICK v1 \in V1Stores : store \in Merges(Migrated(v1))
  BY DEF TabInit
<1>2. StoreOK(store)
  BY <1>1, MigratedIsRestorable, RestoredOK
<1> QED BY <1>2 DEF TabInit, TabInv

LEMMA ShownFacts ==
    ASSUME StoreOK(store), NEW i \in Shown
    PROVE  /\ store.activeWorkspaceSlug \in Live(store)
           /\ i \in DOMAIN store.byWorkspace[store.activeWorkspaceSlug].tabs
           /\ Exists(store, Here(i))
<1>1. /\ store.activeWorkspaceSlug \in Live(store)
      /\ i \in DOMAIN store.byWorkspace[store.activeWorkspaceSlug].tabs
  BY DEF Shown
<1> QED BY <1>1 DEF Exists, Here, IdsOf

\* A path of another workspace belongs to one, unless none is on screen.
LEMMA SlugOfPath ==
    ASSUME NEW path \in Paths, SlugOf[path] # Nobody
    PROVE  SlugOf[path] \in Slugs
BY SlugAssumption

LEMMA NavigationOK ==
    ASSUME TabInv, NEW origin, NEW path \in Paths, SlugOf[path] # Nobody
    PROVE  /\ Push(origin, path) => TabInv'
           /\ Replace(origin, path) => TabInv'
<1>1. StoreOK(store) /\ SlugOf[path] \in Slugs
  BY SlugOfPath DEF TabInv
<1>2. CanMake(store) => StoreOK(SwitchTo(store, SlugOf[path], path))
  BY <1>1, SwitchToOK
<1>3. CanMake(store) => StoreOK(SetActiveTab(OpenTab(store, path), Opened(store, path)))
  BY <1>1, OpenTabOK, SetActiveTabOK
<1>4. StoreOK(Navigated(store, origin, path))
  BY <1>1, NavigatedOK
<1>5. ASSUME Push(origin, path) PROVE TabInv'
  <2>1. /\ CanMake(store)
        /\ \/ Becomes(SwitchTo(store, SlugOf[path], path))
           \/ Becomes(SetActiveTab(OpenTab(store, path), Opened(store, path)))
           \/ Becomes(Navigated(store, origin, path))
    BY <1>5, Zenon DEF Push
  <2> QED BY <2>1, <1>2, <1>3, <1>4, BecomesOK
<1>6. ASSUME Replace(origin, path) PROVE TabInv'
  <2>1. /\ CanMake(store)
        /\ \/ Becomes(SwitchTo(store, SlugOf[path], path))
           \/ Becomes(Navigated(store, origin, path))
    BY <1>6, Zenon DEF Replace
  <2> QED BY <2>1, <1>2, <1>4, BecomesOK
<1> QED BY <1>5, <1>6

LEMMA OpenInNewTabOK ==
    ASSUME TabInv, NEW path \in Paths, SlugOf[path] # Nobody, NEW activate \in BOOLEAN,
           OpenInNewTab(path, activate)
    PROVE  TabInv'
<1>1. StoreOK(store) /\ SlugOf[path] \in Slugs /\ CanMake(store)
  BY SlugOfPath DEF TabInv, OpenInNewTab
<1>2. StoreOK(SwitchTo(store, SlugOf[path], path))
  BY <1>1, SwitchToOK
<1>3. StoreOK(OpenTab(store, path))
  BY <1>1, OpenTabOK
<1>4. StoreOK(SetActiveTab(OpenTab(store, path), Opened(store, path)))
  BY <1>3, SetActiveTabOK
<1>5. \/ Becomes(SwitchTo(store, SlugOf[path], path))
      \/ Becomes(SetActiveTab(OpenTab(store, path), Opened(store, path)))
      \/ Becomes(OpenTab(store, path))
  BY Zenon DEF OpenInNewTab
<1> QED BY <1>2, <1>3, <1>4, <1>5, BecomesOK

LEMMA OpenLinkOK ==
    ASSUME TabInv, NEW path \in Paths, SlugOf[path] # Nobody, OpenLink(path)
    PROVE  TabInv'
<1>1. StoreOK(store) /\ CanMake(store)
  BY DEF TabInv, OpenLink
<1>2. StoreOK(SetActiveTab(OpenTab(store, path), Opened(store, path)))
  BY <1>1, OpenTabOK, SetActiveTabOK
<1> QED BY <1>2, BecomesOK DEF OpenLink

LEMMA TabBarOK ==
    ASSUME TabInv, NEW i \in Shown
    PROVE  /\ ClickTab(i) => TabInv'
           /\ CloseShown(i) => TabInv'
           /\ PinTab(i) => TabInv'
           /\ \A j \in Shown : DragTab(i, j) => TabInv'
<1>1. StoreOK(store)
  BY DEF TabInv
<1>2. Exists(store, Here(i)) /\ store.activeWorkspaceSlug \in Live(store)
  BY <1>1, ShownFacts
<1>3. ClickTab(i) => TabInv'
  BY <1>1, SetActiveTabOK, BecomesOK DEF ClickTab
<1>4. CloseShown(i) => TabInv'
  BY <1>1, <1>2, CloseTabOK, BecomesOK DEF CloseShown
<1>5. PinTab(i) => TabInv'
  BY <1>1, <1>2, TogglePinOK, BecomesOK DEF PinTab
<1>6. ASSUME NEW j \in Shown, DragTab(i, j)
      PROVE  TabInv'
  <2>1. StoreOK(MoveTab(store, i, j))
    BY <1>1, <1>2, ShownFacts, MoveTabOK
  <2> QED BY <2>1, <1>6, BecomesOK DEF DragTab
<1> QED BY <1>3, <1>4, <1>5, <1>6

LEMMA NewTabOK ==
    ASSUME TabInv, NewTab
    PROVE  TabInv'
<1>1. StoreOK(store) /\ CanMake(store) /\ store.activeWorkspaceSlug \in Slugs
  <2>1. StoreOK(store) /\ CanMake(store)
    BY DEF TabInv, NewTab
  <2>2. store.activeWorkspaceSlug \in Live(store)
    BY DEF NewTab, Shown
  <2> QED BY <2>1, <2>2, StoreFacts DEF StoreOK
<1>2. IssuesOf[store.activeWorkspaceSlug] \in Paths
  BY <1>1, SlugAssumption
<1>3. StoreOK(AddTab(store, IssuesOf[store.activeWorkspaceSlug]))
  BY <1>1, <1>2, AddTabOK
<1> QED BY <1>3, SetActiveTabOK, BecomesOK DEF NewTab

LEMMA ValidateWorkspacesOK ==
    ASSUME TabInv, NEW valid \in SUBSET Slugs, ValidateWorkspaces(valid)
    PROVE  TabInv'
<1>1. StoreOK(store) /\ CanMake(store) /\ listed' = valid
  BY DEF TabInv, ValidateWorkspaces
<1>2. PICK next \in FirstOf(Live(store) \cap valid) :
          \/ store' = Synced(Validated(store, valid, next))
          \/ \E s \in valid :
                store' = Synced(RestoreWorkspace(Validated(store, valid, next), s))
  BY Zenon DEF ValidateWorkspaces
<1>3. StoreOK(Validated(store, valid, next)) /\ CanMake(Validated(store, valid, next))
  BY <1>1, ValidatedOK DEF CanMake
<1>4. \A s \in valid : StoreOK(RestoreWorkspace(Validated(store, valid, next), s))
  BY <1>3, RestoreWorkspaceOK
<1>5. \E st : StoreOK(st) /\ store' = Synced(st)
  BY <1>2, <1>3, <1>4, Zenon
<1>6. StoreOK(store')
  BY <1>5, SyncedOK
<1> QED BY <1>1, <1>6 DEF TabInv, StoreOK, GroupsOK, StoreTypeOK, Live, ActiveSlugSound, GroupsDisjoint

LEMMA LogoutOK ==
    ASSUME TabInv, Logout
    PROVE  TabInv'
<1>1. store.made \in 0..MaxTabs
  BY StoreFacts DEF TabInv, StoreOK
<1>2. /\ store' = [activeWorkspaceSlug |-> Nobody, byWorkspace |-> <<>>, made |-> store.made]
      /\ listed' = Nobody
  BY DEF Logout, EmptyStore
<1>3. /\ store'.activeWorkspaceSlug = Nobody /\ store'.byWorkspace = <<>>
      /\ store'.made = store.made
  BY <1>2
<1>4. DOMAIN <<>> = {} /\ <<>> \in [{} -> Group]
  OBVIOUS
<1>5. Live(store') = {}
  BY <1>3, <1>4 DEF Live
<1>6. StoreTypeOK(store')
  BY <1>1, <1>2, <1>3, <1>4 DEF StoreTypeOK
<1>7. StoreOK(store')
  BY <1>3, <1>5, <1>6 DEF StoreOK, GroupsOK, GroupsDisjoint, ActiveSlugSound
<1> QED BY <1>2, <1>7 DEF TabInv, StoreOK, GroupsOK, StoreTypeOK, Live, ActiveSlugSound, GroupsDisjoint

LEMMA RestartOK ==
    ASSUME TabInv, Restart
    PROVE  TabInv'
<1>1. PICK new \in Merges(store) : store' = Synced(new)
  BY DEF Restart
<1>2. StoreOK(new)
  BY SoundIsRestorable, RestoredOK DEF TabInv
<1>3. StoreOK(store')
  BY <1>1, <1>2, SyncedOK
<1> QED BY <1>3 DEF Restart, TabInv, StoreOK, GroupsOK, StoreTypeOK, Live, ActiveSlugSound, GroupsDisjoint

LEMMA TabStep_Inv == TabInv /\ [TabNext]_tabVars => TabInv'
<1> SUFFICES ASSUME TabInv, [TabNext]_tabVars PROVE TabInv'
  OBVIOUS
<1>1. ASSUME NEW origin \in Origins, NEW path \in Paths \ {Root},
             Push(origin, path) \/ Replace(origin, path)
      PROVE  TabInv'
  <2>1. SlugOf[path] # Nobody
    BY SlugAssumption
  <2> QED BY <2>1, <1>1, NavigationOK
<1>2. ASSUME NEW origin \in Origins, OpenOverlay(origin)
      PROVE  TabInv'
  <2>1. StoreOK(Navigated(store, origin, Root))
    BY NavigatedOK, SlugAssumption DEF TabInv
  <2> QED BY <2>1, <1>2, BecomesOK DEF OpenOverlay
<1>3. ASSUME NEW path \in Paths \ {Root}, NEW activate \in BOOLEAN,
             OpenInNewTab(path, activate)
      PROVE  TabInv'
  <2>1. SlugOf[path] # Nobody
    BY SlugAssumption
  <2> QED BY <2>1, <1>3, OpenInNewTabOK
<1>4. ASSUME NEW i \in Shown, NEW j \in Shown, DragTab(i, j)
      PROVE  TabInv'
  BY <1>4, TabBarOK
<1>5. ASSUME NEW i \in Shown, ClickTab(i) \/ CloseShown(i) \/ PinTab(i)
      PROVE  TabInv'
  BY <1>5, TabBarOK
<1>6. CASE NewTab \/ Logout \/ Restart
  BY <1>6, NewTabOK, LogoutOK, RestartOK
<1>7. ASSUME NEW valid \in SUBSET Slugs, ValidateWorkspaces(valid)
      PROVE  TabInv'
  BY <1>7, ValidateWorkspacesOK
<1>8. ASSUME NEW path \in Paths \ {Root}, OpenLink(path)
      PROVE  TabInv'
  BY <1>8, SlugAssumption, OpenLinkOK
<1>9. CASE UNCHANGED tabVars
  BY <1>9 DEF tabVars, TabInv, StoreOK, GroupsOK, StoreTypeOK, Live, ActiveSlugSound, GroupsDisjoint
<1> QED BY <1>1, <1>2, <1>3, <1>4, <1>5, <1>6, <1>7, <1>8, <1>9, Zenon DEF TabNext

LEMMA TabSpec_Inv == TabSpec => []TabInv
<1> QED BY TabInit_Inv, TabStep_Inv, PTL DEF TabSpec

\* The store and the list of workspaces have their types: whatever happens, the
\* groups are rows of tabs, under workspaces, with an active tab that has an id.
THEOREM TabSpec_TypeOK == TabSpec => []TabTypeOK
<1>1. TabInv => TabTypeOK
  BY DEF TabInv, StoreOK, GroupsOK, TabTypeOK
<1> QED BY <1>1, TabSpec_Inv, PTL

\* A workspace is on screen exactly if one has tabs, the active tab of a group
\* is in it, pinned tabs come first, and no tab is in two places.
THEOREM TabSpec_TabsSound == TabSpec => []TabsSound
<1>1. TabInv => TabsSound
  BY DEF TabInv, StoreOK, GroupsOK, TabsSound
<1> QED BY <1>1, TabSpec_Inv, PTL

-----------------------------------------------------------------------------
\* Which workspace is on screen.

\* To show a tab moves no workspace off the screen and drops none.
LEMMA SyncedKeeps ==
    ASSUME NEW st, StoreOK(st)
    PROVE  /\ Synced(st).activeWorkspaceSlug = st.activeWorkspaceSlug
           /\ Live(Synced(st)) = Live(st)
<1> DEFINE id == ActiveTab(st)
           path == TabOf(st, id).at
           s == Holder(st, id)
<1>1. CASE id = Nobody
  BY <1>1 DEF Synced
<1>2. CASE id # Nobody
  <2>1. Exists(st, id)
    BY <1>2, ActiveTabFacts
  <2>2. s \in Live(st)
    BY <2>1, HolderFacts
  <2>3. PICK tabs, act : Synced(st) = WithGroup(st, s, tabs, act)
    BY <1>2, <2>1, Zenon DEF Synced, Relocated
  <2>4. st = [activeWorkspaceSlug |-> st.activeWorkspaceSlug,
              byWorkspace |-> st.byWorkspace, made |-> st.made]
    BY DEF StoreOK, GroupsOK, StoreTypeOK
  <2>5. /\ WithGroup(st, s, tabs, act).activeWorkspaceSlug = st.activeWorkspaceSlug
        /\ Live(WithGroup(st, s, tabs, act)) = Live(st) \cup {s}
    BY <2>4 DEF WithGroup, Live
  <2> QED BY <2>2, <2>3, <2>5
<1> QED BY <1>1, <1>2

LEMMA ValidatedKeeps ==
    ASSUME NEW st, StoreOK(st), NEW valid \in SUBSET Slugs, NEW next
    PROVE  /\ Live(Validated(st, valid, next)) = Live(st) \cap valid
           /\ Validated(st, valid, next).activeWorkspaceSlug =
                 IF st.activeWorkspaceSlug = Nobody \/ st.activeWorkspaceSlug \in valid
                 THEN st.activeWorkspaceSlug ELSE next
<1>1. st = [activeWorkspaceSlug |-> st.activeWorkspaceSlug,
            byWorkspace |-> st.byWorkspace, made |-> st.made]
  BY DEF StoreOK, GroupsOK, StoreTypeOK
<1> QED BY <1>1 DEF Validated, Live

LEMMA ValidateKeepsActive ==
    ASSUME TabInv, NEW valid \in SUBSET Slugs, ValidateWorkspaces(valid),
           store.activeWorkspaceSlug \in Live(store')
    PROVE  store'.activeWorkspaceSlug = store.activeWorkspaceSlug
<1> DEFINE a == store.activeWorkspaceSlug
<1>1. StoreOK(store) /\ CanMake(store)
  BY DEF TabInv, ValidateWorkspaces
<1>2. PICK next \in FirstOf(Live(store) \cap valid) :
          LET st == Validated(store, valid, next)
          IN  IF st.activeWorkspaceSlug = Nobody /\ valid # {}
              THEN \E s \in valid : store' = Synced(RestoreWorkspace(st, s))
              ELSE store' = Synced(st)
  BY Zenon DEF ValidateWorkspaces
<1> DEFINE st == Validated(store, valid, next)
<1>3. /\ StoreOK(st) /\ CanMake(st)
      /\ Live(st) = Live(store) \cap valid
      /\ st.activeWorkspaceSlug = IF a = Nobody \/ a \in valid THEN a ELSE next
  BY <1>1, ValidatedOK, ValidatedKeeps DEF CanMake
<1>4. IF st.activeWorkspaceSlug = Nobody /\ valid # {}
      THEN \E s \in valid : store' = Synced(RestoreWorkspace(st, s))
      ELSE store' = Synced(st)
  BY <1>2
<1> HIDE DEF st
<1>5. Nobody \notin Slugs /\ Live(store) \subseteq Slugs
  BY <1>1, StoreFacts, SlugAssumption DEF StoreOK
<1>6. CASE store' = Synced(st)
  <2>1. Live(store') = Live(st) /\ store'.activeWorkspaceSlug = st.activeWorkspaceSlug
    BY <1>3, <1>6, SyncedKeeps
  <2> QED BY <2>1, <1>3
<1>7. ASSUME st.activeWorkspaceSlug = Nobody,
             NEW s \in valid, store' = Synced(RestoreWorkspace(st, s))
      PROVE  FALSE
  <2>1. Live(st) = {}
    BY <1>3, <1>5, <1>7 DEF StoreOK, ActiveSlugSound
  <2>2. RestoreWorkspace(st, s) = SwitchTo(st, s, IssuesOf[s])
    BY <2>1 DEF RestoreWorkspace
  <2>3. StoreOK(RestoreWorkspace(st, s))
    BY <1>3, RestoreWorkspaceOK
  <2>4. /\ store'.activeWorkspaceSlug = RestoreWorkspace(st, s).activeWorkspaceSlug
        /\ Live(store') = Live(RestoreWorkspace(st, s))
    BY <2>3, <1>7, SyncedKeeps
  <2>5. Live(RestoreWorkspace(st, s)) = {s}
    <3> DEFINE to == Turned(st, s)
               tab == MakeTab(st, IssuesOf[s])
    <3>1. RestoreWorkspace(st, s) = WithGroup(Made(to), s, <<tab>>, tab.id)
      BY <2>1, <2>2 DEF SwitchTo, Turned
    <3>2. GroupsOK(to) /\ Live(to) = Live(st) /\ to.made = st.made /\ CanMake(to)
      BY <1>3, TurnedOK DEF StoreOK, CanMake
    <3>3. Live(Made(to)) = {} /\ StoreTypeOK(Made(to))
      BY <2>1, <3>2, MadeOK, SlugAssumption DEF GroupsOK
    <3> HIDE DEF to, tab
    <3>4. Live(WithGroup(Made(to), s, <<tab>>, tab.id)) = Live(Made(to)) \cup {s}
      BY <3>3 DEF WithGroup, Live, StoreTypeOK
    <3> QED BY <3>1, <3>3, <3>4
  <2>6. a \in Live(store') /\ a \in Slugs
    BY <2>4, <2>5
  <2>7. a \in valid /\ a # Nobody
    BY <2>4, <2>5, <2>6, <1>5
  <2> QED BY <2>7, <1>3, <1>7
<1> QED BY <1>4, <1>6, <1>7

LEMMA RestartKeepsActive ==
    ASSUME TabInv, Restart, store.activeWorkspaceSlug \in Live(store')
    PROVE  store'.activeWorkspaceSlug = store.activeWorkspaceSlug
<1>1. PICK new \in Merges(store) : store' = Synced(new)
  BY DEF Restart
<1>2. StoreOK(new)
  BY SoundIsRestorable, RestoredOK DEF TabInv
<1>3. Live(store') = Live(new) /\ store'.activeWorkspaceSlug = new.activeWorkspaceSlug
  BY <1>1, <1>2, SyncedKeeps
<1>4. Live(new) = KeptSlugs(store) /\ Restored(store, new)
  BY DEF Merges, GroupsOver, Live
<1> QED BY <1>3, <1>4 DEF Restored

LEMMA LogoutDropsAll ==
    ASSUME Logout
    PROVE  Live(store') = {}
<1>1. store'.byWorkspace = <<>>
  BY DEF Logout, EmptyStore
<1> QED BY <1>1 DEF Live

\* A list of workspaces that arrives, or a restart, takes the user to another
\* workspace only if the one on screen has no tabs any more.
THEOREM TabSpec_LastKept == TabSpec => LastKept
<1> DEFINE Keeps == listed' # listed /\ store.activeWorkspaceSlug \in Live(store')
                       => store'.activeWorkspaceSlug = store.activeWorkspaceSlug
<1>1. TabInv /\ [TabNext]_tabVars => [Keeps]_tabVars
  <2> SUFFICES ASSUME TabInv, TabNext, listed' # listed,
                      store.activeWorkspaceSlug \in Live(store')
               PROVE  store'.activeWorkspaceSlug = store.activeWorkspaceSlug
    OBVIOUS
  <2>1. \A st : ~ Becomes(st)
    BY DEF Becomes
  <2>2. \A origin, path : ~ Push(origin, path) /\ ~ Replace(origin, path)
    BY <2>1, Zenon DEF Push, Replace
  <2>3. \A origin : ~ OpenOverlay(origin)
    BY <2>1, Zenon DEF OpenOverlay
  <2>4. \A path, activate : ~ OpenInNewTab(path, activate)
    BY <2>1, Zenon DEF OpenInNewTab
  <2>5. \A path : ~ OpenLink(path)
    BY <2>1, Zenon DEF OpenLink
  <2>6. /\ \A i, j : ~ DragTab(i, j)
        /\ \A i : ~ ClickTab(i) /\ ~ CloseShown(i) /\ ~ PinTab(i)
        /\ ~ NewTab
    BY <2>1, Zenon DEF DragTab, ClickTab, CloseShown, PinTab, NewTab
  <2>7. Logout \/ Restart \/ \E valid \in SUBSET Slugs : ValidateWorkspaces(valid)
    BY <2>2, <2>3, <2>4, <2>5, <2>6, Zenon DEF TabNext
  <2> QED BY <2>7, LogoutDropsAll, RestartKeepsActive, ValidateKeepsActive
<1>2. TabSpec => [][TabNext]_tabVars
  BY PTL DEF TabSpec
<1> QED BY <1>1, <1>2, TabSpec_Inv, PTL DEF LastKept

-----------------------------------------------------------------------------
(***************************************************************************)
(* Where the pages of the tabs go.  No step but the named ones takes a tab *)
(* to a page of another workspace (TabsStayHome), or a pinned tab off its  *)
(* page (PinnedStays), for any workspaces, paths and tabs.                 *)
(*                                                                         *)
(* All operations but a navigation only carry tabs: each tab of the result *)
(* was in the same group before, at the same page, or is new and opens a   *)
(* page of its workspace.  Carrying composes, so an action is a chain of   *)
(* operations; a navigation is looked at on its own.  That a tab is known  *)
(* by its id rests on TabInv.                                              *)
(***************************************************************************)
TabsOf(tabs) == {tabs[i] : i \in DOMAIN tabs}

TabsIn(st, s) == TabsOf(st.byWorkspace[s].tabs)

\* A tab found in the group of s was there, at its page, or is new to st.
Carried(st, s, u) ==
    \/ s \in Live(st) /\ \E t \in TabsIn(st, s) : t.id = u.id /\ t.at = u.at
    \/ st.made < u.id /\ SlugOf[u.at] \in {s, Nobody}

Carries(st, new) ==
    /\ st.made <= new.made
    /\ \A s \in Live(new) : \A u \in TabsIn(new, s) : Carried(st, s, u)

-----------------------------------------------------------------------------
\* Carrying.

LEMMA TabFacts ==
    ASSUME NEW st, GroupsOK(st), NEW s \in Live(st), NEW u \in TabsIn(st, s)
    PROVE  u \in Tab /\ u.id \in Int /\ u.id <= st.made /\ st.made \in Int
<1>1. /\ st.byWorkspace[s].tabs \in Seq(Tab) /\ st.made \in Int
      /\ \A id \in IdsOf(st.byWorkspace[s].tabs) : id \in Int /\ id <= st.made
  BY StoreFacts DEF RowSound, Ids
<1>2. PICK i \in DOMAIN st.byWorkspace[s].tabs : u = st.byWorkspace[s].tabs[i]
  BY DEF TabsIn, TabsOf
<1> QED BY <1>1, <1>2, RowFacts DEF IdsOf

LEMMA CarriesItself ==
    ASSUME NEW st, GroupsOK(st)
    PROVE  Carries(st, st)
<1>1. st.made \in Int
  BY StoreFacts
<1> QED BY <1>1 DEF Carries, Carried

LEMMA CarriesOn ==
    ASSUME NEW a, GroupsOK(a), NEW b, GroupsOK(b), NEW c, GroupsOK(c),
           Carries(a, b), Carries(b, c)
    PROVE  Carries(a, c)
<1>1. a.made \in Int /\ b.made \in Int /\ c.made \in Int
  BY StoreFacts
<1>2. a.made <= b.made /\ b.made <= c.made
  BY DEF Carries
<1>3. ASSUME NEW s \in Live(c), NEW u \in TabsIn(c, s)
      PROVE  Carried(a, s, u)
  <2>1. Carried(b, s, u) /\ u.id \in Int
    BY <1>3, TabFacts DEF Carries
  <2>2. ASSUME s \in Live(b), NEW t \in TabsIn(b, s), t.id = u.id, t.at = u.at
        PROVE  Carried(a, s, u)
    BY <2>2 DEF Carries, Carried
  <2>3. ASSUME b.made < u.id, SlugOf[u.at] \in {s, Nobody}
        PROVE  Carried(a, s, u)
    BY <1>1, <1>2, <2>1, <2>3 DEF Carried
  <2> QED BY <2>1, <2>2, <2>3 DEF Carried
<1> QED BY <1>1, <1>2, <1>3 DEF Carries

\* A group is replaced; whatever else changes is no tab.
LEMMA GroupCarries ==
    ASSUME NEW st, GroupsOK(st),
           NEW base, StoreTypeOK(base), base.byWorkspace = st.byWorkspace,
           st.made <= base.made,
           NEW s \in Slugs, NEW tabs \in Seq(Tab), NEW id \in Ids,
           \A u \in TabsOf(tabs) : Carried(st, s, u)
    PROVE  Carries(st, WithGroup(base, s, tabs, id))
<1> DEFINE new == WithGroup(base, s, tabs, id)
<1>1. /\ Live(new) = Live(base) \cup {s}
      /\ new.byWorkspace[s].tabs = tabs
      /\ \A x \in Live(base) \ {s} : new.byWorkspace[x] = base.byWorkspace[x]
      /\ new.made = base.made
  BY WithGroupFacts
<1> HIDE DEF new
<1>2. Live(base) = Live(st)
  BY DEF Live
<1>3. ASSUME NEW x \in Live(new), NEW u \in TabsIn(new, x)
      PROVE  Carried(st, x, u)
  <2>1. CASE x = s
    BY <2>1, <1>1, <1>3 DEF TabsIn
  <2>2. CASE x # s
    <3>1. x \in Live(st) /\ u \in TabsIn(st, x)
      BY <2>2, <1>1, <1>2, <1>3 DEF TabsIn
    <3> QED BY <3>1 DEF Carried
  <2> QED BY <2>1, <2>2
<1> QED BY <1>1, <1>3 DEF Carries, new

LEMMA CarriedAlong ==
    ASSUME NEW st, NEW s \in Live(st), NEW u \in TabsIn(st, s)
    PROVE  Carried(st, s, u)
BY DEF Carried

\* The tabs of a group, in another order, or some of them.
LEMMA EditCarries ==
    ASSUME NEW st, GroupsOK(st), NEW s \in Live(st),
           NEW tabs \in Seq(Tab), NEW id \in Ids,
           \A u \in TabsOf(tabs) : \E t \in TabsIn(st, s) : t.id = u.id /\ t.at = u.at
    PROVE  Carries(st, WithGroup(st, s, tabs, id))
<1>1. \A u \in TabsOf(tabs) : Carried(st, s, u)
  BY DEF Carried
<1>2. s \in Slugs /\ StoreTypeOK(st) /\ st.made \in Int
  BY StoreFacts DEF GroupsOK
<1> QED BY <1>1, <1>2, GroupCarries

LEMMA FreshIsCarried ==
    ASSUME NEW st, GroupsOK(st), CanMake(st), NEW s,
           NEW path \in Paths, SlugOf[path] \in {s, Nobody}
    PROVE  Carried(st, s, MakeTab(st, path))
<1>1. st.made \in Int
  BY StoreFacts
<1>2. MakeTab(st, path).id = st.made + 1 /\ MakeTab(st, path).at = path
  BY DEF MakeTab
<1> QED BY <1>1, <1>2 DEF Carried

LEMMA AppendTabs ==
    ASSUME NEW tabs \in Seq(Tab), NEW tab \in Tab
    PROVE  /\ Append(tabs, tab) \in Seq(Tab)
           /\ TabsOf(Append(tabs, tab)) \subseteq TabsOf(tabs) \cup {tab}
<1>1. Len(tabs) \in Nat /\ DOMAIN tabs = 1..Len(tabs)
  BY RowFacts
<1>2. /\ Append(tabs, tab) \in Seq(Tab) /\ Len(Append(tabs, tab)) = Len(tabs) + 1
      /\ \A j \in 1..Len(tabs) : Append(tabs, tab)[j] = tabs[j]
      /\ Append(tabs, tab)[Len(tabs) + 1] = tab
  BY AppendProperties
<1>3. DOMAIN Append(tabs, tab) = 1..(Len(tabs) + 1)
  BY <1>2, RowFacts
<1>4. \A j \in DOMAIN Append(tabs, tab) : Append(tabs, tab)[j] \in TabsOf(tabs) \cup {tab}
  BY <1>1, <1>2, <1>3 DEF TabsOf
<1> QED BY <1>2, <1>4 DEF TabsOf

LEMMA WithoutTabs ==
    ASSUME NEW tabs \in Seq(Tab), NEW i \in 1..Len(tabs)
    PROVE  TabsOf(Without(tabs, i)) \subseteq TabsOf(tabs)
<1>1. Len(tabs) \in Nat /\ DOMAIN tabs = 1..Len(tabs)
  BY RowFacts
<1>2. DOMAIN Without(tabs, i) = 1..(Len(tabs) - 1)
  BY DEF Without
<1>3. \A j \in 1..(Len(tabs) - 1) : \E k \in 1..Len(tabs) : Without(tabs, i)[j] = tabs[k]
  BY <1>1 DEF Without
<1> QED BY <1>1, <1>2, <1>3 DEF TabsOf

LEMMA InsertedTabs ==
    ASSUME NEW tabs \in Seq(Tab), NEW i \in 1..(Len(tabs) + 1), NEW tab \in Tab
    PROVE  /\ Inserted(tabs, i, tab) \in Seq(Tab)
           /\ TabsOf(Inserted(tabs, i, tab)) \subseteq TabsOf(tabs) \cup {tab}
<1>1. Len(tabs) \in Nat /\ DOMAIN tabs = 1..Len(tabs)
  BY RowFacts
<1>2. DOMAIN Inserted(tabs, i, tab) = 1..(Len(tabs) + 1) /\ Len(tabs) + 1 \in Nat
  BY <1>1 DEF Inserted
<1>3. ASSUME NEW j \in 1..(Len(tabs) + 1)
      PROVE  Inserted(tabs, i, tab)[j] \in TabsOf(tabs) \cup {tab}
  <2>1. Inserted(tabs, i, tab)[j] =
            IF j < i THEN tabs[j] ELSE IF j = i THEN tab ELSE tabs[j - 1]
    BY <1>3 DEF Inserted
  <2>2. (j < i => j \in DOMAIN tabs) /\ (j > i => j - 1 \in DOMAIN tabs)
    BY <1>1, <1>3
  <2> QED BY <2>1, <2>2, <1>1, <1>3 DEF TabsOf
<1>4. \A u \in TabsOf(tabs) : u \in Tab
  BY RowFacts DEF TabsOf
<1>5. Inserted(tabs, i, tab) \in [1..(Len(tabs) + 1) -> Tab]
  <2>1. \A j \in 1..(Len(tabs) + 1) : Inserted(tabs, i, tab)[j] \in Tab
    BY <1>3, <1>4
  <2> QED BY <2>1 DEF Inserted
<1> QED BY <1>2, <1>3, <1>5, RowOf DEF TabsOf

-----------------------------------------------------------------------------
\* The operations that carry.

LEMMA TurnedCarries ==
    ASSUME NEW st, GroupsOK(st), NEW s \in Slugs \cup {Nobody}
    PROVE  Carries(st, Turned(st, s))
<1>1. /\ Live(Turned(st, s)) = Live(st) /\ Turned(st, s).made = st.made
      /\ Turned(st, s).byWorkspace = st.byWorkspace
  BY TurnedOK
<1> QED BY <1>1, CarriesItself DEF Carries, TabsIn

LEMMA FreshGroupCarries ==
    ASSUME NEW st, GroupsOK(st), CanMake(st),
           NEW base, GroupsOK(base), base.byWorkspace = st.byWorkspace,
           st.made <= base.made,
           NEW s \in Slugs, NEW path \in Paths, SlugOf[path] \in {s, Nobody}
    PROVE  Carries(st, WithGroup(base, s, <<MakeTab(st, path)>>, MakeTab(st, path).id))
<1> DEFINE tab == MakeTab(st, path)
<1>1. tab \in Tab
  BY MadeOK
<1>2. Carried(st, s, tab)
  BY FreshIsCarried
<1> HIDE DEF tab
<1>3. <<tab>> \in Seq(Tab) /\ tab.id \in Ids
  BY <1>1 DEF Tab
<1>4. \A u \in TabsOf(<<tab>>) : u = tab
  BY DEF TabsOf
<1> QED BY <1>2, <1>3, <1>4, GroupCarries DEF tab, GroupsOK

LEMMA OneMoreCarries ==
    ASSUME NEW st, GroupsOK(st), CanMake(st),
           NEW base, GroupsOK(base), base.byWorkspace = st.byWorkspace,
           st.made <= base.made,
           NEW s \in Live(st), NEW path \in Paths, SlugOf[path] \in {s, Nobody},
           NEW id \in Ids
    PROVE  Carries(st, WithGroup(base, s,
                           Append(st.byWorkspace[s].tabs, MakeTab(st, path)), id))
<1> DEFINE tab == MakeTab(st, path)
           tabs == st.byWorkspace[s].tabs
<1>1. tab \in Tab
  BY MadeOK
<1>2. Carried(st, s, tab)
  BY FreshIsCarried
<1>3. s \in Slugs /\ tabs \in Seq(Tab)
  BY StoreFacts DEF RowSound
<1>4. \A u \in TabsOf(tabs) : Carried(st, s, u)
  BY CarriedAlong DEF TabsIn
<1> HIDE DEF tab, tabs
<1>5. Append(tabs, tab) \in Seq(Tab) /\ \A u \in TabsOf(Append(tabs, tab)) : Carried(st, s, u)
  BY <1>1, <1>2, <1>3, <1>4, AppendTabs
<1> QED BY <1>3, <1>5, GroupCarries DEF tab, tabs, GroupsOK

\* The group as it is, with another active tab.
LEMMA ActivateCarries ==
    ASSUME NEW st, GroupsOK(st),
           NEW base, GroupsOK(base), base.byWorkspace = st.byWorkspace,
           base.made = st.made,
           NEW s \in Live(st), NEW id \in IdsOf(st.byWorkspace[s].tabs)
    PROVE  Carries(st, WithGroup(base, s, st.byWorkspace[s].tabs, id))
<1>1. /\ s \in Slugs /\ st.byWorkspace[s].tabs \in Seq(Tab) /\ id \in Ids
      /\ st.made \in Int
  BY StoreFacts DEF RowSound
<1>2. \A u \in TabsOf(st.byWorkspace[s].tabs) : Carried(st, s, u)
  BY CarriedAlong DEF TabsIn
<1> QED BY <1>1, <1>2, GroupCarries DEF GroupsOK

\* The id of the first tab that has a path, in a group that has one.
LEMMA SameFacts ==
    ASSUME NEW tabs, RowSound(tabs), NEW path,
           {i \in DOMAIN tabs : tabs[i].path = path} # {}
    PROVE  tabs[Least({i \in DOMAIN tabs : tabs[i].path = path})].id \in IdsOf(tabs)
<1> DEFINE same == {i \in DOMAIN tabs : tabs[i].path = path}
<1>1. same \in SUBSET Nat /\ same \subseteq DOMAIN tabs
  BY RowFacts DEF RowSound
<1>2. Least(same) \in same
  BY <1>1, LeastFacts
<1> QED BY <1>1, <1>2 DEF IdsOf

LEMMA SwitchToCarries ==
    ASSUME NEW st, StoreOK(st), CanMake(st), NEW s \in Slugs,
           NEW path \in Paths, SlugOf[path] \in {s, Nobody}
    PROVE  Carries(st, SwitchTo(st, s, path))
<1> DEFINE to == Turned(st, s)
           tab == MakeTab(st, path)
           group == st.byWorkspace[s]
           same == {i \in DOMAIN group.tabs : group.tabs[i].path = path}
<1>1. GroupsOK(st) /\ st.made \in Int
  BY StoreFacts DEF StoreOK
<1>2. /\ GroupsOK(to) /\ to.byWorkspace = st.byWorkspace /\ to.made = st.made
      /\ CanMake(to)
  BY <1>1, TurnedOK DEF CanMake
<1>3. /\ GroupsOK(Made(to)) /\ Made(to).byWorkspace = st.byWorkspace
      /\ Made(to).made = st.made + 1
  BY <1>2, MadeOK
<1>4. st.made <= Made(to).made
  BY <1>1, <1>3
<1>5. tab.id \in Ids
  BY <1>1, MadeOK DEF Tab
<1>6. SwitchTo(st, s, path) =
         IF s \notin Live(st) THEN WithGroup(Made(to), s, <<tab>>, tab.id)
         ELSE IF same # {}
         THEN WithGroup(to, s, group.tabs, group.tabs[Least(same)].id)
         ELSE WithGroup(Made(to), s, Append(group.tabs, tab), tab.id)
  BY DEF SwitchTo, Turned
<1>7. CASE s \notin Live(st)
  <2>1. Carries(st, WithGroup(Made(to), s, <<tab>>, tab.id))
    BY <1>1, <1>3, <1>4, FreshGroupCarries
  <2> QED BY <2>1, <1>6, <1>7
<1>8. CASE s \in Live(st) /\ same # {}
  <2>1. RowSound(group.tabs)
    BY <1>1, <1>8, StoreFacts
  <2>2. group.tabs[Least(same)].id \in IdsOf(group.tabs)
    BY <2>1, <1>8, SameFacts
  <2>3. Carries(st, WithGroup(to, s, group.tabs, group.tabs[Least(same)].id))
    BY <2>2, <1>1, <1>2, <1>8, ActivateCarries
  <2> QED BY <2>3, <1>6, <1>8
<1>9. CASE s \in Live(st) /\ same = {}
  <2>1. Carries(st, WithGroup(Made(to), s, Append(group.tabs, tab), tab.id))
    BY <1>1, <1>3, <1>4, <1>5, <1>9, OneMoreCarries
  <2> QED BY <2>1, <1>6, <1>9
<1> QED BY <1>7, <1>8, <1>9

LEMMA RestoreWorkspaceCarries ==
    ASSUME NEW st, StoreOK(st), CanMake(st), NEW s \in Slugs
    PROVE  Carries(st, RestoreWorkspace(st, s))
<1>1. CASE s \in Live(st)
  <2>1. RestoreWorkspace(st, s) = Turned(st, s)
    BY <1>1 DEF RestoreWorkspace, Turned
  <2> QED BY <2>1, TurnedCarries DEF StoreOK
<1>2. CASE s \notin Live(st)
  <2>1. IssuesOf[s] \in Paths /\ SlugOf[IssuesOf[s]] = s
    BY SlugAssumption
  <2> QED BY <2>1, <1>2, SwitchToCarries DEF RestoreWorkspace
<1> QED BY <1>1, <1>2

LEMMA AddTabCarries ==
    ASSUME NEW st, StoreOK(st), CanMake(st), NEW path \in Paths,
           SlugOf[path] \in {st.activeWorkspaceSlug, Nobody}
    PROVE  Carries(st, AddTab(st, path))
<1> DEFINE s == st.activeWorkspaceSlug
           group == st.byWorkspace[s]
<1>1. GroupsOK(st) /\ st.made \in Int
  BY StoreFacts DEF StoreOK
<1>2. CASE s \notin Live(st)
  BY <1>1, <1>2, CarriesItself DEF AddTab
<1>3. CASE s \in Live(st)
  <2>1. AddTab(st, path) = WithGroup(Made(st), s, Append(group.tabs, MakeTab(st, path)),
                                     group.activeTabId)
    BY <1>3 DEF AddTab
  <2>2. group.activeTabId \in Ids
    BY <1>1, <1>3, StoreFacts
  <2>3. /\ GroupsOK(Made(st)) /\ Made(st).byWorkspace = st.byWorkspace
        /\ Made(st).made = st.made + 1
    BY <1>1, MadeOK
  <2>4. st.made <= Made(st).made
    BY <1>1, <2>3
  <2> QED BY <2>1, <2>2, <2>3, <2>4, <1>1, <1>3, OneMoreCarries
<1> QED BY <1>2, <1>3

LEMMA OpenTabCarries ==
    ASSUME NEW st, StoreOK(st), CanMake(st), NEW path \in Paths,
           SlugOf[path] \in {st.activeWorkspaceSlug, Nobody}
    PROVE  Carries(st, OpenTab(st, path))
<1> DEFINE s == st.activeWorkspaceSlug
           group == st.byWorkspace[s]
           same == {i \in DOMAIN group.tabs : group.tabs[i].path = path}
<1>1. GroupsOK(st)
  BY DEF StoreOK
<1>2. CASE s \notin Live(st) \/ SlugOf[path] = Nobody
  BY <1>1, <1>2, CarriesItself DEF OpenTab
<1>3. CASE s \in Live(st) /\ SlugOf[path] # Nobody /\ same # {}
  <2>1. OpenTab(st, path) = WithGroup(st, s, group.tabs, group.tabs[Least(same)].id)
    BY <1>3 DEF OpenTab
  <2>2. RowSound(group.tabs)
    BY <1>1, <1>3, StoreFacts
  <2>3. group.tabs[Least(same)].id \in IdsOf(group.tabs)
    BY <2>2, <1>3, SameFacts
  <2> QED BY <2>1, <2>3, <1>1, <1>3, ActivateCarries
<1>4. CASE s \in Live(st) /\ SlugOf[path] # Nobody /\ same = {}
  <2>1. OpenTab(st, path) = AddTab(st, path)
    BY <1>4 DEF OpenTab
  <2> QED BY <2>1, AddTabCarries
<1> QED BY <1>2, <1>3, <1>4

LEMMA SetActiveTabCarries ==
    ASSUME NEW st, StoreOK(st), NEW id
    PROVE  Carries(st, SetActiveTab(st, id))
<1> DEFINE s == Holder(st, id)
           to == Turned(st, s)
<1>1. GroupsOK(st)
  BY DEF StoreOK
<1>2. CASE ~ Exists(st, id)
  BY <1>1, <1>2, CarriesItself DEF SetActiveTab
<1>3. CASE Exists(st, id)
  <2>1. s \in Live(st) /\ id \in IdsOf(st.byWorkspace[s].tabs)
    BY <1>3, HolderFacts
  <2>2. s \in Slugs
    BY <1>1, <2>1, StoreFacts
  <2>3. GroupsOK(to) /\ to.byWorkspace = st.byWorkspace /\ to.made = st.made
    BY <1>1, <2>2, TurnedOK
  <2>4. SetActiveTab(st, id) = WithGroup(to, s, st.byWorkspace[s].tabs, id)
    BY <1>3 DEF SetActiveTab, Turned
  <2> QED BY <2>1, <2>3, <2>4, <1>1, ActivateCarries
<1> QED BY <1>2, <1>3

LEMMA CloseTabCarries ==
    ASSUME NEW st, StoreOK(st), CanMake(st), NEW id, Exists(st, id)
    PROVE  Carries(st, CloseTab(st, id))
<1> DEFINE s == Holder(st, id)
           group == st.byWorkspace[s]
           tabs == group.tabs
           i == At(tabs, id)
           rest == Without(tabs, i)
           fresh == MakeTab(st, IssuesOf[s])
           next == IF group.activeTabId # id THEN group.activeTabId
                   ELSE rest[IF i <= Len(rest) THEN i ELSE Len(rest)].id
<1>1. GroupsOK(st) /\ st.made \in Int
  BY StoreFacts DEF StoreOK
<1>2. s \in Live(st) /\ id \in IdsOf(tabs)
  BY HolderFacts
<1>3. s \in Slugs /\ RowSound(tabs) /\ group.activeTabId \in IdsOf(tabs)
  BY <1>1, <1>2, StoreFacts
<1>4. tabs \in Seq(Tab) /\ Len(tabs) \in Nat /\ i \in 1..Len(tabs)
  BY <1>2, <1>3, RowFacts, AtFacts DEF RowSound
<1>5. CASE Len(tabs) = 1
  <2>1. CloseTab(st, id) = WithGroup(Made(st), s, <<fresh>>, fresh.id)
    BY <1>5 DEF CloseTab
  <2>2. IssuesOf[s] \in Paths /\ SlugOf[IssuesOf[s]] = s
    BY <1>3, SlugAssumption
  <2>3. /\ GroupsOK(Made(st)) /\ Made(st).byWorkspace = st.byWorkspace
        /\ Made(st).made = st.made + 1
    BY <1>1, <2>2, MadeOK
  <2>4. st.made <= Made(st).made
    BY <1>1, <2>3
  <2> QED BY <2>1, <2>2, <2>3, <2>4, <1>1, <1>3, FreshGroupCarries
<1>6. CASE Len(tabs) # 1
  <2>1. CloseTab(st, id) = WithGroup(st, s, rest, next)
    BY <1>6 DEF CloseTab
  <2>2. RowSound(rest) /\ Len(rest) = Len(tabs) - 1
    BY <1>3, <1>4, WithoutFacts
  <2>3. rest \in Seq(Tab) /\ TabsOf(rest) \subseteq TabsOf(tabs)
    BY <2>2, <1>4, WithoutTabs DEF RowSound
  <2>4. \A u \in TabsOf(rest) : \E t \in TabsIn(st, s) : t.id = u.id /\ t.at = u.at
    BY <2>3 DEF TabsIn
  <2>5. next \in Ids
    <3>1. CASE group.activeTabId # id
      BY <3>1, <1>1, <1>2, <1>3, StoreFacts
    <3>2. CASE group.activeTabId = id
      <4> DEFINE k == IF i <= Len(rest) THEN i ELSE Len(rest)
      <4>1. k \in 1..Len(rest)
        <5> HIDE DEF i, tabs, rest
        <5> QED BY <1>4, <1>6, <2>2
      <4>2. rest[k].id \in Ids
        <5> HIDE DEF k, rest
        <5> QED BY <4>1, <2>3, RowFacts
      <4> QED BY <4>2, <3>2
    <3> QED BY <3>1, <3>2
  <2> HIDE DEF next, rest, tabs, s
  <2>6. Carries(st, WithGroup(st, s, rest, next))
    BY <1>1, <1>2, <2>3, <2>4, <2>5, EditCarries
  <2> QED BY <2>1, <2>6
<1> QED BY <1>5, <1>6

LEMMA MoveTabCarries ==
    ASSUME NEW st, StoreOK(st), st.activeWorkspaceSlug \in Live(st),
           NEW from \in DOMAIN st.byWorkspace[st.activeWorkspaceSlug].tabs,
           NEW to \in DOMAIN st.byWorkspace[st.activeWorkspaceSlug].tabs
    PROVE  Carries(st, MoveTab(st, from, to))
<1> DEFINE s == st.activeWorkspaceSlug
           group == st.byWorkspace[s]
           tabs == group.tabs
           b == PinnedBoundary(tabs)
           clamped == IF tabs[from].pinned THEN (IF to <= b THEN to ELSE b)
                      ELSE (IF to > b THEN to ELSE b + 1)
           rest == Without(tabs, from)
           row == Inserted(rest, clamped, tabs[from])
<1>1. GroupsOK(st)
  BY DEF StoreOK
<1>2. RowSound(tabs) /\ group.activeTabId \in Ids
  BY <1>1, StoreFacts
<1>3. /\ tabs \in Seq(Tab) /\ Len(tabs) \in Nat /\ DOMAIN tabs = 1..Len(tabs)
      /\ from \in 1..Len(tabs) /\ to \in 1..Len(tabs)
      /\ tabs[from] \in Tab /\ tabs[from].pinned \in BOOLEAN
  BY <1>2, RowFacts DEF RowSound
<1>4. b \in 0..Len(tabs) /\ \A j \in 1..Len(tabs) : tabs[j].pinned <=> j <= b
  BY <1>2, BoundaryFacts
<1>5. RowSound(rest) /\ Len(rest) = Len(tabs) - 1
  BY <1>2, <1>3, WithoutFacts
<1>6. rest \in Seq(Tab) /\ TabsOf(rest) \subseteq TabsOf(tabs)
  BY <1>3, <1>5, WithoutTabs DEF RowSound
<1>7. MoveTab(st, from, to) = IF clamped = from THEN st
                              ELSE WithGroup(st, s, row, group.activeTabId)
  BY DEF MoveTab
<1>8. tabs[from] \in TabsOf(tabs) /\ TabsOf(tabs) = TabsIn(st, s)
  BY DEF TabsOf, TabsIn
<1> HIDE DEF b, tabs, rest
<1>9. clamped \in 1..(Len(rest) + 1)
  BY <1>3, <1>4, <1>5
<1> HIDE DEF clamped
<1>10. row \in Seq(Tab) /\ TabsOf(row) \subseteq TabsOf(tabs)
  BY <1>3, <1>6, <1>8, <1>9, InsertedTabs
<1> HIDE DEF row
<1>11. Carries(st, WithGroup(st, s, row, group.activeTabId))
  BY <1>1, <1>2, <1>8, <1>10, EditCarries
<1> QED BY <1>1, <1>7, <1>11, CarriesItself

LEMMA TogglePinCarries ==
    ASSUME NEW st, StoreOK(st), NEW id, Exists(st, id)
    PROVE  Carries(st, TogglePin(st, id))
<1> DEFINE s == Holder(st, id)
           group == st.byWorkspace[s]
           tabs == group.tabs
           i == At(tabs, id)
           rest == Without(tabs, i)
           tab == [tabs[i] EXCEPT !.pinned = ~ @]
           b == PinnedBoundary(rest)
           row == Inserted(rest, b + 1, tab)
<1>1. GroupsOK(st)
  BY DEF StoreOK
<1>2. s \in Live(st) /\ id \in IdsOf(tabs)
  BY HolderFacts
<1>3. RowSound(tabs) /\ group.activeTabId \in Ids
  BY <1>1, <1>2, StoreFacts
<1>4. /\ tabs \in Seq(Tab) /\ DOMAIN tabs = 1..Len(tabs) /\ i \in 1..Len(tabs)
      /\ tabs[i] \in Tab
  BY <1>2, <1>3, RowFacts, AtFacts DEF RowSound
<1>5. RowSound(rest)
  BY <1>3, <1>4, WithoutFacts
<1>6. rest \in Seq(Tab) /\ Len(rest) \in Nat /\ TabsOf(rest) \subseteq TabsOf(tabs)
  BY <1>4, <1>5, WithoutTabs, RowFacts DEF RowSound
<1>7. b \in 0..Len(rest)
  BY <1>5, BoundaryFacts
<1>8. tab \in Tab /\ tab.id = tabs[i].id /\ tab.at = tabs[i].at
  BY <1>4 DEF Tab
<1>9. tabs[i] \in TabsOf(tabs) /\ TabsOf(tabs) = TabsIn(st, s)
  BY <1>4 DEF TabsOf, TabsIn
<1>10. TogglePin(st, id) = WithGroup(st, s, row, group.activeTabId)
  BY DEF TogglePin
<1> HIDE DEF b, rest, tab, tabs, i
<1>11. b + 1 \in 1..(Len(rest) + 1)
  BY <1>6, <1>7
<1>12. row \in Seq(Tab) /\ TabsOf(row) \subseteq TabsOf(rest) \cup {tab}
  BY <1>6, <1>8, <1>11, InsertedTabs
<1>13. \A u \in TabsOf(row) : \E t \in TabsIn(st, s) : t.id = u.id /\ t.at = u.at
  BY <1>6, <1>8, <1>9, <1>12
<1> HIDE DEF row, s
<1>14. Carries(st, WithGroup(st, s, row, group.activeTabId))
  BY <1>1, <1>2, <1>3, <1>12, <1>13, EditCarries
<1> QED BY <1>10, <1>14

LEMMA ValidatedCarries ==
    ASSUME NEW st, StoreOK(st), NEW valid \in SUBSET Slugs, NEW next
    PROVE  Carries(st, Validated(st, valid, next))
<1> DEFINE g == [s \in DOMAIN st.byWorkspace \cap valid |-> st.byWorkspace[s]]
           new == Validated(st, valid, next)
<1>1. new.byWorkspace = g /\ new.made = st.made
  <2>1. st = [activeWorkspaceSlug |-> st.activeWorkspaceSlug,
              byWorkspace |-> st.byWorkspace, made |-> st.made]
    BY DEF StoreOK, GroupsOK, StoreTypeOK
  <2>2. PICK a : new = [st EXCEPT !.byWorkspace = g, !.activeWorkspaceSlug = a]
    BY Zenon DEF Validated
  <2> HIDE DEF g, new
  <2> QED BY <2>1, <2>2
<1>2. Live(new) = Live(st) \cap valid /\ \A s \in Live(new) : TabsIn(new, s) = TabsIn(st, s)
  BY <1>1 DEF Live, TabsIn
<1>3. st.made \in Int
  BY StoreFacts DEF StoreOK
<1> HIDE DEF new
<1>4. Carries(st, new)
  BY <1>1, <1>2, <1>3, CarriedAlong DEF Carries
<1> QED BY <1>4 DEF new

-----------------------------------------------------------------------------
\* Navigation.

\* A router that goes elsewhere: its tab is the only one that changes.
LEMMA RelocatedTabs ==
    ASSUME NEW st, StoreOK(st), NEW id, Exists(st, id),
           NEW path \in Paths, NEW syncs \in BOOLEAN
    PROVE  /\ Live(Relocated(st, id, path, syncs)) = Live(st)
           /\ Relocated(st, id, path, syncs).made = st.made
           /\ TabOf(st, id) \in TabsIn(st, Holder(st, id)) /\ TabOf(st, id).id = id
           /\ \A s \in Live(st) : \A u \in TabsIn(Relocated(st, id, path, syncs), s) :
                 \/ u \in TabsIn(st, s)
                 \/ s = Holder(st, id) /\ u.id = id /\ u.at = path
<1> DEFINE h == Holder(st, id)
           group == st.byWorkspace[h]
           tabs == group.tabs
           i == At(tabs, id)
           tab == [tabs[i] EXCEPT !.at = path, !.path = IF syncs THEN path ELSE tabs[i].path]
           row == [tabs EXCEPT ![i] = tab]
           new == Relocated(st, id, path, syncs)
<1>1. h \in Live(st) /\ id \in IdsOf(tabs)
  BY HolderFacts
<1>2. RowSound(tabs) /\ group.activeTabId \in Ids /\ h \in Slugs
  BY <1>1, StoreFacts DEF StoreOK
<1>3. /\ tabs \in Seq(Tab) /\ DOMAIN tabs = 1..Len(tabs)
      /\ i \in 1..Len(tabs) /\ tabs[i] \in Tab /\ tabs[i].id = id
  BY <1>1, <1>2, RowFacts, AtFacts DEF RowSound
<1>4. tab \in Tab /\ tab.id = id /\ tab.at = path
  BY <1>3 DEF Tab
<1>5. new = WithGroup(st, h, row, group.activeTabId)
  BY DEF Relocated
<1>6. TabOf(st, id) = tabs[i]
  BY DEF TabOf
<1> HIDE DEF tab, i, new
<1>7. /\ row \in Seq(Tab) /\ Len(row) = Len(tabs)
      /\ \A j \in 1..Len(tabs) : row[j] = IF j = i THEN tab ELSE tabs[j]
  BY <1>3, <1>4, ExceptSeq
<1>8. DOMAIN row = 1..Len(tabs)
  BY <1>7, RowFacts
<1> HIDE DEF row
<1>9. \A u \in TabsOf(row) : u \in TabsOf(tabs) \/ u = tab
  BY <1>3, <1>7, <1>8 DEF TabsOf
<1> HIDE DEF h, tabs
<1>10. /\ Live(new) = Live(st) \cup {h} /\ new.byWorkspace[h].tabs = row
       /\ \A x \in Live(st) \ {h} : new.byWorkspace[x] = st.byWorkspace[x]
       /\ new.made = st.made
  BY <1>2, <1>5, <1>7, WithGroupFacts DEF StoreOK, GroupsOK
<1>11. TabsIn(new, h) = TabsOf(row) /\ TabsIn(st, h) = TabsOf(tabs)
       /\ \A x \in Live(st) \ {h} : TabsIn(new, x) = TabsIn(st, x)
  BY <1>10 DEF TabsIn, tabs
<1>12. ASSUME NEW s \in Live(st), NEW u \in TabsIn(new, s)
       PROVE  u \in TabsIn(st, s) \/ (s = h /\ u.id = id /\ u.at = path)
  BY <1>4, <1>9, <1>11, <1>12
<1>13. tabs[i] \in TabsIn(st, h)
  BY <1>3, <1>11 DEF TabsOf
<1> QED BY <1>1, <1>3, <1>6, <1>10, <1>12, <1>13 DEF new, h

\* A tab's group and its place there are known by its id.
LEMMA KnownById ==
    ASSUME NEW st, GroupsOK(st), NEW s \in Live(st), NEW r \in Live(st),
           NEW t \in TabsIn(st, s), NEW u \in TabsIn(st, r), t.id = u.id
    PROVE  s = r /\ t = u
<1>1. t.id \in IdsOf(st.byWorkspace[s].tabs) /\ u.id \in IdsOf(st.byWorkspace[r].tabs)
  BY DEF TabsIn, TabsOf, IdsOf
<1>2. s = r
  BY <1>1 DEF GroupsOK, GroupsDisjoint
<1>3. Distinct(st.byWorkspace[s].tabs)
  BY DEF GroupsOK, GroupSound
<1> QED BY <1>2, <1>3 DEF Distinct, TabsIn, TabsOf

\* To show a tab takes it nowhere.
LEMMA ShownCarries ==
    ASSUME NEW st, StoreOK(st), NEW id, Exists(st, id),
           NEW path \in Paths, path = TabOf(st, id).at, NEW syncs \in BOOLEAN
    PROVE  Carries(st, Relocated(st, id, path, syncs))
<1> DEFINE new == Relocated(st, id, path, syncs)
<1>1. GroupsOK(st) /\ st.made \in Int
  BY StoreFacts DEF StoreOK
<1>2. /\ Live(new) = Live(st) /\ new.made = st.made
      /\ TabOf(st, id) \in TabsIn(st, Holder(st, id)) /\ TabOf(st, id).id = id
      /\ \A s \in Live(st) : \A u \in TabsIn(new, s) :
            \/ u \in TabsIn(st, s)
            \/ s = Holder(st, id) /\ u.id = id /\ u.at = path
  BY RelocatedTabs
<1> HIDE DEF new
<1>3. ASSUME NEW s \in Live(st), NEW u \in TabsIn(new, s)
      PROVE  Carried(st, s, u)
  BY <1>2, <1>3 DEF Carried
<1>4. Carries(st, new)
  BY <1>1, <1>2, <1>3 DEF Carries
<1> QED BY <1>4 DEF new

LEMMA SyncedCarries ==
    ASSUME NEW st, StoreOK(st)
    PROVE  Carries(st, Synced(st))
<1>1. CASE ActiveTab(st) = Nobody
  BY <1>1, CarriesItself DEF Synced, StoreOK
<1>2. CASE ActiveTab(st) # Nobody
  <2>1. Exists(st, ActiveTab(st))
    BY <1>2, ActiveTabFacts
  <2>2. Synced(st) = Relocated(st, ActiveTab(st), TabOf(st, ActiveTab(st)).at, TRUE)
    BY <1>2 DEF Synced
  <2>3. TabOf(st, ActiveTab(st)).at \in Paths
    BY <2>1, TabOfFacts
  <2> QED BY <2>1, <2>2, <2>3, ShownCarries
<1> QED BY <1>1, <1>2

\* The group of the tab on screen is the one on screen.
LEMMA ActiveHolder ==
    ASSUME NEW st, StoreOK(st), ActiveTab(st) # Nobody
    PROVE  Exists(st, ActiveTab(st)) /\ Holder(st, ActiveTab(st)) = st.activeWorkspaceSlug
<1>1. st.activeWorkspaceSlug \in Live(st) /\ Exists(st, ActiveTab(st))
  BY ActiveTabFacts
<1>2. ActiveTab(st) \in IdsOf(st.byWorkspace[st.activeWorkspaceSlug].tabs)
  BY <1>1, StoreFacts DEF ActiveTab, StoreOK
<1>3. /\ Holder(st, ActiveTab(st)) \in Live(st)
      /\ ActiveTab(st) \in IdsOf(st.byWorkspace[Holder(st, ActiveTab(st))].tabs)
  BY <1>1, HolderFacts
<1> QED BY <1>1, <1>2, <1>3 DEF StoreOK, GroupsOK, GroupsDisjoint

-----------------------------------------------------------------------------
\* The two properties, of a store and the next one.

NoNewStrays(st, new) ==
    \A s \in Live(new) : \A t \in TabsIn(new, s) :
        SlugOf[t.at] \notin {s, Nobody} =>
            \E r \in Live(st) : \E u \in TabsIn(st, r) :
                SlugOf[u.at] \notin {r, Nobody} /\ u.id = t.id

PinnedKeptIn(st, new) ==
    \A s \in Live(st), r \in Live(new) :
        \A t \in TabsIn(st, s), u \in TabsIn(new, r) :
            t.pinned /\ t.id = u.id => t.at = u.at

\* Less than to carry: a new tab may open any page.
KeepsPages(st, new) ==
    /\ st.made <= new.made
    /\ \A s \in Live(new) : \A u \in TabsIn(new, s) :
          \/ \E r \in Live(st) : \E t \in TabsIn(st, r) : t.id = u.id /\ t.at = u.at
          \/ st.made < u.id

LEMMA CarriesMeans ==
    ASSUME NEW st, NEW new, Carries(st, new)
    PROVE  NoNewStrays(st, new) /\ KeepsPages(st, new)
<1>1. ASSUME NEW s \in Live(new), NEW u \in TabsIn(new, s)
      PROVE  \/ s \in Live(st) /\ \E t \in TabsIn(st, s) : t.id = u.id /\ t.at = u.at
             \/ st.made < u.id /\ SlugOf[u.at] \in {s, Nobody}
  BY <1>1 DEF Carries, Carried
<1>2. NoNewStrays(st, new)
  BY <1>1 DEF NoNewStrays
<1>3. KeepsPages(st, new)
  BY <1>1 DEF KeepsPages, Carries
<1> QED BY <1>2, <1>3

LEMMA StraysOn ==
    ASSUME NEW a, NEW b, NEW c, NoNewStrays(a, b), NoNewStrays(b, c)
    PROVE  NoNewStrays(a, c)
<1>1. ASSUME NEW s \in Live(c), NEW t \in TabsIn(c, s), SlugOf[t.at] \notin {s, Nobody}
      PROVE  \E r \in Live(a) : \E u \in TabsIn(a, r) :
                 SlugOf[u.at] \notin {r, Nobody} /\ u.id = t.id
  <2>1. PICK q \in Live(b) : \E v \in TabsIn(b, q) :
            SlugOf[v.at] \notin {q, Nobody} /\ v.id = t.id
    BY <1>1 DEF NoNewStrays
  <2>2. PICK v \in TabsIn(b, q) : SlugOf[v.at] \notin {q, Nobody} /\ v.id = t.id
    BY <2>1
  <2> QED BY <2>2 DEF NoNewStrays
<1> QED BY <1>1 DEF NoNewStrays

LEMMA PagesOn ==
    ASSUME NEW a, GroupsOK(a), NEW b, GroupsOK(b), NEW c, GroupsOK(c),
           KeepsPages(a, b), KeepsPages(b, c)
    PROVE  KeepsPages(a, c)
<1>1. a.made \in Int /\ b.made \in Int /\ c.made \in Int
  BY StoreFacts
<1>2. a.made <= b.made /\ b.made <= c.made
  BY DEF KeepsPages
<1>3. ASSUME NEW s \in Live(c), NEW u \in TabsIn(c, s)
      PROVE  \/ \E r \in Live(a) : \E t \in TabsIn(a, r) : t.id = u.id /\ t.at = u.at
             \/ a.made < u.id
  <2>1. CASE b.made < u.id
    <3>1. u.id \in Int
      BY <1>3, TabFacts
    <3> QED BY <3>1, <2>1, <1>1, <1>2
  <2>2. CASE \E r \in Live(b) : \E t \in TabsIn(b, r) : t.id = u.id /\ t.at = u.at
    BY <2>2 DEF KeepsPages
  <2> QED BY <2>1, <2>2, <1>3 DEF KeepsPages
<1> QED BY <1>1, <1>2, <1>3 DEF KeepsPages

\* A pinned tab is known by its id, and a new one has another.
LEMMA PagesPinned ==
    ASSUME NEW a, GroupsOK(a), NEW b, GroupsOK(b), NEW c, GroupsOK(c),
           PinnedKeptIn(a, b), a.made = b.made, KeepsPages(b, c)
    PROVE  PinnedKeptIn(a, c)
<1>1. ASSUME NEW s \in Live(a), NEW r \in Live(c),
             NEW t \in TabsIn(a, s), NEW u \in TabsIn(c, r), t.pinned, t.id = u.id
      PROVE  t.at = u.at
  <2>1. t.id \in Int /\ t.id <= b.made /\ b.made \in Int
    BY <1>1, TabFacts
  <2>2. ~ (b.made < u.id)
    BY <2>1, <1>1
  <2>3. \E q \in Live(b) : \E v \in TabsIn(b, q) : v.id = u.id /\ v.at = u.at
    BY <2>2, <1>1 DEF KeepsPages
  <2> QED BY <2>3, <1>1 DEF PinnedKeptIn
<1> QED BY <1>1 DEF PinnedKeptIn

LEMMA PinnedItself ==
    ASSUME NEW st, GroupsOK(st)
    PROVE  PinnedKeptIn(st, st)
BY KnownById DEF PinnedKeptIn

LEMMA PagesKeepPinned ==
    ASSUME NEW a, GroupsOK(a), NEW c, GroupsOK(c), KeepsPages(a, c)
    PROVE  PinnedKeptIn(a, c)
BY PinnedItself, PagesPinned

-----------------------------------------------------------------------------
\* A tab that goes to a page of its workspace, or to none, does not stray.
LEMMA RelocatedStrays ==
    ASSUME NEW st, StoreOK(st), NEW id, Exists(st, id), NEW path \in Paths,
           SlugOf[path] \in {Holder(st, id), Nobody}, NEW syncs \in BOOLEAN
    PROVE  NoNewStrays(st, Relocated(st, id, path, syncs))
<1> DEFINE new == Relocated(st, id, path, syncs)
<1>1. /\ Live(new) = Live(st)
      /\ \A s \in Live(st) : \A u \in TabsIn(new, s) :
            \/ u \in TabsIn(st, s)
            \/ s = Holder(st, id) /\ u.id = id /\ u.at = path
  BY RelocatedTabs
<1> HIDE DEF new
<1>2. NoNewStrays(st, new)
  BY <1>1 DEF NoNewStrays
<1> QED BY <1>2 DEF new

\* One that is not pinned, or stays, takes no pinned tab off its page.
LEMMA RelocatedPinned ==
    ASSUME NEW st, StoreOK(st), NEW id, Exists(st, id), NEW path \in Paths,
           TabOf(st, id).pinned => TabOf(st, id).at = path, NEW syncs \in BOOLEAN
    PROVE  /\ PinnedKeptIn(st, Relocated(st, id, path, syncs))
           /\ Relocated(st, id, path, syncs).made = st.made
<1> DEFINE new == Relocated(st, id, path, syncs)
<1>1. /\ Live(new) = Live(st) /\ new.made = st.made
      /\ TabOf(st, id) \in TabsIn(st, Holder(st, id)) /\ TabOf(st, id).id = id
      /\ \A s \in Live(st) : \A u \in TabsIn(new, s) :
            \/ u \in TabsIn(st, s)
            \/ s = Holder(st, id) /\ u.id = id /\ u.at = path
  BY RelocatedTabs
<1>2. GroupsOK(st) /\ Holder(st, id) \in Live(st)
  BY HolderFacts DEF StoreOK
<1> HIDE DEF new
<1>3. ASSUME NEW s \in Live(st), NEW r \in Live(new),
             NEW t \in TabsIn(st, s), NEW u \in TabsIn(new, r), t.pinned, t.id = u.id
      PROVE  t.at = u.at
  <2>1. CASE u \in TabsIn(st, r)
    BY <2>1, <1>1, <1>2, <1>3, KnownById
  <2>2. CASE u.id = id /\ u.at = path
    <3>1. t = TabOf(st, id)
      BY <2>2, <1>1, <1>2, <1>3, KnownById
    <3> QED BY <3>1, <2>2, <1>3
  <2> QED BY <2>1, <2>2, <1>1, <1>3
<1>4. PinnedKeptIn(st, new)
  BY <1>3 DEF PinnedKeptIn
<1> QED BY <1>1, <1>4 DEF new

\* A link opens a page of any workspace behind the tabs of the one on screen.
LEMMA OpenTabKeepsPages ==
    ASSUME NEW st, StoreOK(st), CanMake(st), NEW path \in Paths
    PROVE  KeepsPages(st, OpenTab(st, path))
<1> DEFINE s == st.activeWorkspaceSlug
           tabs == st.byWorkspace[s].tabs
           tab == MakeTab(st, path)
           row == Append(tabs, tab)
           active == st.byWorkspace[s].activeTabId
           new == WithGroup(Made(st), s, row, active)
<1>1. GroupsOK(st) /\ st.made \in Int
  BY StoreFacts DEF StoreOK
<1>2. \/ Carries(st, OpenTab(st, path))
      \/ s \in Live(st) /\ OpenTab(st, path) = new
  <2> DEFINE same == {i \in DOMAIN tabs : tabs[i].path = path}
  <2>1. CASE s \notin Live(st) \/ SlugOf[path] = Nobody
    BY <2>1, <1>1, CarriesItself DEF OpenTab
  <2>2. CASE s \in Live(st) /\ SlugOf[path] # Nobody /\ same # {}
    <3>1. OpenTab(st, path) = WithGroup(st, s, tabs, tabs[Least(same)].id)
      BY <2>2 DEF OpenTab
    <3>2. tabs[Least(same)].id \in IdsOf(tabs)
      BY <1>1, <2>2, StoreFacts, SameFacts
    <3> QED BY <3>1, <3>2, <1>1, <2>2, ActivateCarries
  <2>3. CASE s \in Live(st) /\ SlugOf[path] # Nobody /\ same = {}
    BY <2>3 DEF OpenTab, AddTab
  <2> QED BY <2>1, <2>2, <2>3
<1>3. ASSUME s \in Live(st)
      PROVE  KeepsPages(st, new)
  <2>1. /\ tab \in Tab /\ tab.id = st.made + 1
        /\ StoreTypeOK(Made(st)) /\ Made(st).byWorkspace = st.byWorkspace
        /\ Made(st).made = st.made + 1 /\ Live(Made(st)) = Live(st)
    BY <1>1, MadeOK DEF GroupsOK
  <2>2. s \in Slugs /\ tabs \in Seq(Tab) /\ active \in Ids
    BY <1>1, <1>3, StoreFacts DEF RowSound
  <2>3. row \in Seq(Tab) /\ TabsOf(row) \subseteq TabsOf(tabs) \cup {tab}
    BY <2>1, <2>2, AppendTabs
  <2> HIDE DEF tab, row, active
  <2>4. /\ Live(new) = Live(st) \cup {s} /\ new.byWorkspace[s].tabs = row
        /\ \A x \in Live(st) \ {s} : new.byWorkspace[x] = st.byWorkspace[x]
        /\ new.made = st.made + 1
    BY <2>1, <2>2, <2>3, WithGroupFacts
  <2> HIDE DEF new, tabs
  <2>5. ASSUME NEW x \in Live(new), NEW u \in TabsIn(new, x)
        PROVE  u \in TabsIn(st, x) \/ u = tab
    BY <2>3, <2>4, <2>5, <1>3 DEF TabsIn, tabs
  <2>6. Live(new) = Live(st)
    BY <2>4, <1>3
  <2>7. st.made <= new.made /\ st.made < tab.id
    BY <1>1, <2>1, <2>4
  <2> QED BY <2>5, <2>6, <2>7 DEF KeepsPages
<1> HIDE DEF new
<1> QED BY <1>2, <1>3, CarriesMeans

-----------------------------------------------------------------------------
\* The steps.

LEMMA CarriedOver ==
    ASSUME StoreOK(store), NEW st, StoreOK(st), Carries(store, st), store' = Synced(st)
    PROVE  NoNewStrays(store, store') /\ PinnedKeptIn(store, store')
<1>1. Carries(st, store') /\ StoreOK(store')
  <2>1. Carries(st, Synced(st)) /\ StoreOK(Synced(st))
    BY SyncedCarries, SyncedOK
  <2> QED BY <2>1, Zenon
<1>2. GroupsOK(store) /\ GroupsOK(st) /\ GroupsOK(store')
  BY <1>1 DEF StoreOK
<1>3. Carries(store, store')
  BY <1>1, <1>2, CarriesOn
<1> QED BY <1>2, <1>3, CarriesMeans, PagesKeepPinned

LEMMA StraysOver ==
    ASSUME NEW st, StoreOK(st), NoNewStrays(store, st), store' = Synced(st)
    PROVE  NoNewStrays(store, store')
<1>1. NoNewStrays(st, store')
  <2>1. NoNewStrays(st, Synced(st))
    BY SyncedCarries, CarriesMeans
  <2> QED BY <2>1, Zenon
<1> QED BY <1>1, StraysOn

LEMMA PinnedOver ==
    ASSUME StoreOK(store), NEW st, StoreOK(st), store' = Synced(st),
           \/ PinnedKeptIn(store, st) /\ st.made = store.made
           \/ KeepsPages(store, st)
    PROVE  PinnedKeptIn(store, store')
<1>1. KeepsPages(st, store') /\ StoreOK(store')
  <2>1. KeepsPages(st, Synced(st)) /\ StoreOK(Synced(st))
    BY SyncedCarries, SyncedOK, CarriesMeans
  <2> QED BY <2>1, Zenon
<1>2. GroupsOK(store) /\ GroupsOK(st) /\ GroupsOK(store')
  BY <1>1 DEF StoreOK
<1>3. CASE PinnedKeptIn(store, st) /\ st.made = store.made
  BY <1>1, <1>2, <1>3, PagesPinned
<1>4. CASE KeepsPages(store, st)
  <2>1. KeepsPages(store, store')
    BY <1>1, <1>2, <1>4, PagesOn
  <2> QED BY <2>1, <1>2, PagesKeepPinned
<1> QED BY <1>3, <1>4

\* The tab on screen, in its own workspace.
LEMMA NavigatedStays ==
    ASSUME StoreOK(store), NEW path \in Paths, SlugOf[path] = store.activeWorkspaceSlug
    PROVE  NoNewStrays(store, Navigated(store, ActiveTab(store), path))
<1>1. CASE ActiveTab(store) = Nobody
  <2>1. Navigated(store, ActiveTab(store), path) = store
    BY <1>1 DEF Navigated
  <2> QED BY <2>1, CarriesItself, CarriesMeans DEF StoreOK
<1>2. CASE ActiveTab(store) # Nobody
  <2>1. /\ Exists(store, ActiveTab(store))
        /\ SlugOf[path] = Holder(store, ActiveTab(store))
    BY <1>2, ActiveHolder
  <2>2. PICK syncs \in BOOLEAN :
            Navigated(store, ActiveTab(store), path)
                = Relocated(store, ActiveTab(store), path, syncs)
    <3>1. (ActiveTab(store) = ActiveTab(store)) \in BOOLEAN
      OBVIOUS
    <3> QED BY <3>1, <1>2 DEF Navigated
  <2> QED BY <2>1, <2>2, RelocatedStrays
<1> QED BY <1>1, <1>2

\* The overlay takes its tab to the page of no workspace.
LEMMA OverlayStays ==
    ASSUME StoreOK(store), NEW origin
    PROVE  NoNewStrays(store, Navigated(store, origin, Root))
<1>1. CASE origin = Nobody \/ ~ Exists(store, origin)
  <2>1. Navigated(store, origin, Root) = store
    BY <1>1 DEF Navigated, Relocated
  <2> QED BY <2>1, CarriesItself, CarriesMeans DEF StoreOK
<1>2. CASE origin # Nobody /\ Exists(store, origin)
  <2>1. PICK syncs \in BOOLEAN :
            Navigated(store, origin, Root) = Relocated(store, origin, Root, syncs)
    <3>1. (origin = ActiveTab(store)) \in BOOLEAN
      OBVIOUS
    <3> QED BY <3>1, <1>2 DEF Navigated
  <2>2. Root \in Paths /\ SlugOf[Root] = Nobody
    BY SlugAssumption
  <2> QED BY <1>2, <2>1, <2>2, RelocatedStrays
<1> QED BY <1>1, <1>2

\* Away from a pinned tab push opens a tab, or one that is open.
LEMMA OpenedCarries ==
    ASSUME StoreOK(store), CanMake(store), NEW path \in Paths,
           SlugOf[path] = store.activeWorkspaceSlug, NEW id
    PROVE  /\ StoreOK(SetActiveTab(OpenTab(store, path), id))
           /\ Carries(store, SetActiveTab(OpenTab(store, path), id))
<1>1. StoreOK(OpenTab(store, path)) /\ Carries(store, OpenTab(store, path))
  BY OpenTabOK, OpenTabCarries
<1>2. /\ StoreOK(SetActiveTab(OpenTab(store, path), id))
      /\ Carries(OpenTab(store, path), SetActiveTab(OpenTab(store, path), id))
  BY <1>1, SetActiveTabOK, SetActiveTabCarries
<1> QED BY <1>1, <1>2, CarriesOn DEF StoreOK

LEMMA PushStays ==
    ASSUME StoreOK(store), NEW path \in Paths, SlugOf[path] # Nobody,
           Push(ActiveTab(store), path)
    PROVE  NoNewStrays(store, store') /\ PinnedKeptIn(store, store')
<1> DEFINE active == ActiveTab(store)
           parked == /\ active # Nobody /\ TabOf(store, active).pinned
                     /\ TabOf(store, active).at # path
           there == Navigated(store, active, path)
<1>1. CanMake(store) /\ SlugOf[path] \in Slugs
  BY SlugOfPath DEF Push
<1>2. CASE SlugOf[path] # store.activeWorkspaceSlug
  <2>1. store' = Synced(SwitchTo(store, SlugOf[path], path))
    BY <1>2 DEF Push, Becomes
  <2>2. /\ StoreOK(SwitchTo(store, SlugOf[path], path))
        /\ Carries(store, SwitchTo(store, SlugOf[path], path))
    BY <1>1, SwitchToOK, SwitchToCarries
  <2> QED BY <2>1, <2>2, CarriedOver
<1>3. CASE SlugOf[path] = store.activeWorkspaceSlug /\ parked
  <2>1. store' = Synced(SetActiveTab(OpenTab(store, path), Opened(store, path)))
    BY <1>3 DEF Push, Becomes
  <2> QED BY <2>1, <1>1, <1>3, OpenedCarries, CarriedOver
<1>4. CASE SlugOf[path] = store.activeWorkspaceSlug /\ ~ parked
  <2>1. store' = Synced(there)
    BY <1>4 DEF Push, Becomes
  <2>2. StoreOK(there) /\ NoNewStrays(store, there)
    BY <1>4, NavigatedOK, NavigatedStays
  <2>3. PinnedKeptIn(store, there) /\ there.made = store.made
    <3>1. CASE active = Nobody
      <4>1. there = store
        BY <3>1 DEF Navigated
      <4> QED BY <4>1, PinnedItself DEF StoreOK
    <3>2. CASE active # Nobody
      <4>1. Exists(store, active)
        BY <3>2, ActiveHolder
      <4>2. PICK syncs \in BOOLEAN : there = Relocated(store, active, path, syncs)
        <5>1. (active = ActiveTab(store)) \in BOOLEAN
          OBVIOUS
        <5> QED BY <5>1, <3>2 DEF Navigated
      <4>3. TabOf(store, active).pinned => TabOf(store, active).at = path
        BY <1>4, <3>2
      <4> HIDE DEF there, active
      <4> QED BY <4>1, <4>2, <4>3, RelocatedPinned
    <3> QED BY <3>1, <3>2
  <2> HIDE DEF there
  <2> QED BY <2>1, <2>2, <2>3, StraysOver, PinnedOver
<1> QED BY <1>2, <1>3, <1>4

LEMMA ReplaceStays ==
    ASSUME StoreOK(store), NEW path \in Paths, SlugOf[path] # Nobody,
           Replace(ActiveTab(store), path)
    PROVE  NoNewStrays(store, store')
<1>1. CanMake(store) /\ SlugOf[path] \in Slugs
  BY SlugOfPath DEF Replace
<1>2. CASE SlugOf[path] # store.activeWorkspaceSlug
  <2>1. store' = Synced(SwitchTo(store, SlugOf[path], path))
    BY <1>2 DEF Replace, Becomes
  <2>2. /\ StoreOK(SwitchTo(store, SlugOf[path], path))
        /\ Carries(store, SwitchTo(store, SlugOf[path], path))
    BY <1>1, SwitchToOK, SwitchToCarries
  <2> QED BY <2>1, <2>2, CarriedOver
<1>3. CASE SlugOf[path] = store.activeWorkspaceSlug
  <2>1. store' = Synced(Navigated(store, ActiveTab(store), path))
    BY <1>3 DEF Replace, Becomes
  <2>2. StoreOK(Navigated(store, ActiveTab(store), path))
    BY NavigatedOK
  <2> QED BY <2>1, <2>2, <1>3, NavigatedStays, StraysOver
<1> QED BY <1>2, <1>3

LEMMA OpenInNewTabStays ==
    ASSUME StoreOK(store), NEW path \in Paths, SlugOf[path] # Nobody,
           NEW activate \in BOOLEAN, OpenInNewTab(path, activate)
    PROVE  NoNewStrays(store, store') /\ PinnedKeptIn(store, store')
<1>1. CanMake(store) /\ SlugOf[path] \in Slugs
  BY SlugOfPath DEF OpenInNewTab
<1>2. CASE SlugOf[path] # store.activeWorkspaceSlug
  <2>1. store' = Synced(SwitchTo(store, SlugOf[path], path))
    BY <1>2 DEF OpenInNewTab, Becomes
  <2>2. /\ StoreOK(SwitchTo(store, SlugOf[path], path))
        /\ Carries(store, SwitchTo(store, SlugOf[path], path))
    BY <1>1, SwitchToOK, SwitchToCarries
  <2> QED BY <2>1, <2>2, CarriedOver
<1>3. CASE SlugOf[path] = store.activeWorkspaceSlug
  <2>1. \/ store' = Synced(SetActiveTab(OpenTab(store, path), Opened(store, path)))
        \/ store' = Synced(OpenTab(store, path))
    BY <1>3, Zenon DEF OpenInNewTab, Becomes
  <2>2. /\ StoreOK(SetActiveTab(OpenTab(store, path), Opened(store, path)))
        /\ Carries(store, SetActiveTab(OpenTab(store, path), Opened(store, path)))
    BY <1>1, <1>3, OpenedCarries
  <2>3. StoreOK(OpenTab(store, path)) /\ Carries(store, OpenTab(store, path))
    BY <1>1, <1>3, OpenTabOK, OpenTabCarries
  <2> QED BY <2>1, <2>2, <2>3, CarriedOver
<1> QED BY <1>2, <1>3

LEMMA OpenLinkPinned ==
    ASSUME StoreOK(store), NEW path \in Paths, OpenLink(path)
    PROVE  PinnedKeptIn(store, store')
<1> DEFINE opened == OpenTab(store, path)
           new == SetActiveTab(opened, Opened(store, path))
<1>1. CanMake(store) /\ store' = Synced(new)
  BY DEF OpenLink, Becomes
<1>2. StoreOK(opened) /\ KeepsPages(store, opened)
  BY <1>1, OpenTabOK, OpenTabKeepsPages
<1>3. StoreOK(new) /\ KeepsPages(opened, new)
  BY <1>2, SetActiveTabOK, SetActiveTabCarries, CarriesMeans
<1> HIDE DEF opened, new
<1>4. KeepsPages(store, new)
  BY <1>2, <1>3, PagesOn DEF StoreOK
<1> QED BY <1>1, <1>3, <1>4, PinnedOver

LEMMA TabBarStays ==
    ASSUME StoreOK(store), NEW i \in Shown,
           ClickTab(i) \/ CloseShown(i) \/ PinTab(i) \/ \E j \in Shown : DragTab(i, j)
    PROVE  NoNewStrays(store, store') /\ PinnedKeptIn(store, store')
<1>1. Exists(store, Here(i)) /\ store.activeWorkspaceSlug \in Live(store)
  BY ShownFacts
<1>2. CASE ClickTab(i)
  BY <1>2, SetActiveTabOK, SetActiveTabCarries, CarriedOver DEF ClickTab, Becomes
<1>3. CASE CloseShown(i)
  BY <1>1, <1>3, CloseTabOK, CloseTabCarries, CarriedOver DEF CloseShown, Becomes
<1>4. CASE PinTab(i)
  BY <1>1, <1>4, TogglePinOK, TogglePinCarries, CarriedOver DEF PinTab, Becomes
<1>5. ASSUME NEW j \in Shown, DragTab(i, j)
      PROVE  NoNewStrays(store, store') /\ PinnedKeptIn(store, store')
  <2>1. StoreOK(MoveTab(store, i, j)) /\ Carries(store, MoveTab(store, i, j))
    BY <1>1, ShownFacts, MoveTabOK, MoveTabCarries
  <2> QED BY <2>1, <1>5, CarriedOver DEF DragTab, Becomes
<1> QED BY <1>2, <1>3, <1>4, <1>5

LEMMA NewTabStays ==
    ASSUME StoreOK(store), NewTab
    PROVE  NoNewStrays(store, store') /\ PinnedKeptIn(store, store')
<1> DEFINE s == store.activeWorkspaceSlug
           opened == AddTab(store, IssuesOf[s])
           new == SetActiveTab(opened, store.made + 1)
<1>1. CanMake(store) /\ s \in Live(store) /\ store' = Synced(new)
  BY DEF NewTab, Shown, Becomes
<1>2. IssuesOf[s] \in Paths /\ SlugOf[IssuesOf[s]] = s
  BY <1>1, StoreFacts, SlugAssumption DEF StoreOK
<1>3. StoreOK(opened) /\ Carries(store, opened)
  BY <1>1, <1>2, AddTabOK, AddTabCarries
<1>4. StoreOK(new) /\ Carries(opened, new)
  BY <1>3, SetActiveTabOK, SetActiveTabCarries
<1> HIDE DEF opened, new
<1>5. Carries(store, new)
  BY <1>3, <1>4, CarriesOn DEF StoreOK
<1> QED BY <1>1, <1>4, <1>5, CarriedOver

LEMMA ValidateWorkspacesStays ==
    ASSUME StoreOK(store), NEW valid \in SUBSET Slugs, ValidateWorkspaces(valid)
    PROVE  NoNewStrays(store, store') /\ PinnedKeptIn(store, store')
<1>1. CanMake(store)
  BY DEF ValidateWorkspaces
<1>2. PICK next \in FirstOf(Live(store) \cap valid) :
          \/ store' = Synced(Validated(store, valid, next))
          \/ \E s \in valid :
                store' = Synced(RestoreWorkspace(Validated(store, valid, next), s))
  BY Zenon DEF ValidateWorkspaces
<1> DEFINE st == Validated(store, valid, next)
<1>3. StoreOK(st) /\ CanMake(st) /\ Carries(store, st)
  BY <1>1, ValidatedOK, ValidatedCarries DEF CanMake
<1> HIDE DEF st
<1>4. ASSUME NEW s \in valid
      PROVE  StoreOK(RestoreWorkspace(st, s)) /\ Carries(store, RestoreWorkspace(st, s))
  <2>1. StoreOK(RestoreWorkspace(st, s)) /\ Carries(st, RestoreWorkspace(st, s))
    BY <1>3, RestoreWorkspaceOK, RestoreWorkspaceCarries
  <2> QED BY <2>1, <1>3, CarriesOn DEF StoreOK
<1>5. CASE store' = Synced(st)
  BY <1>3, <1>5, CarriedOver
<1>6. ASSUME NEW s \in valid, store' = Synced(RestoreWorkspace(st, s))
      PROVE  NoNewStrays(store, store') /\ PinnedKeptIn(store, store')
  BY <1>4, <1>6, CarriedOver
<1> QED BY <1>2, <1>5, <1>6 DEF st

LEMMA LogoutStays ==
    ASSUME Logout
    PROVE  NoNewStrays(store, store') /\ PinnedKeptIn(store, store')
<1>1. store'.byWorkspace = <<>> /\ DOMAIN <<>> = {}
  BY DEF Logout, EmptyStore
<1> QED BY <1>1 DEF NoNewStrays, PinnedKeptIn, Live

LEMMA RestoredTabs ==
    ASSUME NEW group, group.tabs \in Seq(Tab), NEW s,
           NEW new \in RestoredGroups(group, s), NEW u \in TabsOf(new.tabs)
    PROVE  SlugOf[u.at] = s
<1> DEFINE tabs == group.tabs
           keep == Kept(tabs, s)
           id == group.activeTabId
<1>1. PICK f \in [1..Cardinality(keep) -> keep] : new = RestoredGroup(tabs, f, id)
  BY DEF RestoredGroups
<1>2. \A i \in keep : i \in DOMAIN tabs /\ SlugOf[tabs[i].path] = s
  BY DEF Kept
<1>3. \A i \in DOMAIN tabs : tabs[i] \in Tab
  BY RowFacts
<1> HIDE DEF tabs, keep, id
<1> DEFINE row == [j \in DOMAIN f |-> [tabs[f[j]] EXCEPT !.at = tabs[f[j]].path]]
           active == IF id \in IdsOf(row) THEN id ELSE row[1].id
<1>4. new = [tabs |-> row, activeTabId |-> active]
  BY <1>1, Zenon DEF RestoredGroup
<1>5. \A j \in DOMAIN row : row[j] = [tabs[f[j]] EXCEPT !.at = tabs[f[j]].path] /\ f[j] \in keep
  BY <1>1
<1> HIDE DEF row, active
<1>6. PICK j \in DOMAIN row : u = row[j]
  BY <1>4 DEF TabsOf
<1>7. tabs[f[j]] \in Tab /\ SlugOf[tabs[f[j]].path] = s
  BY <1>2, <1>3, <1>5
<1> QED BY <1>5, <1>6, <1>7 DEF Tab

\* A restored tab is at its path, and its group keeps the paths of its own.
LEMMA RestartStays ==
    ASSUME StoreOK(store), Restart
    PROVE  NoNewStrays(store, store')
<1>1. PICK new \in Merges(store) : store' = Synced(new)
  BY DEF Restart
<1>2. StoreOK(new)
  BY SoundIsRestorable, RestoredOK
<1>3. /\ Live(new) = KeptSlugs(store)
      /\ \A s \in KeptSlugs(store) :
            new.byWorkspace[s] \in RestoredGroups(store.byWorkspace[s], s)
  BY DEF Merges, Restored, GroupsOver, Live
<1>4. ASSUME NEW s \in Live(new), NEW u \in TabsIn(new, s)
      PROVE  SlugOf[u.at] = s
  <2>1. s \in Live(store)
    BY <1>3, <1>4 DEF KeptSlugs
  <2>2. store.byWorkspace[s].tabs \in Seq(Tab)
    BY <2>1, StoreFacts DEF StoreOK, RowSound
  <2>3. new.byWorkspace[s] \in RestoredGroups(store.byWorkspace[s], s)
    BY <1>3, <1>4
  <2>4. u \in TabsOf(new.byWorkspace[s].tabs)
    BY <1>4 DEF TabsIn
  <2> QED BY <2>2, <2>3, <2>4, RestoredTabs
<1>5. NoNewStrays(store, new)
  BY <1>4 DEF NoNewStrays
<1> QED BY <1>1, <1>2, <1>5, StraysOver

-----------------------------------------------------------------------------
LEMMA StraysStated ==
    ASSUME NoNewStrays(store, store')
    PROVE  NoneStrays
BY DEF NoNewStrays, NoneStrays, Strayed, TabsIn, TabsOf

LEMMA PinnedStated ==
    ASSUME PinnedKeptIn(store, store')
    PROVE  PinnedKept
BY DEF PinnedKeptIn, PinnedKept, TabsIn, TabsOf

\* Every step that is no navigation, no restart and no link carries all tabs.
LEMMA OtherSteps ==
    ASSUME StoreOK(store), [TabNext]_tabVars
    PROVE  \/ \E origin \in Origins, path \in Paths \ {Root} :
                 Push(origin, path) \/ Replace(origin, path)
           \/ \E origin \in Origins : OpenOverlay(origin)
           \/ \E path \in Paths \ {Root} : OpenLink(path)
           \/ Restart
           \/ NoNewStrays(store, store') /\ PinnedKeptIn(store, store')
<1> DEFINE Both == NoNewStrays(store, store') /\ PinnedKeptIn(store, store')
           Navigation == \E origin \in Origins, path \in Paths \ {Root} :
                             Push(origin, path) \/ Replace(origin, path)
           Overlay == \E origin \in Origins : OpenOverlay(origin)
           Link == \E path \in Paths \ {Root} : OpenLink(path)
<1>1. ASSUME NEW path \in Paths \ {Root}, NEW activate \in BOOLEAN,
             OpenInNewTab(path, activate)
      PROVE  Both
  BY <1>1, SlugAssumption, OpenInNewTabStays
<1>2. ASSUME NEW i \in Shown, NEW j \in Shown, DragTab(i, j)
      PROVE  Both
  BY <1>2, TabBarStays
<1>3. ASSUME NEW i \in Shown, ClickTab(i) \/ CloseShown(i) \/ PinTab(i)
      PROVE  Both
  BY <1>3, TabBarStays
<1>4. CASE NewTab \/ Logout
  BY <1>4, NewTabStays, LogoutStays
<1>5. ASSUME NEW valid \in SUBSET Slugs, ValidateWorkspaces(valid)
      PROVE  Both
  BY <1>5, ValidateWorkspacesStays
<1>6. CASE UNCHANGED tabVars
  <2>1. store' = store
    BY <1>6 DEF tabVars
  <2>2. NoNewStrays(store, store) /\ PinnedKeptIn(store, store)
    BY CarriesItself, CarriesMeans, PinnedItself DEF StoreOK
  <2> QED BY <2>1, <2>2
<1>7. CASE TabNext
  <2>1. CASE \E path \in Paths \ {Root}, activate \in BOOLEAN : OpenInNewTab(path, activate)
    BY <1>1, <2>1, Zenon
  <2>2. CASE \E i, j \in Shown : DragTab(i, j)
    BY <1>2, <2>2, Zenon
  <2>3. CASE \E i \in Shown : ClickTab(i) \/ CloseShown(i) \/ PinTab(i)
    BY <1>3, <2>3, Zenon
  <2>4. CASE \E valid \in SUBSET Slugs : ValidateWorkspaces(valid)
    BY <1>5, <2>4, Zenon
  <2>5. CASE NewTab \/ Logout
    BY <1>4, <2>5
  <2>6. CASE Navigation \/ Overlay \/ Link \/ Restart
    BY <2>6
  <2> QED BY <1>7, <2>1, <2>2, <2>3, <2>4, <2>5, <2>6, Zenon DEF TabNext
<1> QED BY <1>6, <1>7

LEMMA StepStaysHome ==
    ASSUME TabInv, [TabNext]_tabVars
    PROVE  NoneStrays \/ HiddenPush \/ LinkOpened
<1>1. StoreOK(store)
  BY DEF TabInv
<1>2. ASSUME NEW origin \in Origins, NEW path \in Paths \ {Root},
             Push(origin, path) \/ Replace(origin, path)
      PROVE  NoneStrays \/ HiddenPush
  <2>1. CASE origin = ActiveTab(store)
    BY <2>1, <1>1, <1>2, SlugAssumption, PushStays, ReplaceStays, StraysStated
  <2>2. CASE origin # ActiveTab(store)
    BY <2>2, <1>2 DEF HiddenPush
  <2> QED BY <2>1, <2>2
<1>3. ASSUME NEW origin \in Origins, OpenOverlay(origin)
      PROVE  NoneStrays
  <2>1. store' = Synced(Navigated(store, origin, Root))
    BY <1>3 DEF OpenOverlay, Becomes
  <2>2. StoreOK(Navigated(store, origin, Root))
    BY <1>1, NavigatedOK, SlugAssumption
  <2> QED BY <2>1, <2>2, <1>1, OverlayStays, StraysOver, StraysStated
<1>4. CASE Restart
  BY <1>1, <1>4, RestartStays, StraysStated
<1>5. CASE \E path \in Paths \ {Root} : OpenLink(path)
  BY <1>5 DEF LinkOpened
<1> QED BY <1>1, <1>2, <1>3, <1>4, <1>5, OtherSteps, StraysStated

\* A tab of one workspace goes to a page of another only from a page that is not
\* on screen, or by a link or a notification.
THEOREM TabSpec_TabsStayHome == TabSpec => TabsStayHome
<1>1. TabInv /\ [TabNext]_tabVars => [NoneStrays \/ HiddenPush \/ LinkOpened]_tabVars
  BY StepStaysHome
<1> QED BY <1>1, TabSpec_Inv, PTL DEF TabSpec, TabsStayHome

LEMMA StepPinned ==
    ASSUME TabInv, [TabNext]_tabVars
    PROVE  \/ PinnedKept
           \/ /\ Replaces \/ HiddenPush \/ Restart
              /\ ~ \E path \in Paths \ {Root} : Push(ActiveTab(store), path)
<1>1. StoreOK(store)
  BY DEF TabInv
<1>2. ASSUME NEW path \in Paths \ {Root}, Push(ActiveTab(store), path)
      PROVE  PinnedKept
  BY <1>1, <1>2, SlugAssumption, PushStays, PinnedStated
<1>3. ASSUME NEW path \in Paths \ {Root}, OpenLink(path)
      PROVE  PinnedKept
  BY <1>1, <1>3, OpenLinkPinned, PinnedStated
<1>4. ASSUME NEW origin \in Origins, NEW path \in Paths \ {Root},
             Push(origin, path) \/ Replace(origin, path)
      PROVE  PinnedKept \/ Replaces \/ HiddenPush
  <2>1. CASE Replace(origin, path)
    BY <2>1 DEF Replaces
  <2>2. CASE Push(origin, path) /\ origin = ActiveTab(store)
    BY <2>2, <1>2
  <2>3. CASE Push(origin, path) /\ origin # ActiveTab(store)
    BY <2>3 DEF HiddenPush
  <2> QED BY <2>1, <2>2, <2>3, <1>4
<1>5. ASSUME NEW origin \in Origins, OpenOverlay(origin)
      PROVE  Replaces
  BY <1>5 DEF Replaces
<1>6. PinnedKept \/ Replaces \/ HiddenPush \/ Restart
  BY <1>1, <1>3, <1>4, <1>5, OtherSteps, PinnedStated
<1> QED BY <1>2, <1>6

\* A pinned tab keeps its page, whatever the tab on screen opens: only a
\* replacement, an overlay, a page that is not on screen or a restart moves it.
THEOREM TabSpec_PinnedStays == TabSpec => PinnedStays
<1> DEFINE Moved == /\ Replaces \/ HiddenPush \/ Restart
                    /\ ~ \E path \in Paths \ {Root} : Push(ActiveTab(store), path)
<1>1. TabInv /\ [TabNext]_tabVars => [PinnedKept \/ Moved]_tabVars
  BY StepPinned
<1> QED BY <1>1, TabSpec_Inv, PTL DEF TabSpec, PinnedStays
=============================================================================
