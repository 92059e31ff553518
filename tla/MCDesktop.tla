----------------------------- MODULE MCDesktop -----------------------------
EXTENDS Desktop

CONSTANTS u1, u2

MCSlugOf ==
    [p \in Paths |-> IF p \in {"/a/issues", "/a/inbox"} THEN "a"
                     ELSE IF p = "/b/issues" THEN "b" ELSE Nobody]

MCIssuesOf == [s \in Slugs |-> IF s = "a" THEN "/a/issues" ELSE "/b/issues"]

\* Nothing stored, or the row of tabs version 1 had with a tab on "/" active.
V1Tab(i, p) == [id |-> i, path |-> p, at |-> p, pinned |-> FALSE]

MCV1Stores ==
    {[tabs |-> <<>>, activeTabId |-> 0],
     [tabs |-> <<V1Tab(1, "/"), V1Tab(2, "/a/inbox")>>, activeTabId |-> 1]}

Plan(kinds, most, old) == [moves |-> kinds, most |-> most, old |-> old, user |-> u1]

MCPlans ==
    {Plan({"login", "logout", "quit"}, 4, FALSE),
     Plan({"operate", "task"}, 3, TRUE),
     Plan({"login", "logout", "operate", "fail"}, 3, FALSE)}
============================================================================
