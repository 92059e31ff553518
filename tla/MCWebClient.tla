---------------------------- MODULE MCWebClient ----------------------------
EXTENDS WebClient

CONSTANTS r1, root, reply, w1, w2, s1, s2

MCBoard == <<"todo", "done">>

MCStarts == {<<"todo", "done">>, <<"done", "unborn">>}

MCParentOf == [c \in Comments |-> IF c = root THEN None ELSE root]

MCBorn == {{}, {root}, {root, reply}}

Scenario(moves, follows) == [moves |-> moves, follows |-> follows]

MCScenarios ==
    {Scenario({"send", "stop", "cancel elsewhere"}, {"pending"}),
     Scenario({"send", "fail", "disconnect"}, {"messages"}),
     Scenario({"show", "delete", "upload", "send elsewhere", "fail"}, {"rows"}),
     Scenario({"send elsewhere", "disconnect", "show"}, {"rows"}),
     Scenario({"show", "delete elsewhere", "send elsewhere"}, {"pending", "messages"})}
============================================================================
