----------------------------- MODULE WebClient -----------------------------
(***************************************************************************)
(* The web client's caches over one connection: the issue board, a comment *)
(* timeline, the queries of the workspace and the chat window.  The keys   *)
(* of the four are disjoint and so are the events they handle, so one      *)
(* configuration checks them side by side: a behaviour is about one of     *)
(* them, and the others stay as they began.                                *)
(***************************************************************************)
EXTENDS IssueBoard, CommentTimeline, WorkspaceSync, ChatClient

CONSTANT Born    \* bound: the sets of comments there may be at first

VARIABLE part    \* the part this behaviour is about

webVars == <<socketVars, boardVars, timelineVars, workspaceVars, chatVars, part>>

\* One of the initial states of a part stands for it in the other behaviours.
WebInit ==
    /\ part \in {"board", "timeline", "workspace", "chat"}
    /\ SocketInit
    /\ BoardInit
    /\ born \in Born /\ TimelineInit
    /\ WorkspaceInit
    /\ ChatInit
    /\ current = CHOOSE w \in Workspaces : TRUE    \* the workspaces are alike
    /\ part # "board" => /\ serverIssue = CHOOSE s \in Starts : TRUE
                         /\ page = OnBoard
    /\ part # "timeline" => born = {} /\ hookFirst
    /\ part # "workspace" => view = CHOOSE v \in Views : TRUE
    /\ part # "chat" => /\ active = None
                        /\ scenario = CHOOSE s \in Scenarios : TRUE

BoardMoves ==
    /\ part = "board" /\ BoardNext
    /\ UNCHANGED <<timelineVars, workspaceVars, chatVars, part>>

TimelineMoves ==
    /\ part = "timeline" /\ TimelineNext
    /\ UNCHANGED <<boardVars, workspaceVars, chatVars, part>>

WorkspaceMoves ==
    /\ part = "workspace" /\ WorkspaceNext
    /\ UNCHANGED <<boardVars, timelineVars, chatVars, part>>

ChatMoves ==
    /\ part = "chat" /\ ChatNext
    /\ UNCHANGED <<boardVars, timelineVars, workspaceVars, part>>

WebNext == BoardMoves \/ TimelineMoves \/ WorkspaceMoves \/ ChatMoves

WebSpec == WebInit /\ [][WebNext]_webVars

\* Every variable of the four parts holds a value of its kind.
WebTypeOK == BoardTypeOK /\ TimelineTypeOK /\ WorkspaceTypeOK /\ ChatTypeOK
============================================================================
