------------------------------ MODULE Desktop ------------------------------
(***************************************************************************)
(* The two parts of the desktop application that keep state of their own:  *)
(* its tabs, and its local daemon.  They have no variable in common, and a *)
(* login, a logout or a relaunch reaches each of them on its own, so one   *)
(* configuration checks them side by side: a behaviour is about one of     *)
(* them, and the other stays as it began.                                  *)
(***************************************************************************)
EXTENDS TabStore, DaemonManager

VARIABLE part    \* the part this behaviour is about

desktopVars == <<tabVars, daemonVars, part>>

DesktopInit ==
    /\ part \in {"tabs", "daemon"}
    /\ TabInit /\ DaemonInit
    /\ part = "tabs" => user = None /\ plan = CHOOSE p \in Plans : TRUE
    /\ part = "daemon" => Live(store) = {}

TabsMove == part = "tabs" /\ TabNext /\ UNCHANGED <<daemonVars, part>>

DaemonMoves == part = "daemon" /\ DaemonNext /\ UNCHANGED <<tabVars, part>>

DesktopNext == TabsMove \/ DaemonMoves

DesktopSpec ==
    DesktopInit /\ [][DesktopNext]_desktopVars
    /\ (part = "daemon" => DaemonFairness)

\* Every variable has its type; only a daemon that has not loaded the profile's
\* token works for nobody.
DesktopTypeOK == TabTypeOK /\ DaemonTypeOK
============================================================================
