--------------------------- MODULE DaemonManager ---------------------------
(***************************************************************************)
(* The desktop application's keeper of the local daemon                    *)
(* (apps/desktop/src/main/daemon-manager.ts): it finds the command line,   *)
(* writes the logged-in user's token where the daemon reads it, starts,    *)
(* stops and restarts the daemon through the command line, polls its       *)
(* health, and replaces a daemon of an older version once it is idle.      *)
(*                                                                         *)
(* The daemon, and the `daemon start` and `daemon stop` commands, are      *)
(* other programs of the repository, here as this one meets them.  A call  *)
(* in flight is the list of the steps it still has, cut where it awaits;   *)
(* a read of local files is one step, and so is a health check with the    *)
(* decision taken on it.                                                   *)
(***************************************************************************)
EXTENDS Integers, SequencesExt

CONSTANTS Users,      \* who may log in
          None,     \* no user, no token, no process, no call
          Plans,      \* bound: the moves a behaviour is about (what users, agents
                      \* and failures do) and how many, who may be logged in at
                      \* first, and whether an old daemon may be there
          MaxCalls    \* bound: calls in flight at once

ASSUME UsersAssumption == None \notin Users
ASSUME PlansAssumption ==
    \A p \in Plans : p.user \in Users /\ p.old \in BOOLEAN /\ p.most \in Nat
ASSUME CallsAssumption == MaxCalls \in Nat \ {0}

VARIABLES daemon,     \* the daemon's process
          config,     \* the profile: its token, and whose desktop wrote it
          user,       \* who is logged in
          manager,    \* the module's own variables
          calls,      \* calls in flight, in the order they began
          poll,       \* the health a poll has seen and not stored yet
          moves,      \* bound
          plan,       \* bound
          reasons     \* history: why the daemon may be someone else's

daemonVars == <<daemon, config, user, manager, calls, poll, moves, plan, reasons>>

\* Only one that has not loaded the token yet is nobody's.
Process == [phase : {"booting"}, version : {"new"}, user : {None}, tasks : {0}]
           \cup [phase : {"loading", "running", "closing"},
                 version : {"old", "new"}, user : Users, tasks : 0..1]

Steps == {"read", "write", "own", "switch", "autoStart", "clear", "disown",
          "guard", "stop", "stopped", "start", "spawn", "spawned", "version"}

Call == [does : Seq(Steps), as : Users \cup {None}, token : Users \cup {None},
         owner : Users \cup {None}, guarded : BOOLEAN, idle : BOOLEAN]

States == {"installing_cli", "cli_not_found", "stopped", "starting", "running",
           "stopping"}

DaemonTypeOK ==
    /\ daemon \in Process \cup {None}
    /\ config \in [token : Users \cup {None}, owner : Users \cup {None}]
    /\ user \in Users \cup {None}
    /\ manager \in [currentState : States, operationInProgress : BOOLEAN,
                    pendingVersionRestart : BOOLEAN,
                    bin : {"unresolved", "missing", "found"}, polling : BOOLEAN]
    /\ calls \in Seq(Call) /\ Len(calls) <= MaxCalls
    /\ poll \in BOOLEAN \cup {None}
    /\ moves \in 0..plan.most
    /\ plan \in Plans
    /\ reasons \subseteq {"crossed", "unowned", "unswitched", "failed", "interrupted"}

LoginSteps == <<"read", "write", "own", "switch", "autoStart">>

LogoutSteps == <<"clear", "disown", "guard", "stopped">>

StartDaemon == <<"start", "spawn", "spawned">>

StopDaemon == <<"stop", "stopped">>

RestartDaemon == StopDaemon \o StartDaemon

NewCall(steps, u) ==
    [does |-> steps, as |-> u, token |-> None, owner |-> None,
     guarded |-> FALSE, idle |-> FALSE]

NewManager ==
    [currentState |-> "installing_cli", operationInProgress |-> FALSE,
     pendingVersionRestart |-> FALSE, bin |-> "unresolved", polling |-> FALSE]

\* On a fresh machine, or on one where an application was left with a user
\* logged in and perhaps its daemon at work.
DaemonInit ==
    /\ plan \in Plans
    /\ \/ user = None /\ config = [token |-> None, owner |-> None]
          /\ daemon = None /\ calls = <<>>
       \/ \E tasks \in IF plan.old THEN 0..1 ELSE {0} :
             /\ user = plan.user /\ config = [token |-> user, owner |-> user]
             /\ daemon \in {None, [phase |-> "running", user |-> user, tasks |-> tasks,
                                     version |-> IF plan.old THEN "old" ELSE "new"]}
             /\ calls = <<NewCall(LoginSteps, user)>>
    /\ manager = NewManager
    /\ poll = None /\ moves = 0 /\ reasons = {}

-----------------------------------------------------------------------------
\* The daemon answers /health as running until its process is gone.
Healthy == daemon # None /\ daemon.phase \in {"running", "closing"}

Move(kind) ==
    /\ kind \in plan.moves /\ moves < plan.most
    /\ moves' = moves + 1 /\ UNCHANGED plan

\* The first reason that holds for good is kept, and none after it.
Because(why) ==
    reasons' = IF reasons \subseteq {"interrupted"} THEN reasons \cup why ELSE reasons

Room == Len(calls) < MaxCalls

Busy == calls # <<>> \/ (daemon # None /\ daemon.phase # "running")

Crossing == IF Busy THEN {"crossed"} ELSE {}

AtStep(n, step) == Head(calls[n].does) = step

Rest(call) == [call EXCEPT !.does = Tail(@)]

Proceeds(n) == calls' = [calls EXCEPT ![n] = Rest(@)]

Ends(n) == calls' = RemoveAt(calls, n)

\* withGuard's finally, when the call ends.
Released(m, call) ==
    [m EXCEPT !.operationInProgress = @ /\ ~ call.guarded]

-----------------------------------------------------------------------------
\* The profile's token.

\* syncToken: what the profile holds now.
ReadProfile(n) ==
    /\ AtStep(n, "read")
    /\ calls' = [calls EXCEPT ![n] =
           [Rest(@) EXCEPT !.token = config.token, !.owner = config.owner]]
    /\ Because(IF Healthy /\ config.owner = None THEN {"unowned"} ELSE {})
    /\ UNCHANGED <<daemon, config, user, manager, poll, moves, plan>>

\* The same user's cached token is used again; otherwise mintPat gets another,
\* and without one the login effect goes no further.
Cached(call) == call.owner = call.as /\ call.token # None

MintFails(n) ==
    /\ AtStep(n, "write") /\ ~ Cached(calls[n]) /\ Move("fail")
    /\ Ends(n)
    /\ Because({"failed"})
    /\ UNCHANGED <<daemon, config, user, manager, poll>>

\* config.json, then the sidecar with the user's id.
WriteToken(n) ==
    /\ AtStep(n, "write")
    /\ config' = [config EXCEPT !.token = IF Cached(calls[n]) THEN calls[n].token
                                          ELSE calls[n].as]
    /\ Proceeds(n)
    /\ UNCHANGED <<daemon, user, manager, poll, moves, plan, reasons>>

WriteOwner(n) ==
    /\ AtStep(n, "own")
    /\ config' = [config EXCEPT !.owner = calls[n].as]
    /\ Proceeds(n)
    /\ UNCHANGED <<daemon, user, manager, poll, moves, plan, reasons>>

\* Variant of UserChanged: the running daemon is left as it is.
UserNeverChanged(call) == FALSE

\* A running daemon is restarted if the profile was another user's: a call of
\* its own, outside the guard, that nothing waits for.
UserChanged(call) == call.owner # None /\ call.owner # call.as

SwitchUser(n) ==
    /\ AtStep(n, "switch")
    /\ LET went == [calls EXCEPT ![n] = NewCall(<<"autoStart">>, None)]
       IN  IF UserChanged(calls[n]) /\ Healthy
           THEN Room /\ calls' = Append(went, NewCall(RestartDaemon, None))
           ELSE calls' = went
    /\ UNCHANGED <<daemon, config, user, manager, poll, moves, plan, reasons>>

\* clearToken: the token, then the sidecar.
ClearToken(n) ==
    /\ AtStep(n, "clear")
    /\ config' = [config EXCEPT !.token = None]
    /\ Proceeds(n)
    /\ UNCHANGED <<daemon, user, manager, poll, moves, plan, reasons>>

RemoveOwner(n) ==
    /\ AtStep(n, "disown")
    /\ config' = [config EXCEPT !.owner = None]
    /\ Proceeds(n)
    /\ UNCHANGED <<daemon, user, manager, poll, moves, plan, reasons>>

-----------------------------------------------------------------------------
\* Starting and stopping.

\* A guarded stopDaemon, as the logout asks for it: refused while another
\* operation runs, and without the command line.
Guard(n) ==
    /\ AtStep(n, "guard") /\ manager.bin # "unresolved"
    /\ IF manager.operationInProgress \/ manager.bin = "missing"
       THEN /\ Ends(n)
            /\ UNCHANGED manager
       ELSE /\ calls' = [calls EXCEPT ![n] =
                   [Rest(@) EXCEPT !.guarded = TRUE]]
            /\ manager' = [manager EXCEPT !.operationInProgress = TRUE,
                                          !.currentState = "stopping"]
    /\ Because(IF manager.bin = "missing" THEN {"failed"} ELSE {})
    /\ UNCHANGED <<daemon, config, user, poll, moves, plan>>

\* The command line is awaited; without it the operation fails.
NoBinary(n) ==
    /\ AtStep(n, "stop") \/ AtStep(n, "start") \/ AtStep(n, "autoStart")
    /\ manager.bin = "missing"
    /\ Ends(n)
    /\ manager' = Released(manager, calls[n])
    /\ Because({"failed"})
    /\ UNCHANGED <<daemon, config, user, poll, moves, plan>>

\* stopDaemon, up to the command.
BeginStop(n) ==
    /\ AtStep(n, "stop") /\ manager.bin = "found"
    /\ manager' = [manager EXCEPT !.currentState = "stopping"]
    /\ Proceeds(n)
    /\ UNCHANGED <<daemon, config, user, poll, moves, plan, reasons>>

\* `daemon stop` has returned.  A daemon that does not answer yet is taken for
\* none; one that answers is gone, or is left to finish closing.
Stopped(n) ==
    /\ AtStep(n, "stopped")
    /\ IF Healthy THEN daemon' \in {None, [daemon EXCEPT !.phase = "closing"]}
       ELSE UNCHANGED daemon
    /\ LET stopped == [manager EXCEPT !.currentState = "stopped"]
       IN  IF Len(calls[n].does) > 1
           THEN Proceeds(n) /\ manager' = stopped
           ELSE Ends(n) /\ manager' = Released(stopped, calls[n])
    /\ UNCHANGED <<config, user, poll, moves, plan, reasons>>

\* The command failed or took too long: shown as stopped all the same, and a
\* restart goes no further.
StopFails(n) ==
    /\ AtStep(n, "stopped") /\ Move("fail")
    /\ Ends(n)
    /\ manager' = Released([manager EXCEPT !.currentState = "stopped"],
                           calls[n])
    /\ Because({"failed"})
    /\ UNCHANGED <<daemon, config, user, poll>>

\* pollOnce, not awaited: one poll at a time is kept.
Polled == IF poll = None THEN Healthy ELSE poll

\* startDaemon, up to the command.
BeginStart(n) ==
    /\ AtStep(n, "start") /\ manager.bin = "found"
    /\ IF Healthy
       THEN /\ Ends(n)
            /\ manager' = Released(manager, calls[n])
            /\ poll' = Polled
       ELSE /\ Proceeds(n)
            /\ manager' = [manager EXCEPT !.currentState = "starting"]
            /\ UNCHANGED poll
    /\ UNCHANGED <<daemon, config, user, moves, plan, reasons>>

\* `daemon start` has made a process, unless one holds the port already.
Spawn(n) ==
    /\ AtStep(n, "spawn") /\ ~ Healthy
    /\ daemon' = IF daemon # None THEN daemon
                 ELSE [phase |-> "booting", version |-> "new", user |-> None,
                       tasks |-> 0]
    /\ Proceeds(n)
    /\ UNCHANGED <<config, user, manager, poll, moves, plan, reasons>>

\* `daemon start` finds a daemon running.
AlreadyRunning(n) ==
    /\ AtStep(n, "spawn") /\ Healthy
    /\ Ends(n)
    /\ manager' = Released([manager EXCEPT !.currentState = "stopped"],
                           calls[n])
    /\ UNCHANGED <<daemon, config, user, poll, moves, plan, reasons>>

\* It returns when the daemon answers, or after fifteen seconds anyway.
Spawned(n) ==
    /\ AtStep(n, "spawned")
    /\ Ends(n)
    /\ manager' = Released(manager, calls[n])
    /\ poll' = Polled
    /\ UNCHANGED <<daemon, config, user, moves, plan, reasons>>

\* decideVersionAction over a new look at the daemon's health: a daemon of
\* another version is restarted if it is idle, or else later.
Mismatch == Healthy /\ daemon.version # "new" /\ manager.bin = "found"

\* Variant of Deferred: the daemon's load is not asked for.
NeverDeferred == FALSE

Deferred == Mismatch /\ daemon.tasks > 0

CheckVersion(n) ==
    /\ AtStep(n, "version") /\ manager.bin # "unresolved"
    /\ manager' = [manager EXCEPT !.pendingVersionRestart = Deferred]
    /\ IF Mismatch /\ ~ Deferred
       THEN calls' = [calls EXCEPT ![n] =
                         [@ EXCEPT !.does = RestartDaemon, !.idle = TRUE]]
       ELSE Ends(n)
    /\ UNCHANGED <<daemon, config, user, poll, moves, plan, reasons>>

\* daemon:auto-start: check the version of a daemon that runs, start one
\* otherwise.  Until the command line is there, fetchHealth does not look.
AutoStart(n) ==
    /\ AtStep(n, "autoStart") /\ manager.bin = "found"
    /\ calls' = [calls EXCEPT ![n].does =
           IF Healthy /\ manager.currentState \notin {"installing_cli", "cli_not_found"}
           THEN <<"version">> ELSE StartDaemon]
    /\ UNCHANGED <<daemon, config, user, manager, poll, moves, plan, reasons>>

-----------------------------------------------------------------------------
\* The command line, and the polls.

\* bootstrapCli, at launch and after daemon:retry-install.
BootstrapCli(found) ==
    /\ manager.bin = "unresolved"
    /\ IF found
       THEN /\ manager' = [manager EXCEPT !.bin = "found", !.polling = TRUE,
                                          !.currentState = "stopped"]
            /\ poll' = IF manager.polling THEN poll ELSE Polled
            /\ UNCHANGED <<moves, plan>>
       ELSE /\ Move("fail")
            /\ manager' = [manager EXCEPT !.bin = "missing",
                                          !.currentState = "cli_not_found"]
            /\ UNCHANGED poll
    /\ UNCHANGED <<daemon, config, user, calls, reasons>>

RetryInstall ==
    /\ manager.bin = "missing" /\ Move("fail")
    /\ manager' = [manager EXCEPT !.bin = "unresolved"]
    /\ UNCHANGED <<daemon, config, user, calls, poll, reasons>>

\* The timer: pollOnce asks for the daemon's health.
Poll ==
    /\ manager.polling /\ poll = None
    /\ manager.currentState \notin {"installing_cli", "cli_not_found"}
    /\ poll' = Healthy
    /\ UNCHANGED <<daemon, config, user, manager, calls, moves, plan, reasons>>

\* Variant of StatusSeen: "starting" is kept whatever the answer.
StartingSeen(healthy) ==
    IF manager.currentState = "starting" THEN "starting"
    ELSE IF healthy THEN "running" ELSE "stopped"

\* The answer becomes the state, except that "starting" stays while the daemon
\* does not answer; a restart that was put off is tried again.
StatusSeen(healthy) ==
    IF healthy THEN "running"
    ELSE IF manager.currentState = "starting" THEN "starting" ELSE "stopped"

\* Variant of StoreStatus: a restart that was put off is not tried again.
StoreStatusOnly ==
    /\ poll # None /\ poll' = None
    /\ manager' = [manager EXCEPT !.currentState = StatusSeen(poll)]
    /\ UNCHANGED <<calls, reasons, daemon, config, user, moves, plan>>

StoreStatus ==
    /\ poll # None /\ poll' = None
    /\ manager' = [manager EXCEPT !.currentState = StatusSeen(poll)]
    /\ IF manager.pendingVersionRestart /\ poll
       THEN /\ Room /\ calls' = Append(calls, NewCall(<<"version">>, None))
            /\ Because(Crossing)
       ELSE UNCHANGED <<calls, reasons>>
    /\ UNCHANGED <<daemon, config, user, moves, plan>>

-----------------------------------------------------------------------------
\* What users do, and the daemon.

Begin(call, kind) ==
    /\ Room /\ Move(kind)
    /\ calls' = Append(calls, call)

\* App.tsx: the effect of a login; handleDaemonLogout.
LogIn(u) ==
    /\ user = None /\ user' = u
    /\ Begin(NewCall(LoginSteps, u), "login")
    /\ IF Busy THEN Because({"crossed"}) ELSE reasons' = reasons \ {"interrupted"}
    /\ UNCHANGED <<daemon, config, manager, poll>>

LogOut ==
    /\ user # None /\ user' = None
    /\ Begin(NewCall(LogoutSteps, None), "logout")
    /\ Because(Crossing)
    /\ UNCHANGED <<daemon, config, manager, poll>>

\* The buttons, and the restart for a first workspace: guarded calls.
Operate(steps) ==
    /\ user # None /\ ~ manager.operationInProgress
    /\ Begin([NewCall(steps, None) EXCEPT !.guarded = TRUE], "operate")
    /\ Because(Crossing)
    /\ manager' = [manager EXCEPT !.operationInProgress = TRUE]
    /\ UNCHANGED <<daemon, config, user, poll>>

\* What the end of the application cuts short: a logout, or a login that made
\* the profile the user's and has not stopped the other user's daemon.
CutShort ==
    IF user = None THEN IF calls = <<>> THEN {} ELSE {"interrupted"}
    ELSE IF /\ config.owner = user
            /\ daemon # None /\ daemon.phase = "running" /\ daemon.user # user
         THEN {"unswitched"} ELSE {}

\* The application quits and is launched again.  With autoStop the quit asks
\* for a stop that may or may not come through before the process is gone.
Relaunch ==
    /\ Move("quit")
    /\ daemon' \in {daemon, None}
    /\ calls' = IF user = None THEN <<>> ELSE <<NewCall(LoginSteps, user)>>
    /\ manager' = NewManager /\ poll' = None
    /\ Because(CutShort)
    /\ UNCHANGED <<config, user>>

\* Variant of Boot: without looking whether there is a token.
BootBlindly ==
    /\ daemon # None /\ daemon.phase = "booting"
    /\ daemon' = [daemon EXCEPT !.phase = "loading", !.user = config.token]
    /\ UNCHANGED <<config, user, manager, calls, poll, moves, plan, reasons>>

\* A daemon that boots loads the token, and without one exits; then it fetches
\* its workspaces, and then it answers.
Boot ==
    /\ daemon # None /\ daemon.phase = "booting"
    /\ daemon' = IF config.token = None THEN None
                 ELSE [daemon EXCEPT !.phase = "loading", !.user = config.token]
    /\ UNCHANGED <<config, user, manager, calls, poll, moves, plan, reasons>>

Serve ==
    /\ daemon # None /\ daemon.phase = "loading"
    /\ daemon' = [daemon EXCEPT !.phase = "running"]
    /\ UNCHANGED <<config, user, manager, calls, poll, moves, plan, reasons>>

Exit ==
    /\ daemon # None /\ daemon.phase = "closing"
    /\ daemon' = None
    /\ UNCHANGED <<config, user, manager, calls, poll, moves, plan, reasons>>

\* A task is claimed: whoever looked at the daemon's load before is out of date.
TaskStarts ==
    /\ daemon # None /\ daemon.phase = "running" /\ daemon.tasks = 0
    /\ Move("task")
    /\ daemon' = [daemon EXCEPT !.tasks = 1]
    /\ calls' = [n \in DOMAIN calls |-> [calls[n] EXCEPT !.idle = FALSE]]
    /\ UNCHANGED <<config, user, manager, poll, reasons>>

TaskEnds ==
    /\ daemon # None /\ daemon.tasks > 0
    /\ daemon' = [daemon EXCEPT !.tasks = 0]
    /\ UNCHANGED <<config, user, manager, calls, poll, moves, plan, reasons>>

CallStep ==
    \E n \in DOMAIN calls :
        \/ ReadProfile(n) \/ WriteToken(n) \/ WriteOwner(n)
        \/ SwitchUser(n) \/ ClearToken(n) \/ RemoveOwner(n)
        \/ Guard(n) \/ NoBinary(n) \/ BeginStop(n) \/ Stopped(n)
        \/ BeginStart(n) \/ Spawn(n) \/ AlreadyRunning(n) \/ Spawned(n)
        \/ CheckVersion(n) \/ AutoStart(n)

Failure == \E n \in DOMAIN calls : MintFails(n) \/ StopFails(n)

DaemonStep == Boot \/ Serve \/ Exit \/ TaskEnds

DaemonNext ==
    \/ CallStep \/ Failure
    \/ \E found \in BOOLEAN : BootstrapCli(found)
    \/ RetryInstall \/ Poll \/ StoreStatus
    \/ \E u \in Users : LogIn(u)
    \/ LogOut
    \/ \E steps \in {StartDaemon, StopDaemon, RestartDaemon} : Operate(steps)
    \/ Relaunch \/ DaemonStep \/ TaskStarts

DaemonSpec == DaemonInit /\ [][DaemonNext]_daemonVars

\* The application's own steps and timers, and what a process started does.
DaemonFairness ==
    /\ WF_daemonVars(CallStep) /\ WF_daemonVars(DaemonStep)
    /\ WF_daemonVars(BootstrapCli(TRUE) \/ BootstrapCli(FALSE))
    /\ WF_daemonVars(Poll) /\ WF_daemonVars(StoreStatus)

-----------------------------------------------------------------------------
\* Nothing under way, in the application or in the daemon.
DaemonAtRest == calls = <<>> /\ (daemon # None => daemon.phase = "running")

\* A daemon that runs works for the user who is logged in, and none runs when
\* nobody is: a login restarts the daemon of another user's profile, a logout
\* stops it (syncToken, clearToken and handleDaemonLogout, which say that no
\* session may use another's credentials).  Except after a login or a logout
\* that began while another call was under way, a login that met a daemon on a
\* profile without an owner, a login cut short by the end of the application
\* between the profile and the restart, a command or a token that failed, or,
\* until the next login, a logout cut short.
DaemonOfUser ==
    DaemonAtRest /\ daemon # None /\ daemon.user # user =>
        \/ reasons \cap {"crossed", "unowned", "unswitched", "failed"} # {}
        \/ user = None /\ "interrupted" \in reasons

\* A restart for the sake of the version stops a daemon with a task only if the
\* task was claimed after the look at its load that decided the restart
\* (ensureRunningDaemonVersionMatches: "no in-flight agent work would be
\* killed").
RestartsIdle ==
    \A n \in DOMAIN calls :
        AtStep(n, "stopped") /\ calls[n].idle /\ Healthy => daemon.tasks = 0

\* Whatever overlapping operations and late polls leave in currentState, the
\* status shown ends up being the daemon's.
StatusSettles ==
    <>[](manager.bin = "found" => (manager.currentState = "running" <=> Healthy))

\* A restart put off because the daemon was at work is not forgotten: a poll
\* takes it up, unless the daemon goes first.
UpgradeGoesOn ==
    manager.pendingVersionRestart ~> ~ manager.pendingVersionRestart \/ ~ Healthy

-----------------------------------------------------------------------------
(***************************************************************************)
(* The inductive invariant behind DaemonOfUser and RestartsIdle.           *)
(***************************************************************************)
\* What a login, a logout and every other call may still have to do.
LoginLeft == {LoginSteps, <<"write", "own", "switch", "autoStart">>,
              <<"own", "switch", "autoStart">>, <<"switch", "autoStart">>}

LogoutLeft == {LogoutSteps, <<"disown", "guard", "stopped">>, <<"guard", "stopped">>}

WorkLeft == {<<"autoStart">>, <<"version">>,
             RestartDaemon, <<"stopped", "start", "spawn", "spawned">>, StartDaemon,
             <<"spawn", "spawned">>, <<"spawned">>, StopDaemon, <<"stopped">>}

CallsShaped ==
    \A n \in DOMAIN calls : calls[n].does \in LoginLeft \cup LogoutLeft \cup WorkLeft

\* The guard is held by a call, and by none that does not stop or start.
GuardHeld ==
    /\ manager.operationInProgress => \E n \in DOMAIN calls : calls[n].guarded
    /\ \A n \in DOMAIN calls :
          calls[n].guarded =>
              Head(calls[n].does) \in {"stop", "stopped", "start", "spawn", "spawned"}

\* Nobody claimed a task since the load was looked at.
IdleSeen == \A n \in DOMAIN calls : calls[n].idle => daemon = None \/ daemon.tasks = 0

\* The daemon has loaded a token, and is not on its way out.
Loaded == daemon # None /\ daemon.phase \in {"loading", "running"}

LoggingIn == Len(calls) = 1 /\ calls[1].does \in LoginLeft

LoggingOut == Len(calls) = 1 /\ calls[1].does \in LogoutLeft

Working == \A n \in DOMAIN calls : calls[n].does \in WorkLeft

\* The daemon of the profile's former user still runs, and something will stop it.
Switching ==
    /\ daemon.phase = "running"
    /\ \/ LoggingIn /\ AtStep(1, "switch") /\ calls[1].owner = daemon.user
       \/ \E n \in DOMAIN calls : AtStep(n, "stop") \/ AtStep(n, "stopped")

\* Somebody is logged in: the profile is theirs, or will be when the login is
\* through, and the daemon is the profile's.
ServesUser ==
    /\ IF LoggingIn
       THEN /\ calls[1].as = user
            /\ AtStep(1, "write") => calls[1].token = config.token
            /\ AtStep(1, "write") \/ AtStep(1, "own") => calls[1].owner = config.owner
            /\ AtStep(1, "own") => config.token = user
            /\ AtStep(1, "switch") => config.token = user /\ config.owner = user
       ELSE Working /\ config.token = user /\ config.owner = user
    /\ config.token \in {None, user, config.owner}
    /\ config.owner # user => daemon = None \/ daemon.phase \in {"running", "closing"}
    /\ config.owner = None /\ Loaded => AtStep(1, "read")
    /\ config.owner # None /\ Loaded => daemon.user = config.owner \/ Switching

\* Nobody is: the profile is empty and no daemon is at work, or the logout will
\* see to it.
ServesNobody ==
    IF LoggingOut
    THEN /\ ~ manager.operationInProgress
         /\ daemon = None \/ daemon.phase \in {"running", "closing"}
         /\ config.owner # None /\ Loaded => daemon.user = config.owner
         /\ config.token \in {None, config.owner}
         /\ ~ AtStep(1, "clear") => config.token = None
         /\ AtStep(1, "guard") => config.owner = None
    ELSE /\ config.token = None /\ config.owner = None
         /\ \/ /\ Len(calls) = 1 /\ calls[1].does = <<"stopped">>
               /\ daemon = None \/ daemon.phase \in {"running", "closing"}
            \/ calls = <<>> /\ (daemon = None \/ daemon.phase = "closing")
            \/ Len(calls) = 1 /\ calls[1].does = <<"version">> /\ daemon = None

\* A logout was cut short: whoever the profile is of, the daemon is theirs.
ServesProfile ==
    /\ user = None /\ Working
    /\ config.token \in {None, config.owner}
    /\ config.owner # None /\ Loaded => daemon.user = config.owner

DaemonInv ==
    /\ DaemonTypeOK
    /\ CallsShaped
    /\ GuardHeld
    /\ IdleSeen
    /\ reasons = {} => IF user = None THEN ServesNobody ELSE ServesUser
    /\ reasons = {"interrupted"} => ServesProfile
===========================================================================
