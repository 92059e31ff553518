--------------------------- MODULE DesktopProofs ---------------------------
(***************************************************************************)
(* Theorems about DaemonManager, for any users, plans and number of calls, *)
(* and about the two parts of the desktop application side by side.        *)
(***************************************************************************)
EXTENDS Desktop, TabStoreProofs

-----------------------------------------------------------------------------
(***************************************************************************)
(* Calls in flight, as a sequence.                                         *)
(***************************************************************************)
\* What is left of a sequence without its n-th element.
LEMMA RemoveAtProperties ==
  ASSUME NEW S, NEW s \in Seq(S), NEW n \in 1..Len(s)
  PROVE  /\ RemoveAt(s, n) \in Seq(S)
         /\ Len(RemoveAt(s, n)) = Len(s) - 1
         /\ \A m \in 1..Len(s) - 1 :
              RemoveAt(s, n)[m] = IF m < n THEN s[m] ELSE s[m + 1]
<1> DEFINE before == SubSeq(s, 1, n - 1)
           after == SubSeq(s, n + 1, Len(s))
<1>0. Len(s) \in Nat /\ n \in Nat /\ n >= 1 /\ n <= Len(s)
  BY LenProperties
<1>1. before \in Seq(S) /\ Len(before) = n - 1 /\ \A m \in 1..n - 1 : before[m] = s[m]
  <2>1. \A i \in 1..n - 1 : s[i] \in S
    BY <1>0, ElementOfSeq
  <2> QED
    BY <1>0, <2>1, SubSeqProperties
<1>2. /\ after \in Seq(S) /\ Len(after) = Len(s) - n
      /\ \A m \in 1..Len(s) - n : after[m] = s[m + n]
  <2>1. \A i \in n + 1..Len(s) : s[i] \in S
    BY <1>0, ElementOfSeq
  <2> QED
    BY <1>0, <2>1, SubSeqProperties
<1> HIDE DEF before, after
<1>3. /\ before \o after \in Seq(S)
      /\ Len(before \o after) = Len(s) - 1
      /\ \A m \in 1..Len(s) - 1 :
           (before \o after)[m] = IF m <= n - 1 THEN before[m] ELSE after[m - (n - 1)]
  <2>1. /\ before \o after \in Seq(S)
        /\ Len(before \o after) = Len(before) + Len(after)
        /\ \A i \in 1..Len(before) + Len(after) :
             (before \o after)[i] = IF i <= Len(before) THEN before[i]
                                    ELSE after[i - Len(before)]
    BY <1>1, <1>2, ConcatProperties
  <2>2. Len(before) + Len(after) = Len(s) - 1
    BY <1>0, <1>1, <1>2
  <2> QED
    BY <1>1, <2>1, <2>2
<1>4. \A m \in 1..Len(s) - 1 : (before \o after)[m] = IF m < n THEN s[m] ELSE s[m + 1]
  <2> SUFFICES ASSUME NEW m \in 1..Len(s) - 1
               PROVE  (before \o after)[m] = IF m < n THEN s[m] ELSE s[m + 1]
    OBVIOUS
  <2>1. CASE m < n
    BY <1>0, <1>1, <1>3, <2>1
  <2>2. CASE ~(m < n)
    <3>1. m - (n - 1) \in 1..Len(s) - n /\ m - (n - 1) + n = m + 1
      BY <1>0, <2>2
    <3> QED
      BY <1>0, <1>1, <1>2, <1>3, <2>2, <3>1
  <2> QED
    BY <2>1, <2>2
<1> QED
  BY <1>3, <1>4 DEF RemoveAt, before, after

AllLeft == LoginLeft \cup LogoutLeft \cup WorkLeft

LEMMA RestartInFull == RestartDaemon = <<"stop", "stopped", "start", "spawn", "spawned">>
<1> DEFINE full == <<"stop", "stopped", "start", "spawn", "spawned">>
<1>1. /\ StopDaemon \in Seq(Steps) /\ Len(StopDaemon) = 2
      /\ StopDaemon[1] = "stop" /\ StopDaemon[2] = "stopped"
  BY DEF StopDaemon, Steps
<1>2. /\ StartDaemon \in Seq(Steps) /\ Len(StartDaemon) = 3
      /\ StartDaemon[1] = "start" /\ StartDaemon[2] = "spawn" /\ StartDaemon[3] = "spawned"
  BY DEF StartDaemon, Steps
<1>3. /\ RestartDaemon \in Seq(Steps) /\ Len(RestartDaemon) = 5
      /\ \A i \in 1..5 : RestartDaemon[i] = IF i <= 2 THEN StopDaemon[i] ELSE StartDaemon[i - 2]
  <2>1. /\ RestartDaemon \in Seq(Steps)
        /\ Len(RestartDaemon) = Len(StopDaemon) + Len(StartDaemon)
        /\ \A i \in 1..Len(StopDaemon) + Len(StartDaemon) :
             RestartDaemon[i] = IF i <= Len(StopDaemon) THEN StopDaemon[i]
                                ELSE StartDaemon[i - Len(StopDaemon)]
    BY <1>1, <1>2, ConcatProperties DEF RestartDaemon
  <2> QED
    BY <1>1, <1>2, <2>1
<1>4. /\ full \in Seq(Steps) /\ Len(full) = 5
      /\ full[1] = "stop" /\ full[2] = "stopped" /\ full[3] = "start"
      /\ full[4] = "spawn" /\ full[5] = "spawned"
  BY DEF Steps
<1> HIDE DEF full
<1>5. ASSUME NEW i \in 1..5
      PROVE  RestartDaemon[i] = full[i]
  <2>1. i = 1 \/ i = 2 \/ i = 3 \/ i = 4 \/ i = 5
    OBVIOUS
  <2> QED
    BY <1>1, <1>2, <1>3, <1>4, <2>1
<1>6. RestartDaemon = full
  BY <1>3, <1>4, <1>5, SeqEqual
<1> QED
  BY <1>6 DEF full

\* Where each call stands: by the step it is at, what it may still have to do after it.
LEMMA LeftSteps ==
  ASSUME NEW s \in AllLeft
  PROVE  /\ s \in Seq(Steps) /\ s # <<>>
         /\ s \in LoginLeft <=> Head(s) \in {"read", "write", "own", "switch"}
         /\ s \in LogoutLeft <=> Head(s) \in {"clear", "disown", "guard"}
         /\ s \in WorkLeft <=> Head(s) \in {"autoStart", "version", "stop", "stopped",
                                            "start", "spawn", "spawned"}
         /\ Head(s) = "read" => Tail(s) \in LoginLeft /\ Head(Tail(s)) = "write"
         /\ Head(s) = "write" => Tail(s) \in LoginLeft /\ Head(Tail(s)) = "own"
         /\ Head(s) = "own" => Tail(s) \in LoginLeft /\ Head(Tail(s)) = "switch"
         /\ Head(s) = "clear" => Tail(s) \in LogoutLeft /\ Head(Tail(s)) = "disown"
         /\ Head(s) = "disown" => Tail(s) \in LogoutLeft /\ Head(Tail(s)) = "guard"
         /\ Head(s) = "guard" => Tail(s) = <<"stopped">>
         /\ Head(s) = "stop" => Tail(s) \in WorkLeft /\ Head(Tail(s)) = "stopped"
         /\ Head(s) = "stopped" => 
                \/ s = <<"stopped">> /\ Len(s) = 1
                \/ Len(s) > 1 /\ Tail(s) \in WorkLeft /\ Head(Tail(s)) = "start"
         /\ Head(s) = "start" => Tail(s) \in WorkLeft /\ Head(Tail(s)) = "spawn"
         /\ Head(s) = "spawn" => Tail(s) \in WorkLeft /\ Head(Tail(s)) = "spawned"
         /\ Head(s) = "version" => s = <<"version">>
<1>1. CASE s \in LoginLeft
  <2>1. CASE s = LoginSteps
    BY <2>1 DEF LoginLeft, LogoutLeft, WorkLeft, LoginSteps, LogoutSteps, StartDaemon,
            StopDaemon, RestartDaemon, Steps
  <2>2. CASE s = <<"write", "own", "switch", "autoStart">>
    BY <2>2 DEF LoginLeft, LogoutLeft, WorkLeft, LoginSteps, LogoutSteps, StartDaemon,
            StopDaemon, RestartDaemon, Steps
  <2>3. CASE s = <<"own", "switch", "autoStart">>
    BY <2>3 DEF LoginLeft, LogoutLeft, WorkLeft, LoginSteps, LogoutSteps, StartDaemon,
            StopDaemon, RestartDaemon, Steps
  <2>4. CASE s = <<"switch", "autoStart">>
    BY <2>4 DEF LoginLeft, LogoutLeft, WorkLeft, LoginSteps, LogoutSteps, StartDaemon,
            StopDaemon, RestartDaemon, Steps
  <2> QED
    BY <1>1, <2>1, <2>2, <2>3, <2>4 DEF LoginLeft
<1>2. CASE s \in LogoutLeft
  <2>1. CASE s = LogoutSteps
    BY <2>1 DEF LoginLeft, LogoutLeft, WorkLeft, LoginSteps, LogoutSteps, StartDaemon,
            StopDaemon, RestartDaemon, Steps
  <2>2. CASE s = <<"disown", "guard", "stopped">>
    BY <2>2 DEF LoginLeft, LogoutLeft, WorkLeft, LoginSteps, LogoutSteps, StartDaemon,
            StopDaemon, RestartDaemon, Steps
  <2>3. CASE s = <<"guard", "stopped">>
    BY <2>3 DEF LoginLeft, LogoutLeft, WorkLeft, LoginSteps, LogoutSteps, StartDaemon,
            StopDaemon, RestartDaemon, Steps
  <2> QED
    BY <1>2, <2>1, <2>2, <2>3 DEF LogoutLeft
<1>3. CASE s \in WorkLeft
  <2>1. CASE s = <<"autoStart">>
    BY <2>1 DEF LoginLeft, LogoutLeft, WorkLeft, LoginSteps, LogoutSteps, StartDaemon,
            StopDaemon, RestartDaemon, Steps
  <2>2. CASE s = <<"version">>
    BY <2>2 DEF LoginLeft, LogoutLeft, WorkLeft, LoginSteps, LogoutSteps, StartDaemon,
            StopDaemon, RestartDaemon, Steps
  <2>3. CASE s = RestartDaemon
    BY <2>3, RestartInFull DEF LoginLeft, LogoutLeft, WorkLeft, LoginSteps, LogoutSteps,
            StartDaemon, StopDaemon, Steps
  <2>4. CASE s = <<"stopped", "start", "spawn", "spawned">>
    BY <2>4 DEF LoginLeft, LogoutLeft, WorkLeft, LoginSteps, LogoutSteps, StartDaemon,
            StopDaemon, RestartDaemon, Steps
  <2>5. CASE s = StartDaemon
    BY <2>5 DEF LoginLeft, LogoutLeft, WorkLeft, LoginSteps, LogoutSteps, StartDaemon,
            StopDaemon, RestartDaemon, Steps
  <2>6. CASE s = <<"spawn", "spawned">>
    BY <2>6 DEF LoginLeft, LogoutLeft, WorkLeft, LoginSteps, LogoutSteps, StartDaemon,
            StopDaemon, RestartDaemon, Steps
  <2>7. CASE s = <<"spawned">>
    BY <2>7 DEF LoginLeft, LogoutLeft, WorkLeft, LoginSteps, LogoutSteps, StartDaemon,
            StopDaemon, RestartDaemon, Steps
  <2>8. CASE s = StopDaemon
    BY <2>8 DEF LoginLeft, LogoutLeft, WorkLeft, LoginSteps, LogoutSteps, StartDaemon,
            StopDaemon, RestartDaemon, Steps
  <2>9. CASE s = <<"stopped">>
    BY <2>9 DEF LoginLeft, LogoutLeft, WorkLeft, LoginSteps, LogoutSteps, StartDaemon,
            StopDaemon, RestartDaemon, Steps
  <2> QED
    BY <1>3, <2>1, <2>2, <2>3, <2>4, <2>5, <2>6, <2>7, <2>8, <2>9 DEF WorkLeft
<1> QED
  BY <1>1, <1>2, <1>3 DEF AllLeft

-----------------------------------------------------------------------------
(***************************************************************************)
(* What holds of every call, whatever became of the profile: the part of   *)
(* DaemonInv that no reason excuses.                                       *)
(***************************************************************************)
Operations == {"stop", "stopped", "start", "spawn", "spawned"}

CallOK(c, nowIdle) ==
    /\ c \in Call
    /\ c.does \in AllLeft
    /\ c.guarded => Head(c.does) \in Operations
    /\ c.idle => nowIdle

CallsOK(s, nowIdle) ==
    /\ s \in Seq(Call) /\ Len(s) <= MaxCalls
    /\ \A m \in 1..Len(s) : CallOK(s[m], nowIdle)

SomeGuarded(s) == \E m \in 1..Len(s) : s[m].guarded

NowIdle == daemon = None \/ daemon.tasks = 0

Managers ==
    [currentState : States, operationInProgress : BOOLEAN,
     pendingVersionRestart : BOOLEAN,
     bin : {"unresolved", "missing", "found"}, polling : BOOLEAN]

Reasons == {"crossed", "unowned", "unswitched", "failed", "interrupted"}

\* The type of every variable but the calls.
RestOK ==
    /\ daemon \in Process \cup {None}
    /\ config \in [token : Users \cup {None}, owner : Users \cup {None}]
    /\ user \in Users \cup {None}
    /\ manager \in Managers
    /\ poll \in BOOLEAN \cup {None}
    /\ moves \in 0..plan.most
    /\ plan \in Plans
    /\ reasons \subseteq Reasons

Base ==
    /\ RestOK
    /\ CallsOK(calls, NowIdle)
    /\ manager.operationInProgress => SomeGuarded(calls)

LEMMA BaseIsInv == Base <=> DaemonTypeOK /\ CallsShaped /\ GuardHeld /\ IdleSeen
<1>1. ASSUME calls \in Seq(Call)
      PROVE  DOMAIN calls = 1..Len(calls)
  BY <1>1, LenProperties
<1>2. ASSUME calls \in Seq(Call), NEW m \in 1..Len(calls)
      PROVE  calls[m] \in Call
  BY <1>2, ElementOfSeq
<1> QED
  BY <1>1, <1>2 DEF Base, RestOK, CallsOK, CallOK, NowIdle, SomeGuarded, Operations,
     Managers, Reasons, DaemonTypeOK, CallsShaped, GuardHeld, IdleSeen, AllLeft

\* One call ends.
LEMMA DroppedCall ==
  ASSUME NEW s \in Seq(Call), NEW n \in 1..Len(s)
  PROVE  /\ RemoveAt(s, n) \in Seq(Call)
         /\ Len(RemoveAt(s, n)) = Len(s) - 1
         /\ \A m \in 1..Len(s) - 1 :
              \E k \in 1..Len(s) : k # n /\ RemoveAt(s, n)[m] = s[k]
         /\ \A k \in 1..Len(s) :
              k # n => \E m \in 1..Len(s) - 1 : RemoveAt(s, n)[m] = s[k]
<1>1. Len(s) \in Nat /\ n \in Nat
  BY LenProperties
<1>2. /\ RemoveAt(s, n) \in Seq(Call)
      /\ Len(RemoveAt(s, n)) = Len(s) - 1
      /\ \A m \in 1..Len(s) - 1 :
           RemoveAt(s, n)[m] = IF m < n THEN s[m] ELSE s[m + 1]
  BY <1>1, RemoveAtProperties
<1>3. ASSUME NEW m \in 1..Len(s) - 1
      PROVE  \E k \in 1..Len(s) : k # n /\ RemoveAt(s, n)[m] = s[k]
  <2>1. CASE m < n
    BY <1>1, <1>2, <2>1
  <2>2. CASE ~(m < n)
    <3> WITNESS m + 1 \in 1..Len(s)
    <3> QED
      BY <1>1, <1>2, <2>2
  <2> QED
    BY <2>1, <2>2
<1>4. ASSUME NEW k \in 1..Len(s), k # n
      PROVE  \E m \in 1..Len(s) - 1 : RemoveAt(s, n)[m] = s[k]
  <2>1. CASE k < n
    <3>1. k \in 1..Len(s) - 1
      BY <1>1, <2>1
    <3> QED
      BY <1>2, <2>1, <3>1
  <2>2. CASE k > n
    <3>1. k - 1 \in 1..Len(s) - 1 /\ ~(k - 1 < n) /\ (k - 1) + 1 = k
      BY <1>1, <2>2
    <3> QED
      BY <1>2, <3>1
  <2> QED
    BY <1>1, <1>4, <2>1, <2>2
<1> QED
  BY <1>2, <1>3, <1>4

LEMMA Dropped ==
  ASSUME NEW s, NEW b \in BOOLEAN, CallsOK(s, b), NEW n \in 1..Len(s)
  PROVE  /\ CallsOK(RemoveAt(s, n), b)
         /\ Len(RemoveAt(s, n)) = Len(s) - 1
         /\ \A k \in 1..Len(s) :
              k # n => \E m \in 1..Len(s) - 1 : RemoveAt(s, n)[m] = s[k]
<1>1. s \in Seq(Call) /\ Len(s) \in Nat
  BY LenProperties DEF CallsOK
<1>2. /\ RemoveAt(s, n) \in Seq(Call)
      /\ Len(RemoveAt(s, n)) = Len(s) - 1
      /\ \A m \in 1..Len(s) - 1 :
           \E k \in 1..Len(s) : k # n /\ RemoveAt(s, n)[m] = s[k]
      /\ \A k \in 1..Len(s) :
           k # n => \E m \in 1..Len(s) - 1 : RemoveAt(s, n)[m] = s[k]
  BY <1>1, DroppedCall
<1>3. Len(RemoveAt(s, n)) <= MaxCalls
  BY <1>1, <1>2, CallsAssumption DEF CallsOK
<1>4. \A m \in 1..Len(s) - 1 : CallOK(RemoveAt(s, n)[m], b)
  BY <1>2 DEF CallsOK
<1> QED
  BY <1>2, <1>3, <1>4 DEF CallsOK

\* A call begins when there was none.
LEMMA FirstCall ==
  ASSUME NEW c, NEW b \in BOOLEAN, CallOK(c, b)
  PROVE  /\ CallsOK(<<c>>, b) /\ Len(<<c>>) = 1 /\ <<c>>[1] = c
  BY CallsAssumption DEF CallsOK, CallOK

LEMMA NewCallFacts ==
  ASSUME NEW steps \in AllLeft, NEW u \in Users \cup {None}, NEW b \in BOOLEAN
  PROVE  /\ CallOK(NewCall(steps, u), b)
         /\ NewCall(steps, u).does = steps /\ NewCall(steps, u).as = u
         /\ ~ NewCall(steps, u).guarded /\ ~ NewCall(steps, u).idle
<1>1. steps \in Seq(Steps)
  BY LeftSteps
<1> QED
  BY <1>1 DEF NewCall, CallOK, Call

\* A call has done its step.
LEMMA RestFacts ==
  ASSUME NEW b \in BOOLEAN, NEW c, CallOK(c, b), Tail(c.does) \in AllLeft
  PROVE  /\ Rest(c) \in Call
         /\ Rest(c).does = Tail(c.does) /\ Rest(c).as = c.as
         /\ Rest(c).token = c.token /\ Rest(c).owner = c.owner
         /\ Rest(c).guarded = c.guarded /\ Rest(c).idle = c.idle
         /\ (c.guarded => Head(Tail(c.does)) \in Operations) => CallOK(Rest(c), b)
<1>1. Tail(c.does) \in Seq(Steps)
  BY LeftSteps
<1>2. c \in Call /\ c.idle \in BOOLEAN /\ (c.idle => b)
  BY DEF CallOK, Call
<1>3. /\ Rest(c) \in Call
      /\ Rest(c).does = Tail(c.does) /\ Rest(c).as = c.as
      /\ Rest(c).token = c.token /\ Rest(c).owner = c.owner
      /\ Rest(c).guarded = c.guarded /\ Rest(c).idle = c.idle
  BY <1>1, <1>2 DEF Rest, Call
<1> QED
  BY <1>2, <1>3 DEF CallOK

\* The daemon's process, as it goes through its phases.
LEMMA ProcessFacts ==
  ASSUME NEW d \in Process
  PROVE  /\ d.phase \in {"booting", "loading", "running", "closing"}
         /\ d.tasks \in 0..1
         /\ d.phase = "booting" => d.user = None /\ d.tasks = 0
         /\ d.phase # "booting" => d.user \in Users
  BY DEF Process

LEMMA PhaseFacts ==
  ASSUME NEW d \in Process, d.phase # "booting",
         NEW p \in {"loading", "running", "closing"}
  PROVE  /\ [d EXCEPT !.phase = p] \in Process
         /\ [d EXCEPT !.phase = p].phase = p
         /\ [d EXCEPT !.phase = p].user = d.user
         /\ [d EXCEPT !.phase = p].tasks = d.tasks
<1>0. d \in [phase : {"loading", "running", "closing"}, version : {"old", "new"},
            user : Users, tasks : 0..1]
  BY DEF Process
<1>1. /\ d = [phase |-> d.phase, version |-> d.version, user |-> d.user, tasks |-> d.tasks]
      /\ d.version \in {"old", "new"} /\ d.user \in Users /\ d.tasks \in 0..1
  BY <1>0
<1>2. [d EXCEPT !.phase = p] =
          [phase |-> p, version |-> d.version, user |-> d.user, tasks |-> d.tasks]
  BY <1>0
<1> QED
  BY <1>1, <1>2 DEF Process

LEMMA TasksFacts ==
  ASSUME NEW d \in Process, d.phase # "booting", NEW t \in 0..1
  PROVE  /\ [d EXCEPT !.tasks = t] \in Process
         /\ [d EXCEPT !.tasks = t].phase = d.phase
         /\ [d EXCEPT !.tasks = t].user = d.user
         /\ [d EXCEPT !.tasks = t].tasks = t
  BY DEF Process

LEMMA LoadingFacts ==
  ASSUME NEW d \in Process, NEW u \in Users
  PROVE  /\ [d EXCEPT !.phase = "loading", !.user = u] \in Process
         /\ [d EXCEPT !.phase = "loading", !.user = u].phase = "loading"
         /\ [d EXCEPT !.phase = "loading", !.user = u].user = u
         /\ [d EXCEPT !.phase = "loading", !.user = u].tasks = d.tasks
<1> DEFINE a == [d EXCEPT !.phase = "loading"]
           e == [d EXCEPT !.phase = "loading", !.user = u]
<1>1. CASE d \in [phase : {"booting"}, version : {"new"}, user : {None}, tasks : {0}]
  <2>0. a = [phase |-> "loading", version |-> d.version, user |-> d.user, tasks |-> d.tasks]
    BY <1>1
  <2>1. e = [phase |-> "loading", version |-> d.version, user |-> u, tasks |-> d.tasks]
    <3> HIDE DEF a
    <3>1. e = [a EXCEPT !.user = u]
      BY DEF a
    <3> HIDE DEF e
    <3> QED
      BY <2>0, <3>1
  <2>2. d.version = "new" /\ d.tasks = 0
    BY <1>1
  <2> HIDE DEF e
  <2>3. e \in [phase : {"loading", "running", "closing"}, version : {"old", "new"},
               user : Users, tasks : 0..1]
    BY <2>1, <2>2
  <2>4. e.phase = "loading" /\ e.user = u /\ e.tasks = d.tasks
    BY <2>1
  <2> QED
    BY <2>3, <2>4 DEF Process, e
<1>2. CASE d \in [phase : {"loading", "running", "closing"}, version : {"old", "new"},
                  user : Users, tasks : 0..1]
  <2>0. a = [phase |-> "loading", version |-> d.version, user |-> d.user, tasks |-> d.tasks]
    BY <1>2
  <2>1. e = [phase |-> "loading", version |-> d.version, user |-> u, tasks |-> d.tasks]
    <3> HIDE DEF a
    <3>1. e = [a EXCEPT !.user = u]
      BY DEF a
    <3> HIDE DEF e
    <3> QED
      BY <2>0, <3>1
  <2>2. d.version \in {"old", "new"} /\ d.tasks \in 0..1
    BY <1>2
  <2> HIDE DEF e
  <2>3. e \in [phase : {"loading", "running", "closing"}, version : {"old", "new"},
               user : Users, tasks : 0..1]
    BY <2>1, <2>2
  <2>4. e.phase = "loading" /\ e.user = u /\ e.tasks = d.tasks
    BY <2>1
  <2> QED
    BY <2>3, <2>4 DEF Process, e
<1> QED
  BY <1>1, <1>2 DEF Process

LEMMA BootingFacts ==
  LET d == [phase |-> "booting", version |-> "new", user |-> None, tasks |-> 0]
  IN  d \in Process /\ d.phase = "booting" /\ d.user = None /\ d.tasks = 0
  BY DEF Process

-----------------------------------------------------------------------------
(***************************************************************************)
(* Every step keeps it.                                                    *)
(***************************************************************************)
LEMMA AtCall ==
  ASSUME Base, NEW n \in DOMAIN calls
  PROVE  /\ n \in 1..Len(calls) /\ Len(calls) \in Nat
         /\ CallOK(calls[n], NowIdle)
         /\ calls[n] \in Call /\ calls[n].does \in AllLeft
         /\ calls[n].as \in Users \cup {None}
         /\ calls[n].guarded \in BOOLEAN /\ calls[n].idle \in BOOLEAN
<1>1. n \in 1..Len(calls) /\ Len(calls) \in Nat
  BY LenProperties DEF Base, CallsOK
<1>2. CallOK(calls[n], NowIdle)
  BY <1>1 DEF Base, CallsOK
<1>3. calls[n] \in Call /\ calls[n].does \in AllLeft
  BY <1>2 DEF CallOK
<1>4. ASSUME NEW c \in Call
      PROVE  c.as \in Users \cup {None} /\ c.guarded \in BOOLEAN /\ c.idle \in BOOLEAN
  BY DEF Call
<1> QED
  BY <1>1, <1>2, <1>3, <1>4

LEMMA IdleIsBoolean == NowIdle \in BOOLEAN
  BY DEF NowIdle

\* A call that goes on keeps the guard.
LEMMA GoesOn ==
  ASSUME Base, NEW n \in DOMAIN calls, NEW c, CallOK(c, NowIdle),
         calls[n].guarded => c.guarded,
         NEW t, t = [calls EXCEPT ![n] = c]
  PROVE  /\ CallsOK(t, NowIdle)
         /\ manager.operationInProgress => SomeGuarded(t)
<1>1. n \in 1..Len(calls) /\ calls \in Seq(Call) /\ c \in Call
  BY AtCall DEF Base, CallsOK, CallOK
<1>2. /\ t \in Seq(Call)
      /\ Len(t) = Len(calls)
      /\ \A m \in 1..Len(calls) : t[m] = IF m = n THEN c ELSE calls[m]
  BY <1>1, ExceptSeq
<1>4. CallsOK(t, NowIdle)
  <2>1. Len(calls) <= MaxCalls /\ \A m \in 1..Len(calls) : CallOK(calls[m], NowIdle)
    BY DEF Base, CallsOK
  <2>2. ASSUME NEW m \in 1..Len(t)
        PROVE  CallOK(t[m], NowIdle)
    <3>1. CASE m = n
      <4>1. t[m] = c
        BY <1>2, <3>1
      <4> QED
        BY <4>1
    <3>2. CASE m # n
      <4>1. t[m] = calls[m] /\ m \in 1..Len(calls)
        BY <1>2, <3>2
      <4> QED
        BY <2>1, <4>1
    <3> QED
      BY <3>1, <3>2
  <2> QED
    BY <1>2, <2>1, <2>2 DEF CallsOK
<1>3. ASSUME manager.operationInProgress
      PROVE  SomeGuarded(t)
  <2>1. PICK m \in 1..Len(calls) : calls[m].guarded
    BY <1>3 DEF Base, SomeGuarded
  <2>2. t[m].guarded
    BY <1>2, <2>1
  <2> QED
    BY <1>2, <2>2 DEF SomeGuarded
<1> QED
  BY <1>3, <1>4

\* Another call begins.
LEMMA AddsOK ==
  ASSUME NEW s, CallsOK(s, NowIdle), Len(s) < MaxCalls,
         NEW c, CallOK(c, NowIdle),
         NEW t, t = Append(s, c)
  PROVE  /\ CallsOK(t, NowIdle)
         /\ SomeGuarded(s) \/ c.guarded => SomeGuarded(t)
<1>1. s \in Seq(Call) /\ c \in Call /\ Len(s) \in Nat
  BY LenProperties DEF CallsOK, CallOK
<1>2. /\ t \in Seq(Call)
      /\ Len(t) = Len(s) + 1
      /\ \A m \in 1..Len(s) : t[m] = s[m]
      /\ t[Len(s) + 1] = c
  BY <1>1, AppendProperties
<1>3. CallsOK(t, NowIdle)
  <2>1. \A m \in 1..Len(s) : CallOK(s[m], NowIdle)
    BY DEF CallsOK
  <2>2. ASSUME NEW m \in 1..Len(t)
        PROVE  CallOK(t[m], NowIdle)
    <3>1. CASE m = Len(s) + 1
      <4>1. t[m] = c
        BY <1>2, <3>1
      <4> QED
        BY <4>1
    <3>2. CASE m # Len(s) + 1
      <4>1. t[m] = s[m] /\ m \in 1..Len(s)
        BY <1>1, <1>2, <3>2
      <4> QED
        BY <2>1, <4>1
    <3> QED
      BY <3>1, <3>2
  <2>3. Len(t) <= MaxCalls
    BY <1>1, <1>2, CallsAssumption
  <2> QED
    BY <1>2, <2>2, <2>3 DEF CallsOK
<1>4. Len(s) + 1 \in 1..Len(t) /\ \A m \in 1..Len(s) : m \in 1..Len(t)
  BY <1>1, <1>2
<1>5. SomeGuarded(s) => SomeGuarded(t)
  BY <1>2, <1>4 DEF SomeGuarded
<1>6. c.guarded => SomeGuarded(t)
  BY <1>2, <1>4 DEF SomeGuarded
<1> QED
  BY <1>3, <1>5, <1>6

\* One that has done its step, and has another.
LEMMA ProceedsOK ==
  ASSUME Base, NEW n \in DOMAIN calls, Proceeds(n),
         Tail(calls[n].does) \in AllLeft,
         calls[n].guarded => Head(Tail(calls[n].does)) \in Operations
  PROVE  /\ CallsOK(calls', NowIdle)
         /\ manager.operationInProgress => SomeGuarded(calls')
<1>1. CallOK(calls[n], NowIdle)
  BY AtCall
<1>2. CallOK(Rest(calls[n]), NowIdle) /\ (calls[n].guarded => Rest(calls[n]).guarded)
  BY <1>1, IdleIsBoolean, RestFacts
<1> QED
  BY <1>2, GoesOn DEF Proceeds

\* One that ends gives it back, if it had it.
LEMMA EndsOK ==
  ASSUME Base, NEW n \in DOMAIN calls, Ends(n)
  PROVE  /\ CallsOK(calls', NowIdle)
         /\ manager.operationInProgress /\ ~ calls[n].guarded => SomeGuarded(calls')
<1>1. n \in 1..Len(calls)
  BY AtCall
<1>2. /\ CallsOK(calls', NowIdle)
      /\ Len(calls') = Len(calls) - 1
      /\ \A k \in 1..Len(calls) :
              k # n => \E m \in 1..Len(calls) - 1 : calls'[m] = calls[k]
  BY <1>1, IdleIsBoolean, Dropped DEF Base, Ends
<1>3. ASSUME manager.operationInProgress, ~ calls[n].guarded
      PROVE  SomeGuarded(calls')
  <2>1. PICK k \in 1..Len(calls) : calls[k].guarded
    BY <1>3 DEF Base, SomeGuarded
  <2>2. PICK m \in 1..Len(calls) - 1 : calls'[m] = calls[k]
    BY <1>2, <1>3, <2>1
  <2> QED
    BY <1>2, <2>1, <2>2 DEF SomeGuarded
<1> QED
  BY <1>2, <1>3

LEMMA ReleasedOK ==
  ASSUME NEW m \in Managers, NEW c, c.guarded \in BOOLEAN
  PROVE  /\ Released(m, c) \in Managers
         /\ Released(m, c).operationInProgress = (m.operationInProgress /\ ~ c.guarded)
         /\ Released(m, c).bin = m.bin
  BY DEF Released, Managers

LEMMA ManagerShows ==
  ASSUME NEW m \in Managers, NEW state \in States
  PROVE  /\ [m EXCEPT !.currentState = state] \in Managers
         /\ [m EXCEPT !.currentState = state].operationInProgress = m.operationInProgress
  BY DEF Managers

\* The daemon may become idle while calls are under way.
LEMMA StillIdle ==
  ASSUME NEW s, NEW b \in BOOLEAN, NEW c \in BOOLEAN, CallsOK(s, b), b => c
  PROVE  CallsOK(s, c)
  BY DEF CallsOK, CallOK

LEMMA BecauseOK ==
  ASSUME reasons \subseteq Reasons, NEW why \in SUBSET Reasons, Because(why)
  PROVE  /\ reasons' \subseteq Reasons
         /\ reasons' = {} => reasons = {} /\ why = {}
         /\ reasons' = {"interrupted"} =>
               why \subseteq {"interrupted"}
               /\ (reasons = {"interrupted"} \/ (reasons = {} /\ why = {"interrupted"}))
<1>1. CASE reasons \subseteq {"interrupted"}
  <2>1. reasons' = reasons \cup why
    BY <1>1 DEF Because
  <2>2. reasons = {} \/ reasons = {"interrupted"}
    BY <1>1
  <2>3. reasons' \subseteq Reasons
    BY <2>1
  <2>4. reasons' = {} => reasons = {} /\ why = {}
    BY <2>1
  <2>5. ASSUME reasons' = {"interrupted"}
        PROVE  /\ why \subseteq {"interrupted"}
               /\ reasons = {"interrupted"} \/ (reasons = {} /\ why = {"interrupted"})
    <3>1. why \subseteq {"interrupted"}
      BY <2>1, <2>5
    <3>2. ASSUME reasons = {}
          PROVE  why = {"interrupted"}
      <4>1. \A x : x \in why <=> x \in reasons'
        BY <2>1, <3>2
      <4> QED
        BY <2>5, <4>1
    <3> QED
      BY <2>2, <3>1, <3>2
  <2> QED
    BY <2>3, <2>4, <2>5
<1>2. CASE ~(reasons \subseteq {"interrupted"})
  BY <1>2 DEF Because
<1> QED
  BY <1>1, <1>2

LEMMA MoveOK ==
  ASSUME RestOK, NEW kind, Move(kind)
  PROVE  moves' \in 0..plan'.most /\ plan' \in Plans
  BY PlansAssumption DEF RestOK, Move

LEMMA BaseNext ==
  ASSUME RestOK', CallsOK(calls', NowIdle), NowIdle => NowIdle',
         manager'.operationInProgress => SomeGuarded(calls')
  PROVE  Base'
<1>1. NowIdle \in BOOLEAN /\ NowIdle' \in BOOLEAN
  BY IdleIsBoolean DEF NowIdle
<1>2. CallsOK(calls', NowIdle')
  BY <1>1, StillIdle
<1> QED
  BY <1>2 DEF Base

\* The steps of a login and of a logout: the profile changes, and the call goes on.
LEMMA ProfileBase ==
  ASSUME Base, NEW n \in DOMAIN calls,
         \/ ReadProfile(n) \/ WriteToken(n) \/ WriteOwner(n)
         \/ ClearToken(n) \/ RemoveOwner(n)
  PROVE  Base'
<1>1. /\ CallOK(calls[n], NowIdle) /\ calls[n] \in Call /\ calls[n].does \in AllLeft
      /\ Head(calls[n].does) \in {"read", "write", "own", "clear", "disown"}
      /\ ~ calls[n].guarded
  BY AtCall DEF ReadProfile, WriteToken, WriteOwner, ClearToken, RemoveOwner, AtStep,
     CallOK, Operations
<1>2. Tail(calls[n].does) \in AllLeft
  BY <1>1, LeftSteps DEF AllLeft
<1>3. daemon' = daemon /\ user' = user /\ manager' = manager /\ poll' = poll
      /\ moves' = moves /\ plan' = plan
  BY DEF ReadProfile, WriteToken, WriteOwner, ClearToken, RemoveOwner
<1>4. calls[n].token \in Users \cup {None} /\ calls[n].as \in Users \cup {None}
  BY <1>1 DEF Call
<1>5. config' \in [token : Users \cup {None}, owner : Users \cup {None}]
  BY <1>4 DEF Base, RestOK, ReadProfile, WriteToken, WriteOwner, ClearToken, RemoveOwner
<1>6. reasons' \subseteq Reasons
  <2>1. CASE ReadProfile(n)
    BY <2>1, BecauseOK DEF ReadProfile, Base, RestOK, Reasons
  <2>2. CASE ~ ReadProfile(n)
    BY <2>2 DEF WriteToken, WriteOwner, ClearToken, RemoveOwner, Base, RestOK
  <2> QED
    BY <2>1, <2>2
<1>7. RestOK'
  BY <1>3, <1>5, <1>6 DEF Base, RestOK
<1>8. CallsOK(calls', NowIdle) /\ (manager.operationInProgress => SomeGuarded(calls'))
  <2>1. CASE ReadProfile(n)
    <3> DEFINE c == [Rest(calls[n]) EXCEPT !.token = config.token, !.owner = config.owner]
    <3>1. /\ Rest(calls[n]) \in Call /\ Rest(calls[n]).does = Tail(calls[n].does)
          /\ Rest(calls[n]).guarded = calls[n].guarded
          /\ Rest(calls[n]).idle = calls[n].idle
      BY <1>1, <1>2, IdleIsBoolean, RestFacts
    <3>2. config.token \in Users \cup {None} /\ config.owner \in Users \cup {None}
      BY DEF Base, RestOK
    <3>3. /\ c \in Call /\ c.does = Tail(calls[n].does)
          /\ c.guarded = calls[n].guarded /\ c.idle = calls[n].idle
      BY <3>1, <3>2 DEF Call
    <3>4. calls' = [calls EXCEPT ![n] = c]
      BY <2>1 DEF ReadProfile
    <3> HIDE DEF c
    <3>5. CallOK(c, NowIdle)
      BY <1>1, <1>2, <3>3 DEF CallOK
    <3> QED
      BY <1>1, <3>4, <3>5, GoesOn
  <2>2. CASE ~ ReadProfile(n)
    <3>1. Proceeds(n)
      BY <2>2 DEF WriteToken, WriteOwner, ClearToken, RemoveOwner
    <3> QED
      BY <1>1, <1>2, <3>1, ProceedsOK
  <2> QED
    BY <2>1, <2>2
<1> QED
  BY <1>3, <1>7, <1>8, BaseNext DEF NowIdle

LEMMA MintFailsBase ==
  ASSUME Base, NEW n \in DOMAIN calls, MintFails(n)
  PROVE  Base'
<1>1. ~ calls[n].guarded
  BY AtCall DEF MintFails, AtStep, CallOK, Operations
<1>2. CallsOK(calls', NowIdle) /\ (manager.operationInProgress => SomeGuarded(calls'))
  BY <1>1, EndsOK DEF MintFails
<1>3. reasons' \subseteq Reasons
  BY BecauseOK DEF MintFails, Base, RestOK, Reasons
<1>4. moves' \in 0..plan'.most /\ plan' \in Plans
  BY MoveOK DEF MintFails, Base
<1>5. RestOK'
  BY <1>3, <1>4 DEF MintFails, Base, RestOK
<1> QED
  BY <1>2, <1>5, BaseNext DEF MintFails, NowIdle

LEMMA SwitchUserBase ==
  ASSUME Base, NEW n \in DOMAIN calls, SwitchUser(n)
  PROVE  Base'
<1> DEFINE c == NewCall(<<"autoStart">>, None)
           went == [calls EXCEPT ![n] = c]
           r == NewCall(RestartDaemon, None)
<1>1. ~ calls[n].guarded
  BY AtCall DEF SwitchUser, AtStep, CallOK, Operations
<1>2. CallOK(c, NowIdle) /\ CallOK(r, NowIdle)
  BY NewCallFacts, IdleIsBoolean DEF AllLeft, WorkLeft
<1>3. CallsOK(went, NowIdle) /\ (manager.operationInProgress => SomeGuarded(went))
  <2> HIDE DEF c
  <2> QED
    BY <1>1, <1>2, GoesOn
<1>4. CallsOK(calls', NowIdle) /\ (manager.operationInProgress => SomeGuarded(calls'))
  <2>1. CASE UserChanged(calls[n]) /\ Healthy
    <3>1. calls' = Append(went, r) /\ Room
      BY <2>1 DEF SwitchUser
    <3>2. Len(went) < MaxCalls
      <4>1. n \in 1..Len(calls) /\ calls \in Seq(Call) /\ c \in Call
        BY <1>2, AtCall DEF Base, CallsOK, CallOK
      <4>2. Len(went) = Len(calls)
        <5> HIDE DEF c
        <5> QED
          BY <4>1, ExceptSeq
      <4> QED
        BY <3>1, <4>2 DEF Room
    <3> HIDE DEF went, r
    <3> QED
      BY <1>2, <1>3, <3>1, <3>2, AddsOK
  <2>2. CASE ~(UserChanged(calls[n]) /\ Healthy)
    <3>1. calls' = went
      BY <2>2 DEF SwitchUser
    <3> QED
      BY <1>3, <3>1
  <2> QED
    BY <2>1, <2>2
<1>5. RestOK'
  BY DEF SwitchUser, Base, RestOK
<1> QED
  BY <1>4, <1>5, BaseNext DEF SwitchUser, NowIdle

LEMMA GuardBase ==
  ASSUME Base, NEW n \in DOMAIN calls, Guard(n)
  PROVE  Base'
<1>1. /\ CallOK(calls[n], NowIdle) /\ calls[n] \in Call /\ calls[n].does \in AllLeft
      /\ Head(calls[n].does) = "guard" /\ ~ calls[n].guarded
  BY AtCall DEF Guard, AtStep, CallOK, Operations
<1>2. Tail(calls[n].does) = <<"stopped">> /\ <<"stopped">> \in AllLeft
  BY <1>1, LeftSteps DEF AllLeft, WorkLeft
<1>3. reasons' \subseteq Reasons
  BY BecauseOK DEF Guard, Base, RestOK, Reasons
<1>4. CASE manager.operationInProgress \/ manager.bin = "missing"
  <2>1. Ends(n) /\ manager' = manager
    BY <1>4 DEF Guard
  <2>2. CallsOK(calls', NowIdle) /\ (manager.operationInProgress => SomeGuarded(calls'))
    BY <1>1, <2>1, EndsOK
  <2>3. RestOK'
    BY <1>3, <2>1 DEF Guard, Base, RestOK
  <2> QED
    BY <2>1, <2>2, <2>3, BaseNext DEF Guard, NowIdle
<1>5. CASE ~(manager.operationInProgress \/ manager.bin = "missing")
  <2> DEFINE c == [Rest(calls[n]) EXCEPT !.guarded = TRUE]
  <2>1. /\ calls' = [calls EXCEPT ![n] = c]
        /\ manager' = [manager EXCEPT !.operationInProgress = TRUE,
                                      !.currentState = "stopping"]
    BY <1>5 DEF Guard
  <2>2. /\ Rest(calls[n]) \in Call /\ Rest(calls[n]).does = <<"stopped">>
        /\ Rest(calls[n]).idle = calls[n].idle
    BY <1>1, <1>2, IdleIsBoolean, RestFacts
  <2>3. c \in Call /\ c.does = <<"stopped">> /\ c.guarded /\ c.idle = calls[n].idle
    BY <2>2 DEF Call
  <2> HIDE DEF c
  <2>4. CallOK(c, NowIdle)
    BY <1>1, <1>2, <2>3 DEF CallOK, Operations
  <2>5. n \in 1..Len(calls) /\ Len(calls') = Len(calls) /\ calls'[n] = c
    <3>1. n \in 1..Len(calls) /\ calls \in Seq(Call)
      BY AtCall DEF Base, CallsOK
    <3> QED
      BY <2>1, <2>3, <3>1, ExceptSeq
  <2>6. CallsOK(calls', NowIdle) /\ SomeGuarded(calls')
    BY <1>1, <2>1, <2>3, <2>4, <2>5, GoesOn DEF SomeGuarded
  <2>7. RestOK'
    BY <1>3, <2>1 DEF Guard, Base, RestOK, Managers, States
  <2> QED
    BY <2>6, <2>7, BaseNext DEF Guard, NowIdle
<1> QED
  BY <1>4, <1>5

\* A call that ends gives the guard back.
LEMMA EndsReleased ==
  ASSUME Base, NEW n \in DOMAIN calls, Ends(n),
         NEW m \in Managers, m.operationInProgress = manager.operationInProgress,
         manager' = Released(m, calls[n])
  PROVE  /\ manager' \in Managers
         /\ CallsOK(calls', NowIdle)
         /\ manager'.operationInProgress => SomeGuarded(calls')
<1>1. calls[n].guarded \in BOOLEAN
  BY AtCall
<1>2. /\ manager' \in Managers
      /\ manager'.operationInProgress = (m.operationInProgress /\ ~ calls[n].guarded)
  BY <1>1, ReleasedOK
<1> QED
  BY <1>2, EndsOK

LEMMA PolledOK == poll \in BOOLEAN \cup {None} => Polled \in BOOLEAN \cup {None}
  BY DEF Polled, Healthy

LEMMA NoBinaryBase ==
  ASSUME Base, NEW n \in DOMAIN calls, NoBinary(n)
  PROVE  Base'
<1>1. manager \in Managers
  BY DEF Base, RestOK
<1>2. reasons' \subseteq Reasons
  BY BecauseOK DEF NoBinary, Base, RestOK, Reasons
<1>3. /\ manager' \in Managers /\ CallsOK(calls', NowIdle)
      /\ manager'.operationInProgress => SomeGuarded(calls')
  BY <1>1, EndsReleased DEF NoBinary
<1>4. RestOK'
  BY <1>2, <1>3 DEF NoBinary, Base, RestOK
<1> QED
  BY <1>3, <1>4, BaseNext DEF NoBinary, NowIdle

LEMMA BeginStopBase ==
  ASSUME Base, NEW n \in DOMAIN calls, BeginStop(n)
  PROVE  Base'
<1>1. calls[n].does \in AllLeft /\ Head(calls[n].does) = "stop"
  BY AtCall DEF BeginStop, AtStep
<1>2. Tail(calls[n].does) \in AllLeft /\ Head(Tail(calls[n].does)) \in Operations
  BY <1>1, LeftSteps DEF AllLeft, Operations
<1>3. CallsOK(calls', NowIdle) /\ (manager.operationInProgress => SomeGuarded(calls'))
  BY <1>2, ProceedsOK DEF BeginStop
<1>4. /\ manager' \in Managers
      /\ manager'.operationInProgress = manager.operationInProgress
  BY ManagerShows DEF BeginStop, Base, RestOK, States
<1>5. RestOK'
  BY <1>4 DEF BeginStop, Base, RestOK
<1> QED
  BY <1>3, <1>4, <1>5, BaseNext DEF BeginStop, NowIdle

LEMMA StoppedBase ==
  ASSUME Base, NEW n \in DOMAIN calls, Stopped(n)
  PROVE  Base'
<1> DEFINE m == [manager EXCEPT !.currentState = "stopped"]
<1>1. calls[n].does \in AllLeft /\ Head(calls[n].does) = "stopped"
  BY AtCall DEF Stopped, AtStep
<1>2. m \in Managers /\ m.operationInProgress = manager.operationInProgress
  BY ManagerShows DEF Base, RestOK, States
<1>3. /\ manager' \in Managers /\ CallsOK(calls', NowIdle)
      /\ manager'.operationInProgress => SomeGuarded(calls')
  <2>1. CASE Len(calls[n].does) > 1
    <3>1. Tail(calls[n].does) \in AllLeft /\ Head(Tail(calls[n].does)) \in Operations
      BY <1>1, <2>1, LeftSteps DEF AllLeft, Operations
    <3>2. Proceeds(n) /\ manager' = m
      BY <2>1 DEF Stopped
    <3> QED
      BY <1>2, <3>1, <3>2, ProceedsOK
  <2>2. CASE ~(Len(calls[n].does) > 1)
    <3>1. Ends(n) /\ manager' = Released(m, calls[n])
      BY <2>2 DEF Stopped
    <3> HIDE DEF m
    <3> QED
      BY <1>2, <3>1, EndsReleased
  <2> QED
    BY <2>1, <2>2
<1>4. daemon' \in Process \cup {None} /\ (NowIdle => NowIdle')
  <2>1. CASE Healthy
    <3>1. daemon \in Process /\ daemon.phase # "booting"
      BY <2>1 DEF Healthy, Base, RestOK
    <3>2. /\ [daemon EXCEPT !.phase = "closing"] \in Process
          /\ [daemon EXCEPT !.phase = "closing"].tasks = daemon.tasks
      BY <3>1, PhaseFacts
    <3>3. daemon' = None \/ daemon' = [daemon EXCEPT !.phase = "closing"]
      BY <2>1 DEF Stopped
    <3>4. daemon # None
      BY <2>1 DEF Healthy
    <3> QED
      BY <3>2, <3>3, <3>4 DEF NowIdle
  <2>2. CASE ~ Healthy
    BY <2>2 DEF Stopped, Base, RestOK, NowIdle
  <2> QED
    BY <2>1, <2>2
<1>5. RestOK'
  BY <1>3, <1>4 DEF Stopped, Base, RestOK
<1> QED
  BY <1>3, <1>4, <1>5, BaseNext

LEMMA StopFailsBase ==
  ASSUME Base, NEW n \in DOMAIN calls, StopFails(n)
  PROVE  Base'
<1> DEFINE m == [manager EXCEPT !.currentState = "stopped"]
<1>1. m \in Managers /\ m.operationInProgress = manager.operationInProgress
  BY ManagerShows DEF Base, RestOK, States
<1>2. /\ manager' \in Managers /\ CallsOK(calls', NowIdle)
      /\ manager'.operationInProgress => SomeGuarded(calls')
  <2>1. Ends(n) /\ manager' = Released(m, calls[n])
    BY DEF StopFails
  <2> HIDE DEF m
  <2> QED
    BY <1>1, <2>1, EndsReleased
<1>3. reasons' \subseteq Reasons
  BY BecauseOK DEF StopFails, Base, RestOK, Reasons
<1>4. moves' \in 0..plan'.most /\ plan' \in Plans
  BY MoveOK DEF StopFails, Base
<1>5. RestOK'
  BY <1>2, <1>3, <1>4 DEF StopFails, Base, RestOK
<1> QED
  BY <1>2, <1>5, BaseNext DEF StopFails, NowIdle

LEMMA BeginStartBase ==
  ASSUME Base, NEW n \in DOMAIN calls, BeginStart(n)
  PROVE  Base'
<1>1. calls[n].does \in AllLeft /\ Head(calls[n].does) = "start"
  BY AtCall DEF BeginStart, AtStep
<1>2. manager \in Managers
  BY DEF Base, RestOK
<1>3. /\ manager' \in Managers /\ CallsOK(calls', NowIdle)
      /\ manager'.operationInProgress => SomeGuarded(calls')
  <2>1. CASE Healthy
    BY <1>2, <2>1, EndsReleased DEF BeginStart
  <2>2. CASE ~ Healthy
    <3>1. Tail(calls[n].does) \in AllLeft /\ Head(Tail(calls[n].does)) \in Operations
      BY <1>1, LeftSteps DEF AllLeft, Operations
    <3>2. Proceeds(n) /\ manager' = [manager EXCEPT !.currentState = "starting"]
      BY <2>2 DEF BeginStart
    <3>3. /\ manager' \in Managers
          /\ manager'.operationInProgress = manager.operationInProgress
      BY <1>2, <3>2, ManagerShows DEF States
    <3> QED
      BY <3>1, <3>2, <3>3, ProceedsOK
  <2> QED
    BY <2>1, <2>2
<1>4. poll' \in BOOLEAN \cup {None}
  BY PolledOK DEF BeginStart, Base, RestOK
<1>5. RestOK'
  BY <1>3, <1>4 DEF BeginStart, Base, RestOK
<1> QED
  BY <1>3, <1>5, BaseNext DEF BeginStart, NowIdle

LEMMA SpawnBase ==
  ASSUME Base, NEW n \in DOMAIN calls, Spawn(n)
  PROVE  Base'
<1>1. calls[n].does \in AllLeft /\ Head(calls[n].does) = "spawn"
  BY AtCall DEF Spawn, AtStep
<1>2. Tail(calls[n].does) \in AllLeft /\ Head(Tail(calls[n].does)) \in Operations
  BY <1>1, LeftSteps DEF AllLeft, Operations
<1>3. CallsOK(calls', NowIdle) /\ (manager.operationInProgress => SomeGuarded(calls'))
  BY <1>2, ProceedsOK DEF Spawn
<1>4. daemon' \in Process \cup {None} /\ (NowIdle => NowIdle')
  BY BootingFacts DEF Spawn, Base, RestOK, NowIdle
<1>5. RestOK'
  BY <1>4 DEF Spawn, Base, RestOK
<1> QED
  BY <1>3, <1>4, <1>5, BaseNext DEF Spawn

LEMMA AlreadyRunningBase ==
  ASSUME Base, NEW n \in DOMAIN calls, AlreadyRunning(n)
  PROVE  Base'
<1> DEFINE m == [manager EXCEPT !.currentState = "stopped"]
<1>1. m \in Managers /\ m.operationInProgress = manager.operationInProgress
  BY ManagerShows DEF Base, RestOK, States
<1>2. /\ manager' \in Managers /\ CallsOK(calls', NowIdle)
      /\ manager'.operationInProgress => SomeGuarded(calls')
  <2>1. Ends(n) /\ manager' = Released(m, calls[n])
    BY DEF AlreadyRunning
  <2> HIDE DEF m
  <2> QED
    BY <1>1, <2>1, EndsReleased
<1>3. RestOK'
  BY <1>2 DEF AlreadyRunning, Base, RestOK
<1> QED
  BY <1>2, <1>3, BaseNext DEF AlreadyRunning, NowIdle

LEMMA SpawnedBase ==
  ASSUME Base, NEW n \in DOMAIN calls, Spawned(n)
  PROVE  Base'
<1>1. manager \in Managers
  BY DEF Base, RestOK
<1>2. /\ manager' \in Managers /\ CallsOK(calls', NowIdle)
      /\ manager'.operationInProgress => SomeGuarded(calls')
  BY <1>1, EndsReleased DEF Spawned
<1>3. poll' \in BOOLEAN \cup {None}
  BY PolledOK DEF Spawned, Base, RestOK
<1>4. RestOK'
  BY <1>2, <1>3 DEF Spawned, Base, RestOK
<1> QED
  BY <1>2, <1>4, BaseNext DEF Spawned, NowIdle

LEMMA CheckVersionBase ==
  ASSUME Base, NEW n \in DOMAIN calls, CheckVersion(n)
  PROVE  Base'
<1>1. CallOK(calls[n], NowIdle) /\ calls[n] \in Call /\ ~ calls[n].guarded
  BY AtCall DEF CheckVersion, AtStep, CallOK, Operations
<1>2. /\ manager' \in Managers
      /\ manager'.operationInProgress = manager.operationInProgress
  BY DEF CheckVersion, Base, RestOK, Managers, Deferred, Mismatch, Healthy
<1>3. CallsOK(calls', NowIdle) /\ (manager.operationInProgress => SomeGuarded(calls'))
  <2>1. CASE Mismatch /\ ~ Deferred
    <3> DEFINE c == [calls[n] EXCEPT !.does = RestartDaemon, !.idle = TRUE]
    <3>1. calls' = [calls EXCEPT ![n] = c]
      BY <2>1 DEF CheckVersion
    <3>2. RestartDaemon \in AllLeft /\ RestartDaemon \in Seq(Steps)
      BY LeftSteps DEF AllLeft, WorkLeft
    <3>3. c \in Call /\ c.does = RestartDaemon /\ c.guarded = calls[n].guarded
      BY <1>1, <3>2 DEF Call
    <3>4. NowIdle
      BY <2>1, ProcessFacts DEF Mismatch, Deferred, Healthy, NowIdle, Base, RestOK
    <3> HIDE DEF c
    <3>5. CallOK(c, NowIdle)
      BY <1>1, <3>2, <3>3, <3>4 DEF CallOK
    <3> QED
      BY <1>1, <3>1, <3>5, GoesOn
  <2>2. CASE ~(Mismatch /\ ~ Deferred)
    BY <1>1, <2>2, EndsOK DEF CheckVersion
  <2> QED
    BY <2>1, <2>2
<1>4. RestOK'
  BY <1>2 DEF CheckVersion, Base, RestOK
<1> QED
  BY <1>2, <1>3, <1>4, BaseNext DEF CheckVersion, NowIdle

LEMMA AutoStartBase ==
  ASSUME Base, NEW n \in DOMAIN calls, AutoStart(n)
  PROVE  Base'
<1>1. CallOK(calls[n], NowIdle) /\ calls[n] \in Call /\ ~ calls[n].guarded
  BY AtCall DEF AutoStart, AtStep, CallOK, Operations
<1>2. PICK steps \in {<<"version">>, StartDaemon} :
        calls' = [calls EXCEPT ![n] = [calls[n] EXCEPT !.does = steps]]
  BY DEF AutoStart
<1> DEFINE c == [calls[n] EXCEPT !.does = steps]
<1>3. steps \in AllLeft /\ steps \in Seq(Steps)
  BY LeftSteps DEF AllLeft, WorkLeft
<1>4. c \in Call /\ c.does = steps /\ ~ c.guarded /\ c.idle = calls[n].idle
  BY <1>1, <1>3 DEF Call
<1>5. CallOK(c, NowIdle)
  BY <1>1, <1>3, <1>4 DEF CallOK
<1>6. CallsOK(calls', NowIdle) /\ (manager.operationInProgress => SomeGuarded(calls'))
  <2> HIDE DEF c
  <2> QED
    BY <1>1, <1>2, <1>5, GoesOn DEF c
<1>7. RestOK'
  BY DEF AutoStart, Base, RestOK
<1> QED
  BY <1>6, <1>7, BaseNext DEF AutoStart, NowIdle

\* Steps that leave the calls and the daemon alone.
LEMMA SameCalls ==
  ASSUME Base, RestOK', calls' = calls, NowIdle => NowIdle',
         manager'.operationInProgress => manager.operationInProgress
  PROVE  Base'
<1>1. CallsOK(calls', NowIdle) /\ (manager.operationInProgress => SomeGuarded(calls'))
  BY DEF Base
<1> QED
  BY <1>1, BaseNext

LEMMA BootstrapBase ==
  ASSUME Base, NEW found \in BOOLEAN, BootstrapCli(found)
  PROVE  Base'
<1>1. /\ manager' \in Managers
      /\ manager'.operationInProgress = manager.operationInProgress
  BY DEF BootstrapCli, Base, RestOK, Managers, States
<1>2. poll' \in BOOLEAN \cup {None}
  BY PolledOK DEF BootstrapCli, Base, RestOK
<1>3. moves' \in 0..plan'.most /\ plan' \in Plans
  <2>1. CASE found
    BY <2>1 DEF BootstrapCli, Base, RestOK
  <2>2. CASE ~ found
    BY <2>2, MoveOK DEF BootstrapCli, Base
  <2> QED
    BY <2>1, <2>2
<1>4. RestOK'
  BY <1>1, <1>2, <1>3 DEF BootstrapCli, Base, RestOK
<1> QED
  BY <1>1, <1>4, SameCalls DEF BootstrapCli, NowIdle

LEMMA RetryInstallBase ==
  ASSUME Base, RetryInstall
  PROVE  Base'
<1>1. /\ manager' \in Managers
      /\ manager'.operationInProgress = manager.operationInProgress
  BY DEF RetryInstall, Base, RestOK, Managers
<1>2. moves' \in 0..plan'.most /\ plan' \in Plans
  BY MoveOK DEF RetryInstall, Base
<1>3. RestOK'
  BY <1>1, <1>2 DEF RetryInstall, Base, RestOK
<1> QED
  BY <1>1, <1>3, SameCalls DEF RetryInstall, NowIdle

LEMMA PollBase ==
  ASSUME Base, Poll
  PROVE  Base'
<1>1. RestOK'
  BY DEF Poll, Base, RestOK, Healthy
<1> QED
  BY <1>1, SameCalls DEF Poll, NowIdle

LEMMA StoreStatusBase ==
  ASSUME Base, StoreStatus
  PROVE  Base'
<1>1. poll \in BOOLEAN
  BY DEF StoreStatus, Base, RestOK
<1>2. /\ manager' \in Managers
      /\ manager'.operationInProgress = manager.operationInProgress
  BY <1>1, ManagerShows DEF StoreStatus, StatusSeen, Base, RestOK, States
<1>3. /\ CallsOK(calls', NowIdle) /\ (manager.operationInProgress => SomeGuarded(calls'))
      /\ reasons' \subseteq Reasons
  <2>1. CASE manager.pendingVersionRestart /\ poll
    <3> DEFINE c == NewCall(<<"version">>, None)
    <3>1. CallOK(c, NowIdle)
      BY NewCallFacts, IdleIsBoolean DEF AllLeft, WorkLeft
    <3>2. calls' = Append(calls, c) /\ Room /\ Because(Crossing)
      BY <2>1 DEF StoreStatus
    <3> HIDE DEF c
    <3>3. CallsOK(calls', NowIdle) /\ (SomeGuarded(calls) => SomeGuarded(calls'))
      BY <3>1, <3>2, AddsOK DEF Room, Base
    <3>4. reasons' \subseteq Reasons
      BY <3>2, BecauseOK DEF Base, RestOK, Crossing, Reasons
    <3> QED
      BY <3>3, <3>4 DEF Base
  <2>2. CASE ~(manager.pendingVersionRestart /\ poll)
    BY <2>2 DEF StoreStatus, Base, RestOK
  <2> QED
    BY <2>1, <2>2
<1>4. RestOK'
  BY <1>2, <1>3 DEF StoreStatus, Base, RestOK
<1> QED
  BY <1>2, <1>3, <1>4, BaseNext DEF StoreStatus, NowIdle

\* What a user begins.
LEMMA BeginOK ==
  ASSUME Base, NEW c, CallOK(c, NowIdle), NEW kind, Begin(c, kind)
  PROVE  /\ CallsOK(calls', NowIdle)
         /\ SomeGuarded(calls) \/ c.guarded => SomeGuarded(calls')
         /\ moves' \in 0..plan'.most /\ plan' \in Plans
<1>1. calls' = Append(calls, c) /\ Room /\ Move(kind)
  BY DEF Begin
<1> QED
  BY <1>1, AddsOK, MoveOK DEF Room, Base

LEMMA LogInBase ==
  ASSUME Base, NEW u \in Users, LogIn(u)
  PROVE  Base'
<1> DEFINE c == NewCall(LoginSteps, u)
<1>1. CallOK(c, NowIdle)
  BY NewCallFacts, IdleIsBoolean DEF AllLeft, LoginLeft
<1>2. Begin(c, "login")
  BY DEF LogIn
<1> HIDE DEF c
<1>3. /\ CallsOK(calls', NowIdle) /\ (SomeGuarded(calls) => SomeGuarded(calls'))
      /\ moves' \in 0..plan'.most /\ plan' \in Plans
  BY <1>1, <1>2, BeginOK
<1>4. reasons' \subseteq Reasons
  BY BecauseOK DEF LogIn, Base, RestOK, Reasons
<1>5. RestOK'
  BY <1>3, <1>4 DEF LogIn, Base, RestOK
<1> QED
  BY <1>3, <1>5, BaseNext DEF LogIn, NowIdle, Base

LEMMA LogOutBase ==
  ASSUME Base, LogOut
  PROVE  Base'
<1> DEFINE c == NewCall(LogoutSteps, None)
<1>1. CallOK(c, NowIdle)
  BY NewCallFacts, IdleIsBoolean DEF AllLeft, LogoutLeft
<1>2. Begin(c, "logout")
  BY DEF LogOut
<1> HIDE DEF c
<1>3. /\ CallsOK(calls', NowIdle) /\ (SomeGuarded(calls) => SomeGuarded(calls'))
      /\ moves' \in 0..plan'.most /\ plan' \in Plans
  BY <1>1, <1>2, BeginOK
<1>4. reasons' \subseteq Reasons
  BY BecauseOK DEF LogOut, Base, RestOK, Reasons, Crossing
<1>5. RestOK'
  BY <1>3, <1>4 DEF LogOut, Base, RestOK
<1> QED
  BY <1>3, <1>5, BaseNext DEF LogOut, NowIdle, Base

\* The guarded call of a button.
LEMMA OperationFacts ==
  ASSUME NEW steps \in {StartDaemon, StopDaemon, RestartDaemon}, NEW b \in BOOLEAN
  PROVE  LET c == [NewCall(steps, None) EXCEPT !.guarded = TRUE]
         IN  CallOK(c, b) /\ c.does = steps /\ c.guarded
<1> DEFINE c == [NewCall(steps, None) EXCEPT !.guarded = TRUE]
<1>1. steps \in AllLeft /\ steps \in Seq(Steps)
  BY LeftSteps DEF AllLeft, WorkLeft
<1>2. Head(steps) \in Operations
  BY RestartInFull DEF StartDaemon, StopDaemon, Operations
<1>3. c \in Call /\ c.does = steps /\ c.guarded /\ ~ c.idle
  BY <1>1 DEF NewCall, Call
<1> QED
  BY <1>1, <1>2, <1>3 DEF CallOK

LEMMA OperateBase ==
  ASSUME Base, NEW steps \in {StartDaemon, StopDaemon, RestartDaemon}, Operate(steps)
  PROVE  Base'
<1> DEFINE c == [NewCall(steps, None) EXCEPT !.guarded = TRUE]
<1>1. CallOK(c, NowIdle) /\ c.guarded
  BY OperationFacts, IdleIsBoolean
<1>2. Begin(c, "operate")
  BY DEF Operate
<1> HIDE DEF c
<1>3. /\ CallsOK(calls', NowIdle) /\ SomeGuarded(calls')
      /\ moves' \in 0..plan'.most /\ plan' \in Plans
  BY <1>1, <1>2, BeginOK
<1>4. reasons' \subseteq Reasons
  BY BecauseOK DEF Operate, Base, RestOK, Reasons, Crossing
<1>5. manager' \in Managers
  BY DEF Operate, Base, RestOK, Managers
<1>6. RestOK'
  BY <1>3, <1>4, <1>5 DEF Operate, Base, RestOK
<1> QED
  BY <1>3, <1>6, BaseNext DEF Operate, NowIdle

LEMMA NewManagerOK ==
  NewManager \in Managers /\ ~ NewManager.operationInProgress
  BY DEF NewManager, Managers, States

LEMMA LaunchedOK ==
  ASSUME NEW b \in BOOLEAN, NEW u \in Users
  PROVE  CallsOK(<<NewCall(LoginSteps, u)>>, b)
<1> DEFINE c == NewCall(LoginSteps, u)
<1>1. CallOK(c, b)
  BY NewCallFacts DEF AllLeft, LoginLeft
<1> HIDE DEF c
<1>2. CallsOK(<<c>>, b)
  BY <1>1, FirstCall
<1> QED
  BY <1>2 DEF c

LEMMA NoCallsOK ==
  ASSUME NEW b \in BOOLEAN
  PROVE  CallsOK(<<>>, b)
  BY CallsAssumption DEF CallsOK

LEMMA RelaunchBase ==
  ASSUME Base, Relaunch
  PROVE  Base'
<1>1. CallsOK(calls', NowIdle)
  BY LaunchedOK, NoCallsOK, IdleIsBoolean DEF Relaunch, Base, RestOK
<1>2. daemon' \in Process \cup {None} /\ (NowIdle => NowIdle')
  BY DEF Relaunch, Base, RestOK, NowIdle
<1>3. manager' \in Managers /\ ~ manager'.operationInProgress
  BY NewManagerOK DEF Relaunch
<1>4. reasons' \subseteq Reasons
  BY BecauseOK DEF Relaunch, Base, RestOK, Reasons, CutShort
<1>5. moves' \in 0..plan'.most /\ plan' \in Plans
  BY MoveOK DEF Relaunch, Base
<1>6. RestOK'
  BY <1>2, <1>3, <1>4, <1>5 DEF Relaunch, Base, RestOK
<1> QED
  BY <1>1, <1>2, <1>3, <1>6, BaseNext

\* The daemon's own steps.
LEMMA DaemonStepBase ==
  ASSUME Base, DaemonStep
  PROVE  Base'
<1>1. /\ UNCHANGED <<config, user, manager, calls, poll, moves, plan, reasons>>
      /\ daemon # None /\ daemon \in Process
  BY DEF DaemonStep, Boot, Serve, Exit, TaskEnds, Base, RestOK
<1>2. daemon' \in Process \cup {None} /\ (NowIdle => NowIdle')
  <2>1. CASE Boot
    <3>1. config.token \in Users \cup {None}
      BY DEF Base, RestOK
    <3> QED
      BY <1>1, <2>1, <3>1, LoadingFacts DEF Boot, NowIdle
  <2>2. CASE Serve
    BY <1>1, <2>2, PhaseFacts DEF Serve, NowIdle
  <2>3. CASE Exit
    BY <2>3 DEF Exit, NowIdle
  <2>4. CASE TaskEnds
    <3>1. daemon.phase # "booting" /\ daemon' = [daemon EXCEPT !.tasks = 0] /\ 0 \in 0..1
      BY <1>1, <2>4, ProcessFacts DEF TaskEnds
    <3>2. daemon' \in Process /\ daemon'.tasks = 0
      <4> DEFINE t == 0
      <4>1. t \in 0..1 /\ daemon' = [daemon EXCEPT !.tasks = t]
        BY <3>1
      <4> HIDE DEF t
      <4>2. daemon' \in Process /\ daemon'.tasks = t
        <5>1. daemon \in Process /\ daemon.phase # "booting"
          BY <1>1, <3>1
        <5>2. /\ [daemon EXCEPT !.tasks = t] \in Process
              /\ [daemon EXCEPT !.tasks = t].tasks = t
          BY ONLY <4>1, <5>1, TasksFacts, Zenon
        <5> QED
          BY ONLY <4>1, <5>2
      <4> QED
        BY <4>2 DEF t
    <3> QED
      BY <3>2 DEF NowIdle
  <2> QED
    BY <2>1, <2>2, <2>3, <2>4 DEF DaemonStep
<1>3. RestOK'
  BY <1>1, <1>2 DEF Base, RestOK
<1> QED
  BY <1>1, <1>2, <1>3, SameCalls

\* A task is claimed: no call has a look at the load left.
LEMMA TaskStartsCalls ==
  ASSUME Base, TaskStarts
  PROVE  /\ calls' \in Seq(Call) /\ Len(calls') = Len(calls)
         /\ \A m \in 1..Len(calls) :
              /\ calls'[m] \in Call /\ ~ calls'[m].idle
              /\ calls'[m].does = calls[m].does /\ calls'[m].as = calls[m].as
              /\ calls'[m].token = calls[m].token /\ calls'[m].owner = calls[m].owner
              /\ calls'[m].guarded = calls[m].guarded
<1>1. calls \in Seq(Call) /\ Len(calls) \in Nat /\ DOMAIN calls = 1..Len(calls)
  BY LenProperties DEF Base, CallsOK
<1>2. calls' = [m \in 1..Len(calls) |-> [calls[m] EXCEPT !.idle = FALSE]]
  BY <1>1 DEF TaskStarts
<1>3. ASSUME NEW m \in 1..Len(calls)
      PROVE  LET c == [calls[m] EXCEPT !.idle = FALSE]
             IN  /\ c \in Call /\ ~ c.idle
                 /\ c.does = calls[m].does /\ c.as = calls[m].as
                 /\ c.token = calls[m].token /\ c.owner = calls[m].owner
                 /\ c.guarded = calls[m].guarded
  <2>1. calls[m] \in Call
    BY <1>1, ElementOfSeq
  <2> QED
    BY <2>1 DEF Call
<1>4. calls' \in [1..Len(calls) -> Call]
  BY <1>2, <1>3
<1>5. calls' \in Seq(Call) /\ Len(calls') = Len(calls)
  BY <1>1, <1>4
<1> QED
  BY <1>2, <1>3, <1>5

LEMMA TaskStartsBase ==
  ASSUME Base, TaskStarts
  PROVE  Base'
<1>1. /\ calls' \in Seq(Call) /\ Len(calls') = Len(calls)
      /\ \A m \in 1..Len(calls) :
           /\ calls'[m] \in Call /\ ~ calls'[m].idle
           /\ calls'[m].does = calls[m].does /\ calls'[m].guarded = calls[m].guarded
  BY TaskStartsCalls
<1>2. CallsOK(calls', NowIdle')
  BY <1>1 DEF Base, CallsOK, CallOK
<1>3. manager.operationInProgress => SomeGuarded(calls')
  BY <1>1 DEF Base, SomeGuarded
<1>4. daemon' \in Process \cup {None}
  <2> DEFINE t == 1
  <2>1. /\ daemon \in Process /\ daemon.phase # "booting"
        /\ t \in 0..1 /\ daemon' = [daemon EXCEPT !.tasks = t]
    BY DEF TaskStarts, Base, RestOK
  <2> HIDE DEF t
  <2> QED
    BY <2>1, TasksFacts
<1>5. moves' \in 0..plan'.most /\ plan' \in Plans
  BY MoveOK DEF TaskStarts, Base
<1>6. RestOK'
  BY <1>4, <1>5 DEF TaskStarts, Base, RestOK
<1> QED
  BY <1>2, <1>3, <1>6 DEF TaskStarts, Base

LEMMA BaseInit == DaemonInit => Base
<1> SUFFICES ASSUME DaemonInit
             PROVE  Base
  OBVIOUS
<1>1. plan \in Plans /\ plan.user \in Users /\ plan.most \in Nat
  BY PlansAssumption DEF DaemonInit
<1>2. manager \in Managers /\ ~ manager.operationInProgress
  BY NewManagerOK DEF DaemonInit
<1>3. CallsOK(calls, NowIdle)
  BY <1>1, LaunchedOK, NoCallsOK, IdleIsBoolean DEF DaemonInit
<1>4. daemon \in Process \cup {None}
  BY <1>1 DEF DaemonInit, Process
<1>5. RestOK
  BY <1>1, <1>2, <1>4 DEF DaemonInit, RestOK
<1> QED
  BY <1>2, <1>3, <1>5 DEF Base

LEMMA BaseStep == Base /\ [DaemonNext]_daemonVars => Base'
<1> SUFFICES ASSUME Base, [DaemonNext]_daemonVars
             PROVE  Base'
  OBVIOUS
<1>1. CASE CallStep
  <2>1. PICK n \in DOMAIN calls :
           \/ ReadProfile(n) \/ WriteToken(n) \/ WriteOwner(n)
           \/ SwitchUser(n) \/ ClearToken(n) \/ RemoveOwner(n)
           \/ Guard(n) \/ NoBinary(n) \/ BeginStop(n) \/ Stopped(n)
           \/ BeginStart(n) \/ Spawn(n) \/ AlreadyRunning(n) \/ Spawned(n)
           \/ CheckVersion(n) \/ AutoStart(n)
    BY <1>1 DEF CallStep
  <2> QED
    BY <2>1, ProfileBase, SwitchUserBase, GuardBase, NoBinaryBase, BeginStopBase,
       StoppedBase, BeginStartBase, SpawnBase, AlreadyRunningBase, SpawnedBase,
       CheckVersionBase, AutoStartBase
<1>2. CASE Failure
  BY <1>2, MintFailsBase, StopFailsBase DEF Failure
<1>3. CASE \E found \in BOOLEAN : BootstrapCli(found)
  BY <1>3, BootstrapBase
<1>4. CASE RetryInstall \/ Poll \/ StoreStatus
  BY <1>4, RetryInstallBase, PollBase, StoreStatusBase
<1>5. CASE (\E u \in Users : LogIn(u)) \/ LogOut
  BY <1>5, LogInBase, LogOutBase
<1>6. CASE \E steps \in {StartDaemon, StopDaemon, RestartDaemon} : Operate(steps)
  BY <1>6, OperateBase
<1>7. CASE Relaunch \/ DaemonStep \/ TaskStarts
  BY <1>7, RelaunchBase, DaemonStepBase, TaskStartsBase
<1>8. CASE UNCHANGED daemonVars
  <2>1. RestOK' /\ calls' = calls /\ (NowIdle => NowIdle') /\ manager' = manager
    BY <1>8 DEF daemonVars, Base, RestOK, NowIdle
  <2> QED
    BY <2>1, SameCalls
<1> QED
  BY <1>1, <1>2, <1>3, <1>4, <1>5, <1>6, <1>7, <1>8 DEF DaemonNext

\* Every variable has its type, whatever the machine, its users and the number
\* of calls in flight.
THEOREM DaemonTyped == DaemonSpec => []DaemonTypeOK
<1>1. DaemonInit => Base
  BY BaseInit
<1>2. Base /\ [DaemonNext]_daemonVars => Base'
  BY BaseStep
<1>3. Base => DaemonTypeOK
  BY BaseIsInv
<1> QED
  BY <1>1, <1>2, <1>3, PTL DEF DaemonSpec

LEMMA IdleWhenStopped == Base => RestartsIdle
<1> SUFFICES ASSUME Base, NEW n \in DOMAIN calls, calls[n].idle, Healthy
             PROVE  daemon.tasks = 0
  BY DEF RestartsIdle
<1> QED
  BY AtCall DEF CallOK, NowIdle, Healthy

\* A daemon is only ever restarted for its version while no task runs on it,
\* unless the task came after the look that decided the restart.
THEOREM RestartsOnlyIdle == DaemonSpec => []RestartsIdle
<1>1. DaemonInit => Base
  BY BaseInit
<1>2. Base /\ [DaemonNext]_daemonVars => Base'
  BY BaseStep
<1> QED
  BY <1>1, <1>2, IdleWhenStopped, PTL DEF DaemonSpec

-----------------------------------------------------------------------------
(***************************************************************************)
(* Whom the daemon serves, while nothing excuses that it is someone else.  *)
(***************************************************************************)
LoginHeads == {"read", "write", "own", "switch"}

LogoutHeads == {"clear", "disown", "guard"}

WorkHeads == {"autoStart", "version", "stop", "stopped", "start", "spawn", "spawned"}

AllWork(s) == \A m \in 1..Len(s) : s[m].does \in WorkLeft

Stopping(s) == \E m \in 1..Len(s) : Head(s[m].does) \in {"stop", "stopped"}

Serves == IF user = None THEN ServesNobody ELSE ServesUser

Served ==
    /\ reasons = {} => Serves
    /\ reasons = {"interrupted"} => ServesProfile

LEMMA InvIsServed == DaemonInv <=> Base /\ Served
  BY BaseIsInv DEF DaemonInv, Served, Serves

LEMMA CallsDomain ==
  ASSUME Base
  PROVE  /\ DOMAIN calls = 1..Len(calls) /\ Len(calls) \in Nat /\ calls \in Seq(Call)
         /\ \A n \in 1..Len(calls) : calls[n] \in Call /\ calls[n].does \in AllLeft
  BY LenProperties DEF Base, CallsOK, CallOK

LEMMA Words ==
  ASSUME Base
  PROVE  /\ Working <=> AllWork(calls)
         /\ Working => ~ LoggingIn /\ ~ LoggingOut
         /\ LoggingIn => ~ LoggingOut
<1>1. Working <=> AllWork(calls)
  BY CallsDomain DEF Working, AllWork
<1>2. ASSUME Len(calls) = 1
      PROVE  calls[1].does \in AllLeft /\ 1 \in 1..Len(calls)
  BY <1>2, CallsDomain
<1>3. Working => ~ LoggingIn /\ ~ LoggingOut
  BY <1>1, <1>2, LeftSteps DEF AllWork, LoggingIn, LoggingOut
<1>4. LoggingIn => ~ LoggingOut
  BY <1>2, LeftSteps DEF LoggingIn, LoggingOut
<1> QED
  BY <1>1, <1>3, <1>4

\* Where the calls are, by whom the daemon serves.
LEMMA UserHeads ==
  ASSUME Base, ServesUser, NEW n \in DOMAIN calls
  PROVE  \/ Head(calls[n].does) \in LoginHeads /\ n = 1 /\ LoggingIn
         \/ Head(calls[n].does) \in WorkHeads /\ Working /\ ~ LoggingIn
<1>1. n \in 1..Len(calls) /\ Len(calls) \in Nat /\ calls[n].does \in AllLeft
  BY AtCall
<1>2. CASE LoggingIn
  <2>1. n = 1 /\ calls[n].does \in LoginLeft
    BY <1>1, <1>2 DEF LoggingIn
  <2> QED
    BY <1>1, <1>2, <2>1, LeftSteps DEF LoginHeads
<1>3. CASE ~ LoggingIn
  <2>1. Working
    BY <1>3 DEF ServesUser
  <2>2. calls[n].does \in WorkLeft
    BY <2>1 DEF Working
  <2> QED
    BY <1>1, <1>3, <2>1, <2>2, LeftSteps DEF WorkHeads
<1> QED
  BY <1>2, <1>3

LEMMA NobodyHeads ==
  ASSUME Base, ServesNobody, NEW n \in DOMAIN calls
  PROVE  /\ n = 1 /\ Len(calls) = 1
         /\ \/ Head(calls[n].does) \in LogoutHeads /\ LoggingOut
            \/ calls[n].does = <<"stopped">> /\ ~ LoggingOut
            \/ calls[n].does = <<"version">> /\ ~ LoggingOut /\ daemon = None
<1>1. n \in 1..Len(calls) /\ Len(calls) \in Nat /\ calls[n].does \in AllLeft
  BY AtCall
<1>2. CASE LoggingOut
  <2>1. n = 1 /\ Len(calls) = 1 /\ calls[n].does \in LogoutLeft
    BY <1>1, <1>2 DEF LoggingOut
  <2> QED
    BY <1>1, <1>2, <2>1, LeftSteps DEF LogoutHeads
<1>3. CASE ~ LoggingOut
  <2>1. calls # <<>>
    BY <1>1
  <2>2. \/ Len(calls) = 1 /\ calls[1].does = <<"stopped">>
        \/ Len(calls) = 1 /\ calls[1].does = <<"version">> /\ daemon = None
    BY <1>3, <2>1 DEF ServesNobody
  <2> QED
    BY <1>1, <1>3, <2>2
<1> QED
  BY <1>2, <1>3

\* The calls after a step, one by one.
LEMMA AfterGoesOn ==
  ASSUME Base, NEW n \in DOMAIN calls, NEW c \in Call,
         calls' = [calls EXCEPT ![n] = c]
  PROVE  /\ Len(calls') = Len(calls) /\ calls'[n] = c
         /\ \A m \in 1..Len(calls) : m # n => calls'[m] = calls[m]
<1>1. n \in 1..Len(calls) /\ calls \in Seq(Call)
  BY AtCall, CallsDomain
<1> QED
  BY <1>1, ExceptSeq

LEMMA AfterProceeds ==
  ASSUME Base, NEW n \in DOMAIN calls, Proceeds(n), Tail(calls[n].does) \in AllLeft
  PROVE  /\ Len(calls') = Len(calls)
         /\ calls'[n].does = Tail(calls[n].does)
         /\ calls'[n].as = calls[n].as /\ calls'[n].token = calls[n].token
         /\ calls'[n].owner = calls[n].owner /\ calls'[n].guarded = calls[n].guarded
         /\ \A m \in 1..Len(calls) : m # n => calls'[m] = calls[m]
<1> DEFINE c == Rest(calls[n])
<1>1. /\ c \in Call /\ c.does = Tail(calls[n].does) /\ c.as = calls[n].as
      /\ c.token = calls[n].token /\ c.owner = calls[n].owner
      /\ c.guarded = calls[n].guarded
  BY AtCall, IdleIsBoolean, RestFacts
<1>2. calls' = [calls EXCEPT ![n] = c]
  BY DEF Proceeds
<1> HIDE DEF c
<1> QED
  BY <1>1, <1>2, AfterGoesOn

LEMMA AfterEnds ==
  ASSUME Base, NEW n \in DOMAIN calls, Ends(n)
  PROVE  /\ Len(calls') = Len(calls) - 1
         /\ Len(calls) = 1 => calls' = <<>>
         /\ \A m \in 1..Len(calls') : \E k \in 1..Len(calls) : k # n /\ calls'[m] = calls[k]
         /\ \A k \in 1..Len(calls) : k # n => \E m \in 1..Len(calls') : calls'[m] = calls[k]
<1>1. n \in 1..Len(calls) /\ calls \in Seq(Call)
  BY AtCall, CallsDomain
<1>7. PICK d : d = RemoveAt(calls, n)
  OBVIOUS
<1>5. /\ d \in Seq(Call) /\ Len(d) = Len(calls) - 1
      /\ \A m \in 1..Len(calls) - 1 :
            \E k \in 1..Len(calls) : k # n /\ d[m] = calls[k]
      /\ \A k \in 1..Len(calls) :
            k # n => \E m \in 1..Len(calls) - 1 : d[m] = calls[k]
  <2>1. /\ RemoveAt(calls, n) \in Seq(Call)
        /\ Len(RemoveAt(calls, n)) = Len(calls) - 1
        /\ \A m \in 1..Len(calls) - 1 :
              \E k \in 1..Len(calls) : k # n /\ RemoveAt(calls, n)[m] = calls[k]
        /\ \A k \in 1..Len(calls) :
              k # n => \E m \in 1..Len(calls) - 1 : RemoveAt(calls, n)[m] = calls[k]
    BY ONLY <1>1, DroppedCall, Zenon
  <2> QED
    BY ONLY <1>7, <2>1
<1>6. calls' = d
  BY <1>7 DEF Ends
<1>2. /\ calls' \in Seq(Call) /\ Len(calls') = Len(calls) - 1
      /\ \A m \in 1..Len(calls) - 1 :
            \E k \in 1..Len(calls) : k # n /\ calls'[m] = calls[k]
      /\ \A k \in 1..Len(calls) :
            k # n => \E m \in 1..Len(calls) - 1 : calls'[m] = calls[k]
  BY ONLY <1>5, <1>6
<1>4. Len(calls) = 1 => calls' = <<>>
  BY <1>2, EmptySeq
<1> QED
  BY <1>2, <1>4

\* What a step that starts, stops or checks the daemon may do: a daemon it
\* leaves at work is as it was, and still will be stopped if it was to be.
LEMMA WorkSteps ==
  ASSUME Base, Working, NEW n \in DOMAIN calls,
         \/ BeginStop(n) \/ Stopped(n) \/ BeginStart(n) \/ Spawn(n)
         \/ AlreadyRunning(n) \/ Spawned(n) \/ CheckVersion(n) \/ AutoStart(n)
  PROVE  /\ AllWork(calls')
         /\ config' = config /\ user' = user /\ reasons' = reasons
         /\ Loaded' => /\ daemon' = daemon
                       /\ daemon.phase = "running" /\ Stopping(calls) => Stopping(calls')
<1>1. /\ n \in 1..Len(calls) /\ Len(calls) \in Nat
      /\ calls[n] \in Call /\ calls[n].does \in AllLeft
      /\ AllWork(calls)
  BY AtCall, Words
<1>2. config' = config /\ user' = user /\ reasons' = reasons
  BY DEF BeginStop, Stopped, BeginStart, Spawn, AlreadyRunning, Spawned, CheckVersion,
     AutoStart
<1>3. ASSUME Ends(n)
      PROVE  /\ AllWork(calls')
             /\ Head(calls[n].does) \notin {"stop", "stopped"} /\ Stopping(calls)
                  => Stopping(calls')
  <2>1. /\ \A m \in 1..Len(calls') : \E k \in 1..Len(calls) : k # n /\ calls'[m] = calls[k]
        /\ \A k \in 1..Len(calls) : k # n => \E m \in 1..Len(calls') : calls'[m] = calls[k]
    BY <1>3, AfterEnds
  <2>2. AllWork(calls')
    BY <1>1, <2>1 DEF AllWork
  <2>3. ASSUME Head(calls[n].does) \notin {"stop", "stopped"}, Stopping(calls)
        PROVE  Stopping(calls')
    BY <2>1, <2>3 DEF Stopping
  <2> QED
    BY <2>2, <2>3
<1>4. ASSUME NEW c \in Call, calls' = [calls EXCEPT ![n] = c], c.does \in WorkLeft,
             \/ Head(c.does) \in {"stop", "stopped"}
             \/ Head(calls[n].does) \notin {"stop", "stopped"}
      PROVE  AllWork(calls') /\ (Stopping(calls) => Stopping(calls'))
  <2>1. /\ Len(calls') = Len(calls) /\ calls'[n] = c
        /\ \A m \in 1..Len(calls) : m # n => calls'[m] = calls[m]
    BY <1>4, AfterGoesOn
  <2>2. AllWork(calls')
    BY <1>1, <1>4, <2>1 DEF AllWork
  <2>3. ASSUME Stopping(calls)
        PROVE  Stopping(calls')
    <3>1. PICK k \in 1..Len(calls) : Head(calls[k].does) \in {"stop", "stopped"}
      BY <2>3 DEF Stopping
    <3>2. CASE k = n
      BY <1>1, <1>4, <2>1, <3>1, <3>2 DEF Stopping
    <3>3. CASE k # n
      BY <2>1, <3>1, <3>3 DEF Stopping
    <3> QED
      BY <3>2, <3>3
  <2> QED
    BY <2>2, <2>3
<1>5. ASSUME Proceeds(n), Tail(calls[n].does) \in WorkLeft,
             \/ Head(Tail(calls[n].does)) \in {"stop", "stopped"}
             \/ Head(calls[n].does) \notin {"stop", "stopped"}
      PROVE  AllWork(calls') /\ (Stopping(calls) => Stopping(calls'))
  <2> DEFINE c == Rest(calls[n])
  <2>1. Tail(calls[n].does) \in AllLeft
    BY <1>5 DEF AllLeft
  <2>2. c \in Call /\ c.does = Tail(calls[n].does)
    BY <2>1, AtCall, IdleIsBoolean, RestFacts
  <2>3. calls' = [calls EXCEPT ![n] = c]
    BY <1>5 DEF Proceeds
  <2> HIDE DEF c
  <2> QED
    BY <1>4, <1>5, <2>2, <2>3
<1>6. CASE BeginStop(n)
  <2>1. Head(calls[n].does) = "stop" /\ Proceeds(n) /\ daemon' = daemon
    BY <1>6 DEF BeginStop, AtStep
  <2>2. Tail(calls[n].does) \in WorkLeft /\ Head(Tail(calls[n].does)) = "stopped"
    BY <1>1, <2>1, LeftSteps
  <2> QED
    BY <1>2, <1>5, <2>1, <2>2
<1>7. CASE Stopped(n)
  <2>1. Head(calls[n].does) = "stopped"
    BY <1>7 DEF Stopped, AtStep
  <2>2. AllWork(calls')
    <3>1. CASE Len(calls[n].does) > 1
      <4>1. Tail(calls[n].does) \in WorkLeft /\ Tail(calls[n].does) \in AllLeft
        <5>1. \/ Len(calls[n].does) = 1
              \/ Tail(calls[n].does) \in WorkLeft
          BY <1>1, <2>1, LeftSteps
        <5>2. Tail(calls[n].does) \in WorkLeft
          BY <3>1, <5>1, ~(1 > 1), Zenon
        <5> QED
          BY <5>2 DEF AllLeft
      <4>2. /\ Len(calls') = Len(calls) /\ calls'[n].does = Tail(calls[n].does)
            /\ \A m \in 1..Len(calls) : m # n => calls'[m] = calls[m]
        BY <1>7, <3>1, <4>1, AfterProceeds DEF Stopped
      <4> QED
        BY <1>1, <4>1, <4>2 DEF AllWork
    <3>2. CASE ~(Len(calls[n].does) > 1)
      BY <1>3, <1>7, <3>2 DEF Stopped
    <3> QED
      BY <3>1, <3>2
  <2>3. ASSUME Loaded'
        PROVE  daemon' = daemon /\ daemon.phase # "running"
    <3>1. ~ Healthy
      <4> SUFFICES ASSUME Healthy
                   PROVE  FALSE
        OBVIOUS
      <4>1. daemon \in Process /\ daemon.phase # "booting"
        BY DEF Healthy, Base, RestOK
      <4>2. [daemon EXCEPT !.phase = "closing"].phase = "closing"
        BY <4>1, PhaseFacts
      <4>3. daemon' = None \/ daemon' = [daemon EXCEPT !.phase = "closing"]
        BY <1>7 DEF Stopped
      <4>4. daemon' # None /\ daemon'.phase \in {"loading", "running"}
        BY <2>3 DEF Loaded
      <4> QED
        BY <4>2, <4>3, <4>4
    <3>2. daemon' = daemon
      BY <1>7, <3>1 DEF Stopped
    <3>3. daemon # None
      BY <2>3, <3>2 DEF Loaded
    <3> QED
      BY <3>1, <3>2, <3>3 DEF Healthy
  <2> QED
    BY <1>2, <2>2, <2>3
<1>8. CASE BeginStart(n)
  <2>1. Head(calls[n].does) = "start" /\ daemon' = daemon
    BY <1>8 DEF BeginStart, AtStep
  <2>2. Tail(calls[n].does) \in WorkLeft
    BY <1>1, <2>1, LeftSteps
  <2>3. Ends(n) \/ Proceeds(n)
    BY <1>8 DEF BeginStart
  <2> QED
    BY <1>2, <1>3, <1>5, <2>1, <2>2, <2>3
<1>9. CASE Spawn(n)
  <2>1. Head(calls[n].does) = "spawn" /\ Proceeds(n) /\ ~ Healthy
    BY <1>9 DEF Spawn, AtStep
  <2>2. Tail(calls[n].does) \in WorkLeft
    BY <1>1, <2>1, LeftSteps
  <2>3. Loaded' => daemon' = daemon
    BY <1>9, BootingFacts DEF Spawn, Loaded
  <2> QED
    BY <1>2, <1>5, <2>1, <2>2, <2>3
<1>10. CASE AlreadyRunning(n) \/ Spawned(n)
  <2>1. /\ Head(calls[n].does) \notin {"stop", "stopped"} /\ Ends(n)
        /\ daemon' = daemon
    BY <1>10 DEF AlreadyRunning, Spawned, AtStep
  <2> QED
    BY <1>2, <1>3, <2>1
<1>11. CASE CheckVersion(n)
  <2>1. Head(calls[n].does) = "version" /\ daemon' = daemon
    BY <1>11 DEF CheckVersion, AtStep
  <2>2. CASE Ends(n)
    BY <1>2, <1>3, <2>1, <2>2
  <2>3. CASE ~ Ends(n)
    <3> DEFINE c == [calls[n] EXCEPT !.does = RestartDaemon, !.idle = TRUE]
    <3>1. calls' = [calls EXCEPT ![n] = c]
      BY <1>11, <2>3 DEF CheckVersion
    <3>2. RestartDaemon \in WorkLeft /\ RestartDaemon \in Seq(Steps)
      BY LeftSteps DEF AllLeft, WorkLeft
    <3>3. c \in Call /\ c.does = RestartDaemon
      BY <1>1, <3>2 DEF Call
    <3> HIDE DEF c
    <3> QED
      BY <1>2, <1>4, <2>1, <3>1, <3>2, <3>3
  <2> QED
    BY <2>2, <2>3
<1>12. CASE AutoStart(n)
  <2>1. Head(calls[n].does) = "autoStart" /\ daemon' = daemon
    BY <1>12 DEF AutoStart, AtStep
  <2>2. PICK steps \in {<<"version">>, StartDaemon} :
          calls' = [calls EXCEPT ![n] = [calls[n] EXCEPT !.does = steps]]
    BY <1>12 DEF AutoStart
  <2> DEFINE c == [calls[n] EXCEPT !.does = steps]
  <2>3. steps \in WorkLeft /\ steps \in Seq(Steps)
    BY LeftSteps DEF AllLeft, WorkLeft
  <2>4. c \in Call /\ c.does = steps
    BY <1>1, <2>3 DEF Call
  <2>5. calls' = [calls EXCEPT ![n] = c]
    BY <2>2
  <2> HIDE DEF c
  <2> QED
    BY <1>2, <1>4, <2>1, <2>3, <2>4, <2>5
<1> QED
  BY <1>6, <1>7, <1>8, <1>9, <1>10, <1>11, <1>12

\* Somebody is logged in, and calls are at work on their daemon.
LEMMA UserWork ==
  ASSUME Base, user # None, ServesUser, Working
  PROVE  /\ ~ LoggingIn /\ config.token = user /\ config.owner = user
         /\ Loaded => daemon.user = user \/ (daemon.phase = "running" /\ Stopping(calls))
<1>1. ~ LoggingIn /\ config.token = user /\ config.owner = user
  BY Words DEF ServesUser
<1>2. Switching => daemon.phase = "running" /\ Stopping(calls)
  BY <1>1, CallsDomain DEF Switching, Stopping, AtStep
<1> QED
  BY <1>1, <1>2 DEF ServesUser

LEMMA WorkUser ==
  ASSUME Base', user' # None, AllWork(calls'), config'.token = user', config'.owner = user',
         Loaded' => \/ daemon'.user = user'
                    \/ daemon'.phase = "running" /\ Stopping(calls')
  PROVE  ServesUser'
<1>1. DOMAIN calls' = 1..Len(calls')
  BY LenProperties DEF Base, CallsOK
<1>2. Working'
  BY <1>1 DEF Working, AllWork
<1>3. ~ LoggingIn'
  <2> SUFFICES ASSUME Len(calls') = 1
               PROVE  calls'[1].does \notin LoginLeft
    BY DEF LoggingIn
  <2>1. calls'[1].does \in WorkLeft
    BY DEF AllWork
  <2>2. calls'[1].does \in AllLeft
    BY <2>1 DEF AllLeft
  <2> QED
    BY <2>1, <2>2, LeftSteps
<1>4. daemon'.phase = "running" /\ Stopping(calls') => Switching'
  BY <1>1 DEF Switching, Stopping, AtStep
<1> QED
  BY <1>2, <1>3, <1>4 DEF ServesUser

LEMMA UserWorks ==
  ASSUME Base, Base', user # None, ServesUser, NEW n \in DOMAIN calls,
         \/ BeginStop(n) \/ Stopped(n) \/ BeginStart(n) \/ Spawn(n)
         \/ AlreadyRunning(n) \/ Spawned(n) \/ CheckVersion(n) \/ AutoStart(n)
  PROVE  ServesUser'
<1>1. Head(calls[n].does) \notin LoginHeads
  BY DEF BeginStop, Stopped, BeginStart, Spawn, AlreadyRunning, Spawned, CheckVersion,
     AutoStart, AtStep, LoginHeads
<1>2. Working
  BY <1>1, UserHeads
<1>3. /\ config.token = user /\ config.owner = user
      /\ Loaded => daemon.user = user \/ (daemon.phase = "running" /\ Stopping(calls))
  BY <1>2, UserWork
<1>4. /\ AllWork(calls')
      /\ config' = config /\ user' = user
      /\ Loaded' => /\ daemon' = daemon
                    /\ daemon.phase = "running" /\ Stopping(calls) => Stopping(calls')
  BY <1>2, WorkSteps
<1>5. Loaded' => daemon'.user = user' \/ (daemon'.phase = "running" /\ Stopping(calls'))
  BY <1>3, <1>4 DEF Loaded
<1> QED
  BY <1>3, <1>4, <1>5, WorkUser

\* The steps of the login.
LEMMA UserReads ==
  ASSUME Base, Base', user # None, ServesUser, NEW n \in DOMAIN calls, ReadProfile(n),
         reasons' = {}
  PROVE  ServesUser'
<1>1. /\ Head(calls[n].does) = "read" /\ n = 1 /\ LoggingIn /\ Len(calls) = 1
      /\ calls[n] \in Call /\ calls[n].does \in AllLeft
  BY UserHeads, AtCall DEF ReadProfile, AtStep, WorkHeads, LoggingIn
<1>2. /\ Tail(calls[n].does) \in LoginLeft /\ Head(Tail(calls[n].does)) = "write"
      /\ Tail(calls[n].does) \in AllLeft
  BY <1>1, LeftSteps DEF AllLeft
<1> DEFINE c == [Rest(calls[n]) EXCEPT !.token = config.token, !.owner = config.owner]
<1>3. /\ c \in Call /\ c.does = Tail(calls[n].does) /\ c.as = calls[n].as
      /\ c.token = config.token /\ c.owner = config.owner
  <2>1. /\ Rest(calls[n]) \in Call /\ Rest(calls[n]).does = Tail(calls[n].does)
        /\ Rest(calls[n]).as = calls[n].as
    BY <1>2, AtCall, IdleIsBoolean, RestFacts
  <2>2. config.token \in Users \cup {None} /\ config.owner \in Users \cup {None}
    BY DEF Base, RestOK
  <2> QED
    BY <2>1, <2>2 DEF Call
<1>4. calls' = [calls EXCEPT ![n] = c]
  BY DEF ReadProfile
<1> HIDE DEF c
<1>5. Len(calls') = 1 /\ calls'[1] = c
  BY <1>1, <1>3, <1>4, AfterGoesOn
<1>6. LoggingIn' /\ Head(calls'[1].does) = "write"
  BY <1>2, <1>3, <1>5 DEF LoggingIn
<1>7. config' = config /\ user' = user /\ daemon' = daemon
  BY DEF ReadProfile
<1>8. ~(Healthy /\ config.owner = None)
  <2>1. (IF Healthy /\ config.owner = None THEN {"unowned"} ELSE {}) = {}
    BY BecauseOK DEF ReadProfile, Base, RestOK, Reasons
  <2> QED
    BY <2>1
<1>9. calls[1].as = user /\ config.token \in {None, user, config.owner}
  BY <1>1 DEF ServesUser
<1>10. config.owner # user => daemon = None \/ daemon.phase \in {"running", "closing"}
  BY DEF ServesUser
<1>11. config.owner = None => ~ Loaded
  BY <1>8, <1>10 DEF Healthy, Loaded
<1>12. config.owner # None /\ Loaded => daemon.user = config.owner
  BY <1>1 DEF ServesUser, Switching, AtStep
<1> QED
  BY <1>1, <1>3, <1>5, <1>6, <1>7, <1>9, <1>10, <1>11, <1>12
     DEF ServesUser, AtStep, Loaded

LEMMA UserWrites ==
  ASSUME Base, Base', user # None, ServesUser, NEW n \in DOMAIN calls, WriteToken(n)
  PROVE  ServesUser'
<1>1. /\ Head(calls[n].does) = "write" /\ n = 1 /\ LoggingIn /\ Len(calls) = 1
      /\ calls[n] \in Call /\ calls[n].does \in AllLeft
  BY UserHeads, AtCall DEF WriteToken, AtStep, WorkHeads, LoggingIn
<1>2. /\ Tail(calls[n].does) \in LoginLeft /\ Head(Tail(calls[n].does)) = "own"
      /\ Tail(calls[n].does) \in AllLeft
  BY <1>1, LeftSteps DEF AllLeft
<1>3. /\ Len(calls') = 1 /\ calls'[1].does = Tail(calls[1].does)
      /\ calls'[1].as = calls[1].as /\ calls'[1].owner = calls[1].owner
  BY <1>1, <1>2, AfterProceeds DEF WriteToken
<1>4. LoggingIn' /\ Head(calls'[1].does) = "own"
  BY <1>1, <1>2, <1>3 DEF LoggingIn
<1>5. /\ calls[1].as = user /\ calls[1].token = config.token
      /\ calls[1].owner = config.owner /\ config.token \in {None, user, config.owner}
  BY <1>1 DEF ServesUser, AtStep
<1>6. user' = user /\ daemon' = daemon /\ config'.token = user /\ config'.owner = config.owner
  BY <1>1, <1>5 DEF WriteToken, Cached, Base, RestOK
<1>7. /\ config.owner # user => daemon = None \/ daemon.phase \in {"running", "closing"}
      /\ config.owner = None => ~ Loaded
      /\ config.owner # None /\ Loaded => daemon.user = config.owner
  BY <1>1 DEF ServesUser, Switching, AtStep
<1> QED
  BY <1>3, <1>4, <1>5, <1>6, <1>7 DEF ServesUser, AtStep, Loaded

LEMMA UserOwns ==
  ASSUME Base, Base', user # None, ServesUser, NEW n \in DOMAIN calls, WriteOwner(n)
  PROVE  ServesUser'
<1>1. /\ Head(calls[n].does) = "own" /\ n = 1 /\ LoggingIn /\ Len(calls) = 1
      /\ calls[n] \in Call /\ calls[n].does \in AllLeft
  BY UserHeads, AtCall DEF WriteOwner, AtStep, WorkHeads, LoggingIn
<1>2. /\ Tail(calls[n].does) \in LoginLeft /\ Head(Tail(calls[n].does)) = "switch"
      /\ Tail(calls[n].does) \in AllLeft
  BY <1>1, LeftSteps DEF AllLeft
<1>3. /\ Len(calls') = 1 /\ calls'[1].does = Tail(calls[1].does)
      /\ calls'[1].as = calls[1].as /\ calls'[1].owner = calls[1].owner
  BY <1>1, <1>2, AfterProceeds DEF WriteOwner
<1>4. LoggingIn' /\ Head(calls'[1].does) = "switch"
  BY <1>1, <1>2, <1>3 DEF LoggingIn
<1>5. /\ calls[1].as = user /\ config.token = user /\ calls[1].owner = config.owner
  BY <1>1 DEF ServesUser, AtStep
<1>6. user' = user /\ daemon' = daemon /\ config'.token = user /\ config'.owner = user
  BY <1>1, <1>5 DEF WriteOwner, Base, RestOK
<1>7. /\ config.owner # user => daemon = None \/ daemon.phase \in {"running", "closing"}
      /\ config.owner = None => ~ Loaded
      /\ config.owner # None /\ Loaded => daemon.user = config.owner
  BY <1>1 DEF ServesUser, Switching, AtStep
<1>8. Loaded' => daemon'.user = user' \/ Switching'
  <2> SUFFICES ASSUME Loaded', daemon'.user # user'
               PROVE  Switching'
    OBVIOUS
  <2>1. Loaded /\ daemon.user = config.owner /\ config.owner # user
    BY <1>6, <1>7 DEF Loaded
  <2>2. daemon.phase = "running"
    BY <1>7, <2>1 DEF Loaded
  <2> QED
    BY <1>3, <1>4, <1>5, <1>6, <2>1, <2>2 DEF Switching, AtStep
<1> QED
  BY <1>3, <1>4, <1>5, <1>6, <1>8 DEF ServesUser, AtStep

LEMMA UserSwitches ==
  ASSUME Base, Base', user # None, ServesUser, NEW n \in DOMAIN calls, SwitchUser(n)
  PROVE  ServesUser'
<1> DEFINE c == NewCall(<<"autoStart">>, None)
           went == [calls EXCEPT ![n] = c]
           r == NewCall(RestartDaemon, None)
<1>1. /\ Head(calls[n].does) = "switch" /\ n = 1 /\ LoggingIn /\ Len(calls) = 1
      /\ calls \in Seq(Call) /\ n \in 1..Len(calls)
  BY UserHeads, CallsDomain DEF SwitchUser, AtStep, WorkHeads, LoggingIn
<1>2. /\ calls[1].as = user /\ config.token = user /\ config.owner = user
      /\ Loaded => \/ daemon.user = user
                   \/ daemon.phase = "running" /\ calls[1].owner = daemon.user
  <2>1. ~(Head(calls[1].does) \in {"stop", "stopped"}) /\ DOMAIN calls = {1}
    BY <1>1, CallsDomain
  <2> QED
    BY <1>1, <2>1 DEF ServesUser, Switching, AtStep
<1>3. user' = user /\ daemon' = daemon /\ config' = config
  BY DEF SwitchUser
<1>4. /\ c \in Call /\ c.does = <<"autoStart">> /\ r \in Call /\ r.does = RestartDaemon
  BY NewCallFacts DEF AllLeft, WorkLeft, CallOK
<1>5. c.does \in WorkLeft /\ r.does \in WorkLeft /\ Head(r.does) = "stop"
  BY <1>4, RestartInFull DEF WorkLeft
<1>6. went \in Seq(Call) /\ Len(went) = 1 /\ went[1] = c
  <2> HIDE DEF c
  <2>1. calls \in Seq(Call) /\ n \in 1..Len(calls) /\ c \in Call
    BY <1>1, <1>4
  <2>2. /\ went \in Seq(Call) /\ Len(went) = Len(calls)
        /\ \A j \in 1..Len(calls) : went[j] = IF j = n THEN c ELSE calls[j]
    BY <2>1, ExceptSeq
  <2> QED
    BY <1>1, <2>2
<1> HIDE DEF c, r
<1>7. CASE UserChanged(calls[n]) /\ Healthy
  <2>1. calls' = Append(went, r)
    BY <1>7 DEF SwitchUser, c, r
  <2> HIDE DEF went
  <2>2. Len(calls') = 2 /\ calls'[1] = c /\ calls'[2] = r
    <3>0. went \in Seq(Call) /\ r \in Call
      BY <1>4, <1>6
    <3>1. /\ Len(calls') = Len(went) + 1 /\ calls'[Len(went) + 1] = r
          /\ \A i \in 1..Len(went) : calls'[i] = went[i]
      BY <2>1, <3>0, AppendProperties
    <3> QED
      BY <1>6, <3>1
  <2>3. AllWork(calls') /\ Stopping(calls')
    BY <1>5, <2>2 DEF AllWork, Stopping
  <2>4. Loaded' => daemon'.user = user' \/ (daemon'.phase = "running" /\ Stopping(calls'))
    BY <1>2, <1>3, <2>3 DEF Loaded
  <2> QED
    BY <1>2, <1>3, <2>3, <2>4, WorkUser
<1>8. CASE ~(UserChanged(calls[n]) /\ Healthy)
  <2>1. calls' = went
    BY <1>8 DEF SwitchUser, c
  <2> HIDE DEF went
  <2>2. AllWork(calls')
    <3>1. Len(calls') = 1 /\ calls'[1] = c
      BY <1>6, <2>1
    <3>2. \A m \in 1..1 : m = 1
      OBVIOUS
    <3> QED
      BY <1>5, <3>1, <3>2 DEF AllWork
  <2>3. Loaded => daemon.user = user
    <3> SUFFICES ASSUME Loaded, daemon.user # user
                 PROVE  FALSE
      OBVIOUS
    <3>1. daemon.phase = "running" /\ calls[1].owner = daemon.user /\ daemon # None
      BY <1>2 DEF Loaded
    <3>2. daemon.user \in Users
      BY <3>1, ProcessFacts DEF Base, RestOK
    <3>3. UserChanged(calls[1])
      BY <1>2, <3>1, <3>2, UsersAssumption DEF UserChanged
    <3> QED
      BY <1>1, <1>8, <3>1, <3>3 DEF Healthy
  <2>4. Loaded' => daemon'.user = user'
    BY <1>3, <2>3 DEF Loaded
  <2> QED
    BY <1>2, <1>3, <2>2, <2>4, WorkUser
<1> QED
  BY <1>7, <1>8

\* Nobody is logged in: the logout goes on, and stops the daemon.
LEMMA NobodyClears ==
  ASSUME Base, Base', ServesNobody, NEW n \in DOMAIN calls,
         ClearToken(n) \/ RemoveOwner(n)
  PROVE  ServesNobody'
<1>1. /\ Head(calls[n].does) \in {"clear", "disown"} /\ n = 1 /\ LoggingOut
      /\ Len(calls) = 1 /\ calls[n].does \in AllLeft
  BY NobodyHeads, AtCall DEF ClearToken, RemoveOwner, AtStep
<1>2. /\ Tail(calls[n].does) \in LogoutLeft /\ Tail(calls[n].does) \in AllLeft
      /\ Head(calls[n].does) = "clear" => Head(Tail(calls[n].does)) = "disown"
      /\ Head(calls[n].does) = "disown" => Head(Tail(calls[n].does)) = "guard"
  BY <1>1, LeftSteps DEF AllLeft
<1>3. Len(calls') = 1 /\ calls'[1].does = Tail(calls[1].does)
  BY <1>1, <1>2, AfterProceeds DEF ClearToken, RemoveOwner
<1>4. LoggingOut'
  BY <1>1, <1>2, <1>3 DEF LoggingOut
<1>5. daemon' = daemon /\ manager' = manager
  BY DEF ClearToken, RemoveOwner
<1>6. /\ ~ manager.operationInProgress
      /\ daemon = None \/ daemon.phase \in {"running", "closing"}
      /\ config.owner # None /\ Loaded => daemon.user = config.owner
      /\ config.token \in {None, config.owner}
      /\ Head(calls[1].does) # "clear" => config.token = None
  BY <1>1 DEF ServesNobody, AtStep
<1>7. CASE ClearToken(n)
  <2>1. /\ config'.token = None /\ config'.owner = config.owner
        /\ Head(calls'[1].does) = "disown"
    BY <1>1, <1>2, <1>3, <1>7 DEF ClearToken, AtStep, Base, RestOK
  <2> QED
    BY <1>4, <1>5, <1>6, <2>1 DEF ServesNobody, AtStep, Loaded
<1>8. CASE RemoveOwner(n)
  <2>1. config'.token = None /\ config'.owner = None
    BY <1>1, <1>6, <1>8 DEF RemoveOwner, AtStep, Base, RestOK
  <2> QED
    BY <1>4, <1>5, <1>6, <2>1 DEF ServesNobody
<1> QED
  BY <1>7, <1>8

LEMMA NobodyGuards ==
  ASSUME Base, Base', ServesNobody, NEW n \in DOMAIN calls, Guard(n), reasons' = {}
  PROVE  ServesNobody'
<1>1. /\ Head(calls[n].does) = "guard" /\ n = 1 /\ LoggingOut
      /\ Len(calls) = 1 /\ calls[n].does \in AllLeft
  BY NobodyHeads, AtCall DEF Guard, AtStep
<1>2. Tail(calls[n].does) = <<"stopped">> /\ Tail(calls[n].does) \in AllLeft
  BY <1>1, LeftSteps DEF AllLeft, WorkLeft
<1>3. manager.bin # "missing"
  <2>1. (IF manager.bin = "missing" THEN {"failed"} ELSE {}) = {}
    BY BecauseOK DEF Guard, Base, RestOK, Reasons
  <2> QED
    BY <2>1
<1>4. /\ ~ manager.operationInProgress
      /\ daemon = None \/ daemon.phase \in {"running", "closing"}
      /\ config.token = None /\ config.owner = None
  BY <1>1 DEF ServesNobody, AtStep
<1> DEFINE c == [Rest(calls[n]) EXCEPT !.guarded = TRUE]
<1>5. calls' = [calls EXCEPT ![n] = c]
  BY <1>3, <1>4 DEF Guard
<1>6. c \in Call /\ c.does = <<"stopped">>
  <2>1. Rest(calls[n]) \in Call /\ Rest(calls[n]).does = <<"stopped">>
    BY <1>2, AtCall, IdleIsBoolean, RestFacts
  <2> QED
    BY <2>1 DEF Call
<1> HIDE DEF c
<1>7. Len(calls') = 1 /\ calls'[1].does = <<"stopped">>
  BY <1>1, <1>5, <1>6, AfterGoesOn
<1>8. <<"stopped">> \in AllLeft /\ <<"stopped">> \notin LogoutLeft
  <2>1. <<"stopped">> \in AllLeft /\ Head(<<"stopped">>) = "stopped"
    BY DEF AllLeft, WorkLeft
  <2> QED
    BY <2>1, LeftSteps
<1>9. ~ LoggingOut'
  BY <1>7, <1>8 DEF LoggingOut
<1>10. daemon' = daemon /\ config' = config
  BY DEF Guard
<1> QED
  BY <1>4, <1>7, <1>9, <1>10 DEF ServesNobody

LEMMA NobodyWorks ==
  ASSUME Base, Base', ServesNobody, NEW n \in DOMAIN calls,
         \/ BeginStop(n) \/ Stopped(n) \/ BeginStart(n) \/ Spawn(n)
         \/ AlreadyRunning(n) \/ Spawned(n) \/ CheckVersion(n) \/ AutoStart(n)
  PROVE  ServesNobody'
<1>1. /\ Head(calls[n].does) \notin LogoutHeads
      /\ Head(calls[n].does) = "stopped" => Stopped(n)
      /\ Head(calls[n].does) = "version" => CheckVersion(n)
  BY DEF BeginStop, Stopped, BeginStart, Spawn, AlreadyRunning, Spawned, CheckVersion,
     AutoStart, AtStep, LogoutHeads
<1>2. /\ n = 1 /\ Len(calls) = 1 /\ ~ LoggingOut
      /\ \/ calls[n].does = <<"stopped">>
         \/ calls[n].does = <<"version">> /\ daemon = None
  BY <1>1, NobodyHeads
<1>3. config.token = None /\ config.owner = None
  BY <1>2 DEF ServesNobody
<1>4. calls' = <<>> /\ (daemon' = None \/ daemon'.phase = "closing") /\ config' = config
  <2>1. CASE calls[n].does = <<"stopped">>
    <3>1. Stopped(n) /\ Len(calls[n].does) = 1
      BY <1>1, <2>1
    <3>2. Ends(n) /\ config' = config
      BY <3>1 DEF Stopped
    <3>3. daemon = None \/ daemon.phase \in {"running", "closing"}
      BY <1>2, <2>1 DEF ServesNobody
    <3>4. daemon' = None \/ daemon'.phase = "closing"
      <4>1. CASE Healthy
        <5>1. daemon \in Process /\ daemon.phase # "booting"
          BY <4>1 DEF Healthy, Base, RestOK
        <5>2. [daemon EXCEPT !.phase = "closing"].phase = "closing"
          BY <5>1, PhaseFacts
        <5>3. daemon' = None \/ daemon' = [daemon EXCEPT !.phase = "closing"]
          BY <3>1, <4>1 DEF Stopped
        <5> QED
          BY <5>2, <5>3
      <4>2. CASE ~ Healthy
        BY <3>1, <3>3, <4>2 DEF Healthy, Stopped
      <4> QED
        BY <4>1, <4>2
    <3> QED
      BY <1>2, <3>2, <3>4, AfterEnds
  <2>2. CASE calls[n].does = <<"version">> /\ daemon = None
    <3>1. CheckVersion(n)
      BY <1>1, <2>2
    <3>2. Ends(n) /\ daemon' = None /\ config' = config
      BY <2>2, <3>1 DEF CheckVersion, Mismatch, Healthy
    <3> QED
      BY <1>2, <3>2, AfterEnds
  <2> QED
    BY <1>2, <2>1, <2>2
<1>5. ~ LoggingOut'
  BY <1>4 DEF LoggingOut
<1> QED
  BY <1>3, <1>4, <1>5 DEF ServesNobody

\* A logout was cut short: calls at work on the daemon of the profile.
LEMMA ProfileWorks ==
  ASSUME Base, Base', ServesProfile, NEW n \in DOMAIN calls,
         \/ BeginStop(n) \/ Stopped(n) \/ BeginStart(n) \/ Spawn(n)
         \/ AlreadyRunning(n) \/ Spawned(n) \/ CheckVersion(n) \/ AutoStart(n)
  PROVE  ServesProfile'
<1>1. /\ AllWork(calls')
      /\ config' = config /\ user' = user
      /\ Loaded' => daemon' = daemon
  BY WorkSteps DEF ServesProfile
<1>2. Working'
  BY <1>1, LenProperties DEF Base, CallsOK, Working, AllWork
<1>3. Loaded' => Loaded /\ daemon'.user = daemon.user
  BY <1>1 DEF Loaded
<1> QED
  BY <1>1, <1>2, <1>3 DEF ServesProfile

\* A step of a call keeps the promise, or is a reason not to.
LEMMA CallServes ==
  ASSUME Base, Base', Served, CallStep
  PROVE  Served'
<1>1. PICK n \in DOMAIN calls :
         \/ ReadProfile(n) \/ WriteToken(n) \/ WriteOwner(n)
         \/ SwitchUser(n) \/ ClearToken(n) \/ RemoveOwner(n)
         \/ Guard(n) \/ NoBinary(n)
         \/ BeginStop(n) \/ Stopped(n) \/ BeginStart(n) \/ Spawn(n)
         \/ AlreadyRunning(n) \/ Spawned(n) \/ CheckVersion(n) \/ AutoStart(n)
  BY DEF CallStep
<1>2. user' = user
  BY <1>1 DEF ReadProfile, WriteToken, WriteOwner, SwitchUser, ClearToken, RemoveOwner,
     Guard, NoBinary, BeginStop, Stopped, BeginStart, Spawn, AlreadyRunning, Spawned,
     CheckVersion, AutoStart
<1>3. /\ reasons' = {} => reasons = {} /\ ~ NoBinary(n)
      /\ reasons' = {"interrupted"} => reasons = {"interrupted"} /\ ~ NoBinary(n)
  <2>1. CASE ReadProfile(n)
    <3>1. ~ NoBinary(n)
      BY <2>1 DEF ReadProfile, NoBinary, AtStep
    <3> QED
      BY <2>1, <3>1, BecauseOK DEF ReadProfile, Base, RestOK, Reasons
  <2>2. CASE Guard(n)
    <3>1. ~ NoBinary(n)
      BY <2>2 DEF Guard, NoBinary, AtStep
    <3> QED
      BY <2>2, <3>1, BecauseOK DEF Guard, Base, RestOK, Reasons
  <2>3. CASE NoBinary(n)
    BY <2>3, BecauseOK DEF NoBinary, Base, RestOK, Reasons
  <2>4. CASE ~(ReadProfile(n) \/ Guard(n) \/ NoBinary(n))
    BY <1>1, <2>4 DEF WriteToken, WriteOwner, SwitchUser, ClearToken, RemoveOwner,
       BeginStop, Stopped, BeginStart, Spawn, AlreadyRunning, Spawned, CheckVersion,
       AutoStart
  <2> QED
    BY <2>1, <2>2, <2>3, <2>4
<1>4. ASSUME reasons' = {}, user # None
      PROVE  ServesUser'
  <2>1. ServesUser /\ ~ NoBinary(n)
    BY <1>3, <1>4 DEF Served, Serves
  <2>2. ~(ClearToken(n) \/ RemoveOwner(n) \/ Guard(n))
    BY <2>1, UserHeads DEF ClearToken, RemoveOwner, Guard, AtStep, LoginHeads, WorkHeads
  <2> QED
    BY <1>1, <1>4, <2>1, <2>2, UserReads, UserWrites, UserOwns, UserSwitches, UserWorks
<1>5. ASSUME reasons' = {}, user = None
      PROVE  ServesNobody'
  <2>1. ServesNobody /\ ~ NoBinary(n)
    BY <1>3, <1>5 DEF Served, Serves
  <2>2. ~(ReadProfile(n) \/ WriteToken(n) \/ WriteOwner(n) \/ SwitchUser(n))
    BY <2>1, NobodyHeads
       DEF ReadProfile, WriteToken, WriteOwner, SwitchUser, AtStep, LogoutHeads
  <2> QED
    BY <1>1, <1>5, <2>1, <2>2, NobodyClears, NobodyGuards, NobodyWorks
<1>6. ASSUME reasons' = {"interrupted"}
      PROVE  ServesProfile'
  <2>1. ServesProfile /\ ~ NoBinary(n)
    BY <1>3, <1>6 DEF Served
  <2>2. Head(calls[n].does) \in WorkHeads
    <3>1. calls[n].does \in WorkLeft /\ calls[n].does \in AllLeft
      BY <2>1 DEF ServesProfile, Working, AllLeft
    <3> QED
      BY <3>1, LeftSteps DEF WorkHeads
  <2>3. ~ \/ ReadProfile(n) \/ WriteToken(n) \/ WriteOwner(n) \/ SwitchUser(n)
          \/ ClearToken(n) \/ RemoveOwner(n) \/ Guard(n)
    BY <2>2 DEF ReadProfile, WriteToken, WriteOwner, SwitchUser, ClearToken, RemoveOwner,
       Guard, AtStep, WorkHeads
  <2> QED
    BY <1>1, <2>1, <2>3, ProfileWorks
<1> QED
  BY <1>2, <1>4, <1>5, <1>6 DEF Served, Serves

\* Steps of the application that concern neither the profile nor the daemon.
LEMMA SameServes ==
  ASSUME Served, calls' = calls, config' = config, user' = user, daemon' = daemon,
         reasons' = reasons, manager'.operationInProgress => manager.operationInProgress
  PROVE  Served'
<1>1. /\ LoggingIn' = LoggingIn /\ LoggingOut' = LoggingOut /\ Working' = Working
      /\ Loaded' = Loaded /\ Switching' = Switching
  BY DEF LoggingIn, LoggingOut, Working, Loaded, Switching, AtStep
<1>2. ServesUser => ServesUser'
  BY <1>1 DEF ServesUser, AtStep
<1>3. ServesNobody => ServesNobody'
  BY <1>1 DEF ServesNobody, AtStep
<1>4. ServesProfile => ServesProfile'
  BY <1>1 DEF ServesProfile
<1> QED
  BY <1>2, <1>3, <1>4 DEF Served, Serves

LEMMA NotBusy ==
  ASSUME ~ Busy
  PROVE  /\ calls = <<>> /\ Len(calls) = 0
         /\ daemon = None \/ daemon.phase = "running"
  BY DEF Busy

LEMMA CrossingFacts ==
  /\ Crossing \in SUBSET Reasons
  /\ Crossing = {} => ~ Busy
  /\ Crossing \subseteq {"interrupted"} => ~ Busy
<1>1. CASE Busy
  BY <1>1 DEF Crossing, Reasons
<1>2. CASE ~ Busy
  BY <1>2 DEF Crossing, Reasons
<1> QED
  BY <1>1, <1>2

\* What begins while nothing is under way, and what does not is a reason.
LEMMA Crossed ==
  ASSUME Base, Because(Crossing)
  PROVE  /\ reasons' = {} => reasons = {} /\ ~ Busy
         /\ reasons' = {"interrupted"} => reasons = {"interrupted"} /\ ~ Busy
<1>1. reasons \subseteq Reasons
  BY DEF Base, RestOK
<1>2. Crossing # {"interrupted"}
  BY DEF Crossing
<1> QED
  BY <1>1, <1>2, BecauseOK, CrossingFacts

\* One call, where there was none.
LEMMA OneAdded ==
  ASSUME calls = <<>>, NEW c \in Call, calls' = Append(calls, c)
  PROVE  Len(calls') = 1 /\ calls'[1] = c /\ calls' # <<>>
<1>1. calls' = <<c>>
  OBVIOUS
<1> QED
  BY <1>1

LEMMA OneWork ==
  ASSUME Len(calls') = 1, calls'[1].does \in WorkLeft
  PROVE  AllWork(calls')
<1>1. \A m \in 1..1 : m = 1
  OBVIOUS
<1> QED
  BY <1>1 DEF AllWork

LEMMA IdleUser ==
  ASSUME Base, user # None, ServesUser, calls = <<>>
  PROVE  /\ config.token = user /\ config.owner = user
         /\ Loaded => daemon.user = user
<1>1. Len(calls) = 0
  OBVIOUS
<1>2. Working /\ ~ Stopping(calls)
  BY <1>1, CallsDomain DEF Working, Stopping
<1> QED
  BY <1>2, UserWork

LEMMA StoreStatusServes ==
  ASSUME Base, Base', Served, StoreStatus
  PROVE  Served'
<1>1. user' = user /\ config' = config /\ daemon' = daemon
      /\ manager'.operationInProgress = manager.operationInProgress
  BY DEF StoreStatus, Base, RestOK, Managers
<1>2. CASE manager.pendingVersionRestart /\ poll
  <2> DEFINE c == NewCall(<<"version">>, None)
  <2>1. calls' = Append(calls, c) /\ Because(Crossing)
    BY <1>2 DEF StoreStatus
  <2>2. c \in Call /\ c.does = <<"version">>
    BY NewCallFacts DEF AllLeft, WorkLeft, CallOK
  <2> HIDE DEF c
  <2>3. /\ reasons' = {} => reasons = {} /\ ~ Busy
        /\ reasons' = {"interrupted"} => reasons = {"interrupted"} /\ ~ Busy
    BY <2>1, Crossed
  <2>4. ASSUME ~ Busy
        PROVE  Len(calls') = 1 /\ calls'[1].does = <<"version">> /\ AllWork(calls')
    <3>1. Len(calls') = 1 /\ calls'[1] = c
      BY <2>1, <2>2, <2>4, NotBusy, OneAdded
    <3>2. calls'[1].does \in WorkLeft
      BY <2>2, <3>1 DEF WorkLeft
    <3> QED
      BY <2>2, <3>1, <3>2, OneWork
  <2>5. ASSUME reasons' = {}, user # None
        PROVE  ServesUser'
    <3>1. ServesUser /\ calls = <<>> /\ AllWork(calls')
      BY <2>3, <2>4, <2>5, NotBusy DEF Served, Serves
    <3>2. config.token = user /\ config.owner = user /\ (Loaded => daemon.user = user)
      BY <2>5, <3>1, IdleUser
    <3>3. Loaded' => daemon'.user = user'
      BY <1>1, <3>2 DEF Loaded
    <3> QED
      BY <1>1, <2>5, <3>1, <3>2, <3>3, WorkUser
  <2>6. ASSUME reasons' = {}, user = None
        PROVE  ServesNobody'
    <3>1. /\ ServesNobody /\ calls = <<>> /\ Len(calls) = 0
          /\ daemon = None \/ daemon.phase = "running"
          /\ Len(calls') = 1 /\ calls'[1].does = <<"version">>
      BY <2>3, <2>4, <2>6, NotBusy DEF Served, Serves
    <3>2. config.token = None /\ config.owner = None /\ daemon = None
      BY <3>1 DEF ServesNobody, LoggingOut
    <3>3. ~ LoggingOut'
      <4>1. <<"version">> \in AllLeft /\ Head(<<"version">>) = "version"
        BY DEF AllLeft, WorkLeft
      <4>2. <<"version">> \notin LogoutLeft
        BY <4>1, LeftSteps
      <4> QED
        BY <3>1, <4>2 DEF LoggingOut
    <3> QED
      BY <1>1, <3>1, <3>2, <3>3 DEF ServesNobody
  <2>7. ASSUME reasons' = {"interrupted"}
        PROVE  ServesProfile'
    <3>1. ServesProfile /\ AllWork(calls')
      BY <2>3, <2>4, <2>7 DEF Served
    <3>2. Working'
      BY <3>1, LenProperties DEF Base, CallsOK, Working, AllWork
    <3> QED
      BY <1>1, <3>1, <3>2 DEF ServesProfile, Loaded
  <2> QED
    BY <1>1, <2>5, <2>6, <2>7 DEF Served, Serves
<1>3. CASE ~(manager.pendingVersionRestart /\ poll)
  BY <1>1, <1>3, SameServes DEF StoreStatus
<1> QED
  BY <1>2, <1>3

LEMMA LogInServes ==
  ASSUME Base, Base', Served, NEW u \in Users, LogIn(u)
  PROVE  Served'
<1> DEFINE c == NewCall(LoginSteps, u)
<1>1. /\ user = None /\ user' = u /\ u # None
      /\ config' = config /\ daemon' = daemon /\ calls' = Append(calls, c)
  BY UsersAssumption DEF LogIn, Begin
<1>2. c \in Call /\ c.does = LoginSteps /\ c.as = u
  BY NewCallFacts DEF AllLeft, LoginLeft, CallOK
<1> HIDE DEF c
<1>3. CASE Busy
  <2>1. Because({"crossed"})
    BY <1>3 DEF LogIn
  <2>2. reasons' # {} /\ reasons' # {"interrupted"}
    BY <2>1, BecauseOK DEF Base, RestOK, Reasons
  <2> QED
    BY <2>2 DEF Served
<1>4. CASE ~ Busy
  <2>1. reasons' = reasons \ {"interrupted"}
    BY <1>4 DEF LogIn
  <2>2. reasons' # {"interrupted"}
    BY <2>1
  <2>3. ASSUME reasons' = {}
        PROVE  ServesUser'
    <3>1. reasons = {} \/ reasons = {"interrupted"}
      BY <2>1, <2>3
    <3>2. /\ calls = <<>> /\ Len(calls) = 0
          /\ daemon = None \/ daemon.phase = "running"
          /\ Len(calls') = 1 /\ calls'[1] = c
      BY <1>1, <1>2, <1>4, NotBusy, OneAdded
    <3>3. /\ config.token \in {None, config.owner}
          /\ config.owner # None /\ Loaded => daemon.user = config.owner
      <4>1. CASE reasons = {}
        <5>1. ServesNobody
          BY <1>1, <4>1 DEF Served, Serves
        <5> QED
          BY <3>2, <5>1 DEF ServesNobody, LoggingOut
      <4>2. CASE reasons = {"interrupted"}
        BY <4>2 DEF Served, ServesProfile
      <4> QED
        BY <3>1, <4>1, <4>2
    <3>4. /\ LoginSteps \in LoginLeft /\ Head(LoginSteps) = "read"
      BY DEF LoginLeft, LoginSteps
    <3>5. LoggingIn'
      BY <1>2, <3>2, <3>4 DEF LoggingIn
    <3> QED
      BY <1>1, <1>2, <3>2, <3>3, <3>4, <3>5 DEF ServesUser, AtStep, Loaded
  <2> QED
    BY <1>1, <2>2, <2>3 DEF Served, Serves
<1> QED
  BY <1>3, <1>4

LEMMA LogOutServes ==
  ASSUME Base, Base', Served, LogOut
  PROVE  Served'
<1> DEFINE c == NewCall(LogoutSteps, None)
<1>1. /\ user # None /\ user' = None /\ manager' = manager /\ Because(Crossing)
      /\ config' = config /\ daemon' = daemon /\ calls' = Append(calls, c)
  BY DEF LogOut, Begin
<1>2. c \in Call /\ c.does = LogoutSteps
  BY NewCallFacts DEF AllLeft, LogoutLeft, CallOK
<1> HIDE DEF c
<1>3. /\ reasons' = {} => reasons = {} /\ ~ Busy
      /\ reasons' = {"interrupted"} => reasons = {"interrupted"}
  BY <1>1, Crossed
<1>4. reasons' # {"interrupted"}
  BY <1>1, <1>3 DEF Served, ServesProfile
<1>5. ASSUME reasons' = {}
      PROVE  ServesNobody'
  <2>1. /\ calls = <<>> /\ Len(calls) = 0
        /\ daemon = None \/ daemon.phase = "running"
        /\ Len(calls') = 1 /\ calls'[1] = c
    BY <1>1, <1>2, <1>3, <1>5, NotBusy, OneAdded
  <2>2. ServesUser
    BY <1>1, <1>3, <1>5 DEF Served, Serves
  <2>3. config.token = user /\ config.owner = user /\ (Loaded => daemon.user = user)
    BY <1>1, <2>1, <2>2, IdleUser
  <2>4. ~ manager.operationInProgress
    BY <2>1 DEF Base, SomeGuarded
  <2>5. LogoutSteps \in LogoutLeft /\ Head(LogoutSteps) = "clear"
    BY DEF LogoutLeft, LogoutSteps
  <2>6. LoggingOut'
    BY <1>2, <2>1, <2>5 DEF LoggingOut
  <2> QED
    BY <1>1, <1>2, <2>1, <2>3, <2>4, <2>5, <2>6 DEF ServesNobody, AtStep, Loaded
<1> QED
  BY <1>1, <1>4, <1>5 DEF Served, Serves

LEMMA OperateServes ==
  ASSUME Base, Base', Served, NEW steps \in {StartDaemon, StopDaemon, RestartDaemon},
         Operate(steps)
  PROVE  Served'
<1> DEFINE c == [NewCall(steps, None) EXCEPT !.guarded = TRUE]
<1>1. /\ user # None /\ user' = user /\ Because(Crossing)
      /\ config' = config /\ daemon' = daemon /\ calls' = Append(calls, c)
  BY DEF Operate, Begin
<1>2. c \in Call /\ c.does = steps /\ steps \in WorkLeft
  BY OperationFacts DEF WorkLeft, CallOK
<1> HIDE DEF c
<1>3. /\ reasons' = {} => reasons = {} /\ ~ Busy
      /\ reasons' = {"interrupted"} => reasons = {"interrupted"}
  BY <1>1, Crossed
<1>4. reasons' # {"interrupted"}
  BY <1>1, <1>3 DEF Served, ServesProfile
<1>5. ASSUME reasons' = {}
      PROVE  ServesUser'
  <2>1. calls = <<>> /\ Len(calls') = 1 /\ calls'[1] = c
    BY <1>1, <1>2, <1>3, <1>5, NotBusy, OneAdded
  <2>2. ServesUser
    BY <1>1, <1>3, <1>5 DEF Served, Serves
  <2>3. config.token = user /\ config.owner = user /\ (Loaded => daemon.user = user)
    BY <1>1, <2>1, <2>2, IdleUser
  <2>4. AllWork(calls')
    BY <1>2, <2>1, OneWork
  <2>5. Loaded' => daemon'.user = user'
    BY <1>1, <2>3 DEF Loaded
  <2> QED
    BY <1>1, <2>3, <2>4, <2>5, WorkUser
<1> QED
  BY <1>1, <1>4, <1>5 DEF Served, Serves

\* A command or a token that failed is a reason.
LEMMA FailureServes ==
  ASSUME Base, Failure
  PROVE  Served'
<1>1. Because({"failed"})
  BY DEF Failure, MintFails, StopFails
<1>2. reasons' # {} /\ reasons' # {"interrupted"}
  BY <1>1, BecauseOK DEF Base, RestOK, Reasons
<1> QED
  BY <1>2 DEF Served

LEMMA CommandLineServes ==
  ASSUME Base, Served,
         (\E found \in BOOLEAN : BootstrapCli(found)) \/ RetryInstall \/ Poll
  PROVE  Served'
<1>1. /\ calls' = calls /\ config' = config /\ user' = user /\ daemon' = daemon
      /\ reasons' = reasons
      /\ manager'.operationInProgress = manager.operationInProgress
  BY DEF BootstrapCli, RetryInstall, Poll, Base, RestOK, Managers
<1> QED
  BY <1>1, SameServes

LEMMA RelaunchServes ==
  ASSUME Base, Base', Served, Relaunch
  PROVE  Served'
<1>1. /\ user' = user /\ config' = config /\ Because(CutShort)
      /\ daemon' = daemon \/ daemon' = None
      /\ calls' = IF user = None THEN <<>> ELSE <<NewCall(LoginSteps, user)>>
  BY DEF Relaunch
<1>2. Loaded' => Loaded /\ daemon' = daemon
  BY <1>1 DEF Loaded
<1>3. CutShort \in SUBSET Reasons
  BY DEF CutShort, Reasons
<1>4. /\ reasons' = {} => reasons = {} /\ CutShort = {}
      /\ reasons' = {"interrupted"} =>
            \/ reasons = {"interrupted"}
            \/ reasons = {} /\ CutShort = {"interrupted"}
  BY <1>1, <1>3, BecauseOK DEF Base, RestOK
<1>5. ASSUME reasons' = {}, user # None
      PROVE  ServesUser'
  <2> DEFINE c == NewCall(LoginSteps, user)
  <2>1. ServesUser /\ CutShort = {}
    BY <1>4, <1>5 DEF Served, Serves
  <2>2. c.does = LoginSteps /\ c.as = user
    BY DEF NewCall
  <2> HIDE DEF c
  <2>3. Len(calls') = 1 /\ calls'[1] = c
    BY <1>1, <1>5 DEF c
  <2>4. LoginSteps \in LoginLeft /\ Head(LoginSteps) = "read"
    BY DEF LoginLeft, LoginSteps
  <2>5. LoggingIn'
    BY <2>2, <2>3, <2>4 DEF LoggingIn
  <2>6. config.token \in {None, user, config.owner}
    BY <2>1 DEF ServesUser
  <2>7. config.owner # user => daemon' = None \/ daemon'.phase \in {"running", "closing"}
    BY <1>1, <2>1 DEF ServesUser
  <2>8. config.owner # None /\ Loaded => daemon.user = config.owner
    <3> SUFFICES ASSUME config.owner # None, Loaded, daemon.user # config.owner
                 PROVE  FALSE
      OBVIOUS
    <3>1. Switching /\ daemon.phase = "running" /\ daemon # None
      BY <2>1 DEF ServesUser, Switching, Loaded
    <3>2. config.owner # user
      BY <1>5, <2>1, <3>1 DEF CutShort
    <3>3. LoggingIn
      BY <2>1, <3>2 DEF ServesUser
    <3>4. ~ AtStep(1, "switch")
      BY <2>1, <3>2, <3>3 DEF ServesUser
    <3>5. PICK n \in DOMAIN calls : AtStep(n, "stop") \/ AtStep(n, "stopped")
      BY <3>1, <3>4 DEF Switching
    <3>6. Head(calls[n].does) \in LoginHeads
      BY <2>1, <3>3, UserHeads
    <3> QED
      BY <3>5, <3>6 DEF AtStep, LoginHeads
  <2> QED
    BY <1>1, <1>2, <2>2, <2>3, <2>4, <2>5, <2>6, <2>7, <2>8 DEF ServesUser, AtStep
<1>6. ASSUME reasons' = {}, user = None
      PROVE  ServesNobody'
  <2>1. ServesNobody /\ calls = <<>>
    BY <1>4, <1>6 DEF Served, Serves, CutShort
  <2>2. Len(calls) = 0 /\ calls' = <<>>
    BY <1>1, <1>6, <2>1
  <2>3. /\ config.token = None /\ config.owner = None
        /\ daemon = None \/ daemon.phase = "closing"
    BY <2>1, <2>2 DEF ServesNobody, LoggingOut
  <2>4. Len(calls') = 0 /\ ~ LoggingOut'
    BY <2>2 DEF LoggingOut
  <2> QED
    BY <1>1, <2>2, <2>3, <2>4 DEF ServesNobody
<1>7. ASSUME reasons' = {"interrupted"}
      PROVE  ServesProfile'
  <2>1. user = None
    BY <1>4, <1>7 DEF Served, ServesProfile, CutShort
  <2>2. /\ config.token \in {None, config.owner}
        /\ config.owner # None /\ Loaded => daemon.user = config.owner
    <3>1. CASE reasons = {"interrupted"}
      BY <3>1 DEF Served, ServesProfile
    <3>2. CASE reasons = {}
      <4>1. ServesNobody
        BY <2>1, <3>2 DEF Served, Serves
      <4> QED
        BY <4>1 DEF ServesNobody
    <3> QED
      BY <1>4, <1>7, <3>1, <3>2
  <2>3. Working'
    BY <1>1, <2>1 DEF Working
  <2> QED
    BY <1>1, <1>2, <2>1, <2>2, <2>3 DEF ServesProfile
<1> QED
  BY <1>1, <1>5, <1>6, <1>7 DEF Served, Serves

\* Only the daemon's load changes, and what the calls know of it.
LEMMA SameDaemon ==
  ASSUME Served, config' = config, user' = user, manager' = manager, reasons' = reasons,
         daemon # None, daemon'.phase = daemon.phase, daemon'.user = daemon.user,
         Len(calls') = Len(calls), DOMAIN calls' = DOMAIN calls,
         calls = <<>> => calls' = <<>>,
         calls[1].does = calls'[1].does, calls[1].as = calls'[1].as,
         calls[1].token = calls'[1].token, calls[1].owner = calls'[1].owner,
         \A m \in DOMAIN calls : calls'[m].does = calls[m].does
  PROVE  Served'
<1>1. /\ LoggingIn' = LoggingIn /\ LoggingOut' = LoggingOut /\ Working' = Working
      /\ Loaded' => Loaded
  BY DEF LoggingIn, LoggingOut, Working, Loaded
<1>3. Switching => Switching'
  BY <1>1 DEF Switching, AtStep
<1>4. ServesUser => ServesUser'
  BY <1>1, <1>3 DEF ServesUser, AtStep
<1>5. ServesNobody => ServesNobody'
  BY <1>1 DEF ServesNobody, AtStep
<1>6. ServesProfile => ServesProfile'
  BY <1>1 DEF ServesProfile
<1> QED
  BY <1>4, <1>5, <1>6 DEF Served, Serves

\* The daemon's own steps.
LEMMA DaemonStepServes ==
  ASSUME Base, Served, DaemonStep
  PROVE  Served'
<1>1. /\ UNCHANGED <<config, user, manager, calls, reasons>>
      /\ daemon # None /\ daemon \in Process
  BY DEF DaemonStep, Boot, Serve, Exit, TaskEnds, Base, RestOK
<1>2. /\ LoggingIn' = LoggingIn /\ LoggingOut' = LoggingOut /\ Working' = Working
  BY <1>1 DEF LoggingIn, LoggingOut, Working
<1>3. CASE Boot
  <2>1. CASE config.token = None
    <3>1. daemon' = None /\ ~ Loaded'
      BY <1>3, <2>1 DEF Boot, Loaded
    <3>2. ServesUser => ServesUser'
      BY <1>1, <1>2, <3>1 DEF ServesUser, AtStep
    <3>3. ServesNobody => ServesNobody'
      BY <1>1, <1>2, <3>1 DEF ServesNobody, AtStep
    <3>4. ServesProfile => ServesProfile'
      BY <1>1, <1>2, <3>1 DEF ServesProfile
    <3> QED
      BY <1>1, <3>2, <3>3, <3>4 DEF Served, Serves
  <2>2. CASE config.token # None
    <3>1. daemon.phase = "booting"
      BY <1>3 DEF Boot
    <3>2. daemon'.phase = "loading" /\ daemon'.user = config.token
      <4>1. config.token \in Users
        BY <2>2 DEF Base, RestOK
      <4>2. daemon' = [daemon EXCEPT !.phase = "loading", !.user = config.token]
        BY <1>3, <2>2 DEF Boot
      <4> QED
        BY <1>1, <4>1, <4>2, LoadingFacts
    <3>3. ServesUser => config.owner = user /\ config.token = user /\ user # None
      BY <1>1, <2>2, <3>1 DEF ServesUser
    <3>4. ServesUser => ServesUser'
      BY <1>1, <1>2, <3>2, <3>3 DEF ServesUser, AtStep
    <3>5. ~ ServesNobody
      BY <1>1, <2>2, <3>1 DEF ServesNobody
    <3>6. ServesProfile => ServesProfile'
      BY <1>1, <1>2, <2>2, <3>2 DEF ServesProfile
    <3> QED
      BY <1>1, <3>4, <3>5, <3>6 DEF Served, Serves
  <2> QED
    BY <2>1, <2>2
<1>4. CASE Serve
  <2>1. /\ daemon.phase = "loading" /\ Loaded
        /\ daemon'.phase = "running" /\ daemon'.user = daemon.user
    BY <1>1, <1>4, PhaseFacts DEF Serve, Loaded
  <2>2. ServesUser => ServesUser'
    BY <1>1, <1>2, <2>1 DEF ServesUser, Switching, AtStep
  <2>3. ~ ServesNobody
    BY <1>1, <2>1 DEF ServesNobody
  <2>4. ServesProfile => ServesProfile'
    BY <1>1, <1>2, <2>1 DEF ServesProfile
  <2> QED
    BY <1>1, <2>2, <2>3, <2>4 DEF Served, Serves
<1>5. CASE Exit
  <2>1. daemon' = None /\ ~ Loaded'
    BY <1>5 DEF Exit, Loaded
  <2>2. ServesUser => ServesUser'
    BY <1>1, <1>2, <2>1 DEF ServesUser, AtStep
  <2>3. ServesNobody => ServesNobody'
    BY <1>1, <1>2, <2>1 DEF ServesNobody, AtStep
  <2>4. ServesProfile => ServesProfile'
    BY <1>1, <1>2, <2>1 DEF ServesProfile
  <2> QED
    BY <1>1, <2>2, <2>3, <2>4 DEF Served, Serves
<1>6. CASE TaskEnds
  <2> DEFINE t == 0
  <2>1. daemon.phase # "booting" /\ t \in 0..1 /\ daemon' = [daemon EXCEPT !.tasks = t]
    BY <1>1, <1>6, ProcessFacts DEF TaskEnds
  <2> HIDE DEF t
  <2>2. daemon'.phase = daemon.phase /\ daemon'.user = daemon.user
    BY <1>1, <2>1, TasksFacts
  <2> QED
    BY <1>1, <2>2, SameDaemon
<1> QED
  BY <1>3, <1>4, <1>5, <1>6 DEF DaemonStep

LEMMA TaskStartsServes ==
  ASSUME Base, Served, TaskStarts
  PROVE  Served'
<1>1. /\ config' = config /\ user' = user /\ manager' = manager /\ reasons' = reasons
      /\ daemon # None
  BY DEF TaskStarts
<1>2. daemon'.phase = daemon.phase /\ daemon'.user = daemon.user
  <2> DEFINE t == 1
  <2>1. /\ daemon \in Process /\ daemon.phase # "booting"
        /\ t \in 0..1 /\ daemon' = [daemon EXCEPT !.tasks = t]
    BY DEF TaskStarts, Base, RestOK
  <2> HIDE DEF t
  <2> QED
    BY <2>1, TasksFacts
<1>3. /\ calls \in Seq(Call) /\ Len(calls) \in Nat /\ DOMAIN calls = 1..Len(calls)
      /\ calls' \in Seq(Call) /\ Len(calls') = Len(calls)
      /\ \A m \in 1..Len(calls) :
           /\ calls'[m].does = calls[m].does /\ calls'[m].as = calls[m].as
           /\ calls'[m].token = calls[m].token /\ calls'[m].owner = calls[m].owner
  BY CallsDomain, TaskStartsCalls
<1>4. DOMAIN calls' = DOMAIN calls
  BY <1>3, LenProperties
<1>5. CASE calls = <<>>
  <2>1. calls' = <<>>
    BY <1>3, <1>5, EmptySeq
  <2> QED
    BY <1>1, <1>2, <1>3, <1>4, <1>5, <2>1, SameDaemon
<1>6. CASE calls # <<>>
  <2>1. 1 \in 1..Len(calls)
    BY <1>3, <1>6, EmptySeq
  <2> QED
    BY <1>1, <1>2, <1>3, <1>4, <1>6, <2>1, SameDaemon
<1> QED
  BY <1>5, <1>6

LEMMA ServedInit == DaemonInit => Served
<1> SUFFICES ASSUME DaemonInit
             PROVE  Served
  OBVIOUS
<1>1. plan.user # None
  BY PlansAssumption, UsersAssumption DEF DaemonInit
<1>2. reasons = {} /\ manager = NewManager
  BY DEF DaemonInit
<1>3. CASE user = None
  <2>1. calls = <<>> /\ daemon = None /\ config.token = None /\ config.owner = None
    BY <1>1, <1>3 DEF DaemonInit
  <2>2. ~ LoggingOut
    BY <2>1 DEF LoggingOut
  <2> QED
    BY <1>2, <1>3, <2>1, <2>2 DEF Served, Serves, ServesNobody
<1>4. CASE user # None
  <2> DEFINE c == NewCall(LoginSteps, user)
  <2>1. /\ calls = <<c>> /\ config.token = user /\ config.owner = user
        /\ daemon # None => daemon.phase = "running" /\ daemon.user = user
    BY <1>4 DEF DaemonInit
  <2>2. c.does = LoginSteps /\ c.as = user
    BY DEF NewCall
  <2> HIDE DEF c
  <2>3. Len(calls) = 1 /\ calls[1] = c
    BY <2>1
  <2>4. LoginSteps \in LoginLeft /\ Head(LoginSteps) = "read"
    BY DEF LoginLeft, LoginSteps
  <2>5. LoggingIn
    BY <2>2, <2>3, <2>4 DEF LoggingIn
  <2>6. ServesUser
    BY <1>4, <2>1, <2>2, <2>3, <2>4, <2>5 DEF ServesUser, AtStep, Loaded
  <2> QED
    BY <1>2, <1>4, <2>6 DEF Served, Serves
<1> QED
  BY <1>3, <1>4

LEMMA ServedStep == Base /\ Base' /\ Served /\ [DaemonNext]_daemonVars => Served'
<1> SUFFICES ASSUME Base, Base', Served, [DaemonNext]_daemonVars
             PROVE  Served'
  OBVIOUS
<1>1. CASE CallStep
  BY <1>1, CallServes
<1>2. CASE Failure
  BY <1>2, FailureServes
<1>3. CASE (\E found \in BOOLEAN : BootstrapCli(found)) \/ RetryInstall \/ Poll
  BY <1>3, CommandLineServes
<1>4. CASE StoreStatus
  BY <1>4, StoreStatusServes
<1>5. CASE \E u \in Users : LogIn(u)
  BY <1>5, LogInServes
<1>6. CASE LogOut
  BY <1>6, LogOutServes
<1>7. CASE \E steps \in {StartDaemon, StopDaemon, RestartDaemon} : Operate(steps)
  BY <1>7, OperateServes
<1>8. CASE Relaunch
  BY <1>8, RelaunchServes
<1>9. CASE DaemonStep
  BY <1>9, DaemonStepServes
<1>10. CASE TaskStarts
  BY <1>10, TaskStartsServes
<1>11. CASE UNCHANGED daemonVars
  BY <1>11, SameServes DEF daemonVars
<1> QED
  BY <1>1, <1>2, <1>3, <1>4, <1>5, <1>6, <1>7, <1>8, <1>9, <1>10, <1>11 DEF DaemonNext

LEMMA InvInit == DaemonInit => DaemonInv
  BY BaseInit, ServedInit, InvIsServed

LEMMA InvStep == DaemonInv /\ [DaemonNext]_daemonVars => DaemonInv'
<1> SUFFICES ASSUME DaemonInv, [DaemonNext]_daemonVars
             PROVE  DaemonInv'
  OBVIOUS
<1>1. Base /\ Served
  BY InvIsServed
<1>2. Base'
  BY <1>1, BaseStep
<1>3. Served'
  BY <1>1, <1>2, ServedStep
<1>4. (Base <=> DaemonTypeOK /\ CallsShaped /\ GuardHeld /\ IdleSeen)'
  BY BaseIsInv, PTL
<1> QED
  BY <1>2, <1>3, <1>4 DEF DaemonInv, Served, Serves

LEMMA ServedAtRest == DaemonInv => DaemonOfUser
<1> SUFFICES ASSUME DaemonInv, DaemonAtRest, daemon # None, daemon.user # user,
                    reasons \cap {"crossed", "unowned", "unswitched", "failed"} = {}
             PROVE  user = None /\ "interrupted" \in reasons
  BY DEF DaemonOfUser
<1>1. Base /\ Served /\ calls = <<>> /\ Loaded /\ daemon.phase = "running"
  BY InvIsServed DEF DaemonAtRest, Loaded
<1>2. reasons = {} \/ reasons = {"interrupted"}
  BY <1>1 DEF Base, RestOK, Reasons
<1>3. reasons # {}
  <2> SUFFICES ASSUME reasons = {}
               PROVE  FALSE
    OBVIOUS
  <2>1. CASE user # None
    BY <1>1, <2>1, IdleUser DEF Served, Serves
  <2>2. CASE user = None
    <3>1. ServesNobody /\ Len(calls) = 0
      BY <1>1, <2>2 DEF Served, Serves
    <3> QED
      BY <1>1, <3>1 DEF ServesNobody, LoggingOut
  <2> QED
    BY <2>1, <2>2
<1> QED
  BY <1>1, <1>2, <1>3 DEF Served, ServesProfile

\* With nothing under way, a daemon that runs works for the user who is logged
\* in, and none runs when nobody is, unless one of the reasons named stands.
THEOREM RunsForUser == DaemonSpec => []DaemonOfUser
<1>1. DaemonInit => DaemonInv
  BY InvInit
<1>2. DaemonInv /\ [DaemonNext]_daemonVars => DaemonInv'
  BY InvStep
<1> QED
  BY <1>1, <1>2, ServedAtRest, PTL DEF DaemonSpec

-----------------------------------------------------------------------------
(***************************************************************************)
(* The desktop application: each part's steps are those of its own         *)
(* specification, or leave it alone.                                       *)
(***************************************************************************)
LEMMA PartsOfInit == DesktopInit => TabInit /\ DaemonInit
  BY DEF DesktopInit

LEMMA PartsOfStep ==
  [DesktopNext]_desktopVars => [TabNext]_tabVars /\ [DaemonNext]_daemonVars
  BY DEF DesktopNext, TabsMove, DaemonMoves, desktopVars

LEMMA PartsOfSpec == DesktopSpec => TabSpec /\ DaemonSpec
  BY PartsOfInit, PartsOfStep, PTL DEF DesktopSpec, TabSpec, DaemonSpec

\* Every variable of the desktop application has its type.
THEOREM DesktopTyped == DesktopSpec => []DesktopTypeOK
  BY PartsOfSpec, TabSpec_TypeOK, DaemonTyped, PTL DEF DesktopTypeOK

\* What is proved of the daemon's manager holds of the whole.
THEOREM DesktopServes == DesktopSpec => [](DaemonOfUser /\ RestartsIdle)
  BY PartsOfSpec, RunsForUser, RestartsOnlyIdle, PTL
=============================================================================
