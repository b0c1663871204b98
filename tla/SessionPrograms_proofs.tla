----------------------- MODULE SessionPrograms_proofs -----------------------
(***************************************************************************)
(* Proofs about the programs around a couch session, for any number of     *)
(* hooks, processes and watches.                                           *)
(***************************************************************************)
EXTENDS SessionPrograms, TLAPS

USE ProgramsAssumption, ManualExitAssumption, HooksAssumption

-----------------------------------------------------------------------------
(* A given-up command.                                                     *)

\* While a command is being killed, only what ignores SIGTERM is left of it.
HookInv ==
  /\ procs \subseteq Group
  /\ hook = "term" => procs \subseteq Stubborn
  /\ GivenUpCommandsDie

\* A step of run_phase, or none.
HookMoves ==
  \/ RunPhase \/ Spawn \/ Communicated \/ TimeOut \/ KillEnds \/ CancelPhase
  \/ Return \/ \E p \in Group : ProcessExits(p)
  \/ UNCHANGED hvars

LEMMA NextMovesHooks == [Next]_vars => HookMoves
<1> SUFFICES ASSUME [Next]_vars PROVE HookMoves
  OBVIOUS
<1> USE DEF HookMoves, hvars
<1>1. CASE EnterCouch \/ Entering \/ Teardown
  BY <1>1 DEF EnterCouch, Entering, PrestartDone, SwitchToCouch, WatcherStarted,
     LaunchDone, PoststartDone, Teardown, PreexitDone, WatcherStopped, ExitDone,
     SwitchToDesk, PostexitDone, PreexitCancelled
<1>2. ASSUME NEW rest, Cancelled(rest) PROVE HookMoves
  BY <1>2 DEF Cancelled
<1>3. CASE CancelTeardown
  BY <1>2, <1>3 DEF CancelTeardown
<1>4. ASSUME NEW w \in Watches,
             WatchEnding(w) \/ NodeLost(w) \/ ButtonReleased(w) \/ ButtonsHeld(w)
      PROVE  HookMoves
  BY <1>2, <1>4 DEF WatchEnding, NodeLost, ButtonReleased, ButtonsHeld, CancelsHold
<1>5. ASSUME NEW r \in Watches \cup {0}, BeginTeardown(r) PROVE HookMoves
  BY <1>5 DEF BeginTeardown
<1>6. CASE HookStep \/ CommandExits
  BY <1>6 DEF HookStep, CommandExits
<1>7. CASE \/ ApiCall \/ Steam \/ Reconnect \/ ReconnectDone
           \/ \E u \in Users : StopAwaited(u)
           \/ \E x \in Callers : LaunchStep(x)
  BY <1>7 DEF ApiCall, Steam, Reconnect, ReconnectDone, StopAwaited, LaunchStep
<1>8. CASE UNCHANGED vars
  BY <1>8 DEF vars
<1> QED
  BY <1>1, <1>3, <1>4, <1>5, <1>6, <1>7, <1>8 DEF Next

LEMMA HookMovesKeepInv ==
  ASSUME HookInv, HookMoves
  PROVE  HookInv'
<1> USE DEF HookInv, GivenUpCommandsDie, Group
<1>1. CASE RunPhase \/ Return \/ UNCHANGED hvars
  BY <1>1 DEF RunPhase, Return, hvars
<1>2. CASE Spawn
  BY <1>2 DEF Spawn, Proceed
<1>3. CASE Communicated
  BY <1>3 DEF Communicated, Proceed
<1>4. ASSUME NEW why, GiveUpCommand(why) PROVE HookInv'
  BY <1>4 DEF GiveUpCommand, Survivors
<1>5. CASE KillEnds
  <2>1. procs' \subseteq Group /\ hook' # "term"
    BY <1>5 DEF KillEnds, Proceed
  <2>2. CASE "leader" \notin procs /\ outlived' = outlived \cup (procs \X {"asked"})
    <3>1. procs \subseteq Stubborn \ {"leader"}
      BY <1>5, <2>2 DEF KillEnds
    <3> QED
      BY <2>1, <2>2, <3>1
  <2>3. CASE outlived' = outlived \cup (SigKilled(procs) \X {"killed"})
    BY <2>1, <2>3 DEF SigKilled
  <2> QED
    BY <1>5, <2>2, <2>3 DEF KillEnds
<1>6. CASE TimeOut \/ CancelPhase
  BY <1>4, <1>6 DEF TimeOut, CancelPhase
<1>7. ASSUME NEW p \in Group, ProcessExits(p) PROVE HookInv'
  BY <1>7 DEF ProcessExits
<1> QED
  BY <1>1, <1>2, <1>3, <1>5, <1>6, <1>7 DEF HookMoves

\* Whichever processes ignore SIGTERM, a command that timed out or was cancelled
\* leaves nothing behind but a background process that does, and whose shell does
\* not, whatever the transition does meanwhile, unless the killing itself is
\* cancelled: what is still there with the shell after two seconds gets SIGKILL
\* (_kill_group of hooks.py).
THEOREM NothingOutlives == Spec => []GivenUpCommandsDie
<1>1. Init => HookInv
  BY DEF Init, HInit, HookInv, GivenUpCommandsDie
<1>2. HookInv /\ [Next]_vars => HookInv'
  BY NextMovesHooks, HookMovesKeepInv
<1>3. HookInv => GivenUpCommandsDie
  BY DEF HookInv
<1> QED
  BY <1>1, <1>2, <1>3, PTL DEF Spec

-----------------------------------------------------------------------------
(* The launched Steam.                                                     *)

\* Every stale client is one the launch of this session waits for, until there
\* is none left.
LaunchInv ==
  /\ LTypeOK
  /\ stage = "launch" =>
       /\ call["session"] # "idle" /\ goal["session"] = "launch"
       /\ IF call["session"] \in {"ask", "wait"} THEN stale \subseteq prior["session"]
          ELSE stale = {}
  /\ stage \in {"poststart", "couch"} => stale = {}

\* What the others do to Steam and its callers while a session launches or rests.
LaunchMoves ==
  \/ \E x \in Callers : Ask(x) \/ Poll(x) \/ WaitTimesOut(x) \/ Start(x)
  \/ LReturn("api") \/ Begin("api", "launch") \/ Begin("api", "exit")
  \/ SteamStarts \/ \E p \in Pids : SteamExits(p)
  \/ UNCHANGED lvars

LEMMA AppearsKeepsClients ==
  ASSUME LTypeOK, NEW kind \in {"client", "boot"}, Appears(kind)
  PROVE  steam' \in [Pids -> {"none", "client", "boot"}] /\ Clients \subseteq Clients'
BY DEF LTypeOK, Appears, Running, Clients

LEMMA LaunchMovesKeepInv ==
  ASSUME LaunchInv, LaunchMoves, UNCHANGED stage
  PROVE  LaunchInv'
<1> USE DEF LaunchInv, LTypeOK
<1>1. ASSUME NEW x \in Callers, Ask(x) PROVE LaunchInv'
  <2>1. steam' \in [Pids -> {"none", "client", "boot"}] /\ Clients \subseteq Clients'
    BY <1>1, AppearsKeepsClients DEF Ask, Clients
  <2> QED
    BY <1>1, <2>1 DEF Ask
<1>2. ASSUME NEW x \in Callers, Poll(x) PROVE LaunchInv'
  <2>1. x = "session" /\ stale \subseteq prior[x] => stale = {}
    BY <1>2 DEF Poll, WaitedEnough, Running, Clients
  <2> QED
    BY <1>2, <2>1 DEF Poll, AfterWait, Clients
<1>3. ASSUME NEW x \in Callers, WaitTimesOut(x) PROVE LaunchInv'
  BY <1>3 DEF WaitTimesOut, AfterWait, Clients
<1>4. ASSUME NEW x \in Callers, Start(x) PROVE LaunchInv'
  <2>1. steam' \in [Pids -> {"none", "client", "boot"}] /\ Clients \subseteq Clients'
    BY <1>4, AppearsKeepsClients DEF Start, Clients
  <2> QED
    BY <1>4, <2>1 DEF Start
<1>5. CASE LReturn("api")
  BY <1>5 DEF LReturn, Clients
<1>6. ASSUME NEW g \in {"launch", "exit"}, Begin("api", g) PROVE LaunchInv'
  BY <1>6 DEF Begin, Clients, Running
<1>7. CASE SteamStarts
  <2>1. steam' \in [Pids -> {"none", "client", "boot"}] /\ Clients \subseteq Clients'
    BY <1>7, AppearsKeepsClients DEF SteamStarts
  <2> QED
    BY <1>7, <2>1 DEF SteamStarts
<1>8. ASSUME NEW p \in Pids, SteamExits(p) PROVE LaunchInv'
  BY <1>8 DEF SteamExits, Clients
<1>9. CASE UNCHANGED lvars
  BY <1>9 DEF lvars, Clients
<1> QED
  BY <1>1, <1>2, <1>3, <1>4, <1>5, <1>6, <1>7, <1>8, <1>9 DEF LaunchMoves

\* The transition itself: what it finds running when it launches, it waits for.
LEMMA TransitionKeepsLaunchInv ==
  ASSUME LaunchInv,
         \/ EnterCouch \/ Entering \/ Teardown \/ CancelTeardown
         \/ \E r \in Watches \cup {0} : BeginTeardown(r)
         \/ \E w \in Watches : CancelsHold(w)
  PROVE  LaunchInv'
<1> USE DEF LaunchInv, LTypeOK
<1>1. CASE EnterCouch \/ PrestartDone \/ PreexitDone \/ PostexitDone \/ PreexitCancelled
  BY <1>1 DEF EnterCouch, PrestartDone, PreexitDone, PostexitDone, PreexitCancelled,
     lvars, Clients
<1>2. CASE SwitchToCouch \/ SwitchToDesk
  BY <1>2 DEF SwitchToCouch, SwitchToDesk, ModeSet, lvars, Clients
<1>3. ASSUME NEW g \in {"launch", "exit"}, Begin("session", g)
      PROVE  /\ LTypeOK'
             /\ call'["session"] # "idle" /\ goal'["session"] = g
             /\ IF call'["session"] \in {"ask", "wait"} THEN stale' \subseteq prior'["session"]
                ELSE g = "launch" => stale' = {}
  <2>1. stale \subseteq Running
    BY DEF Running, Clients
  <2> QED
    BY <1>3, <2>1 DEF Begin, StartsAtOnce, Running, Clients
<1>4. CASE WatcherStarted
  BY <1>3, <1>4 DEF WatcherStarted
<1>5. CASE WatcherStopped
  BY <1>3, <1>5 DEF WatcherStopped
<1>6. CASE LaunchDone \/ ExitDone
  BY <1>6 DEF LaunchDone, ExitDone, LReturn, Clients
<1>7. CASE PoststartDone
  BY <1>7 DEF PoststartDone, lvars, Clients
<1>8. ASSUME NEW r \in Watches \cup {0}, BeginTeardown(r) PROVE LaunchInv'
  BY <1>8 DEF BeginTeardown, Resting, svars, lvars, Clients
<1>9. ASSUME NEW rest \in {"torn", "dropped"}, Cancelled(rest) PROVE LaunchInv'
  BY <1>9 DEF Cancelled, Drop, ModeSet, lvars, Clients
<1>10. CASE CancelTeardown
  BY <1>9, <1>10 DEF CancelTeardown
<1>11. ASSUME NEW w \in Watches, CancelsHold(w) PROVE LaunchInv'
  BY <1>9, <1>11 DEF CancelsHold, svars, lvars, Clients
<1> QED
  BY <1>1, <1>2, <1>4, <1>5, <1>6, <1>7, <1>8, <1>10, <1>11 DEF Entering, Teardown

LEMMA NextKeepsLaunchInv == LaunchInv /\ [Next]_vars => LaunchInv'
<1> SUFFICES ASSUME LaunchInv, [Next]_vars PROVE LaunchInv'
  OBVIOUS
<1> USE DEF LaunchMoves, svars
<1>1. CASE ApiCall \/ Steam \/ \E x \in Callers : LaunchStep(x)
  BY <1>1, LaunchMovesKeepInv DEF ApiCall, Steam, LaunchStep
<1>2. CASE \/ HookStep \/ CommandExits \/ Reconnect \/ ReconnectDone
           \/ (\E u \in Users : StopAwaited(u)) \/ (\E w \in Watches : ButtonsHeld(w))
           \/ UNCHANGED vars
  BY <1>2, LaunchMovesKeepInv DEF HookStep, CommandExits, Reconnect, ReconnectDone,
     StopAwaited, ButtonsHeld, vars
<1>3. CASE \/ EnterCouch \/ Entering \/ Teardown \/ CancelTeardown
           \/ (\E r \in Watches \cup {0} : BeginTeardown(r))
           \/ \E w \in Watches : WatchEnding(w) \/ NodeLost(w) \/ ButtonReleased(w)
  BY <1>3, TransitionKeepsLaunchInv DEF WatchEnding, NodeLost, ButtonReleased
<1> QED
  BY <1>1, <1>2, <1>3 DEF Next

\* A rested couch session shows no Steam that lived through a switch of the
\* display mode, unless the wait for it ran out: for any number of processes, and
\* with any API calls, Steam starts and Steam exits beside the session's own
\* launch (launch_steam_bigpicture).
THEOREM FreshSwapchain == Spec => []NoStaleSwapchain
<1>1. Init => LaunchInv
  <2>1. LInit => \A x \in Callers : call[x] = "idle" /\ prior[x] = {}
    BY DEF LInit
  <2> QED
    BY <2>1 DEF Init, LInit, LaunchInv, LTypeOK
<1>2. LaunchInv => NoStaleSwapchain
  BY DEF LaunchInv, NoStaleSwapchain
<1> QED
  BY <1>1, <1>2, NextKeepsLaunchInv, PTL DEF Spec

-----------------------------------------------------------------------------
(* The exit shortcut, where no controller comes back during a teardown.    *)

AllDone == \A w \in Watches : watch[w] = "done"

\* One watch lives at a time and `_task` names it; who awaits one awaits that one.
OneWatch ==
  /\ \A w \in Watches : watch[w] # "done" => task = w
  /\ \A u \in Users : op[u].on # 0 => op[u].on = task

\* Nobody calls the watcher while somebody else does.
OneUser ==
  /\ \A u \in Users \ {"session", "reconnect"} : op[u] = NoCall
  /\ stage \notin {"start", "stop"} => op["session"] = NoCall
  /\ stage \in {"start", "stop"} \cup
       {"exit", "switch to desk", "postexit", "desk", "prestart", "switch to couch"}
       => op["reconnect"] = NoCall

\* The watch is over before anything else of the session is taken down.
WatchOver ==
  /\ stage = "stop" =>
       /\ op["session"].does \in {"stop", "done"}
       /\ op["session"].does = "done" => AllDone
  /\ stage \in {"exit", "switch to desk", "postexit", "desk", "prestart", "switch to couch"}
       => AllDone

WatchInv == MTypeOK /\ OneWatch /\ OneUser /\ WatchOver /\ stage # "dropped"

\* The calls of one user, while no other user is in one.
LEMMA CallKeepsOneWatch ==
  ASSUME MTypeOK, OneWatch, NEW u \in Users, NEW does \in {"start", "stop"},
         \A v \in Users \ {u} : op[v] = NoCall,
         CallWatcher(u, does) \/ (Awake(u) /\ op[u].does = does)
  PROVE  /\ MTypeOK' /\ OneWatch'
         /\ \A v \in Users \ {u} : op'[v] = NoCall
         /\ op'[u].does \in {does, "done"}
         /\ does = "stop" /\ op'[u].does = "done" => AllDone'
<1> USE DEF MTypeOK, OneWatch, NoCall, AllDone
<1>1. ASSUME AllDone, Finish(does)
      PROVE  /\ task' \in Watches \cup {0}
             /\ watch' \in [Watches -> {"reading", "ending", "done"}]
             /\ \A w \in Watches : watch'[w] # "done" => task' = w
             /\ does = "stop" => AllDone'
  BY <1>1 DEF Finish
<1>2. CASE /\ AllDone /\ Finish(does) /\ UNCHANGED hold
           /\ op' = [op EXCEPT ![u] = [does |-> "done", on |-> 0]]
  BY <1>1, <1>2
<1>3. CASE /\ CallWatcher(u, does) /\ task # 0 /\ watch[task] # "done"
  BY <1>3 DEF CallWatcher
<1>4. Awake(u) => AllDone
  BY DEF Awake
<1>5. task = 0 \/ watch[task] = "done" => AllDone
  OBVIOUS
<1> QED
  BY <1>2, <1>3, <1>4, <1>5 DEF CallWatcher, Awake

\* What touches neither the calls nor the stage, and starts no watch.
LEMMA ButtonsKeepWatchInv ==
  ASSUME WatchInv, MTypeOK', UNCHANGED <<task, op, stage>>,
         \A w \in Watches : watch'[w] = watch[w] \/ watch'[w] = "done"
  PROVE  WatchInv'
BY DEF WatchInv, MTypeOK, OneWatch, OneUser, WatchOver, AllDone, NoCall

\* A transition that goes on and leaves the watcher alone.
LEMMA StageKeepsWatchInv ==
  ASSUME WatchInv, UNCHANGED <<task, watch, op>>, hold' \in [Watches -> {"none", "held", "fired", "spent"}],
         \/ stage' = stage
         \/ stage' = "torn" /\ stage \notin {"start", "stop"}
         \/ <<stage, stage'>> \in
              {<<"desk", "prestart">>, <<"prestart", "switch to couch">>,
               <<"switch to couch", "desk">>, <<"launch", "poststart">>,
               <<"poststart", "couch">>, <<"couch", "preexit">>,
               <<"torn", "preexit">>, <<"exit", "switch to desk">>,
               <<"switch to desk", "postexit">>, <<"postexit", "desk">>}
  PROVE  WatchInv'
<1>1. MTypeOK' /\ OneWatch'
  BY DEF WatchInv, MTypeOK, OneWatch
<1>2. OneUser'
  BY DEF WatchInv, OneUser
<1>3. WatchOver' /\ stage' # "dropped"
  BY DEF WatchInv, WatchOver, AllDone
<1> QED
  BY <1>1, <1>2, <1>3 DEF WatchInv

\* The cancellation that would drop the session finds no watch left to send it.
LEMMA CancelledIsTorn ==
  ASSUME WatchInv, NEW rest \in {"torn", "dropped"}, Cancelled(rest),
         rest = "dropped" => ~AllDone
  PROVE  stage' = stage \/ (stage' = "torn" /\ stage \notin {"start", "stop"})
BY DEF WatchInv, WatchOver, Cancelled

LEMMA HoldKeepsWatchInv ==
  ASSUME WatchInv, NEW w \in Watches,
         WatchEnding(w) \/ NodeLost(w) \/ ButtonReleased(w) \/ ButtonsHeld(w)
  PROVE  WatchInv'
<1>1. CASE ButtonsHeld(w)
  <2>1. /\ UNCHANGED <<task, op, stage, watch>>
        /\ MTypeOK'
    BY <1>1 DEF ButtonsHeld, Press, Fire, svars, WatchInv, MTypeOK
  <2> QED
    BY <2>1, ButtonsKeepWatchInv
<1>2. CASE WatchEnding(w) \/ NodeLost(w) \/ ButtonReleased(w)
  <2>1. /\ watch[w] # "done" /\ UNCHANGED <<task, op>> /\ MTypeOK'
        /\ \A v \in Watches : watch'[v] = watch[v] \/ watch'[v] = "done"
    BY <1>2 DEF WatchEnding, NodeLost, ButtonReleased, WatchEnds, LetGo, WatchInv, MTypeOK
  <2>2. ~AllDone
    BY <2>1 DEF AllDone
  <2>3. stage' = stage \/ (stage' = "torn" /\ stage \notin {"start", "stop"})
    BY <1>2, <2>2, CancelledIsTorn
       DEF WatchEnding, NodeLost, ButtonReleased, CancelsHold, svars
  <2> QED
    BY <2>1, <2>3 DEF WatchInv, MTypeOK, OneWatch, OneUser, WatchOver, AllDone, NoCall
<1> QED
  BY <1>1, <1>2

LEMMA TransitionKeepsWatchInv ==
  ASSUME CalmReconnects, WatchInv,
         EnterCouch \/ Entering \/ Teardown \/ CancelTeardown
           \/ \E r \in Watches \cup {0} : BeginTeardown(r)
  PROVE  WatchInv'
<1> USE DEF mvars
<1>h. hold \in [Watches -> {"none", "held", "fired", "spent"}]
  BY DEF WatchInv, MTypeOK
<1>1. CASE EnterCouch \/ PrestartDone \/ LaunchDone \/ PoststartDone \/ ExitDone
             \/ SwitchToDesk \/ PreexitCancelled
  BY <1>1, <1>h, StageKeepsWatchInv DEF EnterCouch, PrestartDone, LaunchDone,
     PoststartDone, ExitDone, SwitchToDesk, PreexitCancelled
<1>2. CASE PostexitDone
  BY <1>2, <1>h, StageKeepsWatchInv DEF PostexitDone, Spend
<1>3. ASSUME NEW r \in Watches \cup {0}, BeginTeardown(r) PROVE WatchInv'
  <2>1. stage # "dropped"
    BY DEF WatchInv
  <2> QED
    BY <1>3, <1>h, <2>1, StageKeepsWatchInv DEF BeginTeardown, Resting, Spend, svars
<1>4. CASE CancelTeardown
  BY <1>4, <1>h, CancelledIsTorn, StageKeepsWatchInv DEF CancelTeardown
<1>5. CASE SwitchToCouch
  <2>1. CASE stage' = "desk" /\ UNCHANGED mvars
    BY <1>5, <1>h, <2>1, StageKeepsWatchInv DEF SwitchToCouch
  <2>2. CASE CallWatcher("session", "start") /\ stage' = "start"
    <3>1. \A v \in Users \ {"session"} : op[v] = NoCall
      BY <1>5 DEF SwitchToCouch, WatchInv, OneUser
    <3> QED
      BY <2>2, <3>1, CallKeepsOneWatch DEF WatchInv, OneUser, WatchOver
  <2> QED
    BY <1>5, <2>1, <2>2 DEF SwitchToCouch
<1>6. CASE PreexitDone
  <2>1. \A v \in Users \ {"session"} : op[v] = NoCall
    BY <1>6 DEF PreexitDone, WatchInv, OneUser
  <2> QED
    BY <1>6, <2>1, CallKeepsOneWatch DEF PreexitDone, WatchInv, OneUser, WatchOver
<1>7. CASE WatcherStarted \/ WatcherStopped
  <2>1. /\ op["session"].does = "done" /\ op' = [op EXCEPT !["session"] = NoCall]
        /\ UNCHANGED <<task, watch, hold>>
    BY <1>7 DEF WatcherStarted, WatcherStopped, MReturn
  <2>2. \/ stage = "start" /\ stage' = "launch"
        \/ stage = "stop" /\ stage' = "exit"
    BY <1>7 DEF WatcherStarted, WatcherStopped
  <2>3. MTypeOK' /\ OneWatch'
    BY <2>1 DEF WatchInv, MTypeOK, OneWatch, NoCall
  <2>4. OneUser'
    BY <2>1, <2>2 DEF WatchInv, MTypeOK, OneUser
  <2>5. WatchOver' /\ stage' # "dropped"
    BY <2>1, <2>2 DEF WatchInv, WatchOver, AllDone
  <2> QED
    BY <2>3, <2>4, <2>5 DEF WatchInv
<1> QED
  BY <1>1, <1>2, <1>3, <1>4, <1>5, <1>6, <1>7 DEF Entering, Teardown

\* The reconnect's calls, and the calls that wake up.
LEMMA UsersKeepWatchInv ==
  ASSUME CalmReconnects, WatchInv,
         Reconnect \/ ReconnectDone \/ \E u \in Users : StopAwaited(u)
  PROVE  WatchInv'
<1>1. CASE Reconnect
  <2>1. stage \in {"launch", "poststart", "couch"} /\ stage' = stage
    BY <1>1 DEF Reconnect, svars
  <2>2. \A v \in Users \ {"reconnect"} : op[v] = NoCall
    BY <2>1 DEF WatchInv, OneUser
  <2>3. MTypeOK' /\ OneWatch' /\ \A v \in Users \ {"reconnect"} : op'[v] = NoCall
    BY <1>1, <2>2, CallKeepsOneWatch DEF Reconnect, WatchInv
  <2> QED
    BY <2>1, <2>3 DEF WatchInv, OneUser, WatchOver
<1>2. CASE ReconnectDone
  BY <1>2 DEF ReconnectDone, MReturn, WatchInv, MTypeOK, OneWatch, OneUser, WatchOver,
     AllDone, NoCall, svars
<1>3. ASSUME NEW u \in Users, StopAwaited(u) PROVE WatchInv'
  <2>1. op[u] # NoCall /\ Awake(u) /\ stage' = stage
    BY <1>3 DEF StopAwaited, Awake, NoCall, svars
  <2>2. u \in {"session", "reconnect"} /\ \A v \in Users \ {u} : op[v] = NoCall
    BY <2>1 DEF WatchInv, OneUser
  <2>3. op[u].does \in {"start", "stop"}
    BY <2>1 DEF Awake, Finish
  <2>4. \A does \in {"start", "stop"} : op[u].does = does =>
          /\ MTypeOK' /\ OneWatch'
          /\ \A v \in Users \ {u} : op'[v] = NoCall
          /\ op'[u].does \in {does, "done"}
          /\ does = "stop" /\ op'[u].does = "done" => AllDone'
    BY <2>1, <2>2, CallKeepsOneWatch DEF WatchInv
  <2> QED
    BY <2>1, <2>2, <2>3, <2>4 DEF WatchInv, OneUser, WatchOver
<1> QED
  BY <1>1, <1>2, <1>3

LEMMA NextKeepsWatchInv ==
  ASSUME CalmReconnects
  PROVE  WatchInv /\ [Next]_vars => WatchInv'
<1> SUFFICES ASSUME WatchInv, [Next]_vars PROVE WatchInv'
  OBVIOUS
<1>1. CASE \/ HookStep \/ CommandExits \/ ApiCall \/ Steam
           \/ (\E x \in Callers : LaunchStep(x)) \/ UNCHANGED vars
  <2>1. UNCHANGED <<mvars, stage>>
    BY <1>1 DEF HookStep, CommandExits, ApiCall, Steam, LaunchStep, vars, svars
  <2> QED
    BY <2>1, StageKeepsWatchInv DEF mvars, WatchInv, MTypeOK
<1>2. CASE \E w \in Watches :
             WatchEnding(w) \/ NodeLost(w) \/ ButtonReleased(w) \/ ButtonsHeld(w)
  BY <1>2, HoldKeepsWatchInv
<1>3. CASE EnterCouch \/ Entering \/ Teardown \/ CancelTeardown
             \/ \E r \in Watches \cup {0} : BeginTeardown(r)
  BY <1>3, TransitionKeepsWatchInv
<1>4. CASE Reconnect \/ ReconnectDone \/ \E u \in Users : StopAwaited(u)
  BY <1>4, UsersKeepWatchInv
<1> QED
  BY <1>1, <1>2, <1>3, <1>4 DEF Next

LEMMA AlwaysWatchInv ==
  ASSUME CalmReconnects
  PROVE  Spec => []WatchInv
<1>1. Init => WatchInv
  BY DEF Init, MInit, WatchInv, MTypeOK, OneWatch, OneUser, WatchOver, AllDone, NoCall
<1>2. WatchInv /\ [Next]_vars => WatchInv'
  BY NextKeepsWatchInv
<1> QED
  BY <1>1, <1>2, PTL DEF Spec

\* start() and stop() of ManualExitWatcher need no lock as long as no controller
\* comes back during a teardown: then no watch outlives the session, however
\* often it was started (on_reconnect_while_couch, activate_desk).
THEOREM NobodyListensAtDesk ==
  ASSUME CalmReconnects
  PROVE  Spec => []NoWatcherAtDesk
<1>1. WatchInv => NoWatcherAtDesk
  BY DEF WatchInv, WatchOver, AllDone, NoWatcherAtDesk
<1> QED
  BY <1>1, AlwaysWatchInv, PTL

\* The teardown the shortcut asks for awaits the end of the very watch it runs
\* under, so nothing is left that could cancel it once it takes the session apart
\* (activate_desk stops the watcher before anything else).
THEOREM ShortcutNotUndone ==
  ASSUME CalmReconnects
  PROVE  Spec => []ShortcutRunsOn
<1>1. WatchInv => ShortcutRunsOn
  BY DEF WatchInv, ShortcutRunsOn
<1> QED
  BY <1>1, AlwaysWatchInv, PTL
=============================================================================
