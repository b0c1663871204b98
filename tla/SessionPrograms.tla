-------------------------- MODULE SessionPrograms --------------------------
(***************************************************************************)
(* The programs around a couch session, composed along the transitions of  *)
(* state_machine.py and the actions of daemon.py: the user's hooks, the    *)
(* launched Steam, and the exit shortcut.  The transition waits for each,  *)
(* under the state machine's lock; the reconnect of a controller and the   *)
(* API run beside it, without the lock.                                    *)
(*                                                                         *)
(* A teardown may be cancelled: by whoever set it a time limit, or, when   *)
(* it is run by the shortcut, by the shortcut's own watch.                 *)
(***************************************************************************)
EXTENDS UserHooks, Launcher, ManualExit

CONSTANT CalmReconnects  \* no controller comes back during a teardown

ASSUME ProgramsAssumption ==
  /\ CalmReconnects \in BOOLEAN
  /\ {"session", "api"} \subseteq Callers /\ {"session", "reconnect"} \subseteq Users

VARIABLES
  stage,  \* where the transition is, or where the session rests
  runner  \* the watch whose hold task runs the teardown, or 0

svars == <<stage, runner>>
vars == <<hvars, lvars, mvars, svars>>

\* A cancelled teardown leaves the session "torn", or "dropped" when it was the
\* shortcut that cancelled it past the preexit hooks.
Resting == {"desk", "couch", "torn", "dropped"}
Leaving == {"preexit", "stop", "exit", "switch to desk"}
InCouch == {"launch", "poststart", "couch", "torn", "dropped"} \cup Leaving

Init ==
  /\ HInit /\ LInit /\ MInit
  /\ stage = "desk" /\ runner = 0

-----------------------------------------------------------------------------
\* _transition(COUCH) and activate_couch
EnterCouch ==
  /\ stage = "desk" /\ stage' = "prestart"
  /\ RunPhase
  /\ UNCHANGED <<lvars, mvars, runner>>

PrestartDone ==
  /\ stage = "prestart" /\ hook = "done" /\ Return
  /\ stage' = "switch to couch"
  /\ UNCHANGED <<lvars, mvars, runner>>

\* The display switches and the watcher is started, or activation fails.
SwitchToCouch ==
  /\ stage = "switch to couch"
  /\ \/ ModeSet /\ CallWatcher("session", "start") /\ stage' = "start"
     \/ UNCHANGED <<lvars, mvars>> /\ stage' = "desk"
  /\ UNCHANGED <<hvars, runner>>

WatcherStarted ==
  /\ stage = "start" /\ stage' = "launch"
  /\ MReturn("session") /\ Begin("session", "launch")
  /\ UNCHANGED <<hvars, runner>>

LaunchDone ==
  /\ stage = "launch" /\ stage' = "poststart"
  /\ LReturn("session") /\ RunPhase
  /\ UNCHANGED <<mvars, runner>>

PoststartDone ==
  /\ stage = "poststart" /\ hook = "done" /\ Return
  /\ stage' = "couch"
  /\ UNCHANGED <<lvars, mvars, runner>>

\* _transition(DESK) and activate_desk.  r is the watch whose hold asks for it:
\* on_exit, that is force_exit_to_desk, which returns at once at the desk.
BeginTeardown(r) ==
  /\ stage \in Resting
  /\ r # 0 => hold[r] = "fired"
  /\ IF stage = "desk"
     THEN r # 0 /\ Spend(r) /\ UNCHANGED <<hvars, task, watch, op, svars>>
     ELSE RunPhase /\ stage' = "preexit" /\ runner' = r /\ UNCHANGED mvars
  /\ UNCHANGED lvars

PreexitDone ==
  /\ stage = "preexit" /\ hook = "done" /\ Return
  /\ stage' = "stop"
  /\ CalmReconnects => op["reconnect"] = NoCall
  /\ CallWatcher("session", "stop")
  /\ UNCHANGED <<lvars, runner>>

WatcherStopped ==
  /\ stage = "stop" /\ stage' = "exit"
  /\ MReturn("session") /\ Begin("session", "exit")
  /\ UNCHANGED <<hvars, runner>>

ExitDone ==
  /\ stage = "exit" /\ stage' = "switch to desk"
  /\ LReturn("session")
  /\ UNCHANGED <<hvars, mvars, runner>>

SwitchToDesk ==
  /\ stage = "switch to desk" /\ stage' = "postexit"
  /\ ModeSet \/ UNCHANGED lvars
  /\ RunPhase
  /\ UNCHANGED <<mvars, runner>>

PostexitDone ==
  /\ stage = "postexit" /\ hook \in {"done", "cancelled"} /\ Return
  /\ stage' = "desk" /\ runner' = 0
  /\ IF runner = 0 THEN UNCHANGED mvars ELSE Spend(runner) /\ UNCHANGED <<task, watch, op>>
  /\ UNCHANGED lvars

-----------------------------------------------------------------------------
\* What a cancellation does to the teardown where it finds it.  While the
\* watcher is being stopped, stop() swallows it.
Cancelled(rest) ==
  /\ runner' = 0
  /\ \/ /\ stage \in {"preexit", "postexit"}
        /\ IF hook \in {"done", "cancelled"} THEN UNCHANGED hvars ELSE CancelPhase
        /\ UNCHANGED <<lvars, stage>>
     \/ /\ stage = "exit" /\ stage' = rest
        /\ Drop("session")
        /\ UNCHANGED hvars
     \/ /\ stage = "switch to desk" /\ stage' = rest
        /\ ModeSet \/ UNCHANGED lvars
        /\ UNCHANGED hvars
     \/ stage = "stop" /\ UNCHANGED <<hvars, lvars, stage>>

\* The time limit of the shutdown watcher.
CancelTeardown ==
  /\ runner = 0 /\ stage # "stop"
  /\ Cancelled("torn")
  /\ UNCHANGED mvars

PreexitCancelled ==
  /\ stage = "preexit" /\ hook = "cancelled" /\ Return
  /\ stage' = "torn" /\ runner' = 0
  /\ UNCHANGED <<lvars, mvars>>

\* A watch that ends, or sees a button let go of, cancels its hold task, and
\* with it the teardown the task may be running.
CancelsHold(w) ==
  IF runner = w THEN Cancelled("dropped") ELSE UNCHANGED <<hvars, lvars, svars>>

WatchEnding(w) == watch[w] = "ending" /\ WatchEnds(w) /\ CancelsHold(w)
NodeLost(w) == watch[w] = "reading" /\ WatchEnds(w) /\ CancelsHold(w)
ButtonReleased(w) == LetGo(w) /\ CancelsHold(w)

ButtonsHeld(w) == (Press(w) \/ Fire(w)) /\ UNCHANGED <<hvars, lvars, svars>>

-----------------------------------------------------------------------------
\* on_reconnect_while_couch, which does not take the lock.
Reconnect ==
  /\ stage \in InCouch
  /\ CalmReconnects => stage \in {"launch", "poststart", "couch"}
  /\ CallWatcher("reconnect", "start")
  /\ UNCHANGED <<hvars, lvars, svars>>

StopAwaited(u) == Awake(u) /\ UNCHANGED <<hvars, lvars, svars>>
ReconnectDone == MReturn("reconnect") /\ UNCHANGED <<hvars, lvars, svars>>

HookStep ==
  /\ Spawn \/ Communicated \/ TimeOut \/ KillEnds
  /\ UNCHANGED <<lvars, mvars, svars>>
CommandExits ==
  /\ \E p \in Group : ProcessExits(p)
  /\ UNCHANGED <<lvars, mvars, svars>>

LaunchStep(x) ==
  /\ Ask(x) \/ Poll(x) \/ WaitTimesOut(x) \/ Start(x)
  /\ UNCHANGED <<hvars, mvars, svars>>

\* api_launch_steam_bigpicture and api_exit_steam_bigpicture
ApiCall ==
  /\ LReturn("api") \/ \E g \in {"launch", "exit"} : Begin("api", g)
  /\ UNCHANGED <<hvars, mvars, svars>>

Steam ==
  /\ SteamStarts \/ \E p \in Pids : SteamExits(p)
  /\ UNCHANGED <<hvars, mvars, svars>>

Entering ==
  PrestartDone \/ SwitchToCouch \/ WatcherStarted \/ LaunchDone \/ PoststartDone
Teardown ==
  PreexitDone \/ WatcherStopped \/ ExitDone \/ SwitchToDesk \/ PostexitDone \/ PreexitCancelled

Next ==
  \/ EnterCouch \/ Entering \/ Teardown \/ CancelTeardown
  \/ HookStep \/ CommandExits \/ ApiCall \/ Steam \/ Reconnect \/ ReconnectDone
  \/ \E r \in Watches \cup {0} : BeginTeardown(r)
  \/ \E w \in Watches :
       \/ WatchEnding(w) \/ NodeLost(w) \/ ButtonReleased(w) \/ ButtonsHeld(w)
  \/ \E u \in Users : StopAwaited(u)
  \/ \E x \in Callers : LaunchStep(x)

\* Every wait of the daemon has a limit, and cancelled tasks run to their end; the
\* CEC part of a transition, which may await systemctl and a script, is taken to end.
\* Hooks, Steam and the buttons need not do anything.
Fairness ==
  /\ WF_vars(Entering)
  /\ WF_vars(Teardown) /\ WF_vars(HookStep)
  /\ \A x \in Callers : WF_vars(LaunchStep(x))
  /\ WF_vars(ReconnectDone) /\ \A u \in Users : WF_vars(StopAwaited(u))
  /\ \A w \in Watches : WF_vars(WatchEnding(w))

Spec == Init /\ [][Next]_vars
FairSpec == Spec /\ Fairness

-----------------------------------------------------------------------------
TypeOK ==
  /\ HTypeOK /\ LTypeOK /\ MTypeOK
  /\ stage \in InCouch \cup {"desk", "prestart", "switch to couch", "start", "postexit"}
  /\ runner \in Watches \cup {0}

\* When the couch session rests, no Steam that lived through a change of the
\* display mode is on the screen, unless the wait for it ran out, whatever the
\* API launches and ends meanwhile (launch_steam_bigpicture: "can never inherit
\* a stale swapchain from before a mode switch").
NoStaleSwapchain == stage = "couch" => stale = {}

\* At the desk nobody listens to the exit shortcut, however often the
\* controller came and went in couch mode.
NoWatcherAtDesk ==
  stage = "desk" => \A w \in Watches : watch[w] # "reading"

\* The shortcut does not undo itself: once a teardown has begun to take the
\* session apart, neither letting go of the buttons nor the end of the watch
\* cancels it.
ShortcutRunsOn == stage # "dropped"

\* A transition comes to rest whatever the hooks, Steam and the buttons do.
TransitionEnds == stage \notin Resting ~> stage \in Resting
=============================================================================
