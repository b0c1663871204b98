---------------------------- MODULE StateMachine ----------------------------
(***************************************************************************)
(* The couch/desk state machine of state_machine.py.                       *)
(*                                                                         *)
(* Everything runs in one asyncio loop, so two pieces of code interleave   *)
(* only where one of them suspends.  An action is the code between two     *)
(* suspensions.  _transition runs under an asyncio.Lock, which is FIFO:    *)
(* `queue` holds every call of _transition that has not returned, its head *)
(* is the holder of the lock, and `stage` is the hook the holder awaits.   *)
(* Device events, timers, the reconnect path and the owner watch run       *)
(* outside the lock.                                                       *)
(*                                                                         *)
(* The hooks daemon.py installs for is_launch_process_alive,               *)
(* has_launch_target and is_owner_present never suspend, so a timer that   *)
(* reads them decides in the step in which it wakes up.                    *)
(***************************************************************************)
EXTENDS Naturals, Sequences

CONSTANTS
  Devices,             \* the controllers
  Manual,              \* the synthetic owner force_enter_couch assigns
  None,                \* no owner
  HasGame,             \* on_connect.run is configured
  WaitForGame,         \* idle.wait_for_game
  ScreensaverEnabled,  \* idle.screensaver_enabled
  WizardEnabled,       \* somebody uses the wizard's mode buttons
  ShortcutEnabled,     \* shortcuts.exit_couch_enabled
  DisplayMayFail,      \* a display switch may not take
  MaxQueue,            \* bound: calls of _transition in flight
  MaxRestarts          \* bound: daemon restarts

ASSUME StateMachineAssumption ==
  /\ Manual \notin Devices
  /\ None \notin Devices
  /\ Manual # None
  /\ HasGame \in BOOLEAN /\ WaitForGame \in BOOLEAN
  /\ ScreensaverEnabled \in BOOLEAN /\ WizardEnabled \in BOOLEAN
  /\ ShortcutEnabled \in BOOLEAN /\ DisplayMayFail \in BOOLEAN
  /\ MaxQueue \in Nat \ {0}
  /\ MaxRestarts \in Nat

VARIABLES
  mode,        \* self.mode
  owner,       \* self._owner
  ownerIsReal, \* self._owner_is_real_device
  idle,        \* self._idle
  absent,      \* self._no_controller_since is not None
  queue,       \* the calls of _transition in flight, lock holder first
  stage,       \* where the lock holder is suspended
  grace,       \* the device whose disconnect_grace task sleeps, or None
  watch,       \* the owner_watch task
  recovery,    \* the stale_session_recovery task is alive
  waking,      \* devices whose reconnect awaits exit_couch_idle
  game,        \* the launched process is alive
  present,     \* the controllers that are really there
  seen,        \* the controllers whose last delivered event is a connect
  layout,      \* what the display hardware shows
  restarts     \* daemon restarts so far

core == <<mode, owner, ownerIsReal, idle, absent>>
lockvars == <<queue, stage>>
tasks == <<grace, watch, recovery, waking>>
env == <<game, present, seen, layout, restarts>>
vars == <<core, lockvars, tasks, env>>

Modes == {"desk", "couch"}
Layouts == Modes \cup {"mixed"}
Callers ==
  {"event", "grace", "watch", "recovery", "wizard", "shortcut", "shutdown"}
Request == [to : Modes, by : Callers, force : BOOLEAN]
CouchStages == {"prestart", "activating", "launching", "poststart"}
DeskStages == {"preexit", "deactivating", "postexit"}
Stages == {"free", "acquire"} \cup CouchStages \cup DeskStages

Req(to, by, force) == [to |-> to, by |-> by, force |-> force]

-----------------------------------------------------------------------------
(* _transition and its lock.                                               *)

\* Mutants of NoOp: the guard is dropped, or ignores force.
NoOpNever(r) == FALSE
NoOpIgnoresForce(r) == mode = r.to

NoOp(r) == mode = r.to /\ ~r.force

FirstStage(r) == IF r.to = "couch" THEN "prestart" ELSE "preexit"

\* Mutant of Enter: owner_watch is not cancelled.
EnterKeepsWatch(r) == stage' = FirstStage(r) /\ recovery' = FALSE /\ UNCHANGED watch

\* The holder passes the same-mode guard: it cancels owner_watch and
\* stale_session_recovery and suspends in its first hook.
Enter(r) ==
  /\ stage' = FirstStage(r)
  /\ watch' = "none"
  /\ recovery' = FALSE

\* A call of _transition.  On a free lock it runs on to its first hook or
\* returns; else it waits its turn.  w and rec are what the caller leaves of
\* the two tasks a transition cancels.
Transition(r, w, rec) ==
  \/ /\ queue = <<>> /\ NoOp(r)
     /\ watch' = w /\ recovery' = rec
     /\ UNCHANGED lockvars
  \/ /\ queue = <<>> /\ ~NoOp(r)
     /\ queue' = <<r>>
     /\ Enter(r)
  \/ /\ queue # <<>> /\ Len(queue) < MaxQueue
     /\ queue' = Append(queue, r)
     /\ watch' = w /\ recovery' = rec
     /\ UNCHANGED stage

\* The holder leaves `async with self._lock` and the first waiter is woken.
Release ==
  /\ queue' = Tail(queue)
  /\ stage' = IF Len(queue) = 1 THEN "free" ELSE "acquire"

\* Mutant of Acquire: the guard was checked before waiting for the lock.
AcquireUnchecked ==
  /\ stage = "acquire"
  /\ Enter(Head(queue))
  /\ UNCHANGED <<core, queue, grace, waking, env>>

\* The woken waiter runs.
Acquire ==
  /\ stage = "acquire"
  /\ \/ /\ NoOp(Head(queue))
        /\ Release
        /\ UNCHANGED <<watch, recovery>>
     \/ /\ ~NoOp(Head(queue))
        /\ Enter(Head(queue))
        /\ UNCHANGED queue
  /\ UNCHANGED <<core, grace, waking, env>>

PrestartDone ==
  /\ stage = "prestart"
  /\ stage' = "activating"
  /\ UNCHANGED <<core, queue, tasks, env>>

CouchActivated ==
  /\ stage = "activating"
  /\ mode' = "couch" /\ absent' = FALSE /\ idle' = FALSE
  /\ layout' = "couch"
  /\ stage' = "launching"
  /\ UNCHANGED <<owner, ownerIsReal, queue, tasks, game, present, seen,
                 restarts>>

\* ActivationError: the connector never came up, or the switch did not take
\* (a rejected kscreen-doctor call may have applied part of it).
CouchActivationFailed ==
  /\ DisplayMayFail
  /\ stage = "activating"
  /\ layout' \in {layout, "couch", "mixed"}
  /\ Release
  /\ UNCHANGED <<core, tasks, game, present, seen, restarts>>

Launched ==
  /\ stage = "launching"
  /\ game' \in {FALSE, HasGame}
  /\ stage' = "poststart"
  /\ UNCHANGED <<core, queue, tasks, present, seen, layout, restarts>>

\* Mutant of PoststartDone: the owner watch is not started.
PoststartDoneUnwatched ==
  stage = "poststart" /\ Release /\ UNCHANGED <<core, tasks, env>>

PoststartDone ==
  /\ stage = "poststart"
  /\ watch' = "sleeping"
  /\ Release
  /\ UNCHANGED <<core, grace, recovery, waking, env>>

PreexitDone ==
  /\ stage = "preexit"
  /\ stage' = "deactivating"
  /\ UNCHANGED <<core, queue, tasks, env>>

\* What ends with the session.  Mutant: the owner stays.
ClearAllButOwner ==
  absent' = FALSE /\ idle' = FALSE /\ UNCHANGED <<owner, ownerIsReal>>

ClearSession ==
  owner' = None /\ ownerIsReal' = FALSE /\ absent' = FALSE /\ idle' = FALSE

\* A desk switch that does not take is only reported.  Mutant: no switch.
KeepLayout == UNCHANGED layout

SwitchToDesk ==
  layout' \in {"desk"} \cup (IF DisplayMayFail THEN {layout, "mixed"} ELSE {})

\* activate_desk returned: it may have closed the launched process
\* (exit_launched).
DeskActivated ==
  /\ stage = "deactivating"
  /\ mode' = "desk"
  /\ ClearSession
  /\ SwitchToDesk
  /\ game' \in {game, FALSE}
  /\ stage' = "postexit"
  /\ UNCHANGED <<queue, tasks, present, seen, restarts>>

PostexitDone ==
  /\ stage = "postexit"
  /\ Release
  /\ UNCHANGED <<core, tasks, env>>

-----------------------------------------------------------------------------
(* Callers outside the lock.                                               *)

\* Mutants: a second controller takes over; a connect lets the grace run on.
AdoptsAlways(d) == owner # d
LetGraceRun == UNCHANGED grace

CancelGrace == grace' = None

Adopts(d) == owner = None \/ (~ownerIsReal /\ owner # d)

\* _on_connect: any connect cancels the grace period; the owner, or whoever
\* becomes it, starts a transition in desk mode and resumes in couch mode.
Connect(d) ==
  /\ d \in present \ seen
  /\ seen' = seen \cup {d}
  /\ CancelGrace
  /\ owner' = IF Adopts(d) THEN d ELSE owner
  /\ ownerIsReal' = (Adopts(d) \/ ownerIsReal)
  /\ \/ /\ owner' # d
        /\ UNCHANGED <<lockvars, watch, recovery, waking>>
     \/ /\ owner' = d /\ mode = "desk"
        /\ Transition(Req("couch", "event", FALSE), watch, recovery)
        /\ UNCHANGED waking
     \/ /\ owner' = d /\ mode = "couch"
        /\ waking' = IF idle THEN waking \cup {d} ELSE waking
        /\ UNCHANGED <<lockvars, watch, recovery>>
  /\ UNCHANGED <<mode, idle, absent, game, present, layout, restarts>>

\* exit_couch_idle returned to the reconnect path.
Woken(d) ==
  /\ d \in waking
  /\ waking' = waking \ {d}
  /\ idle' = FALSE
  /\ UNCHANGED <<mode, owner, ownerIsReal, absent, lockvars, grace, watch,
                 recovery, env>>

\* Mutant of Disconnect: the grace period is the owner's, whoever it is.
DisconnectAnybody(d) ==
  /\ d \in seen \ present
  /\ seen' = seen \ {d}
  /\ grace' = owner
  /\ UNCHANGED <<core, lockvars, watch, recovery, waking, game, present,
                 layout, restarts>>

\* _on_disconnect: the owner's disconnect (re)starts the grace period.
Disconnect(d) ==
  /\ d \in seen \ present
  /\ seen' = seen \ {d}
  /\ grace' = IF d = owner THEN d ELSE grace
  /\ UNCHANGED <<core, lockvars, watch, recovery, waking, game, present,
                 layout, restarts>>

\* _game_still_running.
GameStillRunning == HasGame /\ game

\* Mutant of StaysForGame: the setting is ignored.
StaysForGameAlways == GameStillRunning

\* Whether a grace period that has run out leaves the session alone.
StaysForGame == WaitForGame /\ GameStillRunning

\* _disconnect_grace_then_teardown after its sleep.
GraceElapsed ==
  /\ grace # None
  /\ grace' = None
  /\ IF StaysForGame
     THEN UNCHANGED <<lockvars, watch, recovery>>
     ELSE Transition(Req("desk", "grace", FALSE), watch, recovery)
  /\ UNCHANGED <<core, waking, env>>

\* idle_after_s may have passed.  It is far longer than a debounce window or a
\* wake-up, so the owner's disconnect has been handled by then and no wake-up
\* is under way.
IdleDue ==
  ScreensaverEnabled /\ ~idle /\ absent /\ owner \notin seen /\ waking = {}

\* The no-controller part of one poll.
WatchPresence ==
  \/ /\ ~ownerIsReal
     /\ UNCHANGED <<watch, absent>>
  \/ /\ ownerIsReal /\ owner \in present
     /\ absent' = FALSE
     /\ UNCHANGED watch
  \/ /\ ownerIsReal /\ owner \notin present
     /\ absent' = TRUE
     /\ watch' \in {"sleeping"} \cup (IF IdleDue THEN {"idling"} ELSE {})

\* One poll of _owner_watch_loop, past the launch's startup grace: until then
\* a poll does nothing.  Its return outside couch mode is never taken, which
\* is what SessionStateOnlyInCouch says.
WatchPoll ==
  /\ watch = "sleeping" /\ mode = "couch"
  /\ \/ /\ HasGame /\ ~game
        /\ Transition(Req("desk", "watch", FALSE), "none", recovery)
        /\ UNCHANGED absent
     \/ /\ HasGame => game
        /\ WatchPresence
        /\ UNCHANGED <<lockvars, recovery>>
  /\ UNCHANGED <<mode, owner, ownerIsReal, idle, grace, waking, env>>

\* Mutant of IdleEntered: the watch ends with it.
IdleEnteredLast ==
  /\ watch = "idling"
  /\ idle' = TRUE
  /\ watch' = "none"
  /\ UNCHANGED <<mode, owner, ownerIsReal, absent, lockvars, grace, recovery,
                 waking, env>>

\* enter_couch_idle returned to the watch.
IdleEntered ==
  /\ watch = "idling"
  /\ idle' = TRUE
  /\ watch' = "sleeping"
  /\ UNCHANGED <<mode, owner, ownerIsReal, absent, lockvars, grace, recovery,
                 waking, env>>

\* One poll of _stale_session_recovery_watch.
RecoveryPoll ==
  /\ recovery
  /\ \/ /\ mode # "desk"
        /\ recovery' = FALSE
        /\ UNCHANGED <<lockvars, watch>>
     \/ /\ mode = "desk" /\ ~game
        /\ Transition(Req("desk", "recovery", TRUE), watch, FALSE)
  /\ UNCHANGED <<core, grace, waking, env>>

ForceEnterCouch ==
  /\ WizardEnabled
  /\ mode # "couch"
  /\ owner' = Manual /\ ownerIsReal' = FALSE
  /\ Transition(Req("couch", "wizard", FALSE), watch, recovery)
  /\ UNCHANGED <<mode, idle, absent, grace, waking, env>>

ForceExitToDesk(by) ==
  /\ mode # "desk"
  /\ Transition(Req("desk", by, FALSE), watch, recovery)
  /\ UNCHANGED <<core, grace, waking, env>>

\* The wizard's "switch to desk", and the owner's held shortcut.  One held
\* combination makes one call.
WizardExit == WizardEnabled /\ ForceExitToDesk("wizard")

ShortcutExit ==
  /\ ShortcutEnabled
  /\ owner \in present
  /\ \A i \in DOMAIN queue : queue[i].by # "shortcut"
  /\ ForceExitToDesk("shortcut")

Without(s, i) == [j \in 1 .. Len(s) - 1 |-> IF j < i THEN s[j] ELSE s[j + 1]]

\* A button of the combination is released, or its evdev node is lost, while
\* force_exit_to_desk waits for the lock or runs the preexit hooks: the task
\* making the call is cancelled there.  Once activate_desk runs, its first
\* act is to stop the watcher that could do so.
ShortcutReleased ==
  \E i \in DOMAIN queue :
    /\ queue[i].by = "shortcut"
    /\ \/ i = 1 /\ stage \in {"acquire", "preexit"} /\ Release
       \/ i > 1 /\ queue' = Without(queue, i) /\ UNCHANGED stage
    /\ UNCHANGED <<core, tasks, env>>

-----------------------------------------------------------------------------
(* The world: controllers, the launched process, and daemon restarts.      *)

PowerOn(d) ==
  /\ d \notin present
  /\ present' = present \cup {d}
  /\ UNCHANGED <<core, lockvars, tasks, game, seen, layout, restarts>>

PowerOff(d) ==
  /\ d \in present
  /\ present' = present \ {d}
  /\ UNCHANGED <<core, lockvars, tasks, game, seen, layout, restarts>>

GameExits ==
  /\ game
  /\ game' = FALSE
  /\ UNCHANGED <<core, lockvars, tasks, present, seen, layout, restarts>>

\* What a crash in the middle of a display switch leaves on the screens.
Leftover ==
  IF stage \in {"activating", "deactivating"} THEN Layouts ELSE {layout}

\* reconcile_startup_mode.  The live layout may be unreadable; a mixed layout
\* and, on a fresh boot, a couch layout are switched to desk; otherwise the
\* mode follows what the displays show.
Reconcile(fresh, live) ==
  \/ mode' = "desk" /\ layout' = live
  \/ /\ fresh \/ live = "mixed"
     /\ mode' = "desk"
     /\ layout' \in {"desk"} \cup (IF DisplayMayFail THEN {live} ELSE {})
  \/ ~fresh /\ live # "mixed" /\ mode' = live /\ layout' = live

\* check_for_stale_session_at_startup: the configured game is running.
StaleSession == HasGame /\ game'

\* The daemon dies and starts again, on the same boot or a fresh one.  The
\* activity gate withholds controllers that are already there, unless the
\* boot is fresh.
Restart(fresh) ==
  /\ restarts < MaxRestarts
  /\ restarts' = restarts + 1
  /\ \E live \in Leftover : Reconcile(fresh, live)
  /\ owner' = None /\ ownerIsReal' = FALSE /\ idle' = FALSE /\ absent' = FALSE
  /\ queue' = <<>> /\ stage' = "free"
  /\ grace' = None /\ watch' = "none" /\ waking' = {}
  /\ game' = (game /\ ~fresh)
  /\ recovery' = StaleSession
  /\ seen' = IF fresh THEN {} ELSE present
  /\ UNCHANGED present

-----------------------------------------------------------------------------
Init ==
  /\ mode = "desk" /\ owner = None /\ ownerIsReal = FALSE
  /\ idle = FALSE /\ absent = FALSE
  /\ queue = <<>> /\ stage = "free"
  /\ grace = None /\ watch = "none" /\ recovery = FALSE /\ waking = {}
  /\ game = FALSE /\ present = {} /\ seen = {}
  /\ layout = "desk" /\ restarts = 0

\* Steps of the lock holder.
Holder ==
  \/ Acquire
  \/ PrestartDone \/ CouchActivated \/ CouchActivationFailed
  \/ Launched \/ PoststartDone
  \/ PreexitDone \/ DeskActivated \/ PostexitDone

\* Steps the event loop owes to timers and suspended handlers.
Tasks ==
  \/ GraceElapsed \/ WatchPoll \/ IdleEntered \/ RecoveryPoll
  \/ \E d \in Devices : Connect(d) \/ Disconnect(d) \/ Woken(d)

Users ==
  \/ ForceEnterCouch \/ WizardExit \/ ShortcutExit \/ ShortcutReleased
  \/ GameExits
  \/ \E d \in Devices : PowerOn(d) \/ PowerOff(d)
  \/ \E fresh \in BOOLEAN : Restart(fresh)

Next == Holder \/ Tasks \/ Users

\* Hooks return, sleeps end, and a settled device event is delivered.
Fairness ==
  /\ WF_vars(Holder)
  /\ WF_vars(GraceElapsed)
  /\ WF_vars(WatchPoll)
  /\ WF_vars(IdleEntered)
  /\ WF_vars(RecoveryPoll)
  /\ \A d \in Devices : WF_vars(Connect(d)) /\ WF_vars(Disconnect(d))
                        /\ WF_vars(Woken(d))

Spec == Init /\ [][Next]_vars
FairSpec == Spec /\ Fairness

-----------------------------------------------------------------------------
(* Properties.                                                             *)

TypeOK ==
  /\ mode \in Modes
  /\ owner \in Devices \cup {Manual, None}
  /\ ownerIsReal \in BOOLEAN /\ idle \in BOOLEAN /\ absent \in BOOLEAN
  /\ recovery \in BOOLEAN /\ game \in BOOLEAN
  /\ queue \in Seq(Request) /\ Len(queue) <= MaxQueue
  /\ stage \in Stages
  /\ grace \in Devices \cup {None}
  /\ watch \in {"none", "sleeping", "idling"}
  /\ waking \subseteq Devices
  /\ present \subseteq Devices /\ seen \subseteq Devices
  /\ layout \in Layouts
  /\ restarts \in 0 .. MaxRestarts

\* The owner watch and the idle and absence marks belong to a couch session:
\* none of them outlives the transition that ends it, and no watch runs while
\* a transition is past its guard (_transition's _cancel_task calls and
\* resets, against the watch's own writes after its awaits).
SessionStateOnlyInCouch ==
  /\ watch # "none" \/ idle \/ absent => mode = "couch"
  /\ watch # "none" => stage \in {"free", "acquire"}

\* Transitions are serialized by the lock: a hook runs only for the call that
\* holds it, couch hooks for a couch call and desk hooks for a desk call; a
\* couch activation never runs on top of a couch session (not even when its
\* request waited out another one), and only desk calls are ever forced.
LockDiscipline ==
  /\ queue = <<>> <=> stage = "free"
  /\ stage \in CouchStages => Head(queue).to = "couch"
  /\ stage \in DeskStages => Head(queue).to = "desk"
  /\ stage \in {"prestart", "activating", "postexit"} => mode = "desk"
  /\ stage \in {"launching", "poststart"} => mode = "couch"
  /\ \A i \in DOMAIN queue : queue[i].force => queue[i].to = "desk"

\* force_enter_couch's "self.mode == Mode.DESK here always means self._owner
\* is None", between transitions.
DeskHasNoOwner == mode = "desk" /\ queue = <<>> => owner = None

\* ActionHooks' "always set by _on_connect before a COUCH transition can
\* happen": nobody's session is one that no disconnect will ever end.
CouchHasOwner == mode = "couch" => owner # None

\* Single ownership: a controller that owns the session stays the owner until
\* a desk transition clears it, whoever else connects or presses a button.
OwnerKept == [][ownerIsReal /\ owner' # owner => owner' = None]_owner

\* Outside a transition, a couch session the daemon has started always has
\* the watch that will end it when the launched process exits.
SessionWatched ==
  mode = "couch" /\ queue = <<>> /\ restarts = 0 => watch # "none"

\* The grace period of a controller that owned an earlier session asks for no
\* teardown of a session it does not own.
LateGraceEndsNothing ==
  [][grace # None /\ grace' = None /\ queue' # queue /\ seen' = seen
       => owner \in {grace, None}]_vars

\* A couch session whose owner's connect has been handled is awake, or being
\* woken: nobody holds a controller in front of a TV in standby.
PlayerIsAwake == idle /\ owner \in seen => owner \in waking

\* With no transition in flight, desk mode shows the desk layout, until a
\* restart finds the displays in some other state.
DeskShowsDesk ==
  mode = "desk" /\ queue = <<>> /\ restarts = 0 => layout = "desk"

\* An exit by the controller shortcut leaves the launched process alone.
ShortcutLeavesGame ==
  [][stage = "deactivating" /\ stage' = "postexit"
       /\ Head(queue).by = "shortcut" => game' = game]_vars

\* When the launched process is gone, the session it was launched in ends.
GameExitEndsSession ==
  mode = "couch" /\ HasGame /\ ~game ~> mode = "desk" \/ game \/ restarts > 0

\* When the owner disconnects and stays away, the session ends, as long as
\* no other controller is in use.
AbandonedSessionEnds ==
  \A d \in Devices :
    [](seen \subseteq {d}) =>
      (mode = "couch" /\ owner = d /\ d \notin seen
         ~> mode = "desk" \/ d \in seen \/ owner # d)

\* A daemon that restarts into a session it cannot see resyncs the displays
\* once the launched process is gone, unless a new session began.
RecoveryResyncs == recovery /\ ~game ~> layout = "desk" \/ mode = "couch"

\* As check_for_stale_session_at_startup says, a game found running at startup
\* brings the desk back once it exits.
RecoveryEndsSession ==
  recovery /\ ~game ~> (mode = "desk" /\ layout = "desk") \/ queue # <<>>

\* What the rest of the program may assume of the mode: see ModeSwitch.
Switching ==
  IF stage \in CouchStages THEN "couch"
  ELSE IF stage \in DeskStages THEN "desk" ELSE "none"

MS == INSTANCE ModeSwitch WITH switching <- Switching

\* The mode changes as ModeSwitch says, and every switch ends.
ModeSwitchSpec == MS!Spec

\* Its safety part: whatever the callers, timers and hooks do, the mode
\* changes at most once in a switch, to its target, and never outside one.
ModeSwitchSteps == MS!Init /\ [][MS!Next]_(MS!mvars)
=============================================================================
