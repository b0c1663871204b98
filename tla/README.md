# joystick-notify in TLA+

joystick-notify switches a PC between *desk* mode (monitor, desk audio, locked
screen) and *couch* mode (TV woken over HDMI-CEC, couch audio, unlocked screen,
game running) when a controller connects or leaves, when the wizard or the
controller shortcut asks for it, when the game exits, and when the machine shuts
down. It is one asyncio process (daemon and wizard) and a tray process. This
directory models it, checks the models with TLC and proves most
of the safety properties with TLAPS.

Paths below are relative to `src/src/joystick_notify/`.

## Inventory

| Component | State it keeps | Operations | Talks to |
|---|---|---|---|
| `devices/detect.py` `HidrawLivenessWatcher` | open nodes, last data heard, devices reported live | rescan, read, flood back-off, remove timeout | feeds the debouncer |
| `devices/detect.py` `UdevWatcher` | the identity of each announced node | resolve, hand over to the event loop | feeds the debouncer from a thread of its own |
| `debounce.py` | last stable state and one timer per device | `feed`, settle | emits to the gate |
| `activity_gate.py` | held devices, devices seen disconnecting, start time | `handle`, give up | passes on to the daemon |
| `daemon.py` `_forward_to_state_machine` | none; reads `config.toml` each time | drop or forward | calls the state machine |
| `state_machine.py` | mode, owner, idle, absence, an asyncio lock, named tasks | connect, disconnect, grace, watch, recovery, force enter/exit, transition | calls hooks under the lock, and some outside it |
| `daemon.py` hooks (`CouchSessionResources`) | two inhibit cookies, two CEC tasks, the shortcut watcher, "lock again" | `activate_couch/desk`, idle in/out, reconnect | screen lock, notifications, CEC, display, audio, launcher |
| `manual_exit.py` | watch task, hold task | start, stop, fire, cancel | `force_exit_to_desk` |
| `shutdown_watcher.py` | logind inhibitor | wait for the signal, tear down with a timeout, release | `force_exit_to_desk` |
| `wizard/server.py` | `app.state` of a remote stream | mode API, screen unlock/lock API, configuration pages, auto-switch | state machine, screen lock, `config.toml` |
| `actions/hooks.py` | none; a process group per command | run the commands of a phase, give one up | the transition waits for it |
| `actions/launchers.py` | none; the processes named steam | launch, exit, wait for the old processes | the couch session and the API call it, side by side |
| `actions/audio.py` | none; the sound server's sinks and streams | find the couch sink, switch, move streams | `pactl` |
| `actions/cec_control.py` | none across calls | wake, retry, verify, standby | the CEC bus through `cec-ctl` |
| `devices/cec.py` | the cooldown file | `ensure_adapter`, run the watchdog script | systemd, `cec-watchdog.sh` through sudo |
| `config/store.py`, `tray/tray.py` | `config.toml`; the tray's checkbox | load, save, toggle, refresh | the file is the only channel |
| `health.py`, `event_log.py` | component states, recent events | set, heartbeat, persist | the tray and the wizard read the files |

What is hard in it: the state machine's lock covers transitions only, while
connects, timers, wake-ups and reconnect hooks run beside it, so every hook that
suspends can be overtaken; tasks are cancelled by name, including the task that
is asking; several callers want opposite modes at once; activation can fail in
the middle; a restart rebuilds the state from what can be observed; CEC frames
are lost; kernel descriptors are reused; two processes edit one file.
`PROJECT.json` lists each of these hazards at its line, with the properties that
watch over it or the reason why none does.

What makes each part correct:

- *State machine*: one transition at a time; the mode changes only to what the
  running transition is for; the session state belongs to the session; desk mode
  at rest has no owner and shows the desk layout; a controller that owns the
  session keeps it; every session is watched; games that exit, owners that leave
  and restarts lead back to desk.
- *Session resources*: what a session borrows is given back exactly once; no task
  of it survives; a screen that was locked is locked again.
- *Event path*: only settled changes pass; an early signal is held until a power
  cycle, which is trusted; a controller is one device however its nodes are
  announced, and nobody is heard who was neither plugged in nor used; what the
  state machine knows catches up with the controllers.
- *Shutdown*: torn down before power-off; never in the way of it.
- *Remote stream*: what a stream takes is given back, a dark display stays dark.
- *CEC and audio*: reports are true, attempts suffice against as many faults less
  one, conversations end, resets never overlap, a TV that sleeps in front of a player is reported; the TV's
  sound is found and has left the TV before it sleeps.
- *Programs*: a hook that is given up dies with what it started, but for a background
  process that refuses; no Steam from
  before a mode switch is shown; the shortcut is heard in couch mode only and
  does not undo itself; every transition ends.
- *Tray*: what it shows becomes true, whatever is lost or fails.
- *Hidraw*: no foreign descriptor is read, a back-off lasts, a device in use is
  never reported gone.
- *Configuration*: no editor undoes what another has saved.

## Modules

    ModeSwitch                     what the lock promises (abstract)
       ^ implemented by
    StateMachine  <---- MCStateMachine, StateMachine_proofs
       ^ extended and implemented by
    CouchSession                   the hooks, action by action
    Shutdown                       StateMachine with the shutdown watcher

    Udev, Debounce, ActivityGate       -> Pipeline
    UserHooks, Launcher, ManualExit    -> SessionPrograms
    CecBus, Audio                      -> Outputs
    ConfigFile, Health                 -> Tray
    Hidraw   RemoteStream   CecAdapter    each on its own

    X_proofs                       theorems about X: StateMachine, CouchSession, Shutdown,
                                   Pipeline, SessionPrograms, Outputs; Devices is
                                   CecAdapter and Hidraw, Wizard is RemoteStream and
                                   Tray

`CouchSession_proofs` and `Shutdown_proofs` extend `StateMachine_proofs`.

**StateMachine.** An action is the code between two suspensions, since asyncio
switches only there. `queue` is the lock: every call of `_transition` that has
not returned, in FIFO order, the head holding the lock; `stage` is the hook the
head awaits. The state variables are `self.mode`, `self._owner`,
`self._owner_is_real_device`, `self._idle` and whether `_no_controller_since` is
set; the entries of `self._tasks` are `grace`, `watch` and `recovery`; `waking`
holds the reconnects that await `exit_couch_idle`. `present` is which
controllers are there, `seen` which the last delivered event reported so,
`game` whether the launched process lives, `layout` what the displays show.
Three groups of actions: `Holder` (the stages of the transition that has the
lock), `Tasks` (timers, watches, delivered events), `Users` (wizard, shortcut,
power switches, the game, a restart). A display switch may fail
(`DisplayMayFail`) and then leaves the old or a mixed layout. `Restart` is
run_daemon from the top: `reconcile_startup_mode`, then
`check_for_stale_session_at_startup`.

**ModeSwitch.** The mode and the switch under way, nothing else. Its state is
mapped from `mode`, `stage` and `restarts`: a restart is the one thing that may
set the mode outside a switch.

**CouchSession.** Each stage of StateMachine with a hook is opened up into the
awaits of that hook (`step`), with the cookies, background tasks, the screen
lock, the TV (`tv`, the only CEC target) and what is reported of it (`cec`). Tasks
whose handle was overwritten are `stray`. `owed` is a history variable: the screen
was locked when a session unlocked it and nobody has changed it since. A wake-up or
a standby sends nothing when CEC is switched off or there is no adapter, and what
it sends may be lost; which of these can happen is `CecTrouble`. `Jobs` is which of
the two CEC tasks are followed, the retry loop (`Retry`) and the verification
(`Verify`). `ImplementsStateMachine` is the whole fair specification of
StateMachine.

**Shutdown.** StateMachine with `ShutdownWatcher.run`: inhibitor, signal queue,
`wait_for` with its timeout (which cancels the call wherever it is), release. The
inhibitor is taken before the signal is subscribed to, so a watcher may hold the
one and be deaf to the other. logind delays the shutdown while the inhibitor is
held, for at most `InhibitDelayMaxSec`, which is longer than the watcher's
timeout.

**Udev, Debounce, ActivityGate, Pipeline.** A controller is two nodes, "hid" and
"input"; the kernel announces each (`netlink`), the observer thread resolves an
announcement to a device id (`resolved` is its cache) and hands it to the loop
(`handed` is what waits behind `call_soon_threadsafe`). The parent of an input
node may be gone when it is asked for. Pipeline composes this with the hidraw
watcher, taken by what it promises, the debouncer, the gate and the auto-switch
check. Settling, gate and check are one step because nothing in between
suspends. `PromptSettling` says that a timer started inside the startup window
also ends inside it; `PromptDelivery` that an announcement reaches the debouncer
before a timer of seconds runs out. `use` is a history variable: the last thing
anybody did with a controller.

**RemoteStream.** `api_screen_unlock` and `api_screen_lock`, one action per
await, sharing `app.state`. kscreen-doctor is assumed to answer.

**Hidraw.** One receiver with several possible nodes, descriptors as numbers the
kernel reuses, time in half seconds, the sleep of the loop. A minor is not
reused while a descriptor is open on it, and a receiver is renumbered only after
data was heard.

**CecBus, Audio, Outputs.** CecBus is `wake_and_select_input` with its retry loop,
`wake_and_verify`, and `standby_and_verify`, on a bus where frames are lost and a
competing device claims the input; both are faults, bounded by `MaxFaults`. The
TV heeds standby only from the active source. Audio is `actions/audio.py` call by
call, with a sound server whose sinks and streams come and go. Outputs runs them
in the order of `activate_couch` and `activate_desk`, with idling in between: the
TV's sink exists only while the TV is on, under a name that changes. `disturbed`
is a history variable: a `pactl` call failed, or a sink came or went when the
activation could no longer see it.

**CecAdapter.** `ensure_adapter` and `_run_watchdog` for overlapping callers that
may be cancelled, with the script as a process that outlives its caller, and what
it reports as "cec" (the other writers of that entry are in CouchSession). The
periodic timer that runs the same script on its own is left out. `CooldownEnds`
assumes that the cooldown, 120 s, outlasts the script; the script itself waits for
restarts under systemd's default limits. The USB reset is not part of it: that runs
later, in `cec-fixup.service`, which the script starts with `--no-block`.

**UserHooks, Launcher, ManualExit, SessionPrograms.** UserHooks is one phase of
commands: the shell and what it leaves in the background, the timeout, the
killing of the process group. Launcher is the Steam preset: processes by pid,
who asked for the end of which, and the wait for them; `stale` is a history
variable, the clients that lived through a switch of the display mode.
ManualExit is the shortcut's watch and hold tasks with overlapping `start` and
`stop`. SessionPrograms runs them along the transitions, beside reconnects and
the API, and lets a teardown be cancelled by its time limit or by the shortcut's
own watch. `CalmReconnects` says that no controller comes back during a teardown;
`Stubborn` is which processes may ignore SIGTERM.

**ConfigFile, Health, Tray.** `config.toml` is a flag and an age of the page's
settings. A handler that suspends holds the copy it loaded; the tray is another
process. A save may fail and then leaves the old file. Of `health.json`, the
worst status and its age in heartbeats are kept; the daemon may crash, a report
may be lost, `--doctor` overwrites the file, the clock may be set back. Tray is
the icon and the checkbox over both files.

## Runs

Every property of a run has a mutant in `PROJECT.json`: a plausible bug in one
mapped definition that makes the property fail. Every module states a type
invariant; those the proofs need are proved with them.

| Run | Setting | Shows |
|---|---|---|
| `SM_everything` | every feature, two controllers, failing displays, one restart | with switches cancelled in any stage the mode still follows ModeSwitch |
| `SM_sessions` | two controllers, a game that exits, the screensaver, one restart; no wizard, no shortcut, displays that work, grace periods that do not wait for the game | nobody takes an owner's session and no stale grace period ends one; desk mode shows the desk; every session is watched and ends with its game, or when its only controller is gone; after a restart the end of the game resyncs the hardware; StateMachine implements ModeSwitch, liveness included |
| `SD_shutdown` | the wizard, the shortcut, failing displays, one restart, two shutdown signals | a session is torn down before power-off unless the teardown times out; no shutdown hangs |
| `CS_session` | displays and CEC work, no idling (its wake-ups are what overlaps a teardown), wizard and shortcut | what a session borrows is given back; CouchSession implements StateMachine with its fairness |
| `CS_failures` | failing displays, a missing adapter, lost frames, idling, one restart | cookies that are held are valid; a TV that sleeps in front of a player is being verified or reported |
| `PL_gate` | a controller of two nodes, late announcements, retriggers, an auto-switch toggle | early signals are held until a power cycle, which is trusted; nobody is heard who was not used; what the state machine has heard converges |
| `SP_programs` | hooks that hang and leave children, either of which may ignore SIGTERM, the API, cancelled teardowns, reconnects outside teardowns | given-up commands die but for a child that refuses; no stale Steam; no watcher at the desk; the shortcut does not undo itself; transitions end |
| `CO_outputs` | whole sessions, two faults, failing `pactl` calls, a sink that changes its name, a stream that comes and goes | true CEC reports, the standby budget, the TV's sound is found, the TV sleeps silently, both directions settle |
| `TR_tray` | wizard, API, tray, failing saves, lost reports, crashes, `--doctor`, a clock set back | icon and checkbox converge on the truth |
| `RS_serialized` | requests that do not overlap, settings left alone during a stream | everything is given back, a dark display stays dark |
| `HR_watch` | default intervals, renumbering, a failed open | readers are sound (none on a foreign descriptor, no back-off cut short), nothing in use reported removed, reports converge |
| `CA_heal` | three callers, two of which may be cancelled; systemctl and the script may hang | no overlapping resets; nothing but systemctl or the script holds up a call |

### Known divergences

In some situations the code does something other than its own comments say. The
passing runs switch off exactly what causes them, so each says under which
conditions its promise holds. TLC shows each divergence with the property named
below, which is defined in the module, put alone into the cfg named below with
the constants changed as said.

| Property, cfg, constants | What happens | What the code says |
|---|---|---|
| `NoTaskAfterTeardown`, `CS_session`, Screensaver | a reconnect that wakes an idle session overlaps a teardown and leaves a retry task behind (`daemon.py:331`) | "There is no path where a stale retry can fire after teardown" (`state_machine.py:6-13`) |
| `NoWatcherAtDesk`, `SP_programs`, CalmReconnects FALSE | a reconnect during a teardown starts a shortcut watcher that nobody stops (`manual_exit.py:58`) | state that "needs a matching teardown" (`daemon.py:109-112`) |
| `FollowsController`, `PL_gate`, PromptDelivery FALSE | an announcement that arrives after the timer of a later signal has run out is believed (`devices/detect.py:384`) | "only emits a stable `DeviceEvent` after that device's state has held steady" (`debounce.py:7-9`) |
| `TvSoundFound`, `CO_outputs`, "headset" in Hdmi | any other HDMI sink ends the wait for the TV's (`actions/audio.py:133`) | the fallbacks "can't go stale the same way" (`actions/audio.py:116-119`) |
| `DeskHasNoOwner`, `SM_sessions`, DisplayMayFail | a failed activation leaves its owner in desk mode and other controllers are ignored (`state_machine.py:497-500`) | "self.mode == Mode.DESK here always means self._owner is None" (`:349-351`) |
| `DeskShowsDesk`, the same | the displays are not switched back | "rather than leaving the system half-switched" (`actions/display.py:262-265`) |
| `CouchHasOwner`, `SM_sessions`, MaxRestarts 0 | a connect that waited behind a teardown activates couch mode with no owner (`:496`) | "always set by _on_connect before a COUCH transition can happen" (`:69-71`) |
| `OwnerKept`, `SM_sessions`, Wizard | the wizard's button during an activation displaces its owner (`:355`) | "there's no existing owner to preserve" (`:349-351`) |
| `LateGraceEndsNothing`, `SM_sessions`, Wizard | a grace period ends the session the wizard started since (`:492`) | every background task "cancelled deterministically on the next transition" (`:6-10`) |
| `PlayerIsAwake`, `SM_sessions` | a reconnect while the session is going idle does not wake it (`:603`) | "a reconnect should resume instantly" (`:587-590`) |
| `ShortcutLeavesGame`, `SM_sessions`, Shortcut | the shortcut's teardown stops the game (`daemon.py:237`) | "this can never stop Steam or the game" (`:325-327`) |
| `SessionWatched`, `SM_sessions`, Shortcut | letting go of the shortcut cancels a teardown in preexit, and the session has no watch (`manual_exit.py:126`) | "the same self-deregistration protection against being cancelled mid-flight" (`:322-325`) |
| `RecoveryEndsSession`, `SM_sessions` | a daemon restarted during a session comes up in couch mode and nobody watches the game (`:300`) | "resyncs the hardware to desk once that game exits" (`:269-275`) |
| `AbandonedSessionEnds` without its condition, `SM_sessions` | another controller that connects cancels the owner's grace period (`:366`) | "Unplug (or exit the game), and it switches back" (`README.md:3-6`) |
| `HeldUntilPowerCycle`, `PL_gate`, PromptSettling FALSE | a signal inside the startup window that settles after it is passed on (`activity_gate.py:122`) | "held *indefinitely*" (`activity_gate.py:44-47`) |
| `RelockKept`, `CS_session`, DisplayMayFail or MaxRestarts 1 | a retry, or a restart, forgets that the screen was locked (`daemon.py:195`, `:129`) | "exiting never leaves the desk unlocked" (`daemon.py:127-128`) |
| `NoInhibitLeaked`, `CS_session`, DisplayMayFail | a retry overwrites the cookies of the failed attempt (`daemon.py:196`) | state that "needs a matching teardown" (`daemon.py:109-112`) |
| `ProtectedAfterCancel`, `SD_shutdown` | after a cancelled shutdown there is no inhibitor for the next (`shutdown_watcher.py:215`) | "held across any number of cancel/retry cycles" (`:176-180`) |
| `ReleasedAtDesk`, `SD_shutdown` | a shutdown during an activation is let through (`:201`) | "so the bad state never gets left behind" (`:7-10`) |
| `GivenBack`, `RS_serialized`, Serialized FALSE | two overlapping unlock requests leak a cookie (`wizard/server.py:202`) | the second "is a no-op rather than acquiring and leaking a second cookie" (`:182-184`) |
| `GivenBack`, `RS_serialized`, Reconfigured | turning screen-lock handling off between unlock and lock leaks the cookie (`wizard/server.py:220`) | "so the caller can release it" (`actions/screen_lock.py:221-223`) |
| `StreamKeptAwake`, `RS_serialized` | the first of two streams to end locks the screen of the other (`wizard/server.py:229`) | a stream "should get the screen unlocked and kept awake" (`sunshine-unlock-prep.sh:5-7`) |
| `NoSilentSleep`, `CS_failures`, "untargeted" added to CecTrouble | with no `standby_targets` "wake confirmed for all targets" is reported unasked, and the TV may be dark (`daemon.py:186`) | "Deliberately NOT a place to hide failures" (`health.py:6`) |
| `NoSilentSleep`, `CS_failures`, "disabled" added to CecTrouble | CEC switched off while the session is idle: a reconnect ends the idling and leaves the TV asleep (`daemon.py:323`) | "Wakes the TV back up [...] the mirror of enter_couch_idle()" (`:319-320`) |
| `NothingOutlived`, `SP_programs` | a background process that ignores SIGTERM is left running when its shell heeds it (`actions/hooks.py:52`) | "it is killed after `timeout_s` (whole process group)" (`:15-16`) |
| `SettingsKept`, `TR_tray`, two Posts, TrayUsed FALSE | the JSON API saves a configuration loaded before its body arrived over a newer page (`wizard/server.py:331`) | the "single source of truth both processes converge on" (`:325-329`) |
| `ToggleKept`, `TR_tray`, ApiUsed FALSE | a configure page saved while the tray toggles undoes the toggle (`tray/tray.py:244`) | a toggle is applied "on the very next controller event" (`daemon.py:87-92`) |

### Bounds

- Controllers are told apart only as owner and not owner, so two are enough.
- `MaxQueue` 3: the transition under way, one that undoes it and one that
  overtakes; 2 where the hooks are opened up. `LockCorrect` is proved for any.
- One restart: what a restart forgets is forgotten by the first. `SessionWatched`,
  `DeskShowsDesk` and `NoSilentSleep` speak of the time before it.
- Pipeline: one controller, since devices share nothing but the queues, whose
  order matters per device; six announcements are a full unplug, plug and
  unplug; one auto-switch toggle reaches every event it can swallow.
- CouchSession: one controller, because ownership is StateMachine's business; the
  two CEC tasks are followed one at a time, the retry loop in `CS_session`, the
  verification in `CS_failures`. With failures `MaxQueue` is 1 (2 held as well, but
  takes longer than a run should).
- Shutdown: two signals, one shutdown and the next or its cancellation.
- RemoteStream: two streams and three cookies: one leaked, one held, one more.
- Hidraw: the default intervals (5 s rescan, 6 s remove timeout, 2 s back-off) in
  half seconds; two renumberings, one failed open.
- Outputs: two devices, two attempts and two faults, so that the standby budget
  can be reached and exceeded; one stream, because streams do not affect each
  other; a stale name, a current one and two attempts to find it.
- SessionPrograms: one command per phase (commands run one after the other), two
  pids (a client and the bootstrap that `-shutdown` starts), two watch tasks (the
  stored one and one that was overwritten).
- CecAdapter: three callers, as many as the daemon has (a transition, the owner
  watch, a reconnect); one look after the script instead of five.
- Tray: one request, one saved page, one `--doctor`, a clock set back once by one
  heartbeat: each of them disturbs what is shown once, which must then recover.

`CHECK_DEADLOCK FALSE` is used only in `SD_shutdown`, where the machine ends
switched off.

### Fairness

Weak fairness on what the event loop schedules: hooks return (every external
command they wait for, but two, has a timeout), sleeps end, delivered events are
handled, a readable descriptor is read. No fairness for users, controllers,
games, restarts, toggles or the network. Pipeline's settle timers are fair: no
device reports for ever without pause. The two commands are systemctl and the
watchdog script in `ensure_adapter` (`devices/cec.py:139`, `:170`), which a hook
awaits as long as they take: the liveness of StateMachine, CouchSession and
SessionPrograms holds as long as they end. CecAdapter does not assume that they
do: fair is only the sleep between two looks for the device node, and
`OnlyProcessesHoldUp` says that a call which does not return is waiting for one
of the two. In Shutdown, the watcher's own teardown has none (it may hang; that
is what the timeout is for), and the handling of a signal has strong fairness
because the bound on waiting calls may hold it up now and then. CouchSession
assumes fairness of every await and shows that StateMachine's follows. In
SessionPrograms every other wait of the daemon has a limit and cancelled tasks
run on; hooks, Steam and the buttons need do nothing. In Outputs every `cec-ctl`
and `pactl` call has a timeout. In Tray a live daemon's heartbeat and the clock
are fair, as is the tray's handler; its refresh has strong fairness, because
clicks disable it now and then.

## Proofs

Every safety property that a run checks is stated by a theorem, which holds for
every value of the constants; TLC checked the property, and the inductive
invariant behind it, on small instances first. What a theorem assumes beyond the
named ASSUMEs, which TLC evaluates in every run, is said with it. Such a
condition is needed unless the text says otherwise: the table of known
divergences, or the remark given here, has what happens without it.

`StateMachine_proofs`, for any controllers, features and bounds:

- `TypeCorrect`, `LockCorrect`, `SessionStateCorrect`: the types, `LockDiscipline`
  (one transition at a time, with the stage and tasks that go with it) and
  `SessionStateOnlyInCouch`. None is inductive alone: that a transition finds no
  watch to clash with needs the session state, that the session state is cleared
  needs the lock discipline, and both need the types. Their conjunction `IInv` is
  inductive (`InitIInv`, `NextKeepsIInv`); the step is split into the holder's
  stages, the tasks and the users, and what the lock and its queue can disturb
  (`LockPart`) is separated from the rest (`RestPart`), so that the lemmas on
  `Transition`, `Release` and on dropping a waiting call carry most cases.
- `ImplementsModeSwitch` (`ModeSwitchSteps`): the initial states and every step
  map to ModeSwitch. Its liveness part is checked by `SM_sessions`.
- `SingleOwner` (`OwnerKept`) and `GraceIsOwners` (`LateGraceEndsNothing`) without
  the wizard, from the invariant that an owner is a real controller and a
  running grace period is its own (`OwnerInv`).
- `EverySessionWatched` (`SessionWatched`) without the shortcut: a session that has
  no watch is being started, or a desk call is queued, and nobody can cancel that
  call (`WatchedInv`).
- `DeskIsFree` (`DeskHasNoOwner`) and `DeskIsShown` (`DeskShowsDesk`) where displays do
  not fail. An owner in desk mode has a couch transition in the queue, or a desk
  transition about to clear it (`DeskOwnerInv`).

`CouchSession_proofs`, for any controllers, any background tasks and any bounds:

- `HooksImplementStages`: each await of a hook is a stutter of StateMachine or the
  end of its stage (`CNextImplements`), so every behaviour of CouchSession is one of
  StateMachine and all its theorems hold here; `HooksKeepModeSwitch`
  (`ModeSwitchSteps`) is the first of them. Fairness is left to TLC
  (`ImplementsStateMachine`).
- `SessionTypes` and `HeldCookiesValid` (`CookiesValid`), unconditional. `SessionInv`
  is IInv, with which step belongs to which stage (`StepInv`), and the types and
  cookies of what the daemon holds (`OwnInv`). The lemmas `HookShape` and
  `ElsewhereOrHook` reduce a step of the system to what it does to the borrowed
  things: either it is one of the hooks' own, or it can only end a task, wake the TV
  or put it to standby. Every proof below uses them.
- `NoCookieLost` (`NoInhibitLeaked`) and `DeskIsLockedAgain` (`RelockKept`) where
  displays do not fail, until a restart. `BorrowInv`: one registered inhibition for
  each cookie, and none is held where the next step would register another.
  `LockInv`: the lock is owed only while `relock_on_desk` says so.
- `DeskIsWhole` (`DeskGetsAllBack`), until a restart, where CEC has an adapter that
  is heeded, and `TeardownStopsTasks` (`NoTaskAfterTeardown`), restarts included and
  whatever becomes of CEC, both where displays do not fail and the idle feature is
  off. Then no reconnect wakes anything (`AwakeInv`), so a task lives only between
  the wake-up of a session and its teardown (`TaskInv`) and the TV's standby at the
  end of a teardown is the last word (`TvInv`). With the idle feature a wake-up that
  overlaps a teardown leaves a task, or the TV on.
- `SleepIsKnown` (`NoSilentSleep`) without the shortcut, with CEC on and the TV among
  its targets, whatever becomes of the adapter, of frames and of displays. `SleepInv`
  follows the last wake-up: once it is sent, the TV is on, or is being verified, or
  is reported, and stays so in a session that is neither idle nor on its way there. It needs `WatchedInv` of the state machine:
  the owner watch is the only one that puts the TV of a session to standby and marks
  the session idle afterwards, so it must not be cancelled in between but by the
  session's end. A shortcut let go of too late cancels a teardown that has cancelled
  the watch (TLC: `CS_failures` with ShortcutEnabled).

`Shutdown_proofs`, unconditional: `TornDownFirst` (`TornDownBeforePowerOff`). IInv
survives the watcher's call and its cancellation by the timeout, and while a
session the watcher found is live its desk call is somewhere in the queue
(`DoomInv`): nothing but the session's end answers that call. With IInv come
`ShutdownKeepsLock` (`LockDiscipline`), `ShutdownKeepsModeSwitch` (`ModeSwitchSteps`: a
teardown that is cut off, in a hook or in the queue, looks to ModeSwitch like a
switch given up) and `ShutdownTypes`.

`Pipeline_proofs`:

- `EarlySignalsHeld` (`HeldUntilPowerCycle`) with `PromptSettling`. The invariant
  (`GateInv`) ties the debouncer to the gate: what was signalled early has settled
  when the startup window is over, and what last settled as disconnected was
  witnessed.
- `PlayersHeard` (`OnlyPlayersHeard`) with `PromptDelivery`. `IdInv` follows an
  input node whose parent was gone through all stations: it is resolved to the
  bare id only while its own remove is still in `netlink` (`OrphanInv`), so a
  connect of the bare id, handed over or pending, always has its disconnect
  coming behind it (`BareInv`) and never settles.

`SessionPrograms_proofs`:

- `NothingOutlives` (`GivenUpCommandsDie`), unconditional, whichever processes ignore
  SIGTERM: `_kill_group` returns when the shell is gone, and then what SIGTERM left
  of the group can only be a child that ignores it (`HookInv`), or after two
  seconds, and then SIGKILL has left nothing. The child that is left is a known
  divergence.
- `FreshSwapchain` (`NoStaleSwapchain`), unconditional: while the session's launch is
  on its way, every client from before the switch is one it waits for
  (`LaunchInv`), whatever the API and the user start and end beside it.
- `NobodyListensAtDesk` (`NoWatcherAtDesk`) and `ShortcutNotUndone` (`ShortcutRunsOn`) with
  `CalmReconnects`. `WatchInv`: one user at a time is inside `start` or `stop`, so
  every watch that is not over is the stored one, and the watch that runs the
  teardown is over before the teardown goes on.

`Outputs_proofs`:

- `ReportsAreTrue` (`ReportTrue`) and `StandbySurvivesFaults` (`StandbyWithinBudget`),
  unconditional, for any devices, attempts and faults. `BInv`: a target that is
  not missed has been seen in the state asked for, and no later step of the
  conversation takes it back; each round a standby has behind it has cost a fault.
- `TvHasTheSound` (`TvSoundFound`) where the sinks that `couch_sink` can take for the
  TV's are the TV's (`FindsTvOnly`), and `SilentWhenPutToSleep` (`TvSleepsSilently`)
  without that. One invariant (`SoundInv`) follows the whole session: which part of
  audio.py may run in which stage (`StageInv`), what an undisturbed search for the
  TV's sink has seen at each point (`CouchInv`), that the sound is at the desk when
  the standby starts (`DeskInv`), and, for both directions, that what is not left to
  be moved plays on the sink that has become the default (`Arrived`). TLC checked it
  with a configured sink, with none, and with one that only its description gives
  away.
- `OutputsGetOn` (`OnlyForward`), unconditional: while the outputs are on their way,
  every step of `Progress` ends a stage, a round or an attempt, or takes a device or
  a stream off a list, and nobody's step undoes that (`ConversationGetsOn`,
  `ActivationGetsOn`, `OthersRest`). This is the measure behind `OutputsSettle`; what
  it leaves to TLC is that `Progress` is enabled meanwhile, and the fairness.
- `OutputsTypes`.

`Devices_proofs`:

- `OneReset` (`OneWatchdogRun`), unconditional, for any number of callers: while a
  script runs, with its caller or orphaned, the cooldown lasts, and nobody passes
  the check (`ScriptInv`).
- `CallsGetOn` (`NoCallTurnsBack`), unconditional: a call of `ensure_adapter` starts
  one script at most and has its looks counted, whatever the others do. It is no
  claim that the call returns: the processes it awaits may hang. With it,
  `AdapterTypes`.
- `ReadersSound` (`SoundReaders`) where the back-off is no longer than the rescan
  interval, for any nodes, descriptors and intervals. `ReaderInv` bounds a pending
  back-off by the time to the next scan; with a longer one (TLC: Rescan 2, Backoff
  4) a reused descriptor inherits the back-off of the node before it.
- `InUseStaysLive` (`NeverRemovedInUse`) where also the rescan interval is shorter
  than the remove timeout. `UseInv`: a controller in use is being read, or has been
  silent or in use for no longer than the reader has been away: since the last
  scan, or since the back-off began. The defaults, 5 s, 6 s and 2 s
  (`devices/detect.py:428-431`), satisfy both conditions. They are what the argument
  needs, and are not claimed to be the weakest.

`Wizard_proofs`:

- `DesktopGivenBack` (`GivenBack`) and `DarkStaysDark` (`DarkDisplayStaysDark`) for any
  number of streams, with `Serialized` and without `Reconfigured`. `StreamInv` says
  for each point of a request what it has taken so far, and between requests that
  everything is either untouched or accounted for in `app.state`.
- `PagesKeepToggles` (`ToggleKept`) where the tray does not write, for any requests,
  failing saves and crashes: `configure_post` and the toggle do not suspend between
  load and save, and the JSON API, which does, changes nothing but the flag (`EditInv`).
- `TogglesKeepPages`, unconditional, for whoever writes the file: a step that brings
  back settings an earlier save had replaced is a save of the tray, a save of the
  JSON API, or, where both of these are used, a save of the wizard's own toggle; never
  one of a configure page. The last needs both: one to undo a page and the other to
  redo it while the toggle holds the undone copy (`PagesInv`). That these saves do so
  is the known divergence of `SettingsKept`.
- Both are theorems of the editors (ConfigFile) that hold of the whole Tray because
  its every step is an editor's or leaves the file and all copies alone
  (`TrayImplementsConfigFile`). `TrayTypes` are the types of both files; the age of
  health.json needs to be known not negative until the clock is set back
  (`HealthInv`).

Only model-checked: the twelve properties with liveness in them, since fairness
and ENABLED are out of the prover's reach. Their safety parts, where they have one,
are proved: that of `ModeSwitchSpec` by `ImplementsModeSwitch`, that of
`ImplementsStateMachine` by `HooksImplementStages`, the measures of `OutputsSettle` and
`OnlyProcessesHoldUp` by `OutputsGetOn` and `CallsGetOn`. The others are
`GameExitEndsSession`, `AbandonedSessionEnds`, `RecoveryResyncs`, `ShutdownNeverHangs`,
`FollowsController`, `TransitionEnds`, `TrayFollows` and `ReportsController`.

## Not modelled

Of the modelled components:

- Exceptions other than `ActivationError` in a hook, the `OSError` of a report that
  cannot be written among them; `aclose`, which nothing but the daemon's exit
  would call; the daemon's main, doctor and startup checks.
- `stop` of the shortcut watcher swallows a cancellation meant for its caller when
  it arrives while the watch task ends (`manual_exit.py:67`). In SessionPrograms the
  time limit of a teardown therefore does nothing at that point (`CancelTeardown`
  requires another stage) and a watch that ends cancels nothing there (`Cancelled`
  leaves all as it is): the teardown runs on, past its limit. That a limit may so
  have no effect is kept by the model and denied by no property.
- Going idle does not cancel the wake's retry loop (`daemon.py:304`). The loop ends
  after seconds by default, and idling begins after minutes.
- Controllers without a HID_UNIQ: their identity is a vendor, product and path, or
  a device path (`devices/detect.py:79`), which raises the question of one device
  under two names that Pipeline studies for the bare id. Parsing of udev
  properties and controller profiles are data.
- Custom launch commands and teardown commands: started and forgotten.
- `daemon_alive` is read twice for one refresh of the tray (`tray/tray.py:51`, and
  from `:55` in `health.py:142`, which raises when the limit was passed in
  between); Tray decides on one reading.
- Wall-clock jumps for the self-heal cooldown, which compares with a file time.
- The ring of recent events, which is only displayed.

Whole components: the configuration schema and the controller profiles (data),
authentication and page rendering (no state beyond the files modelled), the
supervisor (logs a crashed task), session_env (waits before anything starts),
CEC topology parsing and `cec0_configure`, packaging, and mouse-hider, a tool
of its own.

## Plan

Modelled and proved: the state machine with ModeSwitch, the event path from the
kernel on, the hooks, shutdown, the programs of a session, the outputs, the files
and their editors, the self-heal, the readers, the remote stream. Left:

1. Measures like those of `OutputsGetOn` and `CallsGetOn` for the transitions of
   SessionPrograms, behind `TransitionEnds`.
2. `_transition` left by an exception, with `aclose`, once the code says what is to
   happen then.
