---------------------------- MODULE CouchSession ----------------------------
(***************************************************************************)
(* What daemon.py's hooks do inside the state machine's stages, one step   *)
(* per action they await, and what a couch session borrows and must give   *)
(* back (CouchSessionResources): the background tasks, the two inhibit     *)
(* cookies, the lock screen and the TV, with the health entry "cec" that   *)
(* reports on it.  Screen-lock handling, popup suppression and CEC (with   *)
(* power-off on teardown, the TV its only target) are configured; CEC may  *)
(* be switched off and its adapter may be missing at any use.              *)
(*                                                                         *)
(* Every action is an action of StateMachine with the effects of the hook  *)
(* added, or a step of a hook that leaves StateMachine's variables alone.  *)
(***************************************************************************)
EXTENDS StateMachine

CONSTANTS
  Retry,       \* the retry loop's task
  Verify,      \* the verification's task
  Jobs,        \* which of these two are followed
  CecTrouble,  \* what may go wrong with CEC
  Shortcut,    \* the manual-exit watcher's task
  MaxInhibits  \* bound: inhibitions registered with a service

ASSUME CouchSessionAssumption ==
  /\ Jobs \subseteq {Retry, Verify} /\ Retry # Verify
  /\ Shortcut \notin {Retry, Verify} /\ MaxInhibits \in Nat
  /\ CecTrouble \subseteq
       {"disabled",    \* the configuration switches CEC off
        "missing",     \* there is no adapter
        "lost",        \* frames are lost or not heeded, as by an unusable adapter
        "untargeted"}  \* cec.standby_targets is empty

Services == {"screen", "notify"}  \* what can be inhibited

VARIABLES
  step,      \* what the activation under way awaits, or "none"
  relock,    \* relock_on_desk
  cookie,    \* services whose inhibit cookie is held
  inhibits,  \* inhibitions each service has registered for the daemon
  tracked,   \* live tasks the resources' handles refer to
  stray,     \* those of which some live on without a handle
  roused,    \* reconnects whose exit_couch_idle has sent its wake-up
  locked,    \* the screen is locked
  owed,      \* it was locked when a session unlocked it, and nobody
             \* has locked or unlocked it since
  tv,        \* "on" or "standby"
  cec        \* the health component "cec": "ok" or "failed"

resources == <<relock, cookie, tracked, stray>>
power == <<tv, cec>>
desktop == <<inhibits, locked, owed, power>>
svars == <<step, resources, roused, desktop>>
cvars == <<vars, svars>>

CouchSteps == {"ask", "unlock", "inhibit", "suppress", "wake", "display"}
DeskSteps == {"stop", "switch", "relock", "unsuppress", "standby"}

-----------------------------------------------------------------------------
(* Steps of activate_couch and activate_desk.                              *)

Advance(from, to) ==
  /\ step = from
  /\ step' = to
  /\ UNCHANGED <<vars, roused>>

\* What may be reported where only this trouble can make it a failure.
Reports(trouble) == IF trouble \in CecTrouble THEN {"ok", "failed"} ELSE {"ok"}

\* CEC is switched off, or there is no adapter: nothing is sent.
NoAdapter ==
  \/ "disabled" \in CecTrouble /\ UNCHANGED cec
  \/ "missing" \in CecTrouble /\ cec' = "failed"

\* A frame that switches the TV, heard or lost.
Frame(state) ==
  \/ tv' = state
  \/ "lost" \in CecTrouble /\ UNCHANGED tv

\* The handles are overwritten, that of the retry loop with None if there is no
\* physical address to claim; a task one of them referred to lives on.
SpawnTasks ==
  /\ \E new \in {Jobs, Jobs \ {Retry}} : tracked' = (tracked \ Jobs) \cup new
  /\ stray' = stray \cup (tracked \cap Jobs)

\* wake_and_select_input and _spawn_wake_verify, where there is an adapter, with
\* what is reported of that.
Wake(reports) ==
  \/ Frame("on") /\ SpawnTasks /\ cec' \in reports
  \/ NoAdapter /\ UNCHANGED <<tv, tracked, stray>>

\* standby_and_verify, where there is an adapter; what it finds is reported to
\* an entry of its own.
Standby ==
  \/ Frame("standby") /\ cec' \in Reports("lost")
  \/ NoAdapter /\ UNCHANGED tv

\* relock_on_desk = await get_active()
AskLocked ==
  /\ Advance("ask", "unlock")
  /\ relock' = locked
  /\ owed' = (owed \/ locked)
  /\ UNCHANGED <<cookie, tracked, stray, inhibits, locked, power>>

Unlock ==
  /\ Advance("unlock", "inhibit")
  /\ locked' = FALSE
  /\ UNCHANGED <<resources, inhibits, owed, power>>

\* Mutant of Inhibit: the cookie is not kept.
InhibitForget(s, from, to) ==
  /\ Advance(from, to)
  /\ \/ /\ inhibits[s] < MaxInhibits
        /\ inhibits' = [inhibits EXCEPT ![s] = @ + 1]
     \/ UNCHANGED inhibits
  /\ UNCHANGED <<resources, locked, owed, power>>

\* acquire_inhibit: the cookie, or None when the service refuses.
Inhibit(s, from, to) ==
  /\ Advance(from, to)
  /\ \/ /\ inhibits[s] < MaxInhibits
        /\ inhibits' = [inhibits EXCEPT ![s] = @ + 1]
        /\ cookie' = cookie \cup {s}
     \/ /\ cookie' = cookie \ {s}
        /\ UNCHANGED inhibits
  /\ UNCHANGED <<relock, tracked, stray, locked, owed, power>>

\* Mutant of Uninhibit: the cookie is not cleared.
UninhibitKeepCookie(s) ==
  /\ inhibits' = IF s \in cookie
                 THEN [inhibits EXCEPT ![s] = @ - 1] ELSE inhibits
  /\ UNCHANGED cookie

Uninhibit(s) ==
  /\ inhibits' = IF s \in cookie
                 THEN [inhibits EXCEPT ![s] = @ - 1] ELSE inhibits
  /\ cookie' = cookie \ {s}

\* The CEC part of activate_couch: "wake + active-source sent" is the last report.
WakeAndSelectInput ==
  /\ Advance("wake", "display")
  /\ Wake({"ok"})
  /\ UNCHANGED <<relock, cookie, inhibits, locked, owed>>

\* Mutant of StopTasks: the CEC tasks are forgotten.
StopWatcherOnly ==
  /\ Advance("stop", "switch")
  /\ tracked' = tracked \ {Shortcut}
  /\ UNCHANGED <<relock, cookie, stray, desktop>>

StopTasks ==
  /\ Advance("stop", "switch")
  /\ tracked' = {}
  /\ UNCHANGED <<relock, cookie, stray, desktop>>

\* The displays and the audio are switched and the screen inhibition released.
SwitchAndRelease ==
  /\ Advance("switch", "relock")
  /\ Uninhibit("screen")
  /\ UNCHANGED <<relock, tracked, stray, locked, owed, power>>

\* Mutant of Relock: the flag is reset before it is read.
RelockTooLate ==
  /\ Advance("relock", "unsuppress")
  /\ relock' = FALSE
  /\ locked' = (locked \/ relock')
  /\ owed' = (owed /\ ~relock')
  /\ UNCHANGED <<cookie, tracked, stray, inhibits, power>>

Relock ==
  /\ Advance("relock", "unsuppress")
  /\ relock' = FALSE
  /\ locked' = (locked \/ relock)
  /\ owed' = (owed /\ ~relock)
  /\ UNCHANGED <<cookie, tracked, stray, inhibits, power>>

\* Mutants of Unsuppress: it is left out, or waits for a cookie.
UnsuppressNothing ==
  Advance("unsuppress", "standby") /\ UNCHANGED <<resources, desktop>>

UnsuppressHeld ==
  /\ "notify" \in cookie
  /\ Advance("unsuppress", "standby")
  /\ Uninhibit("notify")
  /\ UNCHANGED <<relock, tracked, stray, locked, owed, power>>

Unsuppress ==
  /\ Advance("unsuppress", "standby")
  /\ Uninhibit("notify")
  /\ UNCHANGED <<relock, tracked, stray, locked, owed, power>>

HookSteps ==
  \/ AskLocked \/ Unlock
  \/ Inhibit("screen", "inhibit", "suppress")
  \/ Inhibit("notify", "suppress", "wake")
  \/ WakeAndSelectInput
  \/ StopTasks \/ SwitchAndRelease \/ Relock \/ Unsuppress

-----------------------------------------------------------------------------
(* The state machine's actions with what their hooks add.                  *)

StartWatcher ==
  /\ tracked' = IF ShortcutEnabled THEN tracked \cup {Shortcut} ELSE tracked
  /\ UNCHANGED stray

BeginCouch ==
  PrestartDone /\ step' = "ask" /\ UNCHANGED <<resources, roused, desktop>>

BeginDesk ==
  PreexitDone /\ step' = "stop" /\ UNCHANGED <<resources, roused, desktop>>

FinishCouch ==
  /\ step = "display" /\ CouchActivated /\ step' = "none"
  /\ StartWatcher
  /\ UNCHANGED <<relock, cookie, roused, desktop>>

FailCouch ==
  /\ step = "display" /\ CouchActivationFailed /\ step' = "none"
  /\ UNCHANGED <<resources, roused, desktop>>

FinishDesk ==
  /\ step = "standby" /\ DeskActivated /\ step' = "none"
  /\ Standby
  /\ UNCHANGED <<resources, roused, inhibits, locked, owed>>

\* enter_couch_idle sends its standby, and keeps sending until confirmed.
IdleStandby ==
  /\ watch = "idling"
  /\ Standby
  /\ UNCHANGED <<vars, step, resources, roused, inhibits, locked, owed>>

FinishIdle ==
  /\ IdleEntered
  /\ Standby
  /\ UNCHANGED <<step, resources, roused, inhibits, locked, owed>>

\* Mutant of Rouse: the wake-up is not verified.
RouseUnverified(d) ==
  /\ d \in waking \ roused
  /\ roused' = roused \cup {d}
  /\ \/ Frame("on") /\ cec' \in Reports("lost")
     \/ NoAdapter /\ UNCHANGED tv
  /\ UNCHANGED <<vars, step, resources, inhibits, locked, owed>>

\* exit_couch_idle wakes the TV in the middle of _on_connect, which goes on
\* whether or not it could.
Rouse(d) ==
  /\ d \in waking \ roused
  /\ roused' = roused \cup {d}
  /\ Wake(Reports("lost"))
  /\ UNCHANGED <<vars, step, relock, cookie, inhibits, locked, owed>>

FinishRouse(d) ==
  /\ d \in roused /\ Woken(d)
  /\ roused' = roused \ {d}
  /\ StartWatcher
  /\ UNCHANGED <<step, relock, cookie, desktop>>

\* A connect in couch mode that needs no wake-up restarts the watcher at once.
DoConnect(d) ==
  /\ Connect(d)
  /\ IF mode = "couch" /\ owner' = d /\ ~idle
     THEN StartWatcher ELSE UNCHANGED <<tracked, stray>>
  /\ UNCHANGED <<step, relock, cookie, roused, desktop>>

\* What _verify reports: the TV has said that it is on, or all attempts failed.
Verdict ==
  \/ tv = "on" /\ cec' \in Reports("lost")
  \/ tv = "standby" /\ cec' = "failed"
  \/ "untargeted" \in CecTrouble /\ cec' = "ok"

\* The retries are over, the wake-up is confirmed or given up, or the watcher
\* lost its evdev node.
TaskEnds ==
  /\ \E t \in tracked \cup stray :
       /\ \/ t \in tracked /\ tracked' = tracked \ {t} /\ UNCHANGED stray
          \/ t \in stray /\ stray' \in {stray, stray \ {t}} /\ UNCHANGED tracked
       /\ IF t = Verify THEN Verdict ELSE UNCHANGED cec
  /\ UNCHANGED <<vars, step, relock, cookie, roused, inhibits, locked, owed, tv>>

\* Somebody at the desk, the screen locker's timeout, or the wizard.
UserLocks ==
  /\ locked' = ~locked
  /\ owed' = FALSE
  /\ UNCHANGED <<vars, step, resources, roused, inhibits, power>>

\* What the daemon remembers is gone; what it asked of others stays, except that a
\* boot ends the desktop session.
DoRestart(fresh) ==
  /\ Restart(fresh)
  /\ step' = "none" /\ roused' = {}
  /\ relock' = FALSE /\ cookie' = {} /\ tracked' = {} /\ stray' = {}
  /\ UNCHANGED tv /\ cec' \in Reports("missing")
  /\ IF fresh
     THEN inhibits' = [s \in Services |-> 0] /\ locked' = FALSE /\ owed' = FALSE
     ELSE UNCHANGED <<inhibits, locked, owed>>

\* The holder's stages whose hooks touch none of this.
PlainStages == Acquire \/ Launched \/ PoststartDone \/ PostexitDone

\* Actions whose hooks touch none of this.
Others ==
  /\ \/ PlainStages
     \/ GraceElapsed \/ WatchPoll \/ RecoveryPoll
     \/ ForceEnterCouch \/ WizardExit
     \/ Shortcut \in tracked /\ ShortcutExit
     \/ ShortcutReleased \/ GameExits
     \/ \E d \in Devices : Disconnect(d) \/ PowerOn(d) \/ PowerOff(d)
  /\ UNCHANGED svars

-----------------------------------------------------------------------------
CInit ==
  /\ Init
  /\ step = "none" /\ relock = FALSE /\ cookie = {}
  /\ inhibits = [s \in Services |-> 0]
  /\ tracked = {} /\ stray = {} /\ roused = {}
  /\ locked \in BOOLEAN /\ owed = FALSE
  /\ tv = "standby" /\ cec \in Reports("missing")

Hooks ==
  \/ HookSteps \/ BeginCouch \/ BeginDesk
  \/ FinishCouch \/ FailCouch \/ FinishDesk

CNext ==
  \/ Hooks \/ Others
  \/ IdleStandby \/ FinishIdle \/ TaskEnds \/ UserLocks
  \/ \E d \in Devices : Rouse(d) \/ FinishRouse(d) \/ DoConnect(d)
  \/ \E fresh \in BOOLEAN : DoRestart(fresh)

\* Every hook step returns: what it awaits has a timeout, but for systemctl and
\* the watchdog script in ensure_adapter, which are taken to end.
CFairness ==
  /\ WF_cvars(Hooks)
  /\ WF_cvars(PlainStages /\ UNCHANGED svars)
  /\ WF_cvars(GraceElapsed /\ UNCHANGED svars)
  /\ WF_cvars(WatchPoll /\ UNCHANGED svars)
  /\ WF_cvars(RecoveryPoll /\ UNCHANGED svars)
  /\ WF_cvars(FinishIdle)
  /\ \A d \in Devices :
       /\ WF_cvars(DoConnect(d))
       /\ WF_cvars(Disconnect(d) /\ UNCHANGED svars)
       /\ WF_cvars(Rouse(d))
       /\ WF_cvars(FinishRouse(d))

CSpec == CInit /\ [][CNext]_cvars
FairCSpec == CSpec /\ CFairness

-----------------------------------------------------------------------------
CTypeOK ==
  /\ TypeOK
  /\ step \in CouchSteps \cup DeskSteps \cup {"none"}
  /\ {relock, locked, owed} \subseteq BOOLEAN
  /\ cookie \subseteq Services
  /\ inhibits \in [Services -> 0 .. MaxInhibits]
  /\ tracked \subseteq Jobs \cup {Shortcut}
  /\ stray \subseteq Jobs
  /\ roused \subseteq waking
  /\ tv \in {"on", "standby"} /\ cec \in {"ok", "failed"}

AtDesk == mode = "desk" /\ queue = <<>>

\* "There is no path where a stale retry can fire after teardown": once the
\* desk transition is over, no task of the session that ended is left.
NoTaskAfterTeardown == AtDesk => tracked \cap Jobs = {} /\ stray = {}

\* The session gives back what it borrowed: popups and screensaver work again
\* and the TV is in standby.
DeskGetsAllBack ==
  AtDesk => tv = "standby" /\ \A s \in Services : inhibits[s] = 0

\* "activate_desk() locks it again so exiting never leaves the desk
\* unlocked": a screen that was locked when couch mode started, and that
\* nobody unlocked since, is locked again.
RelockKept == AtDesk => ~owed

\* A cookie that is held is valid: no inhibition is released twice, and none
\* is released that a later session relies on.
CookiesValid == \A s \in cookie : inhibits[s] > 0

\* Every registered inhibition has its cookie, or can never be released.
NoInhibitLeaked ==
  \A s \in Services : inhibits[s] = IF s \in cookie THEN 1 ELSE 0

\* A player in front of a dark TV is never told that all is well: in couch mode,
\* with no transition, idling or wake-up under way, a TV in standby means that
\* the session is idle and a reconnect wakes it, or that the wake-up is still
\* being verified, or that "cec" is reported as failed.  wake_and_verify tells of an
\* "ok" for a wake-up "where the TV never actually turned on, because nothing
\* checked".  A restart finds the TV as it is, and nobody uses its remote control.
NoSilentSleep ==
  restarts = 0 /\ mode = "couch" /\ queue = <<>> /\ watch # "idling" /\ waking = {}
    => (tv = "standby" => idle \/ Verify \in tracked \/ cec = "failed")

\* With all its awaits spelled out, every hook still returns: the detailed
\* system is an implementation of StateMachine, fairness included.
ImplementsStateMachine == FairSpec
=============================================================================
