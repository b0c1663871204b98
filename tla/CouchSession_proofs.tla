------------------------ MODULE CouchSession_proofs ------------------------
(***************************************************************************)
(* Proofs about what a couch session borrows and gives back, on top of     *)
(* those about the state machine it implements: for any controllers, any   *)
(* background tasks and any bounds.                                        *)
(***************************************************************************)
EXTENDS CouchSession, StateMachine_proofs

USE StateMachineAssumption, CouchSessionAssumption

-----------------------------------------------------------------------------
(* The hooks, await by await, implement StateMachine.                      *)

\* The initial states map to the initial states.
LEMMA CInitImplements == CInit => Init
BY DEF CInit

\* Every step is one of StateMachine's, or leaves its variables alone.
LEMMA CNextImplements == [CNext]_cvars => [Next]_vars
<1> SUFFICES ASSUME [CNext]_cvars PROVE [Next]_vars
  OBVIOUS
<1>1. CASE HookSteps
  BY <1>1 DEF HookSteps, Advance, AskLocked, Unlock, Inhibit, WakeAndSelectInput,
     StopTasks, SwitchAndRelease, Relock, Unsuppress
<1>2. CASE BeginCouch \/ BeginDesk \/ FinishCouch \/ FailCouch \/ FinishDesk
  BY <1>2 DEF BeginCouch, BeginDesk, FinishCouch, FailCouch, FinishDesk, Next, Holder
<1>3. CASE Others
  BY <1>3 DEF Others, PlainStages, Next, Holder, Tasks, Users
<1>4. CASE IdleStandby \/ FinishIdle \/ TaskEnds \/ UserLocks
  BY <1>4 DEF IdleStandby, FinishIdle, TaskEnds, UserLocks, Next, Tasks
<1>5. ASSUME NEW d \in Devices, Rouse(d) \/ FinishRouse(d) \/ DoConnect(d)
      PROVE  [Next]_vars
  BY <1>5 DEF Rouse, FinishRouse, DoConnect, Next, Tasks
<1>6. ASSUME NEW fresh \in BOOLEAN, DoRestart(fresh) PROVE [Next]_vars
  BY <1>6 DEF DoRestart, Next, Users
<1>7. CASE UNCHANGED cvars
  BY <1>7 DEF cvars
<1> QED
  BY <1>1, <1>2, <1>3, <1>4, <1>5, <1>6, <1>7 DEF CNext, Hooks

\* Whatever the hooks await, fail at or are interrupted by, the daemon behaves
\* as StateMachine says: all that is proved of StateMachine holds here too.
THEOREM HooksImplementStages == CSpec => Spec
BY CInitImplements, CNextImplements, PTL DEF CSpec, Spec

\* So the mode keeps its promises in every hook: one switch at a time, at most one
\* change in it, to its target, and none but by a restart outside one.
THEOREM HooksKeepModeSwitch == CSpec => ModeSwitchSteps
BY HooksImplementStages, ImplementsModeSwitch

LEMMA AlwaysIInvC == CSpec => []IInv
BY HooksImplementStages, AlwaysIInv, PTL

-----------------------------------------------------------------------------
(* Which hook is under way, and what each step does to what is borrowed.   *)

\* A hook step is awaited exactly in the stage whose hook it belongs to.
StepInv ==
  /\ step \in CouchSteps \cup DeskSteps \cup {"none"}
  /\ step \in CouchSteps <=> stage = "activating"
  /\ step \in DeskSteps <=> stage = "deactivating"

Active == {"activating", "deactivating"}

\* A step of the state machine that begins and ends no such hook.
Aside ==
  /\ mode' = mode /\ restarts' = restarts
  /\ stage' = stage \/ (stage \notin Active /\ stage' \notin Active)

\* A step outside the hooks: it may end a task or start the watcher, wake the TV
\* for a reconnect or put it to standby for an idle session, and report on CEC.
Elsewhere ==
  /\ Aside /\ UNCHANGED <<step, relock, cookie, inhibits>>
  /\ \/ tracked' \subseteq tracked \cup {Shortcut} /\ stray' \subseteq stray
     \/ waking # {} /\ SpawnTasks
  /\ locked' \in {locked, ~locked} /\ owed' \in {owed, FALSE}
  /\ \/ tv' = tv
     \/ watch = "idling" /\ tv' = "standby"
     \/ waking # {} /\ tv' = "on"
  /\ cec' \in {"ok", "failed", cec}
  /\ roused \subseteq waking => roused' \subseteq waking'

\* What a wake-up does: the TV is on or as before, the tasks are spawned or the
\* handles as before.
LEMMA WakeShape ==
  ASSUME NEW reports, reports \subseteq {"ok", "failed"}, Wake(reports)
  PROVE  /\ tv' \in {"on", tv} /\ cec' \in {"ok", "failed", cec}
         /\ SpawnTasks \/ UNCHANGED <<tracked, stray>>
<1>1. CASE Frame("on") /\ SpawnTasks /\ cec' \in reports
  BY <1>1 DEF Frame
<1>2. CASE NoAdapter /\ UNCHANGED <<tv, tracked, stray>>
  BY <1>2 DEF NoAdapter
<1> QED
  BY <1>1, <1>2 DEF Wake

LEMMA ReportsShape == \A t : Reports(t) \subseteq {"ok", "failed"}
BY DEF Reports

\* The TV is in standby or as before.
LEMMA StandbyShape ==
  ASSUME Standby
  PROVE  tv' \in {"standby", tv} /\ cec' \in {"ok", "failed", cec}
<1>1. CASE Frame("standby") /\ cec' \in Reports("lost")
  BY <1>1, ReportsShape DEF Frame
<1>2. CASE NoAdapter /\ UNCHANGED tv
  BY <1>2 DEF NoAdapter
<1> QED
  BY <1>1, <1>2 DEF Standby

\* With CEC on, an adapter and no frame lost, both do what they are asked.
LEMMA StandbyWorks ==
  ASSUME CecTrouble \subseteq {"untargeted"}, Standby
  PROVE  tv' = "standby"
BY DEF Standby, Frame, NoAdapter

\* A task that ends leaves the others, and reports if it is a verification.
LEMMA TaskEndsShape ==
  ASSUME TaskEnds
  PROVE  /\ tracked' \subseteq tracked /\ stray' \subseteq stray
         /\ cec' \in {"ok", "failed", cec}
<1>1. Verdict => cec' \in {"ok", "failed"}
  BY ReportsShape DEF Verdict
<1> QED
  BY <1>1 DEF TaskEnds

\* A call of _transition begins no hook of activate_couch or activate_desk.
LEMMA TransitionAside ==
  ASSUME IInv, NEW r, NEW w, NEW rec, Transition(r, w, rec)
  PROVE  stage' = stage \/ (stage \notin Active /\ stage' \notin Active)
<1>1. CASE queue = <<>> /\ Enter(r)
  BY <1>1 DEF Enter, FirstStage, Active, IInv, LockDiscipline
<1> QED
  BY <1>1 DEF Transition, lockvars

LEMMA ReleaseAside ==
  ASSUME stage \notin Active, Release
  PROVE  stage \notin Active /\ stage' \notin Active
BY DEF Release, Active

LEMMA OthersAside ==
  ASSUME IInv, Others
  PROVE  Aside
<1> USE DEF core, lockvars, env, Aside
<1>1. CASE Acquire
  BY <1>1, ReleaseAside DEF Acquire, Enter, FirstStage, Active
<1>2. CASE Launched \/ PoststartDone \/ PostexitDone
  BY <1>2, ReleaseAside DEF Launched, PoststartDone, PostexitDone, Active
<1>3. CASE GraceElapsed \/ WatchPoll \/ RecoveryPoll
  BY <1>3, TransitionAside DEF GraceElapsed, StaysForGame, GameStillRunning, WatchPoll,
     RecoveryPoll
<1>4. CASE ForceEnterCouch \/ WizardExit \/ ShortcutExit
  BY <1>4, TransitionAside DEF ForceEnterCouch, WizardExit, ShortcutExit, ForceExitToDesk
<1>5. CASE ShortcutReleased
  BY <1>5, ReleaseAside DEF ShortcutReleased, Active
<1>6. CASE GameExits
  BY <1>6 DEF GameExits
<1>7. ASSUME NEW d \in Devices, Disconnect(d) \/ PowerOn(d) \/ PowerOff(d)
      PROVE  Aside
  BY <1>7 DEF Disconnect, PowerOn, PowerOff
<1> QED
  BY <1>1, <1>2, <1>3, <1>4, <1>5, <1>6, <1>7 DEF Others, PlainStages

\* No step but Connect and Woken touches the wake-ups under way.
LEMMA OthersLeaveWaking ==
  ASSUME Others
  PROVE  waking' = waking
BY DEF Others, PlainStages, Acquire, Launched, PoststartDone, PostexitDone,
   GraceElapsed, StaysForGame, GameStillRunning, WatchPoll, RecoveryPoll,
   ForceEnterCouch, WizardExit, ShortcutExit, ForceExitToDesk, ShortcutReleased,
   GameExits, Disconnect, PowerOn, PowerOff, tasks

LEMMA ElsewhereOrHook ==
  ASSUME IInv, [CNext]_cvars
  PROVE  Elsewhere \/ Hooks \/ \E fresh \in BOOLEAN : DoRestart(fresh)
<1> USE DEF resources, desktop, power, svars
<1>1. CASE Others
  BY <1>1, OthersAside, OthersLeaveWaking DEF Others, Elsewhere
<1>2. CASE IdleStandby
  BY <1>2, StandbyShape DEF IdleStandby, Elsewhere, Aside, vars, core, lockvars, tasks, env
<1>e. CASE TaskEnds
  BY <1>e, TaskEndsShape DEF TaskEnds, Elsewhere, Aside, vars, core, lockvars, tasks, env
<1>u. CASE UserLocks \/ UNCHANGED cvars
  BY <1>u DEF UserLocks, cvars, Elsewhere, Aside, vars, core, lockvars, tasks, env
<1>3. CASE FinishIdle
  BY <1>3, StandbyShape DEF FinishIdle, IdleEntered, Elsewhere, Aside, lockvars, env
<1>4. ASSUME NEW d \in Devices, Rouse(d) PROVE Elsewhere
  <2>1. Wake(Reports("lost"))
    BY <1>4 DEF Rouse
  <2>2. /\ tv' \in {"on", tv} /\ cec' \in {"ok", "failed", cec}
        /\ SpawnTasks \/ UNCHANGED <<tracked, stray>>
    BY <2>1, ReportsShape, WakeShape
  <2> QED
    BY <1>4, <2>2 DEF Rouse, Elsewhere, Aside, vars, core, lockvars, tasks, env
<1>5. ASSUME NEW d \in Devices, FinishRouse(d) PROVE Elsewhere
  BY <1>5 DEF FinishRouse, Woken, StartWatcher, Elsewhere, Aside, lockvars, env
<1>6. ASSUME NEW d \in Devices, DoConnect(d) PROVE Elsewhere
  <2>1. Aside
    BY <1>6, TransitionAside DEF DoConnect, Connect, CancelGrace, Aside, lockvars
  <2>2. tracked' \subseteq tracked \cup {Shortcut} /\ stray' = stray
    BY <1>6 DEF DoConnect, StartWatcher
  <2>3. waking \subseteq waking'
    BY <1>6 DEF DoConnect, Connect, CancelGrace
  <2> QED
    BY <1>6, <2>1, <2>2, <2>3 DEF DoConnect, Elsewhere
<1> QED
  BY <1>1, <1>2, <1>e, <1>u, <1>3, <1>4, <1>5, <1>6 DEF CNext

\* What the hooks do to the mode and the stage.
LEMMA HookShape ==
  ASSUME IInv, StepInv, Hooks
  PROVE  \/ HookSteps /\ UNCHANGED <<vars, roused>>
         \/ /\ BeginCouch /\ step = "none" /\ mode = "desk"
            /\ stage' = "activating" /\ UNCHANGED <<mode, watch, waking, idle, restarts>>
         \/ /\ BeginDesk /\ step = "none"
            /\ stage' = "deactivating" /\ UNCHANGED <<mode, watch, waking, idle, restarts>>
         \/ /\ FinishCouch /\ mode' = "couch" /\ idle' = FALSE
            /\ stage' = "launching" /\ UNCHANGED <<watch, waking, restarts>>
         \/ /\ FailCouch /\ DisplayMayFail
            /\ stage' \notin Active /\ UNCHANGED <<mode, watch, waking, idle, restarts>>
         \/ /\ FinishDesk /\ mode' = "desk" /\ idle' = FALSE
            /\ stage' = "postexit" /\ UNCHANGED <<watch, waking, restarts>>
<1> USE DEF core, tasks, env, lockvars
<1>1. CASE HookSteps
  BY <1>1 DEF HookSteps, Advance, AskLocked, Unlock, Inhibit, WakeAndSelectInput,
     StopTasks, SwitchAndRelease, Relock, Unsuppress
<1>2. CASE BeginCouch
  BY <1>2 DEF BeginCouch, PrestartDone, StepInv, IInv, LockDiscipline
<1>3. CASE BeginDesk
  BY <1>3 DEF BeginDesk, PreexitDone, StepInv
<1>4. CASE FinishCouch
  BY <1>4 DEF FinishCouch, CouchActivated
<1>5. CASE FailCouch
  BY <1>5 DEF FailCouch, CouchActivationFailed, Release, Active
<1>6. CASE FinishDesk
  BY <1>6 DEF FinishDesk, DeskActivated, ClearSession
<1> QED
  BY <1>1, <1>2, <1>3, <1>4, <1>5, <1>6 DEF Hooks

LEMMA NextKeepsStep ==
  ASSUME IInv, StepInv, [CNext]_cvars
  PROVE  StepInv'
<1> USE DEF CouchSteps, DeskSteps, Active
<1>1. CASE Elsewhere
  BY <1>1 DEF Elsewhere, Aside, StepInv
<1>2. CASE HookSteps /\ UNCHANGED <<vars, roused>>
  <2>1. stage' = stage
    BY <1>2 DEF vars, lockvars
  <2> QED
    BY <1>2, <2>1 DEF StepInv, HookSteps, Advance, AskLocked, Unlock, Inhibit,
       WakeAndSelectInput, StopTasks, SwitchAndRelease, Relock, Unsuppress
<1>3. CASE \/ BeginCouch /\ stage' = "activating"
           \/ BeginDesk /\ stage' = "deactivating"
           \/ FinishCouch /\ stage' = "launching"
           \/ FailCouch /\ stage' \notin Active
           \/ FinishDesk /\ stage' = "postexit"
  BY <1>3 DEF StepInv, BeginCouch, BeginDesk, FinishCouch, FailCouch, FinishDesk
<1>4. ASSUME NEW fresh \in BOOLEAN, DoRestart(fresh) PROVE StepInv'
  BY <1>4 DEF DoRestart, Restart, StepInv
<1> QED
  BY <1>1, <1>2, <1>3, <1>4, ElsewhereOrHook, HookShape

\* What is remembered and what was asked of others keep their types, a cookie is
\* that of a registered inhibition, and only a reconnect under way has sent a
\* wake-up.
OwnInv ==
  /\ relock \in BOOLEAN /\ locked \in BOOLEAN /\ owed \in BOOLEAN
  /\ cookie \subseteq Services
  /\ inhibits \in [Services -> 0 .. MaxInhibits]
  /\ CookiesValid
  /\ tracked \subseteq Jobs \cup {Shortcut}
  /\ stray \subseteq Jobs
  /\ roused \subseteq waking
  /\ tv \in {"on", "standby"} /\ cec \in {"ok", "failed"}

\* Releasing an inhibition gives back one whose cookie is held, and that only.
LEMMA UninhibitKeepsOwn ==
  ASSUME OwnInv, NEW s \in Services, Uninhibit(s)
  PROVE  /\ cookie' \subseteq Services
         /\ inhibits' \in [Services -> 0 .. MaxInhibits]
         /\ CookiesValid'
<1>1. \A x \in Services : inhibits[x] \in 0 .. MaxInhibits
  BY DEF OwnInv
<1>2. s \in cookie => inhibits[s] - 1 \in 0 .. MaxInhibits
  BY <1>1 DEF OwnInv, CookiesValid
<1> QED
  BY <1>1, <1>2 DEF Uninhibit, OwnInv, CookiesValid

\* Asking for one adds one with its cookie, or drops the cookie.
LEMMA InhibitKeepsOwn ==
  ASSUME OwnInv, NEW s \in Services, NEW from, NEW to, Inhibit(s, from, to)
  PROVE  /\ cookie' \subseteq Services
         /\ inhibits' \in [Services -> 0 .. MaxInhibits]
         /\ CookiesValid'
<1>1. \A x \in Services : inhibits[x] \in 0 .. MaxInhibits
  BY DEF OwnInv
<1>2. inhibits[s] < MaxInhibits =>
        inhibits[s] + 1 \in 0 .. MaxInhibits /\ inhibits[s] + 1 > 0
  BY <1>1
<1> QED
  BY <1>1, <1>2 DEF Inhibit, OwnInv, CookiesValid

LEMMA NextKeepsOwn ==
  ASSUME IInv, StepInv, OwnInv, [CNext]_cvars
  PROVE  OwnInv'
<1> USE DEF resources, desktop, power
<1>1. CASE Elsewhere
  <2>1. /\ tracked' \subseteq Jobs \cup {Shortcut}
        /\ stray' \subseteq Jobs
    BY <1>1 DEF Elsewhere, SpawnTasks, OwnInv
  <2> QED
    BY <1>1, <2>1 DEF Elsewhere, OwnInv, CookiesValid
<1>2. CASE HookSteps /\ UNCHANGED <<vars, roused>>
  <2>w. waking' = waking /\ roused' = roused
    BY <1>2 DEF vars, tasks
  <2>1. CASE AskLocked \/ Unlock \/ StopTasks \/ Relock
    BY <2>w, <2>1 DEF AskLocked, Unlock, StopTasks, Relock, OwnInv, CookiesValid
  <2>2. CASE \/ Inhibit("screen", "inhibit", "suppress")
             \/ Inhibit("notify", "suppress", "wake")
    <3>1. PICK s \in Services, from \in CouchSteps, to \in CouchSteps :
            Inhibit(s, from, to)
      BY <2>2 DEF Services, CouchSteps
    <3> QED
      BY <2>w, <3>1, InhibitKeepsOwn DEF Inhibit, OwnInv
  <2>3. CASE WakeAndSelectInput
    <3>1. Wake({"ok"})
      BY <2>3 DEF WakeAndSelectInput
    <3>2. /\ tv' \in {"on", tv} /\ cec' \in {"ok", "failed", cec}
          /\ SpawnTasks \/ UNCHANGED <<tracked, stray>>
      BY <3>1, WakeShape
    <3> QED
      BY <2>w, <2>3, <3>2 DEF WakeAndSelectInput, SpawnTasks, OwnInv, CookiesValid
  <2>4. CASE SwitchAndRelease \/ Unsuppress
    <3>1. \E s \in Services : Uninhibit(s)
      BY <2>4 DEF SwitchAndRelease, Unsuppress, Services
    <3> QED
      BY <2>w, <2>4, <3>1, UninhibitKeepsOwn DEF SwitchAndRelease, Unsuppress, OwnInv
  <2> QED
    BY <1>2, <2>1, <2>2, <2>3, <2>4 DEF HookSteps
<1>3. CASE (BeginCouch \/ BeginDesk \/ FinishCouch \/ FailCouch) /\ waking' = waking
  BY <1>3 DEF BeginCouch, BeginDesk, FinishCouch, StartWatcher, FailCouch,
     OwnInv, CookiesValid
<1>d. CASE FinishDesk /\ waking' = waking
  BY <1>d, StandbyShape DEF FinishDesk, OwnInv, CookiesValid
<1>4. ASSUME NEW fresh \in BOOLEAN, DoRestart(fresh) PROVE OwnInv'
  <2>1. relock' \in BOOLEAN /\ locked' \in BOOLEAN /\ owed' \in BOOLEAN
    BY <1>4, Zenon DEF DoRestart, OwnInv
  <2>2. /\ inhibits' \in [Services -> 0 .. MaxInhibits]
        /\ tv' \in {"on", "standby"} /\ cec' \in {"ok", "failed"}
    BY <1>4, ReportsShape DEF DoRestart, OwnInv
  <2>3. cookie' = {} /\ tracked' = {} /\ stray' = {} /\ roused' = {} /\ CookiesValid'
    BY <1>4 DEF DoRestart, CookiesValid
  <2> QED
    BY <2>1, <2>2, <2>3 DEF OwnInv
<1> QED
  BY <1>1, <1>2, <1>3, <1>d, <1>4, ElsewhereOrHook, HookShape

\* What every proof below relies on.
SessionInv == IInv /\ StepInv /\ OwnInv

LEMMA InitSession == CInit => SessionInv
<1> SUFFICES ASSUME CInit PROVE SessionInv
  OBVIOUS
<1>1. IInv
  BY CInitImplements, InitIInv
<1>2. StepInv
  BY DEF CInit, Init, StepInv, CouchSteps, DeskSteps
<1>3. relock \in BOOLEAN /\ locked \in BOOLEAN /\ owed \in BOOLEAN
  BY Zenon DEF CInit
<1>4. OwnInv
  BY <1>3, ReportsShape DEF CInit, OwnInv, CookiesValid
<1> QED
  BY <1>1, <1>2, <1>4 DEF SessionInv

LEMMA NextKeepsSession == SessionInv /\ [CNext]_cvars => SessionInv'
BY CNextImplements, NextKeepsIInv, NextKeepsStep, NextKeepsOwn DEF SessionInv

LEMMA AlwaysSession == CSpec => []SessionInv
BY InitSession, NextKeepsSession, PTL DEF CSpec

\* Every variable of a session keeps its type, a hook step is awaited only in
\* the stage of its hook, and every wake-up sent belongs to a reconnect.
THEOREM SessionTypes == CSpec => []CTypeOK
<1>1. SessionInv => CTypeOK
  BY DEF SessionInv, IInv, StepInv, OwnInv, CTypeOK
<1> QED
  BY <1>1, AlwaysSession, PTL

\* A held cookie is that of a registered inhibition, whatever fails, is retried,
\* is refused or is cut off by a restart: no inhibition is ever released twice.
THEOREM HeldCookiesValid == CSpec => []CookiesValid
<1>1. SessionInv => CookiesValid
  BY DEF SessionInv, OwnInv
<1> QED
  BY <1>1, AlwaysSession, PTL

-----------------------------------------------------------------------------
(* What is borrowed is given back, as long as displays do what they are    *)
(* told.  A restart forgets what the daemon before it borrowed.            *)

Resting == mode = "desk" /\ step = "none"

\* One inhibition for each cookie; the screen's is not held before it is acquired
\* and after it is released, nor is that of the popups.
BorrowInv ==
  /\ NoInhibitLeaked
  /\ Resting \/ step \in {"ask", "unlock", "inhibit", "relock", "unsuppress", "standby"}
       => "screen" \notin cookie
  /\ Resting \/ step \in {"ask", "unlock", "inhibit", "suppress", "standby"}
       => "notify" \notin cookie

LEMMA NextKeepsBorrow ==
  ASSUME DisplayMayFail = FALSE, SessionInv, BorrowInv, [CNext]_cvars, restarts' = 0
  PROVE  BorrowInv'
<1> USE DEF resources, desktop, power
<1>s. /\ IInv /\ StepInv /\ restarts \in Nat
      /\ \A s \in Services : inhibits[s] \in Nat
      /\ inhibits \in [Services -> 0 .. MaxInhibits]
      /\ cookie \subseteq Services
  BY DEF SessionInv, IInv, TypeOK, OwnInv
<1>m. step \in CouchSteps => mode = "desk"
  BY <1>s DEF StepInv, IInv, LockDiscipline
<1>1. CASE Elsewhere
  BY <1>1 DEF Elsewhere, Aside, BorrowInv, NoInhibitLeaked, Resting
<1>2. CASE HookSteps /\ UNCHANGED <<vars, roused>>
  <2>w. mode' = mode
    BY <1>2 DEF vars, core
  <2>1. CASE AskLocked \/ Unlock \/ StopTasks \/ Relock \/ WakeAndSelectInput
    BY <2>w, <2>1 DEF AskLocked, Unlock, StopTasks, Relock, WakeAndSelectInput, Advance,
       BorrowInv, NoInhibitLeaked, Resting
  <2>2. CASE Inhibit("screen", "inhibit", "suppress")
    BY <1>s, <2>w, <2>2
       DEF Inhibit, Advance, BorrowInv, NoInhibitLeaked, Resting, Services
  <2>3. CASE Inhibit("notify", "suppress", "wake")
    BY <1>s, <2>w, <2>3
       DEF Inhibit, Advance, BorrowInv, NoInhibitLeaked, Resting, Services
  <2>4. CASE SwitchAndRelease
    BY <1>s, <2>w, <2>4
       DEF SwitchAndRelease, Uninhibit, Advance, BorrowInv, NoInhibitLeaked, Resting,
           Services
  <2>5. CASE Unsuppress
    BY <1>s, <2>w, <2>5
       DEF Unsuppress, Uninhibit, Advance, BorrowInv, NoInhibitLeaked, Resting, Services
  <2> QED
    BY <1>2, <2>1, <2>2, <2>3, <2>4, <2>5 DEF HookSteps
<1>3. CASE BeginCouch /\ step = "none" /\ mode = "desk" /\ UNCHANGED mode
  BY <1>3 DEF BeginCouch, BorrowInv, NoInhibitLeaked, Resting
<1>4. CASE BeginDesk
  BY <1>4 DEF BeginDesk, BorrowInv, NoInhibitLeaked, Resting
<1>5. CASE FinishCouch /\ mode' = "couch"
  BY <1>5 DEF FinishCouch, BorrowInv, NoInhibitLeaked, Resting
<1>6. CASE FinishDesk
  BY <1>6 DEF FinishDesk, BorrowInv, NoInhibitLeaked, Resting
<1>7. ASSUME NEW fresh \in BOOLEAN, DoRestart(fresh) PROVE BorrowInv'
  BY <1>s, <1>7 DEF DoRestart, Restart
<1> QED
  BY <1>s, <1>1, <1>2, <1>3, <1>4, <1>5, <1>6, <1>7, ElsewhereOrHook, HookShape

\* The lock of the screen is owed only while relock_on_desk says so, and no
\* longer when the desk is reached.
LockInv ==
  /\ owed => relock
  /\ Resting \/ step \in {"ask", "unsuppress", "standby"} => ~owed

LEMMA NextKeepsLock ==
  ASSUME DisplayMayFail = FALSE, SessionInv, LockInv, [CNext]_cvars, restarts' = 0
  PROVE  LockInv'
<1> USE DEF resources, desktop, power
<1>s. IInv /\ StepInv /\ restarts \in Nat /\ relock \in BOOLEAN /\ owed \in BOOLEAN
  BY DEF SessionInv, IInv, TypeOK, OwnInv
<1>m. step \in CouchSteps => mode = "desk"
  BY <1>s DEF StepInv, IInv, LockDiscipline
<1>1. CASE Elsewhere
  <2>1. owed' => owed
    BY <1>1, Zenon DEF Elsewhere
  <2> QED
    BY <1>1, <2>1 DEF Elsewhere, Aside, LockInv, Resting
<1>2. CASE HookSteps /\ UNCHANGED <<vars, roused>>
  <2>w. mode' = mode
    BY <1>2 DEF vars, core
  <2>1. CASE AskLocked
    BY <2>1, Zenon DEF AskLocked, Advance, LockInv, Resting
  <2>2. CASE Relock
    BY <2>2, Zenon DEF Relock, Advance, LockInv, Resting
  <2>3. CASE \/ Unlock \/ WakeAndSelectInput \/ StopTasks \/ SwitchAndRelease \/ Unsuppress
             \/ Inhibit("screen", "inhibit", "suppress")
             \/ Inhibit("notify", "suppress", "wake")
    BY <2>w, <2>3 DEF Unlock, WakeAndSelectInput, StopTasks, SwitchAndRelease, Unsuppress,
       Inhibit, Advance, LockInv, Resting
  <2> QED
    BY <1>2, <2>1, <2>2, <2>3 DEF HookSteps
<1>3. CASE BeginCouch /\ step = "none" /\ mode = "desk" /\ UNCHANGED mode
  BY <1>3 DEF BeginCouch, LockInv, Resting
<1>4. CASE BeginDesk
  BY <1>4 DEF BeginDesk, LockInv, Resting
<1>5. CASE FinishCouch /\ mode' = "couch"
  BY <1>5 DEF FinishCouch, LockInv, Resting
<1>6. CASE FinishDesk
  BY <1>6 DEF FinishDesk, LockInv, Resting
<1>7. ASSUME NEW fresh \in BOOLEAN, DoRestart(fresh) PROVE LockInv'
  BY <1>s, <1>7 DEF DoRestart, Restart
<1> QED
  BY <1>s, <1>1, <1>2, <1>3, <1>4, <1>5, <1>6, <1>7, ElsewhereOrHook, HookShape

\* Without the idle feature nobody is woken or put to sleep within a session.
AwakeInv == ~idle /\ waking = {} /\ watch # "idling"

LEMMA NextKeepsAwake ==
  ASSUME ScreensaverEnabled = FALSE, AwakeInv, IInv, [Next]_vars
  PROVE  AwakeInv'
<1> USE DEF core, tasks, env, lockvars
<1>1. CASE UNCHANGED <<idle, waking, watch>>
  BY <1>1 DEF AwakeInv
<1>2. ASSUME NEW r, NEW w, NEW rec, w # "idling", Transition(r, w, rec)
      PROVE  watch' # "idling"
  BY <1>2 DEF Transition, Enter
<1>3. CASE Acquire \/ PoststartDone
  BY <1>3 DEF Acquire, Enter, PoststartDone, AwakeInv
<1>4. CASE CouchActivated \/ DeskActivated
  BY <1>4 DEF CouchActivated, DeskActivated, ClearSession, AwakeInv
<1>5. CASE GraceElapsed \/ RecoveryPoll
  <2>1. idle' = idle /\ waking' = waking
    BY <1>5 DEF GraceElapsed, RecoveryPoll
  <2>2. \/ watch' = watch
        \/ Transition(Req("desk", "grace", FALSE), watch, recovery)
        \/ Transition(Req("desk", "recovery", TRUE), watch, FALSE)
    BY <1>5 DEF GraceElapsed, RecoveryPoll
  <2> QED
    BY <1>2, <2>1, <2>2 DEF AwakeInv
<1>6. CASE WatchPoll
  BY <1>2, <1>6 DEF WatchPoll, WatchPresence, IdleDue, AwakeInv
<1>7. ASSUME NEW d \in Devices, Connect(d) PROVE AwakeInv'
  <2>1. idle' = idle /\ waking' = waking
    BY <1>7 DEF Connect, AwakeInv
  <2>2. watch' = watch \/ Transition(Req("couch", "event", FALSE), watch, recovery)
    BY <1>7 DEF Connect
  <2> QED
    BY <1>2, <2>1, <2>2 DEF AwakeInv
<1>8. CASE ForceEnterCouch \/ WizardExit \/ ShortcutExit
  <2>1. idle' = idle /\ waking' = waking
    BY <1>8 DEF ForceEnterCouch, WizardExit, ShortcutExit, ForceExitToDesk
  <2>2. \E r \in Request : Transition(r, watch, recovery)
    BY <1>8, ReqSound DEF ForceEnterCouch, WizardExit, ShortcutExit, ForceExitToDesk, Modes,
       Callers, Sound
  <2> QED
    BY <1>2, <2>1, <2>2 DEF AwakeInv
<1>9. ASSUME NEW fresh \in BOOLEAN, Restart(fresh) PROVE AwakeInv'
  BY <1>9 DEF Restart, AwakeInv
<1>10. ~IdleEntered /\ \A d \in Devices : ~Woken(d)
  BY DEF IdleEntered, Woken, AwakeInv
<1> QED
  BY <1>1, <1>3, <1>4, <1>5, <1>6, <1>7, <1>8, <1>9, <1>10
     DEF Next, Holder, Tasks, Users, PrestartDone, CouchActivationFailed, Launched,
     PreexitDone, PostexitDone, Disconnect, ShortcutReleased, GameExits, PowerOn,
     PowerOff, vars

\* The TV sleeps whenever the desk is at rest.
TvInv == Resting => tv = "standby"

\* No CEC task runs at rest, before the wake-up of an activation and after a
\* teardown has stopped the session's.
TaskInv ==
  /\ stray = {}
  /\ Resting \/ step \in (CouchSteps \ {"display"}) \cup (DeskSteps \ {"stop"})
       => tracked \cap Jobs = {}

LEMMA NextKeepsTv ==
  ASSUME DisplayMayFail = FALSE, CecTrouble \subseteq {"untargeted"}, SessionInv, AwakeInv, TvInv,
         [CNext]_cvars, restarts' = 0
  PROVE  TvInv'
<1> USE DEF resources, desktop, power
<1>s. IInv /\ StepInv /\ restarts \in Nat
  BY DEF SessionInv, IInv, TypeOK
<1>m. step \in CouchSteps => mode = "desk"
  BY <1>s DEF StepInv, IInv, LockDiscipline
<1>1. CASE Elsewhere
  BY <1>1 DEF Elsewhere, Aside, AwakeInv, TvInv, Resting
<1>2. CASE HookSteps
  BY <1>2 DEF HookSteps, AskLocked, Unlock, Inhibit, WakeAndSelectInput, StopTasks,
     SwitchAndRelease, Relock, Unsuppress, Advance, TvInv, Resting
<1>3. CASE BeginCouch \/ BeginDesk \/ FinishDesk \/ (FinishCouch /\ mode' = "couch")
  BY <1>3, StandbyWorks DEF BeginCouch, BeginDesk, FinishDesk, FinishCouch, TvInv, Resting
<1>4. ASSUME NEW fresh \in BOOLEAN, DoRestart(fresh) PROVE TvInv'
  BY <1>s, <1>4 DEF DoRestart, Restart
<1> QED
  BY <1>s, <1>1, <1>2, <1>3, <1>4, ElsewhereOrHook, HookShape

LEMMA NextKeepsTask ==
  ASSUME DisplayMayFail = FALSE, SessionInv, AwakeInv, TaskInv, [CNext]_cvars
  PROVE  TaskInv'
<1> USE DEF resources, desktop, power, CouchSteps, DeskSteps
<1>s. IInv /\ StepInv /\ Shortcut \notin Jobs
  BY DEF SessionInv
<1>1. CASE Elsewhere
  BY <1>s, <1>1 DEF Elsewhere, Aside, AwakeInv, TaskInv, Resting
<1>2. CASE HookSteps /\ UNCHANGED <<vars, roused>>
  <2>w. mode' = mode
    BY <1>2 DEF vars, core
  <2>1. CASE WakeAndSelectInput
    <3>1. Wake({"ok"})
      BY <2>1 DEF WakeAndSelectInput
    <3>2. SpawnTasks \/ UNCHANGED <<tracked, stray>>
      BY <3>1, WakeShape
    <3> QED
      BY <2>1, <3>2 DEF WakeAndSelectInput, SpawnTasks, Advance, TaskInv, Resting
  <2>2. CASE StopTasks
    BY <2>2 DEF StopTasks, Advance, TaskInv
  <2>3. CASE \/ AskLocked \/ Unlock \/ SwitchAndRelease \/ Relock \/ Unsuppress
             \/ Inhibit("screen", "inhibit", "suppress")
             \/ Inhibit("notify", "suppress", "wake")
    BY <2>w, <2>3 DEF AskLocked, Unlock, SwitchAndRelease, Relock, Unsuppress, Inhibit,
       Advance, TaskInv, Resting
  <2> QED
    BY <1>2, <2>1, <2>2, <2>3 DEF HookSteps
<1>3. CASE BeginCouch /\ step = "none" /\ mode = "desk" /\ UNCHANGED mode
  BY <1>3 DEF BeginCouch, TaskInv, Resting
<1>4. CASE BeginDesk
  BY <1>4 DEF BeginDesk, TaskInv, Resting
<1>5. CASE FinishCouch /\ mode' = "couch"
  BY <1>5 DEF FinishCouch, StartWatcher, TaskInv, Resting
<1>6. CASE FinishDesk
  BY <1>6 DEF FinishDesk, TaskInv, Resting
<1>7. ASSUME NEW fresh \in BOOLEAN, DoRestart(fresh) PROVE TaskInv'
  BY <1>7 DEF DoRestart, TaskInv
<1> QED
  BY <1>s, <1>1, <1>2, <1>3, <1>4, <1>5, <1>6, <1>7, ElsewhereOrHook, HookShape

\* Why the TV may sleep in couch mode: the session idles, begins to, or ends.
Asleep == idle \/ watch = "idling" \/ stage \in {"preexit", "deactivating"}

\* Why it may sleep in front of a player: that is known, or will be.
Known == tv = "on" \/ Verify \in tracked \/ cec = "failed"

\* A session begins to idle only awake and with no wake-up under way; what a
\* session is shown on, and a reconnect has woken, is on or known not to be.
SleepInv ==
  /\ watch = "idling" => waking = {} /\ ~idle
  /\ step = "display" => Known
  /\ mode = "couch" /\ stage # "deactivating" /\ roused # {} => Known
  /\ restarts = 0 /\ mode = "couch" => Known \/ Asleep

\* A wake-up is sent with its verification, or its failure is reported.
LEMMA WakeIsKnown ==
  ASSUME Verify \in Jobs, "disabled" \notin CecTrouble, NEW reports, Wake(reports)
  PROVE  Known'
<1>1. CASE SpawnTasks
  BY <1>1 DEF SpawnTasks, Known
<1>2. CASE NoAdapter
  BY <1>2 DEF NoAdapter, Known
<1> QED
  BY <1>1, <1>2 DEF Wake

\* A verification that ends has seen the TV on, or reports that it has not.
LEMMA TaskEndsKnown ==
  ASSUME "untargeted" \notin CecTrouble, OwnInv, Known, TaskEnds
  PROVE  Known'
<1>1. tv' = tv
  BY DEF TaskEnds
<1>2. PICK t \in tracked \cup stray :
        /\ \/ t \in tracked /\ tracked' = tracked \ {t} /\ UNCHANGED stray
           \/ t \in stray /\ stray' \in {stray, stray \ {t}} /\ UNCHANGED tracked
        /\ IF t = Verify THEN Verdict ELSE UNCHANGED cec
  BY DEF TaskEnds
<1>3. CASE t = Verify
  BY <1>1, <1>2, <1>3 DEF Verdict, Known, OwnInv
<1>4. CASE t # Verify
  BY <1>1, <1>2, <1>4 DEF Known
<1> QED
  BY <1>3, <1>4

\* Whatever starts the shortcut's watcher or leaves the handles alone.
LEMMA KnownKept ==
  ASSUME Known, UNCHANGED power, tracked \subseteq tracked'
  PROVE  Known'
BY DEF Known, power

\* A call of _transition that ends the idling ends the session.
LEMMA TransitionKeepsAsleep ==
  ASSUME IInv, idle' = idle, NEW r, Sound(r), NEW w, NEW rec, Transition(r, w, rec),
         w = watch \/ (w = "none" /\ watch # "idling")
  PROVE  /\ watch' = "idling" => watch = "idling"
         /\ mode = "couch" /\ Asleep => Asleep'
<1>1. CASE Enter(r) /\ ~NoOp(r)
  <2>1. mode = "couch" => r.to = "desk"
    BY <1>1 DEF NoOp, Sound, Request, Modes
  <2> QED
    BY <1>1, <2>1 DEF Enter, FirstStage, Asleep
<1>2. CASE watch' = w /\ stage' = stage
  BY <1>2 DEF Asleep
<1> QED
  BY <1>1, <1>2 DEF Transition, lockvars

LEMMA OthersKeepAsleep ==
  ASSUME ShortcutEnabled = FALSE, IInv, WatchedInv, Others,
         watch = "idling" => waking = {} /\ ~idle
  PROVE  /\ idle' = idle /\ waking' = waking
         /\ watch' = "idling" => waking = {} /\ ~idle
         /\ mode = "couch" /\ Asleep => Asleep'
<1> USE DEF core, tasks, env, lockvars
<1>w. waking' = waking
  BY OthersLeaveWaking
<1>1. ASSUME NEW r \in Request, Sound(r), NEW w, NEW rec, Transition(r, w, rec),
             w = watch \/ (w = "none" /\ watch # "idling"), idle' = idle
      PROVE  /\ watch' = "idling" => watch = "idling"
             /\ mode = "couch" /\ Asleep => Asleep'
  BY <1>1, TransitionKeepsAsleep
<1>2. CASE Acquire
  <2>1. queue # <<>> /\ Sound(Head(queue))
    <3>1. queue \in Seq(Request) /\ queue # <<>>
      BY <1>2 DEF Acquire, IInv, TypeOK, LockDiscipline
    <3>2. 1 \in DOMAIN queue /\ Head(queue) = queue[1]
      BY <3>1
    <3> QED
      BY <3>1, <3>2 DEF IInv, LockDiscipline, Sound
  <2>2. CASE NoOp(Head(queue)) /\ Release /\ UNCHANGED <<watch, recovery>>
    BY <1>2, <2>2, <1>w DEF Acquire, Asleep
  <2>3. CASE ~NoOp(Head(queue)) /\ Enter(Head(queue))
    <3>1. mode = "couch" => Head(queue).to = "desk"
      BY <2>1, <2>3 DEF NoOp, Sound, Request, Modes
    <3> QED
      BY <1>2, <2>3, <3>1, <1>w DEF Acquire, Enter, FirstStage, Asleep
  <2> QED
    BY <1>2, <2>2, <2>3 DEF Acquire
<1>3. CASE Launched \/ PoststartDone \/ PostexitDone
  <2>1. idle' = idle /\ stage \in {"launching", "poststart", "postexit"}
    BY <1>3 DEF Launched, PoststartDone, PostexitDone
  <2>2. watch = "none" /\ watch' # "idling"
    BY <1>3, <2>1 DEF Launched, PoststartDone, PostexitDone, IInv, SessionStateOnlyInCouch
  <2> QED
    BY <1>w, <2>1, <2>2 DEF Asleep
<1>4. CASE GraceElapsed \/ RecoveryPoll
  <2>1. idle' = idle
    BY <1>4 DEF GraceElapsed, RecoveryPoll
  <2>2. /\ Sound(Req("desk", "grace", FALSE))
        /\ Sound(Req("desk", "recovery", TRUE))
    BY ReqSound DEF Modes, Callers
  <2>3. \/ watch' = watch /\ stage' = stage
        \/ Transition(Req("desk", "grace", FALSE), watch, recovery)
        \/ Transition(Req("desk", "recovery", TRUE), watch, FALSE)
    BY <1>4 DEF GraceElapsed, RecoveryPoll
  <2>4. \/ watch' = watch /\ stage' = stage
        \/ \E r \in Request : \E rec : Sound(r) /\ Transition(r, watch, rec)
    BY <2>2, <2>3, Zenon DEF Sound
  <2> QED
    BY <1>1, <1>w, <2>1, <2>4 DEF Asleep
<1>5. CASE WatchPoll
  <2>1. idle' = idle /\ watch = "sleeping"
    BY <1>5 DEF WatchPoll
  <2>2. CASE Transition(Req("desk", "watch", FALSE), "none", recovery)
    <3>1. Sound(Req("desk", "watch", FALSE))
      BY ReqSound DEF Modes, Callers
    <3> QED
      BY <1>1, <1>w, <2>1, <2>2, <3>1 DEF Sound
  <2>3. CASE WatchPresence /\ stage' = stage
    BY <2>1, <2>3, <1>w DEF WatchPresence, IdleDue, Asleep
  <2> QED
    BY <1>5, <2>2, <2>3 DEF WatchPoll
<1>6. CASE ForceEnterCouch \/ WizardExit
  <2>1. idle' = idle
    BY <1>6 DEF ForceEnterCouch, WizardExit, ForceExitToDesk
  <2>2. \E r \in Request : Sound(r) /\ Transition(r, watch, recovery)
    BY <1>6, ReqSound DEF ForceEnterCouch, WizardExit, ForceExitToDesk, Modes, Callers,
       Sound
  <2> QED
    BY <1>1, <1>w, <2>1, <2>2
<1>7. ~ShortcutExit /\ ~ShortcutReleased
  BY DEF ShortcutExit, ShortcutReleased, WatchedInv
<1>8. CASE GameExits \/ \E d \in Devices : Disconnect(d) \/ PowerOn(d) \/ PowerOff(d)
  BY <1>8, <1>w DEF GameExits, Disconnect, PowerOn, PowerOff, Asleep
<1> QED
  BY <1>2, <1>3, <1>4, <1>5, <1>6, <1>7, <1>8 DEF Others, PlainStages

LEMMA NextKeepsSleep ==
  ASSUME ShortcutEnabled = FALSE, Verify \in Jobs,
         "disabled" \notin CecTrouble, "untargeted" \notin CecTrouble,
         SessionInv, WatchedInv, SleepInv, [CNext]_cvars
  PROVE  SleepInv'
<1> USE DEF resources, desktop, svars
<1>s. /\ IInv /\ StepInv /\ OwnInv /\ restarts \in Nat
      /\ roused \subseteq waking /\ tv \in {"on", "standby"}
      /\ watch # "none" => mode = "couch" /\ stage \in {"free", "acquire"}
  BY DEF SessionInv, IInv, TypeOK, OwnInv, SessionStateOnlyInCouch
<1>d. step = "display" => stage = "activating" /\ mode = "desk" /\ watch = "none"
  BY <1>s DEF StepInv, CouchSteps, IInv, LockDiscipline
<1>k. ASSUME UNCHANGED power, tracked \subseteq tracked'
      PROVE  Known => Known'
  BY <1>k, KnownKept
<1>1. CASE Others
  <2>1. Aside /\ UNCHANGED <<step, roused, power, tracked>>
    BY <1>s, <1>1, OthersAside DEF Others
  <2>2. /\ idle' = idle /\ waking' = waking
        /\ watch' = "idling" => waking = {} /\ ~idle
        /\ mode = "couch" /\ Asleep => Asleep'
    BY <1>s, <1>1, OthersKeepAsleep DEF SleepInv
  <2>3. Known => Known'
    BY <1>k, <2>1
  <2> QED
    BY <2>1, <2>2, <2>3 DEF Aside, Active, SleepInv
<1>2. CASE IdleStandby
  <2>1. /\ watch = "idling"
        /\ UNCHANGED <<step, roused, watch, waking, idle, mode, restarts, stage>>
    BY <1>2 DEF IdleStandby, vars, core, tasks, lockvars, env
  <2> QED
    BY <1>s, <1>d, <2>1 DEF SleepInv, Asleep
<1>3. CASE FinishIdle
  <2>1. /\ watch = "idling" /\ watch' = "sleeping" /\ idle'
        /\ UNCHANGED <<step, roused, waking, mode, restarts, stage>>
    BY <1>3 DEF FinishIdle, IdleEntered, lockvars, env
  <2> QED
    BY <1>s, <1>d, <2>1 DEF SleepInv, Asleep
<1>4. CASE TaskEnds
  <2>1. UNCHANGED <<step, roused, watch, waking, idle, mode, restarts, stage>>
    BY <1>4 DEF TaskEnds, vars, core, tasks, lockvars, env
  <2>2. Known => Known'
    BY <1>s, <1>4, TaskEndsKnown
  <2> QED
    BY <2>1, <2>2 DEF SleepInv, Asleep
<1>u. CASE UserLocks \/ UNCHANGED cvars
  <2>1. /\ UNCHANGED <<step, roused, watch, waking, idle, mode, restarts, stage>>
        /\ UNCHANGED <<power, tracked>>
    BY <1>u DEF UserLocks, cvars, vars, core, tasks, lockvars, env
  <2>2. Known => Known'
    BY <1>k, <2>1
  <2> QED
    BY <2>1, <2>2 DEF SleepInv, Asleep
<1>5. ASSUME NEW d \in Devices, Rouse(d) PROVE SleepInv'
  <2>1. Wake(Reports("lost")) /\ UNCHANGED <<watch, waking, idle>>
    BY <1>5 DEF Rouse, vars, core, tasks
  <2>2. Known'
    BY <2>1, WakeIsKnown
  <2> QED
    BY <2>1, <2>2 DEF SleepInv
<1>6. ASSUME NEW d \in Devices, FinishRouse(d) PROVE SleepInv'
  <2>1. /\ d \in roused /\ d \in waking /\ roused' \subseteq roused
        /\ UNCHANGED <<step, power, mode, watch, restarts, stage>>
        /\ tracked \subseteq tracked'
    BY <1>6 DEF FinishRouse, Woken, StartWatcher, lockvars, env
  <2>2. Known => Known'
    BY <1>k, <2>1
  <2>3. watch # "idling" /\ (mode = "couch" => Known \/ stage = "deactivating")
    BY <2>1 DEF SleepInv
  <2> QED
    BY <2>1, <2>2, <2>3 DEF SleepInv, Asleep
<1>7. ASSUME NEW d \in Devices, DoConnect(d) PROVE SleepInv'
  <2>1. /\ UNCHANGED <<step, roused, power, mode, restarts, idle>>
        /\ tracked \subseteq tracked'
        /\ idle' = idle /\ (waking' = waking \/ idle)
    BY <1>7 DEF DoConnect, StartWatcher, Connect
  <2>2. Sound(Req("couch", "event", FALSE))
    BY ReqSound DEF Modes, Callers
  <2>3. \/ watch' = watch /\ stage' = stage
        \/ \E r \in Request : Sound(r) /\ Transition(r, watch, recovery)
    BY <1>7, <2>2 DEF DoConnect, Connect, lockvars, Sound
  <2>4. ASSUME NEW r \in Request, Sound(r), Transition(r, watch, recovery)
        PROVE  /\ watch' = "idling" => watch = "idling"
               /\ mode = "couch" /\ Asleep => Asleep'
               /\ stage' = "deactivating" => stage = "deactivating"
               /\ stage = "deactivating" => stage' = "deactivating"
    <3>1. \/ stage' = stage
          \/ stage \notin Active /\ stage' \notin Active
      BY <1>s, <2>4, TransitionAside
    <3> QED
      BY <1>s, <2>1, <2>4, <3>1, TransitionKeepsAsleep DEF Active
  <2>5. /\ watch' = "idling" => watch = "idling"
        /\ mode = "couch" /\ Asleep => Asleep'
        /\ stage = "deactivating" => stage' = "deactivating"
    BY <2>1, <2>3, <2>4 DEF Asleep
  <2>6. Known => Known'
    BY <1>k, <2>1
  <2> QED
    BY <2>1, <2>5, <2>6 DEF SleepInv
<1>8. CASE HookSteps /\ UNCHANGED <<vars, roused>>
  <2>1. UNCHANGED <<watch, waking, idle, mode, restarts, stage>>
    BY <1>8 DEF vars, core, tasks, lockvars, env
  <2>2. CASE WakeAndSelectInput
    <3>1. Known'
      BY <2>2, WakeIsKnown DEF WakeAndSelectInput
    <3> QED
      BY <1>8, <2>1, <3>1 DEF SleepInv
  <2>3. CASE StopTasks
    <3>1. stage = "deactivating" /\ step' = "switch"
      BY <1>s, <2>3 DEF StopTasks, Advance, StepInv, DeskSteps
    <3> QED
      BY <1>8, <2>1, <3>1 DEF SleepInv, Asleep
  <2>4. CASE \/ AskLocked \/ Unlock \/ SwitchAndRelease \/ Relock \/ Unsuppress
             \/ Inhibit("screen", "inhibit", "suppress")
             \/ Inhibit("notify", "suppress", "wake")
    <3>1. UNCHANGED <<power, tracked>> /\ step' # "display"
      BY <2>4 DEF AskLocked, Unlock, Inhibit, SwitchAndRelease, Relock, Unsuppress, Advance
    <3>2. Known => Known'
      BY <1>k, <3>1
    <3> QED
      BY <1>8, <2>1, <3>1, <3>2 DEF SleepInv, Asleep
  <2> QED
    BY <1>8, <2>2, <2>3, <2>4 DEF HookSteps
<1>9. CASE /\ BeginCouch /\ step = "none" /\ mode = "desk"
           /\ UNCHANGED <<mode, watch, waking, idle, restarts>>
  BY <1>9 DEF BeginCouch, SleepInv
<1>10. CASE /\ BeginDesk /\ stage' = "deactivating"
            /\ UNCHANGED <<mode, watch, waking, idle, restarts>>
  BY <1>10 DEF BeginDesk, SleepInv, Asleep
<1>11. CASE FinishCouch /\ mode' = "couch" /\ UNCHANGED <<watch, waking, restarts>>
  <2>1. /\ Known /\ watch = "none" /\ step' = "none"
        /\ UNCHANGED power /\ tracked \subseteq tracked'
    BY <1>d, <1>11 DEF FinishCouch, StartWatcher, SleepInv
  <2>2. Known'
    BY <1>k, <2>1
  <2> QED
    BY <1>11, <2>1, <2>2 DEF SleepInv
<1>12. CASE FailCouch /\ UNCHANGED <<mode, watch, waking, idle, restarts>>
  <2>1. mode = "desk" /\ step' = "none" /\ watch = "none"
    BY <1>d, <1>12 DEF FailCouch
  <2> QED
    BY <1>12, <2>1 DEF SleepInv
<1>13. CASE /\ FinishDesk /\ mode' = "desk" /\ idle' = FALSE
            /\ UNCHANGED <<watch, waking, restarts>>
  BY <1>13 DEF FinishDesk, SleepInv
<1>14. ASSUME NEW fresh \in BOOLEAN, DoRestart(fresh) PROVE SleepInv'
  <2>1. step' = "none" /\ roused' = {} /\ watch' = "none" /\ restarts' # 0
    BY <1>s, <1>14 DEF DoRestart, Restart
  <2> QED
    BY <2>1 DEF SleepInv
<1>15. CASE Hooks
  BY <1>s, <1>8, <1>9, <1>10, <1>11, <1>12, <1>13, <1>15, HookShape
<1> QED
  BY <1>1, <1>2, <1>3, <1>4, <1>u, <1>5, <1>6, <1>7, <1>14, <1>15 DEF CNext

-----------------------------------------------------------------------------
(* What the desk gets back.                                                *)

\* At the desk, with no call of _transition in flight, no hook is under way.
LEMMA AtDeskRests == SessionInv /\ AtDesk => Resting
BY DEF SessionInv, IInv, LockDiscipline, StepInv, CouchSteps, DeskSteps, AtDesk, Resting

\* Restarts are counted, never uncounted.
LEMMA RestartsOnlyGrow ==
  ASSUME SessionInv, [CNext]_cvars, restarts' = 0
  PROVE  restarts = 0
<1>1. IInv /\ StepInv /\ restarts \in Nat
  BY DEF SessionInv, IInv, TypeOK
<1>2. CASE HookSteps /\ UNCHANGED <<vars, roused>>
  BY <1>2 DEF vars, env
<1>3. ASSUME NEW fresh \in BOOLEAN, DoRestart(fresh) PROVE restarts = 0
  BY <1>1, <1>3 DEF DoRestart, Restart
<1>4. CASE Hooks
  BY <1>1, <1>2, <1>4, HookShape
<1> QED
  BY <1>1, <1>3, <1>4, ElsewhereOrHook DEF Elsewhere, Aside

\* activate_couch and activate_desk keep a cookie for every inhibition they have
\* registered, however activations, teardowns, retries and lock changes of others
\* interleave: until the daemon restarts, an inhibition can always be released.
THEOREM NoCookieLost ==
  ASSUME DisplayMayFail = FALSE
  PROVE  CSpec => [](restarts = 0 => NoInhibitLeaked)
<1> DEFINE Inv == restarts = 0 => BorrowInv
<1>1. CInit => Inv
  BY DEF CInit, BorrowInv, NoInhibitLeaked
<1>2. SessionInv /\ Inv /\ [CNext]_cvars => Inv'
  BY RestartsOnlyGrow, NextKeepsBorrow
<1>3. Inv => (restarts = 0 => NoInhibitLeaked)
  BY DEF BorrowInv
<1> QED
  BY <1>1, <1>2, <1>3, AlwaysSession, PTL DEF CSpec

\* A screen that activate_couch unlocked, and that nobody has locked or unlocked
\* since, is locked again when activate_desk has returned: relock_on_desk survives
\* from the answer of the screen locker to the end of the session.
THEOREM DeskIsLockedAgain ==
  ASSUME DisplayMayFail = FALSE
  PROVE  CSpec => [](restarts = 0 => RelockKept)
<1> DEFINE Inv == restarts = 0 => LockInv
<1>1. CInit => Inv
  BY DEF CInit, LockInv
<1>2. SessionInv /\ Inv /\ [CNext]_cvars => Inv'
  BY RestartsOnlyGrow, NextKeepsLock
<1>3. SessionInv /\ Inv => (restarts = 0 => RelockKept)
  BY AtDeskRests, Zenon DEF LockInv, RelockKept
<1> QED
  BY <1>1, <1>2, <1>3, AlwaysSession, PTL DEF CSpec

LEMMA AlwaysAwake ==
  ASSUME ScreensaverEnabled = FALSE
  PROVE  CSpec => []AwakeInv
<1>1. CInit => AwakeInv
  BY DEF CInit, Init, AwakeInv
<1>2. SessionInv /\ AwakeInv /\ [CNext]_cvars => AwakeInv'
  BY CNextImplements, NextKeepsAwake DEF SessionInv
<1> QED
  BY <1>1, <1>2, AlwaysSession, PTL DEF CSpec

\* Without the idle feature, and where CEC has an adapter and a TV that heeds it, a
\* desk with no transition in flight has its popups and its screensaver back and
\* the TV asleep, after any number of sessions.
THEOREM DeskIsWhole ==
  ASSUME DisplayMayFail = FALSE, ScreensaverEnabled = FALSE,
         CecTrouble \subseteq {"untargeted"}
  PROVE  CSpec => [](restarts = 0 => DeskGetsAllBack)
<1> DEFINE Inv == restarts = 0 => BorrowInv /\ TvInv
<1>1. CInit => Inv
  BY DEF CInit, BorrowInv, NoInhibitLeaked, TvInv
<1>2. SessionInv /\ AwakeInv /\ Inv /\ [CNext]_cvars => Inv'
  BY RestartsOnlyGrow, NextKeepsBorrow, NextKeepsTv
<1>3. SessionInv /\ Inv => (restarts = 0 => DeskGetsAllBack)
  BY AtDeskRests DEF BorrowInv, TvInv, NoInhibitLeaked, DeskGetsAllBack, AtDesk, Services
<1> QED
  BY <1>1, <1>2, <1>3, AlwaysSession, AlwaysAwake, PTL DEF CSpec

\* "There is no path where a stale retry can fire after teardown": without the
\* idle feature, activate_desk cancels every CEC task of the session it ends,
\* and no activation overwrites the handle of a live one.  Restarts included, and
\* whatever becomes of the adapter.
THEOREM TeardownStopsTasks ==
  ASSUME DisplayMayFail = FALSE, ScreensaverEnabled = FALSE
  PROVE  CSpec => []NoTaskAfterTeardown
<1>1. CInit => TaskInv
  BY DEF CInit, TaskInv
<1>2. SessionInv /\ AwakeInv /\ TaskInv /\ [CNext]_cvars => TaskInv'
  BY NextKeepsTask
<1>3. SessionInv /\ TaskInv => NoTaskAfterTeardown
  BY AtDeskRests DEF TaskInv, NoTaskAfterTeardown
<1> QED
  BY <1>1, <1>2, <1>3, AlwaysSession, AlwaysAwake, PTL DEF CSpec

\* A sleeping TV is no secret: activations, idle standbys, reconnect wake-ups and
\* teardowns overlap, the adapter is lost and found and frames are lost, yet in
\* couch mode, with none of them under way, a TV in standby means that the session
\* idles, that the wake-up is still being verified or that it is reported as
\* failed.  Displays may fail; the shortcut, whose release can leave a session
\* with no watch, is off, CEC stays enabled and the TV is among its targets.
THEOREM SleepIsKnown ==
  ASSUME ShortcutEnabled = FALSE, Verify \in Jobs,
         "disabled" \notin CecTrouble, "untargeted" \notin CecTrouble
  PROVE  CSpec => []NoSilentSleep
<1>1. CInit => WatchedInv /\ SleepInv
  BY DEF CInit, Init, WatchedInv, SleepInv
<1>2. SessionInv /\ WatchedInv /\ [CNext]_cvars => WatchedInv'
  BY CNextImplements, NextKeepsWatched DEF SessionInv
<1>3. SessionInv /\ WatchedInv /\ SleepInv /\ [CNext]_cvars => SleepInv'
  BY NextKeepsSleep
<1>4. SessionInv /\ SleepInv => NoSilentSleep
  BY DEF SessionInv, IInv, LockDiscipline, SleepInv, Known, Asleep, NoSilentSleep
<1> QED
  BY <1>1, <1>2, <1>3, <1>4, AlwaysSession, PTL DEF CSpec
=============================================================================
