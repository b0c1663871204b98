-------------------------- MODULE Shutdown_proofs --------------------------
(***************************************************************************)
(* Proofs about the shutdown watcher, on top of those about the state      *)
(* machine.                                                                *)
(***************************************************************************)
EXTENDS Shutdown, StateMachine_proofs

USE StateMachineAssumption

-----------------------------------------------------------------------------
(* The state machine under the watcher keeps its own invariant.            *)

\* The watcher's request is one more call of _transition.
LEMMA ShutdownExitKeepsIInv ==
  ASSUME IInv, ForceExitToDesk("shutdown")
  PROVE  IInv'
<1>1. RestPart'
  BY Parts DEF ForceExitToDesk, RestPart, core, env
<1>2. LockPart'
  <2>1. /\ watch \in {"none", "sleeping", "idling"} /\ recovery \in BOOLEAN
        /\ watch # "none" => mode = "couch" /\ stage \in {"free", "acquire"}
    BY Parts DEF LockPart
  <2>2. Sound(Req("desk", "shutdown", FALSE))
    BY ReqSound DEF Modes, Callers
  <2> QED
    BY <2>1, <2>2, TransitionKeepsLock DEF ForceExitToDesk, core
<1> QED
  BY <1>1, <1>2, Parts

\* Giving that call up, wherever it is, keeps the lock in order.
LEMMA TeardownTimesOutKeepsIInv ==
  ASSUME IInv, TeardownTimesOut
  PROVE  IInv'
<1> USE DEF core, tasks
<1>1. PICK i \in DOMAIN queue :
        IF i = 1 THEN Release ELSE queue' = Without(queue, i) /\ UNCHANGED stage
  BY DEF TeardownTimesOut
<1>2. /\ queue \in Seq(Request) /\ queue # <<>> /\ Len(queue) <= MaxQueue
      /\ Len(queue) \in Nat
      /\ mode' = mode /\ watch' = watch /\ recovery' = recovery
  BY <1>1 DEF IInv, TypeOK, TeardownTimesOut
<1>3. RestPart'
  BY Parts DEF TeardownTimesOut, RestPart, Layouts
<1>4. CASE i = 1
  BY <1>1, <1>2, <1>3, <1>4, ReleaseKeepsLock, Parts
     DEF IInv, TypeOK, SessionStateOnlyInCouch
<1>5. CASE i # 1
  <2>1. i > 1
    BY <1>2, <1>5
  <2>2. /\ queue' \in Seq(Request) /\ queue' # <<>>
        /\ Len(queue') = Len(queue) - 1
        /\ Head(queue') = Head(queue)
        /\ \A j \in DOMAIN queue' : \E k \in DOMAIN queue : queue'[j] = queue[k]
    BY <1>1, <1>2, <1>5, <2>1, WithoutWaiter
  <2>3. stage' = stage
    BY <1>1, <1>5
  <2>4. LockDiscipline'
    BY <1>2, <2>2, <2>3 DEF LockDiscipline, IInv
  <2>5. LockPart'
    BY <1>2, <2>2, <2>3, <2>4 DEF LockPart, IInv, TypeOK, SessionStateOnlyInCouch
  <2> QED
    BY <1>3, <2>5, Parts
<1> QED
  BY <1>4, <1>5

LEMMA SNextKeepsIInv == IInv /\ [SNext]_allvars => IInv'
<1> SUFFICES ASSUME IInv, [SNext]_allvars PROVE IInv'
  OBVIOUS
<1>1. CASE UNCHANGED vars
  BY <1>1, NextKeepsIInv
<1>2. CASE HandleSignal
  BY <1>1, <1>2, ShutdownExitKeepsIInv DEF HandleSignal
<1>3. CASE TeardownTimesOut
  BY <1>3, TeardownTimesOutKeepsIInv
<1>4. CASE Rest \/ \E fresh \in BOOLEAN : RestartWatcher(fresh)
  BY <1>4, NextKeepsIInv DEF Rest, RestartWatcher, Next, Users
<1> QED
  BY <1>1, <1>2, <1>3, <1>4 DEF SNext, AcquireInhibitor, Subscribe, TeardownDone,
     PrepareForShutdown, ShutdownCancelled, Signal, PowerOffMachine, allvars

LEMMA AlwaysIInvS == SSpec => []IInv
BY InitIInv, SNextKeepsIInv, PTL DEF SSpec, SInit

\* The watcher's call is a switch like any other, and giving it up ends it.
LEMMA SNextSwitches ==
  ASSUME IInv, [SNext]_allvars
  PROVE  [MS!Next]_(MS!mvars)
<1>1. CASE [Next]_vars
  BY <1>1, NextSwitches
<1>2. CASE HandleSignal
  <2>1. CASE ForceExitToDesk("shutdown")
    <3>1. Transition(Req("desk", "shutdown", FALSE), watch, recovery)
          /\ mode' = mode /\ restarts' = restarts
      BY <2>1 DEF ForceExitToDesk, core, env
    <3>2. Sound(Req("desk", "shutdown", FALSE))
      BY ReqSound DEF Modes, Callers
    <3> QED
      BY <3>1, <3>2, TransitionSwitches
  <2> QED
    BY <1>1, <1>2, <2>1 DEF HandleSignal
<1>3. CASE TeardownTimesOut
  <2>1. mode' = mode /\ restarts' = restarts /\ (Release \/ stage' = stage)
    BY <1>3 DEF TeardownTimesOut, core
  <2>2. CASE stage \in CouchStages \cup DeskStages /\ Release
    BY <2>1, <2>2, ReleaseEnds DEF MS!Next
  <2>3. CASE Release /\ stage \notin CouchStages \cup DeskStages
    BY <2>1, <2>3 DEF Release, MS!mvars, Switching, CouchStages, DeskStages
  <2>4. CASE stage' = stage
    BY <2>1, <2>4 DEF MS!mvars, Switching
  <2> QED
    BY <2>1, <2>2, <2>3, <2>4
<1>4. CASE Rest \/ \E fresh \in BOOLEAN : RestartWatcher(fresh)
  BY <1>1, <1>4 DEF Rest, RestartWatcher, Next, Users
<1> QED
  BY <1>1, <1>2, <1>3, <1>4 DEF SNext, AcquireInhibitor, Subscribe, TeardownDone,
     PrepareForShutdown, ShutdownCancelled, Signal, PowerOffMachine, allvars

\* The mode keeps its promises during a shutdown too: wait_for may cancel the
\* watcher's teardown in any hook, or while it waits for the lock, and the mode
\* still changes only under the lock, once, to the target of the switch under way.
THEOREM ShutdownKeepsModeSwitch == SSpec => ModeSwitchSteps
<1>1. SInit => MS!Init
  BY InitMode DEF SInit
<1>2. IInv /\ [SNext]_allvars => [MS!Next]_(MS!mvars)
  BY SNextSwitches
<1> QED
  BY <1>1, <1>2, AlwaysIInvS, PTL DEF SSpec, ModeSwitchSteps

\* Its lock too: one transition at a time, whoever is cancelled.
THEOREM ShutdownKeepsLock == SSpec => []LockDiscipline
<1>1. IInv => LockDiscipline
  BY DEF IInv
<1> QED
  BY <1>1, AlwaysIInvS, PTL

LEMMA SNextKeepsTypes ==
  ASSUME IInv, STypeOK, [SNext]_allvars
  PROVE  STypeOK'
<1> USE DEF STypeOK
<1>1. TypeOK'
  BY SNextKeepsIInv DEF IInv
<1>2. doomed' \in BOOLEAN /\ timedOut' \in BOOLEAN
  <2>1. doomed' = doomed \/ doomed' \in BOOLEAN
    BY Zenon DEF SNext, AcquireInhibitor, Subscribe, HandleSignal, TeardownDone,
       TeardownTimesOut, PrepareForShutdown, ShutdownCancelled, Signal,
       PowerOffMachine, Rest, RestartWatcher, allvars, shutvars
  <2>2. timedOut' = timedOut \/ timedOut' \in BOOLEAN
    BY Zenon DEF SNext, AcquireInhibitor, Subscribe, HandleSignal, TeardownDone,
       TeardownTimesOut, PrepareForShutdown, ShutdownCancelled, Signal,
       PowerOffMachine, Rest, RestartWatcher, allvars, shutvars
  <2> QED
    BY <2>1, <2>2, Zenon
<1>3. watcher' \in WatcherStates /\ power' \in {"up", "stopping", "off"}
  BY Zenon DEF SNext, AcquireInhibitor, Subscribe, HandleSignal, TeardownDone,
     TeardownTimesOut, PrepareForShutdown, ShutdownCancelled, Signal,
     PowerOffMachine, Rest, RestartWatcher, allvars, shutvars, WatcherStates
<1> DEFINE SignalsOK ==
        signals \in Seq(BOOLEAN) /\ sent \in 0 .. MaxSignals /\ Len(signals) <= sent
<1>4. SignalsOK'
  <2>1. /\ MaxSignals \in Nat /\ sent \in Nat
        /\ signals \in Seq(BOOLEAN) /\ Len(signals) \in Nat
    BY ShutdownAssumption
  <2>2. CASE UNCHANGED <<signals, sent>>
    BY <2>1, <2>2
  <2>3. CASE signals # <<>> /\ signals' = Tail(signals) /\ sent' = sent
    <3>1. Tail(signals) \in Seq(BOOLEAN) /\ Len(Tail(signals)) = Len(signals) - 1
      BY <2>1, <2>3
    <3> QED
      BY <2>1, <2>3, <3>1
  <2>4. ASSUME NEW b \in BOOLEAN, Signal(b)   PROVE SignalsOK'
    <3>1. Append(signals, b) \in Seq(BOOLEAN) /\ Len(Append(signals, b)) = Len(signals) + 1
      BY <2>1, <2>4
    <3>2. signals' = signals \/ signals' = Append(signals, b)
      BY <2>4, Zenon DEF Signal
    <3>3. sent' = sent + 1 /\ sent' <= MaxSignals
      BY <2>1, <2>4 DEF Signal
    <3> QED
      BY <2>1, <3>1, <3>2, <3>3
  <2>5. CASE signals' = <<>> /\ sent' = sent
    <3>1. <<>> \in Seq(BOOLEAN) /\ Len(<<>>) = 0
      OBVIOUS
    <3> QED
      BY <2>1, <2>5, <3>1
  <2> QED
    BY <2>2, <2>3, <2>4, <2>5, Zenon DEF SNext, AcquireInhibitor, Subscribe,
       HandleSignal, TeardownDone, TeardownTimesOut, PrepareForShutdown,
       ShutdownCancelled, PowerOffMachine, Rest, RestartWatcher, allvars, shutvars
<1> QED
  BY <1>1, <1>2, <1>3, <1>4

\* The watcher's variables keep their types, and no signal is waiting that was not
\* sent.
THEOREM ShutdownTypes == SSpec => []STypeOK
<1>1. SInit => STypeOK
  <2> SUFFICES ASSUME SInit PROVE STypeOK
    OBVIOUS
  <2>1. TypeOK
    BY InitIInv DEF SInit, IInv
  <2>2. <<>> \in Seq(BOOLEAN) /\ Len(<<>>) = 0
    OBVIOUS
  <2>3. signals = <<>> /\ sent = 0 /\ 0 \in 0 .. MaxSignals
    BY ShutdownAssumption DEF SInit
  <2>4. signals \in Seq(BOOLEAN) /\ sent \in 0 .. MaxSignals /\ Len(signals) <= sent
    BY <2>2, <2>3
  <2>5. watcher \in WatcherStates /\ power \in {"up", "stopping", "off"}
    BY DEF SInit, WatcherStates
  <2>6. doomed \in BOOLEAN /\ timedOut \in BOOLEAN
    BY Zenon DEF SInit
  <2> QED
    BY <2>1, <2>4, <2>5, <2>6 DEF STypeOK
<1>2. IInv /\ STypeOK /\ [SNext]_allvars => STypeOK'
  BY SNextKeepsTypes
<1> QED
  BY <1>1, <1>2, AlwaysIInvS, PTL DEF SSpec

-----------------------------------------------------------------------------
(* The watcher's request stays in the queue while the session lives.       *)

Asked == \E i \in DOMAIN queue : Mine(queue[i]) /\ queue[i].to = "desk"

\* A session the watcher found is either over, or given up, or its end is
\* still asked for and awaited.  No signal is left for a machine that is off.
DoomInv ==
  /\ doomed /\ ~timedOut =>
       watcher = "tearing" /\ power # "off" /\ mode = "couch" /\ Asked
  /\ watcher = "armed" /\ power = "off" => signals = <<>>

\* Further calls queue up behind it.
LEMMA TransitionKeepsAsked ==
  ASSUME IInv, Asked, NEW r, Sound(r), NEW w, NEW rec, Transition(r, w, rec)
  PROVE  Asked'
<1>1. queue \in Seq(Request) /\ Len(queue) \in Nat /\ queue # <<>>
  BY DEF IInv, TypeOK, Asked
<1>2. CASE queue' = queue
  BY <1>2 DEF Asked, Mine
<1>3. CASE queue' = Append(queue, r)
  <2>1. \A i \in DOMAIN queue : i \in DOMAIN queue' /\ queue'[i] = queue[i]
    BY <1>1, <1>3 DEF Sound
  <2> QED
    BY <2>1 DEF Asked, Mine
<1> QED
  BY <1>1, <1>2, <1>3 DEF Transition

\* The holder that returns before it is another one.
LEMMA ReleaseKeepsAsked ==
  ASSUME IInv, Asked, Release, ~(Mine(Head(queue)) /\ Head(queue).to = "desk")
  PROVE  Asked'
<1>1. PICK k \in DOMAIN queue : Mine(queue[k]) /\ queue[k].to = "desk"
  BY DEF Asked
<1>2. queue \in Seq(Request) /\ queue # <<>> /\ Len(queue) \in Nat \ {0}
  BY <1>1 DEF IInv, TypeOK
<1>3. k # 1
  BY <1>1, <1>2
<1>4. k - 1 \in DOMAIN queue' /\ queue'[k - 1] = queue[k]
  BY <1>2, <1>3 DEF Release
<1> QED
  BY <1>1, <1>4 DEF Asked, Mine

\* Only the end of the session answers it.
LEMMA NextKeepsAsked ==
  ASSUME IInv, Asked, mode = "couch", mode' = "couch", Next, UNCHANGED restarts
  PROVE  Asked'
<1> USE DEF core, tasks, env, lockvars
<1>q. queue \in Seq(Request) /\ queue # <<>> /\ stage # "free"
  BY DEF IInv, TypeOK, LockDiscipline, Asked
<1>1. CASE UNCHANGED queue
  BY <1>1 DEF Asked, Mine
<1>2. CASE Acquire
  BY <1>1, <1>2, ReleaseKeepsAsked DEF Acquire, NoOp
<1>3. CASE CouchActivationFailed \/ PoststartDone \/ PostexitDone
  BY <1>3, ReleaseKeepsAsked DEF CouchActivationFailed, PoststartDone, PostexitDone,
     IInv, LockDiscipline, CouchStages
<1>4. ASSUME NEW to \in Modes, NEW by \in Callers, NEW force \in BOOLEAN,
             force => to = "desk", NEW w, NEW rec,
             Transition(Req(to, by, force), w, rec)
      PROVE  Asked'
  BY <1>4, ReqSound, TransitionKeepsAsked
<1>5. CASE GraceElapsed \/ WatchPoll \/ RecoveryPoll
  BY <1>1, <1>4, <1>5 DEF GraceElapsed, StaysForGame, GameStillRunning, WatchPoll,
     RecoveryPoll, Callers, Modes
<1>6. ASSUME NEW d \in Devices, Connect(d)
      PROVE  Asked'
  BY <1>1, <1>6 DEF Connect, CancelGrace
<1>7. CASE WizardExit \/ ShortcutExit
  BY <1>4, <1>7 DEF WizardExit, ShortcutExit, ForceExitToDesk, Callers, Modes
<1>8. CASE ShortcutReleased
  <2>1. PICK i \in DOMAIN queue :
          /\ queue[i].by = "shortcut"
          /\ \/ i = 1 /\ Release
             \/ i > 1 /\ queue' = Without(queue, i)
    BY <1>8 DEF ShortcutReleased
  <2>2. CASE i = 1 /\ Release
    BY <1>q, <2>1, <2>2, ReleaseKeepsAsked DEF Mine
  <2>3. CASE i > 1 /\ queue' = Without(queue, i)
    <3>1. PICK k \in DOMAIN queue : Mine(queue[k]) /\ queue[k].to = "desk"
      BY DEF Asked
    <3>2. k # i
      BY <2>1, <3>1 DEF Mine
    <3> QED
      BY <1>q, <2>3, <3>1, <3>2, WithoutKeepsOthers DEF Asked, Mine
  <2> QED
    BY <2>1, <2>2, <2>3
<1>9. CASE \E fresh \in BOOLEAN : Restart(fresh)
  <2>1. restarts \in Nat
    BY DEF IInv, TypeOK
  <2> QED
    BY <1>9, <2>1 DEF Restart
<1> QED
  BY <1>1, <1>2, <1>3, <1>5, <1>6, <1>7, <1>8, <1>9
     DEF Next, Holder, Tasks, Users, PrestartDone, CouchActivated, Launched,
     PreexitDone, DeskActivated, IdleEntered, Disconnect, Woken, ForceEnterCouch,
     GameExits, PowerOn, PowerOff

LEMMA SNextKeepsDoomInv == IInv /\ DoomInv /\ [SNext]_allvars => DoomInv'
<1> SUFFICES ASSUME IInv, DoomInv, [SNext]_allvars PROVE DoomInv'
  OBVIOUS
<1>1. CASE UNCHANGED <<doomed, timedOut, watcher, mode, queue>> /\ power' # "off"
  BY <1>1 DEF DoomInv, Asked, Mine
<1>2. CASE UNCHANGED allvars
  BY <1>2 DEF DoomInv, Asked, Mine, allvars, shutvars, vars, core, lockvars
<1>3. CASE HandleSignal
  <2>1. CASE UNCHANGED <<vars, doomed>>
    BY <1>3, <2>1 DEF HandleSignal, DoomInv
  <2>2. CASE ForceExitToDesk("shutdown") /\ watcher' = "tearing"
    <3>1. DEFINE r == Req("desk", "shutdown", FALSE)
    <3>2. /\ Transition(r, watch, recovery) /\ ~NoOp(r)
          /\ mode = "couch" /\ mode' = mode
      BY <2>2 DEF ForceExitToDesk, Req, NoOp, IInv, TypeOK, Modes, core
    <3>3. queue \in Seq(Request) /\ Len(queue) \in Nat
      BY DEF IInv, TypeOK
    <3>4. Len(queue') \in DOMAIN queue' /\ queue'[Len(queue')] = r
      <4>1. CASE queue' = <<r>>
        BY <4>1
      <4>2. CASE queue' = Append(queue, r)
        <5>1. r \in Request
          BY DEF Req, Request, Modes, Callers
        <5>2. /\ DOMAIN queue' = 1 .. Len(queue) + 1
              /\ Len(queue') = Len(queue) + 1
              /\ queue'[Len(queue) + 1] = r
          <6> HIDE DEF r
          <6> QED
            BY <3>3, <4>2, <5>1
        <5> QED
          BY <3>3, <5>2
      <4> QED
        BY <3>2, <4>1, <4>2 DEF Transition
    <3>5. Asked'
      BY <3>4 DEF Asked, Mine, Req
    <3> QED
      BY <1>3, <2>2, <3>2, <3>5 DEF HandleSignal, DoomInv
  <2> QED
    BY <1>3, <2>1, <2>2 DEF HandleSignal
<1>4. CASE TeardownDone
  BY <1>4 DEF TeardownDone, DoomInv, Asked
<1>5. CASE TeardownTimesOut
  BY <1>5 DEF TeardownTimesOut, DoomInv
<1>6. CASE PowerOffMachine
  BY <1>6 DEF PowerOffMachine, Listening, DoomInv
<1>7. CASE Rest
  <2> SUFFICES ASSUME doomed', ~timedOut' PROVE DoomInv'
    BY <1>7 DEF Rest, DoomInv
  <2>1. doomed /\ ~timedOut /\ mode' = "couch"
    BY <1>7 DEF Rest
  <2>2. Asked'
    BY <1>7, <2>1, NextKeepsAsked DEF Rest, DoomInv
  <2> QED
    BY <1>7, <2>1, <2>2 DEF Rest, DoomInv
<1>8. CASE \E fresh \in BOOLEAN : RestartWatcher(fresh)
  BY <1>8 DEF RestartWatcher, DoomInv
<1>9. CASE AcquireInhibitor \/ Subscribe
  BY <1>9 DEF AcquireInhibitor, Subscribe, DoomInv
<1>10. CASE PrepareForShutdown \/ ShutdownCancelled
  BY <1>1, <1>10 DEF PrepareForShutdown, ShutdownCancelled, Signal, vars, core, lockvars
<1> QED
  BY <1>2, <1>3, <1>4, <1>5, <1>6, <1>7, <1>8, <1>9, <1>10 DEF SNext

-----------------------------------------------------------------------------
\* A session that was live when the watcher saw the shutdown is over when the
\* machine goes down, or its teardown ran into the timeout, whatever waits for
\* the lock before the watcher's call, behind it, or is cancelled meanwhile
\* (ShutdownWatcher.run).
THEOREM TornDownFirst == SSpec => []TornDownBeforePowerOff
<1>1. SInit => IInv /\ DoomInv
  BY InitIInv DEF SInit, DoomInv
<1>2. DoomInv => TornDownBeforePowerOff
  BY DEF DoomInv, TornDownBeforePowerOff
<1> QED
  BY <1>1, <1>2, SNextKeepsIInv, SNextKeepsDoomInv, PTL DEF SSpec
=============================================================================
