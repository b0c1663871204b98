------------------------ MODULE StateMachine_proofs ------------------------
(***************************************************************************)
(* Proofs about the state machine, for any number of controllers, any      *)
(* configuration and any bounds.                                           *)
(***************************************************************************)
EXTENDS StateMachine, SequenceTheorems, TLAPS

\* What the proofs carry from state to state.
IInv == TypeOK /\ LockDiscipline /\ SessionStateOnlyInCouch

\* The part of it that _transition and its lock can disturb, in a state in
\* which everything else is left as it is.
LockPart ==
  /\ queue \in Seq(Request) /\ Len(queue) <= MaxQueue
  /\ stage \in Stages
  /\ watch \in {"none", "sleeping", "idling"}
  /\ recovery \in BOOLEAN
  /\ LockDiscipline
  /\ watch # "none" => mode = "couch"
  /\ watch # "none" => stage \in {"free", "acquire"}

USE StateMachineAssumption

-----------------------------------------------------------------------------
(* The lock.                                                               *)

\* A request that may be queued: only desk requests are forced.
Sound(r) == r \in Request /\ (r.force => r.to = "desk")

\* What the callers of _transition ask for is a sound request.
LEMMA ReqSound ==
  ASSUME NEW to \in Modes, NEW by \in Callers, NEW force \in BOOLEAN,
         force => to = "desk"
  PROVE  Sound(Req(to, by, force))
BY DEF Sound, Req, Request

\* The first waiter, or the caller itself, enters its transition.
LEMMA EnterKeepsLock ==
  ASSUME IInv, mode' = mode, NEW r, Sound(r), ~NoOp(r),
         queue' \in Seq(Request), Len(queue') <= MaxQueue, queue' # <<>>,
         Head(queue') = r,
         \A i \in DOMAIN queue' : queue'[i].force => queue'[i].to = "desk",
         Enter(r)
  PROVE  LockPart'
<1>1. r.to = "couch" => mode = "desk"
  BY DEF Sound, NoOp, IInv, TypeOK, Modes, Request
<1>2. r.to \in Modes
  BY DEF Sound, Request
<1> QED
  BY <1>1, <1>2 DEF Enter, FirstStage, LockPart, LockDiscipline, Stages,
     CouchStages, DeskStages, Modes

\* A call of _transition keeps the lock in order, on a free lock or not.
LEMMA TransitionKeepsLock ==
  ASSUME IInv, mode' = mode, NEW r, Sound(r),
         NEW w \in {"none", "sleeping", "idling"}, NEW rec \in BOOLEAN,
         w # "none" => mode = "couch" /\ stage \in {"free", "acquire"},
         Transition(r, w, rec)
  PROVE  LockPart'
<1>1. CASE queue = <<>> /\ NoOp(r) /\ watch' = w /\ recovery' = rec
           /\ UNCHANGED lockvars
  BY <1>1 DEF LockPart, IInv, TypeOK, LockDiscipline, lockvars
<1>2. CASE queue = <<>> /\ ~NoOp(r) /\ queue' = <<r>> /\ Enter(r)
  <2>1. /\ queue' \in Seq(Request) /\ Len(queue') = 1
        /\ queue' # <<>> /\ Head(queue') = r
        /\ \A i \in DOMAIN queue' : queue'[i] = r
    BY <1>2 DEF Sound
  <2> QED
    BY <1>2, <2>1, EnterKeepsLock DEF Sound
<1>3. CASE /\ queue # <<>> /\ Len(queue) < MaxQueue
           /\ queue' = Append(queue, r)
           /\ watch' = w /\ recovery' = rec
           /\ UNCHANGED stage
  <2>1. queue \in Seq(Request) /\ Len(queue) \in Nat \ {0}
    BY <1>3 DEF IInv, TypeOK
  <2>2. /\ queue' \in Seq(Request) /\ queue' # <<>>
        /\ Len(queue') = Len(queue) + 1
        /\ Head(queue') = Head(queue)
        /\ \A i \in DOMAIN queue' :
             IF i = Len(queue) + 1 THEN queue'[i] = r
             ELSE i \in DOMAIN queue /\ queue'[i] = queue[i]
    BY <1>3, <2>1 DEF Sound
  <2> QED
    BY <1>3, <2>1, <2>2 DEF LockPart, IInv, TypeOK, LockDiscipline, Sound
<1> QED
  BY <1>1, <1>2, <1>3 DEF Transition

\* Taking the head off, for a holder that returns.
LEMMA ReleaseKeepsLock ==
  ASSUME IInv, mode' = mode, queue # <<>>, Release,
         watch' \in {"none", "sleeping", "idling"}, recovery' \in BOOLEAN,
         watch' # "none" => mode = "couch"
  PROVE  LockPart'
<1>1. queue \in Seq(Request) /\ Len(queue) \in Nat \ {0}
  BY DEF IInv, TypeOK
<1>2. /\ queue' \in Seq(Request) /\ Len(queue') = Len(queue) - 1
      /\ \A i \in DOMAIN queue' :
           i + 1 \in DOMAIN queue /\ queue'[i] = queue[i + 1]
  BY <1>1 DEF Release
<1>3. queue' = <<>> <=> Len(queue) = 1
  BY <1>1, <1>2
<1> QED
  BY <1>1, <1>2, <1>3 DEF Release, LockPart, LockDiscipline, Stages, IInv,
     TypeOK, CouchStages, DeskStages

\* Taking a waiter out, for a caller that is cancelled while it waits.
LEMMA WithoutWaiter ==
  ASSUME NEW S, NEW s \in Seq(S), NEW i \in DOMAIN s, i > 1
  PROVE  /\ Without(s, i) \in Seq(S)
         /\ Len(Without(s, i)) = Len(s) - 1
         /\ Without(s, i) # <<>>
         /\ Head(Without(s, i)) = Head(s)
         /\ \A j \in DOMAIN Without(s, i) :
              \E k \in DOMAIN s : Without(s, i)[j] = s[k]
<1>1. /\ Len(s) \in Nat /\ Len(s) - 1 \in Nat
      /\ i \in 1 .. Len(s) /\ s \in [1 .. Len(s) -> S]
  BY LenProperties
<1>2. \A j \in 1 .. Len(s) - 1 :
        /\ j \in 1 .. Len(s) /\ j + 1 \in 1 .. Len(s)
        /\ Without(s, i)[j] = IF j < i THEN s[j] ELSE s[j + 1]
  BY <1>1 DEF Without
<1>3. Without(s, i) \in [1 .. Len(s) - 1 -> S]
  BY <1>1, <1>2 DEF Without
<1>4. Without(s, i) \in Seq(S)
  BY <1>1, <1>3, SeqDef
<1>5. /\ DOMAIN Without(s, i) = 1 .. Len(s) - 1
      /\ Len(Without(s, i)) = Len(s) - 1
  BY <1>1 DEF Without
<1>6. Without(s, i) # <<>> /\ Head(Without(s, i)) = Head(s)
  BY <1>1, <1>2, <1>4, <1>5
<1>7. \A j \in DOMAIN Without(s, i) :
        \E k \in DOMAIN s : Without(s, i)[j] = s[k]
  BY <1>1, <1>2, <1>5
<1> QED
  BY <1>4, <1>5, <1>6, <1>7

\* Cancelling the shortcut's call, holder or waiter, keeps the lock in order.
LEMMA ShortcutReleasedKeepsLock ==
  ASSUME IInv, ShortcutReleased
  PROVE  LockPart'
<1>1. PICK i \in DOMAIN queue :
        /\ \/ i = 1 /\ stage \in {"acquire", "preexit"} /\ Release
           \/ i > 1 /\ queue' = Without(queue, i) /\ UNCHANGED stage
        /\ UNCHANGED <<core, tasks, env>>
  BY DEF ShortcutReleased
<1>2. /\ queue \in Seq(Request) /\ queue # <<>> /\ Len(queue) <= MaxQueue
      /\ mode' = mode /\ watch' = watch /\ recovery' = recovery
      /\ Len(queue) \in Nat
  BY <1>1 DEF IInv, TypeOK, core, tasks
<1>3. CASE i = 1 /\ stage \in {"acquire", "preexit"} /\ Release
  BY <1>2, <1>3, ReleaseKeepsLock DEF IInv, TypeOK, SessionStateOnlyInCouch
<1>4. CASE i > 1 /\ queue' = Without(queue, i) /\ UNCHANGED stage
  <2>1. /\ queue' \in Seq(Request) /\ queue' # <<>>
        /\ Len(queue') = Len(queue) - 1
        /\ Head(queue') = Head(queue)
        /\ \A j \in DOMAIN queue' : \E k \in DOMAIN queue : queue'[j] = queue[k]
    BY <1>2, <1>4, WithoutWaiter
  <2> QED
    BY <1>2, <1>4, <2>1 DEF LockPart, LockDiscipline, IInv, TypeOK,
       SessionStateOnlyInCouch
<1> QED
  BY <1>1, <1>3, <1>4

-----------------------------------------------------------------------------
(* The invariant.                                                          *)

\* The rest of the invariant.
RestPart ==
  /\ mode \in Modes
  /\ owner \in Devices \cup {Manual, None}
  /\ ownerIsReal \in BOOLEAN /\ idle \in BOOLEAN /\ absent \in BOOLEAN
  /\ game \in BOOLEAN
  /\ grace \in Devices \cup {None}
  /\ waking \subseteq Devices
  /\ present \subseteq Devices /\ seen \subseteq Devices
  /\ layout \in Layouts
  /\ restarts \in 0 .. MaxRestarts
  /\ idle \/ absent => mode = "couch"

\* The inductive invariant, split into what the lock needs and the rest.
LEMMA Parts ==
  (IInv <=> LockPart /\ RestPart) /\ (IInv' <=> LockPart' /\ RestPart')
BY DEF IInv, LockPart, RestPart, TypeOK, SessionStateOnlyInCouch

\* The inductive invariant holds initially.
LEMMA InitIInv == Init => IInv
<1> SUFFICES ASSUME Init PROVE IInv
  OBVIOUS
<1>1. queue \in Seq(Request) /\ Len(queue) = 0 /\ DOMAIN queue = {}
  BY DEF Init
<1>2. LockPart
  <2>1. LockDiscipline
    BY <1>1 DEF Init, LockDiscipline, CouchStages, DeskStages
  <2>2. recovery \in BOOLEAN
    BY Zenon DEF Init
  <2> QED
    BY <1>1, <2>1, <2>2 DEF Init, LockPart, Stages
<1>3. RestPart
  <2>1. /\ ownerIsReal \in BOOLEAN /\ idle \in BOOLEAN /\ absent \in BOOLEAN
        /\ game \in BOOLEAN
    BY Zenon DEF Init
  <2>2. ~idle /\ ~absent
    BY Zenon DEF Init
  <2> QED
    BY <2>1, <2>2 DEF Init, RestPart, Modes, Layouts
<1> QED
  BY <1>2, <1>3, Parts

\* The steps of the lock holder.
LEMMA HolderKeepsIInv ==
  ASSUME IInv, Holder
  PROVE  IInv'
<1> USE DEF core, tasks, env, lockvars
<1>q. queue \in Seq(Request) /\ Len(queue) <= MaxQueue /\ LockPart /\ RestPart
  BY Parts DEF IInv, TypeOK
<1>h. stage # "free" =>
        /\ queue # <<>> /\ Len(queue) \in Nat \ {0} /\ 1 \in DOMAIN queue
        /\ Head(queue) = queue[1] /\ Sound(Head(queue))
  BY <1>q DEF IInv, LockDiscipline, Sound
<1>1. CASE Acquire
  <2>1. RestPart'
    BY <1>1, <1>q DEF Acquire, RestPart
  <2>2. CASE NoOp(Head(queue)) /\ Release /\ UNCHANGED <<watch, recovery>>
    BY <1>1, <1>h, <2>1, <2>2, ReleaseKeepsLock, <1>q, Parts
       DEF Acquire, LockPart
  <2>3. CASE ~NoOp(Head(queue)) /\ Enter(Head(queue)) /\ UNCHANGED queue
    <3>1. stage = "acquire" /\ mode' = mode
      BY <1>1 DEF Acquire
    <3> QED
      BY <1>q, <1>h, <2>1, <2>3, <3>1, EnterKeepsLock, Parts
         DEF LockPart, LockDiscipline
  <2> QED
    BY <1>1, <2>1, <2>2, <2>3, Parts DEF Acquire
<1>2. CASE PrestartDone
  BY <1>2, <1>q, Parts DEF PrestartDone, LockPart, RestPart, LockDiscipline,
     Stages, CouchStages, DeskStages
<1>3. CASE CouchActivated
  BY <1>3, <1>q, Parts DEF CouchActivated, LockPart, RestPart, LockDiscipline,
     Stages, CouchStages, DeskStages, Modes, Layouts
<1>4. CASE CouchActivationFailed
  <2>1. RestPart'
    BY <1>4, <1>q DEF CouchActivationFailed, RestPart, Layouts, Modes
  <2>2. LockPart'
    BY <1>4, <1>q, <1>h, ReleaseKeepsLock DEF CouchActivationFailed, LockPart
  <2> QED
    BY <2>1, <2>2, Parts
<1>5. CASE Launched
  BY <1>5, <1>q, Parts DEF Launched, LockPart, RestPart, LockDiscipline,
     Stages, CouchStages, DeskStages
<1>6. CASE PoststartDone
  <2>1. RestPart'
    BY <1>6, <1>q DEF PoststartDone, RestPart
  <2>2. mode = "couch"
    BY <1>6 DEF PoststartDone, IInv, LockDiscipline
  <2>3. LockPart'
    BY <1>6, <1>q, <1>h, <2>2, ReleaseKeepsLock DEF PoststartDone, LockPart
  <2> QED
    BY <2>1, <2>3, Parts
<1>7. CASE PreexitDone
  BY <1>7, <1>q, Parts DEF PreexitDone, LockPart, RestPart, LockDiscipline,
     Stages, CouchStages, DeskStages
<1>8. CASE DeskActivated
  BY <1>8, <1>q, Parts DEF DeskActivated, ClearSession, SwitchToDesk, LockPart, RestPart, LockDiscipline,
     Stages, CouchStages, DeskStages, Modes, Layouts
<1>9. CASE PostexitDone
  <2>1. RestPart'
    BY <1>9, <1>q DEF PostexitDone, RestPart
  <2>2. LockPart'
    BY <1>9, <1>q, <1>h, ReleaseKeepsLock DEF PostexitDone, LockPart
  <2> QED
    BY <2>1, <2>2, Parts
<1> QED
  BY <1>1, <1>2, <1>3, <1>4, <1>5, <1>6, <1>7, <1>8, <1>9 DEF Holder

\* The steps of timers and of device events.
LEMMA TasksKeepIInv ==
  ASSUME IInv, Tasks
  PROVE  IInv'
<1> USE DEF core, tasks, env, lockvars
<1>q. LockPart /\ RestPart /\ watch \in {"none", "sleeping", "idling"}
      /\ recovery \in BOOLEAN
      /\ (watch # "none" => mode = "couch" /\ stage \in {"free", "acquire"})
  BY Parts DEF LockPart
<1>1. CASE GraceElapsed
  <2>1. RestPart'
    BY <1>1, <1>q DEF GraceElapsed, StaysForGame, GameStillRunning, RestPart
  <2>2. LockPart'
    BY <1>1, <1>q, ReqSound, TransitionKeepsLock
       DEF GraceElapsed, StaysForGame, GameStillRunning, LockPart, LockDiscipline, Modes, Callers
  <2> QED
    BY <2>1, <2>2, Parts
<1>2. CASE WatchPoll
  <2>1. RestPart'
    BY <1>2, <1>q DEF WatchPoll, WatchPresence, RestPart
  <2>2. CASE Transition(Req("desk", "watch", FALSE), "none", recovery)
    BY <1>2, <1>q, <2>1, <2>2, ReqSound, TransitionKeepsLock, Parts
       DEF WatchPoll, Modes, Callers
  <2>3. CASE WatchPresence /\ UNCHANGED <<lockvars, recovery>>
    BY <1>2, <1>q, <2>1, <2>3, Parts
       DEF WatchPoll, WatchPresence, LockPart, LockDiscipline
  <2> QED
    BY <1>2, <2>1, <2>2, <2>3, Parts DEF WatchPoll
<1>3. CASE IdleEntered
  BY <1>3, <1>q, Parts DEF IdleEntered, LockPart, RestPart, LockDiscipline
<1>4. CASE RecoveryPoll
  <2>1. RestPart'
    BY <1>4, <1>q DEF RecoveryPoll, RestPart
  <2>2. CASE recovery' = FALSE /\ UNCHANGED <<lockvars, watch>>
    BY <1>4, <1>q, <2>1, <2>2, Parts
       DEF RecoveryPoll, LockPart, LockDiscipline
  <2>3. CASE Transition(Req("desk", "recovery", TRUE), watch, FALSE)
    BY <1>4, <1>q, <2>1, <2>3, ReqSound, TransitionKeepsLock, Parts
       DEF RecoveryPoll, Modes, Callers
  <2> QED
    BY <1>4, <2>1, <2>2, <2>3, Parts DEF RecoveryPoll
<1>5. ASSUME NEW d \in Devices, Connect(d)
      PROVE  IInv'
  <2>1. RestPart'
    BY <1>5, <1>q DEF Connect, CancelGrace, RestPart
  <2>2. mode' = mode
    BY <1>5 DEF Connect, CancelGrace
  <2>3. CASE UNCHANGED <<lockvars, watch, recovery>>
    BY <1>q, <2>1, <2>2, <2>3, Parts DEF LockPart, LockDiscipline
  <2>4. CASE Transition(Req("couch", "event", FALSE), watch, recovery)
    BY <1>q, <2>1, <2>2, <2>4, ReqSound, TransitionKeepsLock, Parts
       DEF Modes, Callers
  <2> QED
    BY <1>5, <2>1, <2>3, <2>4, Parts DEF Connect, CancelGrace
<1>6. ASSUME NEW d \in Devices, Disconnect(d) \/ Woken(d)
      PROVE  IInv'
  BY <1>6, <1>q, Parts
     DEF Disconnect, Woken, LockPart, RestPart, LockDiscipline
<1> QED
  BY <1>1, <1>2, <1>3, <1>4, <1>5, <1>6 DEF Tasks

\* The steps of users and of the world.
LEMMA UsersKeepIInv ==
  ASSUME IInv, Users
  PROVE  IInv'
<1> USE DEF core, tasks, env, lockvars
<1>q. LockPart /\ RestPart /\ watch \in {"none", "sleeping", "idling"}
      /\ recovery \in BOOLEAN
      /\ (watch # "none" => mode = "couch" /\ stage \in {"free", "acquire"})
  BY Parts DEF LockPart
<1>1. CASE ForceEnterCouch
  <2>1. RestPart'
    BY <1>1, <1>q DEF ForceEnterCouch, RestPart
  <2>2. LockPart'
    BY <1>1, <1>q, ReqSound, TransitionKeepsLock
       DEF ForceEnterCouch, Modes, Callers
  <2> QED
    BY <2>1, <2>2, Parts
<1>2. ASSUME NEW by \in Callers, ForceExitToDesk(by)
      PROVE  IInv'
  <2>1. RestPart'
    BY <1>2, <1>q DEF ForceExitToDesk, RestPart
  <2>2. LockPart'
    BY <1>2, <1>q, ReqSound, TransitionKeepsLock DEF ForceExitToDesk, Modes
  <2> QED
    BY <2>1, <2>2, Parts
<1>3. CASE WizardExit \/ ShortcutExit
  BY <1>2, <1>3 DEF WizardExit, ShortcutExit, Callers
<1>4. CASE ShortcutReleased
  <2>1. RestPart'
    BY <1>4, <1>q DEF ShortcutReleased, RestPart
  <2> QED
    BY <1>4, <2>1, ShortcutReleasedKeepsLock, Parts
<1>5. CASE GameExits
  BY <1>5, <1>q, Parts DEF GameExits, LockPart, RestPart, LockDiscipline
<1>6. ASSUME NEW d \in Devices, PowerOn(d) \/ PowerOff(d)
      PROVE  IInv'
  BY <1>6, <1>q, Parts
     DEF PowerOn, PowerOff, LockPart, RestPart, LockDiscipline
<1>7. ASSUME NEW fresh \in BOOLEAN, Restart(fresh)
      PROVE  IInv'
  <2>1. PICK live \in Leftover : Reconcile(fresh, live)
    BY <1>7 DEF Restart
  <2>2. mode' \in Modes /\ layout' \in Layouts
    BY <1>q, <2>1 DEF Leftover, Reconcile, RestPart, Layouts, Modes
  <2>g. game' \in BOOLEAN
    BY <1>7, <1>q DEF Restart, RestPart
  <2>r. restarts' \in 0 .. MaxRestarts
    BY <1>7, <1>q DEF Restart, RestPart
  <2>3. RestPart'
    BY <1>7, <1>q, <2>2, <2>g, <2>r DEF Restart, StaleSession, RestPart
  <2>4. LockPart'
    BY <1>7, <1>q DEF Restart, StaleSession, RestPart, LockPart, LockDiscipline, Stages,
       CouchStages, DeskStages
  <2> QED
    BY <2>3, <2>4, Parts
<1> QED
  BY <1>1, <1>3, <1>4, <1>5, <1>6, <1>7 DEF Users

\* Every step preserves it.
LEMMA NextKeepsIInv == IInv /\ [Next]_vars => IInv'
<1> SUFFICES ASSUME IInv, [Next]_vars PROVE IInv'
  OBVIOUS
<1>1. CASE UNCHANGED vars
  BY <1>1, Parts DEF vars, core, tasks, env, lockvars, LockPart, RestPart,
     LockDiscipline
<1> QED
  BY <1>1, HolderKeepsIInv, TasksKeepIInv, UsersKeepIInv DEF Next

\* So it holds in every reachable state.
LEMMA AlwaysIInv == Spec => []IInv
BY InitIInv, NextKeepsIInv, PTL DEF Spec

\* Every variable keeps its type: in particular no more than MaxQueue calls
\* of _transition are in flight and every stage is one of _transition's.
THEOREM TypeCorrect == Spec => []TypeOK
BY AlwaysIInv, PTL DEF IInv

\* The asyncio.Lock serializes the hooks, and a couch activation never runs
\* on top of a couch session.
THEOREM LockCorrect == Spec => []LockDiscipline
BY AlwaysIInv, PTL DEF IInv

\* The owner watch, the idle mark and the absence mark never outlive the
\* couch session they belong to.
THEOREM SessionStateCorrect == Spec => []SessionStateOnlyInCouch
BY AlwaysIInv, PTL DEF IInv

-----------------------------------------------------------------------------
(* The state machine implements the safety part of ModeSwitch.             *)

\* The initial states map to the initial state of ModeSwitch.
LEMMA InitMode == Init => MS!Init
BY DEF Init, MS!Init, Switching, CouchStages, DeskStages

\* Leaving the lock ends the switch of its holder.
LEMMA ReleaseEnds ==
  ASSUME IInv, stage \in CouchStages \cup DeskStages, Release, mode' = mode,
         restarts' = restarts
  PROVE  MS!End
<1>1. Switching \in {"couch", "desk"}
  BY DEF Switching, CouchStages, DeskStages
<1>2. stage' \in {"free", "acquire"}
  BY DEF Release
<1>3. Switching' = "none"
  BY <1>2 DEF Switching, CouchStages, DeskStages
<1> QED
  BY <1>1, <1>3 DEF MS!End

\* Entering a transition begins a switch.
LEMMA EnterBegins ==
  ASSUME IInv, stage \in {"free", "acquire"}, mode' = mode,
         restarts' = restarts,
         NEW r, Sound(r), ~NoOp(r), Enter(r)
  PROVE  MS!Next
<1>1. Switching = "none"
  BY DEF Switching, CouchStages, DeskStages
<1>2. r.to \in {"desk", "couch"} /\ (r.to = "couch" => mode = "desk")
  BY DEF Sound, NoOp, Request, Modes, IInv, TypeOK
<1>3. Switching' = r.to
  BY <1>2 DEF Enter, FirstStage, Switching, CouchStages, DeskStages
<1>4. MS!Begin(r.to)
  BY <1>1, <1>2, <1>3 DEF MS!Begin
<1> QED
  BY <1>2, <1>4 DEF MS!Next

\* A call of _transition is a Begin of ModeSwitch, or a stutter.
LEMMA TransitionSwitches ==
  ASSUME IInv, mode' = mode, restarts' = restarts, NEW r, Sound(r),
         NEW w, NEW rec, Transition(r, w, rec)
  PROVE  MS!Next \/ UNCHANGED MS!mvars
<1>1. CASE stage' = stage
  BY <1>1 DEF Switching, MS!mvars
<1>2. CASE queue = <<>> /\ ~NoOp(r) /\ Enter(r)
  BY <1>2, EnterBegins DEF IInv, LockDiscipline
<1> QED
  BY <1>1, <1>2 DEF Transition, lockvars

\* Every step is a step of ModeSwitch or leaves the mode and the switch under
\* way alone.
LEMMA NextSwitches ==
  ASSUME IInv, [Next]_vars
  PROVE  [MS!Next]_(MS!mvars)
<1> USE DEF core, tasks, env, lockvars
<1>a. stage # "free" => queue # <<>> /\ Sound(Head(queue))
  <2>1. queue \in Seq(Request)
    BY DEF IInv, TypeOK
  <2>2. queue # <<>> => Head(queue) = queue[1] /\ 1 \in DOMAIN queue
    BY <2>1
  <2> QED
    BY <2>1, <2>2 DEF IInv, LockDiscipline, Sound
<1>1. CASE mode' = mode /\ stage' = stage /\ restarts' = restarts
  BY <1>1 DEF MS!mvars, Switching
<1>2. CASE Acquire
  BY <1>2, <1>a, EnterBegins
     DEF Acquire, Release, MS!mvars, Switching, CouchStages, DeskStages
<1>3. CASE PrestartDone \/ Launched \/ PreexitDone
  BY <1>3 DEF PrestartDone, Launched, PreexitDone, MS!mvars, Switching,
     CouchStages, DeskStages
<1>4. CASE CouchActivated
  BY <1>4 DEF CouchActivated, IInv, LockDiscipline, MS!Next, MS!Flip,
     Switching, CouchStages, DeskStages
<1>5. CASE DeskActivated
  <2>1. /\ Switching = "desk" /\ Switching' = "desk" /\ mode' = "desk"
        /\ restarts' = restarts
    BY <1>5 DEF DeskActivated, ClearSession, SwitchToDesk, Switching, CouchStages, DeskStages
  <2> QED
    BY <2>1 DEF MS!Next, MS!Flip, MS!mvars
<1>6. CASE CouchActivationFailed \/ PoststartDone \/ PostexitDone
  <2>1. /\ stage \in CouchStages \cup DeskStages
        /\ Release /\ mode' = mode /\ restarts' = restarts
    BY <1>6 DEF CouchActivationFailed, PoststartDone, PostexitDone,
       CouchStages, DeskStages
  <2> QED
    BY <2>1, ReleaseEnds DEF MS!Next
<1>7. CASE Tasks
  <2>1. ASSUME NEW r, Sound(r), NEW w, NEW rec, Transition(r, w, rec),
               mode' = mode, restarts' = restarts
        PROVE  [MS!Next]_(MS!mvars)
    BY <2>1, TransitionSwitches DEF MS!mvars
  <2>2. CASE GraceElapsed
    BY <1>1, <2>1, <2>2, ReqSound DEF GraceElapsed, StaysForGame, GameStillRunning, Modes, Callers
  <2>3. CASE WatchPoll
    BY <1>1, <2>1, <2>3, ReqSound DEF WatchPoll, Modes, Callers
  <2>4. CASE RecoveryPoll
    BY <1>1, <2>1, <2>4, ReqSound DEF RecoveryPoll, Modes, Callers
  <2>5. ASSUME NEW d \in Devices, Connect(d)
        PROVE  [MS!Next]_(MS!mvars)
    BY <1>1, <2>1, <2>5, ReqSound DEF Connect, CancelGrace, Modes, Callers
  <2>6. CASE mode' = mode /\ stage' = stage /\ restarts' = restarts
    BY <1>1, <2>6
  <2> QED
    BY <1>7, <2>2, <2>3, <2>4, <2>5, <2>6
       DEF Tasks, IdleEntered, Disconnect, Woken
<1>8. CASE Users
  <2>1. ASSUME NEW r, Sound(r), NEW w, NEW rec, Transition(r, w, rec),
               mode' = mode, restarts' = restarts
        PROVE  [MS!Next]_(MS!mvars)
    BY <2>1, TransitionSwitches DEF MS!mvars
  <2>2. CASE ForceEnterCouch \/ WizardExit \/ ShortcutExit
    BY <2>1, <2>2, ReqSound DEF ForceEnterCouch, WizardExit, ShortcutExit,
       ForceExitToDesk, Modes, Callers
  <2>3. CASE ShortcutReleased
    <3>1. mode' = mode /\ restarts' = restarts
      BY <2>3 DEF ShortcutReleased
    <3>2. CASE stage = "acquire" /\ Release
      BY <3>1, <3>2 DEF Release, MS!mvars, Switching, CouchStages, DeskStages
    <3>3. CASE stage = "preexit" /\ Release
      BY <3>1, <3>3, ReleaseEnds DEF MS!Next, DeskStages
    <3> QED
      BY <1>1, <2>3, <3>1, <3>2, <3>3 DEF ShortcutReleased
  <2>4. ASSUME NEW fresh \in BOOLEAN, Restart(fresh)
        PROVE  MS!Restart
    <3>1. mode' \in {"desk", "couch"}
      BY <2>4 DEF Restart, Reconcile, Leftover, Layouts, Modes, IInv, TypeOK
    <3>2. Switching' = "none"
      BY <2>4 DEF Restart, Switching, CouchStages, DeskStages
    <3> QED
      BY <2>4, <3>1, <3>2 DEF Restart, MS!Restart
  <2> QED
    BY <1>1, <1>8, <2>2, <2>3, <2>4 DEF Users, GameExits, PowerOn, PowerOff,
       MS!Next
<1> QED
  BY <1>1, <1>2, <1>3, <1>4, <1>5, <1>6, <1>7, <1>8
     DEF Next, Holder, vars

\* Whatever the callers, timers and hooks do, the mode only changes as
\* ModeSwitch promises: one switch at a time, at most one change in it, to
\* its target, no couch switch in couch mode, and nothing else but a restart.
THEOREM ImplementsModeSwitch == Spec => ModeSwitchSteps
<1>1. IInv /\ [Next]_vars => [MS!Next]_(MS!mvars)
  BY NextSwitches
<1> QED
  BY <1>1, InitMode, AlwaysIInv, PTL DEF Spec, ModeSwitchSteps

-----------------------------------------------------------------------------
(* Ownership.                                                              *)

\* A real owner is a controller, and a pending grace period belongs to the
\* owner or to nobody, as long as the wizard's button hands out no ownership.
OwnerInv ==
  /\ ownerIsReal => owner # None
  /\ grace # None => owner \in {grace, None}

\* Every step preserves the ownership invariant.
LEMMA NextKeepsOwner ==
  ASSUME WizardEnabled = FALSE, IInv, OwnerInv, [Next]_vars
  PROVE  /\ OwnerInv'
         /\ ownerIsReal /\ owner' # owner => owner' = None
         /\ grace # None /\ grace' = None /\ queue' # queue /\ seen' = seen
              => owner \in {grace, None}
<1> USE DEF core, tasks, env, lockvars
<1>1. CASE UNCHANGED <<owner, ownerIsReal, grace>>
  BY <1>1 DEF OwnerInv
<1>2. CASE DeskActivated
  BY <1>2 DEF DeskActivated, ClearSession, SwitchToDesk, OwnerInv
<1>3. CASE GraceElapsed
  BY <1>3 DEF GraceElapsed, StaysForGame, GameStillRunning, OwnerInv
<1>4. ASSUME NEW d \in Devices, Connect(d) \/ Disconnect(d)
      PROVE  /\ OwnerInv'
             /\ ownerIsReal /\ owner' # owner => owner' = None
             /\ seen' # seen
  <2>1. d # None /\ None \notin Devices
    OBVIOUS
  <2>2. seen' # seen
    BY <1>4 DEF Connect, CancelGrace, Disconnect
  <2>3. CASE Connect(d)
    BY <2>1, <2>2, <2>3 DEF Connect, CancelGrace, Adopts, OwnerInv
  <2>4. CASE Disconnect(d)
    BY <2>1, <2>2, <2>4 DEF Disconnect, OwnerInv
  <2> QED
    BY <1>4, <2>2, <2>3, <2>4
<1>5. ASSUME NEW fresh \in BOOLEAN, Restart(fresh)
      PROVE  owner' = None /\ ownerIsReal' = FALSE /\ grace' = None
             /\ (queue' # queue => queue # <<>>)
  BY <1>5 DEF Restart
<1> QED
  BY <1>1, <1>2, <1>3, <1>4, <1>5
     DEF Next, Holder, Tasks, Users, Acquire, PrestartDone, CouchActivated,
     CouchActivationFailed, Launched, PoststartDone, PreexitDone,
     PostexitDone, WatchPoll, IdleEntered, RecoveryPoll, Woken,
     ForceEnterCouch, WizardExit, ForceExitToDesk, ShortcutExit,
     ShortcutReleased, GameExits, PowerOn, PowerOff, OwnerInv, vars

\* So it holds in every reachable state, without the wizard.
LEMMA AlwaysOwnerInv ==
  ASSUME WizardEnabled = FALSE
  PROVE  Spec => [](IInv /\ OwnerInv)
<1>1. Init => OwnerInv
  BY DEF Init, OwnerInv
<1>2. IInv /\ OwnerInv /\ [Next]_vars => OwnerInv'
  BY NextKeepsOwner
<1> QED
  BY <1>1, <1>2, AlwaysIInv, PTL DEF Spec

\* Single ownership: unless the wizard hands the session to its synthetic
\* owner, a controller that owns the session is displaced by nobody.
THEOREM SingleOwner ==
  ASSUME WizardEnabled = FALSE
  PROVE  Spec => OwnerKept
<1>1. IInv /\ OwnerInv /\ [Next]_vars
        => [ownerIsReal /\ owner' # owner => owner' = None]_owner
  BY NextKeepsOwner
<1> QED
  BY <1>1, AlwaysOwnerInv, PTL DEF Spec, OwnerKept

\* Unless the wizard hands out ownership, a grace period never tears down a
\* session of another controller.
THEOREM GraceIsOwners ==
  ASSUME WizardEnabled = FALSE
  PROVE  Spec => LateGraceEndsNothing
<1>1. IInv /\ OwnerInv /\ [Next]_vars
        => [grace # None /\ grace' = None /\ queue' # queue /\ seen' = seen
              => owner \in {grace, None}]_vars
  BY NextKeepsOwner
<1> QED
  BY <1>1, AlwaysOwnerInv, PTL DEF Spec, LateGraceEndsNothing

\* In desk mode a session has an owner only if a couch request is on its way,
\* and a caller that may be cancelled never carries one.
DeskOwnerInv ==
  /\ mode = "desk" /\ owner # None
       => \E i \in DOMAIN queue : queue[i].to = "couch"
  /\ \A i \in DOMAIN queue : queue[i].by = "shortcut" => queue[i].to = "desk"

\* A call of _transition keeps an owned desk explained by a couch call.
LEMMA TransitionKeepsDeskOwner ==
  ASSUME IInv, DeskOwnerInv, mode' = mode, NEW r, Sound(r),
         r.by = "shortcut" => r.to = "desk", NEW w, NEW rec,
         Transition(r, w, rec),
         owner' = owner \/ (mode = "desk" /\ r.to = "couch") \/ mode = "couch"
  PROVE  DeskOwnerInv'
<1>1. queue \in Seq(Request) /\ Len(queue) \in Nat
  BY DEF IInv, TypeOK
<1>2. CASE queue' = queue
  BY <1>1, <1>2 DEF Transition, NoOp, DeskOwnerInv, Sound
<1>3. CASE queue = <<>> /\ queue' = <<r>>
  <2>1. DOMAIN queue' = {1} /\ queue'[1] = r /\ DOMAIN queue = {}
    BY <1>3
  <2> QED
    BY <2>1 DEF DeskOwnerInv
<1>4. CASE queue' = Append(queue, r)
  <2>1. /\ DOMAIN queue' = 1 .. Len(queue) + 1
        /\ DOMAIN queue = 1 .. Len(queue)
        /\ queue'[Len(queue) + 1] = r
        /\ \A i \in DOMAIN queue : queue'[i] = queue[i]
    BY <1>1, <1>4 DEF Sound
  <2>2. /\ Len(queue) + 1 \in DOMAIN queue'
        /\ \A i \in DOMAIN queue : i \in DOMAIN queue'
        /\ \A i \in DOMAIN queue' : i = Len(queue) + 1 \/ i \in DOMAIN queue
    BY <1>1, <2>1
  <2> QED
    BY <2>1, <2>2 DEF DeskOwnerInv
<1> QED
  BY <1>2, <1>3, <1>4 DEF Transition, lockvars

\* Releasing the lock keeps it, unless a couch call returns to the desk.
LEMMA ReleaseKeepsDeskOwner ==
  ASSUME IInv, DeskOwnerInv, mode' = mode, owner' = owner, queue # <<>>,
         Release, mode = "desk" => Head(queue).to = "desk"
  PROVE  DeskOwnerInv'
<1>1. queue \in Seq(Request) /\ Len(queue) \in Nat \ {0}
  BY DEF IInv, TypeOK
<1>2. /\ DOMAIN queue' = 1 .. Len(queue) - 1
      /\ DOMAIN queue = 1 .. Len(queue)
      /\ Head(queue) = queue[1]
      /\ \A i \in DOMAIN queue' : queue'[i] = queue[i + 1]
  BY <1>1 DEF Release
<1>3. \A i \in DOMAIN queue' : i + 1 \in DOMAIN queue
  BY <1>1, <1>2
<1>4. \A i \in DOMAIN queue : i # 1 =>
        i - 1 \in DOMAIN queue' /\ queue'[i - 1] = queue[i]
  BY <1>1, <1>2
<1> QED
  BY <1>2, <1>3, <1>4 DEF DeskOwnerInv

\* Removing a waiter leaves every other call in the queue.
LEMMA WithoutKeepsOthers ==
  ASSUME NEW S, NEW s \in Seq(S), NEW i \in DOMAIN s, i > 1,
         NEW k \in DOMAIN s, k # i
  PROVE  \E j \in DOMAIN Without(s, i) : Without(s, i)[j] = s[k]
<1>1. /\ Len(s) \in Nat /\ i \in 1 .. Len(s) /\ k \in 1 .. Len(s)
  BY LenProperties
<1>2. DOMAIN Without(s, i) = 1 .. Len(s) - 1
  BY DEF Without
<1>3. CASE k < i
  BY <1>1, <1>2, <1>3 DEF Without
<1>4. CASE k > i
  <2>1. k - 1 \in 1 .. Len(s) - 1 /\ ~(k - 1 < i) /\ (k - 1) + 1 = k
    BY <1>1, <1>4
  <2>2. Without(s, i)[k - 1] = s[k]
    BY <2>1 DEF Without
  <2> QED
    BY <1>2, <2>1, <2>2
<1> QED
  BY <1>1, <1>3, <1>4

\* Every step keeps it, as long as a display switch does not fail.
LEMMA NextKeepsDeskOwner ==
  ASSUME DisplayMayFail = FALSE, IInv, DeskOwnerInv, [Next]_vars
  PROVE  DeskOwnerInv'
<1> USE DEF core, tasks, env, lockvars
<1>q. queue \in Seq(Request) /\ mode \in Modes
  BY DEF IInv, TypeOK
<1>1. CASE UNCHANGED <<mode, owner, queue>>
  BY <1>1 DEF DeskOwnerInv
<1>2. CASE Acquire
  <2>1. NoOp(Head(queue)) /\ Release => queue # <<>>
    BY <1>2 DEF Acquire, IInv, LockDiscipline
  <2> QED
    BY <1>1, <1>2, <2>1, ReleaseKeepsDeskOwner DEF Acquire, NoOp
<1>3. CASE CouchActivated
  BY <1>3 DEF CouchActivated, DeskOwnerInv
<1>4. CASE DeskActivated
  BY <1>4 DEF DeskActivated, ClearSession, SwitchToDesk, DeskOwnerInv
<1>5. CASE PoststartDone \/ PostexitDone
  BY <1>5, ReleaseKeepsDeskOwner DEF PoststartDone, PostexitDone, IInv,
     LockDiscipline, DeskStages
<1>6. CASE GraceElapsed \/ WatchPoll \/ RecoveryPoll
  <2>1. mode' = mode /\ owner' = owner
    BY <1>6 DEF GraceElapsed, StaysForGame, GameStillRunning, WatchPoll, RecoveryPoll
  <2>2. \A by \in Callers, force \in BOOLEAN :
          /\ Sound(Req("desk", by, force))
          /\ Req("desk", by, force).to = "desk"
    BY ReqSound DEF Modes, Req
  <2>3. ASSUME NEW by \in Callers, NEW force \in BOOLEAN, NEW w, NEW rec,
               Transition(Req("desk", by, force), w, rec)
        PROVE  DeskOwnerInv'
    BY <2>1, <2>2, <2>3, TransitionKeepsDeskOwner
  <2> QED
    BY <1>1, <1>6, <2>1, <2>3 DEF GraceElapsed, StaysForGame, GameStillRunning, WatchPoll, RecoveryPoll, Callers
<1>7. ASSUME NEW d \in Devices, Connect(d)
      PROVE  DeskOwnerInv'
  <2>1. mode' = mode
    BY <1>7 DEF Connect, CancelGrace
  <2>2. CASE mode = "desk" /\ Transition(Req("couch", "event", FALSE), watch, recovery)
    <3>1. /\ Sound(Req("couch", "event", FALSE))
          /\ Req("couch", "event", FALSE).to = "couch"
          /\ Req("couch", "event", FALSE).by = "event"
      BY ReqSound DEF Req, Modes, Callers
    <3> QED
      BY <2>1, <2>2, <3>1, TransitionKeepsDeskOwner
  <2>3. CASE owner' # d /\ UNCHANGED lockvars
    BY <1>7, <2>1, <2>3 DEF Connect, CancelGrace, Adopts, DeskOwnerInv
  <2>4. CASE mode = "couch" /\ UNCHANGED lockvars
    BY <2>1, <2>4 DEF DeskOwnerInv
  <2> QED
    BY <1>7, <2>2, <2>3, <2>4 DEF Connect, CancelGrace
<1>8. CASE ForceEnterCouch
  <2>1. /\ Sound(Req("couch", "wizard", FALSE))
        /\ Req("couch", "wizard", FALSE).to = "couch"
        /\ Req("couch", "wizard", FALSE).by = "wizard"
    BY ReqSound DEF Req, Modes, Callers
  <2>2. mode = "desk" /\ mode' = mode
    BY <1>8, <1>q DEF ForceEnterCouch, Modes
  <2> QED
    BY <1>8, <2>1, <2>2, TransitionKeepsDeskOwner DEF ForceEnterCouch
<1>9. CASE WizardExit \/ ShortcutExit
  <2>1. PICK by \in Callers : ForceExitToDesk(by)
    BY <1>9 DEF WizardExit, ShortcutExit, Callers
  <2>2. /\ Sound(Req("desk", by, FALSE))
        /\ Req("desk", by, FALSE).to = "desk"
    BY ReqSound DEF Modes, Req
  <2> QED
    BY <2>1, <2>2, TransitionKeepsDeskOwner DEF ForceExitToDesk
<1>10. CASE ShortcutReleased
  <2>1. PICK i \in DOMAIN queue :
          /\ queue[i].by = "shortcut"
          /\ \/ i = 1 /\ stage \in {"acquire", "preexit"} /\ Release
             \/ i > 1 /\ queue' = Without(queue, i) /\ UNCHANGED stage
          /\ UNCHANGED <<core, tasks, env>>
    BY <1>10 DEF ShortcutReleased
  <2>2. queue[i].to = "desk" /\ mode' = mode /\ owner' = owner
    BY <2>1 DEF DeskOwnerInv
  <2>3. CASE i = 1 /\ Release
    <3>1. queue # <<>> /\ Head(queue) = queue[1]
      BY <1>q, <2>3
    <3> QED
      BY <2>2, <2>3, <3>1, ReleaseKeepsDeskOwner
  <2>4. CASE i > 1 /\ queue' = Without(queue, i)
    <3>1. \A j \in DOMAIN queue' : \E k \in DOMAIN queue : queue'[j] = queue[k]
      BY <1>q, <2>4, WithoutWaiter
    <3>2. \A k \in DOMAIN queue :
            k # i => \E j \in DOMAIN queue' : queue'[j] = queue[k]
      BY <1>q, <2>4, WithoutKeepsOthers
    <3> QED
      BY <2>2, <3>1, <3>2 DEF DeskOwnerInv
  <2> QED
    BY <2>1, <2>3, <2>4
<1>11. ASSUME NEW fresh \in BOOLEAN, Restart(fresh)
       PROVE  DeskOwnerInv'
  BY <1>11 DEF Restart, DeskOwnerInv
<1> QED
  BY <1>1, <1>2, <1>3, <1>4, <1>5, <1>6, <1>7, <1>8, <1>9, <1>10, <1>11
     DEF Next, Holder, Tasks, Users, PrestartDone, CouchActivationFailed,
     Launched, PreexitDone, IdleEntered, Disconnect, Woken, GameExits,
     PowerOn, PowerOff, vars

\* As long as display switches take, an owner in desk mode is one whose couch
\* request is on its way: between transitions nobody owns the desk, so the
\* next controller to connect always becomes the owner.
THEOREM DeskIsFree ==
  ASSUME DisplayMayFail = FALSE
  PROVE  Spec => []DeskHasNoOwner
<1>1. Init => DeskOwnerInv
  BY DEF Init, DeskOwnerInv
<1>2. IInv /\ DeskOwnerInv /\ [Next]_vars => DeskOwnerInv'
  BY NextKeepsDeskOwner
<1>3. DeskOwnerInv => DeskHasNoOwner
  BY DEF DeskOwnerInv, DeskHasNoOwner
<1> QED
  BY <1>1, <1>2, <1>3, AlwaysIInv, PTL DEF Spec

-----------------------------------------------------------------------------
(* What a session and the desk look like between transitions.              *)

Ending == \E i \in DOMAIN queue : queue[i].to = "desk"

\* A session without its watch is being started or is about to end, and nobody
\* cancels the call that will end it.
WatchedInv ==
  /\ mode = "couch" /\ watch = "none" /\ restarts = 0
       => stage \in {"launching", "poststart"} \/ Ending
  /\ \A i \in DOMAIN queue : queue[i].by # "shortcut"

\* A call of _transition leaves the watch alone, or ends the session.
LEMMA TransitionKeepsWatched ==
  ASSUME IInv, WatchedInv, mode' = mode, restarts' = restarts, NEW r, Sound(r),
         r.by # "shortcut", NEW w, NEW rec, Transition(r, w, rec),
         w = watch \/ r.to = "desk"
  PROVE  WatchedInv'
<1>1. queue \in Seq(Request) /\ Len(queue) \in Nat /\ mode \in Modes
  BY DEF IInv, TypeOK
<1>2. CASE queue = <<>> /\ NoOp(r) /\ watch' = w /\ UNCHANGED lockvars
  BY <1>2 DEF WatchedInv, Ending, NoOp, lockvars
<1>3. CASE queue = <<>> /\ ~NoOp(r) /\ queue' = <<r>>
  <2>1. mode = "couch" => r.to = "desk"
    BY <1>3 DEF NoOp, Sound, Request, Modes
  <2>2. DOMAIN queue' = {1} /\ queue'[1] = r
    BY <1>3
  <2> QED
    BY <2>1, <2>2 DEF WatchedInv, Ending
<1>4. CASE queue' = Append(queue, r) /\ watch' = w /\ UNCHANGED stage
  <2>1. /\ DOMAIN queue' = 1 .. Len(queue) + 1
        /\ DOMAIN queue = 1 .. Len(queue)
        /\ queue'[Len(queue) + 1] = r
        /\ \A i \in DOMAIN queue : queue'[i] = queue[i]
    BY <1>1, <1>4 DEF Sound
  <2>2. /\ Len(queue) + 1 \in DOMAIN queue'
        /\ \A i \in DOMAIN queue : i \in DOMAIN queue'
        /\ \A i \in DOMAIN queue' : i = Len(queue) + 1 \/ i \in DOMAIN queue
    BY <1>1, <2>1
  <2> QED
    BY <1>4, <2>1, <2>2 DEF WatchedInv, Ending
<1> QED
  BY <1>2, <1>3, <1>4 DEF Transition

\* The holder that returns leaves a watch behind, or was not the one to end the
\* session.
LEMMA ReleaseKeepsWatched ==
  ASSUME IInv, WatchedInv, mode' = mode, restarts' = restarts, queue # <<>>, Release,
         \/ watch' # "none"
         \/ /\ watch' = watch /\ stage \notin {"launching", "poststart"}
            /\ mode = "couch" => Head(queue).to # "desk"
  PROVE  WatchedInv'
<1>1. queue \in Seq(Request) /\ Len(queue) \in Nat \ {0}
  BY DEF IInv, TypeOK
<1>2. /\ DOMAIN queue' = 1 .. Len(queue) - 1
      /\ DOMAIN queue = 1 .. Len(queue)
      /\ Head(queue) = queue[1]
      /\ \A i \in DOMAIN queue' : queue'[i] = queue[i + 1]
  BY <1>1 DEF Release
<1>3. \A i \in DOMAIN queue' : i + 1 \in DOMAIN queue
  BY <1>1, <1>2
<1>4. \A i \in DOMAIN queue : i # 1 =>
        i - 1 \in DOMAIN queue' /\ queue'[i - 1] = queue[i]
  BY <1>1, <1>2
<1> QED
  BY <1>2, <1>3, <1>4 DEF WatchedInv, Ending

LEMMA NextKeepsWatched ==
  ASSUME ShortcutEnabled = FALSE, IInv, WatchedInv, [Next]_vars
  PROVE  WatchedInv'
<1> USE DEF core, tasks, env, lockvars
<1>q. /\ queue \in Seq(Request) /\ mode \in Modes /\ restarts \in Nat
      /\ stage # "free" => queue # <<>>
  BY DEF IInv, TypeOK, LockDiscipline
<1>1. CASE UNCHANGED <<mode, queue, stage, restarts>> /\ (watch' = "none" => watch = "none")
  BY <1>1 DEF WatchedInv, Ending
<1>2. CASE Acquire
  <2>1. queue # <<>>
    BY <1>2, <1>q DEF Acquire
  <2>2. CASE NoOp(Head(queue)) /\ Release
    BY <1>2, <2>1, <2>2, ReleaseKeepsWatched DEF Acquire, NoOp
  <2>3. CASE ~NoOp(Head(queue)) /\ UNCHANGED queue
    <3>1. 1 \in DOMAIN queue /\ Head(queue) = queue[1] /\ queue[1] \in Request
      BY <1>q, <2>1
    <3>2. mode = "couch" => queue[1].to = "desk"
      BY <2>3, <3>1 DEF NoOp, IInv, LockDiscipline, Request, Modes
    <3> QED
      BY <1>2, <2>3, <3>1, <3>2 DEF Acquire, WatchedInv, Ending
  <2> QED
    BY <1>2, <2>2, <2>3 DEF Acquire
<1>3. CASE PoststartDone
  BY <1>3, <1>q, ReleaseKeepsWatched DEF PoststartDone
<1>4. CASE CouchActivationFailed \/ PostexitDone
  BY <1>4, <1>q, ReleaseKeepsWatched DEF CouchActivationFailed, PostexitDone, IInv,
     LockDiscipline
<1>5. CASE PrestartDone \/ CouchActivated \/ Launched \/ PreexitDone \/ DeskActivated
  BY <1>5 DEF PrestartDone, CouchActivated, Launched, PreexitDone, DeskActivated,
     ClearSession, SwitchToDesk, WatchedInv, Ending, IInv, LockDiscipline
<1>6. ASSUME NEW to \in Modes, NEW by \in Callers \ {"shortcut"}, NEW force \in BOOLEAN,
             force => to = "desk", NEW w, NEW rec, w = watch \/ to = "desk",
             Transition(Req(to, by, force), w, rec),
             UNCHANGED <<mode, restarts>>
      PROVE  WatchedInv'
  <2>1. Sound(Req(to, by, force)) /\ Req(to, by, force).to = to
        /\ Req(to, by, force).by # "shortcut"
    BY <1>6, ReqSound DEF Req
  <2> QED
    BY <1>6, <2>1, TransitionKeepsWatched
<1>7. CASE GraceElapsed \/ WatchPoll \/ RecoveryPoll
  BY <1>1, <1>6, <1>7 DEF GraceElapsed, StaysForGame, GameStillRunning, WatchPoll,
     WatchPresence, RecoveryPoll, Callers, Modes
<1>8. ASSUME NEW d \in Devices, Connect(d)
      PROVE  WatchedInv'
  BY <1>1, <1>6, <1>8 DEF Connect, CancelGrace, Callers, Modes
<1>9. CASE ForceEnterCouch \/ WizardExit
  BY <1>6, <1>9 DEF ForceEnterCouch, WizardExit, ForceExitToDesk, Callers, Modes
<1>10. CASE ShortcutExit \/ ShortcutReleased
  BY <1>10 DEF ShortcutExit, ShortcutReleased, WatchedInv
<1>11. ASSUME NEW fresh \in BOOLEAN, Restart(fresh)
       PROVE  WatchedInv'
  BY <1>11, <1>q DEF Restart, WatchedInv
<1>12. CASE IdleEntered
  BY <1>1, <1>12 DEF IdleEntered
<1> QED
  BY <1>1, <1>2, <1>3, <1>4, <1>5, <1>7, <1>8, <1>9, <1>10, <1>11, <1>12
     DEF Next, Holder, Tasks, Users, Disconnect, Woken, GameExits, PowerOn, PowerOff, vars

\* Without the shortcut, every couch session the daemon has started keeps its
\* owner watch until the transition that ends it: who cancels the watch is a
\* transition that starts it again or ends the session (_transition,
\* _owner_watch_loop).  Letting go of the shortcut can cancel such a transition.
THEOREM EverySessionWatched ==
  ASSUME ShortcutEnabled = FALSE
  PROVE  Spec => []SessionWatched
<1>1. Init => WatchedInv
  BY DEF Init, WatchedInv
<1>2. IInv /\ WatchedInv /\ [Next]_vars => WatchedInv'
  BY NextKeepsWatched
<1>3. IInv /\ WatchedInv => SessionWatched
  BY DEF IInv, LockDiscipline, WatchedInv, Ending, SessionWatched
<1> QED
  BY <1>1, <1>2, <1>3, AlwaysIInv, PTL DEF Spec

\* Where displays do what they are told, desk mode shows the desk layout, also
\* while calls of _transition wait or run, until the daemon restarts.
THEOREM DeskIsShown ==
  ASSUME DisplayMayFail = FALSE
  PROVE  Spec => []DeskShowsDesk
<1> DEFINE Shown == mode = "desk" /\ restarts = 0 => layout = "desk"
<1>1. Init => Shown
  BY DEF Init
<1>2. IInv /\ Shown /\ [Next]_vars => Shown'
  <2> SUFFICES ASSUME IInv, Shown, [Next]_vars PROVE Shown'
    OBVIOUS
  <2> USE DEF core, tasks, env, lockvars
  <2>1. CASE UNCHANGED <<mode, layout, restarts>>
    BY <2>1
  <2>2. CASE CouchActivated \/ DeskActivated
    BY <2>2 DEF CouchActivated, DeskActivated, SwitchToDesk
  <2>3. ASSUME NEW fresh \in BOOLEAN, Restart(fresh) PROVE Shown'
    BY <2>3 DEF Restart, IInv, TypeOK
  <2> QED
    BY <2>1, <2>2, <2>3 DEF Next, Holder, Tasks, Users, Acquire, PrestartDone,
       CouchActivationFailed, Launched, PoststartDone, PreexitDone, PostexitDone,
       GraceElapsed, WatchPoll, IdleEntered, RecoveryPoll, Connect, CancelGrace,
       Disconnect, Woken, ForceEnterCouch, WizardExit, ShortcutExit, ForceExitToDesk,
       ShortcutReleased, GameExits, PowerOn, PowerOff, vars
<1>3. Shown => DeskShowsDesk
  BY DEF DeskShowsDesk
<1> QED
  BY <1>1, <1>2, <1>3, AlwaysIInv, PTL DEF Spec
=============================================================================
