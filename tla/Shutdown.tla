------------------------------ MODULE Shutdown ------------------------------
(***************************************************************************)
(* The shutdown watcher of shutdown_watcher.py on top of StateMachine: it  *)
(* holds logind's shutdown inhibitor, tears a live couch session down when *)
(* a shutdown starts, bounds that teardown by a timeout, and lets go of    *)
(* the inhibitor.  logind delays the shutdown while the inhibitor is held  *)
(* (its own limit is longer than the watcher's timeout).                   *)
(***************************************************************************)
EXTENDS StateMachine

CONSTANT MaxSignals  \* bound: PrepareForShutdown signals

ASSUME ShutdownAssumption == MaxSignals \in Nat

VARIABLES
  watcher,   \* ShutdownWatcher.run: see WatcherStates
  signals,   \* PrepareForShutdown signals on their way to the watcher
  sent,      \* signals so far
  power,     \* "up", "stopping" (the signal is out), or "off"
  doomed,    \* the session that was live when the watcher looked still is
  timedOut   \* the teardown was given up

shutvars == <<watcher, signals, sent, power, doomed, timedOut>>
allvars == <<vars, shutvars>>

\* "start" awaits the inhibitor; "deaf" holds it and is not yet subscribed to
\* the signal, "armed" awaits one, "tearing" awaits the teardown; "refused"
\* and "done" have returned.
WatcherStates == {"start", "deaf", "armed", "tearing", "refused", "done"}

Listening == watcher \in {"armed", "tearing"}
Holding == Listening \/ watcher = "deaf"  \* the inhibitor lock
Mine(r) == r.by = "shutdown"

-----------------------------------------------------------------------------
(* ShutdownWatcher.run.                                                    *)

\* acquire_shutdown_inhibitor: logind may be unreachable or refuse.
AcquireInhibitor ==
  /\ watcher = "start" /\ power # "off"
  /\ watcher' \in {"deaf", "refused"}
  /\ UNCHANGED <<vars, signals, sent, power, doomed, timedOut>>

\* watch_prepare_for_shutdown: AddMatch is answered.
Subscribe ==
  /\ watcher = "deaf" /\ power # "off"
  /\ watcher' = "armed"
  /\ UNCHANGED <<vars, signals, sent, power, doomed, timedOut>>

\* Mutant of HandleSignal: the teardown is not awaited.
HandleSignalNoWait ==
  /\ watcher = "armed" /\ signals # <<>>
  /\ signals' = Tail(signals)
  /\ watcher' = IF Head(signals) THEN "done" ELSE "armed"
  /\ doomed' = (Head(signals) /\ mode = "couch")
  /\ IF doomed' THEN ForceExitToDesk("shutdown") ELSE UNCHANGED vars
  /\ UNCHANGED <<sent, power, timedOut>>

\* One signal: FALSE is skipped; TRUE in couch mode calls force_exit_to_desk,
\* in desk mode it is the end.
HandleSignal ==
  /\ watcher = "armed" /\ signals # <<>>
  /\ signals' = Tail(signals)
  /\ \/ ~Head(signals) /\ UNCHANGED <<vars, watcher, doomed>>
     \/ /\ Head(signals) /\ mode = "desk"
        /\ watcher' = "done"
        /\ UNCHANGED <<vars, doomed>>
     \/ /\ Head(signals)
        /\ ForceExitToDesk("shutdown")
        /\ watcher' = "tearing" /\ doomed' = TRUE
  /\ UNCHANGED <<sent, power, timedOut>>

\* force_exit_to_desk returned in time: the inhibitor is released.
TeardownDone ==
  /\ watcher = "tearing"
  /\ \A i \in DOMAIN queue : ~Mine(queue[i])
  /\ watcher' = "done"
  /\ UNCHANGED <<vars, signals, sent, power, doomed, timedOut>>

\* Mutant of TeardownTimesOut: there is no timeout.
TeardownNeverTimesOut == FALSE /\ UNCHANGED allvars

\* wait_for gives up and cancels the call wherever it is: waiting for the
\* lock, or in any of the hooks it runs, which frees the lock.
TeardownTimesOut ==
  /\ watcher = "tearing"
  /\ \E i \in DOMAIN queue :
       /\ Mine(queue[i])
       /\ IF i = 1 THEN Release
                   ELSE queue' = Without(queue, i) /\ UNCHANGED stage
  /\ layout' \in IF stage = "deactivating" /\ Mine(Head(queue))
                 THEN Layouts ELSE {layout}
  /\ watcher' = "done" /\ timedOut' = TRUE
  /\ UNCHANGED <<core, tasks, game, present, seen, restarts,
                 signals, sent, power, doomed>>

-----------------------------------------------------------------------------
(* logind.                                                                 *)

Signal(b) ==
  /\ sent < MaxSignals
  /\ sent' = sent + 1
  /\ signals' = IF Listening THEN Append(signals, b) ELSE signals
  /\ UNCHANGED <<vars, watcher, doomed, timedOut>>

PrepareForShutdown == power = "up" /\ power' = "stopping" /\ Signal(TRUE)

ShutdownCancelled == power = "stopping" /\ power' = "up" /\ Signal(FALSE)

\* The delay is over once nobody holds an inhibitor, or after
\* InhibitDelayMaxSec, when a watcher that heard of the shutdown has long
\* given up.
PowerOffMachine ==
  /\ power = "stopping"
  /\ Listening => watcher = "armed" /\ signals = <<>>
  /\ power' = "off"
  /\ UNCHANGED <<vars, watcher, signals, sent, doomed, timedOut>>

-----------------------------------------------------------------------------
SInit ==
  /\ Init
  /\ watcher = "start" /\ signals = <<>> /\ sent = 0
  /\ power = "up" /\ doomed = FALSE /\ timedOut = FALSE

\* The daemon dies with everything in it: the kernel closes the inhibitor.
RestartWatcher(fresh) ==
  /\ power # "off"
  /\ Restart(fresh)
  /\ watcher' = "start" /\ signals' = <<>>
  /\ doomed' = FALSE
  /\ UNCHANGED <<sent, power, timedOut>>

\* Any other step of the daemon or of its world.
Rest ==
  /\ power # "off"
  /\ Next /\ UNCHANGED restarts
  /\ doomed' = (doomed /\ mode' = "couch")
  /\ UNCHANGED <<watcher, signals, sent, power, timedOut>>

SNext ==
  \/ AcquireInhibitor \/ Subscribe \/ HandleSignal \/ TeardownDone \/ TeardownTimesOut
  \/ PrepareForShutdown \/ ShutdownCancelled \/ PowerOffMachine
  \/ Rest
  \/ \E fresh \in BOOLEAN : RestartWatcher(fresh)

\* activate_desk, run for the watcher: nothing makes it return in time.
OwnTeardown == stage = "deactivating" /\ Mine(Head(queue))

\* The watcher is a task of the running loop, wait_for's timer fires, other
\* callers' hooks return, and the machine goes down when nothing delays it.
\* A signal is handled although the bound on calls in flight may hold it up
\* now and then.
SFairness ==
  /\ WF_allvars(AcquireInhibitor) /\ SF_allvars(HandleSignal)
  /\ WF_allvars(TeardownDone) /\ WF_allvars(TeardownTimesOut)
  /\ WF_allvars(PowerOffMachine)
  /\ WF_allvars(Holder /\ Rest /\ ~OwnTeardown)

SSpec == SInit /\ [][SNext]_allvars
FairSSpec == SSpec /\ SFairness

-----------------------------------------------------------------------------
STypeOK ==
  /\ TypeOK
  /\ watcher \in WatcherStates
  /\ signals \in Seq(BOOLEAN) /\ Len(signals) <= sent
  /\ sent \in 0 .. MaxSignals
  /\ power \in {"up", "stopping", "off"}
  /\ doomed \in BOOLEAN /\ timedOut \in BOOLEAN

\* "Tears down a live couch session to desk BEFORE the system actually powers
\* off": a session that was live when the shutdown was noticed is over when
\* the machine goes down, unless its teardown ran into the timeout.
TornDownBeforePowerOff == power = "off" /\ doomed => timedOut

\* "A slow CEC negotiation here can never hang the actual shutdown": every
\* shutdown that is not cancelled goes through, whatever the hooks do.
ShutdownNeverHangs == power = "stopping" ~> power # "stopping"

\* "The single inhibitor lock [is] held across any number of cancel/retry
\* cycles": after a cancelled shutdown the next one is still delayed.
ProtectedAfterCancel ==
  power = "up" /\ sent > 0 /\ signals = <<>> => watcher # "done"

\* "So the bad state never gets left behind": when the inhibitor is let go,
\* the displays show the desk and no couch activation is under way.
ReleasedAtDesk ==
  [][Holding /\ watcher' = "done" /\ ~timedOut'
       => layout = "desk" /\ stage \notin CouchStages]_allvars
=============================================================================
