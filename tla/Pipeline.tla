------------------------------ MODULE Pipeline ------------------------------
(***************************************************************************)
(* The device event path run_daemon builds: watchers -> Debouncer.feed ->  *)
(* ActivityGate.handle -> _forward_to_state_machine.  Settling, the gate   *)
(* and the auto-switch check are one step: nothing on that path suspends   *)
(* before the state machine's own handler.                                 *)
(*                                                                         *)
(* Two watchers feed it without knowing of each other: the observer of     *)
(* Udev, late and by way of another thread, and the hidraw watcher, here   *)
(* by what it promises (Hidraw.tla): it tells when a controller it can     *)
(* name starts and stops sending.                                          *)
(***************************************************************************)
EXTENDS Udev

CONSTANTS
  FreshBoot,       \* the machine booted with the daemon
  PromptSettling,  \* early signals settle before the startup grace is over
  PromptDelivery,  \* announcements arrive before a timer of seconds runs out
  MaxToggles       \* bound: auto-switch toggles

ASSUME PipelineAssumption ==
  /\ {FreshBoot, PromptSettling, PromptDelivery} \subseteq BOOLEAN
  /\ MaxToggles \in Nat

VARIABLES
  lastStable, pending,                            \* Debounce
  pastGrace, witnessed, holding, told, withheld,  \* ActivityGate
  sending,  \* controllers that are switched on, of those hidraw can watch
  live,     \* the hidraw watcher's view of them
  use,      \* "plugged" in or seen "sent"-ing, the later, since the daemon started
  early,    \* ids whose first signal came within the startup grace
  auto,     \* auto_switch_enabled in config.toml
  heard,    \* the last event of each id the state machine got
  toggles   \* auto-switch toggles so far

Deb == INSTANCE Debounce WITH Devices <- Ids
Gate == INSTANCE ActivityGate WITH Controllers <- Ids

dvars == <<lastStable, pending>>
gatevars == <<pastGrace, witnessed, holding, told, withheld>>
pads == <<sending, live, use>>
pvars == <<uvars, dvars, gatevars, pads, early, auto, heard, toggles>>

Init ==
  /\ UInit /\ Deb!DInit /\ Gate!GInit
  /\ sending \in SUBSET (attached \cap named)
  /\ live = {}
  /\ use = [c \in Controllers |-> "none"]
  /\ early = {}
  /\ auto \in BOOLEAN
  /\ heard = [d \in Ids |-> "none"]
  /\ toggles = 0

Plug(c) ==
  /\ PlugIn(c)
  /\ use' = [use EXCEPT ![c] = "plugged"]
  /\ UNCHANGED <<dvars, gatevars, sending, live, early, auto, heard, toggles>>

Unplug(c) ==
  /\ PullOut(c)
  /\ sending' = sending \ {c}
  /\ UNCHANGED <<dvars, gatevars, live, use, early, auto, heard, toggles>>

Power(c) ==
  /\ c \in attached \cap named
  /\ sending' = (sending \cup {c}) \ (sending \cap {c})
  /\ UNCHANGED <<uvars, dvars, gatevars, live, use, early, auto, heard, toggles>>

Trigger(c) ==
  /\ Retrigger(c)
  /\ UNCHANGED <<dvars, gatevars, pads, early, auto, heard, toggles>>

Observe ==
  /\ OnUdevEvent
  /\ UNCHANGED <<dvars, gatevars, pads, early, auto, heard, toggles>>

\* A raw event reaches the debouncer.
Raw(id, kind) ==
  /\ Deb!Feed(id, kind)
  /\ early' = IF pastGrace THEN early ELSE early \cup {id}
  /\ UNCHANGED <<gatevars, auto, heard, toggles>>

\* The loop runs what the observer's thread handed to it.
Deliver ==
  /\ handed # <<>>
  /\ handed' = Tail(handed)
  /\ Raw(Head(handed).id, Head(handed).kind)
  /\ UNCHANGED <<named, attached, netlink, resolved, pads>>

HidrawAdd(c) ==
  /\ c \in sending \ live
  /\ live' = live \cup {c}
  /\ use' = [use EXCEPT ![c] = "sent"]
  /\ Raw(c, "connected")
  /\ UNCHANGED <<uvars, sending>>

\* After seconds of silence.
HidrawRemove(c) ==
  /\ c \in live \ sending
  /\ PromptDelivery => Quiet(c)
  /\ live' = live \ {c}
  /\ Raw(c, "disconnected")
  /\ UNCHANGED <<uvars, sending, use>>

\* The settled event goes through the gate, and what the gate hands on
\* reaches the state machine if auto-switch is enabled right now.
SettleAndForward(d) ==
  /\ PromptDelivery => Quiet(d)
  /\ Deb!Settle(d)
  /\ Gate!Handle(d, pending[d])
  /\ heard' = IF auto /\ d \notin withheld'
              THEN [heard EXCEPT ![d] = pending[d]] ELSE heard
  /\ UNCHANGED <<uvars, pads, early, auto, toggles>>

GraceEnds ==
  /\ PromptSettling => \A d \in early : lastStable[d] # "unknown"
  /\ Gate!GraceEnds
  /\ UNCHANGED <<uvars, dvars, pads, early, auto, heard, toggles>>

GiveUp(d) ==
  /\ Gate!GiveUp(d)
  /\ UNCHANGED <<uvars, dvars, pads, early, auto, heard, toggles>>

\* The tray or the wizard flips auto-switch.
ToggleAutoSwitch ==
  /\ toggles < MaxToggles
  /\ auto' = ~auto
  /\ toggles' = toggles + 1
  /\ UNCHANGED <<uvars, dvars, gatevars, pads, early, heard>>

Next ==
  \/ Observe \/ Deliver \/ GraceEnds \/ ToggleAutoSwitch
  \/ \E c \in Controllers :
       Plug(c) \/ Unplug(c) \/ Power(c) \/ Trigger(c)
       \/ HidrawAdd(c) \/ HidrawRemove(c)
  \/ \E d \in Ids : SettleAndForward(d) \/ GiveUp(d)

\* The thread and the loop run, timers run out, and a controller that goes on
\* sending, or stays silent, is noticed.
Fairness ==
  /\ WF_pvars(Observe) /\ WF_pvars(Deliver) /\ WF_pvars(GraceEnds)
  /\ \A c \in Controllers : WF_pvars(HidrawAdd(c)) /\ WF_pvars(HidrawRemove(c))
  /\ \A d \in Ids : WF_pvars(SettleAndForward(d)) /\ WF_pvars(GiveUp(d))

Spec == Init /\ [][Next]_pvars
FairSpec == Spec /\ Fairness

-----------------------------------------------------------------------------
TypeOK ==
  /\ UTypeOK
  /\ lastStable \in [Ids -> Deb!Kinds \cup {"unknown"}]
  /\ pending \in [Ids -> Deb!Kinds \cup {"none"}]
  /\ pastGrace \in BOOLEAN /\ auto \in BOOLEAN
  /\ witnessed \subseteq Ids /\ holding \subseteq Ids /\ withheld \subseteq Ids
  /\ told \in [Ids -> Deb!Kinds \cup {"none"}]
  /\ heard \in [Ids -> Deb!Kinds \cup {"none"}]
  /\ sending \subseteq attached \cap named /\ live \subseteq named
  /\ use \in [Controllers -> {"none", "plugged", "sent"}]
  /\ early \subseteq Ids /\ toggles \in 0 .. MaxToggles

\* A device whose first signal arrives within the startup grace is held, not
\* just until the grace is over: the state machine hears of its connect only
\* once it was seen disconnecting (module docstring of activity_gate.py).  That
\* is enough, whatever the clock says: a connect that settles after a settled
\* disconnect is always handed on.
HeldUntilPowerCycle ==
  /\ ~FreshBoot =>
       \A d \in early : heard[d] = "connected" => d \in witnessed
  /\ \A d \in witnessed : lastStable[d] = "connected" => told[d] = "connected"

\* What the state machine hears connecting is a controller somebody plugged in
\* or used since the daemon started: not the second id of an input node that
\* lost its parent, and not what the package manager retriggers (the parent's
\* id and the "change" events of _on_udev_event in detect.py).
OnlyPlayersHeard ==
  \A d \in Ids : heard[d] = "connected" => d \in Controllers /\ use[d] # "none"

\* In use: attached and, where reports can be watched, sending.  Fallen silent:
\* attached, but no longer sending though the watcher saw it send.
InUse(c) == IF c \in named THEN c \in sending ELSE c \in attached /\ use[c] # "none"
FellSilent(c) == c \in attached /\ use[c] = "sent" /\ c \notin sending

\* However announcements and reports were ordered, once a controller stays in
\* use or gone the state machine has heard so, or the gate is withholding it.
\* Auto-switch is left on: an event dropped while it is off is never delivered
\* again.
FollowsController ==
  []auto =>
    \A c \in Controllers :
      /\ <>[]InUse(c) => <>[](heard[c] = "connected" \/ c \in withheld)
      /\ <>[](c \notin attached) => <>[](heard[c] # "connected")
      /\ <>[]FellSilent(c) => <>[](heard[c] # "connected")
=============================================================================
