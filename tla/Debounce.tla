------------------------------ MODULE Debounce ------------------------------
(***************************************************************************)
(* The debouncer of debounce.py: every raw event of a device, whichever    *)
(* watcher saw it, cancels the device's settle timer and, unless it only   *)
(* confirms the last stable state, starts a new one.  A timer that runs    *)
(* out makes its target the stable state and emits it.                     *)
(***************************************************************************)
CONSTANT Devices  \* device ids

VARIABLES
  lastStable,  \* _last_stable, "unknown" before the first settled event
  pending      \* the target of the device's _pending_tasks entry, or "none"

dvars == <<lastStable, pending>>

Kinds == {"connected", "disconnected"}

DInit ==
  /\ lastStable = [d \in Devices |-> "unknown"]
  /\ pending = [d \in Devices |-> "none"]

\* Mutant of Feed: an event that confirms the stable state does not cancel the
\* timer that would leave it.
FeedNoCancel(d, target) ==
  /\ lastStable[d] # target => pending' = [pending EXCEPT ![d] = target]
  /\ lastStable[d] = target => UNCHANGED pending
  /\ UNCHANGED lastStable

\* feed, the raw kind already turned into its stable counterpart.
Feed(d, target) ==
  /\ pending' = [pending EXCEPT ![d] =
                   IF lastStable[d] = target THEN "none" ELSE target]
  /\ UNCHANGED lastStable

\* _settle after its sleep: pending[d] is what it emits.
Settle(d) ==
  /\ pending[d] # "none"
  /\ lastStable' = [lastStable EXCEPT ![d] = pending[d]]
  /\ pending' = [pending EXCEPT ![d] = "none"]

DNext == \E d \in Devices : Settle(d) \/ \E k \in Kinds : Feed(d, k)

DSpec == DInit /\ [][DNext]_dvars

-----------------------------------------------------------------------------
\* Only changes are emitted: a timer never runs towards the state that was
\* emitted last, so nobody downstream sees two connects without a disconnect
\* between them, however the raw events bounced.
OnlyChangesPending ==
  \A d \in Devices : pending[d] # "none" => pending[d] # lastStable[d]
=============================================================================
