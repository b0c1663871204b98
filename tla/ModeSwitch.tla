----------------------------- MODULE ModeSwitch -----------------------------
(***************************************************************************)
(* What the state machine promises everything that reads or changes the    *)
(* mode: at most one switch is under way, the mode changes at most once in *)
(* a switch and only to its target, and a couch activation never runs on   *)
(* top of a couch session.  A switch may end without changing the mode     *)
(* (activation failed, the caller was cancelled), and a desk switch may be *)
(* repeated in desk mode to resync the hardware.  A restart of the daemon  *)
(* ends a switch, and the mode is then whatever it finds.                  *)
(***************************************************************************)
EXTENDS Naturals

VARIABLES
  mode,       \* "desk" or "couch"
  switching,  \* the target of the switch under way, or "none"
  restarts    \* restarts so far

mvars == <<mode, switching, restarts>>

Init == mode = "desk" /\ switching = "none" /\ restarts = 0

Begin(target) ==
  /\ switching = "none"
  /\ target = "couch" => mode = "desk"
  /\ switching' = target
  /\ UNCHANGED <<mode, restarts>>

Flip ==
  /\ switching # "none"
  /\ mode # switching
  /\ mode' = switching
  /\ UNCHANGED <<switching, restarts>>

End ==
  /\ switching # "none"
  /\ switching' = "none"
  /\ UNCHANGED <<mode, restarts>>

Restart ==
  /\ restarts' = restarts + 1
  /\ mode' \in {"desk", "couch"}
  /\ switching' = "none"

Next == Flip \/ End \/ Restart \/ \E target \in {"desk", "couch"} : Begin(target)

Spec == Init /\ [][Next]_mvars /\ WF_mvars(End)
=============================================================================
