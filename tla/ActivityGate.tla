---------------------------- MODULE ActivityGate ----------------------------
(***************************************************************************)
(* The activity gate of activity_gate.py: a settled connect is passed on   *)
(* at once when no stale session could be resumed by it (fresh boot, past  *)
(* the startup grace, or the device was seen disconnecting); else it is    *)
(* withheld for good, until the device disconnects and connects again.     *)
(***************************************************************************)
CONSTANTS
  Controllers,  \* device ids
  FreshBoot     \* _fresh_boot: the machine booted with the daemon

VARIABLES
  pastGrace,  \* _past_startup_grace()
  witnessed,  \* _witnessed_disconnect
  holding,    \* devices with a _pending task
  told,       \* the last event of each device handed on, or "none"
  withheld    \* devices whose latest connect was not handed on

gvars == <<pastGrace, witnessed, holding, told, withheld>>

GInit ==
  /\ pastGrace = FALSE
  /\ witnessed = {} /\ holding = {} /\ withheld = {}
  /\ told = [d \in Controllers |-> "none"]

\* Mutant of Trusted: a disconnect does not re-arm trust.
TrustedByTime(d) == FreshBoot \/ pastGrace

Trusted(d) == FreshBoot \/ pastGrace \/ d \in witnessed

\* handle, for a disconnect.
HandleDisconnect(d) ==
  /\ holding' = holding \ {d}
  /\ withheld' = withheld \ {d}
  /\ witnessed' = witnessed \cup {d}
  /\ told' = [told EXCEPT ![d] = "disconnected"]
  /\ UNCHANGED pastGrace

\* handle, for a connect.
HandleConnect(d) ==
  /\ IF Trusted(d)
     THEN /\ told' = [told EXCEPT ![d] = "connected"]
          /\ withheld' = withheld \ {d}
          /\ UNCHANGED holding
     ELSE /\ holding' = holding \cup {d}
          /\ withheld' = withheld \cup {d}
          /\ UNCHANGED told
  /\ UNCHANGED <<pastGrace, witnessed>>

Handle(d, kind) ==
  \/ kind = "disconnected" /\ HandleDisconnect(d)
  \/ kind = "connected" /\ HandleConnect(d)

GraceEnds ==
  /\ ~pastGrace
  /\ pastGrace' = TRUE
  /\ UNCHANGED <<witnessed, holding, told, withheld>>

\* _wait_for_grace_then_give_up after its sleep.
GiveUp(d) ==
  /\ pastGrace /\ d \in holding
  /\ holding' = holding \ {d}
  /\ UNCHANGED <<pastGrace, witnessed, told, withheld>>

GNext ==
  \/ GraceEnds
  \/ \E d \in Controllers :
       GiveUp(d) \/ \E k \in {"connected", "disconnected"} : Handle(d, k)

GSpec == GInit /\ [][GNext]_gvars
=============================================================================
