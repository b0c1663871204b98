----------------------------- MODULE CecAdapter -----------------------------
(***************************************************************************)
(* The self-heal of the CEC adapter (devices/cec.py ensure_adapter and     *)
(* _run_watchdog) as the daemon's hooks call it: inside a transition, from *)
(* the owner watch and from a reconnect, so several calls overlap.  The    *)
(* watchdog script resets the bus as root; a call that is cancelled leaves *)
(* its script running.                                                     *)
(***************************************************************************)
EXTENDS Naturals, FiniteSets

CONSTANTS
  Callers,      \* the tasks that want the adapter
  Cancellable,  \* the callers whose task may be cancelled
  Polls         \* looks at the adapter after the script

ASSUME CecAdapterAssumption ==
  /\ Cancellable \subseteq Callers /\ Polls \in Nat \ {0}

VARIABLES
  adapter,  \* "missing", "untracked" by systemd, or "configured"
  at,       \* how far each caller is
  found,    \* the callers that saw an adapter when they began
  looks,    \* the polls each has left
  orphans,  \* watchdog scripts that outlive the call that started them
  cooling,  \* the state file is younger than the cooldown
  cec       \* the health component "cec": "ok" or "failed"

calls == <<at, found, looks>>
avars == <<adapter, calls, orphans, cooling, cec>>

Calling == {"asking", "healing", "polling"}
Returned == {"idle", "got", "none"}  \* not called or cancelled, or the result
Healing == {c \in Callers : at[c] = "healing"}

\* The call of c returns, with the failure or the success it reports.
Succeed(c) ==
  /\ at' = [at EXCEPT ![c] = "got"]
  /\ cec' = "ok"

Fail(c) ==
  /\ at' = [at EXCEPT ![c] = IF c \in found' THEN "got" ELSE "none"]
  /\ cec' = "failed"

-----------------------------------------------------------------------------
\* Mutant of RunWatchdog: the cooldown is never started.
RunWatchdogUntouched(c) ==
  IF cooling THEN Fail(c) /\ UNCHANGED <<looks, cooling>>
  ELSE /\ at' = [at EXCEPT ![c] = "healing"]
       /\ looks' = [looks EXCEPT ![c] = Polls]
       /\ UNCHANGED <<cooling, cec>>

\* _run_watchdog up to its first await: the state file is touched before the
\* script starts, and it stays touched when the script cannot be run.
RunWatchdog(c) ==
  IF cooling THEN Fail(c) /\ UNCHANGED <<looks, cooling>>
  ELSE /\ cooling' = TRUE
       /\ \/ /\ at' = [at EXCEPT ![c] = "healing"]
             /\ looks' = [looks EXCEPT ![c] = Polls]
             /\ UNCHANGED cec
          \/ Fail(c) /\ UNCHANGED looks

\* ensure_adapter: systemd is asked about an adapter that is there, a missing
\* one is healed at once.
EnsureAdapter(c) ==
  /\ at[c] \in Returned
  /\ IF adapter = "missing"
     THEN found' = found \ {c} /\ RunWatchdog(c)
     ELSE /\ found' = found \cup {c}
          /\ at' = [at EXCEPT ![c] = "asking"]
          /\ UNCHANGED <<looks, cooling, cec>>
  /\ UNCHANGED <<adapter, orphans>>

\* The answer of systemctl is-active.
SystemdTracks(c) ==
  /\ at[c] = "asking"
  /\ UNCHANGED <<adapter, found, orphans>>
  /\ IF adapter = "configured"
     THEN Succeed(c) /\ UNCHANGED <<looks, cooling>>
     ELSE RunWatchdog(c)

\* A script heals the adapter, in part, or not at all.
ScriptEnds ==
  /\ adapter' \in IF adapter = "configured" THEN {adapter}
                 ELSE {adapter, "untracked", "configured"}
  /\ UNCHANGED <<found, looks, cooling, cec>>

WatchdogEnds(c) ==
  /\ at[c] = "healing" /\ ScriptEnds
  /\ at' = [at EXCEPT ![c] = "polling"]
  /\ UNCHANGED orphans

OrphanEnds ==
  /\ orphans > 0 /\ ScriptEnds
  /\ orphans' = orphans - 1
  /\ UNCHANGED at

\* A caller that saw the adapter waits for systemd, the others for the node.
Healed(c) ==
  IF c \in found THEN adapter = "configured" ELSE adapter # "missing"

\* Mutant of Poll: it looks until the adapter is healed.
PollForever(c) ==
  /\ at[c] = "polling" /\ Healed(c) /\ Succeed(c)
  /\ UNCHANGED <<adapter, found, looks, orphans, cooling>>

\* A look after the script, or the failure when all have been used.
Poll(c) ==
  /\ at[c] = "polling"
  /\ UNCHANGED <<adapter, found, orphans, cooling>>
  /\ IF looks[c] > 0 /\ ~Healed(c)
     THEN looks' = [looks EXCEPT ![c] = @ - 1] /\ UNCHANGED <<at, cec>>
     ELSE UNCHANGED looks /\ IF looks[c] > 0 THEN Succeed(c) ELSE Fail(c)

-----------------------------------------------------------------------------
\* The hook that called is cancelled; the script is not.
Cancel(c) ==
  /\ c \in Cancellable /\ at[c] \in Calling
  /\ at' = [at EXCEPT ![c] = "idle"]
  /\ orphans' = IF at[c] = "healing" THEN orphans + 1 ELSE orphans
  /\ UNCHANGED <<adapter, found, looks, cooling, cec>>

\* The cooldown is far longer than the script.
CooldownEnds ==
  /\ cooling /\ orphans = 0 /\ Healing = {}
  /\ cooling' = FALSE
  /\ UNCHANGED <<adapter, calls, orphans, cec>>

\* The adapter is unplugged, plugged in, or loses its unit to a udev change.
AdapterChanges ==
  /\ adapter' \in {"missing", "untracked", "configured"} \ {adapter}
  /\ UNCHANGED <<calls, orphans, cooling, cec>>

AInit ==
  /\ adapter \in {"missing", "untracked", "configured"}
  /\ at = [c \in Callers |-> "idle"] /\ found = {}
  /\ looks = [c \in Callers |-> 0]
  /\ orphans = 0 /\ cooling \in BOOLEAN
  /\ cec = IF adapter = "missing" THEN "failed" ELSE "ok"

Progress(c) == SystemdTracks(c) \/ WatchdogEnds(c) \/ Poll(c)

ANext ==
  \/ \E c \in Callers : EnsureAdapter(c) \/ Progress(c) \/ Cancel(c)
  \/ OrphanEnds \/ CooldownEnds \/ AdapterChanges

\* A caller that waits for the node sleeps between its looks, and a sleep ends.  No
\* fairness for SystemdTracks and WatchdogEnds, nor for the looks of a caller that
\* asks systemctl: proc.wait() has no time limit there.
ASpec == AInit /\ [][ANext]_avars
FairASpec == ASpec /\ \A c \in Callers : WF_avars(c \notin found /\ Poll(c))

-----------------------------------------------------------------------------
ATypeOK ==
  /\ adapter \in {"missing", "untracked", "configured"}
  /\ at \in [Callers -> Calling \cup Returned]
  /\ found \subseteq Callers /\ looks \in [Callers -> 0 .. Polls]
  /\ orphans \in Nat /\ cooling \in BOOLEAN /\ cec \in {"ok", "failed"}

\* Two resets of the bus never overlap, however the calls interleave and
\* whichever of them are cancelled in the middle of a script.
OneWatchdogRun == Cardinality(Healing) + orphans <= 1

\* It waits for a process without a time limit: systemctl or the script.
AwaitsProcess(c) == at[c] \in {"asking", "healing"} \/ (at[c] = "polling" /\ c \in found)

\* Nothing but such a process can hold up a hook, and the lock of the transition it
\* belongs to, for good: not the cooldown, not the scripts and looks of the other
\* callers, not an adapter that comes and goes.
OnlyProcessesHoldUp ==
  \A c \in Callers : []<>(at[c] \notin Calling) \/ <>[]AwaitsProcess(c)
=============================================================================
