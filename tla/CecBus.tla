------------------------------- MODULE CecBus -------------------------------
(***************************************************************************)
(* The CEC conversations of cec_control.py: wake_and_select_input with its *)
(* retry loop and wake_and_verify, and standby_and_verify, on a bus that   *)
(* loses frames and with a competing device that claims the input.         *)
(* Standby is broadcast; the TV heeds it only from the active source.      *)
(***************************************************************************)
EXTENDS Naturals, FiniteSets

CONSTANTS
  Devices,    \* the TV and what else is on the bus
  TV,
  Targets,    \* cec.standby_targets
  PhysAddr,   \* cec.active_source_phys_addr is configured
  Attempts,   \* standby_verify_attempts and wake_verify_attempts
  Retries,    \* active_source_retries
  MaxFaults   \* bound: faults in one conversation

ASSUME CecBusAssumption ==
  /\ TV \in Devices /\ Targets \subseteq Devices
  /\ PhysAddr \in BOOLEAN
  /\ Attempts \in Nat \ {0} /\ Retries \in Nat /\ MaxFaults \in Nat

VARIABLES
  op,       \* the conversation: "none", "wake" or "standby"
  step,     \* what it does next, "done" when it has returned
  attempt,  \* the round under way
  pending,  \* targets not confirmed before this round
  unasked,  \* targets this round has not queried yet
  missed,   \* targets this round did not confirm
  retries,  \* re-assertions the retry loop has left
  power,    \* what each device is: "on" or "standby"
  source,   \* the active source: "us" or "other"
  faults    \* lost frames and claims by others since it began

talk == <<op, step, attempt, pending, unasked, missed>>
bus == <<power, source>>
bvars == <<talk, retries, bus, faults>>

Goal == IF op = "wake" THEN "on" ELSE "standby"
Unconfirmed == IF step = "done" THEN missed ELSE {}

\* A fault happens, if there is one left.
Fault == faults < MaxFaults /\ faults' = faults + 1

\* Queries, with the sleep before them, begin.
AskAll(targets) ==
  step' = "query" /\ unasked' = targets /\ missed' = {}

Return(unconfirmed) ==
  step' = "done" /\ missed' = unconfirmed /\ unasked' = {}

-----------------------------------------------------------------------------
(* standby_and_verify.                                                     *)

\* The daemon's teardown cancels the tasks of the wake-up first.
StartStandby ==
  /\ op # "standby"
  /\ op' = "standby" /\ step' = "reclaim"
  /\ attempt' = 1 /\ pending' = Targets
  /\ unasked' = {} /\ missed' = {} /\ retries' = 0 /\ faults' = 0
  /\ UNCHANGED bus

\* Mutant of Reclaim: only the first broadcast is preceded by it.
ReclaimOnce ==
  /\ op = "standby" /\ step = "reclaim"
  /\ step' = "broadcast"
  /\ source' = IF PhysAddr /\ attempt = 1 THEN "us" ELSE source
  /\ UNCHANGED <<op, attempt, pending, unasked, missed, retries, power, faults>>

\* set_stream_path_and_active_source before each broadcast.
Reclaim ==
  /\ op = "standby" /\ step = "reclaim"
  /\ step' = "broadcast"
  /\ \/ source' = (IF PhysAddr THEN "us" ELSE source) /\ UNCHANGED faults
     \/ PhysAddr /\ Fault /\ UNCHANGED source
  /\ UNCHANGED <<op, attempt, pending, unasked, missed, retries, power>>

Heeds(d) == d # TV \/ source = "us"

\* With no targets the broadcast is still sent, once, and nothing confirmed.
Broadcast ==
  /\ op = "standby" /\ step = "broadcast"
  /\ \/ /\ power' = [d \in Devices |-> IF Heeds(d) THEN "standby" ELSE power[d]]
        /\ UNCHANGED faults
     \/ Fault /\ UNCHANGED power
  /\ IF Targets = {} THEN Return({}) ELSE AskAll(pending)
  /\ UNCHANGED <<op, attempt, pending, retries, source>>

-----------------------------------------------------------------------------
(* wake_and_select_input, and the verification that runs beside the retry  *)
(* loop.                                                                   *)

StartWake ==
  /\ op # "wake" \/ step = "done"
  /\ op' = "wake" /\ step' = "view"
  /\ attempt' = 1 /\ pending' = Targets
  /\ unasked' = {} /\ missed' = {} /\ retries' = 0 /\ faults' = 0
  /\ UNCHANGED bus

\* Nothing but the wake-up itself is sent without a physical address.
ImageViewOn ==
  /\ step = "view"
  /\ \/ power' = [power EXCEPT ![TV] = "on"] /\ UNCHANGED faults
     \/ Fault /\ UNCHANGED power
  /\ IF PhysAddr THEN step' = "others" /\ UNCHANGED <<unasked, missed>>
     ELSE IF Targets = {} THEN Return({}) ELSE AskAll(Targets)
  /\ UNCHANGED <<op, attempt, pending, retries, source>>

\* wake_non_tv_targets
WakeOthers ==
  /\ step = "others"
  /\ \/ /\ power' = [d \in Devices |-> IF d \in Targets \ {TV} THEN "on"
                                       ELSE power[d]]
        /\ UNCHANGED faults
     \/ Fault /\ UNCHANGED power
  /\ step' = "select"
  /\ UNCHANGED <<op, attempt, pending, unasked, missed, retries, source>>

SelectInput ==
  /\ step = "select"
  /\ \/ source' = "us" /\ UNCHANGED faults
     \/ Fault /\ UNCHANGED source
  /\ retries' = Retries
  /\ IF Targets = {} THEN Return({}) ELSE AskAll(Targets)
  /\ UNCHANGED <<op, attempt, pending, power>>

\* One round of _retry_loop.
Reassert ==
  /\ retries > 0
  /\ retries' = retries - 1
  /\ \/ source' = "us" /\ UNCHANGED faults
     \/ Fault /\ UNCHANGED source
  /\ UNCHANGED <<talk, power>>

-----------------------------------------------------------------------------
(* The rounds both verifications share.                                    *)

\* Mutant of PowerStatus: an answer that says nothing is taken for good.
PowerStatusHopeful(d) == {power[d], Goal}

\* power_status: what the device is, or "unknown" when a frame is lost.
PowerStatus(d) == {power[d]} \cup (IF faults < MaxFaults THEN {"unknown"} ELSE {})

Query(d) ==
  /\ step = "query" /\ d \in unasked
  /\ unasked' = unasked \ {d}
  /\ \E status \in PowerStatus(d) :
       /\ missed' = IF status = Goal THEN missed ELSE missed \cup {d}
       /\ faults' = IF status = "unknown" THEN faults + 1 ELSE faults
  /\ UNCHANGED <<op, step, attempt, pending, retries, bus>>

NextRound == IF op = "wake" THEN "query" ELSE "reclaim"

\* Mutant of EndRound: rounds are not counted.
EndRoundUncounted ==
  /\ step = "query" /\ unasked = {}
  /\ pending' = missed
  /\ IF missed = {}
     THEN Return({}) /\ UNCHANGED attempt
     ELSE /\ UNCHANGED attempt
          /\ step' = NextRound
          /\ unasked' = missed /\ missed' = {}
  /\ UNCHANGED <<op, retries, bus, faults>>

\* All are confirmed, or the attempts are used up; else the next round.
EndRound ==
  /\ step = "query" /\ unasked = {}
  /\ pending' = missed
  /\ IF missed = {} \/ attempt = Attempts
     THEN Return(missed) /\ UNCHANGED attempt
     ELSE /\ attempt' = attempt + 1
          /\ step' = NextRound
          /\ unasked' = missed /\ missed' = {}
  /\ UNCHANGED <<op, retries, bus, faults>>

-----------------------------------------------------------------------------
\* The competing device wakes up and claims the input.
Claim ==
  /\ source = "us" /\ Fault
  /\ source' = "other"
  /\ UNCHANGED <<talk, retries, power>>

\* Between conversations devices are switched by hand.
SwitchByHand(d) ==
  /\ step = "done" /\ op # "none"
  /\ op' = "none" /\ retries' = 0
  /\ power' = [power EXCEPT ![d] = IF @ = "on" THEN "standby" ELSE "on"]
  /\ UNCHANGED <<step, attempt, pending, unasked, missed, source, faults>>

BInit ==
  /\ op = "none" /\ step = "done" /\ attempt = 1
  /\ pending = {} /\ unasked = {} /\ missed = {} /\ retries = 0
  /\ power \in [Devices -> {"on", "standby"}] /\ source \in {"us", "other"}
  /\ faults = 0

Conversation ==
  \/ Reclaim \/ Broadcast \/ ImageViewOn \/ WakeOthers \/ SelectInput
  \/ EndRound \/ \E d \in Devices : Query(d)

BNext ==
  \/ StartStandby \/ StartWake \/ Conversation \/ Reassert \/ Claim
  \/ \E d \in Devices : SwitchByHand(d)

BSpec == BInit /\ [][BNext]_bvars

-----------------------------------------------------------------------------
BTypeOK ==
  /\ op \in {"none", "wake", "standby"}
  /\ step \in {"reclaim", "broadcast", "view", "others", "select", "query",
               "done"}
  /\ attempt \in 1 .. Attempts /\ retries \in 0 .. Retries
  /\ pending \subseteq Targets
  /\ unasked \subseteq Targets /\ missed \subseteq Targets
  /\ power \in [Devices -> {"on", "standby"}] /\ source \in {"us", "other"}
  /\ faults \in 0 .. MaxFaults

\* What is reported confirmed is so: a target neither conversation lists as
\* unconfirmed is in the state that was asked for when it returns.
ReportTrue ==
  step = "done" /\ op # "none" =>
    \A d \in Targets \ Unconfirmed : power[d] = Goal

\* Reclaiming the input "immediately before every single broadcast": each lost
\* frame and each claim by another device costs one attempt at most, so with
\* fewer faults than attempts every target ends in standby.
StandbyWithinBudget ==
  op = "standby" /\ step = "done" /\ PhysAddr /\ faults < Attempts
    => Unconfirmed = {}
=============================================================================
