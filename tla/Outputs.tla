------------------------------ MODULE Outputs ------------------------------
(***************************************************************************)
(* What a couch session does to the outputs: the TV by way of CEC, and the *)
(* sound, whose HDMI sink is the TV's.  activate_couch wakes the TV, looks *)
(* for its sink while the wake-up is being verified, activate_desk takes   *)
(* the sound away first and puts the TV to standby last.  An idle session  *)
(* sleeps and wakes the TV and leaves the sound alone.                     *)
(***************************************************************************)
EXTENDS CecBus, Audio

VARIABLE stage  \* "desk", "couch", or the direction the outputs are going

ovars == <<bvars, avars, stage>>

OInit == BInit /\ AInit /\ stage = "desk"

\* wake_and_select_input has returned, and left its loop and the verification.
Woken == step \in {"query", "done"}

ToCouch ==
  /\ stage = "desk" /\ step = "done" /\ stage' = "waking"
  /\ StartWake
  /\ UNCHANGED avars

CouchAudio ==
  /\ stage = "waking" /\ Woken /\ stage' = "toCouch"
  /\ BeginCouch
  /\ UNCHANGED bvars

CouchReady ==
  /\ stage = "toCouch" /\ audio = "idle" /\ stage' = "couch"
  /\ UNCHANGED <<bvars, avars>>

\* The retry loop and the verification are cancelled.
CancelWake ==
  /\ op' = "none" /\ step' = "done" /\ retries' = 0
  /\ unasked' = {} /\ missed' = {} /\ pending' = {}
  /\ UNCHANGED <<attempt, bus, faults>>

\* Mutant of ToDesk: the TV is put to standby before the sound is moved.
ToDeskTvFirst ==
  /\ stage = "couch" /\ stage' = "desk"
  /\ StartStandby
  /\ UNCHANGED avars

ToDesk ==
  /\ stage = "couch" /\ stage' = "toDesk"
  /\ CancelWake
  /\ BeginDesk

DeskStandby ==
  /\ stage = "toDesk" /\ audio = "idle" /\ stage' = "desk"
  /\ StartStandby
  /\ UNCHANGED avars

\* enter_couch_idle and exit_couch_idle
Idle ==
  /\ stage = "couch" /\ op # "standby"
  /\ StartStandby
  /\ UNCHANGED <<avars, stage>>

Resume ==
  /\ stage = "couch" /\ op = "standby" /\ step = "done"
  /\ StartWake
  /\ UNCHANGED <<avars, stage>>

CecStep == (Conversation \/ Reassert \/ Claim) /\ UNCHANGED <<avars, stage>>
Switched == (\E d \in Devices : SwitchByHand(d)) /\ UNCHANGED <<avars, stage>>
SoundStep == AudioStep /\ UNCHANGED <<bvars, stage>>

\* The TV has a sink only while it is on, but may keep it when it sleeps.
SinkChanges ==
  /\ \E s \in Sinks :
       \/ SinkAppears(s) /\ (s \in TvNames => power[TV] = "on")
       \/ SinkVanishes(s)
  /\ UNCHANGED <<bvars, stage>>

StreamChanges ==
  /\ \E s \in Streams : StreamStarts(s) \/ StreamStops(s)
  /\ UNCHANGED <<bvars, stage>>

ONext ==
  \/ ToCouch \/ CouchAudio \/ CouchReady \/ ToDesk \/ DeskStandby \/ Idle \/ Resume
  \/ CecStep \/ Switched \/ SoundStep \/ SinkChanges \/ StreamChanges

\* What the daemon goes on with.
Progress ==
  \/ Conversation /\ UNCHANGED <<avars, stage>>
  \/ SoundStep \/ CouchAudio \/ CouchReady \/ DeskStandby

\* Every cec-ctl and pactl call has a timeout.
OSpec == OInit /\ [][ONext]_ovars
FairOSpec == OSpec /\ WF_ovars(Progress)

-----------------------------------------------------------------------------
OTypeOK == BTypeOK /\ ATypeOK

Busy == stage \notin {"desk", "couch"} \/ (op = "standby" /\ step # "done")

\* The TV's sound is found, and everything is heard there: while the TV's sink
\* is there the couch has it, however stale the configured name is, however late
\* the TV woke up, and whatever starts to play while the streams are moved one
\* by one.  Unless a call failed, or the sink came or went when it was too late
\* (resolve_couch_sink_with_wait, set_audio_to_sink).
TvSoundFound ==
  stage = "couch" /\ ~disturbed /\ live \cap TvNames # {} =>
    /\ report = "ok"
    /\ \A s \in Streams : on[s] \in (live \cap TvNames) \cup {"none"}

\* Both directions are gone all the way, the TV's standby included, however long
\* the TV, the bus and the sound server keep failing.
OutputsSettle == Busy ~> ~Busy

\* The TV is not put to standby by the teardown while something plays on it, if
\* the sound could be switched (activate_desk: "CEC standby LAST").
TvSleepsSilently ==
  stage = "desk" /\ op = "standby" /\ ~disturbed /\ report # "degraded" =>
    \A s \in Streams : on[s] \notin TvNames
=============================================================================
