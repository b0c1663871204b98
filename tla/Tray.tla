-------------------------------- MODULE Tray --------------------------------
(***************************************************************************)
(* The tray icon.  It is a process of its own and learns everything from   *)
(* two files: health.json, which the daemon writes, and config.toml, which *)
(* everybody writes.  The wizard's handlers live and die with the daemon.  *)
(***************************************************************************)
EXTENDS ConfigFile, Health

VARIABLE icon  \* the TrayState that is shown

Icons == Statuses \cup {"unreachable", "unconfigured", "off"}

tvars == <<fvars, healthvars, icon>>

\* A configuration that was never saved is not configured.
Configured == file.settings > 0

\* Mutant of TrayState: the auto-switch flag outranks a failure.
TrayStateByFlag(reachable, overall) ==
  IF ~reachable THEN "unreachable"
  ELSE IF ~Configured THEN "unconfigured"
  ELSE IF ~file.auto THEN "off"
  ELSE overall

\* tray_state
TrayState(reachable, overall) ==
  IF ~reachable THEN "unreachable"
  ELSE IF ~Configured THEN "unconfigured"
  ELSE IF overall # "ok" THEN overall
  ELSE IF file.auto THEN "ok" ELSE "off"

TInit == FInit /\ HealthInit /\ icon = "unreachable"

TrayRefreshes ==
  /\ Refresh
  /\ icon' = TrayState(DaemonAlive, disk)
  /\ UNCHANGED healthvars

TrayClicked == (TrayLoad \/ TraySave) /\ UNCHANGED <<healthvars, icon>>

WizardRequest(r) == alive /\ Handler(r) /\ UNCHANGED <<healthvars, icon>>

\* The daemon is stopped or crashes; a heartbeat that cannot be written ends
\* its main loop as well.
DaemonDown == DaemonEnds /\ DaemonDies /\ UNCHANGED icon

DaemonReports ==
  /\ DaemonStarts \/ \E s \in Statuses : Report(s)
  /\ UNCHANGED <<fvars, icon>>

DaemonBeats == Heartbeat /\ UNCHANGED <<fvars, icon>>
TimePasses == Tick /\ UNCHANGED <<fvars, icon>>
Disturbance == (Doctor \/ ClockSetBack) /\ UNCHANGED <<fvars, icon>>

TNext ==
  \/ TrayRefreshes \/ TrayClicked
  \/ DaemonDown \/ DaemonReports \/ DaemonBeats \/ TimePasses \/ Disturbance
  \/ \E r \in Posts : WizardRequest(r)

\* The tray's timer fires, between clicks if need be, and its handlers run on;
\* a live daemon's timer fires, and time passes.
TSpec == TInit /\ [][TNext]_tvars
FairTSpec ==
  /\ TSpec
  /\ SF_tvars(TrayRefreshes) /\ WF_tvars(TraySave /\ UNCHANGED <<healthvars, icon>>)
  /\ WF_tvars(DaemonBeats) /\ WF_tvars(TimePasses)

-----------------------------------------------------------------------------
TTypeOK ==
  /\ FTypeOK /\ HealthTypeOK
  /\ icon \in Icons

\* What each icon says of the daemon and the configuration.
Meaning ==
  LET sound == alive /\ Configured /\ status = "ok" IN
  [unreachable  |-> ~alive,
   unconfigured |-> alive /\ ~Configured,
   failed       |-> alive /\ Configured /\ status = "failed",
   degraded     |-> alive /\ Configured /\ status = "degraded",
   off          |-> sound /\ ~file.auto,
   ok           |-> sound /\ file.auto]

\* The tray tells the truth in the end: once what an icon stands for stays so,
\* it is shown.  A dead daemon is shown dead whatever its last words were, a
\* living one is not, and a failure shows whether auto-switch is on or off
\* (tray_state in tray.py), though reports are lost, --doctor overwrites them
\* and the clock is set back.  Its checkbox shows the flag once that and the
\* entry are left alone, whatever saves failed (toggle_auto_switch).
TrayFollows ==
  /\ \A v \in Icons : <>[]Meaning[v] => <>[](icon = v)
  /\ \A v \in BOOLEAN :
       <>[](file.auto = v /\ tray = "idle") => <>[](shown = v)
=============================================================================
