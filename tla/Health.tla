------------------------------- MODULE Health -------------------------------
(***************************************************************************)
(* health.py: what the daemon's parts report is kept in memory and written *)
(* to health.json as a whole, with the time, at every report and on a      *)
(* timer.  Whoever reads it takes an old file for a dead daemon.  Of the   *)
(* reports the worst status is kept.                                       *)
(*                                                                         *)
(* Time passes in heartbeat intervals; a file is stale after three.        *)
(***************************************************************************)
EXTENDS Integers

CONSTANTS
  MaxDoctors,  \* bound: runs of jn-daemon --doctor
  MaxSkew      \* bound: intervals the clock may be set back, once

ASSUME HealthAssumption == MaxDoctors \in Nat /\ MaxSkew \in Nat

VARIABLES
  alive,    \* the daemon runs its main loop
  status,   \* the worst status it was told of
  disk,     \* the worst status in health.json, "none" without the file
  age,      \* of that file, by the wall clock
  doctors,  \* runs of --doctor so far
  skewed    \* the clock was set back

healthvars == <<alive, status, disk, age, doctors, skewed>>

Statuses == {"ok", "degraded", "failed"}
Stale == 3

HealthInit ==
  /\ alive = FALSE /\ status = "ok"
  /\ disk \in Statuses \cup {"none"} /\ age \in {0, Stale}
  /\ doctors = 0 /\ skewed = FALSE

\* A new Health knows of no component, and writes nothing before the first
\* report.
DaemonStarts ==
  /\ ~alive
  /\ alive' = TRUE /\ status' = "ok"
  /\ UNCHANGED <<disk, age, doctors, skewed>>

DaemonEnds ==
  /\ alive
  /\ alive' = FALSE /\ status' = "ok"
  /\ UNCHANGED <<disk, age, doctors, skewed>>

Persist(s) == disk' = s /\ age' = 0

\* _set: the report is kept even if it cannot be written.
Report(s) ==
  /\ alive
  /\ status' = s
  /\ Persist(s) \/ UNCHANGED <<disk, age>>
  /\ UNCHANGED <<alive, doctors, skewed>>

Heartbeat ==
  /\ alive
  /\ Persist(status)
  /\ UNCHANGED <<alive, status, doctors, skewed>>

\* --doctor writes its own findings over those of the daemon.
Doctor ==
  /\ doctors < MaxDoctors
  /\ doctors' = doctors + 1
  /\ \E s \in Statuses : Persist(s)
  /\ UNCHANGED <<alive, status, skewed>>

\* A running daemon's heartbeat is never a whole interval late.
Tick ==
  /\ age < Stale
  /\ alive => age < 1
  /\ age' = age + 1
  /\ UNCHANGED <<alive, status, disk, doctors, skewed>>

ClockSetBack ==
  /\ ~skewed /\ skewed' = TRUE
  /\ \E k \in 1 .. MaxSkew : age' = age - k
  /\ UNCHANGED <<alive, status, disk, doctors>>

\* Mutant of DaemonAlive: the last snapshot counts, however old.
DaemonEverAlive == disk # "none"

\* HealthSnapshot.daemon_alive, of a snapshot that exists.
DaemonAlive == disk # "none" /\ age < Stale

HealthTypeOK ==
  /\ alive \in BOOLEAN /\ status \in Statuses
  /\ disk \in Statuses \cup {"none"} /\ age \in (0 - MaxSkew) .. Stale
  /\ doctors \in 0 .. MaxDoctors /\ skewed \in BOOLEAN
=============================================================================
