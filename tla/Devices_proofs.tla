--------------------------- MODULE Devices_proofs ---------------------------
(***************************************************************************)
(* Proofs about the two device watchers that stand alone: the self-heal of *)
(* the CEC adapter (devices/cec.py), for any number of callers and of      *)
(* looks, and the readers of the hidraw watcher (devices/detect.py), for   *)
(* any nodes, any number of descriptors and any intervals.                 *)
(***************************************************************************)
EXTENDS CecAdapter, Hidraw, FiniteSetTheorems, TLAPS

USE CecAdapterAssumption, HidrawAssumption

-----------------------------------------------------------------------------
(* The scripts that reset the bus.                                         *)

\* The scripts that run are counted by the cooldown: it is on while there is one,
\* and then there is one.
ScriptInv ==
  /\ at \in [Callers -> Calling \cup Returned]
  /\ orphans \in {0, 1}
  /\ orphans = 1 \/ Healing # {} => cooling
  /\ orphans = 1 => Healing = {}
  /\ \A c, d \in Healing : c = d

\* A caller that does not begin to heal.
LEMMA OthersKeepScriptInv ==
  ASSUME ScriptInv, UNCHANGED <<orphans, cooling>>,
         at' \in [Callers -> Calling \cup Returned], Healing' \subseteq Healing
  PROVE  ScriptInv'
BY DEF ScriptInv

\* A call that begins to heal finds the cooldown over, and so no script.
LEMMA RunWatchdogKeepsScriptInv ==
  ASSUME ScriptInv, NEW c \in Callers, RunWatchdog(c), at[c] # "healing", UNCHANGED orphans
  PROVE  ScriptInv'
<1>1. CASE Fail(c) /\ cooling' = cooling
  <2>1. at' \in [Callers -> Calling \cup Returned] /\ Healing' \subseteq Healing
    BY <1>1 DEF Fail, ScriptInv, Healing, Calling, Returned
  <2> QED
    BY <1>1, <2>1, OthersKeepScriptInv
<1>2. CASE ~cooling /\ cooling' = TRUE /\ at' = [at EXCEPT ![c] = "healing"]
  <2>1. Healing = {} /\ orphans = 0
    BY <1>2 DEF ScriptInv
  <2>2. at' \in [Callers -> Calling \cup Returned] /\ Healing' = {c}
    BY <1>2, <2>1 DEF ScriptInv, Healing, Calling
  <2> QED
    BY <1>2, <2>1, <2>2 DEF ScriptInv
<1>3. CASE ~cooling /\ cooling' = TRUE /\ Fail(c)
  <2>1. at' \in [Callers -> Calling \cup Returned] /\ Healing' \subseteq Healing
    BY <1>3 DEF Fail, ScriptInv, Healing, Calling, Returned
  <2>2. Healing = {} /\ orphans = 0
    BY <1>3 DEF ScriptInv
  <2> QED
    BY <1>3, <2>1, <2>2 DEF ScriptInv
<1> QED
  BY <1>1, <1>2, <1>3 DEF RunWatchdog

LEMMA NextKeepsScriptInv == ScriptInv /\ [ANext]_avars => ScriptInv'
<1> SUFFICES ASSUME ScriptInv, [ANext]_avars PROVE ScriptInv'
  OBVIOUS
<1> USE DEF Healing, Calling, Returned
<1>t. at \in [Callers -> Calling \cup Returned]
  BY DEF ScriptInv
<1>1. ASSUME NEW c \in Callers, EnsureAdapter(c) PROVE ScriptInv'
  <2>1. CASE RunWatchdog(c)
    BY <1>1, <2>1, RunWatchdogKeepsScriptInv DEF EnsureAdapter
  <2>2. CASE at' = [at EXCEPT ![c] = "asking"] /\ UNCHANGED cooling
    BY <1>1, <1>t, <2>2, OthersKeepScriptInv DEF EnsureAdapter
  <2> QED
    BY <1>1, <2>1, <2>2 DEF EnsureAdapter
<1>2. ASSUME NEW c \in Callers, SystemdTracks(c) PROVE ScriptInv'
  <2>1. CASE RunWatchdog(c)
    BY <1>2, <2>1, RunWatchdogKeepsScriptInv DEF SystemdTracks
  <2>2. CASE Succeed(c) /\ UNCHANGED cooling
    BY <1>2, <1>t, <2>2, OthersKeepScriptInv DEF SystemdTracks, Succeed
  <2> QED
    BY <1>2, <2>1, <2>2 DEF SystemdTracks
<1>3. ASSUME NEW c \in Callers, WatchdogEnds(c) \/ Poll(c) PROVE ScriptInv'
  BY <1>3, <1>t, OthersKeepScriptInv DEF WatchdogEnds, ScriptEnds, Poll, Succeed, Fail
<1>4. ASSUME NEW c \in Callers, Cancel(c) PROVE ScriptInv'
  <2>1. CASE at[c] = "healing"
    <3>1. cooling /\ orphans = 0 /\ Healing = {c}
      BY <2>1 DEF ScriptInv
    <3> QED
      BY <1>4, <1>t, <2>1, <3>1 DEF Cancel, ScriptInv
  <2>2. CASE at[c] # "healing"
    BY <1>4, <1>t, <2>2, OthersKeepScriptInv DEF Cancel
  <2> QED
    BY <2>1, <2>2
<1>5. CASE OrphanEnds
  BY <1>5 DEF OrphanEnds, ScriptEnds, ScriptInv
<1>7. CASE CooldownEnds
  BY <1>7 DEF CooldownEnds, ScriptInv, calls
<1>8. CASE AdapterChanges \/ UNCHANGED avars
  BY <1>8 DEF AdapterChanges, ScriptInv, avars, calls
<1> QED
  BY <1>1, <1>2, <1>3, <1>4, <1>5, <1>7, <1>8 DEF ANext, Progress

\* Two resets of the bus never overlap, for any number of callers: the state file
\* is touched before the first await of _run_watchdog, so no second call passes
\* the cooldown while a script runs, not even one whose call was cancelled.
THEOREM OneReset == ASpec => []OneWatchdogRun
<1>1. AInit => ScriptInv
  BY DEF AInit, ScriptInv, Healing, Returned
<1>2. ScriptInv => OneWatchdogRun
  <2> SUFFICES ASSUME ScriptInv PROVE OneWatchdogRun
    OBVIOUS
  <2>1. CASE Healing = {}
    <3>1. Cardinality(Healing) = 0
      BY <2>1, FS_EmptySet
    <3> QED
      BY <3>1 DEF ScriptInv, OneWatchdogRun
  <2>2. CASE Healing # {}
    <3>1. PICK c \in Healing : TRUE
      BY <2>2
    <3>2. Healing = {c}
      BY <3>1 DEF ScriptInv
    <3>3. Cardinality(Healing) = 1
      BY <3>2, FS_Singleton
    <3> QED
      BY <2>2, <3>3 DEF ScriptInv, OneWatchdogRun
  <2> QED
    BY <2>1, <2>2
<1> QED
  BY <1>1, <1>2, NextKeepsScriptInv, PTL DEF ASpec

LEMMA ANextKeepsTypes ==
  ASSUME ScriptInv, ATypeOK, [ANext]_avars
  PROVE  ATypeOK'
<1> USE DEF ATypeOK, Calling, Returned, calls
<1>1. at' \in [Callers -> Calling \cup Returned] /\ orphans' \in Nat
  BY NextKeepsScriptInv DEF ScriptInv
<1>2. adapter' \in {"missing", "untracked", "configured"}
  BY DEF ANext, EnsureAdapter, Progress, SystemdTracks, WatchdogEnds, Poll, Cancel,
     ScriptEnds, OrphanEnds, CooldownEnds, AdapterChanges, avars
<1>3. looks' \in [Callers -> 0 .. Polls]
  <2>1. Polls \in 0 .. Polls
    OBVIOUS
  <2>2. ASSUME NEW c \in Callers, Poll(c) PROVE looks' \in [Callers -> 0 .. Polls]
    <3>1. CASE looks' = [looks EXCEPT ![c] = @ - 1] /\ looks[c] > 0
      BY <3>1
    <3> QED
      BY <2>2, <3>1 DEF Poll
  <2>3. ASSUME NEW c \in Callers, looks' = [looks EXCEPT ![c] = Polls]
        PROVE  looks' \in [Callers -> 0 .. Polls]
    BY <2>1, <2>3
  <2>4. UNCHANGED looks \/ \E c \in Callers : Poll(c) \/ looks' = [looks EXCEPT ![c] = Polls]
    BY DEF ANext, EnsureAdapter, Progress, SystemdTracks, RunWatchdog, WatchdogEnds,
       Cancel, ScriptEnds, OrphanEnds, CooldownEnds,
       AdapterChanges, avars
  <2> QED
    BY <2>2, <2>3, <2>4
<1>4. found' \subseteq Callers
  BY DEF ANext, EnsureAdapter, Progress, SystemdTracks, WatchdogEnds, Poll, Cancel,
     ScriptEnds, OrphanEnds, CooldownEnds, AdapterChanges, avars
<1>5. cec' \in {"ok", "failed"}
  BY DEF ANext, EnsureAdapter, Progress, SystemdTracks, RunWatchdog, Succeed, Fail,
     WatchdogEnds, Poll, Cancel, ScriptEnds, OrphanEnds,
     CooldownEnds, AdapterChanges, avars
<1>6. cooling' \in BOOLEAN
  <2>1. cooling' = cooling \/ cooling' = TRUE \/ cooling' = FALSE
    BY Zenon DEF ANext, EnsureAdapter, Progress, SystemdTracks, RunWatchdog,
       WatchdogEnds, Poll, Cancel, ScriptEnds, OrphanEnds,
       CooldownEnds, AdapterChanges, avars
  <2>2. cooling \in BOOLEAN
    BY Zenon
  <2> QED
    BY <2>1, <2>2, Zenon
<1> QED
  BY <1>1, <1>2, <1>3, <1>4, <1>5, <1>6

LEMMA AInitTypes == AInit => ScriptInv /\ ATypeOK
<1> SUFFICES ASSUME AInit PROVE ScriptInv /\ ATypeOK
  OBVIOUS
<1>1. cooling \in BOOLEAN
  BY Zenon DEF AInit
<1> QED
  BY <1>1 DEF AInit, ScriptInv, ATypeOK, Healing, Calling, Returned

\* The callers, the adapter and its health entry keep their types.
THEOREM AdapterTypes == ASpec => []ATypeOK
BY AInitTypes, NextKeepsScriptInv, ANextKeepsTypes, PTL DEF ASpec

\* A call of ensure_adapter gets on: it returns, is at a later point, or has a look
\* less.
CallRank == [asking |-> 2, healing |-> 1, polling |-> 0]

CallOn(c) ==
  \/ at'[c] \notin Calling
  \/ CallRank[at'[c]] < CallRank[at[c]]
  \/ at'[c] = at[c] /\ looks'[c] < looks[c]

NoCallTurnsBack ==
  [][\A c \in Callers : at[c] \in Calling =>
       \/ CallOn(c)
       \/ at'[c] = at[c] /\ looks'[c] = looks[c] /\ ~Progress(c)]_avars

\* No call of ensure_adapter begins to heal a second time, whatever the other
\* callers, their scripts and the adapter do meanwhile: each of its steps lowers a
\* measure that no other step raises, so each call has one script and its looks, for
\* any number of callers.  Whether the processes it awaits end is theirs to say.
THEOREM CallsGetOn == ASpec => NoCallTurnsBack
<1>1. ASSUME ScriptInv, ATypeOK, ANext, NEW c \in Callers, at[c] \in Calling
      PROVE  CallOn(c) \/ (at'[c] = at[c] /\ looks'[c] = looks[c] /\ ~Progress(c))
  <2>t. at \in [Callers -> Calling \cup Returned] /\ looks \in [Callers -> 0 .. Polls]
    BY <1>1 DEF ATypeOK
  <2>1. CASE Progress(c)
    BY <1>1, <2>t, <2>1
       DEF Progress, SystemdTracks, RunWatchdog, WatchdogEnds, Poll, Succeed, Fail,
           CallOn, CallRank, Calling, Returned
  <2>2. CASE Cancel(c)
    BY <2>t, <2>2 DEF Cancel, CallOn, Calling
  <2>3. CASE ~Progress(c) /\ ~Cancel(c)
    <3>1. at'[c] = at[c] /\ looks'[c] = looks[c]
      <4>1. ASSUME NEW d \in Callers \ {c}, EnsureAdapter(d) \/ Progress(d) \/ Cancel(d)
            PROVE  at'[c] = at[c] /\ looks'[c] = looks[c]
        BY <4>1, <2>t DEF EnsureAdapter, Progress, SystemdTracks, RunWatchdog,
           WatchdogEnds, ScriptEnds, Poll, Succeed, Fail, Cancel
      <4>2. ~EnsureAdapter(c)
        BY <1>1 DEF EnsureAdapter, Calling, Returned
      <4>4. CASE OrphanEnds \/ CooldownEnds \/ AdapterChanges
        BY <4>4 DEF OrphanEnds, ScriptEnds, CooldownEnds, AdapterChanges, calls
      <4> QED
        BY <1>1, <2>3, <4>1, <4>2, <4>4 DEF ANext
    <3> QED
      BY <2>3, <3>1
  <2> QED
    BY <2>1, <2>2, <2>3
<1>2. ScriptInv /\ ATypeOK /\ [ANext]_avars =>
        [\A c \in Callers : at[c] \in Calling =>
           \/ CallOn(c)
           \/ at'[c] = at[c] /\ looks'[c] = looks[c] /\ ~Progress(c)]_avars
  BY <1>1
<1> QED
  BY <1>2, AInitTypes, NextKeepsScriptInv, ANextKeepsTypes, PTL DEF ASpec, NoCallTurnsBack

-----------------------------------------------------------------------------
(* The readers.                                                            *)

\* A watched descriptor is open on the node it was opened for.  The back-off of
\* one that was closed is over before the next rescan could reuse its number.
ReaderInv ==
  /\ plugged \in Nodes \cup {None}
  /\ kernel \in [Fds -> Nodes \cup {None, Other}]
  /\ opened \in [Fds -> Nodes \cup {None}]
  /\ armed \subseteq Fds
  /\ resume \in [Fds -> Nat] /\ scanAge \in Nat
  /\ \A f \in Fds : opened[f] # None => kernel[f] = opened[f]
  /\ \A f \in Fds : resume[f] <= Backoff
  /\ \A f \in Fds : opened[f] = None => resume[f] = 0 \/ resume[f] + scanAge <= Backoff
  /\ SoundReaders

\* What a rescan opens was closed, and what it closes is disarmed.
LEMMA RescanShape ==
  ASSUME ReaderInv, RescanNodes
  PROVE  \E new, gone \in SUBSET Fds :
           /\ OpenAndClose(new, gone)
           /\ \A f \in new : kernel[f] = None /\ opened[f] = None
           /\ new # {} => plugged # None
<1> DEFINE gone == {f \in Watched : opened[f] # plugged}
<1>1. gone \in SUBSET Fds
  BY DEF Watched
<1>2. \A f \in Fds : IsNext(f) => kernel[f] = None /\ opened[f] = None
  BY DEF IsNext, ReaderInv
<1>3. CASE OpenAndClose({}, gone)
  BY <1>1, <1>3
<1>4. CASE plugged # None /\ \E f \in Fds : IsNext(f) /\ OpenAndClose({f}, gone)
  BY <1>1, <1>2, <1>4
<1> QED
  BY <1>3, <1>4 DEF RescanNodes

LEMMA TickKeepsReaderInv ==
  ASSUME Backoff <= Rescan, ReaderInv, Tick
  PROVE  ReaderInv'
<1>s. Slept \in {1, 2} /\ Rescan \in Nat /\ Backoff \in Nat /\ scanAge \in Nat
  BY DEF Slept, ReaderInv
<1>1. /\ plugged' = plugged
      /\ resume' = [f \in Fds |-> IF Due(f) \/ resume[f] = 0 THEN 0 ELSE resume[f] - Slept]
  BY DEF Tick, world
<1>2. \A f \in Fds : Due(f) <=> resume[f] > 0 /\ resume[f] <= Slept
  BY <1>s DEF Due, ReaderInv
<1>3. /\ resume' \in [Fds -> Nat]
      /\ \A f \in Fds : /\ resume'[f] <= resume[f]
                        /\ resume'[f] = 0 \/ resume'[f] = resume[f] - Slept
                        /\ resume[f] = 0 \/ Due(f) => resume'[f] = 0
  BY <1>s, <1>1, <1>2 DEF ReaderInv
<1>b. \A f \in Fds : resume'[f] <= Backoff
  <2> SUFFICES ASSUME NEW f \in Fds PROVE resume'[f] <= Backoff
    OBVIOUS
  <2>1. resume[f] \in Nat /\ resume[f] <= Backoff
    BY DEF ReaderInv
  <2>2. resume'[f] \in Nat /\ resume'[f] <= resume[f]
    BY <1>3
  <2> QED
    BY <1>s, <2>1, <2>2
<1>4. \A f \in Resumed : f \in Fds /\ opened[f] # None /\ resume'[f] = 0
  BY <1>3 DEF Resumed, Watched
<1>5. CASE scanAge + Slept >= Rescan /\ RescanNodes /\ scanAge' = 0
  <2>1. PICK new \in SUBSET Fds, gone \in SUBSET Fds :
           /\ OpenAndClose(new, gone)
           /\ \A f \in new : kernel[f] = None /\ opened[f] = None
           /\ new # {} => plugged # None
    BY <1>5, RescanShape
  <2>2. /\ kernel' = [f \in Fds |-> IF f \in gone THEN None
                                    ELSE IF f \in new THEN plugged ELSE kernel[f]]
        /\ opened' = [f \in Fds |-> IF f \in gone THEN None
                                    ELSE IF f \in new THEN plugged ELSE opened[f]]
        /\ armed' = (armed \cup Resumed \cup new) \ gone
    BY <2>1 DEF OpenAndClose
  <2>3. \A f \in new : resume'[f] = 0
    <3> SUFFICES ASSUME NEW f \in new, resume'[f] # 0 PROVE FALSE
      OBVIOUS
    <3>1. f \in Fds /\ opened[f] = None /\ resume[f] # 0 /\ resume[f] > Slept
      BY <1>s, <1>2, <1>3, <2>1 DEF ReaderInv
    <3>2. resume[f] + scanAge <= Backoff
      BY <3>1 DEF ReaderInv
    <3>3. resume[f] \in Nat
      BY <3>1 DEF ReaderInv
    <3>4. scanAge + Slept >= Rescan
      BY <1>5
    <3> QED
      BY <1>s, <3>1, <3>2, <3>3, <3>4
  <2>4. /\ kernel' \in [Fds -> Nodes \cup {None, Other}]
        /\ opened' \in [Fds -> Nodes \cup {None}]
        /\ armed' \subseteq Fds
        /\ \A f \in Fds : opened'[f] # None => kernel'[f] = opened'[f]
    BY <1>4, <2>2 DEF ReaderInv
  <2>5. SoundReaders'
    BY <1>3, <1>4, <2>1, <2>2, <2>3 DEF ReaderInv, SoundReaders
  <2>6. \A f \in Fds : resume'[f] <= Backoff /\ resume'[f] + scanAge' <= Backoff
    BY <1>s, <1>3, <1>b, <1>5
  <2> QED
    BY <1>1, <1>3, <1>5, <2>4, <2>5, <2>6 DEF ReaderInv
<1>6. CASE scanAge' = scanAge + Slept /\ armed' = armed \cup Resumed
             /\ UNCHANGED <<kernel, opened>>
  <2>1. SoundReaders'
    BY <1>3, <1>4, <1>6 DEF ReaderInv, SoundReaders
  <2>2. \A f \in Fds : opened[f] = None =>
          resume'[f] = 0 \/ resume'[f] + scanAge' <= Backoff
    BY <1>s, <1>3, <1>6 DEF ReaderInv
  <2>3. armed' \subseteq Fds /\ scanAge' \in Nat
    <3>1. armed' \subseteq Fds
      BY <1>4, <1>6 DEF ReaderInv
    <3>2. scanAge' \in Nat
      BY <1>s, <1>6
    <3> QED
      BY <3>1, <3>2
  <2>4. /\ kernel' = kernel /\ opened' = opened /\ plugged' = plugged
        /\ resume' \in [Fds -> Nat]
    BY <1>1, <1>3, <1>6
  <2> QED
    BY <1>b, <2>1, <2>2, <2>3, <2>4 DEF ReaderInv
<1> QED
  BY <1>5, <1>6 DEF Tick

LEMMA OthersKeepReaderInv ==
  ASSUME ReaderInv,
         \/ Unplug \/ Switch \/ \E n \in Nodes : Plug(n)
         \/ \E f \in Fds : OnReadable(f) \/ BackOffReader(f) \/ OtherFile(f)
  PROVE  ReaderInv'
<1>1. CASE \E f \in Fds : BackOffReader(f)
  <2>1. PICK f \in Fds :
          /\ f \in armed /\ armed' = armed \ {f}
          /\ resume' = [resume EXCEPT ![f] = Backoff]
          /\ UNCHANGED <<plugged, kernel, opened, scanAge>>
    BY <1>1 DEF BackOffReader, world
  <2>2. opened[f] # None
    BY <2>1 DEF ReaderInv, SoundReaders
  <2> QED
    BY <2>1, <2>2 DEF ReaderInv, SoundReaders
<1>2. CASE \E f \in Fds : OtherFile(f)
  <2>1. PICK f \in Fds :
          /\ kernel[f] \in {None, Other}
          /\ \E k \in {None, Other} : kernel' = [kernel EXCEPT ![f] = k]
          /\ UNCHANGED <<plugged, opened, armed, resume, scanAge>>
    BY <1>2 DEF OtherFile, IsNext, world
  <2>2. opened[f] = None
    BY <2>1 DEF ReaderInv
  <2> QED
    BY <2>1, <2>2 DEF ReaderInv, SoundReaders
<1>3. CASE \/ Unplug \/ Switch \/ \E n \in Nodes : Plug(n)
           \/ \E f \in Fds : OnReadable(f)
  <2>1. plugged' \in Nodes \cup {None} /\ UNCHANGED <<fdtable, resume, scanAge>>
    BY <1>3 DEF Unplug, Switch, Plug, OnReadable, ReaderInv, world
  <2> QED
    BY <2>1 DEF ReaderInv, SoundReaders, fdtable
<1> QED
  BY <1>1, <1>2, <1>3

\* A reader is only ever armed on its own node and outside its back-off, with any
\* number of descriptors reused by any of the daemon's files: provided that a
\* rescan never comes sooner than the end of a back-off.  With a shorter interval
\* the number of a dropped node could be given to a new one, whose reader the
\* old back-off would still be pending for (_rescan, _resume_reader).
THEOREM ReadersSound ==
  ASSUME Backoff <= Rescan
  PROVE  HSpec => []SoundReaders
<1>1. HInit => ReaderInv
  BY DEF HInit, ReaderInv, SoundReaders
<1>2. ReaderInv /\ [HNext]_hvars => ReaderInv'
  <2>1. ReaderInv /\ UNCHANGED hvars => ReaderInv'
    BY DEF ReaderInv, SoundReaders, hvars, world, fdtable
  <2> QED
    BY <2>1, TickKeepsReaderInv, OthersKeepReaderInv DEF HNext
<1>3. ReaderInv => SoundReaders
  BY DEF ReaderInv
<1> QED
  BY <1>1, <1>2, <1>3, PTL DEF HSpec

\* Data of the plugged node will arrive in x's own time: its descriptor is armed,
\* or will be when its back-off ends, or is opened by the next rescan.
Fed(x) ==
  \/ \E f \in armed : opened[f] = plugged
  \/ \E f \in Fds : opened[f] = plugged /\ resume[f] > 0 /\ x + resume[f] <= Backoff
  \/ (\A f \in Fds : opened[f] # plugged) /\ x <= scanAge

\* A live controller that is sending is being read, or it has not been silent, or
\* has not been sending, for longer than the reader has been away.
UseInv ==
  /\ quiet \in Nat /\ steady \in Nat /\ failures \in Nat
  /\ ~sending => steady = 0
  /\ plugged = None => ~sending
  /\ scanAge < Rescan
  /\ \A f \in Fds : opened[f] # None => f \in armed \/ resume[f] > 0
  /\ live /\ sending => Fed(quiet) \/ Fed(steady)

\* What is watched on the plugged node is armed, and so read, in this round, or
\* its back-off is shorter by the time slept.
LEMMA TickReads ==
  ASSUME ReaderInv, UseInv, Tick, sending
  PROVE  /\ \A f \in Fds : opened[f] = plugged =>
              /\ opened'[f] = plugged /\ Slept = 1
              /\ f \in armed => f \in armed' /\ quiet = 0
              /\ f \in armed' \/ (resume'[f] > 0 /\ resume'[f] = resume[f] - 1)
         /\ (\A f \in Fds : opened[f] # plugged) =>
              \/ \E f \in armed' : opened'[f] = plugged
              \/ steady' = 0 /\ scanAge' = 0 /\ \A f \in Fds : opened'[f] # plugged
              \/ scanAge' = scanAge + Slept /\ \A f \in Fds : opened'[f] # plugged
<1>p. plugged # None /\ plugged \in Nodes /\ plugged' = plugged
  BY DEF UseInv, ReaderInv, Tick, world
<1>s. Slept \in {1, 2} /\ (Watched # {} => Slept = 1)
  BY DEF Slept
<1>1. ASSUME NEW f \in Fds, opened[f] = plugged
      PROVE  /\ f \in Watched /\ Slept = 1
             /\ f \in armed => quiet = 0
             /\ resume[f] = 1 => f \in Resumed
             /\ f \in armed \/ resume[f] # 0
             /\ resume[f] \in Nat
             /\ resume'[f] = IF resume[f] \in {0, 1} THEN 0 ELSE resume[f] - 1
  <2>1. f \in Watched /\ Slept = 1
    BY <1>1, <1>p, <1>s DEF Watched
  <2>2. f \in armed => quiet = 0
    BY <1>1, <1>p DEF Tick, Arriving, ReaderInv
  <2>r. resume[f] \in Nat
    BY <1>1 DEF ReaderInv
  <2>a. f \in armed \/ resume[f] > 0
    BY <1>1, <1>p DEF UseInv
  <2>3. resume[f] \in Nat /\ (f \in armed \/ resume[f] # 0)
    BY <2>r, <2>a
  <2>4. Due(f) <=> resume[f] = 1
    BY <2>1, <2>3 DEF Due
  <2>5. resume'[f] = IF Due(f) \/ resume[f] = 0 THEN 0 ELSE resume[f] - Slept
    BY DEF Tick
  <2> QED
    BY <2>1, <2>2, <2>3, <2>4, <2>5 DEF Resumed
<1>2. CASE ~(scanAge + Slept >= Rescan)
  <2>1. /\ scanAge' = scanAge + Slept /\ armed' = armed \cup Resumed
        /\ opened' = opened
    BY <1>2 DEF Tick
  <2> QED
    BY <1>1, <2>1
<1>3. CASE scanAge + Slept >= Rescan
  <2> DEFINE gone == {f \in Watched : opened[f] # plugged}
  <2>1. /\ RescanNodes /\ scanAge' = 0
        /\ steady' = 0 \/ failures' = failures
    BY <1>3 DEF Tick
  <2>2. PICK new \in SUBSET Fds :
          /\ OpenAndClose(new, gone)
          /\ \A f \in new : opened[f] = None
          /\ new = {} => failures' # failures \/ \E f \in Watched : opened[f] = plugged
    <3>1. CASE /\ OpenAndClose({}, gone)
               /\ failures' = failures + 1 \/ \E f \in Watched : opened[f] = plugged
      <4>1. failures + 1 # failures
        BY DEF UseInv
      <4> QED
        BY <3>1, <4>1
    <3>2. CASE \E f \in Fds : IsNext(f) /\ OpenAndClose({f}, gone)
      <4>1. PICK f \in Fds : IsNext(f) /\ OpenAndClose({f}, gone)
        BY <3>2
      <4>2. /\ {f} \in SUBSET Fds /\ {f} # {}
            /\ \A g \in {f} : opened[g] = None
        BY <4>1 DEF IsNext, ReaderInv
      <4> HIDE DEF gone
      <4> QED
        BY <4>1, <4>2
    <3> QED
      BY <1>p, <2>1, <3>1, <3>2 DEF RescanNodes
  <2>3. /\ opened' = [f \in Fds |-> IF f \in gone THEN None
                                    ELSE IF f \in new THEN plugged ELSE opened[f]]
        /\ armed' = (armed \cup Resumed \cup new) \ gone
    BY <2>2 DEF OpenAndClose
  <2>4. ASSUME NEW f \in Fds, opened[f] = plugged
        PROVE  /\ opened'[f] = plugged
               /\ f \in armed => f \in armed'
               /\ f \in Resumed => f \in armed'
    BY <2>3, <2>4
  <2>5. ASSUME \A f \in Fds : opened[f] # plugged, new # {}
        PROVE  \E f \in armed' : opened'[f] = plugged
    <3>1. PICK f \in new : TRUE
      BY <2>5
    <3>2. f \notin gone
      BY <2>2, <3>1 DEF Watched
    <3> QED
      BY <2>3, <3>1, <3>2
  <2>6. ASSUME \A f \in Fds : opened[f] # plugged, new = {}
        PROVE  steady' = 0 /\ \A f \in Fds : opened'[f] # plugged
    BY <1>p, <2>1, <2>2, <2>3, <2>6 DEF Watched
  <2> QED
    BY <1>1, <2>1, <2>4, <2>5, <2>6
<1> QED
  BY <1>2, <1>3

LEMMA TickKeepsUseInv ==
  ASSUME ReaderInv, UseInv, Tick
  PROVE  UseInv'
<1>s. /\ Slept \in {1, 2} /\ scanAge \in Nat /\ quiet \in Nat /\ steady \in Nat
      /\ Rescan \in Nat \ {0} /\ RemoveTimeout \in Nat /\ Backoff \in Nat
      /\ scanAge < Rescan /\ MaxFailures \in Nat /\ failures \in Nat
  BY DEF Slept, ReaderInv, UseInv
<1>1. /\ plugged' = plugged /\ sending' = sending /\ (live' => live)
      /\ quiet' = UpTo(quiet, Slept)
      /\ steady' = UpTo(steady, Slept) \/ steady' = 0
      /\ ~sending => steady' = 0
  BY DEF Tick, world
<1>u. \A x \in Nat : UpTo(x, Slept) \in Nat /\ UpTo(x, Slept) <= x + Slept
  BY <1>s DEF UpTo, Cap
<1>2. quiet' \in Nat /\ steady' \in Nat
  BY <1>s, <1>1, <1>u
<1>3. scanAge' < Rescan
  BY <1>s DEF Tick
<1>f. failures' \in Nat
  BY <1>s DEF Tick, RescanNodes
<1>r. \A f \in Fds : /\ resume[f] \in Nat
                     /\ resume'[f] = IF Due(f) \/ resume[f] = 0 THEN 0
                                     ELSE resume[f] - Slept
                     /\ Due(f) <=> resume[f] > 0 /\ resume[f] <= Slept
  BY <1>s DEF Tick, ReaderInv, Due
<1>4. ASSUME NEW f \in Fds, opened'[f] # None, f \notin armed'
      PROVE  resume'[f] > 0
  <2>1. f \notin Resumed /\ f \notin armed /\ opened[f] # None
    <3>1. CASE armed' = armed \cup Resumed /\ opened' = opened
      BY <1>4, <3>1
    <3>2. CASE RescanNodes
      <4>1. PICK new \in SUBSET Fds, gone \in SUBSET Fds : OpenAndClose(new, gone)
        BY <3>2, RescanShape
      <4> QED
        BY <1>4, <4>1 DEF OpenAndClose
    <3> QED
      BY <3>1, <3>2 DEF Tick
  <2>2. resume[f] > 0 /\ ~Due(f)
    BY <2>1 DEF UseInv, Resumed, Watched
  <2> QED
    BY <1>s, <1>r, <2>2
<1>5. ASSUME live, sending PROVE (Fed(quiet) \/ Fed(steady))'
  <2>q. /\ quiet' <= quiet + Slept
        /\ steady' <= steady + Slept
    BY <1>s, <1>1, <1>u
  <2>1. ASSUME NEW f \in Fds, opened[f] = plugged,
               \/ f \in armed
               \/ resume[f] > 0 /\ quiet + resume[f] <= Backoff
               \/ resume[f] > 0 /\ steady + resume[f] <= Backoff
        PROVE  (Fed(quiet) \/ Fed(steady))'
    <3>1. /\ opened'[f] = plugged' /\ Slept = 1
          /\ f \in armed => f \in armed'
          /\ f \in armed' \/ (resume'[f] > 0 /\ resume'[f] = resume[f] - 1)
      BY <1>1, <1>5, <2>1, TickReads
    <3>2. CASE f \in armed'
      BY <3>1, <3>2 DEF Fed
    <3>3. CASE f \notin armed' /\ quiet + resume[f] <= Backoff
      <4>1. quiet' + resume'[f] <= Backoff
        BY <1>s, <1>2, <1>r, <2>q, <3>1, <3>3
      <4> QED
        BY <3>1, <3>3, <4>1 DEF Fed
    <3>4. CASE f \notin armed' /\ steady + resume[f] <= Backoff
      <4>1. steady' + resume'[f] <= Backoff
        BY <1>s, <1>2, <1>r, <2>q, <3>1, <3>4
      <4> QED
        BY <3>1, <3>4, <4>1 DEF Fed
    <3> QED
      BY <2>1, <3>1, <3>2, <3>3, <3>4
  <2>2. CASE (\A f \in Fds : opened[f] # plugged) /\ (quiet <= scanAge \/ steady <= scanAge)
    <3>1. \/ \E f \in armed' : opened'[f] = plugged'
          \/ steady' = 0 /\ scanAge' = 0 /\ \A f \in Fds : opened'[f] # plugged'
          \/ scanAge' = scanAge + Slept /\ \A f \in Fds : opened'[f] # plugged'
      BY <1>1, <1>5, <2>2, TickReads
    <3>2. scanAge' = scanAge + Slept => quiet' <= scanAge' \/ steady' <= scanAge'
      BY <1>s, <1>2, <2>q, <2>2
    <3>3. steady' = 0 /\ scanAge' = 0 => steady' <= scanAge'
      OBVIOUS
    <3> QED
      BY <3>1, <3>2, <3>3 DEF Fed
  <2>3. \A f \in armed : f \in Fds
    BY DEF ReaderInv
  <2> QED
    BY <1>5, <2>1, <2>2, <2>3 DEF UseInv, Fed
<1> QED
  BY <1>1, <1>2, <1>3, <1>4, <1>5, <1>f DEF UseInv

\* Nothing else makes a reader wait: who backs one off has just read from it, the
\* receiver is renumbered only when it was just heard, and a controller that is
\* switched on begins to be in use.
LEMMA OthersKeepUseInv ==
  ASSUME ReaderInv, UseInv,
         \/ Unplug \/ Switch \/ \E n \in Nodes : Plug(n)
         \/ \E f \in Fds : OnReadable(f) \/ BackOffReader(f) \/ OtherFile(f)
  PROVE  UseInv'
<1> USE DEF world, fdtable
<1>n. Backoff \in Nat \ {0} /\ scanAge \in Nat /\ None \notin Nodes
  BY DEF ReaderInv
<1>1. CASE Unplug
  <2>1. /\ ~sending' /\ steady' = 0
        /\ UNCHANGED <<failures, opened, armed, resume, scanAge, quiet>>
    BY <1>1, Zenon DEF Unplug
  <2> QED
    BY <2>1 DEF UseInv
<1>2. CASE Switch
  <2>1. /\ steady' = 0 /\ plugged # None
        /\ UNCHANGED <<plugged, failures, opened, armed, resume, scanAge, quiet, live>>
    BY <1>2 DEF Switch
  <2>2. Fed(steady)'
    <3>1. CASE \A f \in Fds : opened[f] # plugged
      BY <1>n, <2>1, <3>1 DEF Fed
    <3>2. ASSUME NEW f \in Fds, opened[f] = plugged PROVE Fed(steady)'
      <4>1. f \in armed \/ resume[f] > 0
        BY <2>1, <3>2 DEF UseInv
      <4>2. 0 + resume[f] <= Backoff
        BY <1>n DEF ReaderInv
      <4> QED
        BY <2>1, <3>2, <4>1, <4>2 DEF Fed
    <3> QED
      BY <3>1, <3>2
  <2> QED
    BY <2>1, <2>2 DEF UseInv
<1>3. ASSUME NEW n \in Nodes, Plug(n) PROVE UseInv'
  <2>1. \A f \in Fds : opened[f] # n
    BY <1>n, <1>3 DEF Plug, Unused, ReaderInv
  <2>2. /\ plugged' = n /\ sending' = sending /\ live' = live
        /\ UNCHANGED <<failures, opened, armed, resume, scanAge, quiet, steady>>
        /\ sending /\ live => quiet = 0
    BY <1>3 DEF Plug, UseInv
  <2>3. sending /\ live => Fed(quiet)'
    BY <1>n, <2>1, <2>2 DEF Fed
  <2> QED
    BY <1>n, <2>2, <2>3 DEF UseInv
<1>4. ASSUME NEW f \in Fds, OnReadable(f) PROVE UseInv'
  <2>1. f \in armed /\ opened[f] = plugged
    BY <1>4 DEF OnReadable, Arriving, ReaderInv, SoundReaders
  <2>2. /\ quiet' = 0
        /\ UNCHANGED <<plugged, sending, failures, opened, armed, resume, scanAge, steady>>
    BY <1>4 DEF OnReadable
  <2>3. Fed(quiet)'
    BY <2>1, <2>2 DEF Fed
  <2> QED
    BY <2>2, <2>3 DEF UseInv
<1>5. ASSUME NEW f \in Fds, BackOffReader(f) PROVE UseInv'
  <2>1. /\ f \in armed /\ armed' = armed \ {f}
        /\ resume' = [resume EXCEPT ![f] = Backoff]
        /\ UNCHANGED <<plugged, sending, failures, opened, scanAge, quiet, steady, live>>
    BY <1>5 DEF BackOffReader
  <2>2. /\ opened[f] = kernel[f]
        /\ resume'[f] = Backoff
        /\ \A g \in Fds \ {f} : resume'[g] = resume[g]
    BY <2>1 DEF ReaderInv, SoundReaders
  <2>3. CASE Arriving(f) /\ quiet = 0
    <3>0. /\ opened'[f] = plugged' /\ resume'[f] > 0
          /\ quiet' + resume'[f] <= Backoff
      BY <1>n, <2>1, <2>2, <2>3 DEF Arriving
    <3>1. Fed(quiet)'
      BY <3>0 DEF Fed
    <3> QED
      BY <1>n, <2>1, <2>2, <3>1 DEF UseInv
  <2>4. CASE kernel[f] # plugged
    <3>1. \A x \in {quiet, steady} : Fed(x) =>
            \/ \E g \in armed' : opened'[g] = plugged'
            \/ \E g \in Fds : opened'[g] = plugged' /\ resume'[g] > 0
                               /\ x + resume'[g] <= Backoff
            \/ (\A g \in Fds : opened'[g] # plugged') /\ x <= scanAge'
      BY <2>1, <2>2, <2>4 DEF Fed
    <3>2. (Fed(quiet) => Fed(quiet)') /\ (Fed(steady) => Fed(steady)')
      BY <2>1, <3>1 DEF Fed
    <3> QED
      BY <1>n, <2>1, <2>2, <3>2 DEF UseInv
  <2> QED
    BY <1>5, <2>3, <2>4 DEF BackOffReader
<1>6. ASSUME NEW f \in Fds, OtherFile(f) PROVE UseInv'
  BY <1>6 DEF OtherFile, UseInv, Fed
<1> QED
  BY <1>1, <1>2, <1>3, <1>4, <1>5, <1>6

\* A device in use is not reported gone, for any nodes, descriptors and failures
\* to open, if the timeout is longer than the rescan interval and that no shorter
\* than the back-off: neither a rescan that is due nor a back-off nor the node
\* coming back under another number in the meantime is long enough (_run).
THEOREM InUseStaysLive ==
  ASSUME Backoff <= Rescan, Rescan < RemoveTimeout
  PROVE  HSpec => NeverRemovedInUse
<1>1. HInit => ReaderInv /\ UseInv
  BY DEF HInit, ReaderInv, SoundReaders, UseInv, Cap
<1>2. ReaderInv /\ UseInv /\ [HNext]_hvars => ReaderInv' /\ UseInv'
  <2>1. ASSUME ReaderInv, UseInv, UNCHANGED hvars PROVE ReaderInv' /\ UseInv'
    <3>1. ReaderInv'
      BY <2>1 DEF ReaderInv, SoundReaders, hvars, world, fdtable
    <3>2. UseInv'
      BY <2>1 DEF UseInv, Fed, hvars, world, fdtable
    <3> QED
      BY <3>1, <3>2
  <2> QED
    BY <2>1, TickKeepsReaderInv, OthersKeepReaderInv, TickKeepsUseInv, OthersKeepUseInv
       DEF HNext
<1>3. ASSUME ReaderInv, UseInv, [HNext]_hvars, live, ~live'
      PROVE  steady < RemoveTimeout
  <2> SUFFICES ASSUME ~(steady < RemoveTimeout) PROVE FALSE
    OBVIOUS
  <2>s. /\ Slept \in {1, 2} /\ scanAge \in Nat /\ quiet \in Nat /\ steady \in Nat
        /\ Rescan \in Nat \ {0} /\ RemoveTimeout \in Nat \ {0} /\ Backoff \in Nat
        /\ scanAge < Rescan
    BY <1>3 DEF Slept, ReaderInv, UseInv
  <2>1. Tick
    BY <1>3 DEF HNext, Unplug, Switch, Plug, OnReadable, BackOffReader, OtherFile, hvars
  <2>2. UpTo(quiet, Slept) > RemoveTimeout
    <3>1. UpTo(quiet, Slept) \in Nat
      BY <2>s DEF UpTo, Cap
    <3>2. quiet' = UpTo(quiet, Slept) /\ ~(quiet' <= RemoveTimeout)
      BY <1>3, <2>1, Zenon DEF Tick
    <3> QED
      BY <2>s, <3>1, <3>2
  <2>3. quiet + Slept > RemoveTimeout
    BY <2>s, <2>2 DEF UpTo, Cap
  <2>4. sending
    BY <1>3, <2>s DEF UseInv
  <2>5. \A f \in Fds : opened[f] = plugged => Slept = 1 /\ (f \in armed => quiet = 0)
    BY <1>3, <2>1, <2>4, TickReads
  <2>6. \A f \in armed : f \in Fds /\ opened[f] # plugged
    <3>1. armed \subseteq Fds
      BY <1>3 DEF ReaderInv
    <3> QED
      BY <2>s, <2>3, <2>5, <3>1
  <2>7. ASSUME NEW f \in Fds, opened[f] = plugged, resume[f] > 0,
               quiet + resume[f] <= Backoff \/ steady + resume[f] <= Backoff
        PROVE  FALSE
    <3>1. resume[f] \in Nat /\ Slept = 1
      BY <1>3, <2>5, <2>7 DEF ReaderInv
    <3> QED
      BY <2>s, <2>3, <2>7, <3>1
  <2>8. ~(quiet <= scanAge) /\ ~(steady <= scanAge)
    BY <2>s, <2>3
  <2> QED
    BY <1>3, <2>4, <2>6, <2>7, <2>8 DEF UseInv, Fed
<1> QED
  BY <1>1, <1>2, <1>3, PTL DEF HSpec, NeverRemovedInUse
=============================================================================
