------------------------------- MODULE Hidraw -------------------------------
(***************************************************************************)
(* The liveness watcher of devices/detect.py: receivers that announce      *)
(* nothing when a controller powers on or off are watched for report data. *)
(* _rescan opens the device's hidraw node, _on_readable notes data, and    *)
(* the loop of _run reports a device that has been silent too long.  A     *)
(* node that floods is taken out of the selector for a while.              *)
(*                                                                         *)
(* Time goes in ticks of half a second, one sleep of the loop.  File       *)
(* descriptors are numbers the kernel reuses once they are closed.  What   *)
(* the devices do not share is modelled for one device.                    *)
(***************************************************************************)
EXTENDS Naturals

CONSTANTS
  Nodes,         \* hidraw nodes the device can appear as
  Fds,           \* file descriptor numbers
  None, Other,   \* nothing, or something that is no hidraw node
  Rescan,        \* rescan_interval_s, in ticks
  RemoveTimeout, \* remove_timeout_s
  Backoff,       \* flood_backoff_s
  MaxRenumbers,  \* bound: times the receiver comes back as another node
  MaxFailures    \* bound: failed opens

ASSUME HidrawAssumption ==
  /\ {None, Other} \cap Nodes = {} /\ Fds \subseteq Nat
  /\ {Rescan, RemoveTimeout, Backoff} \subseteq Nat \ {0}
  /\ {MaxRenumbers, MaxFailures} \subseteq Nat

VARIABLES
  plugged,   \* the node the receiver has in /dev, or None
  sending,   \* the controller is on: reports arrive many times a tick
  steady,    \* ticks it has been sending without a pause, and its node could
             \* be opened, up to Cap
  renumbers, \* renumberings so far
  failures,  \* failed opens so far
  kernel,    \* what each descriptor is open on: a node, Other or None
  opened,    \* _fds: the node each descriptor was opened for, or None
  armed,     \* descriptors with a reader in the selector
  resume,    \* ticks until _resume_reader(fd), or 0
  scanAge,   \* ticks since the last rescan
  quiet,     \* ticks since the last data, up to Cap
  live       \* the device is in _reported_live

world == <<plugged, sending, renumbers>>
fdtable == <<kernel, opened, armed>>
hvars == <<world, failures, steady, fdtable, resume, scanAge, quiet, live>>

Cap == RemoveTimeout + 1
UpTo(n, d) == IF n + d > Cap THEN Cap ELSE n + d
Watched == {f \in Fds : opened[f] # None}

\* open() returns the lowest number that is free.
IsNext(f) == kernel[f] = None /\ \A g \in Fds : kernel[g] = None => f <= g

-----------------------------------------------------------------------------
(* The selector's callbacks.                                               *)

\* Data is there: it is read in the tick in which it arrives.
Arriving(f) == f \in armed /\ kernel[f] = plugged /\ sending

\* _on_readable below the flood threshold; the first data reports an ADD.
OnReadable(f) ==
  /\ Arriving(f) /\ quiet # 0
  /\ quiet' = 0 /\ live' = TRUE
  /\ UNCHANGED <<world, failures, steady, fdtable, resume, scanAge>>

\* _back_off_reader: too many reads in this second, of reports, or of errors
\* from a node that is gone.
BackOffReader(f) ==
  /\ f \in armed
  /\ (Arriving(f) /\ quiet = 0) \/ kernel[f] # plugged
  /\ armed' = armed \ {f}
  /\ resume' = [resume EXCEPT ![f] = Backoff]
  /\ UNCHANGED <<world, failures, steady, kernel, opened, scanAge, quiet, live>>

-----------------------------------------------------------------------------
(* One round of _run, from the end of its sleep to the next.               *)

\* The sleep is longer while no node is open.
Slept == IF Watched = {} THEN 2 ELSE 1

Due(f) == resume[f] \in 1 .. Slept

\* Mutants of Resumed: _fds is not asked; nobody resumes.
ResumedNever == {}
ResumedAlways == {f \in Fds : Due(f)}

\* _resume_reader, when its call_later is due.
Resumed == {f \in Watched : Due(f)}

OpenAndClose(new, gone) ==
  /\ kernel' = [f \in Fds |-> IF f \in gone THEN None
                              ELSE IF f \in new THEN plugged ELSE kernel[f]]
  /\ opened' = [f \in Fds |-> IF f \in gone THEN None
                              ELSE IF f \in new THEN plugged ELSE opened[f]]
  /\ armed' = (armed \cup Resumed \cup new) \ gone

\* Mutant of RescanNodes: nothing is opened before all that is stale is closed.
RescanWhenEmpty ==
  LET gone == {f \in Watched : opened[f] # plugged}
  IN /\ UNCHANGED failures
     /\ \/ Watched # {} /\ OpenAndClose({}, gone)
        \/ Watched = {} /\ plugged = None /\ OpenAndClose({}, {})
        \/ Watched = {} /\ plugged # None
           /\ \E f \in Fds : IsNext(f) /\ OpenAndClose({f}, {})

\* _rescan: the node is opened unless it is, then the stale ones are closed.
\* A node that is not readable yet is tried again by the next.
RescanNodes ==
  LET gone == {f \in Watched : opened[f] # plugged}
      missing == plugged # None /\ \A f \in Watched : opened[f] # plugged
  IN \/ ~missing /\ OpenAndClose({}, gone) /\ UNCHANGED failures
     \/ /\ missing /\ \E f \in Fds : IsNext(f) /\ OpenAndClose({f}, gone)
        /\ UNCHANGED failures
     \/ /\ missing /\ OpenAndClose({}, gone)
        /\ failures < MaxFailures /\ failures' = failures + 1

Tick ==
  /\ \A f \in Fds : Arriving(f) => quiet = 0
  /\ quiet' = UpTo(quiet, Slept)
  /\ live' = (live /\ quiet' <= RemoveTimeout)
  /\ resume' = [f \in Fds |-> IF Due(f) \/ resume[f] = 0 THEN 0
                              ELSE resume[f] - Slept]
  /\ IF scanAge + Slept >= Rescan
     THEN RescanNodes /\ scanAge' = 0
     ELSE /\ scanAge' = scanAge + Slept
          /\ armed' = armed \cup Resumed
          /\ UNCHANGED <<kernel, opened, failures>>
  /\ steady' = IF sending /\ failures' = failures
               THEN UpTo(steady, Slept) ELSE 0
  /\ UNCHANGED world

-----------------------------------------------------------------------------
(* The receiver, the controller, and the daemon's other files.             *)

\* The kernel keeps a node's number while a descriptor is open on it.
Unused(n) == \A f \in Fds : kernel[f] # n

\* The receiver is plugged in, or comes back as another node at once.
Plug(n) ==
  /\ renumbers < MaxRenumbers /\ Unused(n) /\ n # plugged
  /\ plugged # None => quiet = 0 \/ ~live
  /\ plugged' = n
  /\ renumbers' = renumbers + 1
  /\ UNCHANGED <<sending, failures, steady, fdtable, resume, scanAge, quiet, live>>

Unplug ==
  /\ plugged # None
  /\ plugged' = None /\ sending' = FALSE /\ steady' = 0
  /\ UNCHANGED <<renumbers, failures, fdtable, resume, scanAge, quiet, live>>

Switch ==
  /\ plugged # None
  /\ sending' = ~sending /\ steady' = 0
  /\ UNCHANGED <<plugged, renumbers, failures, fdtable, resume, scanAge, quiet, live>>

\* The daemon opens and closes another file, one at a time.
OtherFile(f) ==
  /\ \/ /\ IsNext(f) /\ \A g \in Fds : kernel[g] # Other
        /\ kernel' = [kernel EXCEPT ![f] = Other]
     \/ kernel[f] = Other /\ kernel' = [kernel EXCEPT ![f] = None]
  /\ UNCHANGED <<world, failures, steady, opened, armed, resume, scanAge, quiet, live>>

HInit ==
  /\ plugged = None /\ sending = FALSE /\ steady = 0 /\ renumbers = 0
  /\ failures = 0
  /\ kernel = [f \in Fds |-> None] /\ opened = [f \in Fds |-> None]
  /\ armed = {} /\ resume = [f \in Fds |-> 0]
  /\ scanAge = 0 /\ quiet = Cap /\ live = FALSE

HNext ==
  \/ Tick \/ Unplug \/ Switch
  \/ \E n \in Nodes : Plug(n)
  \/ \E f \in Fds : OnReadable(f) \/ BackOffReader(f) \/ OtherFile(f)

\* The loop runs, and what is readable is read.
HFairness == WF_hvars(Tick) /\ \A f \in Fds : WF_hvars(OnReadable(f))

HSpec == HInit /\ [][HNext]_hvars
FairHSpec == HSpec /\ HFairness

-----------------------------------------------------------------------------
HTypeOK ==
  /\ plugged \in Nodes \cup {None} /\ {sending, live} \subseteq BOOLEAN
  /\ renumbers \in 0 .. MaxRenumbers /\ failures \in 0 .. MaxFailures
  /\ kernel \in [Fds -> Nodes \cup {None, Other}]
  /\ opened \in [Fds -> Nodes \cup {None}]
  /\ armed \subseteq Fds
  /\ resume \in [Fds -> 0 .. Backoff]
  /\ scanAge \in 0 .. Rescan
  /\ {quiet, steady} \subseteq 0 .. Cap

\* A reader is only armed on a descriptor that is open on the node it was
\* opened for, and never during its back-off: a number the kernel has given to
\* another file since, or that belongs to a node already dropped, is left alone
\* (_resume_reader's check), and a node that floods stays out of the selector
\* whatever rescans, closes and reuses of its number happen meanwhile.
SoundReaders ==
  \A f \in armed : opened[f] # None /\ kernel[f] = opened[f] /\ resume[f] = 0

\* A controller in steady use is not reported removed, not while its receiver
\* comes back under another node, and not while it floods.
NeverRemovedInUse == [][live /\ ~live' => steady < RemoveTimeout]_hvars

\* A controller that stays on is reported in the end, and one that stays off is
\* reported removed.
ReportsController ==
  /\ <>[]sending => <>[]live
  /\ <>[]~sending => <>[]~live
=============================================================================
