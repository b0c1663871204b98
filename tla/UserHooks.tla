----------------------------- MODULE UserHooks -----------------------------
(***************************************************************************)
(* actions/hooks.py: the commands a user attached to a phase of a          *)
(* transition run one after the other, each the leader of a process group  *)
(* of its own.  A command that takes too long, or whose transition is      *)
(* cancelled, is given up: its group is asked to terminate and, if that    *)
(* does not help, killed.                                                  *)
(*                                                                         *)
(* A command is two processes: the shell, and what it may leave in the     *)
(* background, with or without the pipe its output is read from.           *)
(***************************************************************************)
EXTENDS Naturals

CONSTANTS
  MaxCommands,  \* bound: commands of a phase
  Stubborn      \* the processes that may ignore SIGTERM

Group == {"leader", "child"}

ASSUME HooksAssumption == MaxCommands \in Nat /\ Stubborn \subseteq Group

VARIABLES
  hook,     \* where run_phase is
  left,     \* commands still to run, the current one included
  procs,    \* the live processes of the current command
  piped,    \* its child holds the output pipe
  giving,   \* why the current command is killed: "timeout", "cancel" or "no"
  outlived  \* what has outlived a killing that came to its end: <<p, h>> for a
            \* process p "asked" to terminate, or "killed"

hvars == <<hook, left, procs, piped, giving, outlived>>

HInit ==
  /\ hook = "idle" /\ left = 0 /\ procs = {} /\ piped = FALSE
  /\ giving = "no" /\ outlived = {}

\* The commands are read from the configuration anew for every phase.
RunPhase ==
  /\ hook = "idle"
  /\ left' \in 0 .. MaxCommands
  /\ hook' = IF left' = 0 THEN "done" ELSE "spawn"
  /\ UNCHANGED <<procs, piped, giving, outlived>>

\* On to the next command, or out of run_phase.
Proceed ==
  /\ procs' = {} /\ piped' = FALSE /\ giving' = "no"
  /\ left' = IF giving = "cancel" THEN 0 ELSE left - 1
  /\ hook' = IF giving = "cancel" THEN "cancelled"
             ELSE IF left = 1 THEN "done" ELSE "spawn"

\* The command starts, or could not be started.
Spawn ==
  /\ hook = "spawn"
  /\ \/ /\ hook' = "wait"
        /\ procs' \in {{"leader"}, Group}
        /\ piped' \in {FALSE, procs' = Group}
        /\ UNCHANGED <<left, giving>>
     \/ Proceed
  /\ UNCHANGED outlived

ProcessExits(p) ==
  /\ p \in procs
  /\ procs' = procs \ {p}
  /\ UNCHANGED <<hook, left, piped, giving, outlived>>

\* communicate returns at the end of the output and of the shell.  A child
\* that let go of the pipe is left running, as its author meant it to.
Communicated ==
  /\ hook = "wait"
  /\ "leader" \notin procs
  /\ piped => "child" \notin procs
  /\ Proceed
  /\ UNCHANGED outlived

\* What may be left after SIGTERM to the group.
Survivors(ps) == SUBSET (ps \cap Stubborn)

GiveUpCommand(why) ==
  /\ hook = "wait"
  /\ hook' = "term"
  /\ giving' = why
  /\ procs' \in Survivors(procs)
  /\ UNCHANGED <<left, piped, outlived>>

\* Mutant of TimeOut: a command is waited for without a limit.
TimeOutNever == FALSE

TimeOut == GiveUpCommand("timeout")

\* Mutant of SigKilled: the shell is killed, not its group.
SigKilledShell(ps) == ps \ {"leader"}

\* What is left after SIGKILL to the group.
SigKilled(ps) == {}

\* _kill_group: the wait is for the shell, which some Python versions only
\* report once the pipe is closed; after two seconds the group is killed.
KillEnds ==
  /\ hook = "term"
  /\ \/ /\ "leader" \notin procs
        /\ outlived' = outlived \cup (procs \X {"asked"})
     \/ /\ "leader" \in procs \/ (piped /\ "child" \in procs)
        /\ outlived' = outlived \cup (SigKilled(procs) \X {"killed"})
  /\ Proceed

\* The transition is cancelled: a running command is killed first, a killing
\* under way is cut short.
CancelPhase ==
  \/ GiveUpCommand("cancel")
  \/ /\ hook \in {"spawn", "term"}
     /\ hook' = "cancelled"
     /\ left' = 0 /\ procs' = {} /\ piped' = FALSE /\ giving' = "no"
     /\ UNCHANGED outlived

Return ==
  /\ hook \in {"done", "cancelled"}
  /\ hook' = "idle"
  /\ UNCHANGED <<left, procs, piped, giving, outlived>>

HTypeOK ==
  /\ hook \in {"idle", "spawn", "wait", "term", "done", "cancelled"}
  /\ left \in 0 .. MaxCommands /\ procs \subseteq Group /\ piped \in BOOLEAN
  /\ giving \in {"no", "timeout", "cancel"}
  /\ outlived \subseteq Group \X {"asked", "killed"}

\* What the module docstring of hooks.py promises of a command that takes too long:
\* "it is killed after `timeout_s` (whole process group)".
NothingOutlived == outlived = {}

\* What the code keeps of that, for a command that timed out or was cancelled, where
\* its killing is not itself cancelled: it may leave a background process that
\* ignores SIGTERM and whose shell has heeded it, never the shell and nothing that
\* outlasts the two seconds with it.
GivenUpCommandsDie ==
  \A o \in outlived : o[2] = "asked" /\ o[1] \in Stubborn \ {"leader"}
=============================================================================
