------------------------------ MODULE Launcher ------------------------------
(***************************************************************************)
(* actions/launchers.py with the preset "steam-bigpicture": launching ends *)
(* a running Steam and starts a fresh one, exiting ends it.  Both ask      *)
(* `steam -shutdown`, itself a process named steam, and wait for the       *)
(* processes that were there before.  The couch session and the API call   *)
(* them, and do not wait for one another.                                  *)
(***************************************************************************)
EXTENDS Naturals

CONSTANTS
  Pids,    \* bound: processes named steam at a time, 1 .. n
  Callers  \* who launches and exits

VARIABLES
  steam,  \* what runs under each pid: a "client", a "boot"strap or "none"
  stale,  \* clients that lived through a switch of the display mode, and whose
          \* end nobody has given up waiting for since
  call,   \* where each caller's launch or exit is
  goal,   \* which of the two it is
  prior   \* prior_pids

lvars == <<steam, stale, call, goal, prior>>

Running == {p \in Pids : steam[p] # "none"}
Clients == {p \in Pids : steam[p] = "client"}

\* A process named steam starts, under a pid no process has.
Appears(kind) ==
  \E p \in Pids \ Running :
    /\ \A q \in Pids \ Running : p <= q
    /\ steam' = [steam EXCEPT ![p] = kind]

LInit ==
  /\ steam \in {[p \in Pids |-> IF p \in on THEN "client" ELSE "none"] : on \in {{}, {1}}}
  /\ stale = {}
  /\ call = [x \in Callers |-> "idle"]
  /\ goal = [x \in Callers |-> "exit"]
  /\ prior = [x \in Callers |-> {}]

\* Mutant of StartsAtOnce: a running Steam is reused.
StartsAlways == TRUE

StartsAtOnce == Running = {}

\* launch_steam_bigpicture and exit_launched, up to the process list read
\* before -shutdown.  No suspension lies between the two looks at it.
Begin(x, g) ==
  /\ call[x] = "idle"
  /\ goal' = [goal EXCEPT ![x] = g]
  /\ prior' = [prior EXCEPT ![x] = IF StartsAtOnce THEN {} ELSE Running]
  /\ call' = [call EXCEPT ![x] =
                IF ~StartsAtOnce THEN "ask" ELSE IF g = "launch" THEN "start" ELSE "done"]
  /\ UNCHANGED <<steam, stale>>

\* steam -shutdown; without a steam command nothing appears.
Ask(x) ==
  /\ call[x] = "ask"
  /\ Appears("boot") \/ UNCHANGED steam
  /\ call' = [call EXCEPT ![x] = "wait"]
  /\ UNCHANGED <<stale, goal, prior>>

AfterWait(x) ==
  /\ call' = [call EXCEPT ![x] = IF goal[x] = "launch" THEN "start" ELSE "done"]
  /\ prior' = [prior EXCEPT ![x] = {}]

WaitedEnough(x) == prior[x] \cap Running = {}

Poll(x) ==
  /\ call[x] = "wait" /\ WaitedEnough(x)
  /\ AfterWait(x)
  /\ UNCHANGED <<steam, stale, goal>>

\* 120 s after -shutdown: "proceeding anyway".
WaitTimesOut(x) ==
  /\ call[x] = "wait" /\ ~WaitedEnough(x)
  /\ AfterWait(x)
  /\ stale' = stale \ prior[x]
  /\ UNCHANGED <<steam, goal>>

Start(x) ==
  /\ call[x] = "start"
  /\ Appears("client") \/ UNCHANGED steam
  /\ call' = [call EXCEPT ![x] = "done"]
  /\ UNCHANGED <<stale, goal, prior>>

LReturn(x) ==
  /\ call[x] = "done"
  /\ call' = [call EXCEPT ![x] = "idle"]
  /\ goal' = [goal EXCEPT ![x] = "exit"]
  /\ UNCHANGED <<steam, stale, prior>>

\* The caller's task is cancelled.
Drop(x) ==
  /\ call[x] # "idle"
  /\ call' = [call EXCEPT ![x] = "idle"]
  /\ prior' = [prior EXCEPT ![x] = {}]
  /\ UNCHANGED <<steam, stale, goal>>

\* A process ends, asked or not.
SteamExits(p) ==
  /\ p \in Running
  /\ steam' = [steam EXCEPT ![p] = "none"]
  /\ stale' = stale \ {p}
  /\ UNCHANGED <<call, goal, prior>>

\* Someone starts Steam by hand, which runs it once.
SteamStarts ==
  /\ Clients = {}
  /\ Appears("client")
  /\ UNCHANGED <<stale, call, goal, prior>>

\* The display mode changes under what is running.
ModeSet ==
  /\ stale' = stale \cup Clients
  /\ UNCHANGED <<steam, call, goal, prior>>

LTypeOK ==
  /\ steam \in [Pids -> {"none", "client", "boot"}]
  /\ stale \subseteq Clients
  /\ call \in [Callers -> {"idle", "ask", "wait", "start", "done"}]
  /\ goal \in [Callers -> {"launch", "exit"}]
  /\ prior \in [Callers -> SUBSET Pids]
=============================================================================
