----------------------------- MODULE ManualExit -----------------------------
(***************************************************************************)
(* ManualExitWatcher: a task that reads the owner's buttons, and under it  *)
(* one that runs the exit to desk after they were held for ten seconds.    *)
(* start() and stop() wait for the task they end, and nothing keeps two    *)
(* calls apart: `_task` is written by whoever wakes up last.               *)
(*                                                                         *)
(* When a watch ends, it cancels the hold under it, be it long past the    *)
(* hold and in the middle of the exit it asked for.                        *)
(***************************************************************************)
EXTENDS Naturals

CONSTANTS
  Watches,  \* bound: watch tasks that are not forgotten, 1 .. n
  Users     \* who starts and stops the watcher

ASSUME ManualExitAssumption == Watches \subseteq Nat \ {0}

VARIABLES
  task,   \* _task, or 0
  watch,  \* each watch task: "reading", "ending" (cancelled) or "done"
  hold,   \* its hold_task: "none", "held", "fired" (in on_exit) or "spent"
  op      \* each user's call: "none", or "start" or "stop" and what it awaits

mvars == <<task, watch, hold, op>>

NoCall == [does |-> "none", on |-> 0]

MInit ==
  /\ task = 0
  /\ watch = [w \in Watches |-> "done"]
  /\ hold = [w \in Watches |-> "none"]
  /\ op = [u \in Users |-> NoCall]

Forgotten(w) ==
  /\ watch[w] = "done" /\ hold[w] = "none" /\ task # w
  /\ \A u \in Users : op[u].on # w

\* The rest of start() or stop() once nothing is left to await: a new watch if
\* the owner's event node is found.
Finish(does) ==
  \/ does = "stop" /\ task' = 0 /\ UNCHANGED watch
  \/ does = "start" /\ task' = 0 /\ UNCHANGED watch
  \/ /\ does = "start"
     /\ \E w \in Watches :
          /\ Forgotten(w) /\ \A v \in Watches : v < w => ~Forgotten(v)
          /\ task' = w
          /\ watch' = [watch EXCEPT ![w] = "reading"]

\* Mutants of CallWatcher: start leaves the old watch alone; the cancelled watch
\* is not awaited.
CallWithoutStopping(u, does) ==
  /\ op[u] = NoCall
  /\ IF task = 0 \/ watch[task] = "done" \/ does = "start"
     THEN /\ Finish(does)
          /\ op' = [op EXCEPT ![u] = [does |-> "done", on |-> 0]]
     ELSE /\ watch' = [watch EXCEPT ![task] = "ending"]
          /\ op' = [op EXCEPT ![u] = [does |-> does, on |-> task]]
          /\ UNCHANGED task
  /\ UNCHANGED hold

CallWithoutWaiting(u, does) ==
  /\ op[u] = NoCall
  /\ IF task = 0 \/ watch[task] = "done"
     THEN /\ Finish(does)
          /\ op' = [op EXCEPT ![u] = [does |-> "done", on |-> 0]]
     ELSE /\ watch' = [watch EXCEPT ![task] = "ending"]
          /\ op' = [op EXCEPT ![u] = IF does = "stop" THEN [does |-> "done", on |-> 0]
                                                       ELSE [does |-> does, on |-> task]]
          /\ task' = IF does = "stop" THEN 0 ELSE task
  /\ UNCHANGED hold

\* start or stop up to its await, or to its end when there is none.
CallWatcher(u, does) ==
  /\ op[u] = NoCall
  /\ IF task = 0 \/ watch[task] = "done"
     THEN /\ Finish(does)
          /\ op' = [op EXCEPT ![u] = [does |-> "done", on |-> 0]]
     ELSE /\ watch' = [watch EXCEPT ![task] = "ending"]
          /\ op' = [op EXCEPT ![u] = [does |-> does, on |-> task]]
          /\ UNCHANGED task
  /\ UNCHANGED hold

\* The awaited watch is over.  The CancelledError is swallowed, whoever it was
\* meant for.
Awake(u) ==
  /\ op[u].on # 0 /\ watch[op[u].on] = "done"
  /\ Finish(op[u].does)
  /\ op' = [op EXCEPT ![u] = [does |-> "done", on |-> 0]]
  /\ UNCHANGED hold

MReturn(u) ==
  /\ op[u].does = "done"
  /\ op' = [op EXCEPT ![u] = NoCall]
  /\ UNCHANGED <<task, watch, hold>>

\* A cancelled watch reaches its finally clause; a watch loses its node.
WatchEnds(w) ==
  /\ watch[w] \in {"ending", "reading"}
  /\ watch' = [watch EXCEPT ![w] = "done"]
  /\ hold' = [hold EXCEPT ![w] = "none"]
  /\ UNCHANGED <<task, op>>

\* All buttons are down.
Press(w) ==
  /\ watch[w] = "reading" /\ hold[w] = "none"
  /\ hold' = [hold EXCEPT ![w] = "held"]
  /\ UNCHANGED <<task, watch, op>>

\* One of them is let go of, which cancels the hold task wherever it is.
LetGo(w) ==
  /\ watch[w] = "reading" /\ hold[w] # "none"
  /\ hold' = [hold EXCEPT ![w] = "none"]
  /\ UNCHANGED <<task, watch, op>>

\* Held for ten seconds: on_exit is called.
Fire(w) ==
  /\ hold[w] = "held"
  /\ hold' = [hold EXCEPT ![w] = "fired"]
  /\ UNCHANGED <<task, watch, op>>

\* on_exit returns.  Pressing the buttons again does nothing until they are
\* let go of.
Spend(w) == hold' = [hold EXCEPT ![w] = IF hold[w] = "fired" THEN "spent" ELSE hold[w]]

MTypeOK ==
  /\ task \in Watches \cup {0}
  /\ watch \in [Watches -> {"reading", "ending", "done"}]
  /\ hold \in [Watches -> {"none", "held", "fired", "spent"}]
  /\ op \in [Users -> [does : {"none", "start", "stop", "done"}, on : Watches \cup {0}]]
=============================================================================
