-------------------------------- MODULE Udev --------------------------------
(***************************************************************************)
(* UdevWatcher of detect.py.  A controller is two device nodes, a "hid"    *)
(* one that names it and its "input" child that does not; the kernel       *)
(* announces each on its own.  The observer thread turns an announcement   *)
(* into an event under the controller's identity, which an input node can  *)
(* only learn from its parent, and hands it to the event loop.             *)
(*                                                                         *)
(* Nothing is announced of the controllers attached when the daemon        *)
(* starts: the watcher listens, it does not enumerate.                     *)
(***************************************************************************)
EXTENDS Naturals, Sequences, FiniteSets

CONSTANTS
  Controllers,  \* by their HID_UNIQ
  Bare,         \* the id, usb:vid:pid, of an input node whose parent is gone
  MaxLag        \* bound: announcements on their way

ASSUME UdevAssumption ==
  /\ Bare \notin Controllers /\ "none" \notin Controllers \cup {Bare}
  /\ MaxLag \in Nat

VARIABLES
  named,     \* controllers that is_candidate_hid knows by name or vendor
  attached,  \* controllers whose nodes exist
  netlink,   \* what the kernel announced and the thread has not read
  resolved,  \* _resolved_by_devpath: the id of each node, or "none"
  handed     \* what waits behind call_soon_threadsafe

uvars == <<named, attached, netlink, resolved, handed>>

Ids == Controllers \cup {Bare}
Subsystems == {"hid", "input"}
Nodes == Controllers \X Subsystems

UInit ==
  /\ named \in SUBSET Controllers
  /\ attached \in SUBSET Controllers
  /\ netlink = <<>> /\ handed = <<>>
  /\ resolved = [n \in Nodes |-> "none"]

Announced(c, sub, action) == [node |-> <<c, sub>>, action |-> action]

HasRoom == Len(netlink) + Len(handed) + 2 <= MaxLag

PlugIn(c) ==
  /\ c \notin attached /\ HasRoom
  /\ attached' = attached \cup {c}
  /\ netlink' = netlink \o <<Announced(c, "hid", "add"), Announced(c, "input", "add")>>
  /\ UNCHANGED <<named, resolved, handed>>

PullOut(c) ==
  /\ c \in attached /\ HasRoom
  /\ attached' = attached \ {c}
  /\ netlink' = netlink \o
       <<Announced(c, "input", "remove"), Announced(c, "hid", "remove")>>
  /\ UNCHANGED <<named, resolved, handed>>

\* udevadm trigger, which the package manager runs: every node "changed".
Retrigger(c) ==
  /\ c \in attached /\ HasRoom
  /\ netlink' = netlink \o
       <<Announced(c, "hid", "change"), Announced(c, "input", "change")>>
  /\ UNCHANGED <<named, attached, resolved, handed>>

\* The parent of the announced node is surely there while the node is.
NodeStays(event) ==
  /\ event.action # "remove"
  /\ \A i \in 1 .. Len(netlink) :
       netlink[i].node[1] = event.node[1] => netlink[i].action # "remove"

\* Mutant of Identities: the parent is not asked.
IdentitiesUnmerged(event) ==
  LET c == event.node[1] IN
  IF resolved[event.node] # "none" THEN {resolved[event.node]}
  ELSE IF event.node[2] = "hid" THEN {c} \cap named ELSE {Bare}

\* The ids an announcement may get; none when it is no candidate.  A hid
\* node shows no joystick property, so its name must give it away.
Identities(event) ==
  LET c == event.node[1] IN
  IF resolved[event.node] # "none" THEN {resolved[event.node]}
  ELSE IF event.node[2] = "hid" THEN {c} \cap named
  ELSE IF NodeStays(event) THEN {c} ELSE {c, Bare}

Signals(event) == event.action # "change"

\* _on_udev_event, on the observer's thread.
OnUdevEvent ==
  /\ netlink # <<>>
  /\ netlink' = Tail(netlink)
  /\ LET event == Head(netlink) IN
       IF Signals(event) /\ Identities(event) # {}
       THEN \E id \in Identities(event) :
              /\ resolved' = [resolved EXCEPT ![event.node] =
                                IF event.action = "remove" THEN "none" ELSE id]
              /\ handed' = Append(handed, [id |-> id,
                   kind |-> IF event.action = "remove"
                            THEN "disconnected" ELSE "connected"])
       ELSE UNCHANGED <<resolved, handed>>
  /\ UNCHANGED <<named, attached>>

\* Nothing that could change what id was last told is on its way.
Quiet(id) ==
  /\ \A i \in 1 .. Len(handed) : handed[i].id # id
  /\ \A i \in 1 .. Len(netlink) :
       netlink[i].action # "change" => id \notin {netlink[i].node[1], Bare}

UTypeOK ==
  /\ named \subseteq Controllers /\ attached \subseteq Controllers
  /\ netlink \in Seq([node : Nodes, action : {"add", "remove", "change"}])
  /\ resolved \in [Nodes -> Ids \cup {"none"}]
  /\ handed \in Seq([id : Ids, kind : {"connected", "disconnected"}])
=============================================================================
