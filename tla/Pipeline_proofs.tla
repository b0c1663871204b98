-------------------------- MODULE Pipeline_proofs --------------------------
(***************************************************************************)
(* Proofs about the device event path, for any number of controllers and   *)
(* any backlog of announcements.                                           *)
(***************************************************************************)
EXTENDS Pipeline, SequenceTheorems, TLAPS

USE UdevAssumption, PipelineAssumption

Announcement == [node : Nodes, action : {"add", "remove", "change"}]
RawEvent == [id : Ids, kind : {"connected", "disconnected"}]

-----------------------------------------------------------------------------
(* The two queues: between the kernel and the thread, and between the      *)
(* thread and the loop.                                                    *)

LEMMA QueuesTyped ==
  ASSUME UTypeOK
  PROVE  /\ netlink \in Seq(Announcement) /\ handed \in Seq(RawEvent)
         /\ Len(netlink) \in Nat /\ Len(handed) \in Nat
         /\ \A i \in 1 .. Len(netlink) :
              /\ netlink[i] \in Announcement
              /\ netlink[i].node[1] \in Controllers /\ netlink[i].node[2] \in Subsystems
              /\ netlink[i].node = <<netlink[i].node[1], netlink[i].node[2]>>
         /\ \A i \in 1 .. Len(handed) : handed[i] \in RawEvent /\ handed[i].id \in Ids
<1>1. netlink \in Seq(Announcement) /\ handed \in Seq(RawEvent)
  BY DEF UTypeOK, Announcement, RawEvent
<1>2. \A i \in 1 .. Len(netlink) : netlink[i] \in Announcement
  BY <1>1, ElementOfSeq
<1>3. \A a \in Announcement :
        a.node[1] \in Controllers /\ a.node[2] \in Subsystems /\ a.node = <<a.node[1], a.node[2]>>
  BY DEF Announcement, Nodes
<1>4. \A i \in 1 .. Len(handed) : handed[i] \in RawEvent
  BY <1>1, ElementOfSeq
<1>5. \A r \in RawEvent : r.id \in Ids
  BY DEF RawEvent
<1> QED
  BY <1>1, <1>2, <1>3, <1>4, <1>5

\* The kernel announces both nodes of a controller at once.
Announces(c, first, second, action) ==
  netlink' = netlink \o <<Announced(c, first, action), Announced(c, second, action)>>

LEMMA AnnouncedBehind ==
  ASSUME UTypeOK, NEW c \in Controllers,
         NEW first \in Subsystems, NEW second \in Subsystems,
         NEW action \in {"add", "remove", "change"},
         Announces(c, first, second, action)
  PROVE  /\ netlink' \in Seq(Announcement)
         /\ Len(netlink') = Len(netlink) + 2
         /\ \A i \in 1 .. Len(netlink) : netlink'[i] = netlink[i]
         /\ netlink'[Len(netlink) + 1] = Announced(c, first, action)
         /\ netlink'[Len(netlink) + 2] = Announced(c, second, action)
<1> DEFINE new == <<Announced(c, first, action), Announced(c, second, action)>>
<1>1. /\ new \in Seq(Announcement) /\ Len(new) = 2
      /\ new[1] = Announced(c, first, action) /\ new[2] = Announced(c, second, action)
  BY DEF Announced, Announcement, Nodes
<1>2. netlink \in Seq(Announcement) /\ Len(netlink) \in Nat
  BY DEF UTypeOK, Announcement
<1> HIDE DEF new
<1>3. netlink' = netlink \o new
  BY DEF Announces, new
<1>4. /\ netlink \o new \in Seq(Announcement)
      /\ Len(netlink \o new) = Len(netlink) + Len(new)
      /\ \A i \in 1 .. Len(netlink) + Len(new) :
           (netlink \o new)[i] = IF i <= Len(netlink) THEN netlink[i]
                                 ELSE new[i - Len(netlink)]
  BY <1>1, <1>2, ConcatProperties
<1> QED
  BY <1>1, <1>2, <1>3, <1>4

\* What the thread reads, and what it hands to the loop.
LEMMA ReadAndHanded ==
  ASSUME UTypeOK, netlink # <<>>, netlink' = Tail(netlink), NEW e, e = Head(netlink)
  PROVE  /\ netlink \in Seq(Announcement) /\ e \in Announcement /\ e = netlink[1]
         /\ Len(netlink) \in Nat \ {0}
         /\ netlink' \in Seq(Announcement) /\ Len(netlink') = Len(netlink) - 1
         /\ \A i \in 1 .. Len(netlink') : netlink'[i] = netlink[i + 1]
<1>1. netlink \in Seq(Announcement)
  BY DEF UTypeOK, Announcement
<1> QED
  BY <1>1, HeadTailProperties

LEMMA HandedDelivered ==
  ASSUME UTypeOK, handed # <<>>, handed' = Tail(handed)
  PROVE  /\ handed \in Seq(RawEvent) /\ Head(handed) \in RawEvent
         /\ Head(handed) = handed[1] /\ Len(handed) \in Nat \ {0}
         /\ handed' \in Seq(RawEvent) /\ Len(handed') = Len(handed) - 1
         /\ \A i \in 1 .. Len(handed') : handed'[i] = handed[i + 1]
<1>1. handed \in Seq(RawEvent)
  BY DEF UTypeOK, RawEvent
<1> QED
  BY <1>1, HeadTailProperties

LEMMA HandedAppended ==
  ASSUME UTypeOK, NEW r \in RawEvent, handed' = Append(handed, r)
  PROVE  /\ handed' \in Seq(RawEvent) /\ Len(handed) \in Nat
         /\ Len(handed') = Len(handed) + 1
         /\ \A i \in 1 .. Len(handed) : handed'[i] = handed[i]
         /\ handed'[Len(handed) + 1] = r
<1>1. handed \in Seq(RawEvent)
  BY DEF UTypeOK, RawEvent
<1> QED
  BY <1>1, AppendProperties

-----------------------------------------------------------------------------
(* Types.                                                                  *)

LEMMA PlugTyped ==
  ASSUME TypeOK, NEW c \in Controllers,
         Plug(c) \/ Unplug(c) \/ Power(c) \/ Trigger(c)
  PROVE  TypeOK'
<1>1. CASE Power(c)
  BY <1>1 DEF Power, TypeOK, UTypeOK, uvars, dvars, gatevars
<1>2. CASE \E first, second \in Subsystems, action \in {"add", "remove", "change"} :
             Announces(c, first, second, action)
  <2>1. netlink' \in Seq(Announcement)
    BY <1>2, AnnouncedBehind DEF TypeOK
  <2>2. UTypeOK'
    BY <2>1 DEF TypeOK, UTypeOK, Plug, PlugIn, Unplug, PullOut, Trigger, Retrigger,
       Power, uvars, Announcement
  <2> QED
    BY <2>2 DEF TypeOK, Plug, PlugIn, Unplug, PullOut, Trigger, Retrigger, Power,
       dvars, gatevars, pads, uvars
<1>3. Plug(c) => Announces(c, "hid", "input", "add")
  BY DEF Plug, PlugIn, Announces
<1>4. Unplug(c) => Announces(c, "input", "hid", "remove")
  BY DEF Unplug, PullOut, Announces
<1>5. Trigger(c) => Announces(c, "hid", "input", "change")
  BY DEF Trigger, Retrigger, Announces
<1> QED
  BY <1>1, <1>2, <1>3, <1>4, <1>5 DEF Subsystems

LEMMA ObserveTyped ==
  ASSUME TypeOK, Observe
  PROVE  TypeOK'
<1> DEFINE e == Head(netlink)
<1>1. e \in Announcement /\ netlink' \in Seq(Announcement)
  BY ReadAndHanded DEF Observe, OnUdevEvent, TypeOK
<1>2. Identities(e) \subseteq Ids
  BY <1>1 DEF Identities, Announcement, Nodes, Ids, TypeOK, UTypeOK
<1>3. resolved' \in [Nodes -> Ids \cup {"none"}] /\ handed' \in Seq(RawEvent)
  <2>1. CASE UNCHANGED <<resolved, handed>>
    BY <2>1 DEF TypeOK, UTypeOK, RawEvent
  <2>2. CASE \E id \in Identities(e) :
               /\ resolved' = [resolved EXCEPT ![e.node] =
                                 IF e.action = "remove" THEN "none" ELSE id]
               /\ handed' = Append(handed, [id |-> id,
                    kind |-> IF e.action = "remove" THEN "disconnected" ELSE "connected"])
    <3>1. PICK id \in Ids :
               /\ resolved' = [resolved EXCEPT ![e.node] =
                                 IF e.action = "remove" THEN "none" ELSE id]
               /\ handed' = Append(handed, [id |-> id,
                    kind |-> IF e.action = "remove" THEN "disconnected" ELSE "connected"])
      BY <1>2, <2>2
    <3>2. handed' \in Seq(RawEvent)
      BY <3>1, HandedAppended DEF RawEvent, TypeOK
    <3> QED
      BY <3>1, <3>2 DEF TypeOK, UTypeOK
  <2> QED
    BY <2>1, <2>2 DEF Observe, OnUdevEvent
<1> QED
  BY <1>1, <1>3 DEF Observe, OnUdevEvent, TypeOK, UTypeOK, Announcement, RawEvent,
     dvars, gatevars, pads

LEMMA RawTyped ==
  ASSUME TypeOK, NEW id \in Ids, NEW kind \in Deb!Kinds, Raw(id, kind)
  PROVE  /\ lastStable' \in [Ids -> Deb!Kinds \cup {"unknown"}]
         /\ pending' \in [Ids -> Deb!Kinds \cup {"none"}]
         /\ early' \subseteq Ids
         /\ UNCHANGED <<gatevars, auto, heard, toggles>>
BY DEF TypeOK, Raw, Deb!Feed

LEMMA EventsTyped ==
  ASSUME TypeOK,
         Deliver \/ \E c \in Controllers : HidrawAdd(c) \/ HidrawRemove(c)
  PROVE  TypeOK'
<1>1. CASE Deliver
  <2>1. handed' \in Seq(RawEvent) /\ Head(handed) \in RawEvent
    BY <1>1, HandedDelivered DEF Deliver, TypeOK
  <2>2. Head(handed).id \in Ids /\ Head(handed).kind \in Deb!Kinds
    BY <2>1 DEF RawEvent, Deb!Kinds
  <2>3. UTypeOK'
    BY <1>1, <2>1 DEF Deliver, TypeOK, UTypeOK, RawEvent
  <2> QED
    BY <1>1, <2>2, <2>3, RawTyped DEF Deliver, TypeOK, gatevars, pads
<1>2. ASSUME NEW c \in Controllers, HidrawAdd(c) \/ HidrawRemove(c)
      PROVE  TypeOK'
  <2>1. PICK kind \in Deb!Kinds : Raw(c, kind)
    BY <1>2 DEF HidrawAdd, HidrawRemove, Deb!Kinds
  <2>2. UTypeOK' /\ (c \in named \/ c \in live)
    BY <1>2 DEF HidrawAdd, HidrawRemove, TypeOK, UTypeOK, uvars
  <2> QED
    BY <1>2, <2>1, <2>2, RawTyped
       DEF HidrawAdd, HidrawRemove, TypeOK, Ids, gatevars, uvars
<1> QED
  BY <1>1, <1>2

LEMMA HandedOnTyped ==
  ASSUME TypeOK,
         \/ GraceEnds \/ ToggleAutoSwitch
         \/ \E d \in Ids : SettleAndForward(d) \/ GiveUp(d)
  PROVE  TypeOK'
<1>1. CASE GraceEnds
  BY <1>1 DEF GraceEnds, Gate!GraceEnds, TypeOK, UTypeOK, uvars, dvars, pads
<1>2. CASE ToggleAutoSwitch
  BY <1>2 DEF ToggleAutoSwitch, TypeOK, UTypeOK, uvars, dvars, gatevars, pads
<1>3. ASSUME NEW d \in Ids, SettleAndForward(d) PROVE TypeOK'
  <2>1. pending[d] \in Deb!Kinds
    BY <1>3 DEF SettleAndForward, Deb!Settle, TypeOK
  <2>2. /\ lastStable' \in [Ids -> Deb!Kinds \cup {"unknown"}]
        /\ pending' \in [Ids -> Deb!Kinds \cup {"none"}]
        /\ heard' \in [Ids -> Deb!Kinds \cup {"none"}]
    BY <1>3, <2>1 DEF SettleAndForward, Deb!Settle, TypeOK
  <2>3. /\ pastGrace' \in BOOLEAN
        /\ witnessed' \subseteq Ids /\ holding' \subseteq Ids /\ withheld' \subseteq Ids
        /\ told' \in [Ids -> Deb!Kinds \cup {"none"}]
    BY <1>3 DEF SettleAndForward, Gate!Handle, Gate!HandleConnect,
       Gate!HandleDisconnect, Deb!Kinds, TypeOK
  <2>4. /\ UTypeOK' /\ auto' \in BOOLEAN /\ sending' \subseteq attached' \cap named'
        /\ live' \subseteq named' /\ use' \in [Controllers -> {"none", "plugged", "sent"}]
        /\ early' \subseteq Ids /\ toggles' \in 0 .. MaxToggles
    BY <1>3 DEF SettleAndForward, TypeOK, UTypeOK, uvars, pads
  <2> QED
    BY <2>2, <2>3, <2>4 DEF TypeOK
<1>4. ASSUME NEW d \in Ids, GiveUp(d) PROVE TypeOK'
  BY <1>4 DEF GiveUp, Gate!GiveUp, TypeOK, UTypeOK, uvars, dvars, pads
<1> QED
  BY <1>1, <1>2, <1>3, <1>4

LEMMA NextTyped == TypeOK /\ [Next]_pvars => TypeOK'
<1>1. TypeOK /\ UNCHANGED pvars => TypeOK'
  BY DEF TypeOK, UTypeOK, pvars, uvars, dvars, gatevars, pads
<1> QED
  BY <1>1, PlugTyped, ObserveTyped, EventsTyped, HandedOnTyped DEF Next

LEMMA AlwaysTyped == Spec => []TypeOK
<1>1. Init => TypeOK
  <2> SUFFICES ASSUME Init PROVE TypeOK
    OBVIOUS
  <2>1. UTypeOK
    <3>1. netlink \in Seq(Announcement) /\ handed \in Seq(RawEvent)
      BY DEF Init, UInit
    <3>2. named \subseteq Controllers /\ attached \subseteq Controllers
      BY DEF Init, UInit
    <3>3. resolved \in [Nodes -> Ids \cup {"none"}]
      BY DEF Init, UInit
    <3> QED
      BY <3>1, <3>2, <3>3 DEF UTypeOK, Announcement, RawEvent
  <2>2. pastGrace \in BOOLEAN /\ auto \in BOOLEAN
    BY DEF Init, Gate!GInit
  <2>3. /\ lastStable \in [Ids -> Deb!Kinds \cup {"unknown"}]
        /\ pending \in [Ids -> Deb!Kinds \cup {"none"}]
        /\ told \in [Ids -> Deb!Kinds \cup {"none"}]
        /\ heard \in [Ids -> Deb!Kinds \cup {"none"}]
        /\ use \in [Controllers -> {"none", "plugged", "sent"}]
    BY DEF Init, Deb!DInit, Gate!GInit
  <2>4. /\ witnessed \subseteq Ids /\ holding \subseteq Ids /\ withheld \subseteq Ids
        /\ sending \subseteq attached \cap named /\ live \subseteq named
        /\ early \subseteq Ids /\ toggles \in 0 .. MaxToggles
    BY DEF Init, Gate!GInit
  <2> QED
    BY <2>1, <2>2, <2>3, <2>4 DEF TypeOK
<1> QED
  BY <1>1, NextTyped, PTL DEF Spec

-----------------------------------------------------------------------------
(* The gate.                                                               *)

\* What makes a connect that is handed on one that may be: only changes settle,
\* so that a second connect comes after a settled, and witnessed, disconnect.
GateInv ==
  /\ \A d \in Ids : pending[d] # "none" => pending[d] # lastStable[d]
  /\ \A d \in Ids : lastStable[d] = "disconnected" => d \in witnessed
  /\ pastGrace => \A d \in early : lastStable[d] # "unknown"
  /\ ~pastGrace =>
       \A d \in Ids \ early : pending[d] = "none" /\ heard[d] # "connected"
  /\ HeldUntilPowerCycle

LEMMA RawKeepsGateInv ==
  ASSUME TypeOK, GateInv, NEW id \in Ids, NEW kind \in Deb!Kinds, Raw(id, kind)
  PROVE  GateInv'
<1>1. /\ UNCHANGED <<lastStable, pastGrace, witnessed, told, heard>>
      /\ \A d \in Ids : pending'[d] # pending[d] => d = id
      /\ pending'[id] # "none" => pending'[id] # lastStable[id]
      /\ early' = IF pastGrace THEN early ELSE early \cup {id}
  BY DEF Raw, Deb!Feed, gatevars, TypeOK
<1> QED
  BY <1>1 DEF GateInv, HeldUntilPowerCycle

\* A connect settles: it is handed on if the device was seen disconnecting, and
\* withheld, for an early device, if it was not.
LEMMA ConnectKeepsGateInv ==
  ASSUME TypeOK, GateInv, NEW d \in Ids, SettleAndForward(d), pending[d] = "connected"
  PROVE  GateInv'
<1>1. /\ Gate!HandleConnect(d)
      /\ lastStable' = [lastStable EXCEPT ![d] = "connected"]
      /\ pending' = [pending EXCEPT ![d] = "none"]
      /\ heard' = IF auto /\ d \notin withheld'
                  THEN [heard EXCEPT ![d] = "connected"] ELSE heard
      /\ UNCHANGED <<early, pastGrace, witnessed>>
  BY DEF SettleAndForward, Deb!Settle, Gate!Handle, Gate!HandleConnect
<1>2. /\ lastStable[d] # "connected"
      /\ pastGrace \/ d \in early
  BY DEF GateInv, TypeOK
<1>3. d \in early /\ heard'[d] = "connected" /\ ~FreshBoot => d \in witnessed
  <2> SUFFICES ASSUME d \in early, ~FreshBoot, d \notin witnessed, heard[d] # "connected"
               PROVE  heard' = heard
    BY DEF GateInv, HeldUntilPowerCycle
  <2>1. lastStable[d] # "unknown" => lastStable[d] = "disconnected"
    BY <1>2 DEF TypeOK, Deb!Kinds
  <2>2. ~pastGrace
    BY <2>1 DEF GateInv
  <2> QED
    BY <1>1, <2>2 DEF Gate!HandleConnect, Gate!Trusted
<1>4. d \in witnessed => told'[d] = "connected"
  BY <1>1 DEF Gate!HandleConnect, Gate!Trusted, TypeOK
<1>5. \A x \in Ids \ {d} : told'[x] = told[x] /\ heard'[x] = heard[x]
  BY <1>1 DEF Gate!HandleConnect, TypeOK
<1>6. HeldUntilPowerCycle'
  BY <1>1, <1>3, <1>4, <1>5 DEF GateInv, HeldUntilPowerCycle, TypeOK
<1> QED
  BY <1>1, <1>2, <1>5, <1>6 DEF GateInv, TypeOK

LEMMA DisconnectKeepsGateInv ==
  ASSUME TypeOK, GateInv, NEW d \in Ids, SettleAndForward(d), pending[d] = "disconnected"
  PROVE  GateInv'
<1>1. /\ witnessed' = witnessed \cup {d}
      /\ told' = [told EXCEPT ![d] = "disconnected"]
      /\ lastStable' = [lastStable EXCEPT ![d] = "disconnected"]
      /\ pending' = [pending EXCEPT ![d] = "none"]
      /\ heard' = IF auto THEN [heard EXCEPT ![d] = "disconnected"] ELSE heard
      /\ UNCHANGED <<early, pastGrace>>
  BY DEF SettleAndForward, Deb!Settle, Gate!Handle, Gate!HandleDisconnect
<1>2. \A x \in Ids : heard'[x] = "connected" => heard[x] = "connected"
  BY <1>1 DEF TypeOK
<1>3. HeldUntilPowerCycle'
  BY <1>1, <1>2 DEF GateInv, HeldUntilPowerCycle, TypeOK
<1> QED
  BY <1>1, <1>2, <1>3 DEF GateInv, TypeOK

LEMMA NextKeepsGateInv ==
  ASSUME PromptSettling
  PROVE  TypeOK /\ GateInv /\ [Next]_pvars => GateInv'
<1> SUFFICES ASSUME TypeOK, GateInv, [Next]_pvars PROVE GateInv'
  OBVIOUS
<1>1. ASSUME UNCHANGED <<dvars, pastGrace, witnessed, told, early, heard>> PROVE GateInv'
  BY <1>1 DEF GateInv, HeldUntilPowerCycle, dvars
<1>2. CASE \/ Observe \/ ToggleAutoSwitch \/ UNCHANGED pvars
           \/ \E c \in Controllers : Plug(c) \/ Unplug(c) \/ Power(c) \/ Trigger(c)
           \/ \E d \in Ids : GiveUp(d)
  BY <1>1, <1>2 DEF Observe, ToggleAutoSwitch, Plug, Unplug, Power, Trigger, GiveUp,
     Gate!GiveUp, pvars, gatevars
<1>3. CASE Deliver
  <2>1. Head(handed).id \in Ids /\ Head(handed).kind \in Deb!Kinds
    BY <1>3, HandedDelivered DEF Deliver, TypeOK, RawEvent, Deb!Kinds
  <2> QED
    BY <1>3, <2>1, RawKeepsGateInv DEF Deliver
<1>4. CASE \E c \in Controllers : HidrawAdd(c) \/ HidrawRemove(c)
  BY <1>4, RawKeepsGateInv DEF HidrawAdd, HidrawRemove, Deb!Kinds, Ids
<1>5. CASE \E d \in Ids : SettleAndForward(d)
  <2>1. PICK d \in Ids : SettleAndForward(d)
    BY <1>5
  <2>2. pending[d] \in {"connected", "disconnected"}
    BY <2>1 DEF SettleAndForward, Gate!Handle
  <2> QED
    BY <2>1, <2>2, ConnectKeepsGateInv, DisconnectKeepsGateInv
<1>6. CASE GraceEnds
  BY <1>6 DEF GraceEnds, Gate!GraceEnds, GateInv, HeldUntilPowerCycle, dvars
<1> QED
  BY <1>2, <1>3, <1>4, <1>5, <1>6 DEF Next

\* A controller that shows up while the daemon starts does not bring back the
\* couch session of before until it was seen disconnecting, and then always does,
\* for any number of controllers and any order of their signals: as long as what
\* was signalled early settles before the startup grace is over.  Without that
\* the first connect is trusted by the clock alone.
THEOREM EarlySignalsHeld ==
  ASSUME PromptSettling
  PROVE  Spec => []HeldUntilPowerCycle
<1>1. Init => GateInv
  BY DEF Init, Deb!DInit, Gate!GInit, GateInv, HeldUntilPowerCycle
<1>2. TypeOK /\ GateInv /\ [Next]_pvars => GateInv'
  BY NextKeepsGateInv
<1>3. GateInv => HeldUntilPowerCycle
  BY DEF GateInv
<1> QED
  BY <1>1, <1>2, <1>3, AlwaysTyped, PTL DEF Spec

-----------------------------------------------------------------------------
(* The identities.                                                         *)

\* An input node goes by the second id only while its removal is on its way.
OrphanInv ==
  /\ \A c \in Controllers :
       /\ resolved[<<c, "hid">>] \in {c, "none"}
       /\ resolved[<<c, "input">>] \in {c, Bare, "none"}
       /\ resolved[<<c, "input">>] = Bare =>
            \E i \in 1 .. Len(netlink) : netlink[i] = Announced(c, "input", "remove")
  /\ \A j \in 1 .. Len(netlink) :
       netlink[j].node[2] = "hid" /\ netlink[j].action = "remove" =>
         j = 1 \/ netlink[j - 1] = Announced(netlink[j].node[1], "input", "remove")

Doomed == \E c \in Controllers : resolved[<<c, "input">>] = Bare

\* While the second id was last said to be connected, its disconnect will follow.
BareInv ==
  /\ \A i \in 1 .. Len(handed) :
       /\ handed[i].id = Bare /\ handed[i].kind = "connected"
       /\ \A j \in 1 .. Len(handed) : j > i => handed[j].id # Bare
       => Doomed
  /\ pending[Bare] = "connected" /\ (\A i \in 1 .. Len(handed) : handed[i].id # Bare)
       => Doomed
  /\ heard[Bare] # "connected"

\* Nobody is said to be connected who was not plugged in or seen sending.
UseInv ==
  /\ \A i \in 1 .. Len(netlink) :
       netlink[i].action = "add" => use[netlink[i].node[1]] # "none"
  /\ \A i \in 1 .. Len(handed) :
       handed[i].kind = "connected" /\ handed[i].id # Bare => use[handed[i].id] # "none"
  /\ \A c \in Controllers :
       pending[c] = "connected" \/ heard[c] = "connected" => use[c] # "none"

IdInv == OrphanInv /\ BareInv /\ UseInv

LEMMA PlugKeepsIdInv ==
  ASSUME TypeOK, IdInv, NEW c \in Controllers, Plug(c) \/ Unplug(c) \/ Trigger(c)
  PROVE  IdInv'
<1> DEFINE New(first, second, action) ==
      /\ Len(netlink') = Len(netlink) + 2 /\ Len(netlink) \in Nat
      /\ \A i \in 1 .. Len(netlink) : netlink'[i] = netlink[i]
      /\ netlink'[Len(netlink) + 1] = Announced(c, first, action)
      /\ netlink'[Len(netlink) + 2] = Announced(c, second, action)
<1>n. Len(netlink) \in Nat
  BY DEF TypeOK, UTypeOK
<1>1. Plug(c) => New("hid", "input", "add")
  BY <1>n, AnnouncedBehind DEF Plug, PlugIn, Announces, Subsystems, TypeOK
<1>2. Unplug(c) => New("input", "hid", "remove")
  BY <1>n, AnnouncedBehind DEF Unplug, PullOut, Announces, Subsystems, TypeOK
<1>3. Trigger(c) => New("hid", "input", "change")
  BY <1>n, AnnouncedBehind DEF Trigger, Retrigger, Announces, Subsystems, TypeOK
<1>4. UNCHANGED <<resolved, handed, pending, heard>>
  BY DEF Plug, PlugIn, Unplug, PullOut, Trigger, Retrigger, dvars
<1>5. \A x \in Controllers : use[x] # "none" => use'[x] # "none"
  BY DEF Plug, Unplug, Trigger, pads, TypeOK
<1>6. Plug(c) => use'[c] # "none"
  BY DEF Plug, TypeOK
<1>7. \A i \in 1 .. Len(netlink) : netlink[i].node[1] \in Controllers
  BY QueuesTyped DEF TypeOK
<1>8. \A i \in 1 .. Len(handed) : handed[i].id \in Ids
  BY QueuesTyped DEF TypeOK
<1>9. PICK first \in Subsystems, second \in Subsystems,
           action \in {"add", "remove", "change"} :
        /\ New(first, second, action)
        /\ action = "add" => use'[c] # "none"
        /\ action = "remove" => first = "input" /\ second = "hid"
  BY <1>1, <1>2, <1>3, <1>6 DEF Subsystems
<1>10. OrphanInv'
  <2>1. \A i \in 1 .. Len(netlink') :
          \/ i \in 1 .. Len(netlink) /\ netlink'[i] = netlink[i]
          \/ i = Len(netlink) + 1 /\ netlink'[i] = Announced(c, first, action)
          \/ i = Len(netlink) + 2 /\ netlink'[i] = Announced(c, second, action)
    BY <1>9
  <2>2. \A x \in Controllers, i \in 1 .. Len(netlink) :
          netlink[i] = Announced(x, "input", "remove") => i \in 1 .. Len(netlink') /\ netlink'[i] = Announced(x, "input", "remove")
    BY <1>9
  <2>3. ASSUME NEW j \in 1 .. Len(netlink'),
               netlink'[j].node[2] = "hid", netlink'[j].action = "remove"
        PROVE  j = 1 \/ netlink'[j - 1] = Announced(netlink'[j].node[1], "input", "remove")
    <3>1. CASE j \in 1 .. Len(netlink) /\ netlink'[j] = netlink[j]
      <4>1. j = 1 \/ (j - 1) \in 1 .. Len(netlink)
        BY <1>9, <3>1
      <4> QED
        BY <1>9, <2>3, <3>1, <4>1 DEF IdInv, OrphanInv
    <3>2. CASE j = Len(netlink) + 1 /\ netlink'[j] = Announced(c, first, action)
      BY <1>9, <2>3, <3>2 DEF Announced
    <3>3. CASE j = Len(netlink) + 2 /\ netlink'[j] = Announced(c, second, action)
      BY <1>9, <2>3, <3>3 DEF Announced
    <3> QED
      BY <2>1, <3>1, <3>2, <3>3
  <2>4. \A x \in Controllers : resolved'[<<x, "input">>] = Bare =>
          \E i \in 1 .. Len(netlink') : netlink'[i] = Announced(x, "input", "remove")
    BY <1>4, <2>2 DEF IdInv, OrphanInv
  <2> QED
    BY <1>4, <2>3, <2>4 DEF IdInv, OrphanInv
<1>11. BareInv'
  BY <1>4 DEF IdInv, BareInv, Doomed
<1>12. UseInv'
  <2>1. \A i \in 1 .. Len(netlink') :
          netlink'[i].action = "add" => use'[netlink'[i].node[1]] # "none"
    BY <1>5, <1>7, <1>9 DEF IdInv, UseInv, Announced
  <2> QED
    BY <1>4, <1>5, <1>8, <2>1 DEF IdInv, UseInv, Ids
<1> QED
  BY <1>10, <1>11, <1>12 DEF IdInv

\* One announcement becomes an event: only an input node whose removal follows
\* gets the second id, and it keeps it until then.
LEMMA ObserveKeepsIdInv ==
  ASSUME TypeOK, IdInv, Observe
  PROVE  IdInv'
<1> DEFINE e == Head(netlink)
           c == e.node[1]
<1>1. /\ e \in Announcement /\ e = netlink[1] /\ Len(netlink) \in Nat \ {0}
      /\ Len(netlink') = Len(netlink) - 1
      /\ \A i \in 1 .. Len(netlink') : netlink'[i] = netlink[i + 1]
      /\ UNCHANGED <<pending, heard, use>>
  BY ReadAndHanded DEF Observe, OnUdevEvent, TypeOK, dvars, pads
<1>2. c \in Controllers /\ e.node[2] \in {"hid", "input"} /\ e.node = <<c, e.node[2]>>
  BY <1>1 DEF Announcement, Nodes, Subsystems
<1> HIDE DEF e
<1>3. \A x \in Controllers : e # Announced(x, "input", "remove")
          /\ (\E i \in 1 .. Len(netlink) : netlink[i] = Announced(x, "input", "remove"))
        => \E i \in 1 .. Len(netlink') : netlink'[i] = Announced(x, "input", "remove")
  <2> SUFFICES ASSUME NEW x \in Controllers, e # Announced(x, "input", "remove"),
                      NEW i \in 1 .. Len(netlink), netlink[i] = Announced(x, "input", "remove")
               PROVE  \E k \in 1 .. Len(netlink') : netlink'[k] = Announced(x, "input", "remove")
    OBVIOUS
  <2>1. i # 1
    BY <1>1
  <2>2. i - 1 \in 1 .. Len(netlink') /\ netlink'[i - 1] = netlink[i]
    BY <1>1, <2>1
  <2> QED
    BY <2>2
<1>4. \A j \in 1 .. Len(netlink') :
        netlink'[j].node[2] = "hid" /\ netlink'[j].action = "remove" =>
          j = 1 \/ netlink'[j - 1] = Announced(netlink'[j].node[1], "input", "remove")
  <2> SUFFICES ASSUME NEW j \in 1 .. Len(netlink'), j # 1,
                      netlink'[j].node[2] = "hid", netlink'[j].action = "remove"
               PROVE  netlink'[j - 1] = Announced(netlink'[j].node[1], "input", "remove")
    OBVIOUS
  <2>1. /\ j - 1 \in 1 .. Len(netlink') /\ j + 1 \in 1 .. Len(netlink)
        /\ netlink'[j] = netlink[j + 1] /\ netlink'[j - 1] = netlink[j]
        /\ (j + 1) - 1 = j /\ j + 1 # 1
    BY <1>1
  <2> QED
    BY <2>1 DEF IdInv, OrphanInv
<1>5. \A i \in 1 .. Len(netlink') :
        netlink'[i].action = "add" => use'[netlink'[i].node[1]] # "none"
  <2>1. \A i \in 1 .. Len(netlink') : i + 1 \in 1 .. Len(netlink)
    BY <1>1
  <2> QED
    BY <1>1, <2>1 DEF IdInv, UseInv
<1>6. CASE UNCHANGED <<resolved, handed>> /\ ~(Signals(e) /\ Identities(e) # {})
  <2>1. \A x \in Controllers :
          e = Announced(x, "input", "remove") => Signals(e) /\ Identities(e) # {}
    BY DEF Announced, Signals, Identities
  <2>2. OrphanInv'
    BY <1>3, <1>4, <1>6, <2>1 DEF IdInv, OrphanInv
  <2>3. BareInv' /\ UseInv'
    BY <1>1, <1>5, <1>6 DEF IdInv, BareInv, UseInv, Doomed
  <2> QED
    BY <2>2, <2>3 DEF IdInv
<1>7. ASSUME NEW id \in Identities(e), Signals(e),
             resolved' = [resolved EXCEPT ![e.node] =
                            IF e.action = "remove" THEN "none" ELSE id],
             handed' = Append(handed, [id |-> id,
               kind |-> IF e.action = "remove" THEN "disconnected" ELSE "connected"])
      PROVE  IdInv'
  <2>r. resolved \in [Nodes -> Ids \cup {"none"}]
    BY DEF TypeOK, UTypeOK
  <2>1. /\ id \in {c, Bare}
        /\ e.node[2] = "hid" => id = c
        /\ resolved[e.node] = Bare => id = Bare
    <3>1. /\ e.node[2] = "hid" => resolved[e.node] \in {c, "none"}
          /\ resolved[e.node] \in {c, Bare, "none"}
      BY <1>2 DEF IdInv, OrphanInv
    <3>2. id \in IF resolved[e.node] # "none" THEN {resolved[e.node]}
                 ELSE IF e.node[2] = "hid" THEN {c} ELSE {c, Bare}
      BY DEF Identities
    <3>3. Bare # "none" /\ c # "none"
      BY <1>2
    <3> QED
      BY <3>1, <3>2, <3>3
  <2>2. e.action = "remove" \/ e.action = "add"
    BY <1>1, <1>7 DEF Signals, Announcement
  <2>3. ASSUME e.action = "add", id = Bare
        PROVE  \E i \in 1 .. Len(netlink') : netlink'[i] = Announced(c, "input", "remove")
    <3>1. e.node[2] = "input" /\ \A x \in Controllers : e # Announced(x, "input", "remove")
      BY <1>2, <2>1, <2>3 DEF Announced
    <3>2. CASE resolved[e.node] = Bare
      BY <1>2, <1>3, <3>1, <3>2 DEF IdInv, OrphanInv
    <3>3. CASE resolved[e.node] # Bare
      <4>1. ~NodeStays(e)
        BY <1>2, <2>3, <3>1, <3>3 DEF Identities, IdInv, OrphanInv
      <4>2. PICK i \in 1 .. Len(netlink) :
              netlink[i].node[1] = c /\ netlink[i].action = "remove"
        BY <2>3, <4>1 DEF NodeStays
      <4>3. netlink[i] \in Announcement /\ i # 1
        BY <1>1, <2>3, <4>2, QueuesTyped DEF TypeOK
      <4>4. CASE netlink[i].node[2] = "input"
        <5>1. netlink[i] = Announced(c, "input", "remove")
          BY <4>2, <4>3, <4>4 DEF Announcement, Announced, Nodes
        <5> QED
          BY <1>2, <1>3, <3>1, <5>1
      <4>5. CASE netlink[i].node[2] = "hid"
        <5>1. netlink[i - 1] = Announced(c, "input", "remove")
          BY <4>2, <4>3, <4>5 DEF IdInv, OrphanInv
        <5>2. i - 1 \in 1 .. Len(netlink)
          BY <1>1, <4>3
        <5> QED
          BY <1>2, <1>3, <3>1, <5>1, <5>2
      <4> QED
        BY <4>3, <4>4, <4>5 DEF Announcement, Nodes, Subsystems
    <3> QED
      BY <3>2, <3>3
  <2>4. OrphanInv'
    <3>1. \A x \in Controllers :
            /\ resolved'[<<x, "hid">>] \in {x, "none"}
            /\ resolved'[<<x, "input">>] \in {x, Bare, "none"}
      <4> SUFFICES ASSUME NEW x \in Controllers, NEW sub \in {"hid", "input"}
                   PROVE  resolved'[<<x, sub>>] \in
                            IF sub = "hid" THEN {x, "none"} ELSE {x, Bare, "none"}
        OBVIOUS
      <4>1. <<x, sub>> \in Nodes /\ e.node \in Nodes
        BY <1>2 DEF Nodes, Subsystems
      <4>2. CASE <<x, sub>> = e.node
        <5>1. x = c /\ sub = e.node[2]
          BY <1>2, <4>2
        <5>2. resolved'[<<x, sub>>] \in {id, "none"}
          BY <1>7, <2>r, <4>1, <4>2
        <5> QED
          BY <2>1, <5>1, <5>2
      <4>3. CASE <<x, sub>> # e.node
        <5>1. resolved'[<<x, sub>>] = resolved[<<x, sub>>]
          BY <1>7, <2>r, <4>1, <4>3
        <5> QED
          BY <5>1 DEF IdInv, OrphanInv
      <4> QED
        BY <4>2, <4>3
    <3>2. ASSUME NEW x \in Controllers, resolved'[<<x, "input">>] = Bare
          PROVE  \E i \in 1 .. Len(netlink') : netlink'[i] = Announced(x, "input", "remove")
      <4>0. <<x, "input">> \in Nodes /\ e.node \in Nodes
        BY <1>2 DEF Nodes, Subsystems
      <4>1. CASE <<x, "input">> = e.node /\ e.action = "add"
        <5>1. x = c /\ id = Bare
          BY <1>2, <1>7, <2>r, <3>2, <4>0, <4>1
        <5> QED
          BY <2>3, <4>1, <5>1
      <4>2. CASE <<x, "input">> = e.node /\ e.action = "remove"
        <5>1. resolved'[<<x, "input">>] = "none"
          BY <1>7, <2>r, <4>0, <4>2
        <5>2. Bare = "none"
          BY <3>2, <5>1
        <5> QED
          BY <5>2
      <4>3. CASE <<x, "input">> # e.node
        <5>1. resolved[<<x, "input">>] = Bare
          BY <1>7, <2>r, <3>2, <4>0, <4>3
        <5>2. e # Announced(x, "input", "remove")
          BY <4>3 DEF Announced
        <5> QED
          BY <1>3, <5>1, <5>2 DEF IdInv, OrphanInv
      <4> QED
        BY <2>2, <4>1, <4>2, <4>3
    <3> QED
      BY <1>4, <3>1, <3>2 DEF OrphanInv
  <2> DEFINE n == Len(handed)
             kind == IF e.action = "remove" THEN "disconnected" ELSE "connected"
  <2>5. [id |-> id, kind |-> kind] \in RawEvent
    BY <1>2, <2>1 DEF RawEvent, Ids
  <2>6. /\ n \in Nat /\ Len(handed') = n + 1
        /\ \A i \in 1 .. n : handed'[i] = handed[i]
        /\ handed'[n + 1].id = id /\ handed'[n + 1].kind = kind
    BY <1>7, <2>5, HandedAppended DEF TypeOK
  <2> HIDE DEF n, kind
  <2>7. BareInv'
    <3>1. CASE id = Bare /\ e.action = "add"
      <4>1. resolved'[<<c, "input">>] = Bare
        BY <1>2, <1>7, <2>1, <2>r, <3>1 DEF Nodes, Subsystems
      <4> QED
        BY <1>1, <1>2, <4>1 DEF IdInv, BareInv, Doomed
    <3>2. CASE id = Bare /\ e.action = "remove"
      BY <1>1, <2>6, <3>2 DEF IdInv, BareInv, kind
    <3>3. CASE id # Bare
      <4>1. Doomed => Doomed'
        BY <1>7, <2>1, <2>r, <3>3 DEF Doomed, Nodes, Subsystems
      <4>2. \A i \in 1 .. n : i \in 1 .. Len(handed')
        BY <2>6
      <4> QED
        BY <1>1, <2>6, <3>3, <4>1, <4>2 DEF IdInv, BareInv, n
    <3> QED
      BY <2>2, <3>1, <3>2, <3>3
  <2>8. UseInv'
    <3>1. e.action = "add" => use[c] # "none"
      BY <1>1 DEF IdInv, UseInv
    <3> QED
      BY <1>1, <1>5, <2>1, <2>2, <2>6, <3>1 DEF IdInv, UseInv, n, kind
  <2> QED
    BY <2>4, <2>7, <2>8 DEF IdInv
<1> QED
  BY <1>6, <1>7 DEF Observe, OnUdevEvent, e

\* A raw event reaches the debouncer.
LEMMA RawKeepsIdInv ==
  ASSUME TypeOK, IdInv, NEW id \in Ids, NEW kind \in Deb!Kinds, Raw(id, kind)
  PROVE  /\ UNCHANGED heard
         /\ \A d \in Ids : d # id => pending'[d] = pending[d]
         /\ pending'[id] \in {kind, "none"}
BY DEF Raw, Deb!Feed, TypeOK

LEMMA DeliverKeepsIdInv ==
  ASSUME TypeOK, IdInv, Deliver
  PROVE  IdInv'
<1> DEFINE r == Head(handed)
<1>1. /\ r \in RawEvent /\ r = handed[1] /\ Len(handed) \in Nat \ {0}
      /\ Len(handed') = Len(handed) - 1
      /\ \A i \in 1 .. Len(handed') : handed'[i] = handed[i + 1]
      /\ UNCHANGED <<netlink, resolved, use>>
  BY HandedDelivered DEF Deliver, TypeOK, pads
<1>2. /\ UNCHANGED heard
      /\ \A d \in Ids : d # r.id => pending'[d] = pending[d]
      /\ pending'[r.id] \in {r.kind, "none"}
  BY <1>1, RawKeepsIdInv DEF Deliver, RawEvent, Deb!Kinds
<1> HIDE DEF r
<1>3. \A i \in 1 .. Len(handed') : i + 1 \in 1 .. Len(handed)
  BY <1>1
<1>4. OrphanInv'
  BY <1>1 DEF IdInv, OrphanInv
<1>5. BareInv'
  <2>1. ASSUME NEW i \in 1 .. Len(handed'),
               handed'[i].id = Bare, handed'[i].kind = "connected",
               \A j \in 1 .. Len(handed') : j > i => handed'[j].id # Bare
        PROVE  Doomed
    <3>1. \A j \in 1 .. Len(handed) : j > i + 1 =>
            j - 1 \in 1 .. Len(handed') /\ j - 1 > i /\ handed'[j - 1] = handed[j]
      BY <1>1
    <3>2. /\ i + 1 \in 1 .. Len(handed)
          /\ handed[i + 1].id = Bare /\ handed[i + 1].kind = "connected"
          /\ \A j \in 1 .. Len(handed) : j > i + 1 => handed[j].id # Bare
      BY <1>1, <1>3, <2>1, <3>1
    <3> QED
      BY <3>2 DEF IdInv, BareInv
  <2>2. ASSUME pending'[Bare] = "connected",
               \A i \in 1 .. Len(handed') : handed'[i].id # Bare
        PROVE  Doomed
    <3>1. \A j \in 1 .. Len(handed) : j > 1 => handed[j].id # Bare
      <4>1. \A j \in 1 .. Len(handed) : j > 1 =>
              j - 1 \in 1 .. Len(handed') /\ handed'[j - 1] = handed[j]
        BY <1>1
      <4> QED
        BY <2>2, <4>1
    <3>2. CASE r.id = Bare
      BY <1>1, <1>2, <2>2, <3>1, <3>2 DEF IdInv, BareInv
    <3>3. CASE r.id # Bare
      <4>1. \A j \in 1 .. Len(handed) : handed[j].id # Bare
        BY <1>1, <3>1, <3>3
      <4> QED
        BY <1>2, <2>2, <3>3, <4>1 DEF IdInv, BareInv, Ids
    <3> QED
      BY <3>2, <3>3
  <2> QED
    BY <1>1, <1>2, <2>1, <2>2 DEF IdInv, BareInv, Doomed
<1>6. UseInv'
  <2>1. \A c \in Controllers : pending'[c] = "connected" => use[c] # "none"
    BY <1>1, <1>2 DEF IdInv, UseInv, Ids
  <2> QED
    BY <1>1, <1>2, <1>3, <2>1 DEF IdInv, UseInv
<1> QED
  BY <1>4, <1>5, <1>6 DEF IdInv

LEMMA HidrawKeepsIdInv ==
  ASSUME TypeOK, IdInv, NEW c \in Controllers, HidrawAdd(c) \/ HidrawRemove(c)
  PROVE  IdInv'
<1>1. /\ UNCHANGED <<netlink, resolved, handed>>
      /\ \A x \in Controllers : use[x] # "none" => use'[x] # "none"
      /\ HidrawAdd(c) => use'[c] # "none"
  BY DEF HidrawAdd, HidrawRemove, uvars, TypeOK
<1>2. c \in Ids /\ c # Bare
  BY DEF Ids
<1>3. PICK kind \in Deb!Kinds : Raw(c, kind) /\ (kind = "connected" => HidrawAdd(c))
  BY DEF HidrawAdd, HidrawRemove, Deb!Kinds
<1>4. /\ UNCHANGED heard
      /\ \A d \in Ids : d # c => pending'[d] = pending[d]
      /\ pending'[c] \in {kind, "none"}
  BY <1>2, <1>3, RawKeepsIdInv
<1>5. pending'[Bare] = pending[Bare]
  BY <1>2, <1>4 DEF Ids
<1>6. OrphanInv' /\ BareInv'
  BY <1>1, <1>4, <1>5 DEF IdInv, OrphanInv, BareInv, Doomed
<1>7. UseInv'
  <2>1. /\ \A i \in 1 .. Len(netlink) : netlink[i].node[1] \in Controllers
        /\ \A i \in 1 .. Len(handed) : handed[i].id \in Ids
    BY QueuesTyped DEF TypeOK
  <2>2. \A x \in Controllers :
          pending'[x] = "connected" \/ heard'[x] = "connected" => use'[x] # "none"
    BY <1>1, <1>3, <1>4 DEF IdInv, UseInv, Ids
  <2> QED
    BY <1>1, <2>1, <2>2 DEF IdInv, UseInv, Ids
<1> QED
  BY <1>6, <1>7 DEF IdInv

\* When a timer runs out, nothing is on its way that could belie it: the second
\* id is not said to be connected any more.
LEMMA SettleKeepsIdInv ==
  ASSUME PromptDelivery, TypeOK, IdInv, NEW d \in Ids, SettleAndForward(d)
  PROVE  IdInv'
<1>1. /\ pending[d] # "none" /\ Quiet(d)
      /\ pending' = [pending EXCEPT ![d] = "none"]
      /\ heard' \in {heard, [heard EXCEPT ![d] = pending[d]]}
      /\ UNCHANGED <<netlink, resolved, handed, use>>
  BY DEF SettleAndForward, Deb!Settle, uvars, pads
<1>2. d = Bare => pending[Bare] # "connected"
  <2> SUFFICES ASSUME d = Bare, pending[Bare] = "connected" PROVE FALSE
    OBVIOUS
  <2>1. \A i \in 1 .. Len(handed) : handed[i].id # Bare
    BY <1>1 DEF Quiet
  <2>2. PICK c \in Controllers : resolved[<<c, "input">>] = Bare
    BY <2>1 DEF IdInv, BareInv, Doomed
  <2>3. PICK i \in 1 .. Len(netlink) : netlink[i] = Announced(c, "input", "remove")
    BY <2>2 DEF IdInv, OrphanInv
  <2> QED
    BY <1>1, <2>3 DEF Quiet, Announced
<1>3. OrphanInv'
  BY <1>1 DEF IdInv, OrphanInv
<1>4. BareInv'
  <2>1. pending'[Bare] = "connected" => pending[Bare] = "connected"
    BY <1>1 DEF TypeOK, Ids
  <2>2. heard'[Bare] # "connected"
    BY <1>1, <1>2 DEF IdInv, BareInv, TypeOK, Ids
  <2> QED
    BY <1>1, <2>1, <2>2 DEF IdInv, BareInv, Doomed
<1>5. UseInv'
  BY <1>1 DEF IdInv, UseInv, TypeOK, Ids
<1> QED
  BY <1>3, <1>4, <1>5 DEF IdInv

LEMMA NextKeepsIdInv ==
  ASSUME PromptDelivery
  PROVE  TypeOK /\ IdInv /\ [Next]_pvars => IdInv'
<1> SUFFICES ASSUME TypeOK, IdInv, [Next]_pvars PROVE IdInv'
  OBVIOUS
<1>1. CASE \/ ToggleAutoSwitch \/ GraceEnds \/ UNCHANGED pvars
           \/ \E c \in Controllers : Power(c)
           \/ \E d \in Ids : GiveUp(d)
  <2>1. UNCHANGED <<netlink, resolved, handed, pending, heard, use>>
    BY <1>1 DEF ToggleAutoSwitch, GraceEnds, Power, GiveUp, pvars, uvars, dvars, pads
  <2> QED
    BY <2>1 DEF IdInv, OrphanInv, BareInv, UseInv, Doomed
<1> QED
  BY <1>1, PlugKeepsIdInv, ObserveKeepsIdInv, DeliverKeepsIdInv, HidrawKeepsIdInv,
     SettleKeepsIdInv DEF Next

\* Only a controller that was plugged in or used is ever heard connecting, however
\* the kernel's announcements, the thread and the loop are interleaved: the
\* second id an orphaned input node may get never settles as connected, because
\* its disconnect is on its way (_on_udev_event, _resolved_by_devpath).  Timers
\* that run out before announcements arrive would belie it.
THEOREM PlayersHeard ==
  ASSUME PromptDelivery
  PROVE  Spec => []OnlyPlayersHeard
<1>1. Init => IdInv
  <2>1. Init => netlink = <<>> /\ handed = <<>>
    BY DEF Init, UInit
  <2>2. Init => OrphanInv
    BY <2>1 DEF Init, UInit, OrphanInv, Nodes, Subsystems
  <2>3. Init => BareInv /\ UseInv
    BY <2>1 DEF Init, Deb!DInit, BareInv, UseInv, Ids
  <2> QED
    BY <2>2, <2>3 DEF IdInv
<1>2. TypeOK /\ IdInv /\ [Next]_pvars => IdInv'
  BY NextKeepsIdInv
<1>3. IdInv => OnlyPlayersHeard
  BY DEF IdInv, BareInv, UseInv, OnlyPlayersHeard, Ids
<1> QED
  BY <1>1, <1>2, <1>3, AlwaysTyped, PTL DEF Spec
=============================================================================
