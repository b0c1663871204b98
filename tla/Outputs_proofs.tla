--------------------------- MODULE Outputs_proofs ---------------------------
(***************************************************************************)
(* Proofs about the CEC conversations as a couch session holds them, for   *)
(* any devices and targets, any number of attempts and of faults.          *)
(***************************************************************************)
EXTENDS Outputs, TLAPS

\* The targets a conversation has not confirmed yet, wherever it is.
Open ==
  IF step \in {"view", "others", "select"} THEN Targets
  ELSE IF step \in {"reclaim", "broadcast"} THEN pending
  ELSE IF step = "query" THEN unasked \cup missed
  ELSE missed

\* ReportTrue at every step of a conversation.
ConfirmedInv == op # "none" => \A d \in Targets \ Open : power[d] = Goal

\* What the rounds so far have cost, by where the standby is.
Paid(n) == faults >= n

BudgetInv ==
  op = "standby" /\ PhysAddr =>
    /\ step \in {"reclaim", "broadcast", "query", "done"}
    /\ step # "done" => Paid(attempt - 1)
    /\ step = "broadcast" => source = "us" \/ Paid(attempt)
    /\ step = "query" =>
         Paid(attempt) \/ (missed = {} /\ \A d \in unasked : power[d] = "standby")
    /\ step = "done" => missed = {} \/ Paid(Attempts)

BInv == BTypeOK /\ ConfirmedInv /\ BudgetInv

USE CecBusAssumption

-----------------------------------------------------------------------------
(* One lemma for each step of a conversation.                              *)

LEMMA StartKeepsBInv ==
  ASSUME BInv, StartStandby \/ StartWake \/ CancelWake
  PROVE  BInv'
<1> USE DEF BInv, BTypeOK, bus
<1>1. BTypeOK'
  BY DEF StartStandby, StartWake, CancelWake
<1>2. ConfirmedInv'
  BY DEF ConfirmedInv, Open, Goal, StartStandby, StartWake, CancelWake
<1>3. BudgetInv'
  BY DEF BudgetInv, Paid, StartStandby, StartWake, CancelWake
<1> QED
  BY <1>1, <1>2, <1>3

LEMMA ReclaimKeepsBInv ==
  ASSUME BInv, Reclaim
  PROVE  BInv'
<1> USE DEF BInv, BTypeOK, Reclaim, Fault
<1>1. BTypeOK'
  OBVIOUS
<1>2. ConfirmedInv'
  BY DEF ConfirmedInv, Open, Goal
<1>3. BudgetInv'
  BY DEF BudgetInv, Paid
<1> QED
  BY <1>1, <1>2, <1>3

LEMMA BroadcastKeepsBInv ==
  ASSUME BInv, Broadcast
  PROVE  BInv'
<1> USE DEF BInv, BTypeOK, Broadcast, Fault, AskAll, Return
<1>1. BTypeOK'
  OBVIOUS
<1>2. \A d \in Devices : power[d] = "standby" => power'[d] = "standby"
  OBVIOUS
<1>3. ConfirmedInv'
  BY <1>2 DEF ConfirmedInv, Open, Goal
<1>4. source = "us" /\ faults' = faults =>
        \A d \in Devices : power'[d] = "standby"
  BY DEF Heeds
<1>5. BudgetInv'
  BY <1>4 DEF BudgetInv, Paid
<1> QED
  BY <1>1, <1>3, <1>5

LEMMA WakeKeepsBInv ==
  ASSUME BInv, ImageViewOn \/ WakeOthers \/ SelectInput
  PROVE  BInv'
<1> USE DEF BInv, BTypeOK, ImageViewOn, WakeOthers, SelectInput, Fault, AskAll, Return
<1>1. BTypeOK'
  OBVIOUS
<1>2. ConfirmedInv'
  BY DEF ConfirmedInv, Open, Goal
<1>3. BudgetInv'
  BY DEF BudgetInv, Paid
<1> QED
  BY <1>1, <1>2, <1>3

\* An answer is the state the device is in, or a lost frame.
LEMMA QueryKeepsBInv ==
  ASSUME BInv, NEW d \in Devices, Query(d)
  PROVE  BInv'
<1> USE DEF BInv, BTypeOK, Query, bus
<1>1. PICK status \in PowerStatus(d) :
        /\ missed' = IF status = Goal THEN missed ELSE missed \cup {d}
        /\ faults' = IF status = "unknown" THEN faults + 1 ELSE faults
  OBVIOUS
<1>2. /\ status = power[d] \/ (status = "unknown" /\ faults < MaxFaults)
      /\ power[d] # "unknown"
  BY <1>1 DEF PowerStatus
<1>3. BTypeOK'
  BY <1>1, <1>2
<1>4. ConfirmedInv'
  BY <1>1, <1>2 DEF ConfirmedInv, Open, Goal
<1>5. BudgetInv'
  BY <1>1, <1>2 DEF BudgetInv, Paid, Goal
<1> QED
  BY <1>3, <1>4, <1>5

LEMMA EndRoundKeepsBInv ==
  ASSUME BInv, EndRound
  PROVE  BInv'
<1> USE DEF BInv, BTypeOK, EndRound, Return, NextRound, bus
<1>1. BTypeOK'
  OBVIOUS
<1>2. ConfirmedInv'
  BY DEF ConfirmedInv, Open, Goal
<1>3. BudgetInv'
  BY DEF BudgetInv, Paid
<1> QED
  BY <1>1, <1>2, <1>3

LEMMA OthersKeepBInv ==
  ASSUME BInv, NEW d \in Devices, Reassert \/ Claim \/ SwitchByHand(d)
  PROVE  BInv'
<1> USE DEF BInv, BTypeOK, Reassert, Claim, SwitchByHand, Fault, talk
<1>1. BTypeOK'
  OBVIOUS
<1>2. ConfirmedInv'
  BY DEF ConfirmedInv, Open, Goal
<1>3. BudgetInv'
  BY DEF BudgetInv, Paid
<1> QED
  BY <1>1, <1>2, <1>3

LEMMA UnchangedKeepsBInv ==
  ASSUME BInv, UNCHANGED bvars
  PROVE  BInv'
BY DEF BInv, BTypeOK, ConfirmedInv, BudgetInv, Open, Goal, Paid, bvars, talk, bus

-----------------------------------------------------------------------------
LEMMA InitBInv == OInit => BInv
BY DEF OInit, BInit, BInv, BTypeOK, ConfirmedInv, BudgetInv

LEMMA NextKeepsBInv == BInv /\ [ONext]_ovars => BInv'
<1> SUFFICES ASSUME BInv, [ONext]_ovars PROVE BInv'
  OBVIOUS
<1>1. CASE Conversation
  BY <1>1, ReclaimKeepsBInv, BroadcastKeepsBInv, WakeKeepsBInv, QueryKeepsBInv,
     EndRoundKeepsBInv DEF Conversation
<1>2. CASE CecStep \/ Switched
  BY <1>1, <1>2, OthersKeepBInv DEF CecStep, Switched
<1>3. CASE ToCouch \/ ToDesk \/ DeskStandby \/ Idle \/ Resume
  BY <1>3, StartKeepsBInv DEF ToCouch, ToDesk, DeskStandby, Idle, Resume
<1>4. CASE CouchAudio \/ CouchReady \/ SoundStep \/ SinkChanges \/ StreamChanges
  BY <1>4, UnchangedKeepsBInv
     DEF CouchAudio, CouchReady, SoundStep, SinkChanges, StreamChanges
<1>5. CASE UNCHANGED ovars
  BY <1>5, UnchangedKeepsBInv DEF ovars
<1> QED
  BY <1>2, <1>3, <1>4, <1>5 DEF ONext

LEMMA AlwaysBInv == OSpec => []BInv
BY InitBInv, NextKeepsBInv, PTL DEF OSpec

\* However many frames are lost, whoever claims the input, and wherever a wake-up
\* is cut off by a teardown: what a conversation does not report unconfirmed is
\* in the state it asked for when it returns (wake_and_verify,
\* standby_and_verify).
THEOREM ReportsAreTrue == OSpec => []ReportTrue
<1>1. BInv => ReportTrue
  BY DEF BInv, ConfirmedInv, ReportTrue, Open, Unconfirmed
<1> QED
  BY <1>1, AlwaysBInv, PTL

\* The budget of standby_and_verify is exact: with n attempts, each with its own
\* reclaim, fewer than n faults never leave a target unconfirmed.
THEOREM StandbySurvivesFaults == OSpec => []StandbyWithinBudget
<1>1. BInv => StandbyWithinBudget
  BY DEF BInv, BTypeOK, BudgetInv, StandbyWithinBudget, Unconfirmed, Paid
<1> QED
  BY <1>1, AlwaysBInv, PTL

-----------------------------------------------------------------------------
(* The sound follows the session.                                          *)

Searching == {"named", "hdmi", "described"}
Setting == {"default", "list", "move"}
Succeeded == audio = "idle" /\ report = "ok"

\* Which part of audio.py may run in which direction, and with attempts left.
StageInv ==
  /\ stage \in {"desk", "waking", "toCouch", "couch", "toDesk"}
  /\ stage \notin {"toCouch", "toDesk"} => audio = "idle"
  /\ stage = "toCouch" => audio # "desk"
  /\ stage = "toDesk" => audio \notin Searching
  /\ tries > 0 <=> audio \in Searching

\* Where set_audio_to_sink is with one of these sinks: it is there, then it is the
\* default, then what is not left to be moved plays on it, then everything does.
Arrived(sinks) ==
  /\ audio \in Setting \/ Succeeded => target \in live \cap sinks
  /\ audio \in Setting \ {"default"} \/ Succeeded => default = target
  /\ audio = "move" => \A s \in Streams \ toMove : on[s] \in {target, "none"}
  /\ Succeeded => \A s \in Streams : on[s] \in {target, "none"}
  /\ audio # "idle" => report = "none"

\* The TV's sink is what resolve_couch_sink looks for: it is found by its name or
\* by its description, and nothing else is.
FindsTvOnly == Hdmi \cup Described = TvNames /\ CouchSink # DeskSink

\* Undisturbed, a search looks at sinks that are still there; on its last attempt
\* it has seen them all, and if it gives up the TV has none.
CouchInv ==
  FindsTvOnly /\ stage \in {"toCouch", "couch"} /\ ~disturbed =>
    /\ Arrived(TvNames)
    /\ seen \subseteq live
    /\ tries < 2 /\ audio = "described" => live \cap Hdmi = {}
    /\ tries < 2 /\ audio \in {"hdmi", "described"} /\ CouchSink # "none" => seen = live
    /\ audio = "idle" => report = "ok" \/ live \cap TvNames = {}

\* Undisturbed, the sound is at the desk before the TV is put to standby.
DeskInv ==
  (stage = "toDesk" \/ (stage = "desk" /\ op = "standby")) /\ ~disturbed =>
    Arrived({DeskSink}) /\ (audio = "idle" => report # "none")

SoundInv == ATypeOK /\ StageInv /\ CouchInv /\ DeskInv

USE AudioAssumption DEF Sinks

\* The steps of set_audio_to_sink, and streams that start and stop meanwhile.
LEMMA SettingKeepsArrived ==
  ASSUME ATypeOK, NEW sinks, Arrived(sinks),
         \/ SetDefault \/ ListStreams \/ AllMoved
         \/ \E s \in Streams : MoveStream(s) \/ StreamStarts(s) \/ StreamStops(s),
         ~disturbed'
  PROVE  Arrived(sinks)' /\ ~disturbed /\ UNCHANGED live
<1> USE DEF Arrived, Setting, Succeeded, ATypeOK, search, server
<1>1. CASE SetDefault
  BY <1>1 DEF SetDefault
<1>2. CASE ListStreams
  BY <1>2 DEF ListStreams, Report
<1>3. CASE AllMoved
  BY <1>3 DEF AllMoved, Report
<1>4. ASSUME NEW s \in Streams, MoveStream(s)
      PROVE  Arrived(sinks)' /\ ~disturbed /\ UNCHANGED live
  BY <1>4 DEF MoveStream
<1>5. ASSUME NEW s \in Streams, StreamStarts(s) \/ StreamStops(s)
      PROVE  Arrived(sinks)' /\ ~disturbed /\ UNCHANGED live
  BY <1>5 DEF StreamStarts, StreamStops
<1> QED
  BY <1>1, <1>2, <1>3, <1>4, <1>5

LEMMA SettingKeepsSound ==
  ASSUME SoundInv, UNCHANGED <<stage, op>>,
         \/ SetDefault \/ ListStreams \/ AllMoved
         \/ \E s \in Streams : MoveStream(s) \/ StreamStarts(s) \/ StreamStops(s)
  PROVE  SoundInv'
<1> USE DEF SoundInv, search, server
<1>0. /\ UNCHANGED <<live, search>>
      /\ \/ UNCHANGED <<audio, report>>
         \/ /\ audio \in Setting /\ audio' \in Setting \cup {"idle"}
            /\ audio' = "idle" => report' = Report
  BY DEF SetDefault, ListStreams, AllMoved, MoveStream, StreamStarts, StreamStops, Setting
<1>1. ATypeOK'
  <2>1. CASE SetDefault \/ ListStreams \/ AllMoved
    BY <2>1 DEF ATypeOK, SetDefault, ListStreams, AllMoved, Report
  <2>2. ASSUME NEW s \in Streams, MoveStream(s)
        PROVE  ATypeOK'
    <3>1. on' \in [Streams -> TvNames \cup {DeskSink} \cup {"none"}]
      BY <2>2 DEF ATypeOK, MoveStream
    <3> QED
      BY <2>2, <3>1 DEF ATypeOK, MoveStream
  <2>3. ASSUME NEW s \in Streams, StreamStarts(s) \/ StreamStops(s)
        PROVE  ATypeOK'
    BY <2>3 DEF ATypeOK, StreamStarts, StreamStops
  <2> QED
    BY <2>1, <2>2, <2>3
<1>2. StageInv'
  BY <1>0 DEF StageInv, Searching, Setting
<1>3. CouchInv'
  <2> SUFFICES ASSUME FindsTvOnly, stage \in {"toCouch", "couch"}, ~disturbed'
               PROVE  CouchInv'
    BY DEF CouchInv
  <2>1. ~disturbed
    BY DEF SetDefault, ListStreams, AllMoved, MoveStream, StreamStarts, StreamStops
  <2>2. Arrived(TvNames)'
    BY <2>1, SettingKeepsArrived DEF CouchInv
  <2>3. audio # "idle" => report = "none"
    BY <2>1 DEF CouchInv, Arrived
  <2>4. audio' = "idle" => report' = "ok" \/ live' \cap TvNames = {}
    BY <1>0, <2>1, <2>3 DEF CouchInv, Setting, Report
  <2> QED
    BY <1>0, <2>1, <2>2, <2>4 DEF CouchInv, Setting
<1>4. DeskInv'
  <2> SUFFICES ASSUME stage = "toDesk" \/ (stage = "desk" /\ op = "standby"), ~disturbed'
               PROVE  DeskInv'
    BY DEF DeskInv
  <2>1. ~disturbed
    BY DEF SetDefault, ListStreams, AllMoved, MoveStream, StreamStarts, StreamStops
  <2>2. Arrived({DeskSink})'
    BY <2>1, SettingKeepsArrived DEF DeskInv
  <2> QED
    BY <1>0, <2>1, <2>2 DEF DeskInv, Report
<1> QED
  BY <1>1, <1>2, <1>3, <1>4

\* A sink is settled on: it is there, unless something disturbed the search.
LEMMA SettleKeepsSound ==
  ASSUME SoundInv, audio # "idle", NEW s \in TvNames \cup {DeskSink}, Settle(s),
         UNCHANGED <<server, toMove, stage, op>>,
         disturbed' \in BOOLEAN, ~disturbed' => ~disturbed,
         \/ /\ stage = "toCouch"
            /\ FindsTvOnly => s \in TvNames /\ (~disturbed' => s \in live)
         \/ stage = "toDesk" /\ s = DeskSink /\ (~disturbed' => s \in live)
  PROVE  SoundInv'
<1> USE DEF SoundInv, Settle, server
<1>1. ATypeOK' /\ StageInv'
  BY DEF ATypeOK, StageInv, Searching
<1>2. CASE disturbed'
  BY <1>1, <1>2 DEF CouchInv, DeskInv
<1>3. CASE ~disturbed'
  <2>1. /\ FindsTvOnly /\ stage = "toCouch" => report' = "none"
        /\ stage = "toDesk" => report' = "none"
    BY <1>3 DEF CouchInv, DeskInv, Arrived
  <2>2. CouchInv'
    BY <1>3, <2>1 DEF CouchInv, Arrived, Setting, Succeeded
  <2>3. DeskInv'
    BY <1>3, <2>1 DEF DeskInv, Arrived, Setting, Succeeded
  <2> QED
    BY <1>1, <2>2, <2>3
<1> QED
  BY <1>2, <1>3

\* The search is given up: the TV has no sink, unless something disturbed it.
LEMMA DegradedKeepsSound ==
  ASSUME SoundInv, Degraded, UNCHANGED <<server, toMove, stage, op>>,
         disturbed' \in BOOLEAN,
         \/ stage = "toCouch" /\ (FindsTvOnly /\ ~disturbed' => live \cap TvNames = {})
         \/ stage = "toDesk"
  PROVE  SoundInv'
<1> USE DEF SoundInv, Degraded, server
<1>1. ATypeOK' /\ StageInv'
  BY DEF ATypeOK, StageInv, Searching
<1>2. CouchInv' /\ DeskInv'
  BY DEF CouchInv, DeskInv, Arrived, Setting, Succeeded
<1> QED
  BY <1>1, <1>2

\* The search goes on to its next listing.
LEMMA SearchGoesOn ==
  ASSUME SoundInv, stage = "toCouch", audio \in Searching, audio' \in Searching,
         UNCHANGED <<server, toMove, target, report, stage, op>>,
         disturbed' \in BOOLEAN, tries' \in 1 .. tries,
         seen' \subseteq TvNames \cup {DeskSink},
         FindsTvOnly /\ ~disturbed' =>
           /\ ~disturbed /\ seen' \subseteq live
           /\ tries' < 2 /\ audio' = "described" => live \cap Hdmi = {}
           /\ tries' < 2 /\ audio' \in {"hdmi", "described"} /\ CouchSink # "none"
                => seen' = live
  PROVE  SoundInv'
<1> USE DEF SoundInv, server
<1>1. ATypeOK'
  BY DEF ATypeOK, Searching
<1>2. StageInv' /\ DeskInv'
  BY DEF ATypeOK, StageInv, DeskInv, Searching
<1>3. CouchInv'
  BY DEF CouchInv, Arrived, Searching, Setting, Succeeded
<1> QED
  BY <1>1, <1>2, <1>3

LEMMA ListsOrDisturbs ==
  ASSUME ATypeOK, NEW found, Lists(found)
  PROVE  /\ disturbed' \in BOOLEAN /\ found \subseteq live
         /\ ~disturbed' => ~disturbed /\ found = live
BY DEF Lists, ATypeOK

\* The steps that look for a sink.
LEMMA SearchKeepsSound ==
  ASSUME SoundInv, FindDesk \/ FindNamed \/ FindHdmi \/ FindDescribed,
         UNCHANGED <<stage, op>>
  PROVE  SoundInv'
<1>t. ATypeOK /\ StageInv /\ live \subseteq TvNames \cup {DeskSink}
  BY DEF SoundInv, ATypeOK
<1>1. CASE FindDesk
  <2>1. PICK found \in {live, {}} :
          Lists(found) /\ IF DeskSink \in found THEN Settle(DeskSink) ELSE Degraded
    BY <1>1 DEF FindDesk
  <2>2. stage = "toDesk" /\ audio = "desk" /\ UNCHANGED <<server, toMove>>
    BY <1>1, <1>t DEF FindDesk, StageInv
  <2> QED
    BY <1>t, <2>1, <2>2, ListsOrDisturbs, SettleKeepsSound, DegradedKeepsSound
<1>2. CASE FindNamed \/ FindHdmi \/ FindDescribed
  <2>1. /\ stage = "toCouch" /\ audio \in Searching /\ tries \in 1 .. Waits
        /\ UNCHANGED <<server, toMove>>
    BY <1>2, <1>t DEF FindNamed, FindHdmi, FindDescribed, StageInv, Searching, ATypeOK
  <2>2. CASE FindNamed
    <3>1. PICK found \in {live, {}} :
            /\ Lists(found)
            /\ IF CouchSink \in found THEN Settle(CouchSink)
               ELSE /\ audio' = "hdmi" /\ seen' = found
                    /\ UNCHANGED <<tries, target, report>>
      BY <2>2 DEF FindNamed
    <3>2. CASE CouchSink \in found
      BY <1>t, <2>1, <3>1, <3>2, ListsOrDisturbs, SettleKeepsSound DEF FindsTvOnly, Searching
    <3>3. CASE CouchSink \notin found
      BY <1>t, <2>1, <3>1, <3>3, ListsOrDisturbs, SearchGoesOn DEF Searching
    <3> QED
      BY <3>2, <3>3
  <2>3. CASE FindHdmi
    <3>1. PICK found \in {live, {}} :
            /\ Lists(found)
            /\ \/ \E s \in found \cap Hdmi : Settle(s)
               \/ /\ found \cap Hdmi = {} /\ audio' = "described"
                  /\ UNCHANGED <<search, report>>
      BY <2>3 DEF FindHdmi
    <3>2. ASSUME NEW s \in found \cap Hdmi, Settle(s) PROVE SoundInv'
      BY <1>t, <2>1, <3>1, <3>2, ListsOrDisturbs, SettleKeepsSound DEF FindsTvOnly, Searching
    <3>3. CASE found \cap Hdmi = {} /\ audio' = "described" /\ UNCHANGED <<search, report>>
      <4>1. /\ seen \subseteq TvNames \cup {DeskSink}
            /\ FindsTvOnly /\ ~disturbed => seen \subseteq live
            /\ FindsTvOnly /\ ~disturbed /\ tries < 2 /\ CouchSink # "none" => seen = live
        BY <2>1, <2>3 DEF SoundInv, ATypeOK, CouchInv, FindHdmi
      <4> QED
        BY <1>t, <2>1, <3>1, <3>3, <4>1, ListsOrDisturbs, SearchGoesOn
           DEF Searching, search
    <3> QED
      BY <3>1, <3>2, <3>3
  <2>4. CASE FindDescribed
    <3>1. PICK found \in IF CouchSink = "none" THEN {live, {}} ELSE {seen} :
            /\ IF CouchSink = "none" THEN Lists(found) ELSE UNCHANGED disturbed
            /\ \/ \E s \in found \cap Described : Settle(s)
               \/ found \cap Described = {} /\ TryAgain
      BY <2>4 DEF FindDescribed
    <3>2. /\ disturbed' \in BOOLEAN
          /\ found \subseteq TvNames \cup {DeskSink}
          /\ ~disturbed' => ~disturbed
          /\ FindsTvOnly /\ ~disturbed' =>
               found \subseteq live /\ (tries < 2 => found = live)
      BY <1>t, <2>1, <2>4, <3>1, ListsOrDisturbs
         DEF SoundInv, ATypeOK, CouchInv, FindDescribed
    <3>3. ASSUME NEW s \in found \cap Described, Settle(s) PROVE SoundInv'
      BY <1>t, <2>1, <3>2, <3>3, SettleKeepsSound DEF FindsTvOnly, Searching
    <3>4. CASE found \cap Described = {} /\ TryAgain
      <4>1. CASE tries > 1
        BY <1>t, <2>1, <3>2, <3>4, <4>1, SearchGoesOn DEF TryAgain, Searching
      <4>2. CASE ~(tries > 1)
        <5>1. Degraded
          BY <3>4, <4>2 DEF TryAgain
        <5>2. FindsTvOnly /\ ~disturbed' => live \cap TvNames = {}
          <6>1. tries < 2
            BY <2>1, <4>2
          <6>2. FindsTvOnly /\ ~disturbed => live \cap Hdmi = {}
            BY <2>1, <2>4, <6>1 DEF SoundInv, CouchInv, FindDescribed
          <6> QED
            BY <3>2, <3>4, <6>1, <6>2 DEF FindsTvOnly
        <5> QED
          BY <2>1, <3>2, <5>1, <5>2, DegradedKeepsSound
      <4> QED
        BY <4>1, <4>2
    <3> QED
      BY <3>1, <3>3, <3>4
  <2> QED
    BY <1>2, <2>2, <2>3, <2>4
<1> QED
  BY <1>1, <1>2

\* Sinks that come and go.
LEMMA SinksKeepSound ==
  ASSUME SoundInv, SinkChanges
  PROVE  SoundInv'
<1> USE DEF SoundInv, search, server
<1>s. UNCHANGED <<stage, op>>
  BY DEF SinkChanges, bvars, talk
<1>1. ASSUME NEW s \in TvNames \cup {DeskSink}, SinkAppears(s) PROVE SoundInv'
  <2>1. ATypeOK'
    BY <1>1 DEF SinkAppears, ATypeOK
  <2>2. StageInv'
    BY <1>s, <1>1 DEF SinkAppears, StageInv
  <2>3. disturbed' \/ (~disturbed /\ tries >= 2 /\ audio \in Searching)
    <3>1. CASE tries < 2
      BY <1>1, <3>1, Zenon DEF SinkAppears
    <3>2. CASE tries >= 2
      <4>1. ~(tries < 2) /\ audio \in Searching
        BY <3>2 DEF StageInv, ATypeOK
      <4> QED
        BY <1>1, <3>2, <4>1, Zenon DEF SinkAppears
    <3> QED
      BY <3>1, <3>2 DEF ATypeOK
  <2>4. CouchInv'
    BY <1>s, <1>1, <2>3 DEF SinkAppears, CouchInv, Arrived, Searching, Setting, Succeeded
  <2>5. DeskInv'
    BY <1>s, <1>1, <2>3 DEF SinkAppears, DeskInv, StageInv, Searching
  <2> QED
    BY <2>1, <2>2, <2>4, <2>5
<1>2. ASSUME NEW s \in TvNames \cup {DeskSink}, SinkVanishes(s) PROVE SoundInv'
  <2>1. ATypeOK'
    <3>1. live' \subseteq live /\ default' \in live'
      BY <1>2 DEF SinkVanishes, ATypeOK
    <3>2. on' \in [Streams -> TvNames \cup {DeskSink} \cup {"none"}]
      BY <1>2, <3>1 DEF SinkVanishes, ATypeOK
    <3> QED
      BY <1>2, <3>1, <3>2 DEF SinkVanishes, ATypeOK
  <2>2. StageInv'
    BY <1>s, <1>2 DEF SinkVanishes, StageInv
  <2>3. CouchInv' /\ DeskInv'
    BY <1>2 DEF SinkVanishes, CouchInv, DeskInv
  <2> QED
    BY <2>1, <2>2, <2>3
<1> QED
  BY <1>1, <1>2 DEF SinkChanges

\* The directions the outputs go, one after the other.
LEMMA StagesKeepSound ==
  ASSUME SoundInv,
         ToCouch \/ CouchAudio \/ CouchReady \/ ToDesk \/ DeskStandby \/ Idle \/ Resume
  PROVE  SoundInv'
<1> USE DEF SoundInv, search, server, avars
<1>1. CASE CouchAudio \/ ToDesk
  <2>1. ATypeOK' /\ StageInv'
    <3>1. tries' \in 0 .. Waits /\ (tries' > 0 <=> CouchAudio)
      BY <1>1 DEF CouchAudio, ToDesk, BeginCouch, BeginDesk
    <3> QED
      BY <1>1, <3>1 DEF CouchAudio, ToDesk, BeginCouch, BeginDesk, ATypeOK, StageInv,
         Searching
  <2>2. CouchInv' /\ DeskInv'
    BY <1>1 DEF CouchAudio, ToDesk, BeginCouch, BeginDesk, CouchInv, DeskInv, Arrived,
       Setting, Succeeded
  <2> QED
    BY <2>1, <2>2
<1>2. CASE ToCouch \/ CouchReady \/ DeskStandby \/ Idle \/ Resume
  <2>1. UNCHANGED avars
    BY <1>2 DEF ToCouch, CouchReady, DeskStandby, Idle, Resume
  <2>2. ATypeOK' /\ StageInv'
    BY <1>2, <2>1 DEF ToCouch, CouchReady, DeskStandby, Idle, Resume, ATypeOK, StageInv,
       Searching
  <2>3. CouchInv' /\ DeskInv'
    BY <1>2, <2>1 DEF ToCouch, CouchReady, DeskStandby, Idle, Resume, CouchInv, DeskInv,
       Arrived, Setting, Succeeded
  <2> QED
    BY <2>2, <2>3
<1> QED
  BY <1>1, <1>2

\* What the CEC conversations do leaves the sound alone.
LEMMA BusKeepsSound ==
  ASSUME SoundInv, CecStep \/ Switched \/ UNCHANGED ovars
  PROVE  SoundInv'
<1>1. UNCHANGED <<avars, stage>> /\ (op' = op \/ op' # "standby")
  BY DEF CecStep, Switched, ovars, bvars, talk, Conversation, Reclaim, Broadcast,
     ImageViewOn, WakeOthers, SelectInput, EndRound, Query, Reassert, Claim, SwitchByHand
<1> QED
  BY <1>1 DEF SoundInv, ATypeOK, StageInv, CouchInv, DeskInv, Arrived, Succeeded, avars,
     search, server

LEMMA InitSound == OInit => SoundInv
<1> SUFFICES ASSUME OInit PROVE SoundInv
  OBVIOUS
<1>1. on \in [Streams -> TvNames \cup {DeskSink} \cup {"none"}]
  BY DEF OInit, AInit
<1>2. live \subseteq TvNames \cup {DeskSink} /\ default \in live
  BY DEF OInit, AInit
<1>3. /\ audio = "idle" /\ tries = 0 /\ seen = {} /\ target = "none" /\ toMove = {}
      /\ report = "none" /\ disturbed = FALSE /\ stage = "desk" /\ op = "none"
  BY DEF OInit, AInit, BInit
<1>4. ATypeOK
  <2>1. 0 \in 0 .. Waits
    OBVIOUS
  <2> QED
    BY <1>1, <1>2, <1>3, <2>1, Zenon DEF ATypeOK
<1>5. StageInv
  BY <1>3 DEF StageInv, Searching
<1> QED
  BY <1>3, <1>4, <1>5 DEF SoundInv, CouchInv, DeskInv

LEMMA NextKeepsSound ==
  ASSUME SoundInv, [ONext]_ovars
  PROVE  SoundInv'
<1>1. CASE SoundStep
  BY <1>1, SearchKeepsSound, SettingKeepsSound DEF SoundStep, AudioStep, bvars, talk
<1>2. CASE StreamChanges
  BY <1>2, SettingKeepsSound DEF StreamChanges, bvars, talk
<1> QED
  BY <1>1, <1>2, SinksKeepSound, StagesKeepSound, BusKeepsSound DEF ONext

\* While the TV's sink is there the couch has the sound, however stale the name
\* is that couch_sink gives it, however late the TV woke up in the search, and
\* whatever starts to play while set_audio_to_sink moves the streams one by one.
THEOREM TvHasTheSound ==
  ASSUME FindsTvOnly
  PROVE  OSpec => []TvSoundFound
<1>1. OInit => SoundInv
  BY InitSound
<1>2. SoundInv /\ [ONext]_ovars => SoundInv'
  BY NextKeepsSound
<1>3. SoundInv => TvSoundFound
  BY DEF SoundInv, StageInv, CouchInv, Arrived, Succeeded, TvSoundFound, ATypeOK
<1> QED
  BY <1>1, <1>2, <1>3, PTL DEF OSpec

\* activate_desk has moved every stream off the TV before it puts the TV to
\* standby, and nothing that starts later plays there, as long as the desk's sink
\* could be made the default and nothing was disturbed.
THEOREM SilentWhenPutToSleep == OSpec => []TvSleepsSilently
<1>1. OInit => SoundInv
  BY InitSound
<1>2. SoundInv /\ [ONext]_ovars => SoundInv'
  BY NextKeepsSound
<1>3. SoundInv => TvSleepsSilently
  <2> SUFFICES ASSUME SoundInv, stage = "desk", op = "standby", ~disturbed,
                      report # "degraded"
               PROVE  \A s \in Streams : on[s] \notin TvNames
    BY DEF TvSleepsSilently
  <2>1. audio = "idle" /\ Arrived({DeskSink}) /\ report = "ok"
    BY DEF SoundInv, StageInv, DeskInv, ATypeOK
  <2> QED
    BY <2>1 DEF Arrived, Succeeded
<1> QED
  BY <1>1, <1>2, <1>3, PTL DEF OSpec

\* What the TV, the bus and the sound server are, and where the two activations
\* are, stays within its types.
THEOREM OutputsTypes == OSpec => []OTypeOK
<1>1. OInit => BInv /\ SoundInv
  BY InitBInv, InitSound
<1>2. BInv /\ SoundInv /\ [ONext]_ovars => BInv' /\ SoundInv'
  BY NextKeepsBInv, NextKeepsSound
<1>3. BInv /\ SoundInv => OTypeOK
  BY DEF BInv, SoundInv, OTypeOK
<1> QED
  BY <1>1, <1>2, <1>3, PTL DEF OSpec

-----------------------------------------------------------------------------
(* Both directions only ever get on.                                       *)

StageRank == [waking |-> 5, toCouch |-> 4, couch |-> 3, toDesk |-> 2, desk |-> 1]
StepRank ==
  [view |-> 5, others |-> 4, select |-> 3, reclaim |-> 2, broadcast |-> 1, query |-> 0]
AudioRank ==
  [desk |-> 4, named |-> 4, hdmi |-> 3, described |-> 2, default |-> 2, list |-> 1,
   move |-> 0]

\* The conversation gets on: it ends, is in a later round, or asks one device less.
TalkOn ==
  /\ step # "done"
  /\ \/ step' = "done"
     \/ attempt' > attempt
     \/ attempt' = attempt /\ StepRank[step'] < StepRank[step]
     \/ attempt' = attempt /\ step' = step /\ unasked' \subseteq unasked /\ unasked' # unasked

\* So does the activation: it ends, has an attempt less, or a stream less to move.
AudioOn ==
  /\ audio # "idle"
  /\ \/ audio' = "idle"
     \/ tries' < tries
     \/ tries' = tries /\ AudioRank[audio'] < AudioRank[audio]
     \/ tries' = tries /\ audio' = audio /\ toMove' \subseteq toMove /\ toMove' # toMove

TalkRests == UNCHANGED <<step, attempt, unasked>>
AudioRests == UNCHANGED <<audio, tries, toMove>>

\* While the outputs are on their way, every step of the daemon brings either the
\* session, the conversation or the activation further, and no step of anybody
\* throws one of them back but one that brings the session further.
OnlyForward ==
  [][Busy /\ Busy' =>
       \/ StageRank[stage'] < StageRank[stage]
       \/ /\ stage' = stage
          /\ \/ TalkOn /\ AudioRests
             \/ TalkRests /\ AudioOn
             \/ TalkRests /\ AudioRests /\ ~Progress]_ovars

LEMMA ConversationGetsOn ==
  ASSUME BTypeOK, Conversation
  PROVE  TalkOn
<1> USE DEF TalkOn, StepRank, BTypeOK
<1>1. CASE Reclaim \/ ImageViewOn \/ WakeOthers \/ SelectInput \/ Broadcast
  BY <1>1 DEF Reclaim, ImageViewOn, WakeOthers, SelectInput, Broadcast, AskAll, Return
<1>2. CASE EndRound
  BY <1>2, CecBusAssumption DEF EndRound, Return
<1>3. ASSUME NEW d \in Devices, Query(d) PROVE TalkOn
  BY <1>3 DEF Query
<1> QED
  BY <1>1, <1>2, <1>3 DEF Conversation

LEMMA ActivationGetsOn ==
  ASSUME ATypeOK, StageInv, AudioStep
  PROVE  AudioOn
<1> USE DEF AudioOn, AudioRank, ATypeOK, search
<1>n. tries \in Nat /\ (audio \in Searching => tries > 0)
  BY AudioAssumption DEF StageInv
<1>1. CASE FindDesk
  BY <1>1, <1>n DEF FindDesk, Settle, Degraded, StageInv, Searching
<1>2. CASE FindNamed \/ FindHdmi
  BY <1>2, <1>n DEF FindNamed, FindHdmi, Settle, Searching
<1>3. CASE FindDescribed
  BY <1>3, <1>n DEF FindDescribed, Settle, TryAgain, Degraded, Searching
<1>4. CASE SetDefault \/ ListStreams \/ AllMoved
  BY <1>4, <1>n DEF SetDefault, ListStreams, AllMoved
<1>5. ASSUME NEW s \in Streams, MoveStream(s) PROVE AudioOn
  BY <1>5, <1>n DEF MoveStream
<1> QED
  BY <1>1, <1>2, <1>3, <1>4, <1>5 DEF AudioStep

\* What the daemon goes on with gets on, and nothing else touches it.
LEMMA ProgressGetsOn ==
  ASSUME BInv, SoundInv, Progress, stage' = stage
  PROVE  (TalkOn /\ AudioRests) \/ (TalkRests /\ AudioOn)
<1>1. CASE Conversation /\ UNCHANGED avars
  BY <1>1, ConversationGetsOn DEF BInv, AudioRests, avars, search
<1>2. CASE SoundStep
  BY <1>2, ActivationGetsOn DEF SoundInv, SoundStep, TalkRests, bvars, talk
<1>3. CASE CouchAudio \/ CouchReady \/ DeskStandby
  BY <1>3 DEF CouchAudio, CouchReady, DeskStandby
<1> QED
  BY <1>1, <1>2, <1>3 DEF Progress

LEMMA OthersRest ==
  ASSUME Busy, Switched \/ SinkChanges \/ StreamChanges \/ (CecStep /\ ~Conversation)
  PROVE  TalkRests /\ AudioRests /\ stage' = stage
<1> USE DEF TalkRests, AudioRests, avars, bvars, talk, search
<1>1. CASE Switched
  BY <1>1 DEF Switched, SwitchByHand
<1>2. CASE SinkChanges
  BY <1>2 DEF SinkChanges, SinkAppears, SinkVanishes
<1>3. CASE StreamChanges
  BY <1>3 DEF StreamChanges, StreamStarts, StreamStops
<1>4. CASE CecStep /\ ~Conversation
  BY <1>4 DEF CecStep, Reassert, Claim
<1> QED
  BY <1>1, <1>2, <1>3, <1>4

\* What is left to be done grows at no step, whatever the bus, the sound server,
\* the sinks and the streams do meanwhile: rounds are counted, attempts are counted,
\* and neither a wake-up nor a retry starts a direction over (daemon.py).  With the
\* fairness of Progress this is why OutputsSettle does not depend on the number of
\* devices, streams and attempts.
THEOREM OutputsGetOn == OSpec => OnlyForward
<1> DEFINE Step ==
      Busy /\ Busy' =>
        \/ StageRank[stage'] < StageRank[stage]
        \/ /\ stage' = stage
           /\ \/ TalkOn /\ AudioRests
              \/ TalkRests /\ AudioOn
              \/ TalkRests /\ AudioRests /\ ~Progress
<1>1. BInv /\ SoundInv /\ [ONext]_ovars => [Step]_ovars
  <2> SUFFICES ASSUME BInv, SoundInv, ONext, Busy, Busy'
               PROVE  \/ StageRank[stage'] < StageRank[stage]
                      \/ /\ stage' = stage
                         /\ \/ TalkOn /\ AudioRests
                            \/ TalkRests /\ AudioOn
                            \/ TalkRests /\ AudioRests /\ ~Progress
    OBVIOUS
  <2>1. CASE ToCouch \/ CouchAudio \/ CouchReady \/ ToDesk \/ DeskStandby
    BY <2>1 DEF ToCouch, CouchAudio, CouchReady, ToDesk, DeskStandby, Busy, StageRank
  <2>2. CASE Idle \/ Resume
    BY <2>2 DEF Idle, Resume, Busy
  <2>3. CASE stage' = stage /\ Progress
    BY <2>3, ProgressGetsOn
  <2>4. CASE (CecStep /\ Conversation) \/ SoundStep
    <3>1. stage' = stage /\ Progress
      BY <2>4 DEF CecStep, SoundStep, Progress
    <3> QED
      BY <2>3, <3>1
  <2>5. CASE (CecStep /\ ~Conversation) \/ Switched \/ SinkChanges \/ StreamChanges
    <3>1. TalkRests /\ AudioRests /\ stage' = stage
      BY <2>5, OthersRest
    <3> QED
      BY <2>3, <3>1
  <2> QED
    BY <2>1, <2>2, <2>4, <2>5 DEF ONext
<1> QED
  BY <1>1, InitBInv, InitSound, NextKeepsBInv, NextKeepsSound, PTL DEF OSpec, OnlyForward
=============================================================================
