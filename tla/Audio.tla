------------------------------- MODULE Audio -------------------------------
(***************************************************************************)
(* actions/audio.py: the sound follows the session.  A sink is looked for, *)
(* by a name that may have gone stale and then by what it is, it is made   *)
(* the default, and what is already playing is moved to it, one stream     *)
(* after the other.  Each step is a pactl call: it may fail, and between   *)
(* two of them sinks come and go and streams start and stop.               *)
(***************************************************************************)
EXTENDS Naturals

CONSTANTS
  TvNames,     \* the names the TV's sink goes by, one at a time
  DeskSink,    \* desk_sink
  CouchSink,   \* couch_sink, or "none"
  Hdmi,        \* sinks with "hdmi" in their name
  Described,   \* sinks that are described as "Couch"
  Streams,     \* what plays
  Waits        \* attempts of resolve_couch_sink_with_wait

Sinks == TvNames \cup {DeskSink}

ASSUME AudioAssumption ==
  /\ "none" \notin Sinks /\ DeskSink \notin TvNames
  /\ Hdmi \subseteq Sinks /\ Described \subseteq Sinks
  /\ Waits \in Nat \ {0}

VARIABLES
  live,       \* the sinks there are
  default,    \* the default sink
  on,         \* the sink each stream plays on, or "none"
  audio,      \* what the activation does next, "idle" when it has returned
  tries,      \* attempts left
  seen,       \* the sinks of its last long listing
  target,     \* the sink it settled on
  toMove,     \* streams it has still to move
  report,     \* what it reported: "none", "ok" or "degraded"
  disturbed   \* a call failed, or a sink came or went when it was too late

server == <<live, default, on>>
search == <<tries, seen, target>>
avars == <<server, audio, search, toMove, report, disturbed>>

AInit ==
  /\ live \in {{DeskSink}} \cup {{DeskSink, s} : s \in TvNames}
  /\ default = DeskSink
  /\ on = [s \in Streams |-> "none"]
  /\ audio = "idle" /\ tries = 0 /\ seen = {} /\ target = "none"
  /\ toMove = {} /\ report = "none" /\ disturbed = FALSE

\* pactl list: the sinks as they are now, or nothing when the call fails.
Lists(found) ==
  \/ found = live /\ UNCHANGED disturbed
  \/ found = {} /\ disturbed' = TRUE

Degraded ==
  /\ audio' = "idle" /\ report' = "degraded"
  /\ tries' = 0 /\ seen' = {} /\ UNCHANGED target

Settle(s) ==
  /\ audio' = "default" /\ target' = s
  /\ tries' = 0 /\ seen' = {} /\ UNCHANGED report

\* On to the next attempt, or out of them.
TryAgain ==
  IF tries > 1
  THEN /\ audio' = IF CouchSink = "none" THEN "hdmi" ELSE "named"
       /\ tries' = tries - 1 /\ seen' = {}
       /\ UNCHANGED <<target, report>>
  ELSE Degraded

-----------------------------------------------------------------------------
\* activate_couch, which waits for a sink, and activate_desk, which does not.
BeginCouch ==
  /\ audio' = IF CouchSink = "none" THEN "hdmi" ELSE "named"
  /\ tries' = Waits /\ seen' = {} /\ target' = "none"
  /\ toMove' = {} /\ report' = "none" /\ disturbed' = FALSE
  /\ UNCHANGED server

BeginDesk ==
  /\ audio' = "desk"
  /\ tries' = 0 /\ seen' = {} /\ target' = "none"
  /\ toMove' = {} /\ report' = "none" /\ disturbed' = FALSE
  /\ UNCHANGED server

FindDesk ==
  /\ audio = "desk"
  /\ \E found \in {live, {}} :
       /\ Lists(found)
       /\ IF DeskSink \in found THEN Settle(DeskSink) ELSE Degraded
  /\ UNCHANGED <<server, toMove>>

\* Mutant of FindNamed: the configured name is trusted.
FindNamedBlindly ==
  /\ audio = "named"
  /\ Settle(CouchSink)
  /\ UNCHANGED <<server, toMove, disturbed>>

\* resolve_couch_sink: the configured name, if it is still there.
FindNamed ==
  /\ audio = "named"
  /\ \E found \in {live, {}} :
       /\ Lists(found)
       /\ IF CouchSink \in found THEN Settle(CouchSink)
          ELSE /\ audio' = "hdmi" /\ seen' = found
               /\ UNCHANGED <<tries, target, report>>
  /\ UNCHANGED <<server, toMove>>

\* The first HDMI sink of the listing, whichever that is.
FindHdmi ==
  /\ audio = "hdmi"
  /\ \E found \in {live, {}} :
       /\ Lists(found)
       /\ \/ \E s \in found \cap Hdmi : Settle(s)
          \/ /\ found \cap Hdmi = {} /\ audio' = "described"
             /\ UNCHANGED <<search, report>>
  /\ UNCHANGED <<server, toMove>>

\* By description, in the listing of FindNamed if there was one.
FindDescribed ==
  /\ audio = "described"
  /\ \E found \in IF CouchSink = "none" THEN {live, {}} ELSE {seen} :
       /\ IF CouchSink = "none" THEN Lists(found) ELSE UNCHANGED disturbed
       /\ \/ \E s \in found \cap Described : Settle(s)
          \/ found \cap Described = {} /\ TryAgain
  /\ UNCHANGED <<server, toMove>>

-----------------------------------------------------------------------------
(* set_audio_to_sink.                                                      *)

\* A call that names a sink fails when the sink is gone, and may fail anyway.
SetDefault ==
  /\ audio = "default"
  /\ audio' = "list"
  /\ \/ /\ target \in live /\ default' = target
        /\ UNCHANGED <<report, disturbed>>
     \/ /\ report' = "degraded"
        /\ disturbed' = (disturbed \/ target \in live)
        /\ UNCHANGED default
  /\ UNCHANGED <<live, on, search, toMove>>

\* Moving the streams has no say in it.
Report == IF report = "degraded" THEN "degraded" ELSE "ok"

ListStreams ==
  /\ audio = "list"
  /\ \/ /\ toMove' = {s \in Streams : on[s] # "none"}
        /\ audio' = "move"
        /\ UNCHANGED <<report, disturbed>>
     \/ /\ audio' = "idle" /\ report' = Report /\ disturbed' = TRUE
        /\ UNCHANGED toMove
  /\ UNCHANGED <<server, search>>

\* A stream that has stopped, or a sink that is gone, is passed over.
MoveStream(s) ==
  /\ audio = "move" /\ s \in toMove
  /\ toMove' = toMove \ {s}
  /\ \/ on' = [on EXCEPT ![s] = IF @ # "none" /\ target \in live THEN target ELSE @]
        /\ UNCHANGED disturbed
     \/ UNCHANGED on /\ disturbed' = TRUE
  /\ UNCHANGED <<live, default, audio, search, report>>

AllMoved ==
  /\ audio = "move" /\ toMove = {}
  /\ audio' = "idle" /\ report' = Report
  /\ UNCHANGED <<server, search, toMove, disturbed>>

AudioStep ==
  \/ FindDesk \/ FindNamed \/ FindHdmi \/ FindDescribed
  \/ SetDefault \/ ListStreams \/ AllMoved \/ \E s \in Streams : MoveStream(s)

-----------------------------------------------------------------------------
(* The sound server.                                                       *)

StreamStarts(s) ==
  /\ on[s] = "none"
  /\ on' = [on EXCEPT ![s] = default]
  /\ UNCHANGED <<live, default, audio, search, toMove, report, disturbed>>

StreamStops(s) ==
  /\ on[s] # "none"
  /\ on' = [on EXCEPT ![s] = "none"]
  /\ UNCHANGED <<live, default, audio, search, toMove, report, disturbed>>

\* A sink that appears may become the default.  An activation with an attempt
\* left will see it.
SinkAppears(s) ==
  /\ s \notin live /\ s \in TvNames => TvNames \cap live = {}
  /\ live' = live \cup {s}
  /\ default' \in {default, s}
  /\ disturbed' = (disturbed \/ tries < 2)
  /\ UNCHANGED <<on, audio, search, toMove, report>>

\* What played on a sink that is gone goes on on the default.
SinkVanishes(s) ==
  /\ s \in live /\ live # {s}
  /\ live' = live \ {s}
  /\ default' \in IF default = s THEN live' ELSE {default}
  /\ on' = [x \in Streams |-> IF on[x] = s THEN default' ELSE on[x]]
  /\ disturbed' = TRUE
  /\ UNCHANGED <<audio, search, toMove, report>>

ATypeOK ==
  /\ live \subseteq Sinks /\ default \in live
  /\ on \in [Streams -> Sinks \cup {"none"}]
  /\ audio \in {"idle", "desk", "named", "hdmi", "described", "default", "list", "move"}
  /\ tries \in 0 .. Waits /\ seen \subseteq Sinks
  /\ target \in Sinks \cup {"none"} /\ toMove \subseteq Streams
  /\ report \in {"none", "ok", "degraded"} /\ disturbed \in BOOLEAN
=============================================================================
