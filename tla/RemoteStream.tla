---------------------------- MODULE RemoteStream ----------------------------
(***************************************************************************)
(* The screen-unlock API of wizard/server.py: Sunshine's hooks call        *)
(* /api/screen/unlock when a stream starts and /api/screen/lock when it    *)
(* ends.  The handlers share app.state and suspend in every action they    *)
(* call; `at` is the call a stream's request awaits.                       *)
(***************************************************************************)
EXTENDS Naturals

CONSTANTS
  Streams,      \* remote clients
  Serialized,   \* a request is only made when no other is being handled
  Reconfigured, \* the wizard may switch screen_lock and notifications on or
                \* off during a stream, too
  MaxCookies    \* bound: Inhibit calls per service

ASSUME RemoteStreamAssumption ==
  Serialized \in BOOLEAN /\ Reconfigured \in BOOLEAN /\ MaxCookies \in Nat

Services == {"screen", "notify"}
NoCookie == 0

VARIABLES
  at,        \* where each stream is
  held,      \* app.state.screen_unlock_held
  cookie,    \* app.state.screen_unlock_cookie and notifications_cookie
  savedOff,  \* app.state.screen_unlock_dpms_off names the desk display
  wasOff,    \* the dpms_off of each handler
  mine,      \* the cookie each lock handler is about to release
  wanted,    \* the configuration each handler loaded has them enabled
  enabled,   \* config.toml has screen_lock and notifications enabled
  active,    \* the inhibitions registered with each service
  issued,    \* Inhibit calls of each service so far
  autolock,  \* kscreenlockerrc's Autolock
  display,   \* DPMS state of the desk display
  dark       \* it was off when somebody last touched it

appState == <<held, cookie, savedOff>>
locals == <<wasOff, mine, wanted>>
services == <<active, issued, autolock>>
rvars == <<at, appState, locals, enabled, services, display, dark>>

Unlocking == {"dpms", "unlock", "suppress", "blank"}
Locking == {"release", "unsuppress", "blankAgain"}
Requests == Unlocking \cup Locking
Idle == \A s \in Streams : at[s] \notin Requests

Move(s, from, to) == at[s] = from /\ at' = [at EXCEPT ![s] = to]

-----------------------------------------------------------------------------
(* What the handlers call.                                                 *)

\* acquire_inhibit: a new cookie, or None when the service refuses.
Acquire(sv) ==
  \/ /\ issued[sv] < MaxCookies
     /\ issued' = [issued EXCEPT ![sv] = @ + 1]
     /\ active' = [active EXCEPT ![sv] = @ \cup {issued[sv] + 1}]
     /\ cookie' = [cookie EXCEPT ![sv] = issued[sv] + 1]
  \/ /\ cookie' = [cookie EXCEPT ![sv] = NoCookie]
     /\ UNCHANGED <<active, issued>>

Refuse(sv) ==
  cookie' = [cookie EXCEPT ![sv] = NoCookie] /\ UNCHANGED <<active, issued>>

ReleaseCookie(sv, c) == active' = [active EXCEPT ![sv] = @ \ {c}]

\* restore_dpms_off
RestoreOff(off) == display' = IF off THEN "off" ELSE display

-----------------------------------------------------------------------------
(* api_screen_unlock.                                                      *)

\* Mutant of BeginUnlock: screen_unlock_held is not checked.
BeginUnlockAlways(s) ==
  /\ Serialized => Idle
  /\ Move(s, "away", "dpms")
  /\ UNCHANGED <<appState, locals, enabled, services, display, dark>>

\* A second unlock is a no-op; the first asks for the DPMS states.
BeginUnlock(s) ==
  /\ Serialized => Idle
  /\ Move(s, "away", IF held THEN "streaming" ELSE "dpms")
  /\ UNCHANGED <<appState, locals, enabled, services, display, dark>>

\* The states arrive (kscreen-doctor is taken to answer), and the configuration
\* is loaded.
ReadDpms(s) ==
  /\ Move(s, "dpms", "unlock")
  /\ wasOff' = [wasOff EXCEPT ![s] = display = "off"]
  /\ wanted' = [wanted EXCEPT ![s] = enabled]
  /\ UNCHANGED <<appState, mine, enabled, services, display, dark>>

\* screen_lock.activate_couch: it simulates user activity, which wakes the
\* display.
UnlockScreen(s) ==
  /\ Move(s, "unlock", "suppress")
  /\ IF wanted[s]
     THEN Acquire("screen") /\ autolock' = FALSE /\ display' = "on"
     ELSE Refuse("screen") /\ UNCHANGED <<autolock, display>>
  /\ UNCHANGED <<held, savedOff, locals, enabled, dark>>

\* Mutant of SuppressPopups: the captured state is not kept for the lock.
SuppressPopupsOnly(s) ==
  /\ Move(s, "suppress", "blank")
  /\ IF wanted[s] THEN Acquire("notify") ELSE Refuse("notify")
  /\ held' = TRUE
  /\ UNCHANGED <<savedOff, locals, enabled, autolock, display, dark>>

\* notifications.activate_couch, and what the handler keeps in app.state.
SuppressPopups(s) ==
  /\ Move(s, "suppress", "blank")
  /\ IF wanted[s] THEN Acquire("notify") ELSE Refuse("notify")
  /\ held' = TRUE
  /\ savedOff' = wasOff[s]
  /\ UNCHANGED <<locals, enabled, autolock, display, dark>>

BlankDisplay(s) ==
  /\ Move(s, "blank", "streaming")
  /\ RestoreOff(wasOff[s])
  /\ UNCHANGED <<appState, locals, enabled, services, dark>>

-----------------------------------------------------------------------------
(* api_screen_lock.                                                        *)

BeginLock(s) ==
  /\ Serialized => Idle
  /\ Move(s, "streaming", IF held THEN "release" ELSE "away")
  /\ wanted' = [wanted EXCEPT ![s] = enabled]
  /\ mine' = [mine EXCEPT ![s] = cookie["screen"]]
  /\ UNCHANGED <<appState, wasOff, enabled, services, display, dark>>

\* screen_lock.activate_desk: it does nothing when disabled, else it simulates
\* user activity before it restores the autolock.
ReleaseScreen(s) ==
  /\ Move(s, "release", "unsuppress")
  /\ IF wanted[s]
     THEN ReleaseCookie("screen", mine[s]) /\ autolock' = TRUE /\ display' = "on"
     ELSE UNCHANGED <<active, autolock, display>>
  /\ mine' = [mine EXCEPT ![s] = cookie["notify"]]
  /\ UNCHANGED <<appState, wasOff, wanted, enabled, issued, dark>>

\* notifications.activate_desk; then the captured state is looked up.
Unsuppress(s) ==
  /\ Move(s, "unsuppress", "blankAgain")
  /\ IF wanted[s] THEN ReleaseCookie("notify", mine[s]) ELSE UNCHANGED active
  /\ cookie' = [cookie EXCEPT !["notify"] = NoCookie]
  /\ wasOff' = [wasOff EXCEPT ![s] = savedOff]
  /\ UNCHANGED <<held, savedOff, mine, wanted, enabled, issued, autolock,
                 display, dark>>

BlankAgain(s) ==
  /\ Move(s, "blankAgain", "away")
  /\ RestoreOff(wasOff[s])
  /\ cookie' = [cookie EXCEPT !["screen"] = NoCookie]
  /\ held' = FALSE /\ savedOff' = FALSE
  /\ UNCHANGED <<locals, enabled, services, dark>>

-----------------------------------------------------------------------------
\* Somebody at the desk, or its DPMS timeout while nobody streams.
TouchDisplay ==
  /\ Idle /\ ~held
  /\ display' = IF display = "on" THEN "off" ELSE "on"
  /\ dark' = (display' = "off")
  /\ UNCHANGED <<at, appState, locals, enabled, services>>

\* The configure page switches screen_lock and notifications on or off.
Reconfigure ==
  /\ Reconfigured \/ (Idle /\ ~held)
  /\ enabled' = ~enabled
  /\ UNCHANGED <<at, appState, locals, services, display, dark>>

RInit ==
  /\ at = [s \in Streams |-> "away"]
  /\ held = FALSE /\ savedOff = FALSE
  /\ cookie = [sv \in Services |-> NoCookie]
  /\ wasOff = [s \in Streams |-> FALSE]
  /\ mine = [s \in Streams |-> NoCookie]
  /\ wanted = [s \in Streams |-> TRUE]
  /\ enabled = TRUE
  /\ active = [sv \in Services |-> {}]
  /\ issued = [sv \in Services |-> 0]
  /\ autolock = TRUE /\ display = "on" /\ dark = FALSE

RNext ==
  \/ TouchDisplay \/ Reconfigure
  \/ \E s \in Streams :
       \/ BeginUnlock(s) \/ ReadDpms(s) \/ UnlockScreen(s)
       \/ SuppressPopups(s) \/ BlankDisplay(s)
       \/ BeginLock(s) \/ ReleaseScreen(s) \/ Unsuppress(s) \/ BlankAgain(s)

RSpec == RInit /\ [][RNext]_rvars

-----------------------------------------------------------------------------
RTypeOK ==
  /\ at \in [Streams -> Requests \cup {"away", "streaming"}]
  /\ {held, savedOff, enabled, autolock, dark} \subseteq BOOLEAN
  /\ cookie \in [Services -> 0 .. MaxCookies]
  /\ mine \in [Streams -> 0 .. MaxCookies]
  /\ wasOff \in [Streams -> BOOLEAN] /\ wanted \in [Streams -> BOOLEAN]
  /\ issued \in [Services -> 0 .. MaxCookies]
  /\ \A sv \in Services : active[sv] \subseteq 1 .. issued[sv]
  /\ display \in {"on", "off"}

\* Whatever the streams did, the desktop is given back when all is quiet and
\* nothing is held: no inhibition without a cookie, autolock as it was.
GivenBack ==
  Idle => /\ \A sv \in Services : active[sv] \subseteq {cookie[sv]}
          /\ ~held => autolock /\ \A sv \in Services : active[sv] = {}

\* A display that was dark is dark again after each request, and only then.
DarkDisplayStaysDark == Idle => (display = "off" <=> dark)

\* A stream that was told "ok" is kept awake until its own lock: the screen
\* does not lock under it.
StreamKeptAwake ==
  enabled => \A s \in Streams : at[s] = "streaming" => ~autolock
=============================================================================
