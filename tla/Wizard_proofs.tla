---------------------------- MODULE Wizard_proofs ----------------------------
(***************************************************************************)
(* Proofs about what the wizard's requests do: the screen-unlock API, for  *)
(* any number of streams that take turns and a configuration that is left  *)
(* alone meanwhile, and the editors of the configuration, for any number   *)
(* of requests beside the tray and its daemon.                             *)
(***************************************************************************)
EXTENDS RemoteStream, Tray, TLAPS

USE RemoteStreamAssumption

\* Nothing is inhibited, or what is has its cookie in app.state.
Free(sv) == active[sv] = {}
Accounted(sv) == active[sv] \subseteq {cookie[sv]}

\* As the desk is left when nobody streams.
Untouched ==
  /\ ~held /\ ~savedOff /\ autolock /\ \A sv \in Services : Free(sv)
  /\ display = "off" <=> dark

\* As it is while somebody does.  What was switched off is not touched.
Unlocked ==
  /\ held /\ savedOff = dark /\ \A sv \in Services : Accounted(sv)
  /\ ~enabled => autolock /\ \A sv \in Services : Free(sv)

\* What a request finds, by the call it has reached.
Reached(s) ==
  /\ at[s] = "dpms" => Untouched
  /\ at[s] = "unlock" => Untouched /\ wanted[s] = enabled /\ wasOff[s] = dark
  /\ at[s] = "suppress" =>
       /\ ~held /\ wanted[s] = enabled /\ wasOff[s] = dark
       /\ Accounted("screen") /\ Free("notify")
       /\ ~enabled => autolock /\ Free("screen")
  /\ at[s] = "blank" => Unlocked /\ wasOff[s] = dark
  /\ at[s] = "release" =>
       Unlocked /\ wanted[s] = enabled /\ mine[s] = cookie["screen"]
  /\ at[s] = "unsuppress" =>
       /\ Unlocked /\ wanted[s] = enabled /\ mine[s] = cookie["notify"]
       /\ autolock /\ Free("screen")
  /\ at[s] = "blankAgain" =>
       /\ held /\ wasOff[s] = dark
       /\ autolock /\ \A sv \in Services : Free(sv)

\* The part of the types that the steps depend on.
Shape ==
  /\ at \in [Streams -> Requests \cup {"away", "streaming"}]
  /\ {held, savedOff, enabled, autolock, dark} \subseteq BOOLEAN
  /\ cookie \in [Services -> Nat] /\ mine \in [Streams -> Nat]
  /\ wasOff \in [Streams -> BOOLEAN] /\ wanted \in [Streams -> BOOLEAN]
  /\ issued \in [Services -> Nat] /\ active \in [Services -> SUBSET Nat]
  /\ display \in {"on", "off"}

StreamInv ==
  /\ Shape
  /\ display = "off" => dark
  /\ \A s, t \in Streams : at[s] \in Requests /\ at[t] \in Requests => s = t
  /\ \A s \in Streams : Reached(s)
  /\ Idle => (Untouched \/ Unlocked) /\ (display = "off" <=> dark)

-----------------------------------------------------------------------------
(* The services.                                                           *)

LEMMA AcquireKeepsShape ==
  ASSUME Shape, NEW sv \in Services, Acquire(sv) \/ Refuse(sv)
  PROVE  /\ cookie' \in [Services -> Nat] /\ issued' \in [Services -> Nat]
         /\ active' \in [Services -> SUBSET Nat]
         /\ Free(sv) => Accounted(sv)'
         /\ \A x \in Services \ {sv} : active'[x] = active[x] /\ cookie'[x] = cookie[x]
<1> USE DEF Shape, Free, Accounted, NoCookie
<1>1. CASE /\ issued' = [issued EXCEPT ![sv] = @ + 1]
           /\ active' = [active EXCEPT ![sv] = @ \cup {issued[sv] + 1}]
           /\ cookie' = [cookie EXCEPT ![sv] = issued[sv] + 1]
  <2>1. issued[sv] + 1 \in Nat
    OBVIOUS
  <2> QED
    BY <1>1, <2>1
<1>2. CASE cookie' = [cookie EXCEPT ![sv] = NoCookie] /\ UNCHANGED <<active, issued>>
  BY <1>2
<1> QED
  BY <1>1, <1>2 DEF Acquire, Refuse

LEMMA RefuseChangesNothing ==
  ASSUME Shape, NEW sv \in Services, Refuse(sv), Free(sv)
  PROVE  active' = active /\ Free(sv)'
BY DEF Refuse, Free

LEMMA ReleaseFrees ==
  ASSUME Shape, NEW sv \in Services, NEW c, c = cookie[sv], ReleaseCookie(sv, c), Accounted(sv)
  PROVE  /\ active' \in [Services -> SUBSET Nat] /\ Free(sv)'
         /\ \A x \in Services \ {sv} : active'[x] = active[x]
BY DEF Shape, ReleaseCookie, Free, Accounted

-----------------------------------------------------------------------------
(* Requests take turns: only the one that moves needs a look.              *)

LEMMA Turn ==
  ASSUME StreamInv, NEW s \in Streams, NEW from, NEW to, Move(s, from, to),
         at[s] \in Requests \/ Idle,
         Shape', display' = "off" => dark',
         Reached(s)',
         at'[s] \notin Requests => (Untouched \/ Unlocked)' /\ (display' = "off" <=> dark')
  PROVE  StreamInv'
<1>1. \A t \in Streams : t # s => at[t] \notin Requests /\ at'[t] = at[t]
  BY DEF StreamInv, Shape, Idle, Move
<1>2. \A t \in Streams : at'[t] \notin Requests => Reached(t)'
  BY DEF Reached, Requests, Unlocking, Locking
<1>3. \A t \in Streams : Reached(t)'
  BY <1>1, <1>2
<1>4. \A t, u \in Streams : at'[t] \in Requests /\ at'[u] \in Requests => t = u
  BY <1>1
<1>5. Idle' => at'[s] \notin Requests
  BY DEF Idle
<1> QED
  BY <1>3, <1>4, <1>5 DEF StreamInv

LEMMA UnlockKeepsStreamInv ==
  ASSUME Serialized, StreamInv, NEW s \in Streams,
         \/ BeginUnlock(s) \/ ReadDpms(s) \/ UnlockScreen(s)
         \/ SuppressPopups(s) \/ BlankDisplay(s)
  PROVE  StreamInv'
<1> USE DEF Move, Requests, Unlocking, Locking, Services
<1>t. Shape /\ Reached(s)
  BY DEF StreamInv
<1>1. CASE BeginUnlock(s)
  <2>1. Idle /\ UNCHANGED <<appState, locals, enabled, services, display, dark>>
    BY <1>1 DEF BeginUnlock
  <2>2. (Untouched \/ Unlocked) /\ (display = "off" <=> dark)
    BY <2>1 DEF StreamInv
  <2>3. Shape'
    BY <1>1, <1>t DEF BeginUnlock, Shape, appState, locals, services
  <2>4. (Untouched' <=> Untouched) /\ (Unlocked' <=> Unlocked)
    BY <2>1 DEF Untouched, Unlocked, Free, Accounted, appState, services
  <2>5. at'[s] = IF held THEN "streaming" ELSE "dpms"
    BY <1>1, <1>t DEF BeginUnlock, Shape
  <2>6. Reached(s)'
    BY <2>2, <2>4, <2>5 DEF Reached, Unlocked
  <2> QED
    <3>1. \E to : Move(s, "away", to)
      BY <1>1 DEF BeginUnlock
    <3>2. display' = "off" <=> dark'
      BY <2>1, <2>2
    <3> HIDE DEF Move, Requests
    <3> QED
      BY <2>1, <2>2, <2>3, <2>4, <2>6, <3>1, <3>2, Turn
<1>2. CASE ReadDpms(s)
  <2>1. /\ at[s] = "dpms" /\ at'[s] = "unlock"
        /\ wasOff'[s] = (display = "off") /\ wanted'[s] = enabled
        /\ UNCHANGED <<appState, mine, enabled, services, display, dark>>
    BY <1>2, <1>t DEF ReadDpms, Shape
  <2>2. Shape'
    BY <1>2, <1>t DEF ReadDpms, Shape, appState, services
  <2>3. Untouched /\ Untouched'
    BY <1>t, <2>1 DEF Reached, Untouched, Free, appState, services
  <2>4. Reached(s)'
    BY <1>t, <2>1, <2>3 DEF Reached, Untouched, Shape
  <2> QED
    <3>1. Move(s, "dpms", "unlock") /\ at[s] \in Requests /\ at'[s] \in Requests
      BY <1>2, <2>1 DEF ReadDpms
    <3>2. display' = "off" => dark'
      BY <2>1 DEF StreamInv
    <3> HIDE DEF Move, Requests
    <3> QED
      BY <2>2, <2>4, <3>1, <3>2, Turn
<1>3. CASE UnlockScreen(s)
  <2>1. /\ at[s] = "unlock" /\ at'[s] = "suppress"
        /\ UNCHANGED <<held, savedOff, locals, enabled, dark>>
        /\ Untouched /\ wanted[s] = enabled /\ wasOff[s] = dark
        /\ at' = [at EXCEPT ![s] = "suppress"]
    BY <1>3, <1>t DEF UnlockScreen, Shape, Reached
  <2>2. /\ Acquire("screen") \/ Refuse("screen")
        /\ ~enabled => Refuse("screen") /\ UNCHANGED <<autolock, display>>
        /\ enabled => autolock' = FALSE /\ display' = "on"
    BY <1>3, <2>1 DEF UnlockScreen
  <2>3. /\ cookie' \in [Services -> Nat] /\ issued' \in [Services -> Nat]
        /\ active' \in [Services -> SUBSET Nat]
        /\ Accounted("screen")' /\ Free("notify")'
    BY <1>t, <2>1, <2>2, AcquireKeepsShape DEF Untouched, Free
  <2>4. ~enabled => Free("screen")' /\ autolock'
    BY <1>t, <2>1, <2>2, RefuseChangesNothing DEF Untouched
  <2>5. Shape'
    BY <1>t, <2>1, <2>2, <2>3 DEF Shape, locals
  <2>6. display' = "off" => dark'
    BY <1>t, <2>1, <2>2 DEF Untouched, Shape
  <2>7. Reached(s)'
    BY <2>1, <2>3, <2>4 DEF Reached, Untouched, locals
  <2> QED
    BY <1>3, <2>1, <2>5, <2>6, <2>7, Turn DEF UnlockScreen
<1>4. CASE SuppressPopups(s)
  <2>1. /\ at[s] = "suppress" /\ at'[s] = "blank"
        /\ held' = TRUE /\ savedOff' = wasOff[s]
        /\ UNCHANGED <<locals, enabled, autolock, display, dark>>
        /\ wanted[s] = enabled /\ wasOff[s] = dark
        /\ Accounted("screen") /\ Free("notify")
        /\ ~enabled => autolock /\ Free("screen")
        /\ at' = [at EXCEPT ![s] = "blank"]
    BY <1>4, <1>t DEF SuppressPopups, Shape, Reached
  <2>2. /\ Acquire("notify") \/ Refuse("notify")
        /\ ~enabled => Refuse("notify")
    BY <1>4, <2>1 DEF SuppressPopups
  <2>3. /\ cookie' \in [Services -> Nat] /\ issued' \in [Services -> Nat]
        /\ active' \in [Services -> SUBSET Nat]
        /\ Accounted("notify")' /\ Accounted("screen")'
        /\ active'["screen"] = active["screen"]
    BY <1>t, <2>1, <2>2, AcquireKeepsShape DEF Accounted
  <2>4. ~enabled => Free("notify")' /\ Free("screen")'
    BY <1>t, <2>1, <2>2, <2>3, RefuseChangesNothing DEF Free
  <2>5. Shape'
    BY <1>t, <2>1, <2>3 DEF Shape, locals
  <2>6. Unlocked' /\ wasOff'[s] = dark'
    BY <2>1, <2>3, <2>4 DEF Unlocked, locals
  <2>7. Reached(s)'
    BY <2>1, <2>6 DEF Reached
  <2> QED
    BY <1>4, <2>1, <2>5, <2>7, Turn DEF SuppressPopups, StreamInv
<1>5. CASE BlankDisplay(s)
  <2>1. /\ at[s] = "blank" /\ at'[s] = "streaming"
        /\ Unlocked /\ wasOff[s] = dark
        /\ display' = IF dark THEN "off" ELSE display
        /\ UNCHANGED <<appState, locals, enabled, services, dark>>
        /\ at' = [at EXCEPT ![s] = "streaming"]
    BY <1>5, <1>t DEF BlankDisplay, RestoreOff, Shape, Reached
  <2>2. display' = "off" <=> dark'
    BY <1>t, <2>1 DEF StreamInv, Shape
  <2>3. Unlocked'
    BY <2>1 DEF Unlocked, Free, Accounted, appState, services
  <2>4. Shape'
    BY <1>t, <2>1 DEF Shape, appState, locals, services
  <2> QED
    BY <1>5, <2>1, <2>2, <2>3, <2>4, Turn DEF BlankDisplay, Reached
<1> QED
  BY <1>1, <1>2, <1>3, <1>4, <1>5

LEMMA LockKeepsStreamInv ==
  ASSUME Serialized, StreamInv, NEW s \in Streams,
         BeginLock(s) \/ ReleaseScreen(s) \/ Unsuppress(s) \/ BlankAgain(s)
  PROVE  StreamInv'
<1> USE DEF Move, Requests, Unlocking, Locking, Services
<1>t. Shape /\ Reached(s)
  BY DEF StreamInv
<1>1. CASE BeginLock(s)
  <2>1. /\ Idle /\ (Untouched \/ Unlocked) /\ (display = "off" <=> dark)
        /\ UNCHANGED <<appState, wasOff, enabled, services, display, dark>>
        /\ at'[s] = IF held THEN "release" ELSE "away"
        /\ wanted'[s] = enabled /\ mine'[s] = cookie["screen"]
    BY <1>1, <1>t DEF BeginLock, StreamInv, Shape
  <2>2. Shape'
    BY <1>1, <1>t DEF BeginLock, Shape, appState, services
  <2>3. (Untouched' <=> Untouched) /\ (Unlocked' <=> Unlocked)
    BY <2>1 DEF Untouched, Unlocked, Free, Accounted, appState, services
  <2>4. Reached(s)'
    BY <2>1, <2>3 DEF Reached, Untouched, appState
  <2> QED
    <3>1. \E to : Move(s, "streaming", to)
      BY <1>1 DEF BeginLock
    <3>2. display' = "off" <=> dark'
      BY <2>1
    <3> HIDE DEF Move, Requests
    <3> QED
      BY <2>1, <2>2, <2>3, <2>4, <3>1, <3>2, Turn
<1>2. CASE ReleaseScreen(s)
  <2>1. /\ at[s] = "release" /\ at' = [at EXCEPT ![s] = "unsuppress"] /\ at'[s] = "unsuppress"
        /\ Unlocked /\ wanted[s] = enabled /\ mine[s] = cookie["screen"]
        /\ mine' = [mine EXCEPT ![s] = cookie["notify"]] /\ mine'[s] = cookie["notify"]
        /\ UNCHANGED <<appState, wasOff, wanted, enabled, issued, dark>>
    BY <1>2, <1>t DEF ReleaseScreen, Shape, Reached
  <2>2. IF enabled THEN ReleaseCookie("screen", mine[s]) /\ autolock' = TRUE /\ display' = "on"
        ELSE UNCHANGED <<active, autolock, display>>
    BY <1>2, <2>1 DEF ReleaseScreen
  <2>3. /\ active' \in [Services -> SUBSET Nat] /\ Free("screen")' /\ autolock'
        /\ active'["notify"] = active["notify"]
    <3>1. CASE enabled
      BY <1>t, <2>1, <2>2, <3>1, ReleaseFrees DEF Unlocked
    <3>2. CASE ~enabled
      BY <1>t, <2>1, <2>2, <3>2 DEF Unlocked, Free, Shape
    <3> QED
      BY <3>1, <3>2
  <2>4. Shape'
    BY <1>t, <2>1, <2>2, <2>3 DEF Shape, appState
  <2>5. Unlocked'
    BY <2>1, <2>3 DEF Unlocked, Free, Accounted, appState
  <2>6. Reached(s)'
    BY <2>1, <2>3, <2>5 DEF Reached, appState
  <2>7. display' = "off" => dark'
    BY <2>1, <2>2 DEF StreamInv
  <2> QED
    BY <1>2, <2>1, <2>4, <2>6, <2>7, Turn DEF ReleaseScreen
<1>3. CASE Unsuppress(s)
  <2>1. /\ at[s] = "unsuppress" /\ at' = [at EXCEPT ![s] = "blankAgain"] /\ at'[s] = "blankAgain"
        /\ Unlocked /\ wanted[s] = enabled /\ mine[s] = cookie["notify"]
        /\ autolock /\ Free("screen")
        /\ cookie' = [cookie EXCEPT !["notify"] = NoCookie]
        /\ wasOff' = [wasOff EXCEPT ![s] = savedOff] /\ wasOff'[s] = savedOff
        /\ UNCHANGED <<held, savedOff, mine, wanted, enabled, issued, autolock, display, dark>>
    BY <1>3, <1>t DEF Unsuppress, Shape, Reached
  <2>2. IF enabled THEN ReleaseCookie("notify", mine[s]) ELSE UNCHANGED active
    BY <1>3, <2>1 DEF Unsuppress
  <2>3. /\ active' \in [Services -> SUBSET Nat] /\ Free("notify")' /\ Free("screen")'
    <3>1. CASE enabled
      BY <1>t, <2>1, <2>2, <3>1, ReleaseFrees DEF Unlocked, Free
    <3>2. CASE ~enabled
      BY <1>t, <2>1, <2>2, <3>2 DEF Unlocked, Free, Shape
    <3> QED
      BY <3>1, <3>2
  <2>4. Shape'
    BY <1>t, <2>1, <2>3 DEF Shape, NoCookie
  <2>5. Reached(s)'
    BY <2>1, <2>3 DEF Reached, Unlocked
  <2> QED
    <3>1. Move(s, "unsuppress", "blankAgain") /\ at[s] \in Requests /\ at'[s] \in Requests
      BY <1>3, <2>1 DEF Unsuppress
    <3>2. display' = "off" => dark'
      BY <2>1 DEF StreamInv
    <3> HIDE DEF Move, Requests
    <3> QED
      BY <2>4, <2>5, <3>1, <3>2, Turn
<1>4. CASE BlankAgain(s)
  <2>1. /\ at[s] = "blankAgain" /\ at' = [at EXCEPT ![s] = "away"] /\ at'[s] = "away"
        /\ wasOff[s] = dark /\ autolock /\ \A sv \in Services : Free(sv)
        /\ display' = IF dark THEN "off" ELSE display
        /\ cookie' = [cookie EXCEPT !["screen"] = NoCookie]
        /\ held' = FALSE /\ savedOff' = FALSE
        /\ UNCHANGED <<locals, enabled, services, dark>>
    BY <1>4, <1>t DEF BlankAgain, RestoreOff, Shape, Reached
  <2>2. display' = "off" <=> dark'
    BY <1>t, <2>1 DEF StreamInv, Shape
  <2>3. Untouched'
    BY <2>1, <2>2 DEF Untouched, Free, services
  <2>4. Shape'
    BY <1>t, <2>1 DEF Shape, NoCookie, locals, services
  <2> QED
    BY <1>4, <2>1, <2>2, <2>3, <2>4, Turn DEF BlankAgain, Reached
<1> QED
  BY <1>1, <1>2, <1>3, <1>4

\* The desk is only touched, and reconfigured, while nobody streams.
LEMMA DeskKeepsStreamInv ==
  ASSUME ~Reconfigured, StreamInv, TouchDisplay \/ Reconfigure \/ UNCHANGED rvars
  PROVE  StreamInv'
<1>1. CASE UNCHANGED rvars
  BY <1>1 DEF StreamInv, Shape, Reached, Untouched, Unlocked, Free, Accounted, Idle,
     rvars, appState, locals, services
<1>2. CASE TouchDisplay \/ Reconfigure
  <2>1. /\ Idle /\ ~held /\ Untouched /\ UNCHANGED <<at, appState, locals, services>>
    BY <1>2 DEF TouchDisplay, Reconfigure, StreamInv, Unlocked
  <2>2. Idle' /\ \A s \in Streams : at'[s] \notin Requests
    BY <2>1 DEF Idle
  <2>3. \A s \in Streams : Reached(s)'
    BY <2>2 DEF Reached, Requests, Unlocking, Locking
  <2>4. Shape' /\ (display' = "off" <=> dark')
    <3>1. Shape /\ (display = "off" <=> dark)
      BY <2>1 DEF StreamInv, Untouched
    <3>2. CASE TouchDisplay
      <4>1. display' \in {"on", "off"} /\ dark' = (display' = "off") /\ enabled' = enabled
        BY <3>2 DEF TouchDisplay
      <4> QED
        BY <2>1, <3>1, <4>1 DEF Shape, appState, locals, services
    <3>3. CASE Reconfigure
      <4>1. display' = display /\ dark' = dark /\ enabled' \in BOOLEAN
        BY <3>1, <3>3 DEF Reconfigure, Shape
      <4> QED
        BY <2>1, <3>1, <4>1 DEF Shape, appState, locals, services
    <3> QED
      BY <1>2, <3>2, <3>3
  <2>5. Untouched'
    BY <2>1, <2>4 DEF Untouched, Free, appState, services
  <2> QED
    BY <2>2, <2>3, <2>4, <2>5 DEF StreamInv
<1> QED
  BY <1>1, <1>2

LEMMA AlwaysStreamInv ==
  ASSUME Serialized, ~Reconfigured
  PROVE  RSpec => []StreamInv
<1>1. RInit => StreamInv
  <2> SUFFICES ASSUME RInit PROVE StreamInv
    OBVIOUS
  <2>1. Shape
    BY DEF RInit, Shape, NoCookie, Services
  <2>2. Untouched
    BY DEF RInit, Untouched, Free, Services
  <2>3. \A s \in Streams : at[s] = "away"
    BY DEF RInit
  <2> QED
    BY <2>1, <2>2, <2>3 DEF StreamInv, Untouched, Reached, Requests, Unlocking, Locking
<1>2. StreamInv /\ [RNext]_rvars => StreamInv'
  BY UnlockKeepsStreamInv, LockKeepsStreamInv, DeskKeepsStreamInv DEF RNext
<1> QED
  BY <1>1, <1>2, PTL DEF RSpec

\* When no request is under way the desktop is as it should be, for any number of
\* streams, however often the services refuse: provided that requests do not
\* overlap and that the configuration a stream started with is the one it ends
\* with (api_screen_unlock, api_screen_lock).  Either alone belies it.
THEOREM DesktopGivenBack ==
  ASSUME Serialized, ~Reconfigured
  PROVE  RSpec => []GivenBack
<1>1. StreamInv => GivenBack
  BY DEF StreamInv, GivenBack, Untouched, Unlocked, Free, Accounted
<1> QED
  BY <1>1, AlwaysStreamInv, PTL

\* Under the same conditions each request leaves a display that was dark dark, and
\* no other (restore_dpms_off).
THEOREM DarkStaysDark ==
  ASSUME Serialized, ~Reconfigured
  PROVE  RSpec => []DarkDisplayStaysDark
<1>1. StreamInv => DarkDisplayStaysDark
  BY DEF StreamInv, DarkDisplayStaysDark
<1> QED
  BY <1>1, AlwaysStreamInv, PTL

-----------------------------------------------------------------------------
(* The editors of config.toml.                                             *)

Busy == {"posting", "toggling"}

\* Without the tray: a handler between its load and its save is alone, and what
\* it has loaded is what the file still holds.
EditInv ==
  /\ FTypeOK
  /\ tray = "idle"
  /\ \A r \in Posts : doing[r] \in Busy => copy[r] = file
  /\ \A r, s \in Posts : doing[r] \in Busy /\ doing[s] \in Busy => r = s

\* What a step may do to the file.
Careful == edits' # edits => file'.auto = file.auto

LEMMA HandlerIsCareful ==
  ASSUME EditInv, NEW r \in Posts, Handler(r)
  PROVE  EditInv' /\ Careful
<1> USE ConfigFileAssumption DEF EditInv, FTypeOK, Contents, Nothing, trayvars, Careful
<1>1. CASE ReceivePage(r) \/ LoadPage(r) \/ LoadToggle(r) \/ ReceiveApi(r)
  BY <1>1 DEF ReceivePage, LoadPage, LoadToggle, ReceiveApi, LoopFree, Goes, Load, Busy
<1>2. CASE SavePage(r)
  BY <1>2 DEF SavePage, Goes, Save, Forget, Busy
<1>3. CASE SaveToggle(r) \/ SaveApi(r)
  <2>1. PICK b \in BOOLEAN : file' \in {file, [copy[r] EXCEPT !.auto = b]}
    BY <1>3 DEF SaveToggle, SaveApi, Save
  <2>2. /\ doing[r] \in {"toggling", "body"}
        /\ doing' = [doing EXCEPT ![r] = "idle"]
        /\ copy' = [copy EXCEPT ![r] = [auto |-> FALSE, settings |-> 0]]
        /\ UNCHANGED <<edits, tray, trayCopy, shown>>
        /\ \A s \in Posts : s # r => doing[s] \notin Busy
    BY <1>3 DEF SaveToggle, SaveApi, Goes, Forget, LoopFree, Busy
  <2>3. file' \in [auto : BOOLEAN, settings : 0 .. MaxEdits]
    BY <2>1
  <2>4. FTypeOK' /\ Careful
    BY <2>2, <2>3
  <2>5. \A s \in Posts : doing'[s] = (IF s = r THEN "idle" ELSE doing[s])
    BY <2>2
  <2>6. \A s \in Posts : doing'[s] \notin Busy
    BY <2>2, <2>5 DEF Busy
  <2> QED
    BY <2>2, <2>4, <2>6
<1> QED
  BY <1>1, <1>2, <1>3 DEF Handler

LEMMA EditorsAreCareful ==
  ASSUME TrayUsed = FALSE, EditInv, [FNext]_fvars
  PROVE  EditInv' /\ Careful
<1>1. ASSUME NEW r \in Posts, Handler(r) PROVE EditInv' /\ Careful
  BY <1>1, HandlerIsCareful
<1>2. CASE TrayLoad \/ TraySave
  BY <1>2 DEF TrayLoad, TraySave, EditInv
<1>3. CASE Refresh \/ UNCHANGED fvars
  BY <1>3 DEF Refresh, fvars, requests, trayvars, EditInv, FTypeOK, Contents, Careful
<1>4. CASE DaemonDies
  BY <1>4, ConfigFileAssumption
     DEF DaemonDies, trayvars, EditInv, FTypeOK, Contents, Nothing, Busy, Careful
<1> QED
  BY <1>1, <1>2, <1>3, <1>4 DEF FNext

LEMMA AlwaysEditInv ==
  ASSUME TrayUsed = FALSE
  PROVE  FSpec => []EditInv
<1>1. FInit => EditInv
  BY ConfigFileAssumption DEF FInit, EditInv, FTypeOK, Contents, Nothing, Busy
<1> QED
  BY <1>1, EditorsAreCareful, PTL DEF FSpec

LEMMA FNextKeepsTypes == FTypeOK /\ [FNext]_fvars => FTypeOK'
<1> SUFFICES ASSUME FTypeOK, [FNext]_fvars PROVE FTypeOK'
  OBVIOUS
<1> USE ConfigFileAssumption DEF FTypeOK, Contents, Nothing, requests, trayvars
<1>1. ASSUME NEW r \in Posts, ReceivePage(r) \/ LoadPage(r) \/ LoadToggle(r) \/ ReceiveApi(r)
      PROVE  FTypeOK'
  BY <1>1 DEF ReceivePage, LoadPage, LoadToggle, ReceiveApi, Goes, Load
<1>2. ASSUME NEW r \in Posts, SavePage(r) PROVE FTypeOK'
  BY <1>2 DEF SavePage, Goes, Save, Forget
<1>3. ASSUME NEW r \in Posts, SaveToggle(r) \/ SaveApi(r) PROVE FTypeOK'
  <2>1. PICK b \in BOOLEAN : file' \in {file, [copy[r] EXCEPT !.auto = b]}
    BY <1>3 DEF SaveToggle, SaveApi, Save
  <2>2. file' \in [auto : BOOLEAN, settings : 0 .. MaxEdits]
    BY <2>1
  <2>3. /\ doing' = [doing EXCEPT ![r] = "idle"] /\ copy' = [copy EXCEPT ![r] = Nothing]
        /\ UNCHANGED <<edits, tray, trayCopy, shown>>
    BY <1>3 DEF SaveToggle, SaveApi, Goes, Forget
  <2> QED
    BY <2>2, <2>3
<1>4. CASE DaemonDies
  BY <1>4 DEF DaemonDies
<1>5. CASE TrayLoad \/ TraySave \/ Refresh
  <2>1. UNCHANGED <<doing, copy, edits>>
    BY <1>5 DEF TrayLoad, TraySave, Refresh
  <2>2. tray' \in {"idle", "loaded", "saved"} /\ shown' \in BOOLEAN
    <3>1. shown' = ~shown \/ shown' = shown \/ shown' = file.auto
      BY <1>5, Zenon DEF TrayLoad, TraySave, Refresh
    <3>2. shown' \in BOOLEAN
      <4>1. file.auto \in BOOLEAN /\ shown \in BOOLEAN
        OBVIOUS
      <4> QED
        BY <3>1, <4>1, Zenon
    <3> QED
      BY <1>5, <3>2 DEF TrayLoad, TraySave, Refresh
  <2>3. ASSUME NEW b \in BOOLEAN PROVE [trayCopy EXCEPT !.auto = b] \in Contents
    OBVIOUS
  <2>4. file' \in {file, [trayCopy EXCEPT !.auto = shown]} /\ trayCopy' \in {file, Nothing, trayCopy}
    BY <1>5 DEF TrayLoad, TraySave, Refresh
  <2>5. shown \in BOOLEAN /\ Nothing \in Contents
    OBVIOUS
  <2>6. file' \in Contents /\ trayCopy' \in Contents
    BY <2>3, <2>4, <2>5
  <2> QED
    BY <2>1, <2>2, <2>6
<1>6. CASE UNCHANGED fvars
  BY <1>6 DEF fvars
<1> QED
  BY <1>1, <1>2, <1>3, <1>4, <1>5, <1>6 DEF FNext, Handler

\* No copy holds settings nobody has saved; unless tray and API both write, a toggle
\* of the wizard holds settings no older than the file's, and unless the API does,
\* the tray holds none that are newer.
PagesInv ==
  /\ FTypeOK
  /\ \A r, s \in Posts : doing[r] \in Busy /\ doing[s] \in Busy => r = s
  /\ \A r \in Posts : doing[r] = "body" => ApiUsed
  /\ tray = "loaded" => TrayUsed
  /\ file.settings <= edits /\ trayCopy.settings <= edits
  /\ \A r \in Posts : copy[r].settings <= edits
  /\ ~(ApiUsed /\ TrayUsed) =>
       \A r \in Posts : doing[r] = "toggling" => copy[r].settings >= file.settings
  /\ ~ApiUsed /\ tray = "loaded" => trayCopy.settings <= file.settings

\* A save of these brings old settings back.
Undoing ==
  file'.settings < file.settings =>
    \/ TraySave \/ \E r \in Posts : SaveApi(r)
    \/ ApiUsed /\ TrayUsed /\ \E r \in Posts : SaveToggle(r)

LEMMA FNextKeepsPages ==
  ASSUME PagesInv, [FNext]_fvars
  PROVE  PagesInv' /\ Undoing
<1>t. FTypeOK'
  BY FNextKeepsTypes DEF PagesInv
<1> USE ConfigFileAssumption DEF PagesInv, FTypeOK, Contents, Nothing, Busy, Undoing
<1>1. ASSUME NEW r \in Posts, ReceivePage(r) \/ LoadPage(r) \/ LoadToggle(r) \/ ReceiveApi(r)
      PROVE  PagesInv' /\ Undoing
  <2>1. /\ UNCHANGED <<file, edits, trayvars>>
        /\ \A s \in Posts : doing[s] \notin Busy /\ (s # r => doing'[s] = doing[s])
        /\ \A s \in Posts : copy'[s] \in {copy[s], file}
        /\ doing'[r] = "toggling" => copy'[r] = file
        /\ doing'[r] = "body" => ApiUsed
    BY <1>1 DEF ReceivePage, LoadPage, LoadToggle, ReceiveApi, LoopFree, Goes, Load
  <2>2. UNCHANGED <<file, edits, tray, trayCopy>>
    BY <2>1 DEF trayvars
  <2>3. \A s \in Posts : copy'[s].settings <= edits
    BY <2>1
  <2> QED
    BY <1>t, <2>1, <2>2, <2>3
<1>2. ASSUME NEW r \in Posts, SavePage(r) PROVE PagesInv' /\ Undoing
  <2>1. /\ doing[r] = "posting" /\ edits' = edits + 1
        /\ UNCHANGED <<tray, trayCopy>>
        /\ file'.settings \in {file.settings, edits'}
    BY <1>2 DEF SavePage, Goes, Save, trayvars
  <2>2. \A s \in Posts : /\ doing'[s] = IF s = r THEN "idle" ELSE doing[s]
                         /\ copy'[s].settings \in {0, copy[s].settings}
    BY <1>2 DEF SavePage, Goes, Forget
  <2>3. \A s \in Posts : doing'[s] \notin Busy
    BY <2>1, <2>2
  <2>4. file'.settings >= file.settings /\ file'.settings <= edits'
    BY <2>1
  <2>5. \A s \in Posts : copy'[s].settings <= edits'
    BY <2>1, <2>2
  <2> QED
    BY <1>t, <2>1, <2>2, <2>3, <2>4, <2>5
<1>3. ASSUME NEW r \in Posts, SaveToggle(r) \/ SaveApi(r) PROVE PagesInv' /\ Undoing
  <2>1. /\ doing[r] \in {"toggling", "body"}
        /\ UNCHANGED <<edits, tray, trayCopy>>
        /\ file'.settings \in {file.settings, copy[r].settings}
    BY <1>3 DEF SaveToggle, SaveApi, Goes, Save, trayvars
  <2>2. \A s \in Posts : /\ doing'[s] = IF s = r THEN "idle" ELSE doing[s]
                         /\ copy'[s].settings \in {0, copy[s].settings}
    BY <1>3 DEF SaveToggle, SaveApi, Goes, Forget
  <2>3. \A s \in Posts : doing'[s] \notin Busy
    <3>1. \A s \in Posts : s # r => doing[s] \notin Busy
      BY <1>3 DEF SaveToggle, SaveApi, Goes, LoopFree
    <3> QED
      BY <2>2, <3>1
  <2>4. file'.settings <= edits' /\ \A s \in Posts : copy'[s].settings <= edits'
    BY <2>1, <2>2
  <2>5. CASE SaveApi(r)
    <3>1. ApiUsed
      BY <2>5 DEF SaveApi, Goes
    <3> QED
      BY <1>t, <2>1, <2>2, <2>3, <2>4, <2>5, <3>1
  <2>6. CASE SaveToggle(r)
    <3>1. (ApiUsed /\ TrayUsed) \/ file'.settings >= file.settings
      BY <2>1, <2>6 DEF SaveToggle, Goes
    <3>2. ~ApiUsed /\ tray = "loaded" => trayCopy.settings <= file'.settings
      <4>1. /\ file.settings \in Nat /\ file'.settings \in Nat
            /\ trayCopy.settings \in Nat
        BY <1>t
      <4> QED
        BY <3>1, <4>1
    <3>3. Undoing
      BY <2>1, <2>6, <3>1
    <3>4. \A s \in Posts : doing'[s] = "body" => ApiUsed
      BY <2>2
    <3> QED
      BY <1>t, <2>1, <2>3, <2>4, <3>2, <3>3, <3>4
  <2> QED
    BY <1>3, <2>5, <2>6
<1>4. CASE TrayLoad \/ Refresh
  BY <1>4, <1>t DEF TrayLoad, Refresh, requests
<1>5. CASE TraySave
  <2>1. /\ tray = "loaded" /\ tray' # "loaded" /\ trayCopy'.settings = 0
        /\ UNCHANGED <<doing, copy, edits>>
        /\ file'.settings \in {file.settings, trayCopy.settings}
    BY <1>5 DEF TraySave, requests
  <2>2. ~(ApiUsed /\ TrayUsed) => file'.settings <= file.settings
    BY <2>1
  <2>3. file'.settings <= edits
    BY <2>1
  <2>4. ~(ApiUsed /\ TrayUsed) =>
          \A r \in Posts : doing'[r] = "toggling" => copy'[r].settings >= file'.settings
    BY <1>t, <2>1, <2>2
  <2> QED
    BY <1>5, <1>t, <2>1, <2>3, <2>4
<1>6. CASE DaemonDies
  BY <1>6, <1>t DEF DaemonDies, trayvars
<1>7. CASE UNCHANGED fvars
  BY <1>7 DEF fvars, requests, trayvars
<1> QED
  BY <1>1, <1>2, <1>3, <1>4, <1>5, <1>6, <1>7 DEF FNext, Handler

\* The daemon, its health file and what the icon shows beside it, every step is
\* one of an editor or leaves the file and all copies alone.
LEMMA TNextEdits == [TNext]_tvars => [FNext]_fvars
BY DEF TNext, tvars, FNext, fvars, TrayRefreshes, TrayClicked, WizardRequest,
   DaemonDown, DaemonReports, DaemonBeats, TimePasses, Disturbance

\* So what is said of the editors holds beside a tray that refreshes and a daemon
\* that reports and crashes.
THEOREM TrayImplementsConfigFile == TSpec => FSpec
<1>1. TInit => FInit
  BY DEF TInit
<1> QED
  BY <1>1, TNextEdits, PTL DEF TSpec, FSpec

\* Only a clock that was set back makes a file younger than new.
HealthInv == HealthTypeOK /\ (~skewed => age >= 0)

HealthSteps ==
  \/ DaemonStarts \/ DaemonEnds \/ Heartbeat \/ Doctor \/ Tick \/ ClockSetBack
  \/ \E s \in Statuses : Report(s)

LEMMA HealthKeepsTypes ==
  ASSUME HealthInv, HealthSteps
  PROVE  HealthInv'
<1> USE HealthAssumption DEF HealthInv, HealthTypeOK, Stale
<1>a. /\ MaxSkew \in Nat /\ MaxDoctors \in Nat /\ doctors \in 0 .. MaxDoctors
      /\ age \in Int /\ age <= 3 /\ age >= 0 - MaxSkew
      /\ 0 \in (0 - MaxSkew) .. 3
  OBVIOUS
<1>1. doctors' \in 0 .. MaxDoctors
  BY <1>a DEF HealthSteps, DaemonStarts, DaemonEnds, Heartbeat, Doctor, Tick,
     ClockSetBack, Report
<1>2. age' \in (0 - MaxSkew) .. Stale /\ (~skewed' => age' >= 0)
  <2>1. CASE age' = 0 \/ (age' = age /\ skewed' = skewed)
    BY <1>a, <2>1
  <2>2. CASE Tick
    BY <1>a, <2>2 DEF Tick
  <2>3. CASE ClockSetBack
    BY <1>a, <2>3 DEF ClockSetBack
  <2> QED
    BY <2>1, <2>2, <2>3 DEF HealthSteps, DaemonStarts, DaemonEnds, Heartbeat, Doctor,
       Report, Persist
<1>3. status' \in Statuses /\ disk' \in Statuses \cup {"none"}
  BY DEF HealthSteps, DaemonStarts, DaemonEnds, Heartbeat, Doctor, Tick, ClockSetBack,
     Report, Persist, Statuses
<1>4. alive' \in BOOLEAN /\ skewed' \in BOOLEAN
  <2>1. alive \in BOOLEAN /\ skewed \in BOOLEAN
    OBVIOUS
  <2>2. alive' \in {alive, TRUE, FALSE} /\ skewed' \in {skewed, TRUE}
    BY Zenon DEF HealthSteps, DaemonStarts, DaemonEnds, Heartbeat, Doctor, Tick,
       ClockSetBack, Report
  <2> QED
    BY <2>1, <2>2, Zenon
<1> QED
  BY <1>1, <1>2, <1>3, <1>4

LEMMA TNextHealth ==
  ASSUME [TNext]_tvars
  PROVE  HealthSteps \/ UNCHANGED healthvars
BY DEF TNext, tvars, TrayRefreshes, TrayClicked, WizardRequest, DaemonDown,
   DaemonReports, DaemonBeats, TimePasses, Disturbance, HealthSteps

\* The types of both files, their editors and the tray, in any order of crashes,
\* lost reports, --doctor and clicks; a file never looks younger than the one
\* setback of the clock makes it.
THEOREM TrayTypes == TSpec => []TTypeOK
<1> DEFINE Inv == FTypeOK /\ HealthInv /\ icon \in Icons
<1>1. TInit => Inv
  <2> SUFFICES ASSUME TInit PROVE Inv
    OBVIOUS
  <2>1. FTypeOK
    BY ConfigFileAssumption DEF TInit, FInit, FTypeOK, Contents, Nothing
  <2>2. HealthInv
    <3>1. alive \in BOOLEAN /\ skewed \in BOOLEAN
      BY Zenon DEF TInit, HealthInit
    <3>2. age \in {0, 3} /\ 0 \in 0 .. MaxDoctors /\ {0, 3} \subseteq (0 - MaxSkew) .. 3
      BY HealthAssumption DEF TInit, HealthInit, Stale
    <3>3. doctors = 0 /\ status \in Statuses /\ disk \in Statuses \cup {"none"}
      BY DEF TInit, HealthInit, Statuses
    <3> QED
      BY <3>1, <3>2, <3>3 DEF HealthInv, HealthTypeOK, Stale
  <2> QED
    BY <2>1, <2>2 DEF TInit, Icons
<1>2. Inv /\ [TNext]_tvars => Inv'
  <2> SUFFICES ASSUME Inv, [TNext]_tvars PROVE Inv'
    OBVIOUS
  <2>1. FTypeOK'
    BY FNextKeepsTypes, TNextEdits
  <2>2. HealthInv'
    BY TNextHealth, HealthKeepsTypes DEF HealthInv, HealthTypeOK, healthvars
  <2>3. icon' \in Icons
    <3>1. CASE UNCHANGED icon
      BY <3>1
    <3>2. CASE TrayRefreshes
      <4>1. disk \in Statuses \cup {"none"}
        BY DEF HealthInv, HealthTypeOK
      <4>2. DaemonAlive => disk \in Statuses
        BY <4>1 DEF DaemonAlive
      <4> QED
        BY <3>2, <4>2 DEF TrayRefreshes, TrayState, Icons, Statuses
    <3> QED
      BY <3>1, <3>2 DEF TNext, tvars, TrayClicked, WizardRequest, DaemonDown,
         DaemonReports, DaemonBeats, TimePasses, Disturbance
  <2> QED
    BY <2>1, <2>2, <2>3
<1>3. Inv => TTypeOK
  BY DEF HealthInv, TTypeOK
<1> QED
  BY <1>1, <1>2, <1>3, PTL DEF TSpec

\* Nobody but the tray can take back a toggle of auto-switch by saving a configure
\* page: configure_post does not suspend between load_config and save_config, so
\* what it writes back of the flag is what the file holds, for any number of
\* requests that suspend elsewhere, fail to save or die with the daemon.
THEOREM PagesKeepToggles ==
  ASSUME TrayUsed = FALSE
  PROVE  TSpec => ToggleKept
<1>1. EditInv /\ [FNext]_fvars => [edits' # edits => file'.auto = file.auto]_fvars
  BY EditorsAreCareful DEF Careful
<1> QED
  BY <1>1, AlwaysEditInv, TrayImplementsConfigFile, PTL DEF FSpec, ToggleKept

\* Whoever writes the file, no save of a configure page brings back settings that
\* a later page has replaced; the tray and the JSON API may, which save what they
\* loaded before somebody else's turn.  The wizard's own toggle does not suspend
\* between load_config and save_config, and needs both of them to do so: one that
\* undoes a page, and the other to redo it while the toggle is being handled.
THEOREM TogglesKeepPages == TSpec => [][Undoing]_fvars
<1>1. FInit => PagesInv
  BY ConfigFileAssumption DEF FInit, PagesInv, FTypeOK, Contents, Nothing, Busy
<1>2. PagesInv /\ [FNext]_fvars => PagesInv' /\ [Undoing]_fvars
  BY FNextKeepsPages
<1> QED
  BY <1>1, <1>2, TrayImplementsConfigFile, PTL DEF FSpec
=============================================================================
