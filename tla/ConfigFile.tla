----------------------------- MODULE ConfigFile -----------------------------
(***************************************************************************)
(* config.toml and those who edit it.  load reads the whole file, save     *)
(* replaces the whole file at once, and nothing locks it.  The tray is a   *)
(* process of its own; the wizard's handlers share the daemon's event loop *)
(* and interleave with each other only where they suspend.                 *)
(*                                                                         *)
(* Of the file, the auto-switch flag is kept, and how recent the settings  *)
(* of the configure page are.                                              *)
(***************************************************************************)
EXTENDS Naturals

CONSTANTS
  Posts,     \* POST requests to the wizard
  TrayUsed,  \* somebody uses the tray's auto-switch entry
  ApiUsed,   \* somebody uses POST /api/autoswitch
  MaxEdits   \* bound: saves of the configure page

ASSUME ConfigFileAssumption ==
  TrayUsed \in BOOLEAN /\ ApiUsed \in BOOLEAN /\ MaxEdits \in Nat

VARIABLES
  file,      \* config.toml
  doing,     \* where each request is
  copy,      \* the configuration each request has loaded
  edits,     \* configure pages saved so far
  tray,      \* "idle", or where toggle_auto_switch is: "loaded" or "saved"
  trayCopy,  \* the configuration the tray has loaded
  shown      \* the tray's checkbox

requests == <<doing, copy>>
trayvars == <<tray, trayCopy, shown>>
fvars == <<file, requests, edits, trayvars>>

Contents == [auto : BOOLEAN, settings : 0 .. MaxEdits]

\* No handler is in the middle of what it does without suspending.
LoopFree == \A r \in Posts : doing[r] \notin {"posting", "toggling"}

Goes(r, from, to) == doing[r] = from /\ doing' = [doing EXCEPT ![r] = to]

\* What is left of a copy when its handler has returned.
Nothing == [auto |-> FALSE, settings |-> 0]

Load(r) == copy' = [copy EXCEPT ![r] = file]
Forget(r) == copy' = [copy EXCEPT ![r] = Nothing]

\* save: the new contents, or an error that leaves the old ones.
Save(contents) == file' \in {file, contents}

-----------------------------------------------------------------------------
(* The wizard's handlers.                                                  *)

\* configure_post awaits the form.
ReceivePage(r) ==
  /\ LoopFree /\ Goes(r, "idle", "form")
  /\ UNCHANGED <<file, copy, edits, trayvars>>

LoadPage(r) ==
  /\ LoopFree /\ Goes(r, "form", "posting") /\ Load(r)
  /\ UNCHANGED <<file, edits, trayvars>>

SavePage(r) ==
  /\ edits < MaxEdits /\ Goes(r, "posting", "idle")
  /\ edits' = edits + 1
  /\ Save([copy[r] EXCEPT !.settings = edits']) /\ Forget(r)
  /\ UNCHANGED trayvars

\* autoswitch_enable and autoswitch_disable.
LoadToggle(r) ==
  /\ LoopFree /\ Goes(r, "idle", "toggling") /\ Load(r)
  /\ UNCHANGED <<file, edits, trayvars>>

SaveToggle(r) ==
  /\ Goes(r, "toggling", "idle")
  /\ \E enabled \in BOOLEAN : Save([copy[r] EXCEPT !.auto = enabled])
  /\ Forget(r)
  /\ UNCHANGED <<edits, trayvars>>

\* api_autoswitch_set loads the configuration, then awaits the body.
ReceiveApi(r) ==
  /\ ApiUsed /\ LoopFree /\ Goes(r, "idle", "body") /\ Load(r)
  /\ UNCHANGED <<file, edits, trayvars>>

\* The body arrives, or is no JSON.
SaveApi(r) ==
  /\ LoopFree /\ Goes(r, "body", "idle")
  /\ \E enabled \in BOOLEAN : Save([copy[r] EXCEPT !.auto = enabled])
  /\ Forget(r)
  /\ UNCHANGED <<edits, trayvars>>

\* The daemon dies, with the requests it was handling.
DaemonDies ==
  /\ doing' = [r \in Posts |-> "idle"]
  /\ copy' = [r \in Posts |-> Nothing]
  /\ UNCHANGED <<file, edits, trayvars>>

-----------------------------------------------------------------------------
(* The tray.                                                               *)

\* toggle_auto_switch: the click has flipped the checkbox.
TrayLoad ==
  /\ TrayUsed /\ tray = "idle"
  /\ tray' = "loaded" /\ trayCopy' = file /\ shown' = ~shown
  /\ UNCHANGED <<file, requests, edits>>

\* The refresh that follows is skipped by an error.
TraySave ==
  /\ tray = "loaded"
  /\ \/ file' = [trayCopy EXCEPT !.auto = shown] /\ tray' = "saved"
     \/ UNCHANGED file /\ tray' = "idle"
  /\ trayCopy' = Nothing
  /\ UNCHANGED <<requests, edits, shown>>

\* Every two seconds, and after a click, the checkbox follows the file.
Refresh ==
  /\ tray \in {"idle", "saved"} /\ tray' = "idle"
  /\ shown' = file.auto
  /\ UNCHANGED <<file, requests, edits, trayCopy>>

-----------------------------------------------------------------------------
FInit ==
  /\ file \in {c \in Contents : c.settings = 0}
  /\ doing = [r \in Posts |-> "idle"]
  /\ copy = [r \in Posts |-> Nothing]
  /\ edits = 0
  /\ tray = "idle" /\ trayCopy = Nothing /\ shown = file.auto

Handler(r) ==
  \/ ReceivePage(r) \/ LoadPage(r) \/ SavePage(r)
  \/ LoadToggle(r) \/ SaveToggle(r)
  \/ ReceiveApi(r) \/ SaveApi(r)

FNext ==
  \/ \E r \in Posts : Handler(r)
  \/ TrayLoad \/ TraySave \/ Refresh
  \/ DaemonDies

FSpec == FInit /\ [][FNext]_fvars

-----------------------------------------------------------------------------
FTypeOK ==
  /\ file \in Contents /\ trayCopy \in Contents
  /\ doing \in [Posts -> {"idle", "form", "posting", "toggling", "body"}]
  /\ copy \in [Posts -> Contents]
  /\ edits \in 0 .. MaxEdits
  /\ tray \in {"idle", "loaded", "saved"} /\ shown \in BOOLEAN

\* Settings saved on the configure page are never undone by somebody who only
\* meant to flip the auto-switch flag.
SettingsKept == [][file'.settings >= file.settings]_fvars

\* Saving the configure page leaves the auto-switch flag as it was last set.
ToggleKept ==
  [][edits' # edits => file'.auto = file.auto]_fvars
=============================================================================
