---------------------------- MODULE SettingsPage ----------------------------
(***************************************************************************)
(* The settings page: a message that says that the settings were saved,    *)
(* taken down by a timer.  What the fields hold is neither stored nor sent *)
(* and is left out.                                                        *)
(***************************************************************************)
EXTENDS Naturals

CONSTANT Delay  \* ticks the message is to stay

VARIABLES
  saved,
  timeouts  \* the ticks left of each timer

settingsVars == <<saved, timeouts>>

Init == saved = FALSE /\ timeouts = {}

\* A timer that outlives its page finds none.
Exit == saved' = FALSE /\ timeouts' = {}

handleSave == saved' = TRUE /\ timeouts' = timeouts \cup {Delay}

Tick ==
  /\ timeouts # {}
  /\ timeouts' = {t - 1 : t \in timeouts} \ {0}
  /\ saved' = (saved /\ 1 \notin timeouts)

PageNext == handleSave \/ Tick

-----------------------------------------------------------------------------
\* The message goes, however often the button is pressed: each press has its timer.
MessageGoes == saved ~> ~saved
=============================================================================
