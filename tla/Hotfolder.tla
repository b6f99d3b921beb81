----------------------------- MODULE Hotfolder -----------------------------
(***************************************************************************)
(* watch_hotfolder of api.py over one channel, the device that puts files  *)
(* into the channel's directory, and the administrator who has made the    *)
(* channel and edits it.  The watcher works on the copy of the channel     *)
(* that it has listed, and writes that copy back whole.                    *)
(***************************************************************************)
EXTENDS Ingest

CONSTANTS
  MaxDrops,   \* how many files the device puts there
  MaxEdits    \* how often the administrator edits the channel

ASSUME HotfolderAssumption == MaxDrops \in Nat /\ MaxEdits \in Nat

VARIABLES
  hot,       \* the directory: what the file of each name says
  drops,     \* files put there so far
  channel,   \* the channel's row
  wpc,       \* where the watcher stands
  wname,     \* the file it is at
  todo,      \* the listed files it has not come to yet
  werror,    \* last_error of the copy it works on
  apc,       \* where the administrator stands
  aerror,    \* last_error of the copy the administrator edits
  edits      \* edits so far

folderVars == <<hot, drops>>
watcherVars == <<wpc, wname, todo, werror>>
adminVars == <<apc, aerror, edits>>
hotfolderVars == <<folderVars, channel, watcherVars, adminVars>>

ChannelRow == [exists: BOOLEAN, enabled: BOOLEAN, error: BOOLEAN]

HotfolderTypeOK ==
  /\ hot \in [Names -> Contents \cup {Nothing}]
  /\ drops \in Nat
  /\ channel \in ChannelRow
  /\ wpc \in {"asleep", "picking", "ingesting", "saving", "erring", "dead"}
  /\ wname \in Names \cup {Nothing}
  /\ wpc = "ingesting" => wname \in Names
  /\ todo \in SUBSET Names
  /\ werror \in BOOLEAN
  /\ apc \in {"idle", "editing"}
  /\ aerror \in BOOLEAN
  /\ edits \in Nat

HotfolderInit ==
  /\ hot = [n \in Names |-> Nothing]
  /\ drops = 0
  /\ channel = [exists |-> TRUE, enabled |-> TRUE, error |-> FALSE]
  /\ wpc = "asleep"
  /\ wname = Nothing
  /\ todo = {}
  /\ werror = FALSE
  /\ apc = "idle" /\ aerror = FALSE /\ edits = 0

(* save_channel: every column from the copy, in a row that is made again   *)
(* if it is gone.                                                          *)
SaveChannel(enabled, error) ==
  channel' = [exists |-> TRUE, enabled |-> enabled, error |-> error]

----------------------------------------------------------------------------
(* The device: external.                                                   *)
Drop(n, c) ==
  /\ hot[n] = Nothing /\ drops < MaxDrops
  /\ hot' = [hot EXCEPT ![n] = c]
  /\ drops' = drops + 1
  /\ UNCHANGED <<ingestVars, channel, watcherVars, adminVars>>

(* It writes a file again that is still there.                             *)
Rewrite(n, c) ==
  /\ hot[n] \notin {Nothing, c}
  /\ Strike("rewrite")
  /\ hot' = [hot EXCEPT ![n] = c]
  /\ UNCHANGED <<job, inbox, ipc, idoc, drops, channel, watcherVars, adminVars>>

----------------------------------------------------------------------------
(* Variants, as plausible mistakes would write the definitions below.      *)

WakeIfClean ==
  /\ wpc = "asleep" /\ channel.exists /\ channel.enabled /\ ~channel.error
  /\ wpc' = "picking"
  /\ todo' = {n \in Names : hot[n] # Nothing}
  /\ werror' = channel.error
  /\ UNCHANGED <<ingestVars, folderVars, channel, wname, adminVars>>

RemoveInAnyCase ==
  /\ wpc = "ingesting" /\ ipc[Watcher] \in {"duplicate", "new", "raised"}
  /\ hot' = [hot EXCEPT ![wname] = Nothing]
  /\ Goto(Watcher, "idle")
  /\ wpc' = "saving" /\ wname' = Nothing
  /\ UNCHANGED <<job, inbox, idoc, struck, drops, channel, todo, werror, adminVars>>

----------------------------------------------------------------------------
(* list_channels(enabled_only=True), then the directory.                   *)
Collecting == channel.exists /\ channel.enabled

Wake ==
  /\ wpc = "asleep" /\ Collecting
  /\ wpc' = "picking"
  /\ todo' = {n \in Names : hot[n] # Nothing}
  /\ werror' = channel.error
  /\ UNCHANGED <<ingestVars, folderVars, channel, wname, adminVars>>

(* list_channels stands outside the try: its error ends the task.          *)
ListFails ==
  /\ wpc = "asleep"
  /\ Strike("store")
  /\ wpc' = "dead"
  /\ UNCHANGED <<job, inbox, ipc, idoc, folderVars, channel, wname, todo, werror, adminVars>>

Pick(n) ==
  /\ wpc = "picking" /\ n \in todo /\ \A m \in todo : n <= m
  /\ Stage(Watcher, <<hot[n], n>>)
  /\ wpc' = "ingesting" /\ wname' = n /\ todo' = todo \ {n}
  /\ UNCHANGED <<folderVars, channel, werror, adminVars>>

(* path.unlink() after ingest has returned.                                *)
Remove ==
  /\ wpc = "ingesting" /\ ipc[Watcher] \in {"duplicate", "new"}
  /\ hot' = [hot EXCEPT ![wname] = Nothing]
  /\ Goto(Watcher, "idle")
  /\ wpc' = "saving" /\ wname' = Nothing
  /\ UNCHANGED <<job, inbox, idoc, struck, drops, channel, todo, werror, adminVars>>

(* The file is done: last_error is cleared, the copy saved.                *)
SaveTaken ==
  /\ wpc = "saving"
  /\ SaveChannel(TRUE, FALSE)
  /\ wpc' = "picking" /\ werror' = FALSE
  /\ UNCHANGED <<ingestVars, folderVars, wname, todo, adminVars>>

(* The exception ends the pass over the directory, not only this file.     *)
IngestRaised ==
  /\ wpc = "ingesting" /\ ipc[Watcher] = "raised"
  /\ Goto(Watcher, "idle")
  /\ wpc' = "erring" /\ wname' = Nothing
  /\ UNCHANGED <<job, inbox, idoc, struck, folderVars, channel, todo, werror, adminVars>>

SaveError ==
  /\ wpc = "erring"
  /\ SaveChannel(TRUE, TRUE)
  /\ wpc' = "asleep" /\ todo' = {}
  /\ UNCHANGED <<ingestVars, folderVars, wname, werror, adminVars>>

(* save_channel raises: inside the try once more, in the handler for good. *)
SaveFails ==
  /\ wpc \in {"saving", "erring"} \/ (wpc = "picking" /\ todo = {} /\ werror)
  /\ Strike("store")
  /\ wpc' = IF wpc = "erring" THEN "dead" ELSE "erring"
  /\ UNCHANGED <<job, inbox, ipc, idoc, folderVars, channel, wname, todo, werror, adminVars>>

(* The end of a pass clears an error left from an earlier one.             *)
EndPass ==
  /\ wpc = "picking" /\ todo = {}
  /\ IF werror THEN SaveChannel(TRUE, FALSE) ELSE UNCHANGED channel
  /\ wpc' = "asleep" /\ werror' = FALSE
  /\ UNCHANGED <<ingestVars, folderVars, wname, todo, adminVars>>

WatcherStep ==
  \/ Wake \/ Remove \/ SaveTaken \/ IngestRaised \/ SaveError \/ EndPass
  \/ \E n \in Names : Pick(n)

WatcherFault == ListFails \/ SaveFails

----------------------------------------------------------------------------
(* update_input_channel reads the row, sets enabled, saves the copy.       *)
AdminReads ==
  /\ apc = "idle" /\ channel.exists /\ edits < MaxEdits
  /\ apc' = "editing" /\ aerror' = channel.error /\ edits' = edits + 1
  /\ UNCHANGED <<ingestVars, folderVars, channel, watcherVars>>

AdminSaves(enabled) ==
  /\ apc = "editing"
  /\ SaveChannel(enabled, aerror)
  /\ apc' = "idle"
  /\ UNCHANGED <<ingestVars, folderVars, watcherVars, aerror, edits>>

AdminDeletes ==
  /\ apc = "idle" /\ channel.exists /\ edits < MaxEdits
  /\ channel' = [exists |-> FALSE, enabled |-> FALSE, error |-> FALSE]
  /\ edits' = edits + 1
  /\ UNCHANGED <<ingestVars, folderVars, watcherVars, apc, aerror>>

AdminStep == AdminReads \/ AdminDeletes \/ \E enabled \in BOOLEAN : AdminSaves(enabled)

DeviceStep ==
  \E n \in Names, c \in Contents : Drop(n, c) \/ Rewrite(n, c)
=============================================================================
