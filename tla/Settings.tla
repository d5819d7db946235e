------------------------------ MODULE Settings ------------------------------
(***************************************************************************)
(* The settings (backend/app/services/settings_service.py over             *)
(* config/settings_manager.py): a cache behind a lock, the file            *)
(* settings.json, and the switch of log_manager that says whether packets  *)
(* are stored.                                                             *)
(*                                                                         *)
(* PUT /api/settings is served by several threads, and update_settings     *)
(* holds the lock only while it copies or replaces the cache: an update is *)
(* a copy, the file truncated, the text written when the file is closed,   *)
(* the cache replaced, the switch set, with other updates in between.  A   *)
(* text written into a longer one leaves the rest of it behind, and cannot *)
(* be read.  Writing may fail, which is only printed; the backend may die. *)
(*                                                                         *)
(* A setting is a Boolean here, and its text is longer when it is FALSE.   *)
(* Normalised values and texts of more than one buffer are left out.       *)
(***************************************************************************)
EXTENDS Naturals, FiniteSets

CONSTANTS Requests,     \* threads that serve PUT /api/settings
          Keys,         \* the settings, persist_logs among them
          Defaults,     \* DEFAULT_SETTINGS
          Updates,      \* bound: what requests ask for: values of some of the keys
          MaxUpdates,   \* bound: how many there are
          MaxSaveFaults \* bound: failed writes and crashes

VARIABLES cache,        \* _SETTINGS_CACHE
          file,         \* the values in settings.json, if they can be read, and its size
          persist,      \* PERSIST_LOGS of log_manager
          update,       \* per thread: where update_settings is, its payload, its copy
          updates, saveFaults,
          together,     \* history: threads whose update met another one
          spoilt        \* history: the file since the last update that was alone and
                        \* failed nowhere: another one, or a failure, has touched it

settingsVars == <<cache, file, persist, update, updates, saveFaults, together, spoilt>>

Unreadable == [k \in {} |-> FALSE]
Size(values) == Cardinality({k \in Keys : ~values[k]})
Text(values) == [values |-> values, size |-> Size(values)]
Truncated == [values |-> Unreadable, size |-> 0]
NoUpdate == [at |-> "idle"]
Busy == {t \in Requests : update[t].at # "idle"}

\* load_settings: no file, or none that can be read, and the defaults count.
FromFile(stored) == IF stored.values = Unreadable THEN Defaults ELSE stored.values

SettingsInit ==
    /\ file \in {Truncated, Text(Defaults)}
    /\ cache = FromFile(file) /\ persist = cache["persist_logs"]
    /\ update = [t \in Requests |-> NoUpdate]
    /\ updates = 0 /\ saveFaults = 0 /\ together = {} /\ spoilt = (file = Truncated)

Merged(values, payload) == [k \in Keys |-> IF k \in DOMAIN payload THEN payload[k]
                                           ELSE values[k]]

\* Mutant: the update starts from the defaults, not from the cache.
CopyOfDefaults(payload) == Merged(Defaults, payload)
Copy(payload) == Merged(cache, payload)

\* get_settings_snapshot, and the payload applied to the copy.
BeginUpdate(t) ==
    /\ update[t].at = "idle" /\ updates < MaxUpdates
    /\ \E payload \in Updates :
          update' = [update EXCEPT ![t] =
                       [at |-> "open", payload |-> payload, values |-> Copy(payload)]]
    /\ updates' = updates + 1
    /\ together' = IF Busy = {} THEN {} ELSE together \cup Busy \cup {t}
    /\ UNCHANGED <<cache, file, persist, saveFaults, spoilt>>

Goto(t, step) == update' = [update EXCEPT ![t].at = step]

\* open("w")
Truncate(t) ==
    /\ update[t].at = "open" /\ Goto(t, "write") /\ file' = Truncated /\ spoilt' = TRUE
    /\ UNCHANGED <<cache, persist, updates, saveFaults, together>>

\* Mutant: the values written are those of the cache, which is not replaced yet.
Stale(t) == cache
Written(t) == update[t].values

\* The text is written from the start; what was longer keeps its end.
Write(t) ==
    /\ update[t].at = "write" /\ Goto(t, "replace")
    /\ file' = IF Size(Written(t)) >= file.size THEN Text(Written(t))
               ELSE [file EXCEPT !.values = Unreadable]
    /\ spoilt' = (t \in together)
    /\ UNCHANGED <<cache, persist, updates, saveFaults, together>>

\* save_settings prints what open() or the writing raises, and returns.
FailToSave(t) ==
    /\ update[t].at \in {"open", "write"} /\ Goto(t, "replace")
    /\ saveFaults < MaxSaveFaults /\ saveFaults' = saveFaults + 1
    /\ spoilt' = TRUE
    /\ UNCHANGED <<cache, file, persist, updates, together>>

\* _replace_cache
Replace(t) ==
    /\ update[t].at = "replace" /\ Goto(t, "switch") /\ cache' = update[t].values
    /\ UNCHANGED <<file, persist, updates, saveFaults, together, spoilt>>

\* _apply_runtime_settings, and the answer.
Switch(t) ==
    /\ update[t].at = "switch" /\ update' = [update EXCEPT ![t] = NoUpdate]
    /\ persist' = update[t].values["persist_logs"]
    /\ UNCHANGED <<cache, file, updates, saveFaults, together, spoilt>>

\* The backend dies and starts again: the module loads the file and applies it.
Restart ==
    /\ saveFaults < MaxSaveFaults /\ saveFaults' = saveFaults + 1
    /\ cache' = FromFile(file) /\ persist' = cache'["persist_logs"]
    /\ update' = [t \in Requests |-> NoUpdate]
    /\ together' = {} /\ spoilt' = (file.values = Unreadable)
    /\ UNCHANGED <<file, updates>>

SettingsNext ==
    \/ \E t \in Requests : \/ BeginUpdate(t) \/ Truncate(t) \/ Write(t) \/ FailToSave(t)
                           \/ Replace(t) \/ Switch(t)
    \/ Restart

SettingsSpec == SettingsInit /\ [][SettingsNext]_settingsVars

-----------------------------------------------------------------------------
(* Properties *)

\* Between updates the cache, the file and the switch say the same, unless updates have met
\* or saving has failed since one that was alone.
InStep ==
    Busy = {} => /\ together = {} => persist = cache["persist_logs"]
                 /\ ~spoilt => file.values = cache

\* An update changes only what it asks for: another setting changes only by updates that
\* meet, or by a restart.
NothingLost ==
    [][\A t \in Requests :
          update[t].at = "replace" /\ update'[t].at = "switch" /\ t \notin together
          => cache' = Merged(cache, update[t].payload)]_settingsVars

=============================================================================
