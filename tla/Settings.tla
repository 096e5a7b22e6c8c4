-------------------------------- MODULE Settings -------------------------------
(***************************************************************************)
(* The settings of the users, one file each (SettingsFileStore.js), with   *)
(* the API keys of their AI providers (providerCredentialService.js), the  *)
(* routes that change them (settingsRoutes.js, providerSettingsRoutes.js), *)
(* and the settings page of the web client, which loads the whole file     *)
(* when it opens (useSettings.js) and writes all of it back when it is     *)
(* saved (SettingsView.jsx).                                               *)
(*                                                                         *)
(* A request reads, changes and writes the file before the server takes    *)
(* the next one: the only awaits are of the chain of writes, whose link is *)
(* synchronous.  What is kept of a provider is its key and whether it is   *)
(* enabled; its models are left out.  The rest of the file is `other`.     *)
(***************************************************************************)
EXTENDS Naturals, FiniteSets

CONSTANTS
    Users,
    Providers,
    Keys,
    NoKey,
    Faults,    \* whether writes may fail and the server may stop in one
    MaxChanges \* BOUND: the changes that are made

SettingsAssumption == NoKey \notin Keys /\ Faults \in BOOLEAN /\ MaxChanges \in Nat

VARIABLES
    legacy,    \* the settings of the time before users is still there
    file,      \* the file of each user
    page,      \* the settings page of each user: closed, or what it has loaded
    changes,
    chosen,    \* (ghost) the key the user has last saved, or removed
    excused,   \* (ghost) the users whose page was saved over later changes,
               \* or whose write has failed or was cut short
    heirs,     \* (ghost) the users who were given the old settings
    cut        \* (ghost) a migration was cut short

vars == <<legacy, file, page, changes, chosen, excused, heirs, cut>>

NoRecord == [key |-> NoKey, enabled |-> FALSE, exists |-> FALSE]
Records == {r \in [key : Keys \union {NoKey}, enabled : BOOLEAN, exists : BOOLEAN] :
              r.exists \/ r = NoRecord}
Contents == [credentials : [Providers -> Records], other : {"none", "legacy", "changed"}]

Empty == [credentials |-> [p \in Providers |-> NoRecord], other |-> "none"]
OldSettings == [Empty EXCEPT !.other = "legacy"]

\* What a file may be besides settings: there is none, or it cannot be parsed.
Absent == [state |-> "absent"]
Torn == [state |-> "torn"]
Closed == [state |-> "closed"]

TypeOK ==
    /\ legacy \in BOOLEAN
    /\ file \in [Users -> Contents \union {Absent, Torn}]
    /\ page \in [Users -> Contents \union {Closed}]
    /\ changes \in 0..MaxChanges
    /\ chosen \in [Users -> [Providers -> Keys \union {NoKey}]]
    /\ excused \subseteq Users
    /\ heirs \subseteq Users
    /\ cut \in BOOLEAN

Init ==
    /\ legacy \in BOOLEAN
    /\ file = [u \in Users |-> Absent]
    /\ page = [u \in Users |-> Closed]
    /\ changes = 0
    /\ chosen = [u \in Users |-> [p \in Providers |-> NoKey]]
    /\ excused = {}
    /\ heirs = {}
    /\ cut = FALSE

(***************************************************************************)
(* The file of a user                                                      *)
(***************************************************************************)

\* Every read first gives the old settings to the first user without a file.
Heir(u) == legacy /\ file[u] = Absent

Migrated(u) == IF Heir(u) THEN [file EXCEPT ![u] = OldSettings] ELSE file

\* A file that is not there, or cannot be parsed, reads as no settings.
Read(u) == IF Migrated(u)[u] \in {Absent, Torn} THEN Empty ELSE Migrated(u)[u]

Migrate(u) ==
    /\ legacy' = (legacy /\ ~Heir(u))
    /\ heirs' = IF Heir(u) THEN heirs \union {u} ELSE heirs
    /\ UNCHANGED cut

\* The copy is made, and the server stops before the old file is renamed, or
\* cannot rename it.
MigrationCutShort(u) ==
    /\ Faults /\ Heir(u)
    /\ file' = Migrated(u)
    /\ heirs' = heirs \union {u}
    /\ cut' = TRUE
    /\ UNCHANGED <<legacy, page, changes, chosen, excused>>

\* write, after a read: it succeeds; it fails, which nobody is told; or the
\* server stops in the middle of it.  over: what is written ignores changes
\* made since it was read.
Write(u, settings, over) ==
    /\ changes < MaxChanges
    /\ changes' = changes + 1
    /\ Migrate(u)
    /\ \/ /\ file' = [file EXCEPT ![u] = settings]
          /\ excused' = IF over THEN excused \union {u} ELSE excused
       \/ /\ Faults
          /\ file' \in {Migrated(u), [file EXCEPT ![u] = Torn]}
          /\ excused' = excused \union {u}

(***************************************************************************)
(* The keys                                                                *)
(***************************************************************************)
Record(u, p) == Read(u).credentials[p]

\* _writeAll puts the records into the settings as they are now.
WriteRecord(u, p, r) == Write(u, [Read(u) EXCEPT !.credentials[p] = r], FALSE)

SetApiKey(u, p, k) ==
    /\ WriteRecord(u, p, [key |-> k, enabled |-> TRUE, exists |-> TRUE])
    /\ chosen' = [chosen EXCEPT ![u][p] = k]
    /\ UNCHANGED page

RemoveApiKeySlip(u, p) ==
    /\ WriteRecord(u, p, [Record(u, p) EXCEPT !.enabled = FALSE, !.exists = TRUE])
    /\ chosen' = [chosen EXCEPT ![u][p] = NoKey]
    /\ UNCHANGED page

RemoveApiKey(u, p) ==
    /\ WriteRecord(u, p, [key |-> NoKey, enabled |-> FALSE, exists |-> TRUE])
    /\ chosen' = [chosen EXCEPT ![u][p] = NoKey]
    /\ UNCHANGED page

\* A provider without a key gets a record as well, which is not enabled.
SetModels(u, p) ==
    /\ WriteRecord(u, p, [Record(u, p) EXCEPT !.exists = TRUE])
    /\ UNCHANGED <<page, chosen>>

SetEnabled(u, p) ==
    /\ Record(u, p).key # NoKey
    /\ \E on \in BOOLEAN : WriteRecord(u, p, [Record(u, p) EXCEPT !.enabled = on])
    /\ UNCHANGED <<page, chosen>>

(***************************************************************************)
(* The rest of the settings                                                *)
(***************************************************************************)

\* updateSettings with one value, as setWorkspaceRoot does.
SetWorkspaceRoot(u) ==
    /\ Write(u, [Read(u) EXCEPT !.other = "changed"], FALSE)
    /\ UNCHANGED <<page, chosen>>

\* A slip of load: what cannot be read is not replaced by empty settings.
LoadSlip(u) ==
    /\ Migrate(u)
    /\ file' = Migrated(u)
    /\ page' = [page EXCEPT ![u] = Migrated(u)[u]]
    /\ UNCHANGED <<changes, chosen, excused>>

\* load: the page keeps all of the file.
Load(u) ==
    /\ Migrate(u)
    /\ file' = Migrated(u)
    /\ page' = [page EXCEPT ![u] = Read(u)]
    /\ UNCHANGED <<changes, chosen, excused>>

\* save: all that the page has goes over what is there.  Records the page does
\* not know at all are not part of what it sends.
Saved(u) ==
    LET known == \E p \in Providers : page[u].credentials[p].exists
    IN [credentials |-> IF known THEN page[u].credentials ELSE Read(u).credentials,
        other |-> "changed"]

Save(u) ==
    /\ page[u] # Closed
    /\ Write(u, Saved(u), Saved(u).credentials # Read(u).credentials)
    /\ UNCHANGED <<page, chosen>>

Close(u) ==
    /\ page[u] # Closed
    /\ page' = [page EXCEPT ![u] = Closed]
    /\ UNCHANGED <<legacy, file, changes, chosen, excused, heirs, cut>>

Next ==
    \E u \in Users :
        \/ MigrationCutShort(u) \/ SetWorkspaceRoot(u) \/ Load(u) \/ Save(u) \/ Close(u)
        \/ \E p \in Providers : \/ \E k \in Keys : SetApiKey(u, p, k)
                                \/ RemoveApiKey(u, p) \/ SetModels(u, p) \/ SetEnabled(u, p)

Spec == Init /\ [][Next]_vars

(***************************************************************************)
(* Properties                                                              *)
(***************************************************************************)

\* A key is there from when its user saves it until the user removes it, and
\* not longer, whatever else is changed in between: the models, another
\* provider, the workspace, or all of the settings from a page that was opened
\* before.  The exceptions are writes that fail, and pages that do not know of
\* the latest keys.
KeysAreAsChosen ==
    \A u \in Users \ excused, p \in Providers : Record(u, p).key = chosen[u][p]

\* The settings of the time before users go to one user only, unless the
\* migration is cut short between its copy and its rename.
OneHeir == cut \/ Cardinality(heirs) <= 1

\* "the only way a key gets here is a user explicitly saving it via Settings":
\* a key that is there is the one its user saved last.  The code breaks it: a
\* page opened before a key was removed brings the key back when it is saved.
KeyIsSavedByTheUser ==
    \A u \in Users, p \in Providers : Record(u, p).key \in {NoKey, chosen[u][p]}

================================================================================
