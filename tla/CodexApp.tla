------------------------------ MODULE CodexApp ------------------------------
(***************************************************************************)
(* Codex App's configuration (internal/integrations, codex_app.go).        *)
(* Configure puts Backpack's keys into a file that belongs to the user and *)
(* to the app; Restore takes them out.  The backup of the file, the file   *)
(* and the restore state are written one after the other; a write may      *)
(* fail, the process may die, and the app may change its file.  A content  *)
(* is the value of the keys Backpack manages and the version of the rest.  *)
(***************************************************************************)
EXTENDS Naturals

CONSTANTS
  Setups,       \* models, endpoints and tokens Configure is called with
  NoFile,       \* a file that does not exist
  MaxEdits,     \* bound: changes by the user or the app
  MaxMishaps    \* bound: writes that fail, processes that die

VARIABLES
  config,       \* config.toml
  backup,       \* config.original.toml
  state,        \* state.json: whether config.toml existed, digests of the
                \* backup and of the managed configuration
  step,         \* of the running command
  new,          \* the state it is going to write, or has read
  edits,        \* number of edits, the version of the latest one
  mishaps,      \* used budget
  disturbed     \* observation: a write has failed, a process died, or an edit
                \* has met a running command

files == <<config, backup, state>>
vars  == <<files, step, new, edits, mishaps, disturbed>>

Empty == [keys |-> "none", rest |-> 0]
Bytes(name) == IF name = NoFile THEN Empty ELSE name

\* patchCodexAppConfig, and removeCodexAppManagedKeys.
Patched(content, setup) == [content EXCEPT !.keys = setup]
Stripped(content) == [content EXCEPT !.keys = "none"]

Quiet == UNCHANGED <<edits, mishaps, disturbed>>
Mishap == mishaps < MaxMishaps /\ mishaps' = mishaps + 1 /\ disturbed' = TRUE

-----------------------------------------------------------------------------
(* ConfigureCodexApp *)

BackupAsRecorded == Bytes(backup) = state.original

\* A backup that is not the one the state tells of is refused.
Configure(setup) ==
  LET read == Bytes(config)
      drifted == state # NoFile /\ read # state.managed
  IN /\ step = "idle"
     /\ state # NoFile => BackupAsRecorded
     /\ new' = [existed  |-> IF state = NoFile THEN config # NoFile ELSE state.existed \/ drifted,
                original |-> IF state = NoFile THEN read
                             ELSE IF drifted THEN Stripped(read) ELSE state.original,
                managed  |-> Patched(read, setup)]
     /\ step' = IF state = NoFile \/ drifted THEN "backup" ELSE "catalog"
     /\ UNCHANGED files /\ Quiet

\* Configure and Restore return an error before they change anything.
Refused ==
  /\ step = "idle"
  /\ state # NoFile
  /\ ~BackupAsRecorded \/ Bytes(config) # state.managed
  /\ UNCHANGED vars

WriteBackup ==
  /\ step = "backup"
  /\ backup' = new.original
  /\ step' = "catalog"
  /\ UNCHANGED <<config, state, new>> /\ Quiet

\* writeCombinedCodexAppCatalog fails on a native catalog it cannot read.
WriteCatalog ==
  /\ step = "catalog"
  /\ step' = "config"
  /\ UNCHANGED <<files, new>> /\ Quiet

WriteConfig ==
  /\ step = "config"
  /\ config' = new.managed
  /\ step' = "state"
  /\ UNCHANGED <<backup, state, new>> /\ Quiet

WriteState ==
  /\ step = "state"
  /\ state' = new
  /\ step' = "idle"
  /\ UNCHANGED <<config, backup, new>> /\ Quiet

\* What a write that does not come through leaves: the file as it was or,
\* since writePrivateAtomic removes it before the rename, no file.
CutShort ==
  \/ UNCHANGED files
  \/ step = "backup" /\ backup' = NoFile /\ UNCHANGED <<config, state>>
  \/ step = "config" /\ config' = NoFile /\ UNCHANGED <<backup, state>>
  \/ step = "state" /\ state' = NoFile /\ UNCHANGED <<config, backup>>
  \/ step \in {"undo", "restore"} /\ new.existed
     /\ config' = NoFile /\ UNCHANGED <<backup, state>>

\* A write or a removal fails: the command gives up, and brings the backup
\* back when only the state is missing; that this has failed is not told.
WriteFails ==
  /\ step # "idle"
  /\ Mishap
  /\ CutShort
  /\ step' = IF step = "state" THEN "undo" ELSE "idle"
  /\ UNCHANGED <<new, edits>>

\* restoreCodexAppConfig: a file that did not exist is removed.
Undo ==
  /\ step = "undo"
  /\ config' = IF new.existed THEN Bytes(backup) ELSE NoFile
  /\ step' = "idle"
  /\ UNCHANGED <<backup, state, new>> /\ Quiet

-----------------------------------------------------------------------------
(* RestoreCodexApp *)

\* Fault: a file that was changed since is overwritten.
RestoreUnchecked ==
  /\ step = "idle"
  /\ state # NoFile
  /\ BackupAsRecorded
  /\ new' = state
  /\ step' = "restore"
  /\ UNCHANGED files /\ Quiet

\* Refused when the file has been changed since.
Restore ==
  /\ step = "idle"
  /\ state # NoFile
  /\ Bytes(config) = state.managed
  /\ BackupAsRecorded
  /\ new' = state
  /\ step' = "restore"
  /\ UNCHANGED files /\ Quiet

PutBack ==
  /\ step = "restore"
  /\ config' = IF new.existed THEN Bytes(backup) ELSE NoFile
  /\ step' = "forget"
  /\ UNCHANGED <<backup, state, new>> /\ Quiet

\* The catalog goes, then the state.
Forget ==
  /\ step = "forget"
  /\ state' = NoFile
  /\ step' = "idle"
  /\ UNCHANGED <<config, backup, new>> /\ Quiet

-----------------------------------------------------------------------------
(* Environment *)

\* The user or the app writes the file, with or without keys of its own.
Edit(keys) ==
  /\ edits < MaxEdits
  /\ edits' = edits + 1
  /\ config' = [keys |-> keys, rest |-> edits + 1]
  /\ disturbed' = (disturbed \/ step # "idle")
  /\ UNCHANGED <<backup, state, step, new, mishaps>>

\* The process dies, between two writes or within one.
Die ==
  /\ step # "idle"
  /\ Mishap
  /\ CutShort
  /\ step' = "idle"
  /\ UNCHANGED <<new, edits>>

-----------------------------------------------------------------------------
Init ==
  /\ config \in {NoFile, [keys |-> "user", rest |-> 0]}
  /\ backup = NoFile /\ state = NoFile
  /\ step = "idle"
  /\ new = [existed |-> FALSE, original |-> Empty, managed |-> Empty]
  /\ edits = 0 /\ mishaps = 0 /\ disturbed = FALSE

Next ==
  \/ (\E setup \in Setups : Configure(setup)) \/ Refused
  \/ WriteBackup \/ WriteCatalog \/ WriteConfig \/ WriteState \/ WriteFails \/ Undo
  \/ Restore \/ PutBack \/ Forget
  \/ \E keys \in {"user", Bytes(config).keys} : Edit(keys)
  \/ Die

Spec == Init /\ [][Next]_vars

-----------------------------------------------------------------------------
(* Properties *)

\* The type invariant of the three files and the command.
TypeOK ==
  LET Contents == [keys : Setups \cup {"user", "none"}, rest : 0..MaxEdits]
      States == [existed : BOOLEAN, original : Contents, managed : Contents]
  IN /\ config \in Contents \cup {NoFile} /\ backup \in Contents \cup {NoFile}
     /\ state = NoFile \/ state \in States
     /\ new \in States
     /\ step \in {"idle", "backup", "catalog", "config", "state", "undo", "restore", "forget"}
     /\ edits \in 0..MaxEdits /\ mishaps \in 0..MaxMishaps
     /\ disturbed \in BOOLEAN

\* A comment of ConfigureCodexApp: changes made by Codex or the user are kept
\* "so a later restore never rolls the app back to stale configuration".  An
\* undisturbed Restore leaves the latest of them and none of Backpack's keys,
\* through any series of setups, edits and setups again.
CodexRestored ==
  [][Forget /\ ~disturbed =>
       Bytes(config).keys \notin Setups /\ Bytes(config).rest = edits]_vars

=============================================================================
