----------------------------- MODULE ClaudeApp ------------------------------
(***************************************************************************)
(* Claude App's configuration (internal/integrations, claude_app.go): two  *)
(* mode files of which Backpack owns one field and the app may change the  *)
(* rest, and two profile files that must not change.  Configure rewrites   *)
(* the files one after the other and records all of them at the end;       *)
(* Restore takes the record to put them back.                              *)
(***************************************************************************)
EXTENDS Naturals

CONSTANTS
  Modes, Profiles, \* the files, numbers: modes first
  Routes,          \* endpoints, tokens and models Configure is called with
  NoText,          \* a file that does not exist, no record, no setup yet
  MaxChanges,      \* bound: changes by the app
  MaxTroubles      \* bound: writes that fail, processes that die

VARIABLES
  text,      \* of each file: the fields Backpack manages and the rest
  saved,     \* state.json: NoText or, of each file, what it held before
             \* and what Configure has made of it
  doing, at, \* the running command and the file it is about to write
  route,     \* what Configure was called with
  record,    \* the file states it has collected
  changes,   \* number of changes, the version of the latest one
  troubles,  \* used budget
  upset      \* observation: a write failed, a process died, or a change has met
             \* a running command

vars == <<text, saved, doing, at, route, record, changes, troubles, upset>>

Files == Modes \cup Profiles
Last == CHOOSE f \in Files : \A g \in Files : g <= f
First == CHOOSE f \in Files : \A g \in Files : g >= f

Blank == [fields |-> "none", rest |-> 0]
Read(f) == IF text[f] = NoText THEN Blank ELSE text[f]

\* The mutation of a file: every setup writes the same mode and the same entry
\* into the list of profiles, a route of its own into the profile.
Edited(f, content) == [content EXCEPT !.fields = IF f = Last THEN route ELSE "managed"]

\* claudeAppDigest and claudeAppModeIntact.
Untouched(f) ==
  /\ text[f] # NoText
  /\ text[f] = saved[f].managed \/ (f \in Modes /\ text[f].fields = "managed")

\* The command ends.
Done == doing' = "idle" /\ at' = First /\ record' = NoText

\* On to the next file, or to the last step.
NextFile(finish) ==
  IF at = Last THEN doing' = finish /\ UNCHANGED at ELSE at' = at + 1 /\ UNCHANGED doing

Calm == UNCHANGED <<changes, troubles, upset>>
Trouble == troubles < MaxTroubles /\ troubles' = troubles + 1 /\ upset' = TRUE

-----------------------------------------------------------------------------
(* ConfigureClaudeApp *)

Configure(r) ==
  /\ doing = "idle"
  /\ saved # NoText => \A f \in Files : Untouched(f)
  /\ doing' = "configure" /\ at' = First /\ route' = r
  /\ record' = saved
  /\ UNCHANGED <<text, saved>> /\ Calm

\* Fault: a second setup saves what the first has made of the files.
MutateForgetful ==
  /\ doing = "configure"
  /\ text' = [text EXCEPT ![at] = Edited(at, Read(at))]
  /\ record' = [f \in Files |->
       IF f = at THEN [before |-> text[f], managed |-> text'[f]]
       ELSE IF record = NoText THEN [before |-> NoText, managed |-> Blank] ELSE record[f]]
  /\ NextFile("save")
  /\ UNCHANGED <<saved, route>> /\ Calm

\* One file is read, edited, written and noted; what an earlier setup has
\* saved of it stays.
Mutate ==
  /\ doing = "configure"
  /\ text' = [text EXCEPT ![at] = Edited(at, Read(at))]
  /\ record' = [f \in Files |->
       IF f = at THEN [before  |-> IF saved = NoText THEN text[f] ELSE saved[f].before,
                       managed |-> text'[f]]
       ELSE IF record = NoText THEN [before |-> NoText, managed |-> Blank] ELSE record[f]]
  /\ NextFile("save")
  /\ UNCHANGED <<saved, route>> /\ Calm

Save ==
  /\ doing = "save"
  /\ saved' = record
  /\ Done
  /\ UNCHANGED <<text, route>> /\ Calm

-----------------------------------------------------------------------------
(* RestoreClaudeApp *)

Restore ==
  /\ doing = "idle"
  /\ saved # NoText
  /\ \A f \in Files : Untouched(f)
  /\ doing' = "restore" /\ at' = First
  /\ UNCHANGED <<text, saved, route, record>> /\ Calm

\* restoreClaudeAppModeConfig keeps what the app has added to a mode file; the
\* other files are what they were.
PutBack ==
  LET before == saved[at].before IN
  /\ doing = "restore"
  /\ text' = [text EXCEPT ![at] =
       IF at \notin Modes THEN before
       ELSE [@ EXCEPT !.fields = IF before = NoText THEN "none" ELSE before.fields]]
  /\ NextFile("forget")
  /\ UNCHANGED <<saved, route, record>> /\ Calm

Forget ==
  /\ doing = "forget"
  /\ saved' = NoText
  /\ Done
  /\ UNCHANGED <<text, route>> /\ Calm

-----------------------------------------------------------------------------
(* Refusals, failures and the environment *)

\* The command ends: the files have changed, or a write fails, or the process
\* dies, without a change.  What it has written so far stays.
GiveUp ==
  /\ \/ doing = "idle" /\ saved # NoText /\ (\E f \in Files : ~Untouched(f))
        /\ UNCHANGED <<troubles, upset>>
     \/ doing # "idle" /\ Trouble
  /\ Done
  /\ UNCHANGED <<text, saved, route, changes>>

\* The app changes what is not Backpack's in a mode file.
AppChanges(f) ==
  /\ changes < MaxChanges
  /\ changes' = changes + 1
  /\ text' = [text EXCEPT ![f] = [Read(f) EXCEPT !.rest = changes + 1]]
  /\ upset' = (upset \/ doing # "idle")
  /\ UNCHANGED <<saved, doing, at, route, record, troubles>>

\* The rename of writePrivateAtomic fails, or the process dies before it: the
\* old file has been removed.
LoseFile ==
  /\ Trouble
  /\ \/ /\ doing \in {"configure", "restore"}
        /\ text' = [text EXCEPT ![at] = NoText]
        /\ UNCHANGED saved
     \/ doing = "save" /\ saved' = NoText /\ UNCHANGED text
  /\ Done
  /\ UNCHANGED <<route, changes>>

-----------------------------------------------------------------------------
Init ==
  /\ text \in [Files -> {NoText, [fields |-> "user", rest |-> 0]}]
  /\ saved = NoText /\ record = NoText
  /\ doing = "idle" /\ at = First /\ route = NoText
  /\ changes = 0 /\ troubles = 0 /\ upset = FALSE

Next ==
  \/ \E r \in Routes : Configure(r)
  \/ Mutate \/ Save \/ Restore \/ PutBack \/ Forget \/ GiveUp
  \/ \E f \in Files : AppChanges(f)
  \/ LoseFile

Spec == Init /\ [][Next]_vars

-----------------------------------------------------------------------------
(* Properties *)

\* The type invariant of the files and the command.
TypeOK ==
  LET Contents == [fields : Routes \cup {"user", "none", "managed"}, rest : 0..MaxChanges]
      Saved == [Files -> [before : Contents \cup {NoText}, managed : Contents]]
  IN /\ text \in [Files -> Contents \cup {NoText}]
     /\ saved = NoText \/ saved \in Saved
     /\ record = NoText \/ record \in Saved
     /\ doing \in {"idle", "configure", "save", "restore", "forget"}
     /\ at \in Files /\ route \in Routes \cup {NoText}
     /\ changes \in 0..MaxChanges /\ troubles \in 0..MaxTroubles /\ upset \in BOOLEAN

\* docs/apps.md: Backpack "backs up the prior profile, owns only narrowly
\* scoped fields, refuses unsafe overwrite after unexpected drift".  When
\* Restore has come through undisturbed, after any series of setups and
\* changes by the app, no field of Backpack's is left and no change is lost.
ClaudeRestored ==
  [][Forget /\ ~upset =>
       /\ \A f \in Files : Read(f).fields \in {"user", "none"}
       /\ changes > 0 => \E f \in Files : Read(f).rest = changes]_vars
=============================================================================
