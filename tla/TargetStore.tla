----------------------------- MODULE TargetStore -----------------------------
(***************************************************************************)
(* The configured SSH targets (internal/compute, TargetStore) and the      *)
(* versioned JSON file they are kept in (internal/statemigrate): reading   *)
(* with migration of the version 0 format, and replacement of the file.    *)
(*                                                                         *)
(* Commands and the daemon are processes that share the file and no lock.  *)
(* Staging files have unique names, so each process has its own.  Targets   *)
(* are their ids; a decode error is not told from a failed read.           *)
(***************************************************************************)
EXTENDS Naturals

CONSTANTS
  Procs,        \* processes that use the store
  Ids,          \* target ids
  None,         \* no file
  MaxCrashes,   \* bound: processes that die half-way
  MaxFailures   \* bound: writes and renames that fail

VARIABLES
  file,         \* compute-targets.json
  backup,       \* compute-targets.json.v0.bak
  staged,       \* .state-*.tmp of each process
  aside,        \* .state-replaced-* of each process
  litter,       \* the ones dead processes left, until operations overlap
  pc, op, items,       \* step, operation and list of each process
  migrating,           \* it replaces the file to migrate it
  crashes, failures,   \* used budgets
  origin,       \* observation: the file at the beginning
  kept,         \* observation: targets that were put and not removed
  overlap,      \* observation: two operations have been under way at once
  undone        \* observation: a backup was taken back that another has used

files    == <<file, backup, staged, aside, litter>>
procs    == <<pc, op, items, migrating>>
budgets  == <<crashes, failures>>
observed == <<origin, kept, overlap, undone>>
vars     == <<files, procs, budgets, observed>>

Legacy(list)  == [schema |-> 0, items |-> list]
Current(list) == [schema |-> 1, items |-> list]
Newer         == [schema |-> 2, items |-> {}]
Torn          == [schema |-> 0, items |-> {None}]   \* a backup being written
Documents     == [schema : {0, 1}, items : SUBSET Ids] \cup {Newer}
Operations    == [kind : {"list"}] \cup [kind : {"put", "remove"}, id : Ids]

ASSUME NoneAssumption == None \notin Ids \cup Documents \cup {Torn}
ASSUME BoundsAssumption == MaxCrashes \in Nat /\ MaxFailures \in Nat

Goto(p, step) == pc' = [pc EXCEPT ![p] = step]

Idle == [kind |-> "list"]

\* The operation is over, with or without an error; a staged file is removed.
Return(p) ==
  /\ Goto(p, "idle")
  /\ op' = [op EXCEPT ![p] = Idle]
  /\ items' = [items EXCEPT ![p] = {}]
  /\ staged' = [staged EXCEPT ![p] = None]
  /\ migrating' = migrating \ {p}

\* Operation o goes on with the list it has read: List returns it; Put and
\* Remove change it and write it, unless the id to remove is not there.
Change(p, o, list) ==
  IF o.kind = "list" \/ (o.kind = "remove" /\ o.id \notin list)
    THEN Return(p)
    ELSE /\ op' = [op EXCEPT ![p] = o]
         /\ items' = [items EXCEPT ![p] =
              IF o.kind = "put" THEN list \cup {o.id} ELSE list \ {o.id}]
         /\ migrating' = migrating \ {p}
         /\ Goto(p, "stage")
         /\ UNCHANGED staged

\* Whoever finds another operation under way makes the two overlap.
Observe(p) ==
  /\ overlap' = (overlap \/ \E q \in Procs : pc[q] # "idle")
  /\ kept' = IF overlap' THEN {} ELSE kept

-----------------------------------------------------------------------------
(* List, Put and Remove read the file: ReadList, migrate *)

\* No file is an empty list; a newer document is an error.  A migration is the
\* same for every operation: which one it was for is chosen when it goes on.
ReadList(p, o) ==
  /\ pc[p] = "idle"
  /\ Observe(p)
  /\ \/ /\ file = None
        /\ Change(p, o, {})
     \/ /\ file # None
        /\ file.schema = 1
        /\ Change(p, o, file.items)
     \/ /\ file = Newer
        /\ Return(p)
     \/ /\ file # None
        /\ file.schema = 0
        /\ items' = [items EXCEPT ![p] = file.items]
        /\ migrating' = migrating \cup {p}
        /\ Goto(p, "backup")
        /\ UNCHANGED <<staged, op>>
  /\ UNCHANGED <<file, backup, aside, litter, budgets, origin, undone>>

\* Fault: any earlier backup is accepted.
BackupAccepted(p) ==
  /\ pc[p] = "backup"
  /\ Goto(p, IF backup = None THEN "create" ELSE "stage")
  /\ UNCHANGED <<files, op, items, migrating, budgets, observed>>

\* Fault: an earlier backup is taken for the document to migrate.
BackupTrusted(p) ==
  /\ pc[p] = "backup"
  /\ Goto(p, IF backup = None THEN "create" ELSE "stage")
  /\ items' = [items EXCEPT ![p] = IF backup = None THEN items[p] ELSE backup.items]
  /\ UNCHANGED <<files, op, migrating, budgets, observed>>

\* An earlier attempt may have made the backup; another content is refused.
ReadBackup(p) ==
  /\ pc[p] = "backup"
  /\ IF backup \in {None, Legacy(items[p])}
       THEN /\ Goto(p, IF backup = None THEN "create" ELSE "stage")
            /\ UNCHANGED <<staged, op, items, migrating>>
       ELSE Return(p)
  /\ UNCHANGED <<file, backup, aside, litter, budgets, observed>>

\* writeExclusive: the file is created, and filled afterwards.
CreateBackup(p) ==
  /\ pc[p] = "create"
  /\ IF backup = None
       THEN /\ backup' = Torn
            /\ Goto(p, "fill")
            /\ UNCHANGED <<staged, op, items, migrating>>
       ELSE Return(p) /\ UNCHANGED backup
  /\ UNCHANGED <<file, aside, litter, budgets, observed>>

\* Written, the backup is complete for whoever reads it.
FillBackup(p) ==
  /\ pc[p] = "fill"
  /\ backup' = Legacy(items[p])
  /\ Goto(p, "sync")
  /\ UNCHANGED <<file, staged, aside, litter, op, items, migrating, budgets, observed>>

SyncBackup(p) ==
  /\ pc[p] = "sync"
  /\ Goto(p, "stage")
  /\ UNCHANGED <<files, op, items, migrating, budgets, observed>>

\* Others write a document, or have written it, that want the backup there.
Used(p) == file # origin \/ \E q \in Procs \ {p} : pc[q] \in {"stage", "aside", "swap", "clean"}

\* A backup that cannot be written, or synced, is removed, whoever has found
\* it by now.
FillFails(p) ==
  /\ pc[p] \in {"fill", "sync"}
  /\ failures < MaxFailures
  /\ failures' = failures + 1
  /\ backup' = None
  /\ undone' = (undone \/ (pc[p] = "sync" /\ Used(p)))
  /\ Return(p)
  /\ UNCHANGED <<file, aside, litter, crashes, origin, kept, overlap>>

-----------------------------------------------------------------------------
(* atomicReplace *)

\* A step before the file is moved fails: the backup cannot be read, created or
\* closed, the document not be staged, the file not be moved aside.
StepFails(p) ==
  /\ pc[p] \in {"backup", "create", "stage", "aside"}
  /\ failures < MaxFailures
  /\ failures' = failures + 1
  /\ Return(p)
  /\ UNCHANGED <<file, backup, aside, litter, crashes, observed>>

\* The document is staged, and whether there is one to replace is looked up.
Stage(p) ==
  /\ pc[p] = "stage"
  /\ staged' = [staged EXCEPT ![p] = Current(items[p])]
  /\ Goto(p, IF file = None THEN "swap" ELSE "aside")
  /\ UNCHANGED <<file, backup, aside, litter, op, items, migrating, budgets, observed>>

\* Another process may have moved the file away since.
MoveAside(p) ==
  /\ pc[p] = "aside"
  /\ IF file = None
       THEN Return(p) /\ UNCHANGED <<file, aside>>
       ELSE /\ aside' = [aside EXCEPT ![p] = file]
            /\ file' = None
            /\ Goto(p, "swap")
            /\ UNCHANGED <<staged, op, items, migrating>>
  /\ UNCHANGED <<backup, litter, budgets, observed>>

\* The staged document takes the name, whatever has it by now.  Only who migrates
\* needs the list after that.
Swap(p) ==
  /\ pc[p] = "swap"
  /\ file' = staged[p]
  /\ staged' = [staged EXCEPT ![p] = None]
  /\ kept' = IF p \in migrating \/ overlap THEN kept
             ELSE IF op[p].kind = "put" THEN kept \cup {op[p].id} ELSE kept \ {op[p].id}
  /\ items' = IF p \in migrating THEN items ELSE [items EXCEPT ![p] = {}]
  /\ op' = [op EXCEPT ![p] = Idle]
  /\ Goto(p, "clean")
  /\ UNCHANGED <<backup, aside, litter, migrating, budgets, origin, overlap, undone>>

\* Fault: the old file is not put back.
SwapFailsForgets(p) ==
  /\ pc[p] = "swap"
  /\ failures < MaxFailures
  /\ failures' = failures + 1
  /\ aside' = [aside EXCEPT ![p] = None]
  /\ Return(p)
  /\ UNCHANGED <<file, backup, litter, crashes, observed>>

\* The rename fails: what was moved aside is put back.
SwapFails(p) ==
  /\ pc[p] = "swap"
  /\ failures < MaxFailures
  /\ failures' = failures + 1
  /\ file' = IF aside[p] = None THEN file ELSE aside[p]
  /\ aside' = [aside EXCEPT ![p] = None]
  /\ Return(p)
  /\ UNCHANGED <<backup, litter, crashes, observed>>

\* The old document is removed.  After a migration the operation goes on with
\* the list it has read before.
Clean(p) ==
  /\ pc[p] = "clean"
  /\ aside' = [aside EXCEPT ![p] = None]
  /\ IF p \in migrating
       THEN \E o \in Operations : Change(p, o, items[p])
       ELSE Return(p)
  /\ UNCHANGED <<file, backup, litter, budgets, observed>>

-----------------------------------------------------------------------------
Crash(p) ==
  /\ pc[p] # "idle"
  /\ crashes < MaxCrashes
  /\ crashes' = crashes + 1
  /\ litter' = IF overlap THEN litter ELSE litter \cup ({aside[p]} \ {None})
  /\ aside' = [aside EXCEPT ![p] = None]
  /\ Return(p)
  /\ UNCHANGED <<file, backup, failures, observed>>

Init ==
  /\ file \in Documents \cup {None}
  /\ backup = None /\ litter = {}
  /\ staged = [p \in Procs |-> None] /\ aside = [p \in Procs |-> None]
  /\ pc = [p \in Procs |-> "idle"]
  /\ op = [p \in Procs |-> Idle]
  /\ items = [p \in Procs |-> {}]
  /\ migrating = {}
  /\ crashes = 0 /\ failures = 0
  /\ origin = file
  /\ kept = IF file = None THEN {} ELSE file.items
  /\ overlap = FALSE /\ undone = FALSE

atomicReplace(p) ==
  \/ Stage(p) \/ StepFails(p) \/ MoveAside(p)
  \/ Swap(p) \/ SwapFails(p) \/ Clean(p)

Next ==
  \E p \in Procs :
    \/ \E o \in Operations : ReadList(p, o)
    \/ ReadBackup(p) \/ CreateBackup(p)
    \/ FillBackup(p) \/ SyncBackup(p) \/ FillFails(p)
    \/ atomicReplace(p)
    \/ Crash(p)

Spec == Init /\ [][Next]_vars

-----------------------------------------------------------------------------
(* Properties *)

\* The type invariant of the files and the processes.
TypeOK ==
  /\ file \in Documents \cup {None}
  /\ backup \in Documents \cup {None, Torn}
  /\ staged \in [Procs -> Documents \cup {None}]
  /\ aside \in [Procs -> Documents \cup {None}]
  /\ litter \subseteq Documents
  /\ pc \in [Procs -> {"idle", "backup", "create", "fill", "sync", "stage",
                       "aside", "swap", "clean"}]
  /\ op \in [Procs -> Operations]
  /\ items \in [Procs -> SUBSET Ids]
  /\ migrating \subseteq Procs
  /\ crashes \in 0..MaxCrashes /\ failures \in 0..MaxFailures
  /\ origin \in Documents \cup {None} /\ kept \subseteq Ids
  /\ overlap \in BOOLEAN /\ undone \in BOOLEAN

\* docs/state-migrations.md: configuration "receives a backup before
\* replacement".  A version 0 file is in its place or its backup is complete,
\* whoever migrates it at the same time and wherever one of them dies; unless
\* the one who made the backup could not sync it and took it away after another
\* had found it complete and gone on (migrate, writeExclusive).
LegacyKept ==
  ~undone /\ origin # None /\ origin.schema = 0 => file = origin \/ backup = origin

\* docs/state-migrations.md: readers "reject unknown newer versions without
\* modifying them".
NewerUntouched == origin = Newer => file = Newer

Copies == {file, backup} \cup {aside[p] : p \in Procs} \cup litter

\* Unless two operations overlap, no configured target is destroyed: a crash
\* or a failed rename leaves a file that lists it, if not under its name.
TargetsRecoverable ==
  ~overlap => \A id \in kept : \E copy \in Copies \ {None} : id \in copy.items
=============================================================================
