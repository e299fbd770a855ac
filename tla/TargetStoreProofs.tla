-------------------------- MODULE TargetStoreProofs --------------------------
(***************************************************************************)
(* Proofs about TargetStore for any processes, target ids and bounds: type *)
(* correctness, and that no document of a newer version is lost, nor an    *)
(* original of version 0 but where LegacyKept says so, with operations     *)
(* that overlap, fail and die anywhere.                                    *)
(***************************************************************************)
EXTENDS TargetStore, TLAPS

-----------------------------------------------------------------------------
(* The inductive invariant behind LegacyKept and NewerUntouched. *)

IsLegacy(document) == document # None /\ document.schema = 0

\* The only version 0 document there is, apart from a backup, is the original.
OnlyOriginal ==
  /\ IsLegacy(file) => file = origin
  /\ \A p \in Procs : ~IsLegacy(staged[p])
  /\ \A p \in Procs : IsLegacy(aside[p]) => aside[p] = origin

\* Who migrates has read the original.
MigratesOriginal ==
  \A p \in Procs : pc[p] \in {"backup", "create", "fill", "sync"} =>
    IsLegacy(origin) /\ items[p] = origin.items

\* Only one process makes the backup: it is torn until that one has written it,
\* and complete from then on.
OneFills ==
  \A p \in Procs : pc[p] \in {"fill", "sync"} =>
    /\ backup = IF pc[p] = "fill" THEN Torn ELSE origin
    /\ \A q \in Procs \ {p} : pc[q] \notin {"fill", "sync"}

\* Whoever has come as far as writing a document has seen the backup complete,
\* or the file replaced after that; and it is still there unless its maker has
\* taken it away from under them.
BackedUp ==
  ~undone /\ IsLegacy(origin) =>
    \A p \in Procs : pc[p] \in {"stage", "aside", "swap", "clean"} => backup = origin

\* With a newer document there, no operation gets beyond reading it.
NoneGoesOn == origin = Newer => \A p \in Procs : pc[p] = "idle"

IInv ==
  /\ TypeOK /\ LegacyKept /\ NewerUntouched
  /\ OnlyOriginal /\ MigratesOriginal /\ OneFills /\ BackedUp /\ NoneGoesOn
-----------------------------------------------------------------------------
(* The inductive invariant behind TargetsRecoverable. *)

Listed(document) == IF document = None THEN {} ELSE document.items

\* What is listed now, or in a file that was moved aside and left behind.
Stored == Listed(file) \cup UNION {Listed(document) : document \in litter}

\* Operations that do not overlap are under way one at a time.
OneAtWork == ~overlap =>
  \A p, q \in Procs : pc[p] # "idle" /\ pc[q] # "idle" => p = q

\* A file is moved aside only as long as another is about to replace it.
AsideInSwap == \A p \in Procs : pc[p] \notin {"swap", "clean"} => aside[p] = None

\* Every target that is configured is stored, or moved aside at the moment.
KeptStored == ~overlap =>
  \A id \in kept :
    id \in Stored \/ \E p \in Procs : pc[p] = "swap" /\ id \in Listed(aside[p])

\* The list process p will write has what the operation leaves of list.
Continues(p, list) ==
  IF p \in migrating THEN list \subseteq items[p]
  ELSE IF op[p].kind = "put" THEN list \cup {op[p].id} \subseteq items[p]
  ELSE list \ {op[p].id} \subseteq items[p]

\* What a process has read is still what the file says, wherever that is.
ReadIsCurrent == ~overlap =>
  \A p \in Procs :
    /\ pc[p] \in {"backup", "create", "fill", "sync"} =>
         p \in migrating /\ Listed(file) \subseteq items[p]
    /\ pc[p] \in {"stage", "aside"} => Continues(p, Listed(file))
    /\ pc[p] = "swap" => file = None /\ Continues(p, Listed(aside[p]))
    /\ pc[p] \in {"aside", "swap"} => staged[p] = Current(items[p])
    /\ pc[p] = "clean" /\ p \in migrating => Listed(file) \subseteq items[p]

RInv == TypeOK /\ OneAtWork /\ AsideInSwap /\ KeptStored /\ ReadIsCurrent

-----------------------------------------------------------------------------
(* Types *)

\* Any document, or none, nobody at work: the initial state has its type.
LEMMA TypeInit == Init => TypeOK
<1> SUFFICES ASSUME Init PROVE TypeOK
  OBVIOUS
<1>1. Idle \in Operations
  BY DEF Idle, Operations
<1>2. kept \subseteq Ids
  BY DEF Init, Documents, Newer
<1>3. op \in [Procs -> Operations]
  BY <1>1 DEF Init
<1>4. crashes \in 0..MaxCrashes /\ failures \in 0..MaxFailures
  BY BoundsAssumption DEF Init
<1> QED
  BY <1>2, <1>3, <1>4 DEF Init, TypeOK

\* Return leaves an idle process with an empty list.
LEMMA ReturnType ==
  ASSUME TypeOK, NEW p \in Procs, Return(p)
  PROVE  /\ staged' \in [Procs -> Documents \cup {None}]
         /\ pc' \in [Procs -> {"idle", "backup", "create", "fill", "sync", "stage",
                               "aside", "swap", "clean"}]
         /\ op' \in [Procs -> Operations]
         /\ items' \in [Procs -> SUBSET Ids]
         /\ migrating' \subseteq Procs
BY DEF TypeOK, Return, Goto, Idle, Operations

\* So does Change for an operation on a list of targets, or it goes on.
LEMMA ChangeType ==
  ASSUME TypeOK, NEW p \in Procs, NEW o \in Operations, NEW list \in SUBSET Ids,
         Change(p, o, list)
  PROVE  /\ staged' \in [Procs -> Documents \cup {None}]
         /\ pc' \in [Procs -> {"idle", "backup", "create", "fill", "sync", "stage",
                               "aside", "swap", "clean"}]
         /\ op' \in [Procs -> Operations]
         /\ items' \in [Procs -> SUBSET Ids]
         /\ migrating' \subseteq Procs
<1>1. CASE o.kind = "list" \/ (o.kind = "remove" /\ o.id \notin list)
  BY <1>1, ReturnType DEF Change
<1>2. CASE ~(o.kind = "list" \/ (o.kind = "remove" /\ o.id \notin list))
  <2>1. o.kind = "put" => o.id \in Ids
    BY DEF Operations
  <2> QED
    BY <1>2, <2>1 DEF Change, TypeOK, Goto
<1> QED
  BY <1>1, <1>2

\* Every step of an operation, and a crash, keeps the types.
LEMMA TypeStep == TypeOK /\ [Next]_vars => TypeOK'
<1> SUFFICES ASSUME TypeOK, [Next]_vars PROVE TypeOK'
  OBVIOUS
<1> USE NoneAssumption, BoundsAssumption
<1>1. ASSUME NEW p \in Procs, NEW o \in Operations, ReadList(p, o) PROVE TypeOK'
  <2>1. overlap' \in BOOLEAN /\ kept' \subseteq Ids
    BY <1>1 DEF ReadList, Observe, TypeOK
  <2>2. CASE Change(p, o, {})
    BY <1>1, <2>1, <2>2, ChangeType DEF ReadList, TypeOK, budgets
  <2>3. CASE file # None /\ file.schema = 1 /\ Change(p, o, file.items)
    <3>1. file.items \in SUBSET Ids
      BY <2>3 DEF TypeOK, Documents, Newer
    <3> QED
      BY <1>1, <2>1, <2>3, <3>1, ChangeType DEF ReadList, TypeOK, budgets
  <2>4. CASE Return(p)
    BY <1>1, <2>1, <2>4, ReturnType DEF ReadList, TypeOK, budgets
  <2>5. CASE /\ file # None
             /\ file.schema = 0
             /\ items' = [items EXCEPT ![p] = file.items]
             /\ migrating' = migrating \cup {p}
             /\ Goto(p, "backup")
             /\ UNCHANGED <<staged, op>>
    <3>1. file.items \in SUBSET Ids
      BY <2>5 DEF TypeOK, Documents, Newer
    <3> QED
      BY <1>1, <2>1, <2>5, <3>1 DEF ReadList, TypeOK, budgets, Goto
  <2> QED
    BY <1>1, <2>2, <2>3, <2>4, <2>5 DEF ReadList
<1>2. ASSUME NEW p \in Procs, ReadBackup(p) PROVE TypeOK'
  BY <1>2, ReturnType DEF ReadBackup, TypeOK, Goto, budgets, observed
<1>3. ASSUME NEW p \in Procs, CreateBackup(p) PROVE TypeOK'
  BY <1>3, ReturnType DEF CreateBackup, TypeOK, Goto, budgets, observed
<1>4. ASSUME NEW p \in Procs, FillBackup(p) PROVE TypeOK'
  <2>1. Legacy(items[p]) \in Documents
    BY DEF TypeOK, Legacy, Documents
  <2> QED
    BY <1>4, <2>1 DEF FillBackup, TypeOK, Goto, budgets, observed
<1>5. ASSUME NEW p \in Procs, FillFails(p) PROVE TypeOK'
  BY <1>5, ReturnType DEF FillFails, TypeOK
<1>6. ASSUME NEW p \in Procs, Stage(p) PROVE TypeOK'
  <2>1. Current(items[p]) \in Documents
    BY DEF TypeOK, Current, Documents
  <2> QED
    BY <1>6, <2>1 DEF Stage, TypeOK, Goto, budgets, observed
<1>7. ASSUME NEW p \in Procs, StepFails(p) PROVE TypeOK'
  BY <1>7, ReturnType DEF StepFails, TypeOK, observed
<1>8. ASSUME NEW p \in Procs, MoveAside(p) PROVE TypeOK'
  BY <1>8, ReturnType DEF MoveAside, TypeOK, Goto, budgets, observed
<1>9. ASSUME NEW p \in Procs, Swap(p) PROVE TypeOK'
  <2>1. op[p].kind = "put" => op[p].id \in Ids
    BY DEF TypeOK, Operations
  <2>2. kept' \subseteq Ids
    BY <1>9, <2>1 DEF Swap, TypeOK
  <2>3. op' \in [Procs -> Operations] /\ items' \in [Procs -> SUBSET Ids]
    BY <1>9 DEF Swap, TypeOK, Idle, Operations
  <2> QED
    BY <1>9, <2>2, <2>3 DEF Swap, TypeOK, Goto, budgets
<1>10. ASSUME NEW p \in Procs, SwapFails(p) PROVE TypeOK'
  BY <1>10, ReturnType DEF SwapFails, TypeOK, observed
<1>11. ASSUME NEW p \in Procs, Clean(p) PROVE TypeOK'
  <2>1. CASE p \in migrating
    <3>1. PICK o \in Operations : Change(p, o, items[p])
      BY <1>11, <2>1 DEF Clean
    <3> QED
      BY <1>11, <3>1, ChangeType DEF Clean, TypeOK, budgets, observed
  <2>2. CASE p \notin migrating
    BY <1>11, <2>2, ReturnType DEF Clean, TypeOK, budgets, observed
  <2> QED
    BY <2>1, <2>2
<1>12. ASSUME NEW p \in Procs, Crash(p) PROVE TypeOK'
  BY <1>12, ReturnType DEF Crash, TypeOK, observed
<1>14. ASSUME NEW p \in Procs, SyncBackup(p) PROVE TypeOK'
  BY <1>14 DEF SyncBackup, TypeOK, Goto, files, budgets, observed
<1>13. ASSUME UNCHANGED vars PROVE TypeOK'
  BY <1>13 DEF vars, files, procs, budgets, observed, TypeOK
<1> QED
  BY <1>1, <1>2, <1>3, <1>4, <1>5, <1>6, <1>7, <1>8, <1>9, <1>10, <1>11, <1>12,
     <1>13, <1>14 DEF Next, atomicReplace

\* Whatever the processes do, files and lists are what their types say.
THEOREM TypeCorrect == Spec => []TypeOK
BY TypeInit, TypeStep, PTL DEF Spec

-----------------------------------------------------------------------------
(* The original and newer documents *)

\* What tells the kinds of documents apart.
LEMMA Kinds ==
  /\ \A d \in Documents : d.schema = 2 <=> d = Newer
  /\ \A d \in Documents : d.schema = 0 => d = Legacy(d.items)
  /\ \A list : Current(list).schema = 1 /\ Legacy(list).schema = 0
  /\ Torn \notin Documents /\ Torn # None
<1>1. \A d \in Documents : d.schema = 2 <=> d = Newer
  BY DEF Documents, Newer
<1>2. \A d \in Documents : d.schema = 0 => d = Legacy(d.items)
  BY DEF Documents, Newer, Legacy
<1>3. \A list : Current(list).schema = 1 /\ Legacy(list).schema = 0
  BY DEF Current, Legacy
<1>4. Torn \notin Documents /\ Torn # None
  BY NoneAssumption DEF Documents, Newer, Torn
<1> QED
  BY <1>1, <1>2, <1>3, <1>4

\* At the beginning the file is the original and nobody is at work.
LEMMA InvInit == Init => IInv
BY TypeInit DEF Init, IInv, LegacyKept, NewerUntouched, OnlyOriginal,
  MigratesOriginal, OneFills, BackedUp, NoneGoesOn, IsLegacy

\* The invariant survives every step: a process that writes a document over the
\* original has its backup, because it made or found one, or because it has
\* read a document that replaced the original.
LEMMA InvStep == IInv /\ [Next]_vars => IInv'
<1> SUFFICES ASSUME IInv, [Next]_vars PROVE IInv'
  OBVIOUS
<1>0. TypeOK /\ TypeOK'
  BY TypeStep DEF IInv
<1> USE <1>0, NoneAssumption, Kinds
    DEF IInv, LegacyKept, NewerUntouched, OnlyOriginal, MigratesOriginal,
        OneFills, BackedUp, NoneGoesOn, IsLegacy
<1>1. ASSUME NEW p \in Procs, NEW o \in Operations, ReadList(p, o) PROVE IInv'
  <2>1. CASE file = None \/ (file # None /\ file.schema = 1)
    <3>1. file # origin \/ ~IsLegacy(origin)
      BY <2>1
    <3>2. pc'[p] \in {"idle", "stage"} /\ \A q \in Procs \ {p} : pc'[q] = pc[q]
      BY <1>1, <2>1 DEF ReadList, Change, Return, Goto, TypeOK, Newer
    <3>3. \A q \in Procs \ {p} : items'[q] = items[q]
      BY <1>1, <2>1 DEF ReadList, Change, Return, Goto, TypeOK, Newer
    <3>4. UNCHANGED <<file, backup, aside, origin, undone>>
      BY <1>1 DEF ReadList
    <3>5. file # Newer
      BY <2>1 DEF Newer, Documents
    <3>6. \A q \in Procs : ~IsLegacy(staged'[q])
      BY <1>1, <2>1 DEF ReadList, Change, Return, TypeOK, Newer
    <3>7. OnlyOriginal' /\ LegacyKept' /\ NewerUntouched'
      BY <3>4, <3>6
    <3>8. MigratesOriginal' /\ OneFills'
      BY <3>2, <3>3, <3>4
    <3>9. BackedUp' /\ NoneGoesOn'
      BY <3>1, <3>2, <3>4, <3>5
    <3> QED
      BY <3>7, <3>8, <3>9
  <2>2. CASE file = Newer
    <3>1. Return(p)
      BY <1>1, <2>2 DEF ReadList, Newer, Documents
    <3> QED
      BY <1>1, <2>2, <3>1 DEF ReadList, Return, Goto, TypeOK
  <2>3. CASE IsLegacy(file)
    <3>1. /\ items' = [items EXCEPT ![p] = file.items]
          /\ Goto(p, "backup")
      BY <1>1, <2>3 DEF ReadList, Newer
    <3>2. file = origin /\ origin # Newer
      BY <2>3 DEF Newer
    <3> QED
      BY <1>1, <2>3, <3>1, <3>2 DEF ReadList, Goto, TypeOK
  <2> QED
    BY <2>1, <2>2, <2>3 DEF TypeOK, Documents
<1>2. ASSUME NEW p \in Procs, ReadBackup(p) PROVE IInv'
  BY <1>2 DEF ReadBackup, Return, Goto, TypeOK, observed
<1>3. ASSUME NEW p \in Procs, CreateBackup(p) PROVE IInv'
  BY <1>3 DEF CreateBackup, Return, Goto, TypeOK, observed
<1>4. ASSUME NEW p \in Procs, FillBackup(p) PROVE IInv'
  <2>1. Legacy(items[p]) = origin
    BY <1>4 DEF FillBackup, TypeOK
  <2> QED
    BY <1>4, <2>1 DEF FillBackup, Goto, TypeOK, observed
<1>14. ASSUME NEW p \in Procs, SyncBackup(p) PROVE IInv'
  BY <1>14 DEF SyncBackup, Goto, TypeOK, files, observed
<1>5. ASSUME NEW p \in Procs, FillFails(p) PROVE IInv'
  <2>1. /\ pc[p] \in {"fill", "sync"} /\ pc' = [pc EXCEPT ![p] = "idle"]
        /\ backup' = None /\ undone' = (undone \/ (pc[p] = "sync" /\ Used(p)))
        /\ staged' = [staged EXCEPT ![p] = None]
        /\ items' = [items EXCEPT ![p] = {}]
        /\ UNCHANGED <<file, aside, origin>>
    BY <1>5 DEF FillFails, Return, Goto
  <2>2. IsLegacy(origin)
    BY <2>1
  <2>3. CASE pc[p] = "sync" /\ Used(p)
    <3>1. undone' /\ OnlyOriginal' /\ NewerUntouched'
      BY <2>1, <2>3 DEF TypeOK
    <3>2. MigratesOriginal' /\ OneFills' /\ NoneGoesOn'
      BY <2>1 DEF TypeOK
    <3> QED
      BY <3>1, <3>2
  <2>4. CASE pc[p] = "sync" /\ ~Used(p)
    BY <2>1, <2>4 DEF TypeOK, Used
  <2>5. CASE pc[p] = "fill"
    <3>1. backup # origin
      BY <2>5 DEF TypeOK
    <3> QED
      BY <2>1, <2>2, <2>5, <3>1 DEF TypeOK
  <2> QED
    BY <2>1, <2>3, <2>4, <2>5
<1>6. ASSUME NEW p \in Procs, Stage(p) PROVE IInv'
  BY <1>6 DEF Stage, Goto, TypeOK, observed
<1>7. ASSUME NEW p \in Procs, StepFails(p) PROVE IInv'
  BY <1>7 DEF StepFails, Return, Goto, TypeOK, observed
<1>8. ASSUME NEW p \in Procs, MoveAside(p) PROVE IInv'
  BY <1>8 DEF MoveAside, Return, Goto, TypeOK, observed
<1>9. ASSUME NEW p \in Procs, Swap(p) PROVE IInv'
  <2>1. pc[p] = "swap" /\ pc' = [pc EXCEPT ![p] = "clean"]
    BY <1>9 DEF Swap, Goto
  <2>2. /\ file' = staged[p] /\ backup' = backup /\ aside' = aside
        /\ origin' = origin /\ \A q \in Procs \ {p} : items'[q] = items[q]
    BY <1>9 DEF Swap, TypeOK
  <2>3. ~IsLegacy(staged[p])
    OBVIOUS
  <2>4. origin # Newer
    BY <2>1
  <2>5. OnlyOriginal'
    <3>1. \A q \in Procs : ~IsLegacy(staged'[q])
      BY <1>9 DEF Swap, TypeOK
    <3> QED
      BY <2>2, <2>3, <3>1
  <2>6. ~undone' /\ IsLegacy(origin) => backup = origin
    BY <1>9, <2>1 DEF Swap
  <2>7. LegacyKept' /\ NewerUntouched' /\ NoneGoesOn'
    BY <2>2, <2>4, <2>6
  <2>8. MigratesOriginal' /\ OneFills' /\ BackedUp'
    BY <2>1, <2>2, <2>6 DEF TypeOK
  <2> QED
    BY <2>5, <2>7, <2>8
<1>10. ASSUME NEW p \in Procs, SwapFails(p) PROVE IInv'
  BY <1>10 DEF SwapFails, Return, Goto, TypeOK, observed
<1>11. ASSUME NEW p \in Procs, Clean(p) PROVE IInv'
  BY <1>11 DEF Clean, Change, Return, Goto, TypeOK, observed
<1>12. ASSUME NEW p \in Procs, Crash(p) PROVE IInv'
  BY <1>12 DEF Crash, Return, Goto, TypeOK, observed
<1>13. ASSUME UNCHANGED vars PROVE IInv'
  BY <1>13 DEF vars, files, procs, observed
<1> QED
  BY <1>1, <1>2, <1>3, <1>4, <1>5, <1>6, <1>7, <1>8, <1>9, <1>10, <1>11, <1>12,
     <1>13, <1>14 DEF Next, atomicReplace

\* The inductive invariant holds in every reachable state.
THEOREM Invariance == Spec => []IInv
BY InvInit, InvStep, PTL DEF Spec

\* A version 0 target list is in its place or completely backed up, unless the
\* maker of the backup could not sync it and took it away after another process
\* had gone on with it (migrate, writeExclusive).
THEOREM OriginalKept == Spec => []LegacyKept
<1>1. IInv => LegacyKept
  BY DEF IInv
<1> QED
  BY <1>1, Invariance, PTL

\* A target list of a newer version is never touched.
THEOREM NewerKept == Spec => []NewerUntouched
<1>1. IInv => NewerUntouched
  BY DEF IInv
<1> QED
  BY <1>1, Invariance, PTL
-----------------------------------------------------------------------------
(* Targets that were configured *)

\* Return and Change move no document aside; the process is idle, or is about
\* to write what it has read with its change.
LEMMA ChangeContinues ==
  ASSUME TypeOK, NEW p \in Procs, NEW o \in Operations, NEW list \in SUBSET Ids,
         NEW old, old \subseteq list, Change(p, o, list)
  PROVE  /\ \A q \in Procs \ {p} : /\ pc'[q] = pc[q] /\ op'[q] = op[q] /\ items'[q] = items[q]
                                   /\ staged'[q] = staged[q]
                                   /\ q \in migrating' <=> q \in migrating
         /\ pc'[p] \in {"idle", "stage"}
         /\ pc'[p] = "stage" => Continues(p, old)'
<1>1. CASE Return(p)
  BY <1>1 DEF Return, Goto, TypeOK
<1>2. CASE ~(o.kind = "list" \/ (o.kind = "remove" /\ o.id \notin list))
  <2>1. /\ pc' = [pc EXCEPT ![p] = "stage"] /\ op' = [op EXCEPT ![p] = o]
        /\ items' = [items EXCEPT ![p] =
             IF o.kind = "put" THEN list \cup {o.id} ELSE list \ {o.id}]
        /\ migrating' = migrating \ {p} /\ staged' = staged
    BY <1>2 DEF Change, Goto
  <2>2. op'[p] = o /\ p \notin migrating'
    BY <2>1 DEF TypeOK
  <2>3. items'[p] = IF o.kind = "put" THEN list \cup {o.id} ELSE list \ {o.id}
    BY <2>1 DEF TypeOK
  <2>4. IF o.kind = "put" THEN old \cup {o.id} \subseteq items'[p]
        ELSE old \ {o.id} \subseteq items'[p]
    BY <2>3
  <2>5. \A q \in Procs \ {p} : /\ pc'[q] = pc[q] /\ op'[q] = op[q] /\ items'[q] = items[q]
                               /\ staged'[q] = staged[q]
                               /\ q \in migrating' <=> q \in migrating
    BY <2>1 DEF TypeOK
  <2>6. pc'[p] = "stage"
    BY <2>1 DEF TypeOK
  <2> QED
    BY <2>2, <2>4, <2>5, <2>6 DEF Continues
<1> QED
  BY <1>1, <1>2 DEF Change

\* The first file lists every target, and nobody is at work.
LEMMA RecoverInit == Init => RInv
BY TypeInit DEF Init, RInv, OneAtWork, AsideInSwap, KeptStored, ReadIsCurrent,
  Stored, Listed

\* A process that returns from a step that changes no document.
LEMMA RecoverReturn ==
  ASSUME RInv, TypeOK', NEW p \in Procs, Return(p), pc[p] # "swap", pc[p] # "clean",
         file' = file, aside' = aside, litter' = litter, kept' = kept, overlap' = overlap
  PROVE  RInv'
<1>1. \A q \in Procs \ {p} : /\ pc'[q] = pc[q] /\ op'[q] = op[q] /\ items'[q] = items[q]
                             /\ staged'[q] = staged[q]
                             /\ q \in migrating' <=> q \in migrating
  BY DEF Return, Goto, RInv, TypeOK
<1>2. pc'[p] = "idle"
  BY DEF Return, Goto, RInv, TypeOK
<1>3. OneAtWork' /\ AsideInSwap' /\ KeptStored'
  BY <1>1, <1>2 DEF RInv, OneAtWork, AsideInSwap, KeptStored, Stored, Listed
<1>4. ReadIsCurrent'
  BY <1>1, <1>2 DEF RInv, ReadIsCurrent, Continues, Listed
<1> QED
  BY <1>3, <1>4 DEF RInv

\* The invariant survives every step.  What is moved aside or written over is
\* listed in the document that takes its place, but for the target to remove.
LEMMA RecoverStep == RInv /\ [Next]_vars => RInv'
<1> SUFFICES ASSUME RInv, [Next]_vars PROVE RInv'
  OBVIOUS
<1>0. TypeOK /\ TypeOK'
  BY TypeStep DEF RInv
<1> USE <1>0, NoneAssumption
<1>1. ASSUME NEW p \in Procs, NEW o \in Operations, ReadList(p, o) PROVE RInv'
  <2>1. /\ pc[p] = "idle" /\ aside[p] = None
        /\ file' = file /\ aside' = aside /\ litter' = litter
    BY <1>1 DEF ReadList, RInv, AsideInSwap
  <2>2. /\ overlap' => kept' = {}
        /\ ~overlap' => /\ ~overlap /\ kept' = kept
                        /\ \A q \in Procs : pc[q] = "idle"
    BY <1>1 DEF ReadList, Observe, TypeOK
  <2>3. /\ \A q \in Procs \ {p} : pc'[q] = pc[q]
        /\ pc'[p] \in {"idle", "stage", "backup"}
        /\ pc'[p] = "stage" => Continues(p, Listed(file))'
        /\ pc'[p] = "backup" => p \in migrating' /\ Listed(file) \subseteq items'[p]
    <3>1. CASE file = None /\ Change(p, o, {})
      BY <2>1, <3>1, ChangeContinues DEF Listed
    <3>2. CASE file # None /\ file.schema = 1 /\ Change(p, o, file.items)
      <4>1. Listed(file) = file.items /\ file.items \in SUBSET Ids
        BY <3>2 DEF Listed, TypeOK, Documents, Newer
      <4>2. Listed(file)' = Listed(file)
        BY <2>1 DEF Listed
      <4>3. /\ \A q \in Procs \ {p} : pc'[q] = pc[q]
            /\ pc'[p] \in {"idle", "stage"}
            /\ pc'[p] = "stage" => Continues(p, Listed(file))'
        BY <3>2, <4>1, <4>2, ChangeContinues
      <4> QED
        BY <4>3
    <3>3. CASE Return(p)
      BY <3>3 DEF Return, Goto, TypeOK
    <3>4. CASE /\ file # None /\ file.schema = 0
               /\ items' = [items EXCEPT ![p] = file.items]
               /\ migrating' = migrating \cup {p}
               /\ Goto(p, "backup")
      BY <3>4 DEF Goto, TypeOK, Listed
    <3> QED
      BY <1>1, <3>1, <3>2, <3>3, <3>4 DEF ReadList
  <2>4. OneAtWork' /\ AsideInSwap'
    BY <2>1, <2>2, <2>3 DEF RInv, OneAtWork, AsideInSwap
  <2>5. KeptStored'
    BY <2>1, <2>2, <2>3 DEF RInv, KeptStored, Stored, Listed
  <2>6. ReadIsCurrent'
    <3>1. ~overlap' => \A q \in Procs \ {p} : pc'[q] = "idle"
      BY <2>2, <2>3
    <3>2. Listed(file)' = Listed(file)
      BY <2>1 DEF Listed
    <3> QED
      BY <2>3, <3>1, <3>2 DEF ReadIsCurrent
  <2> QED
    BY <2>4, <2>5, <2>6 DEF RInv
<1>2. ASSUME NEW p \in Procs, ReadBackup(p) PROVE RInv'
  <2>1. CASE Return(p)
    BY <1>2, <2>1, RecoverReturn DEF ReadBackup, observed
  <2>2. CASE ~Return(p)
    <3>1. /\ pc' \in {[pc EXCEPT ![p] = "create"], [pc EXCEPT ![p] = "stage"]}
          /\ pc[p] = "backup"
          /\ UNCHANGED <<staged, op, items, migrating, file, aside, litter, kept, overlap>>
      BY <1>2, <2>2 DEF ReadBackup, Goto, observed
    <3>2. OneAtWork' /\ AsideInSwap' /\ KeptStored'
      BY <3>1 DEF RInv, TypeOK, OneAtWork, AsideInSwap, KeptStored, Stored, Listed
    <3>3. ReadIsCurrent'
      BY <3>1 DEF RInv, TypeOK, ReadIsCurrent, Continues, Listed
    <3> QED
      BY <3>2, <3>3 DEF RInv
  <2> QED
    BY <2>1, <2>2
<1>3. ASSUME NEW p \in Procs, CreateBackup(p) PROVE RInv'
  <2>1. CASE Return(p)
    BY <1>3, <2>1, RecoverReturn DEF CreateBackup, observed
  <2>2. CASE ~Return(p)
    <3>1. /\ pc' = [pc EXCEPT ![p] = "fill"] /\ pc[p] = "create"
          /\ UNCHANGED <<staged, op, items, migrating, file, aside, litter, kept, overlap>>
      BY <1>3, <2>2 DEF CreateBackup, Goto, observed
    <3>2. OneAtWork' /\ AsideInSwap' /\ KeptStored'
      BY <3>1 DEF RInv, TypeOK, OneAtWork, AsideInSwap, KeptStored, Stored, Listed
    <3>3. ReadIsCurrent'
      BY <3>1 DEF RInv, TypeOK, ReadIsCurrent, Continues, Listed
    <3> QED
      BY <3>2, <3>3 DEF RInv
  <2> QED
    BY <2>1, <2>2
<1>4. ASSUME NEW p \in Procs, FillBackup(p) PROVE RInv'
  <2>1. /\ pc' = [pc EXCEPT ![p] = "sync"] /\ pc[p] = "fill"
        /\ UNCHANGED <<staged, op, items, migrating, file, aside, litter, kept, overlap>>
    BY <1>4 DEF FillBackup, Goto, observed
  <2>2. OneAtWork' /\ AsideInSwap' /\ KeptStored'
    BY <2>1 DEF RInv, TypeOK, OneAtWork, AsideInSwap, KeptStored, Stored, Listed
  <2>3. ReadIsCurrent'
    BY <2>1 DEF RInv, TypeOK, ReadIsCurrent, Continues, Listed
  <2> QED
    BY <2>2, <2>3 DEF RInv
<1>5. ASSUME NEW p \in Procs, FillFails(p) PROVE RInv'
  BY <1>5, RecoverReturn DEF FillFails
<1>14. ASSUME NEW p \in Procs, SyncBackup(p) PROVE RInv'
  <2>1. /\ pc' = [pc EXCEPT ![p] = "stage"] /\ pc[p] = "sync"
        /\ UNCHANGED <<staged, op, items, migrating, file, aside, litter, kept, overlap>>
    BY <1>14 DEF SyncBackup, Goto, files, observed
  <2>2. OneAtWork' /\ AsideInSwap' /\ KeptStored'
    BY <2>1 DEF RInv, TypeOK, OneAtWork, AsideInSwap, KeptStored, Stored, Listed
  <2>3. ReadIsCurrent'
    BY <2>1 DEF RInv, TypeOK, ReadIsCurrent, Continues, Listed
  <2> QED
    BY <2>2, <2>3 DEF RInv
<1>6. ASSUME NEW p \in Procs, Stage(p) PROVE RInv'
  <2>1. /\ pc[p] = "stage"
        /\ pc' = [pc EXCEPT ![p] = IF file = None THEN "swap" ELSE "aside"]
        /\ staged' = [staged EXCEPT ![p] = Current(items[p])]
        /\ UNCHANGED <<op, items, migrating, file, aside, litter, kept, overlap>>
    BY <1>6 DEF Stage, Goto, observed
  <2>2. aside[p] = None
    BY <2>1 DEF RInv, AsideInSwap
  <2>3. OneAtWork' /\ AsideInSwap' /\ KeptStored'
    BY <2>1 DEF RInv, TypeOK, OneAtWork, AsideInSwap, KeptStored, Stored, Listed
  <2>4. ReadIsCurrent'
    BY <2>1, <2>2 DEF RInv, TypeOK, ReadIsCurrent, Continues, Listed
  <2> QED
    BY <2>3, <2>4 DEF RInv
<1>7. ASSUME NEW p \in Procs, StepFails(p) PROVE RInv'
  BY <1>7, RecoverReturn DEF StepFails, observed
<1>8. ASSUME NEW p \in Procs, MoveAside(p) PROVE RInv'
  <2>1. CASE file = None
    BY <1>8, <2>1, RecoverReturn DEF MoveAside, observed
  <2>2. CASE file # None
    <3>1. /\ pc[p] = "aside" /\ pc' = [pc EXCEPT ![p] = "swap"]
          /\ aside' = [aside EXCEPT ![p] = file] /\ file' = None
          /\ UNCHANGED <<staged, op, items, migrating, litter, kept, overlap>>
      BY <1>8, <2>2 DEF MoveAside, Goto, observed
    <3>2. pc'[p] = "swap" /\ aside'[p] = file
      BY <3>1 DEF TypeOK
    <3>3. \A q \in Procs \ {p} : pc'[q] = pc[q] /\ aside'[q] = aside[q]
      BY <3>1 DEF TypeOK
    <3>4. OneAtWork' /\ AsideInSwap'
      BY <3>1, <3>2, <3>3 DEF RInv, OneAtWork, AsideInSwap
    <3>5. KeptStored'
      BY <3>1, <3>2, <3>3 DEF RInv, KeptStored, Stored, Listed
    <3>6. ReadIsCurrent'
      <4>1. ~overlap => \A q \in Procs \ {p} : pc[q] = "idle"
        BY <3>1 DEF RInv, OneAtWork
      <4> QED
        BY <3>1, <3>2, <3>3, <4>1 DEF RInv, ReadIsCurrent, Continues, Listed
    <3> QED
      BY <3>4, <3>5, <3>6 DEF RInv
  <2> QED
    BY <2>1, <2>2
<1>9. ASSUME NEW p \in Procs, Swap(p) PROVE RInv'
  <2>1. /\ pc[p] = "swap" /\ pc' = [pc EXCEPT ![p] = "clean"]
        /\ file' = staged[p]
        /\ staged' = [staged EXCEPT ![p] = None]
        /\ kept' = IF p \in migrating \/ overlap THEN kept
                   ELSE IF op[p].kind = "put" THEN kept \cup {op[p].id} ELSE kept \ {op[p].id}
        /\ items' = IF p \in migrating THEN items ELSE [items EXCEPT ![p] = {}]
        /\ UNCHANGED <<aside, litter, migrating, overlap>>
    BY <1>9 DEF Swap, Goto
  <2>2. pc'[p] = "clean" /\ \A q \in Procs \ {p} : pc'[q] = pc[q]
    BY <2>1 DEF TypeOK
  <2>3. OneAtWork' /\ AsideInSwap'
    BY <2>1, <2>2 DEF RInv, OneAtWork, AsideInSwap
  <2>4. ASSUME ~overlap
        PROVE  /\ \A q \in Procs \ {p} : pc[q] = "idle"
               /\ file = None /\ Continues(p, Listed(aside[p]))
               /\ Listed(file') = items[p]
    <3>1. Current(items[p]) # None /\ Current(items[p]).items = items[p]
      BY NoneAssumption DEF Current, TypeOK, Documents
    <3> QED
      BY <2>1, <2>4, <3>1 DEF RInv, OneAtWork, ReadIsCurrent, Listed
  <2>5. KeptStored'
    <3> SUFFICES ASSUME ~overlap, NEW id \in kept' PROVE id \in Stored'
      BY <2>1 DEF KeptStored
    <3>1. id \in items[p] => id \in Stored'
      BY <2>4 DEF Stored, Listed
    <3>2. CASE id \notin kept
      BY <2>1, <2>4, <3>1, <3>2 DEF Continues
    <3>3. CASE id \in kept
      <4>1. id \in Stored \/ id \in Listed(aside[p])
        BY <2>4, <3>3 DEF RInv, KeptStored
      <4>2. CASE id \in Listed(aside[p])
        BY <2>1, <2>4, <3>1, <4>2 DEF Continues
      <4>3. CASE id \in Stored
        BY <2>1, <2>4, <4>3 DEF Stored, Listed
      <4> QED
        BY <4>1, <4>2, <4>3
    <3> QED
      BY <3>2, <3>3
  <2>6. ReadIsCurrent'
    <3>1. p \in migrating => items'[p] = items[p]
      BY <2>1
    <3> QED
      BY <2>1, <2>2, <2>4, <3>1 DEF ReadIsCurrent, Listed
  <2> QED
    BY <2>3, <2>5, <2>6 DEF RInv
<1>10. ASSUME NEW p \in Procs, SwapFails(p) PROVE RInv'
  <2>1. /\ pc[p] = "swap" /\ pc' = [pc EXCEPT ![p] = "idle"]
        /\ file' = IF aside[p] = None THEN file ELSE aside[p]
        /\ aside' = [aside EXCEPT ![p] = None]
        /\ UNCHANGED <<litter, kept, overlap>>
    BY <1>10 DEF SwapFails, Return, Goto, observed
  <2>2. /\ pc'[p] = "idle" /\ \A q \in Procs \ {p} : pc'[q] = pc[q]
        /\ aside'[p] = None /\ \A q \in Procs \ {p} : aside'[q] = aside[q]
    BY <2>1 DEF TypeOK
  <2>3. OneAtWork' /\ AsideInSwap'
    BY <2>1, <2>2 DEF RInv, OneAtWork, AsideInSwap
  <2>4. ~overlap => file = None /\ \A q \in Procs \ {p} : pc[q] = "idle"
    BY <2>1 DEF RInv, OneAtWork, ReadIsCurrent
  <2>5. KeptStored'
    BY <2>1, <2>2, <2>4 DEF RInv, KeptStored, Stored, Listed
  <2>6. ReadIsCurrent'
    BY <2>1, <2>2, <2>4 DEF ReadIsCurrent
  <2> QED
    BY <2>3, <2>5, <2>6 DEF RInv
<1>11. ASSUME NEW p \in Procs, Clean(p) PROVE RInv'
  <2>1. /\ pc[p] = "clean" /\ aside' = [aside EXCEPT ![p] = None]
        /\ UNCHANGED <<file, litter, kept, overlap>>
    BY <1>11 DEF Clean, observed
  <2>2. ~overlap => \A q \in Procs \ {p} : pc[q] = "idle"
    BY <2>1 DEF RInv, OneAtWork
  <2>3. /\ \A q \in Procs \ {p} : pc'[q] = pc[q]
        /\ pc'[p] \in {"idle", "stage"}
        /\ ~overlap /\ pc'[p] = "stage" => Continues(p, Listed(file))'
    <3>1. CASE Return(p)
      BY <3>1 DEF Return, Goto, TypeOK
    <3>2. ASSUME NEW o \in Operations, p \in migrating, Change(p, o, items[p])
          PROVE  /\ \A q \in Procs \ {p} : pc'[q] = pc[q]
                 /\ pc'[p] \in {"idle", "stage"}
                 /\ ~overlap /\ pc'[p] = "stage" => Continues(p, Listed(file))'
      <4>1. items[p] \in SUBSET Ids
        BY DEF TypeOK
      <4>2. CASE overlap
        BY <3>2, <4>1, <4>2, ChangeContinues
      <4>3. CASE ~overlap
        <5>1. Listed(file) \subseteq items[p] /\ Listed(file)' = Listed(file)
          BY <2>1, <3>2, <4>3 DEF RInv, ReadIsCurrent, Listed
        <5>2. /\ \A q \in Procs \ {p} : pc'[q] = pc[q]
              /\ pc'[p] \in {"idle", "stage"}
              /\ pc'[p] = "stage" => Continues(p, Listed(file))'
          BY <3>2, <4>1, <5>1, ChangeContinues
        <5> QED
          BY <5>2
      <4> QED
        BY <4>2, <4>3
    <3> QED
      BY <1>11, <3>1, <3>2 DEF Clean
  <2>4. OneAtWork' /\ AsideInSwap'
    BY <2>1, <2>3 DEF RInv, TypeOK, OneAtWork, AsideInSwap
  <2>5. KeptStored'
    BY <2>1, <2>2 DEF RInv, KeptStored, Stored, Listed
  <2>6. ReadIsCurrent'
    BY <2>1, <2>2, <2>3 DEF ReadIsCurrent
  <2> QED
    BY <2>4, <2>5, <2>6 DEF RInv
<1>12. ASSUME NEW p \in Procs, Crash(p) PROVE RInv'
  <2>1. /\ pc[p] # "idle" /\ pc' = [pc EXCEPT ![p] = "idle"]
        /\ aside' = [aside EXCEPT ![p] = None]
        /\ ~overlap => litter' = litter \cup ({aside[p]} \ {None})
        /\ UNCHANGED <<file, kept, overlap>>
    BY <1>12 DEF Crash, Return, Goto, observed
  <2>2. /\ pc'[p] = "idle" /\ \A q \in Procs \ {p} : pc'[q] = pc[q]
        /\ aside'[p] = None /\ \A q \in Procs \ {p} : aside'[q] = aside[q]
    BY <2>1 DEF TypeOK
  <2>3. OneAtWork' /\ AsideInSwap'
    BY <2>1, <2>2 DEF RInv, OneAtWork, AsideInSwap
  <2>4. ~overlap => \A q \in Procs \ {p} : pc[q] = "idle"
    BY <2>1 DEF RInv, OneAtWork
  <2>5. KeptStored'
    BY <2>1, <2>2, <2>4 DEF RInv, KeptStored, Stored, Listed
  <2>6. ReadIsCurrent'
    BY <2>1, <2>2, <2>4 DEF ReadIsCurrent
  <2> QED
    BY <2>3, <2>5, <2>6 DEF RInv
<1>13. ASSUME UNCHANGED vars PROVE RInv'
  <2>1. OneAtWork' /\ AsideInSwap' /\ KeptStored'
    BY <1>13 DEF vars, files, procs, observed, RInv, OneAtWork, AsideInSwap,
      KeptStored, Stored, Listed
  <2>2. ReadIsCurrent'
    BY <1>13 DEF vars, files, procs, observed, RInv, ReadIsCurrent, Continues, Listed
  <2> QED
    BY <2>1, <2>2 DEF RInv
<1> QED
  BY <1>1, <1>2, <1>3, <1>4, <1>5, <1>6, <1>7, <1>8, <1>9, <1>10, <1>11, <1>12,
     <1>13, <1>14 DEF Next, atomicReplace

\* As long as no two operations overlap, every target that was put and not
\* removed is in a file that is still there.
THEOREM TargetsKept == Spec => []TargetsRecoverable
<1>1. RInv => TargetsRecoverable
  <2> SUFFICES ASSUME RInv, ~overlap, NEW id \in kept
               PROVE  \E copy \in Copies \ {None} : id \in copy.items
    BY DEF TargetsRecoverable
  <2>1. CASE id \in Listed(file)
    BY <2>1 DEF Copies, Listed
  <2>2. ASSUME NEW document \in litter, id \in Listed(document)
        PROVE  \E copy \in Copies \ {None} : id \in copy.items
    BY <2>2 DEF Copies, Listed
  <2>3. ASSUME NEW p \in Procs, id \in Listed(aside[p])
        PROVE  \E copy \in Copies \ {None} : id \in copy.items
    BY <2>3 DEF Copies, Listed
  <2> QED
    BY <2>1, <2>2, <2>3 DEF RInv, KeptStored, Stored
<1> QED
  BY <1>1, RecoverInit, RecoverStep, PTL DEF Spec
=============================================================================
