-------------------------------- MODULE Updater --------------------------------
(***************************************************************************)
(* `backpack update` (internal/updater, cli/update.go).  A process compares *)
(* its own version with a release of the repository, downloads and checks  *)
(* the archive, stages the executable beside the installed one and renames *)
(* the two: the installed one to a backup, the staged one to its place.    *)
(* Nothing keeps two updates apart, and releases appear meanwhile.         *)
(***************************************************************************)
EXTENDS Naturals, Sequences

CONSTANTS
  Updaters,     \* processes
  Releases,     \* records [core, pre]: the rank of major.minor.patch and the
                \* identifiers of the prerelease, pairs <<is text, rank>>
  Missing,      \* no file
  MaxAccidents  \* bound: renames that fail, processes that die

VARIABLES
  published,    \* the releases on GitHub that are no drafts
  file,         \* what is at the path of the executable
  pc, running,  \* the step of each process, the version it was started from
  request,      \* its channel: "stable", "prerelease" or "exact"
  target, staged,
  aside,        \* what it has renamed to its own backup
  accidents,    \* used budget
  stranded,     \* observation: died between the renames, or no way back
  overtaken     \* observation: the program was replaced since it was started

plan      == <<running, request, target, staged, aside>>
releases  == <<published>>
observed  == <<accidents, stranded, overtaken>>
vars      == <<releases, file, pc, plan, observed>>

Accident == accidents < MaxAccidents /\ accidents' = accidents + 1

Goto(u, step) == pc' = [pc EXCEPT ![u] = step]

-----------------------------------------------------------------------------
(* Versions *)

\* compareIdentifier: numbers before texts, each in their order.
IdentifierBefore(a, b) == a[1] < b[1] \/ (a[1] = b[1] /\ a[2] < b[2])

\* The first position where two prereleases differ, or the end of the shorter.
Differ(p, q) ==
  CHOOSE i \in 1..(Len(p) + Len(q) + 1) :
    /\ i > Len(p) \/ i > Len(q) \/ p[i] # q[i]
    /\ \A j \in 1..(i - 1) : j <= Len(p) /\ j <= Len(q) /\ p[j] = q[j]

PrereleaseBefore(p, q) ==
  LET i == Differ(p, q) IN
  IF i > Len(p) \/ i > Len(q) THEN Len(p) < Len(q) ELSE IdentifierBefore(p[i], q[i])

\* Version.Compare(other) < 0: a prerelease comes before its release.
Before(v, w) ==
  \/ v.core < w.core
  \/ /\ v.core = w.core
     /\ v.pre # <<>>
     /\ w.pre = <<>> \/ PrereleaseBefore(v.pre, w.pre)

\* newestRelease, in whatever order the list has them.
Newest(v) == v \in published /\ \A w \in published : ~Before(v, w)

\* What Resolve may return; releases/latest is some stable release.
Resolves(channel, v) ==
  \/ channel = "stable" /\ v \in published /\ v.pre = <<>>
  \/ channel = "prerelease" /\ Newest(v)
  \/ channel = "exact" /\ v \in published

\* Fault: any other version is an update.
AvailableOther(channel, v, current) == v # current

\* Check: an exact version may go back, a channel only forward.
Available(channel, v, current) ==
  Before(current, v) \/ (channel = "exact" /\ Before(v, current))

-----------------------------------------------------------------------------
(* An update *)

Launch(u) ==
  /\ pc[u] = "idle" /\ file # Missing
  /\ running' = [running EXCEPT ![u] = file.version]
  /\ overtaken' = [overtaken EXCEPT ![u] = FALSE]
  /\ Goto(u, "check")
  /\ UNCHANGED <<releases, file, request, target, staged, aside, accidents, stranded>>

\* The process ends; a staged file is removed.
Leave(u) ==
  /\ Goto(u, "idle")
  /\ running' = [running EXCEPT ![u] = Missing]
  /\ request' = [request EXCEPT ![u] = "exact"]
  /\ target' = [target EXCEPT ![u] = Missing]
  /\ staged' = [staged EXCEPT ![u] = Missing]
  /\ aside' = [aside EXCEPT ![u] = Missing]

Check(u, channel, v) ==
  /\ pc[u] = "check"
  /\ Resolves(channel, v) /\ Available(channel, v, running[u])
  /\ request' = [request EXCEPT ![u] = channel]
  /\ target' = [target EXCEPT ![u] = v]
  /\ Goto(u, "prepare")
  /\ UNCHANGED <<releases, file, running, staged, aside, observed>>

\* GitHub does not answer, has no such release, or none that is an update.
CheckEnds(u) ==
  /\ pc[u] = "check"
  /\ Leave(u)
  /\ UNCHANGED <<releases, file, observed>>

\* The download is the archive checksums.txt names, and has an executable.
Accepts(content) == content = "good"

\* Prepare, which holds the executable in memory, or ends the update.
Prepare(u, content) ==
  /\ pc[u] = "prepare"
  /\ IF Accepts(content)
       THEN /\ staged' = [staged EXCEPT ![u] = [version |-> target[u], good |-> TRUE]]
            /\ Goto(u, "stat")
            /\ UNCHANGED <<running, request, target, aside>>
       ELSE Leave(u)
  /\ UNCHANGED <<releases, file, observed>>

\* Stat, then stageExecutable beside it.
Stage(u) ==
  /\ pc[u] = "stat"
  /\ IF file = Missing THEN Leave(u) ELSE Goto(u, "moveAside") /\ UNCHANGED plan
  /\ UNCHANGED <<releases, file, observed>>

\* The first rename; it fails when there is nothing to rename.
MoveAside(u) ==
  /\ pc[u] = "moveAside"
  /\ IF file = Missing THEN Leave(u)
     ELSE /\ aside' = [aside EXCEPT ![u] = file]
          /\ Goto(u, "activate")
          /\ UNCHANGED <<running, request, target, staged>>
  /\ file' = Missing
  /\ UNCHANGED <<releases, observed>>

\* The second.
Activate(u) ==
  /\ pc[u] = "activate"
  /\ file' = staged[u]
  /\ overtaken' = [v \in Updaters |-> pc[v] # "idle" /\ v # u]
  /\ Leave(u)
  /\ UNCHANGED <<releases, accidents, stranded>>

\* Fault: the way back is forgotten.
ActivateFailsHard(u) ==
  /\ pc[u] = "activate"
  /\ Accident
  /\ Leave(u)
  /\ UNCHANGED <<releases, file, stranded, overtaken>>

ActivateFails(u) ==
  /\ pc[u] = "activate"
  /\ Accident
  /\ Goto(u, "rollback")
  /\ UNCHANGED <<releases, file, plan, stranded, overtaken>>

Rollback(u) ==
  /\ pc[u] = "rollback"
  /\ file' = aside[u]
  /\ Leave(u)
  /\ UNCHANGED <<releases, observed>>

RollbackFails(u) ==
  /\ pc[u] = "rollback"
  /\ Accident
  /\ stranded' = TRUE
  /\ Leave(u)
  /\ UNCHANGED <<releases, file, overtaken>>

-----------------------------------------------------------------------------
(* Environment *)

Between(u) == pc[u] \in {"activate", "rollback"}

Dies(u) ==
  /\ Between(u)
  /\ Accident
  /\ stranded' = TRUE
  /\ Leave(u)
  /\ UNCHANGED <<releases, file, overtaken>>

Publish(v) ==
  /\ v \in Releases \ published
  /\ published' = published \cup {v}
  /\ UNCHANGED <<file, pc, plan, observed>>

\* The user, whose program has gone, runs the installer again.
Reinstall(v) ==
  /\ stranded /\ file = Missing /\ \A u \in Updaters : ~Between(u)
  /\ v \in published
  /\ file' = [version |-> v, good |-> TRUE]
  /\ stranded' = FALSE
  /\ overtaken' = [u \in Updaters |-> pc[u] # "idle"]
  /\ UNCHANGED <<releases, pc, plan, accidents>>

-----------------------------------------------------------------------------
Init ==
  /\ \E v \in Releases :
       published = {v} /\ file = [version |-> v, good |-> TRUE]
  /\ accidents = 0 /\ stranded = FALSE
  /\ pc = [u \in Updaters |-> "idle"]
  /\ running = [u \in Updaters |-> Missing] /\ target = [u \in Updaters |-> Missing]
  /\ request = [u \in Updaters |-> "exact"]
  /\ staged = [u \in Updaters |-> Missing] /\ aside = [u \in Updaters |-> Missing]
  /\ overtaken = [u \in Updaters |-> FALSE]

Update(u) ==
  \/ Launch(u) \/ CheckEnds(u)
  \/ \E v \in Releases, channel \in {"stable", "prerelease", "exact"} : Check(u, channel, v)
  \/ \E content \in {"good", "bad"} : Prepare(u, content)
  \/ Stage(u) \/ MoveAside(u) \/ Activate(u)
  \/ ActivateFails(u) \/ Rollback(u) \/ RollbackFails(u)

Next ==
  \/ \E u \in Updaters : Update(u) \/ Dies(u)
  \/ \E v \in Releases : Publish(v) \/ Reinstall(v)

Spec == Init /\ [][Next]_vars

-----------------------------------------------------------------------------
(* Properties *)

Programs == [version : Releases, good : BOOLEAN]

\* The type invariant of the program and the processes.
TypeOK ==
  /\ published \subseteq Releases /\ file \in Programs \cup {Missing}
  /\ pc \in [Updaters -> {"idle", "check", "prepare", "stat", "moveAside", "activate", "rollback"}]
  /\ running \in [Updaters -> Releases \cup {Missing}]
  /\ target \in [Updaters -> Releases \cup {Missing}]
  /\ request \in [Updaters -> {"stable", "prerelease", "exact"}]
  /\ staged \in [Updaters -> Programs \cup {Missing}]
  /\ aside \in [Updaters -> Programs \cup {Missing}]
  /\ accidents \in 0..MaxAccidents /\ stranded \in BOOLEAN
  /\ overtaken \in [Updaters -> BOOLEAN]

\* A verified program is at its place, unless an update is between its two
\* renames, or has died or failed twice there; with any number of updates at
\* once (replaceWithRollback, Prepare).
ProgramInPlace ==
  IF file = Missing THEN stranded \/ \E u \in Updaters : Between(u) ELSE file.good

\* Without --version no update leads back, except to what another update or
\* the user has put there since it was started (Check, newestRelease, Compare).
NoSilentDowngrade ==
  [][\A u \in Updaters :
       pc[u] = "activate" /\ file' = staged[u] /\ aside[u] # Missing
         /\ request[u] # "exact" /\ ~overtaken[u]
       => Before(aside[u].version, file'.version)]_vars
=============================================================================
