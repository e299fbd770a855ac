----------------------------- MODULE RemoteCache -----------------------------
(***************************************************************************)
(* The cache of an SSH target (internal/compute, ssh.go): a model file is  *)
(* uploaded to <file>.part, hashed and renamed; a runtime is uploaded into *)
(* <runtime>.installing, which replaces it when it is complete.  Every     *)
(* step is a command on the remote host, sent by an uploader, and several  *)
(* machines, or a daemon and a command, may use one account.  A command    *)
(* has no terminal: it goes on when its connection is lost.                *)
(***************************************************************************)
EXTENDS Naturals

CONSTANTS
  Uploaders,     \* calls that prepare the target, of any processes
  Parts,         \* a runtime has files 1..Parts; the last is the executable
  Absent,        \* no file, no directory
  MaxFailures    \* bound: connections lost, local files that rot, remote decay

VARIABLES
  file, partial, \* <file> and <file>.part: Absent, "torn", "good" or "bad"
  source,        \* what the local file holds: "good" or "bad"
  stage,         \* <runtime>.installing: Absent or, of each file, its progress
  runtime,       \* the runtime directory: Absent or the set of its files
  pc, at,        \* of each uploader: its step, its runtime file
  onto,          \* the name its open .part has got: "part" or "file"
  shared,        \* the ones whose .part another has had open as well
  cut,           \* the ones without a connection whose last command still runs
  overlap,       \* observation: uploads of one thing have met
  blamed,        \* observation: it has a reason to fail (PreparesAgain)
  failures       \* used budget

model   == <<file, partial, source>>
bundle  == <<stage, runtime>>
open    == <<onto, shared>>
callers == <<pc, at, open, cut, blamed>>
vars    == <<model, bundle, callers, overlap, failures>>

AllParts == 1..Parts
Idle(u) == pc[u] \in {"idle", "ready", "failed"}
OnModel(u) == pc[u] \in {"copy", "copying", "sum", "move"}
OnRuntime(u) == pc[u] \in {"stage", "part", "parting", "check", "manifest", "chmod", "swap"}

Goto(u, step) == pc' = [pc EXCEPT ![u] = step] /\ UNCHANGED cut

\* The remote command of u is over, and u goes on if it hears of it.
Answer(u, step) ==
  /\ pc' = [pc EXCEPT ![u] = IF u \in cut THEN "idle" ELSE step]
  /\ cut' = cut \ {u}

\* u opens a .part that others are writing.
Opens(u, writers) ==
  shared' = IF writers = {} THEN shared \ {u} ELSE shared \cup writers \cup {u}

\* u begins to upload what others may be uploading already.
Start(u, step, busy) ==
  /\ Goto(u, step)
  /\ overlap' = (busy # {} \/ (overlap /\ \E v \in Uploaders \ {u} : ~Idle(v)))
  /\ blamed' = [v \in Uploaders |-> IF v = u THEN busy # {} ELSE blamed[v] \/ v \in busy]

Succeed(u) ==
  Goto(u, "ready") /\ blamed' = [blamed EXCEPT ![u] = FALSE] /\ UNCHANGED overlap

Fault == failures < MaxFailures /\ failures' = failures + 1

-----------------------------------------------------------------------------
(* PrepareModel *)

\* The file is used when it has the hash of the manifest.  A check without an
\* answer is taken for one that failed.
CheckModel(u) ==
  /\ Idle(u)
  /\ \/ file = "good" /\ Succeed(u) /\ UNCHANGED failures
     \/ /\ IF file = "good" THEN Fault ELSE UNCHANGED failures
        /\ Start(u, "copy", {v \in Uploaders : OnModel(v)})
  /\ UNCHANGED <<model, bundle, at, open>>

\* The .part gets shorter than it has to be, under whoever writes it too.
Truncate(u) ==
  /\ partial' = "torn"
  /\ onto' = [onto EXCEPT ![u] = "part"]
  /\ Opens(u, {v \in Uploaders : pc[v] = "copying" /\ onto[v] = "part"})
  /\ Goto(u, "copying")
  /\ UNCHANGED blamed

\* copy with scp
CopyWhole(u) ==
  /\ pc[u] = "copy"
  /\ Truncate(u)
  /\ UNCHANGED <<file, source, bundle, at, overlap, failures>>

\* copy with rsync --partial --append-verify: a file that has its length
\* already is taken for done, and one with other content never repaired.
CopyRest(u) ==
  /\ pc[u] = "copy"
  /\ IF partial \in {"good", "bad"}
       THEN /\ Goto(u, "sum")
            /\ blamed' = [blamed EXCEPT ![u] = @ \/ partial = "bad"]
            /\ UNCHANGED <<partial, open>>
       ELSE Truncate(u)
  /\ UNCHANGED <<file, source, bundle, at, overlap, failures>>

\* The transfer ends; the file that is open may have got its final name.  One
\* that two have written may have holes, at its full length or not.
Copied(u) ==
  /\ pc[u] = "copying"
  /\ \E content \in IF u \in shared THEN {source, "torn", "bad"} ELSE {source} :
       IF onto[u] = "part" THEN partial' = content /\ UNCHANGED file
                           ELSE file' = content /\ UNCHANGED partial
  /\ blamed' = [blamed EXCEPT ![u] = @ \/ source = "bad"]
  /\ Goto(u, "sum")
  /\ UNCHANGED <<source, bundle, at, open, overlap, failures>>

\* Fault: a transfer that ended without an error is believed.
SumSkipped(u) ==
  /\ pc[u] = "sum"
  /\ Goto(u, "move")
  /\ UNCHANGED <<model, bundle, at, open, blamed, overlap, failures>>

\* test "$(sha256sum <file>.part ...)" = ... && mv -f
Sum(u) ==
  /\ pc[u] = "sum"
  /\ IF partial = "good" THEN Goto(u, "move") ELSE Answer(u, "failed")
  /\ UNCHANGED <<model, bundle, at, open, blamed, overlap, failures>>

Move(u) ==
  /\ pc[u] = "move"
  /\ IF partial = Absent THEN Answer(u, "failed") /\ UNCHANGED <<file, partial, onto>>
     ELSE /\ file' = partial /\ partial' = Absent
          /\ onto' = [v \in Uploaders |-> "file"]
          /\ Answer(u, "ready")
  /\ UNCHANGED <<source, bundle, at, shared, blamed, overlap, failures>>

-----------------------------------------------------------------------------
(* PrepareRuntime *)

CheckRuntime(u) ==
  /\ Idle(u)
  /\ \/ runtime = AllParts /\ Succeed(u) /\ UNCHANGED failures
     \/ /\ IF runtime = AllParts THEN Fault ELSE UNCHANGED failures
        /\ Start(u, "stage", {v \in Uploaders : OnRuntime(v)})
  /\ UNCHANGED <<model, bundle, at, open>>

Fresh == [i \in AllParts |-> "none"]

\* What there is of u's file in the stage.
Part(u) == IF stage = Absent THEN "none" ELSE stage[at[u]]

\* Fault: the stage an earlier attempt has left is not removed.
StageLeft(u) ==
  /\ pc[u] = "stage"
  /\ stage' = IF stage = Absent THEN Fresh ELSE stage
  /\ at' = [at EXCEPT ![u] = 1]
  /\ Answer(u, IF stage = Absent THEN "part" ELSE "failed")
  /\ UNCHANGED <<model, runtime, open, blamed, overlap, failures>>

\* rm -rf <stage> && mkdir -p <stage>, whoever works in it.
Stage(u) ==
  /\ pc[u] = "stage"
  /\ stage' = Fresh
  /\ at' = [at EXCEPT ![u] = 1]
  /\ Answer(u, "part")
  /\ UNCHANGED <<model, runtime, open, blamed, overlap, failures>>

\* mkdir -p of the file's directory brings the stage back if it is gone, and
\* the transfer to <file>.part begins.
CopyPart(u) ==
  LET present == IF stage = Absent THEN Fresh ELSE stage IN
  /\ pc[u] = "part"
  /\ stage' = [present EXCEPT ![at[u]] = IF @ = "done" THEN @ ELSE "torn"]
  /\ Opens(u, {v \in Uploaders : pc[v] = "parting" /\ at[v] = at[u]})
  /\ Goto(u, "parting")
  /\ UNCHANGED <<model, runtime, at, onto, blamed, overlap, failures>>

\* A .part that two have written may not be what it should be.
PartCopied(u) ==
  /\ pc[u] = "parting"
  /\ IF Part(u) = "torn"
       THEN \E content \in IF u \in shared THEN {"full", "torn"} ELSE {"full"} :
              stage' = [stage EXCEPT ![at[u]] = content]
       ELSE UNCHANGED stage
  /\ Goto(u, "check")
  /\ UNCHANGED <<model, runtime, at, open, blamed, overlap, failures>>

\* The hash and the rename of the .part in one remote command.  Of a file that
\* another has renamed meanwhile there may be a second .part, or none.
CheckPart(u) ==
  /\ pc[u] = "check"
  /\ \/ /\ Part(u) \in {"full", "done"}
        /\ stage' = [stage EXCEPT ![at[u]] = "done"]
        /\ at' = [at EXCEPT ![u] = IF @ < Parts THEN @ + 1 ELSE 1]
        /\ Answer(u, IF at[u] < Parts THEN "part" ELSE "manifest")
     \/ /\ Part(u) # "full"
        /\ Answer(u, "failed")
        /\ UNCHANGED <<stage, at>>
  /\ UNCHANGED <<model, runtime, open, blamed, overlap, failures>>

\* The manifest goes into the stage, if there still is one.
CopyManifest(u) ==
  /\ pc[u] = "manifest"
  /\ Goto(u, IF stage = Absent THEN "failed" ELSE "chmod")
  /\ UNCHANGED <<model, bundle, at, open, blamed, overlap, failures>>

\* chmod +x <executable> && rm -rf <runtime> && ...
Chmod(u) ==
  /\ pc[u] = "chmod"
  /\ IF stage = Absent \/ stage[Parts] # "done"
       THEN Answer(u, "failed") /\ UNCHANGED runtime
       ELSE runtime' = Absent /\ Goto(u, "swap")
  /\ UNCHANGED <<model, stage, at, open, blamed, overlap, failures>>

\* ... && mv <stage> <runtime>, which puts it inside a runtime that is back.
Swap(u) ==
  /\ pc[u] = "swap"
  /\ IF stage = Absent THEN Answer(u, "failed") /\ UNCHANGED bundle
     ELSE /\ runtime' = IF runtime = Absent THEN {i \in AllParts : stage[i] = "done"} ELSE runtime
          /\ stage' = Absent
          /\ Answer(u, "ready")
  /\ UNCHANGED <<model, at, open, blamed, overlap, failures>>

-----------------------------------------------------------------------------
(* Environment *)

Commands == {"sum", "move", "stage", "check", "chmod", "swap"}

\* The connection is lost, or the caller gives up, between two commands or in
\* one; a transfer stops then, another command may go on.
Disconnect(u) ==
  /\ ~Idle(u) /\ u \notin cut
  /\ Fault
  /\ \/ Goto(u, "idle")
     \/ pc[u] \in Commands /\ cut' = cut \cup {u} /\ UNCHANGED pc
  /\ UNCHANGED <<model, bundle, at, open, blamed, overlap>>

\* The local file rots after resolve has verified it, or is repaired.
SourceChanges ==
  /\ source = "good" => Fault
  /\ source = "bad" => UNCHANGED failures
  /\ source' = IF source = "good" THEN "bad" ELSE "good"
  /\ UNCHANGED <<file, partial, bundle, callers, overlap>>

\* What is installed on the host decays.
RemoteDecays ==
  /\ Fault
  /\ \/ file = "good" /\ file' = "bad" /\ UNCHANGED runtime
     \/ runtime = AllParts /\ runtime' = AllParts \ {1} /\ UNCHANGED file
  /\ UNCHANGED <<partial, source, stage, callers, overlap>>

-----------------------------------------------------------------------------
Init ==
  /\ file = Absent /\ partial = Absent /\ source = "good"
  /\ stage = Absent /\ runtime = Absent
  /\ pc = [u \in Uploaders |-> "idle"] /\ at = [u \in Uploaders |-> 1]
  /\ onto = [u \in Uploaders |-> "part"] /\ shared = {} /\ cut = {}
  /\ blamed = [u \in Uploaders |-> FALSE]
  /\ overlap = FALSE /\ failures = 0

PrepareModel(u) ==
  CheckModel(u) \/ CopyWhole(u) \/ CopyRest(u) \/ Copied(u) \/ Sum(u) \/ Move(u)

PrepareRuntime(u) ==
  \/ CheckRuntime(u) \/ Stage(u) \/ CopyPart(u) \/ PartCopied(u) \/ CheckPart(u)
  \/ CopyManifest(u) \/ Chmod(u) \/ Swap(u)

Next ==
  \/ \E u \in Uploaders : PrepareModel(u) \/ PrepareRuntime(u) \/ Disconnect(u)
  \/ SourceChanges \/ RemoteDecays

Spec == Init /\ [][Next]_vars

-----------------------------------------------------------------------------
(* Properties *)

\* The type invariant of the host's files and the uploaders.
TypeOK ==
  /\ {file, partial} \subseteq {Absent, "torn", "good", "bad"}
  /\ source \in {"good", "bad"}
  /\ stage = Absent \/ stage \in [AllParts -> {"none", "torn", "full", "done"}]
  /\ runtime = Absent \/ runtime \subseteq AllParts
  /\ \A u \in Uploaders : Idle(u) \/ OnModel(u) \/ OnRuntime(u)
  /\ at \in [Uploaders -> AllParts] /\ onto \in [Uploaders -> {"part", "file"}]
  /\ shared \subseteq Uploaders
  /\ cut \subseteq Uploaders /\ \A u \in cut : pc[u] \in Commands
  /\ blamed \in [Uploaders -> BOOLEAN] /\ overlap \in BOOLEAN
  /\ failures \in 0..MaxFailures

\* A model file takes its final name only with the content the manifest asks
\* for, whatever the transfers before have left in the .part and whatever
\* became of the local file meanwhile, and a runtime only with every file of
\* its manifest; as long as uploads of one thing do not meet (the stage of one
\* may be emptied by another between the last two commands of the first, which
\* then moves the empty stage; PrepareModel, copy, PrepareRuntime).
RemoteVerified ==
  [][~overlap /\ failures' = failures =>
       /\ file' # file => file' = "good"
       /\ runtime' \notin {Absent, runtime} => runtime' = AllParts]_vars

\* What cut transfers leave behind, an incomplete .part or stage, does not fail
\* the next preparation.  One that is refused by a checksum, or misses a file
\* of its own, has met another upload of the same thing, or the last command of
\* one that was cut off; or has sent a local file that rotted; or has found,
\* with rsync, a .part of full length and other content, as rotten files and
\* uploads that meet leave it: that one fails again each time it is tried with
\* rsync (copy, PrepareModel, PrepareRuntime).
PreparesAgain == \A u \in Uploaders : pc[u] = "failed" => blamed[u]
=============================================================================
