---------------------------- MODULE RuntimeBundle ----------------------------
(***************************************************************************)
(* Installation of a runtime bundle (internal/runtimebundle, Manager).     *)
(* Every process that needs the bundle calls Ensure: a verified            *)
(* installation is used as it is; otherwise the process takes a lock       *)
(* directory, downloads the artifacts to names all processes share,        *)
(* verifies and extracts them into a stage of its own and renames the      *)
(* stage.  A lock older than two hours belongs to nobody; Remove takes no  *)
(* lock at all.  Names lead to inodes, which a process that has the file   *)
(* open keeps writing when the name has moved on.                          *)
(***************************************************************************)
EXTENDS Naturals

CONSTANTS
  Users,        \* processes (Manager.lock makes one thread of each)
  Artifacts,    \* a bundle has artifacts 1..Artifacts, fetched in this order
  Archives,     \* those that are extracted; the others are copied (licenses)
  Blocks,       \* inodes of the download cache, numbers
  Nothing,      \* no inode, no holder, no directory
  MaxFaults     \* bound: locks lost by a working holder, processes that die
                \* in Ensure, installations that rot

VARIABLES
  lock,         \* the lock directory: Nothing or [by, old]
  part, cached, \* runtime-<version>-<variant>-<i>.part and without .part
  data,         \* what is in an inode: "good", "bad", or who is writing it
  final,        \* the installation: Nothing or a record
  pc, item, fd, \* of each process: its step, its artifact, its open file
  stage,        \* what it has extracted
  excused,      \* observation: it may fail, since others have disturbed it
  overrun,      \* observation: a working holder has lost the lock: two hours
                \* had passed, or a waiter had seen an expired predecessor
  faults        \* used budget

cache  == <<part, cached, data>>
budget == <<overrun, faults>>
calls  == <<pc, item, fd, stage, excused>>
vars   == <<lock, cache, final, calls, budget>>

Items == 1..Artifacts

\* A fault of the environment, within the bound.
Fault == faults < MaxFaults /\ faults' = faults + 1

\* The lock is taken from a working holder, or from nobody who needs it.
LoseLock(taken) ==
  IF taken THEN overrun' = TRUE /\ Fault ELSE UNCHANGED budget

\* load: the manifest is readable, of schema 1, and all its hashes agree.
Loads(installation) == installation # Nothing /\ installation.whole

Goto(u, step) == pc' = [pc EXCEPT ![u] = step]

\* The deferred release: os.Remove(path), whoever made the directory.
Release(u) == lock' = Nothing

\* Ensure returns from under the lock; its stage is removed.
Leave(u, step) ==
  /\ Release(u)
  /\ Goto(u, step)
  /\ item' = [item EXCEPT ![u] = 1]
  /\ fd' = [fd EXCEPT ![u] = Nothing]
  /\ stage' = [stage EXCEPT ![u] = [i \in Items |-> "none"]]

-----------------------------------------------------------------------------
(* Ensure, up to the installation *)

Begin(u) ==
  /\ pc[u] \in {"idle", "ready", "failed"}
  /\ Goto(u, IF Loads(final) THEN "ready" ELSE "lock")
  /\ excused' = [excused EXCEPT ![u] = \E r \in Users : pc[r] \in {"clear", "rmdir"}]
  /\ UNCHANGED <<lock, cache, final, item, fd, stage, budget>>

\* Resolve: the catalog has no bundle for this engine on this hardware, or the
\* target cannot be inspected; or what is installed, for which Ensure needs no
\* lock, cannot be uploaded.
NoBundle(u) ==
  /\ pc[u] \in {"idle", "ready", "failed"}
  /\ Goto(u, "failed")
  /\ excused' = [excused EXCEPT ![u] = TRUE]
  /\ UNCHANGED <<lock, cache, final, item, fd, stage, budget>>

\* acquireInstallLock: os.Mkdir decides.
Acquire(u) ==
  /\ pc[u] = "lock"
  /\ lock = Nothing
  /\ lock' = [by |-> u, old |-> FALSE]
  /\ Goto(u, "recheck")
  /\ UNCHANGED <<cache, final, item, fd, stage, excused, budget>>

\* It is older than two hours: remove it, then try again.
FindExpired(u) ==
  /\ pc[u] = "lock"
  /\ lock # Nothing /\ lock.old
  /\ Goto(u, "break")
  /\ UNCHANGED <<lock, cache, final, item, fd, stage, excused, budget>>

BreakLock(u) ==
  /\ pc[u] = "break"
  /\ LoseLock(lock # Nothing /\ ~lock.old)
  /\ lock' = Nothing
  /\ Goto(u, "lock")
  /\ UNCHANGED <<cache, final, item, fd, stage, excused>>

\* The context ends while it waits.
GiveUp(u) ==
  /\ pc[u] = "lock"
  /\ lock # Nothing
  /\ Goto(u, "failed")
  /\ excused' = [excused EXCEPT ![u] = TRUE]
  /\ UNCHANGED <<lock, cache, final, item, fd, stage, budget>>

\* Fault: it makes room for the new installation without looking again.
RecheckClears(u) ==
  /\ pc[u] = "recheck"
  /\ final' = Nothing
  /\ Goto(u, "open")
  /\ UNCHANGED <<lock, cache, item, fd, stage, excused, budget>>

Recheck(u) ==
  /\ pc[u] = "recheck"
  /\ Goto(u, IF Loads(final) THEN "upload" ELSE "open")
  /\ UNCHANGED <<lock, cache, final, item, fd, stage, excused, budget>>

-----------------------------------------------------------------------------
(* install *)

FreeBlock ==
  CHOOSE b \in Blocks :
    (\A i \in Items : b \notin {part[i], cached[i]}) /\ (\A u \in Users : b # fd[u])

\* Fault: what an earlier attempt has written is not truncated.
OpenKeeps(u) ==
  LET i == item[u]
      b == IF part[i] = Nothing THEN FreeBlock ELSE part[i]
  IN /\ pc[u] = "open"
     /\ part' = [part EXCEPT ![i] = b]
     /\ data' = [data EXCEPT ![b] = IF part[i] = Nothing THEN u ELSE @]
     /\ fd' = [fd EXCEPT ![u] = b]
     /\ Goto(u, "fetch")
     /\ UNCHANGED <<lock, cached, final, item, stage, excused, budget>>

\* O_CREATE|O_TRUNC: what it held is gone, for whoever else has it open too.
Open(u) ==
  LET i == item[u]
      b == IF part[i] = Nothing THEN FreeBlock ELSE part[i]
  IN /\ pc[u] = "open"
     /\ part' = [part EXCEPT ![i] = b]
     /\ data' = [data EXCEPT ![b] = u]
     /\ fd' = [fd EXCEPT ![u] = b]
     /\ Goto(u, "fetch")
     /\ UNCHANGED <<lock, cached, final, item, stage, excused, budget>>

\* The transfer ends.  Good bytes complete the file only for the process that
\* has truncated it last: an earlier one has left a hole in front of its own.
Fetch(u, content) ==
  /\ pc[u] = "fetch"
  /\ data' = [data EXCEPT ![fd[u]] =
                IF content = "bad" THEN "bad" ELSE IF @ = u THEN "good" ELSE @]
  /\ fd' = [fd EXCEPT ![u] = Nothing]
  /\ excused' = [excused EXCEPT ![u] = @ \/ content = "bad"]
  /\ Goto(u, "verify")
  /\ UNCHANGED <<lock, part, cached, final, item, stage, budget>>

\* It breaks off, or takes longer than the client allows, or is cancelled.
FetchFails(u) ==
  /\ pc[u] = "fetch"
  /\ Leave(u, "failed")
  /\ excused' = [excused EXCEPT ![u] = TRUE]
  /\ UNCHANGED <<cache, final, budget>>

\* Fault: the checksum is not compared.
VerifySkipped(u) ==
  /\ pc[u] = "verify"
  /\ IF part[item[u]] # Nothing
       THEN Goto(u, "cache") /\ UNCHANGED <<lock, item, fd, stage>>
       ELSE Leave(u, "failed")
  /\ UNCHANGED <<cache, final, excused, budget>>

\* The hash is that of the file the name leads to.
Verify(u) ==
  LET b == part[item[u]] IN
  /\ pc[u] = "verify"
  /\ IF b # Nothing /\ data[b] = "good"
       THEN Goto(u, "cache") /\ UNCHANGED <<lock, item, fd, stage>>
       ELSE Leave(u, "failed")
  /\ UNCHANGED <<cache, final, excused, budget>>

RenamePart(u) ==
  LET i == item[u] IN
  /\ pc[u] = "cache"
  /\ IF part[i] # Nothing
       THEN /\ cached' = [cached EXCEPT ![i] = part[i]]
            /\ part' = [part EXCEPT ![i] = Nothing]
            /\ Goto(u, "extract")
            /\ UNCHANGED <<lock, item, fd, stage>>
       ELSE Leave(u, "failed") /\ UNCHANGED <<part, cached>>
  /\ UNCHANGED <<data, final, excused, budget>>

\* extract: an archive that is not whole is refused, a single file is copied.
Extract(u) ==
  LET i == item[u]
      b == cached[i]
      content == IF b = Nothing THEN "none" ELSE IF data[b] \in {"good", "bad"} THEN data[b] ELSE "torn"
  IN /\ pc[u] = "extract"
     /\ IF content = "none" \/ (i \in Archives /\ content # "good")
          THEN Leave(u, "failed")
          ELSE /\ stage' = [stage EXCEPT ![u][i] = content]
               /\ Goto(u, "drop")
               /\ UNCHANGED <<lock, item, fd>>
     /\ UNCHANGED <<cache, final, excused, budget>>

\* On to the next artifact; after the last the stage gets its manifest, with
\* the hashes of the files that are in it.
DropArchive(u) ==
  /\ pc[u] = "drop"
  /\ cached' = [cached EXCEPT ![item[u]] = Nothing]
  /\ IF item[u] < Artifacts
       THEN item' = [item EXCEPT ![u] = @ + 1] /\ Goto(u, "open")
       ELSE Goto(u, "replace") /\ UNCHANGED item
  /\ UNCHANGED <<lock, part, data, final, fd, stage, excused, budget>>

\* Stat and load: what has become valid meanwhile is kept.
Replace(u) ==
  /\ pc[u] = "replace"
  /\ IF Loads(final) THEN Leave(u, "ready")
     ELSE /\ Goto(u, IF final = Nothing THEN "commit" ELSE "setAside")
          /\ UNCHANGED <<lock, item, fd, stage>>
  /\ UNCHANGED <<cache, final, excused, budget>>

\* os.Rename(final, final + ".invalid-...")
SetAside(u) ==
  /\ pc[u] = "setAside"
  /\ IF final = Nothing THEN Leave(u, "failed")
     ELSE Goto(u, "commit") /\ UNCHANGED <<lock, item, fd, stage>>
  /\ final' = Nothing
  /\ UNCHANGED <<cache, excused, budget>>

\* The rename of the stage fails over a directory that has files.  On a
\* remote target the upload follows, before the lock is released.
Commit(u) ==
  /\ pc[u] = "commit"
  /\ IF final = Nothing \/ final.empty
       THEN /\ final' = [whole |-> TRUE, empty |-> FALSE, from |-> stage[u]]
            /\ Goto(u, "upload")
            /\ UNCHANGED <<lock, item, fd, stage>>
       ELSE Leave(u, "failed") /\ UNCHANGED final
  /\ UNCHANGED <<cache, excused, budget>>

\* ensureRemote: nothing to do on the local target.
Upload(u, ok) ==
  /\ pc[u] = "upload"
  /\ Leave(u, IF ok THEN "ready" ELSE "failed")
  /\ excused' = [excused EXCEPT ![u] = @ \/ ~ok]
  /\ UNCHANGED <<cache, final, budget>>

-----------------------------------------------------------------------------
(* Remove *)

FindInstalled(u) ==
  /\ pc[u] \in {"idle", "ready", "failed"}
  /\ final # Nothing /\ ~final.empty
  /\ pc' = [pc EXCEPT ![u] = "clear"]
  /\ excused' = [v \in Users |-> TRUE]
  /\ UNCHANGED <<lock, cache, final, item, fd, stage, budget>>

\* os.RemoveAll: first what is in the directory, then the directory.
Clear(u) ==
  /\ pc[u] = "clear"
  /\ IF final = Nothing THEN final' = Nothing
     ELSE final' = [final EXCEPT !.whole = FALSE, !.empty = TRUE]
  /\ Goto(u, "rmdir")
  /\ UNCHANGED <<lock, cache, item, fd, stage, excused, budget>>

RemoveDirectory(u) ==
  /\ pc[u] = "rmdir"
  /\ final' = IF final # Nothing /\ final.empty THEN Nothing ELSE final
  /\ Goto(u, "idle")
  /\ UNCHANGED <<lock, cache, item, fd, stage, excused, budget>>

-----------------------------------------------------------------------------
(* Environment *)

Working(u) == pc[u] \notin {"idle", "ready", "failed", "lock", "break", "clear", "rmdir"}

\* A process that dies leaves everything as it is.
Die(u) ==
  /\ Working(u)
  /\ Fault
  /\ Goto(u, "idle")
  /\ item' = [item EXCEPT ![u] = 1]
  /\ fd' = [fd EXCEPT ![u] = Nothing]
  /\ stage' = [stage EXCEPT ![u] = [i \in Items |-> "none"]]
  /\ UNCHANGED <<lock, cache, final, excused, overrun>>

\* Two hours pass: a lock that nobody holds expires, one that is held may.
Expire ==
  /\ lock # Nothing /\ ~lock.old
  /\ LoseLock(Working(lock.by))
  /\ lock' = [lock EXCEPT !.old = TRUE]
  /\ UNCHANGED <<cache, final, calls>>

Decay ==
  /\ Loads(final)
  /\ Fault
  /\ final' = [final EXCEPT !.whole = FALSE]
  /\ UNCHANGED <<lock, cache, calls, overrun>>

-----------------------------------------------------------------------------
Init ==
  /\ lock = Nothing /\ final = Nothing
  /\ part = [i \in Items |-> Nothing] /\ cached = [i \in Items |-> Nothing]
  /\ data = [b \in Blocks |-> "bad"]
  /\ pc = [u \in Users |-> "idle"] /\ item = [u \in Users |-> 1]
  /\ fd = [u \in Users |-> Nothing]
  /\ stage = [u \in Users |-> [i \in Items |-> "none"]]
  /\ excused = [u \in Users |-> FALSE]
  /\ overrun = FALSE /\ faults = 0

Ensure(u) ==
  \/ Begin(u) \/ NoBundle(u) \/ Acquire(u) \/ FindExpired(u) \/ BreakLock(u) \/ GiveUp(u)
  \/ Recheck(u)
  \/ Open(u) \/ FetchFails(u) \/ (\E content \in {"good", "bad"} : Fetch(u, content))
  \/ Verify(u) \/ RenamePart(u) \/ Extract(u) \/ DropArchive(u)
  \/ Replace(u) \/ SetAside(u) \/ Commit(u) \/ (\E ok \in BOOLEAN : Upload(u, ok))

Remove(u) == FindInstalled(u) \/ Clear(u) \/ RemoveDirectory(u)

Next ==
  \/ \E u \in Users : Ensure(u) \/ Remove(u) \/ Die(u)
  \/ Expire \/ Decay

Spec == Init /\ [][Next]_vars

-----------------------------------------------------------------------------
(* Properties *)

\* The type invariant of lock, cache, installation and processes.
TypeOK ==
  LET Content == {"none", "good", "bad", "torn"} IN
  /\ lock = Nothing \/ lock \in [by : Users, old : BOOLEAN]
  /\ part \in [Items -> Blocks \cup {Nothing}] /\ cached \in [Items -> Blocks \cup {Nothing}]
  /\ data \in [Blocks -> Users \cup {"good", "bad"}]
  /\ final = Nothing \/ final \in [whole : BOOLEAN, empty : BOOLEAN, from : [Items -> Content]]
  /\ item \in [Users -> Items] /\ fd \in [Users -> Blocks \cup {Nothing}]
  /\ \A u \in Users : pc[u] = "fetch" <=> fd[u] # Nothing
  /\ stage \in [Users -> [Items -> Content]]
  /\ excused \in [Users -> BOOLEAN] /\ overrun \in BOOLEAN /\ faults \in 0..MaxFaults

\* What an Ensure would run without another look, the installation that loads,
\* consists of artifacts that matched the checksums of the catalog, although
\* the hashes in its manifest were made from whatever was extracted, from
\* files under shared names that earlier and dead processes have written; as
\* long as no working holder loses the lock (install, acquireInstallLock).
RuntimeVerified ==
  ~overrun /\ Loads(final) => \A i \in Items : final.from[i] = "good"

\* No Ensure takes a working installation from under the others: only Remove
\* or decay ends it (install's second load, under the lock).
RuntimeKept ==
  [][Loads(final) /\ final' # final =>
       \/ overrun
       \/ pc' = pc
       \/ \E u \in Users : pc[u] = "clear" /\ pc'[u] = "rmdir"]_vars

\* Whatever dead or failed attempts have left under the shared names, an Ensure
\* that is served correctly, that no Remove disturbs and whose lock is
\* not lost brings the runtime (install, acquireInstallLock, load).
RuntimeInstalls ==
  ~overrun => \A u \in Users : pc[u] = "failed" => excused[u]
=============================================================================
