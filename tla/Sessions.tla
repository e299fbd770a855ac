------------------------------ MODULE Sessions ------------------------------
(***************************************************************************)
(* The session manager of the Backpack daemon (internal/sessions), the     *)
(* llama.cpp adapter that starts and stops the model processes             *)
(* (internal/adapters/llamacpp), the process handle they share             *)
(* (internal/compute) and the part of `backpack serve' that brings the     *)
(* manager up and down (internal/cli).                                     *)
(*                                                                         *)
(* A step that the code runs under Manager.mu is one action.  What happens *)
(* outside the mutex (health polling, waiting for a signalled process, the *)
(* adapter's unlocked writes of Session.Status) is split where another     *)
(* goroutine can see the difference.  Operations that only read (List,     *)
(* Get, Endpoint, an Ensure that finds a ready session) and requests that  *)
(* are refused change nothing and are not actions.                         *)
(***************************************************************************)
EXTENDS Naturals, FiniteSets

CONSTANTS
  SessionIDs,      \* ids newID() can draw; one per child process ever started
  Models,          \* catalog entries a request can name
  Callers,         \* request-handler goroutines
  Main,            \* the goroutine of serve(), which runs Manager.Shutdown
  None,            \* no session, no model, no pending write
  Windows,         \* TRUE: job objects kill children, os.Interrupt unsupported
  MaxStarts,       \* bound: daemon starts
  MaxWriteErrors,  \* bound: failed writes of sessions.json
  MaxRivals        \* bound: `backpack serve' started beside a live daemon

ASSUME CallersAssumption == Main \notin Callers
ASSUME NoneAssumption == None \notin SessionIDs \cup Models
ASSUME PlatformAssumption == Windows \in BOOLEAN
ASSUME BoundsAssumption ==
  MaxStarts \in Nat /\ MaxWriteErrors \in Nat /\ MaxRivals \in Nat

VARIABLES
  phase,        \* the daemon: down, serving, closing, stopping
  stateErr,     \* Manager.stateErr # nil
  mem,          \* Manager.sessions: id -> public.Status, "absent" outside the map
  owned,        \* ids whose managed record has an adapter and a Process
  monitors,     \* ids with a live monitor goroutine
  queue,        \* sessions Shutdown still has to stop
  pc,           \* what each goroutine is doing
  tgt,          \* the session it works on
  want,         \* the model its Create is for
  stopErr,      \* goroutines whose adapter.Stop returned an error
  proc,         \* the child process of each id
  sig,          \* the strongest signal it was sent
  model,        \* ModelID of each id
  disk,         \* sessions.json: id -> status, "absent" when not listed; what a
                \* foreign file holds stays unread, so it counts as Nothing
  foreign,      \* sessions.json has a schema this binary does not support
  rival,        \* what a second `backpack serve' is about to write, or None
  starts, writeErrors, rivals,  \* used budgets
  known,        \* observation: ids Create has returned to a client
  listed        \* observation: what Shutdown's List() returned

daemonVars == <<phase, stateErr, mem, owned, monitors, queue>>
callVars   == <<pc, tgt, want, stopErr>>
osVars     == <<proc, sig, model>>
fileVars   == <<disk, foreign, rival>>
budgets    == <<starts, writeErrors, rivals>>
observed   == <<known, listed>>
vars == <<daemonVars, callVars, osVars, fileVars, budgets, observed>>

Goroutines == Callers \cup {Main}
Status     == {"absent", "starting", "ready", "stopping", "stopped", "failed"}
PCs        == {"idle", "preparing", "health", "publish", "abortWait",
               "signal", "stopWait", "killWait", "finish"}
ProcStates == {"none", "running", "exited", "reaped", "orphan"}
\* An empty map, and a sessions.json that does not exist: sessions are never
\* deleted, so no written file lists none.
Nothing    == [s \in SessionIDs |-> "absent"]

-----------------------------------------------------------------------------
(* Persistence *)

\* persistLocked: the whole map replaces the file; a write error is dropped.
persistLocked(items) ==
  \/ /\ disk' = items
     /\ foreign' = FALSE
     /\ UNCHANGED writeErrors
  \/ /\ writeErrors < MaxWriteErrors
     /\ writeErrors' = writeErrors + 1
     /\ UNCHANGED <<disk, foreign>>

\* Fault: reconcile keeps one of the live statuses it finds.
ReconciledKeepsStopping(prior) ==
  [s \in SessionIDs |->
     IF prior[s] \in {"starting", "ready"} THEN "failed" ELSE prior[s]]

\* What reconcile makes of the sessions an earlier daemon left in the file.
Reconciled(prior) ==
  [s \in SessionIDs |->
     IF prior[s] \in {"ready", "starting", "stopping"} THEN "failed" ELSE prior[s]]

-----------------------------------------------------------------------------
(* Daemon start: NewWithEvents -> reconcile *)

Start ==
  /\ phase = "down"
  /\ starts < MaxStarts
  /\ phase' = "serving"
  /\ starts' = starts + 1
  /\ stateErr' = foreign
  /\ mem' = Reconciled(disk)
  /\ IF foreign \/ disk = Nothing
       THEN UNCHANGED <<disk, foreign, writeErrors>>
       ELSE persistLocked(mem')
  /\ UNCHANGED <<owned, monitors, queue, callVars, osVars, rival, rivals, observed>>

-----------------------------------------------------------------------------
(* Create and Ensure *)

\* The call is in Create's unlocked part: resolve, checkFit, adapter.Prepare.
\* A handler whose request was accepted earlier gets here while serve is
\* already shutting down, too.
Create(c, m) ==
  /\ phase # "down"
  /\ pc[c] = "idle"
  /\ ~stateErr
  /\ pc' = [pc EXCEPT ![c] = "preparing"]
  /\ want' = [want EXCEPT ![c] = m]
  /\ UNCHANGED <<daemonVars, tgt, stopErr, osVars, fileVars, budgets, observed>>

\* Ensure looks for a ready session under mu and calls Create after unlocking.
Ensure(c, m) ==
  /\ \A s \in SessionIDs : mem[s] = "ready" => model[s] # m
  /\ Create(c, m)

\* The call of c is over and its goroutine serves the next request.
Return(c) ==
  /\ pc' = [pc EXCEPT ![c] = "idle"]
  /\ tgt' = [tgt EXCEPT ![c] = None]
  /\ want' = [want EXCEPT ![c] = None]
  /\ stopErr' = stopErr \ {c}

\* resolve, checkFit, Prepare, gpuLayers or Execute returned an error.
CreateFails(c) ==
  /\ pc[c] = "preparing"
  /\ Return(c)
  /\ UNCHANGED <<daemonVars, osVars, fileVars, budgets, observed>>

\* Adapter.Start: Execute has started the child; Health polls it.
Execute(c, s) ==
  /\ pc[c] = "preparing"
  /\ proc[s] = "none"
  /\ proc' = [proc EXCEPT ![s] = "running"]
  /\ model' = [model EXCEPT ![s] = want[c]]
  /\ tgt' = [tgt EXCEPT ![c] = s]
  /\ pc' = [pc EXCEPT ![c] = "health"]
  /\ UNCHANGED <<daemonVars, want, stopErr, sig, fileVars, budgets, observed>>

\* A 2xx from /health: Start returns a ready session that no map holds yet.
Healthy(c) ==
  /\ pc[c] = "health"
  /\ proc[tgt[c]] = "running"
  /\ pc' = [pc EXCEPT ![c] = "publish"]
  /\ UNCHANGED <<daemonVars, tgt, want, stopErr, osVars, fileVars, budgets, observed>>

\* Create registers the session under mu, persists, and starts its monitor.
Publish(c) ==
  LET s == tgt[c] IN
  /\ pc[c] = "publish"
  /\ mem' = [mem EXCEPT ![s] = "ready"]
  /\ owned' = owned \cup {s}
  /\ monitors' = monitors \cup {s}
  /\ known' = known \cup {s}
  /\ persistLocked(mem')
  /\ Return(c)
  /\ UNCHANGED <<phase, stateErr, queue, osVars, rival, starts, rivals, listed>>

-----------------------------------------------------------------------------
(* localProcess.Stop, shared by adapter.Stop and by a Start that gives up *)

\* Signal(Interrupt) reached the child; where it is unsupported, Kill did.
Interrupt(s) ==
  sig' = [sig EXCEPT ![s] = IF Windows \/ @ = "kill" THEN "kill" ELSE "int"]

\* Fault: the second signal is an interrupt again.
KillAsksAgain(s) == sig' = [sig EXCEPT ![s] = "int"]

\* The caller's context expired before the child did: Kill.
Kill(s) == sig' = [sig EXCEPT ![s] = "kill"]

\* Fault: Start returns its error and leaves the child alone.
HealthTimeoutLeaks(c) ==
  /\ pc[c] = "health"
  /\ Return(c)
  /\ UNCHANGED <<daemonVars, osVars, fileVars, budgets, observed>>

\* Health timed out after 60 s: process.Stop, whose error is dropped.
HealthTimeout(c) ==
  LET s == tgt[c] IN
  /\ pc[c] = "health"
  /\ IF proc[s] = "reaped"
       THEN Return(c) /\ UNCHANGED sig
       ELSE /\ Interrupt(s)
            /\ pc' = [pc EXCEPT ![c] = "abortWait"]
            /\ UNCHANGED <<tgt, want, stopErr>>
  /\ UNCHANGED <<daemonVars, proc, model, fileVars, budgets, observed>>

AbortKill(c) ==
  /\ pc[c] = "abortWait"
  /\ sig[tgt[c]] = "int"
  /\ proc[tgt[c]] # "reaped"
  /\ Kill(tgt[c])
  /\ UNCHANGED <<daemonVars, callVars, proc, model, fileVars, budgets, observed>>

AbortDone(c) ==
  /\ pc[c] = "abortWait"
  /\ proc[tgt[c]] = "reaped"
  /\ Return(c)
  /\ UNCHANGED <<daemonVars, osVars, fileVars, budgets, observed>>

-----------------------------------------------------------------------------
(* Stop *)

\* Manager.Stop up to the unlock.  The current status is not looked at.
StopBegin(c, s) ==
  /\ pc[c] = "idle"
  /\ ~stateErr
  /\ mem[s] # "absent"
  /\ s \in owned
  /\ mem' = [mem EXCEPT ![s] = "stopping"]
  /\ persistLocked(mem')
  /\ pc' = [pc EXCEPT ![c] = "signal"]
  /\ tgt' = [tgt EXCEPT ![c] = s]
  /\ UNCHANGED <<phase, stateErr, owned, monitors, want, stopErr,
                 osVars, rival, starts, rivals, observed>>

\* deleteSession, like createSession as long as the process exists
Stop(c, s) ==
  /\ phase # "down"
  /\ StopBegin(c, s)
  /\ UNCHANGED queue

\* adapter.Stop has returned: it wrote "stopped", error or not, without mu.
AdapterReturns(c, failed) ==
  /\ mem' = [mem EXCEPT ![tgt[c]] = "stopped"]
  /\ stopErr' = IF failed THEN stopErr \cup {c} ELSE stopErr
  /\ pc' = [pc EXCEPT ![c] = "finish"]

\* adapter.Stop writes "stopping" without mu and signals the child.
Signal(c) ==
  /\ pc[c] = "signal"
  /\ proc[tgt[c]] # "reaped"
  /\ mem' = [mem EXCEPT ![tgt[c]] = "stopping"]
  /\ Interrupt(tgt[c])
  /\ pc' = [pc EXCEPT ![c] = IF Windows THEN "killWait" ELSE "stopWait"]
  /\ UNCHANGED <<phase, stateErr, owned, monitors, queue, tgt, want,
                 stopErr, proc, model, fileVars, budgets, observed>>

\* The child was already waited for: Signal fails, Kill fails, Stop errs.
SignalRefused(c) ==
  /\ pc[c] = "signal"
  /\ proc[tgt[c]] = "reaped"
  /\ AdapterReturns(c, TRUE)
  /\ UNCHANGED <<phase, stateErr, owned, monitors, queue, tgt, want,
                 osVars, fileVars, budgets, observed>>

\* Fault: Stop returns after Kill without waiting for the child.
StopTimeoutNoWait(c) ==
  /\ pc[c] = "stopWait"
  /\ proc[tgt[c]] # "reaped"
  /\ Kill(tgt[c])
  /\ AdapterReturns(c, FALSE)
  /\ UNCHANGED <<phase, stateErr, owned, monitors, queue, tgt, want,
                 proc, model, fileVars, budgets, observed>>

\* Fault: Stop ignores its context and waits for the child for ever.
StopTimeoutNever(c) == FALSE

StopTimeout(c) ==
  /\ pc[c] = "stopWait"
  /\ proc[tgt[c]] # "reaped"
  /\ Kill(tgt[c])
  /\ pc' = [pc EXCEPT ![c] = "killWait"]
  /\ UNCHANGED <<daemonVars, tgt, want, stopErr, proc, model,
                 fileVars, budgets, observed>>

\* Both channels of the select are ready and ctx.Done() is drawn: Kill errs.
StopTimeoutLate(c) ==
  /\ pc[c] = "stopWait"
  /\ proc[tgt[c]] = "reaped"
  /\ AdapterReturns(c, TRUE)
  /\ UNCHANGED <<phase, stateErr, owned, monitors, queue, tgt, want,
                 osVars, fileVars, budgets, observed>>

StopDone(c) ==
  /\ pc[c] \in {"stopWait", "killWait"}
  /\ proc[tgt[c]] = "reaped"
  /\ AdapterReturns(c, FALSE)
  /\ UNCHANGED <<phase, stateErr, owned, monitors, queue, tgt, want,
                 osVars, fileVars, budgets, observed>>

\* The second locked part of Manager.Stop.
StopFinish(c) ==
  /\ pc[c] = "finish"
  /\ mem' = [mem EXCEPT ![tgt[c]] = IF c \in stopErr THEN "failed" ELSE "stopped"]
  /\ persistLocked(mem')
  /\ Return(c)
  /\ UNCHANGED <<phase, stateErr, owned, monitors, queue, osVars, rival,
                 starts, rivals, observed>>

-----------------------------------------------------------------------------
(* monitor *)

\* A goroutine is inside adapter.Stop, which assigns Status without mu.
UnlockedWrite(s) ==
  \E c \in Goroutines : tgt[c] = s /\ pc[c] \in {"signal", "stopWait", "killWait"}

\* The monitor reads a status that is neither "stopping" nor "stopped".  A
\* string is two words, so a read beside an unlocked write can be torn.
ReadsAsLive(s) == mem[s] \notin {"stopping", "stopped"} \/ UnlockedWrite(s)

\* Faults: the monitor does not persist, does not set the status, or sets one
\* the API does not document.
MonitorForgetsFile(s) ==
  /\ s \in monitors
  /\ proc[s] = "reaped"
  /\ ReadsAsLive(s)
  /\ monitors' = monitors \ {s}
  /\ mem' = [mem EXCEPT ![s] = "failed"]
  /\ UNCHANGED <<phase, stateErr, owned, queue, callVars, osVars, fileVars,
                 budgets, observed>>

MonitorForgetsStatus(s) ==
  /\ s \in monitors
  /\ proc[s] = "reaped"
  /\ ReadsAsLive(s)
  /\ monitors' = monitors \ {s}
  /\ UNCHANGED <<phase, stateErr, mem, owned, queue, callVars, osVars, fileVars,
                 budgets, observed>>

MonitorSaysExited(s) ==
  /\ s \in monitors
  /\ proc[s] = "reaped"
  /\ ReadsAsLive(s)
  /\ monitors' = monitors \ {s}
  /\ mem' = [mem EXCEPT ![s] = "exited"]
  /\ persistLocked(mem')
  /\ UNCHANGED <<phase, stateErr, owned, queue, callVars, osVars, rival,
                 starts, rivals, observed>>

MonitorFails(s) ==
  /\ s \in monitors
  /\ proc[s] = "reaped"
  /\ ReadsAsLive(s)
  /\ monitors' = monitors \ {s}
  /\ mem' = [mem EXCEPT ![s] = "failed"]
  /\ persistLocked(mem')
  /\ UNCHANGED <<phase, stateErr, owned, queue, callVars, osVars, rival,
                 starts, rivals, observed>>

MonitorIgnores(s) ==
  /\ s \in monitors
  /\ proc[s] = "reaped"
  /\ mem[s] \in {"stopping", "stopped"}
  /\ monitors' = monitors \ {s}
  /\ UNCHANGED <<phase, stateErr, mem, owned, queue, callVars, osVars,
                 fileVars, budgets, observed>>

-----------------------------------------------------------------------------
(* Child processes *)

\* The child ends, by itself, by a crash or by a signal.
ProcessExit(s) ==
  /\ proc[s] \in {"running", "orphan"}
  /\ proc' = [proc EXCEPT ![s] = IF @ = "running" THEN "exited" ELSE "reaped"]
  /\ UNCHANGED <<daemonVars, callVars, sig, model, fileVars, budgets, observed>>

\* The goroutine of Local.Execute: cmd.Wait returned, done is closed.
Reap(s) ==
  /\ proc[s] = "exited"
  /\ proc' = [proc EXCEPT ![s] = "reaped"]
  /\ UNCHANGED <<daemonVars, callVars, sig, model, fileVars, budgets, observed>>

-----------------------------------------------------------------------------
(* Shutdown and crash *)

\* POST /shutdown or a signal: the listener closes, handlers keep running.
\* Serve returns at once (shutdown request) or after at most 8 s (signal).
ShutdownBegin ==
  /\ phase = "serving"
  /\ phase' = "closing"
  /\ UNCHANGED <<stateErr, mem, owned, monitors, queue, callVars, osVars,
                 fileVars, budgets, observed>>

\* Manager.Shutdown takes its one snapshot.
ShutdownList ==
  /\ phase = "closing"
  /\ phase' = "stopping"
  /\ queue' = {s \in SessionIDs : mem[s] \in {"ready", "starting"}}
  /\ listed' = queue'
  /\ UNCHANGED <<stateErr, mem, owned, monitors, callVars, osVars, fileVars,
                 budgets, known>>

\* Fault: Shutdown passes over a session that a client is already stopping.
ShutdownSkips(s) ==
  /\ s \in queue
  /\ pc[Main] = "idle"
  /\ queue' = queue \ {s}
  /\ IF mem[s] = "ready"
       THEN StopBegin(Main, s)
       ELSE UNCHANGED <<phase, stateErr, mem, owned, monitors, callVars, osVars,
                        fileVars, budgets, observed>>

ShutdownStop(s) ==
  /\ s \in queue
  /\ queue' = queue \ {s}
  /\ StopBegin(Main, s)

\* The daemon process is gone: its memory with it, its children orphaned
\* (Unix) or killed by their job object (Windows).
DaemonGone ==
  /\ phase' = "down"
  /\ stateErr' = FALSE
  /\ mem' = Nothing
  /\ owned' = {}
  /\ monitors' = {}
  /\ queue' = {}
  /\ listed' = {}
  /\ pc' = [c \in Goroutines |-> "idle"]
  /\ tgt' = [c \in Goroutines |-> None]
  /\ want' = [c \in Goroutines |-> None]
  /\ stopErr' = {}
  /\ proc' = [s \in SessionIDs |->
                IF proc[s] \notin {"running", "exited"} THEN proc[s]
                ELSE IF Windows \/ proc[s] = "exited" THEN "reaped" ELSE "orphan"]
  /\ UNCHANGED <<sig, model, budgets, known>>

ShutdownDone == phase = "stopping" /\ queue = {} /\ pc[Main] = "idle"

Exit == ShutdownDone /\ DaemonGone /\ UNCHANGED fileVars

Crash == phase # "down" /\ DaemonGone /\ UNCHANGED fileVars

\* Some goroutine, or the reconcile of a daemon that starts, can be inside
\* persistLocked.
PersistPending ==
  \/ owned # {}
  \/ \E c \in Goroutines : pc[c] = "publish"
  \/ phase = "down" /\ starts < MaxStarts

\* atomicReplace moves the old file aside before the new one takes its
\* name: a crash between the two renames leaves no sessions.json.
CrashInReplace ==
  /\ PersistPending
  /\ disk # Nothing
  /\ DaemonGone
  /\ disk' = Nothing
  /\ UNCHANGED <<foreign, rival>>

-----------------------------------------------------------------------------
(* A second `backpack serve': it reconciles the file before it finds out  *)
(* that a healthy daemon is running and gives up.                         *)

RivalReads ==
  /\ phase # "down"
  /\ rival = None
  /\ rivals < MaxRivals
  /\ disk # Nothing
  /\ rivals' = rivals + 1
  /\ rival' = Reconciled(disk)
  /\ UNCHANGED <<daemonVars, callVars, osVars, disk, foreign, starts,
                 writeErrors, observed>>

RivalWrites ==
  /\ rival # None
  /\ disk' = rival
  /\ foreign' = FALSE
  /\ rival' = None
  /\ UNCHANGED <<daemonVars, callVars, osVars, budgets, observed>>

-----------------------------------------------------------------------------
Init ==
  /\ phase = "down"
  /\ stateErr = FALSE
  /\ mem = Nothing
  /\ owned = {} /\ monitors = {} /\ queue = {}
  /\ pc = [c \in Goroutines |-> "idle"]
  /\ tgt = [c \in Goroutines |-> None]
  /\ want = [c \in Goroutines |-> None]
  /\ stopErr = {}
  /\ proc = [s \in SessionIDs |-> "none"]
  /\ sig = [s \in SessionIDs |-> "none"]
  /\ model = [s \in SessionIDs |-> None]
  /\ disk = Nothing
  /\ foreign \in BOOLEAN
  /\ rival = None
  /\ starts = 0 /\ writeErrors = 0 /\ rivals = 0
  /\ known = {} /\ listed = {}

Request(c) ==
  \/ \E m \in Models : Create(c, m) \/ Ensure(c, m)
  \/ \E s \in SessionIDs : Stop(c, s)

Creating(c) ==
  \/ CreateFails(c)
  \/ \E s \in SessionIDs : Execute(c, s)
  \/ Healthy(c)
  \/ Publish(c)
  \/ HealthTimeout(c)
  \/ AbortKill(c)
  \/ AbortDone(c)

Stopping(c) ==
  \/ Signal(c)
  \/ SignalRefused(c)
  \/ StopTimeout(c)
  \/ StopTimeoutLate(c)
  \/ StopDone(c)
  \/ StopFinish(c)

Monitor(s) == MonitorFails(s) \/ MonitorIgnores(s)

Shutdown == ShutdownList \/ (\E s \in SessionIDs : ShutdownStop(s)) \/ Exit

Environment ==
  \/ Start
  \/ ShutdownBegin
  \/ Crash
  \/ CrashInReplace
  \/ RivalReads
  \/ RivalWrites

Next ==
  \/ \E c \in Callers : Request(c) \/ Creating(c)
  \/ \E c \in Goroutines : Stopping(c)
  \/ \E s \in SessionIDs : Monitor(s) \/ ProcessExit(s) \/ Reap(s)
  \/ Shutdown
  \/ Environment

Spec == Init /\ [][Next]_vars

\* What the Go scheduler and the operating system do guarantee: a runnable
\* goroutine runs, a timer fires, a killed process ends.  Requests, crashes,
\* health answers and spontaneous exits are never forced.
Fairness ==
  /\ \A c \in Goroutines : WF_vars(Stopping(c))
  /\ \A c \in Callers : WF_vars(CreateFails(c) \/ HealthTimeout(c) \/ AbortKill(c) \/ AbortDone(c))
  /\ \A s \in SessionIDs :
       /\ WF_vars(Monitor(s))
       /\ WF_vars(Reap(s))
       /\ WF_vars(sig[s] = "kill" /\ ProcessExit(s))
  /\ WF_vars(Shutdown)

FairSpec == Spec /\ Fairness

-----------------------------------------------------------------------------
(* Properties *)

\* The type invariant of the manager, its goroutines, children and file.
TypeOK ==
  /\ phase \in {"down", "serving", "closing", "stopping"}
  /\ stateErr \in BOOLEAN /\ foreign \in BOOLEAN
  /\ mem \in [SessionIDs -> Status]
  /\ disk \in [SessionIDs -> Status]
  /\ rival \in [SessionIDs -> Status] \cup {None}
  /\ owned \subseteq SessionIDs /\ monitors \subseteq SessionIDs
  /\ queue \subseteq SessionIDs /\ listed \subseteq SessionIDs
  /\ known \subseteq SessionIDs
  /\ pc \in [Goroutines -> PCs]
  /\ tgt \in [Goroutines -> SessionIDs \cup {None}]
  /\ want \in [Goroutines -> Models \cup {None}]
  /\ stopErr \subseteq Goroutines
  /\ proc \in [SessionIDs -> ProcStates]
  /\ sig \in [SessionIDs -> {"none", "int", "kill"}]
  /\ model \in [SessionIDs -> Models \cup {None}]
  /\ starts \in 0..MaxStarts
  /\ writeErrors \in 0..MaxWriteErrors
  /\ rivals \in 0..MaxRivals

\* A session the manager calls ready is owned, and its monitor has not
\* returned: a crash of its process cannot go unnoticed (Create's go monitor
\* against the early return of monitor).
ReadyIsWatched ==
  \A s \in SessionIDs : mem[s] = "ready" => s \in owned \cap monitors

\* "stopped" is only ever said of a dead process: in memory, although the
\* adapter writes it without the mutex and before Stop knows the outcome, in
\* sessions.json, and in a list a second server is about to write there.
StoppedIsDead ==
  \A s \in SessionIDs :
    \/ mem[s] = "stopped"
    \/ disk[s] = "stopped"
    \/ rival # None /\ rival[s] = "stopped"
    => proc[s] = "reaped"

\* A child of the live daemon is never lost sight of: either its session is
\* ready or stopping, so that Stop and monitor still lead to it, or a Start
\* that will publish or abort it is running.
NoStrayProcess ==
  \A s \in SessionIDs : proc[s] \in {"running", "exited"} =>
    \/ s \in owned /\ mem[s] \in {"ready", "stopping"}
    \/ \E c \in Callers : tgt[c] = s /\ pc[c] \in {"health", "publish", "abortWait"}

\* While no Stop is between its two locked parts, sessions.json says what the
\* manager says, unless a write failed or a second server wrote it: no status
\* change forgets to persist and the unlocked writes do not survive.
QuiescentFileAgrees ==
  /\ phase # "down"
  /\ ~stateErr
  /\ writeErrors = 0 /\ rivals = 0
  /\ \A c \in Goroutines : pc[c] \notin {"signal", "stopWait", "killWait", "finish"}
  => disk = mem

\* Manager.Shutdown stops what it listed: when serve is about to return every
\* session of the snapshot has ended, even one that a client was stopping or
\* that failed at the same time.
ShutdownStopsListed ==
  ShutdownDone => \A s \in listed : proc[s] = "reaped"

\* An id is served once: after it left "ready", through Stop, its monitor, a
\* crash or a restart that finds it in the file, no client sees it ready again.
NeverReadyAgain ==
  [][\A s \in known : mem[s] # "ready" => mem'[s] # "ready"]_vars

\* sessions.json written by a newer Backpack is never replaced by this one.
FutureStatePreserved == [][foreign => foreign']_vars

\* An unexpected exit is detected: a ready session whose process is gone does
\* not stay ready.
ExitIsDetected ==
  \A s \in SessionIDs :
    mem[s] = "ready" /\ proc[s] # "running" ~> mem[s] # "ready"

\* Stop settles: every call ends with the session stopped or failed.
StopSettles ==
  \A s \in SessionIDs : mem[s] = "stopping" ~> mem[s] # "stopping"

\* A shutdown ends, whatever the children and the other requests do.
ShutdownEnds == phase = "closing" ~> phase = "down"

\* docs/runtime-lifecycle.md: "Graceful shutdown stops children with a
\* forced-kill timeout."  After an orderly exit no child is left behind.
GracefulShutdownStopsChildren ==
  [][Exit => \A s \in SessionIDs : proc'[s] = "orphan" => proc[s] = "orphan"]_vars

-----------------------------------------------------------------------------
(* The contract of an id, as a client of the API relies on it. *)

Stage(status) ==
  IF status = "absent" THEN "forgotten"
  ELSE IF status = "ready" THEN "serving"
  ELSE IF status = "stopping" THEN "ending" ELSE "ended"

\* A client that asks while no daemon runs hears what the next one will say.
life == [s \in SessionIDs |->
  IF s \notin known THEN "new"
  ELSE Stage(IF phase = "down" THEN Reconciled(disk)[s] ELSE mem[s])]

Contract == INSTANCE SessionContract WITH ids <- SessionIDs
ImplementsContract == Contract!Spec
=============================================================================
