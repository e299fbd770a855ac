------------------------------- MODULE Daemon -------------------------------
(***************************************************************************)
(* How backpack commands find, start, upgrade and share the one local      *)
(* service (internal/daemon, and `backpack serve' in internal/cli).        *)
(*                                                                         *)
(* A command and a daemon are operating-system processes that share files: *)
(* runtime.json (who serves, where), its staging file runtime.json.tmp,    *)
(* and startup.lock.  Every access to one of them is a step of its own, as *)
(* is every request over loopback HTTP.  The content of a file write and   *)
(* the choice of a port are taken to be atomic.                            *)
(***************************************************************************)
EXTENDS Naturals, FiniteSets

CONSTANTS
  Clis,         \* backpack commands that call daemon.Ensure
  Daemons,      \* process ids daemons can get
  Ports,        \* loopback ports
  Preferred,    \* 127.0.0.1:11434
  None,         \* no file, no record
  Newer,        \* a runtime.json of a schema this binary does not support
  MaxCalls,     \* bound: commands run
  MaxUpdates,   \* bound: replacements of the installed executable
  MaxServes,    \* bound: daemons started by hand with `backpack serve'
  MaxSessions,  \* bound: daemons with active sessions
  MaxKills,     \* bound: commands interrupted half-way
  MaxAges,      \* bound: locks that turn 20 s old while their holder lives
  MaxCrashes,   \* bound: daemons that die
  MaxStops,     \* bound: signals that end a daemon in order
  MaxLates      \* bound: health answers and daemon starts past their deadline

Procs == Clis \cup Daemons

ASSUME ProcsAssumption == Clis \cap Daemons = {}
ASSUME PortsAssumption == Preferred \in Ports
ASSUME BoundsAssumption ==
  /\ MaxCalls \in Nat /\ MaxUpdates \in Nat /\ MaxServes \in Nat
  /\ MaxSessions \in Nat /\ MaxKills \in Nat /\ MaxAges \in Nat
  /\ MaxCrashes \in Nat /\ MaxStops \in Nat /\ MaxLates \in Nat

VARIABLES
  state,      \* runtime.json
  tmp,        \* runtime.json.tmp
  lock,       \* startup.lock: who created it, and whether it is 20 s old
  pc,         \* what each process is about to do
  seen,       \* the state it read last
  rec,        \* the state it writes; a daemon's is its own address
  ver,        \* version of each command's executable
  busy,       \* daemons with active sessions
  installed,  \* version of the executable on disk
  calls, serves, kills, ages, crashes, stops, lates  \* used budgets

files   == <<state, tmp, lock>>
procs   == <<pc, seen, rec, ver>>
budgets == <<calls, serves, kills, ages, crashes, stops, lates>>
vars == <<files, procs, busy, installed, budgets>>

Versions == 1..(1 + MaxUpdates)
States   == [pid : Daemons, port : Ports, version : Versions]
Locks    == [by : Clis, aged : BOOLEAN]
\* No file is not a file, and a newer schema is not one this binary knows.
ASSUME FilesAssumption == None \notin States \cup Locks /\ Newer \notin States \cup {None}
CliPCs   == {"idle", "check", "acquire", "steal", "locked", "recheck", "version",
             "sessions", "shutdown", "poll", "unclaim", "clear", "spawn",
             "tmp", "remove", "rename", "wait"}
DaemonPCs == {"none", "read", "check", "tmp", "remove", "rename", "listen",
              "serving", "closing", "clear", "dead"}
\* Between acquire and the deferred removal of startup.lock.
Holding  == CliPCs \ {"idle", "check", "acquire", "steal"}
Starting == {"read", "check", "tmp", "remove", "rename", "listen"}

-----------------------------------------------------------------------------
(* Files and requests *)

\* Fault: the schema of runtime.json is not looked at.
ReadAnySchema == state

\* Read: a missing file and one of a newer schema are both an error.
Read == IF state = Newer THEN None ELSE state

Serving(port) == {d \in Daemons : pc[d] = "serving" /\ rec[d].port = port}

\* Something answers at the endpoint of a state that was read.
Answers(s) == s # None /\ Serving(s.port) # {}

\* The outcome of a health check; a slow daemon misses its deadline.
Health(s, up) ==
  \/ up = Answers(s) /\ UNCHANGED lates
  \/ ~up /\ Answers(s) /\ lates < MaxLates /\ lates' = lates + 1

Goto(p, step) == pc' = [pc EXCEPT ![p] = step]

\* Ensure returns without having locked, and with the deferred removal of the
\* lock file, whoever created it.
Leave(c) ==
  /\ Goto(c, "idle")
  /\ seen' = [seen EXCEPT ![c] = None]
  /\ rec' = [rec EXCEPT ![c] = None]

Release(c) == Leave(c) /\ lock' = None

-----------------------------------------------------------------------------
(* Ensure: reuse without the lock *)

Invoke(c) ==
  /\ pc[c] = "idle"
  /\ calls < MaxCalls
  /\ calls' = calls + 1
  /\ ver' = [ver EXCEPT ![c] = installed]
  /\ seen' = [seen EXCEPT ![c] = Read]
  /\ Goto(c, "check")
  /\ UNCHANGED <<files, rec, busy, installed, serves, kills, ages, crashes, stops, lates>>

FastCheck(c) ==
  /\ pc[c] = "check"
  /\ \E up \in BOOLEAN :
       /\ Health(seen[c], up)
       /\ IF up /\ seen[c].version = ver[c]
            THEN Leave(c)
            ELSE Goto(c, "acquire") /\ UNCHANGED <<seen, rec>>
  /\ UNCHANGED <<files, ver, busy, installed, calls, serves, kills, ages, crashes, stops>>

-----------------------------------------------------------------------------
(* acquire *)

Acquire(c) ==
  /\ pc[c] = "acquire"
  /\ lock = None
  /\ lock' = [by |-> c, aged |-> FALSE]
  /\ Goto(c, "locked")
  /\ UNCHANGED <<state, tmp, seen, rec, ver, busy, installed, budgets>>

\* Fault: any lock that has to be waited for is taken for a stale one.
StatImpatient(c) ==
  /\ pc[c] = "acquire"
  /\ lock # None
  /\ Goto(c, "steal")
  /\ UNCHANGED <<files, seen, rec, ver, busy, installed, budgets>>

\* Stat found the lock file more than 20 s old; Remove takes the file that
\* has the name by then.
StatStale(c) ==
  /\ pc[c] = "acquire"
  /\ lock # None /\ lock.aged
  /\ Goto(c, "steal")
  /\ UNCHANGED <<files, seen, rec, ver, busy, installed, budgets>>

Steal(c) ==
  /\ pc[c] = "steal"
  /\ lock' = None
  /\ Goto(c, "acquire")
  /\ UNCHANGED <<state, tmp, seen, rec, ver, busy, installed, budgets>>

-----------------------------------------------------------------------------
(* Ensure: under the lock *)

\* Faults: the state read before the lock is used under it; it is not checked.
RereadKeepsFirst(c) ==
  /\ pc[c] = "locked"
  /\ Goto(c, "recheck")
  /\ UNCHANGED <<files, seen, rec, ver, busy, installed, budgets>>

Reread(c) ==
  /\ pc[c] = "locked"
  /\ seen' = [seen EXCEPT ![c] = Read]
  /\ Goto(c, "recheck")
  /\ UNCHANGED <<files, rec, ver, busy, installed, budgets>>

Recheck(c) ==
  /\ pc[c] = "recheck"
  /\ \E up \in BOOLEAN :
       /\ Health(seen[c], up)
       /\ IF up /\ seen[c].version = ver[c]
            THEN Release(c)
            ELSE /\ Goto(c, IF up THEN "version" ELSE "spawn")
                 /\ UNCHANGED <<lock, seen, rec>>
  /\ UNCHANGED <<state, tmp, ver, busy, installed, calls, serves, kills, ages, crashes, stops>>

\* Fault: the version in runtime.json is trusted, the daemon is not asked.
AskVersionSkipped(c) ==
  /\ pc[c] = "version"
  /\ Goto(c, "sessions")
  /\ UNCHANGED <<files, seen, rec, ver, busy, installed, budgets>>

\* replaceOutdated.  A request that fails ends Ensure with its error.
AskVersion(c) ==
  /\ pc[c] = "version"
  /\ \/ /\ ~Answers(seen[c])
        /\ Release(c)
     \/ \E d \in Daemons :
          /\ Answers(seen[c])
          /\ d \in Serving(seen[c].port)
          /\ IF rec[d].version = ver[c]
               THEN /\ rec' = [rec EXCEPT ![c] = [seen[c] EXCEPT !.version = ver[c]]]
                    /\ Goto(c, "tmp")
               ELSE Goto(c, "sessions") /\ UNCHANGED rec
          /\ UNCHANGED <<lock, seen>>
  /\ UNCHANGED <<state, tmp, ver, busy, installed, budgets>>

AskSessions(c) ==
  /\ pc[c] = "sessions"
  /\ IF Answers(seen[c]) /\ Serving(seen[c].port) \cap busy = {}
       THEN Goto(c, "shutdown") /\ UNCHANGED <<lock, seen, rec>>
       ELSE Release(c)
  /\ UNCHANGED <<state, tmp, ver, busy, installed, budgets>>

\* The API key in the state is the one of the process it names.
AskShutdown(c) ==
  /\ pc[c] = "shutdown"
  /\ IF Answers(seen[c]) /\ seen[c].pid \in Serving(seen[c].port)
       THEN /\ pc' = [pc EXCEPT ![c] = "poll", ![seen[c].pid] = "closing"]
            /\ UNCHANGED <<lock, seen, rec>>
       ELSE Release(c)
  /\ UNCHANGED <<state, tmp, ver, busy, installed, budgets>>

\* Health is polled for 5 s; one failure is taken for the end of the daemon.
Poll(c) ==
  /\ pc[c] = "poll"
  /\ \E up \in BOOLEAN :
       /\ Health(seen[c], up)
       /\ IF up THEN Release(c)
          ELSE Goto(c, "unclaim") /\ UNCHANGED <<lock, seen, rec>>
  /\ UNCHANGED <<state, tmp, ver, busy, installed, calls, serves, kills, ages, crashes, stops>>

\* ClearIfOwned(p, state.PID): read, then remove.
Unclaim(c) ==
  /\ pc[c] = "unclaim"
  /\ Goto(c, IF Read # None /\ Read.pid = seen[c].pid THEN "clear" ELSE "spawn")
  /\ UNCHANGED <<files, seen, rec, ver, busy, installed, budgets>>

Clear(c) ==
  /\ pc[c] = "clear"
  /\ state' = None
  /\ Goto(c, "spawn")
  /\ UNCHANGED <<tmp, lock, seen, rec, ver, busy, installed, budgets>>

\* endpoint: the preferred port when it can be bound, otherwise a free one.
FreePort(port) ==
  /\ Serving(port) = {}
  /\ port # Preferred => Serving(Preferred) # {}

Spawn(c) ==
  /\ pc[c] = "spawn"
  /\ \E d \in Daemons, port \in Ports :
       /\ pc[d] = "none"
       /\ FreePort(port)
       /\ rec' = [rec EXCEPT ![c] = [pid |-> d, port |-> port, version |-> ver[c]],
                             ![d] = [pid |-> d, port |-> port, version |-> installed]]
       /\ pc' = [pc EXCEPT ![c] = "tmp", ![d] = "read"]
  /\ UNCHANGED <<files, seen, ver, busy, installed, budgets>>

\* No port, key, executable, log file or process.
SpawnFails(c) ==
  /\ pc[c] = "spawn"
  /\ Release(c)
  /\ UNCHANGED <<state, tmp, ver, busy, installed, budgets>>

\* Fault: WaitHealthy has no deadline.
WaitHealthyForever(c) ==
  /\ pc[c] = "wait"
  /\ Answers(rec[c])
  /\ Release(c)
  /\ UNCHANGED <<state, tmp, ver, busy, installed, budgets>>

\* WaitHealthy asks the endpoint, not the child, for up to 15 s.
WaitHealthy(c) ==
  /\ pc[c] = "wait"
  /\ \/ Answers(rec[c]) /\ UNCHANGED lates
     \/ /\ ~Answers(rec[c])
        /\ IF pc[rec[c].pid] \in Starting
             THEN lates < MaxLates /\ lates' = lates + 1
             ELSE UNCHANGED lates
  /\ Release(c)
  /\ UNCHANGED <<state, tmp, ver, busy, installed, calls, serves, kills, ages, crashes, stops>>

-----------------------------------------------------------------------------
(* Write, called by Ensure, replaceOutdated and serve *)

WriteTmp(p) ==
  /\ pc[p] = "tmp"
  /\ tmp' = rec[p]
  /\ Goto(p, "remove")
  /\ UNCHANGED <<state, lock, seen, rec, ver, busy, installed, budgets>>

RemoveState(p) ==
  /\ pc[p] = "remove"
  /\ state' = None
  /\ Goto(p, "rename")
  /\ UNCHANGED <<tmp, lock, seen, rec, ver, busy, installed, budgets>>

\* Write was called by replaceOutdated: the state names the daemon found.
Rewriting(c) == seen[c] # None /\ seen[c].pid = rec[c].pid

\* After a rewrite replaceOutdated returns nil and Ensure starts a daemon.
Rename(p) ==
  /\ pc[p] = "rename"
  /\ tmp # None
  /\ state' = tmp
  /\ tmp' = None
  /\ Goto(p, IF p \in Daemons THEN "listen" ELSE IF Rewriting(p) THEN "spawn" ELSE "wait")
  /\ UNCHANGED <<lock, seen, rec, ver, busy, installed, budgets>>

\* Fault: Ensure reports the failed write and leaves its child running.
RenameFailsLeaks(p) ==
  /\ pc[p] = "rename"
  /\ tmp = None
  /\ IF p \in Daemons THEN Goto(p, "dead") /\ UNCHANGED <<lock, seen, rec>>
                      ELSE Release(p)
  /\ UNCHANGED <<state, tmp, ver, busy, installed, budgets>>

\* Another process has moved the staging file.  Ensure kills its child.
RenameFails(p) ==
  /\ pc[p] = "rename"
  /\ tmp = None
  /\ IF p \in Daemons
       THEN Goto(p, "dead") /\ UNCHANGED <<lock, seen, rec>>
       ELSE /\ pc' = [q \in Procs |-> IF q = p THEN "idle"
                        ELSE IF q = rec[p].pid /\ ~Rewriting(p) THEN "dead" ELSE pc[q]]
            /\ seen' = [seen EXCEPT ![p] = None]
            /\ rec' = [rec EXCEPT ![p] = None]
            /\ lock' = None
  /\ UNCHANGED <<state, tmp, ver, busy, installed, budgets>>

-----------------------------------------------------------------------------
(* serve *)

\* `backpack serve', run by hand.
Serve(d) ==
  /\ pc[d] = "none"
  /\ serves < MaxServes
  /\ serves' = serves + 1
  /\ rec' = [rec EXCEPT ![d] = [pid |-> d, port |-> Preferred, version |-> installed]]
  /\ Goto(d, "read")
  /\ UNCHANGED <<files, seen, ver, busy, installed, calls, kills, ages, crashes, stops, lates>>

ReadExisting(d) ==
  /\ pc[d] = "read"
  /\ seen' = [seen EXCEPT ![d] = Read]
  /\ Goto(d, "check")
  /\ UNCHANGED <<files, rec, ver, busy, installed, budgets>>

\* "Backpack Runtime is already running"
CheckExisting(d) ==
  /\ pc[d] = "check"
  /\ \E up \in BOOLEAN :
       /\ Health(seen[d], up)
       /\ Goto(d, IF up /\ seen[d].pid # d THEN "dead" ELSE "tmp")
  /\ UNCHANGED <<files, seen, rec, ver, busy, installed, calls, serves, kills, ages, crashes, stops>>

\* Serve(ctx, address): a port in use ends serve, with its deferred cleanup.
Listen(d) ==
  /\ pc[d] = "listen"
  /\ Goto(d, IF Serving(rec[d].port) = {} THEN "serving" ELSE "closing")
  /\ UNCHANGED <<files, seen, rec, ver, busy, installed, budgets>>

SessionStarts(d) ==
  /\ pc[d] = "serving"
  /\ d \notin busy
  /\ Cardinality(busy) < MaxSessions
  /\ busy' = busy \cup {d}
  /\ UNCHANGED <<files, procs, installed, budgets>>

SessionsEnd(d) ==
  /\ pc[d] = "serving"
  /\ d \in busy
  /\ busy' = busy \ {d}
  /\ UNCHANGED <<files, procs, installed, budgets>>

\* SIGINT or SIGTERM: the listener closes.
Terminate(d) ==
  /\ pc[d] = "serving"
  /\ stops < MaxStops
  /\ stops' = stops + 1
  /\ Goto(d, "closing")
  /\ UNCHANGED <<files, seen, rec, ver, busy, installed, calls, serves, kills, ages, crashes, lates>>

\* manager.Shutdown is over; the deferred ClearIfOwned reads, then removes.
ReadOwn(d) ==
  /\ pc[d] = "closing"
  /\ busy' = busy \ {d}
  /\ Goto(d, IF Read # None /\ Read.pid = d THEN "clear" ELSE "dead")
  /\ UNCHANGED <<files, seen, rec, ver, installed, budgets>>

ClearOwn(d) ==
  /\ pc[d] = "clear"
  /\ state' = None
  /\ Goto(d, "dead")
  /\ UNCHANGED <<tmp, lock, seen, rec, ver, busy, installed, budgets>>

-----------------------------------------------------------------------------
(* Environment *)

\* A command killed half-way (Ctrl-C is not handled) leaves its lock behind.
KillCli(c) ==
  /\ pc[c] # "idle"
  /\ kills < MaxKills
  /\ kills' = kills + 1
  /\ Leave(c)
  /\ UNCHANGED <<files, ver, busy, installed, calls, serves, ages, crashes, stops, lates>>

CrashDaemon(d) ==
  /\ pc[d] \notin {"none", "dead"}
  /\ crashes < MaxCrashes
  /\ crashes' = crashes + 1
  /\ Goto(d, "dead")
  /\ busy' = busy \ {d}
  /\ UNCHANGED <<files, seen, rec, ver, installed, calls, serves, kills, ages, stops, lates>>

\* 20 s have passed since the lock file was created.
Age ==
  /\ lock # None /\ ~lock.aged
  /\ lock' = [lock EXCEPT !.aged = TRUE]
  /\ IF pc[lock.by] \in Holding
       THEN ages < MaxAges /\ ages' = ages + 1
       ELSE UNCHANGED ages
  /\ UNCHANGED <<state, tmp, procs, busy, installed, calls, serves, kills, crashes, stops, lates>>

Update ==
  /\ installed <= MaxUpdates
  /\ installed' = installed + 1
  /\ UNCHANGED <<files, procs, busy, budgets>>

-----------------------------------------------------------------------------
Init ==
  /\ state \in {None, Newer}
  /\ tmp = None /\ lock = None
  /\ pc = [p \in Procs |-> IF p \in Clis THEN "idle" ELSE "none"]
  /\ seen = [p \in Procs |-> None]
  /\ rec = [p \in Procs |-> None]
  /\ ver = [c \in Clis |-> 1]
  /\ busy = {}
  /\ installed = 1
  /\ calls = 0 /\ serves = 0 /\ kills = 0 /\ ages = 0
  /\ crashes = 0 /\ stops = 0 /\ lates = 0

EnsureStep(c) ==
  \/ FastCheck(c) \/ Acquire(c) \/ StatStale(c) \/ Steal(c)
  \/ Reread(c) \/ Recheck(c)
  \/ AskVersion(c) \/ AskSessions(c) \/ AskShutdown(c)
  \/ Poll(c) \/ Unclaim(c) \/ Clear(c)
  \/ Spawn(c) \/ SpawnFails(c) \/ WaitHealthy(c)

WriteStep(p) == WriteTmp(p) \/ RemoveState(p) \/ Rename(p) \/ RenameFails(p)

ServeStep(d) ==
  \/ ReadExisting(d) \/ CheckExisting(d) \/ Listen(d)
  \/ ReadOwn(d) \/ ClearOwn(d)

Environment ==
  \/ \E c \in Clis : Invoke(c) \/ KillCli(c)
  \/ \E d \in Daemons : \/ Serve(d) \/ SessionStarts(d) \/ SessionsEnd(d)
                        \/ Terminate(d) \/ CrashDaemon(d)
  \/ Age
  \/ Update

Next ==
  \/ \E c \in Clis : EnsureStep(c)
  \/ \E p \in Procs : WriteStep(p)
  \/ \E d \in Daemons : ServeStep(d)
  \/ Environment

Spec == Init /\ [][Next]_vars

\* Processes run, polls end at their deadline, and time passes.
Fairness ==
  /\ \A c \in Clis : WF_vars(EnsureStep(c))
  /\ \A p \in Procs : WF_vars(WriteStep(p))
  /\ \A d \in Daemons : WF_vars(ServeStep(d))
  /\ WF_vars(Age)

FairSpec == Spec /\ Fairness

-----------------------------------------------------------------------------
(* Properties *)

\* The type invariant of the files and the processes.
TypeOK ==
  /\ state \in States \cup {None, Newer}
  /\ tmp \in States \cup {None}
  /\ lock \in Locks \cup {None}
  /\ pc \in [Procs -> CliPCs \cup DaemonPCs]
  /\ \A c \in Clis : pc[c] \in CliPCs
  /\ \A d \in Daemons : pc[d] \in DaemonPCs
  /\ seen \in [Procs -> States \cup {None}]
  /\ rec \in [Procs -> States \cup {None}]
  /\ ver \in [Clis -> Versions] /\ installed \in Versions
  /\ busy \subseteq Daemons
  /\ calls \in 0..MaxCalls /\ serves \in 0..MaxServes
  /\ kills \in 0..MaxKills /\ ages \in 0..MaxAges
  /\ crashes \in 0..MaxCrashes /\ stops \in 0..MaxStops /\ lates \in 0..MaxLates

\* docs/runtime-lifecycle.md: "one caller acquires the startup lock".  No two
\* commands are between acquire and their release (Ensure, acquire).
StartupLockExclusive ==
  \A c, d \in Clis : pc[c] \in Holding /\ pc[d] \in Holding => c = d

\* Nobody has upgraded Backpack, run `backpack serve', ended a process from
\* outside or met one of the deadlines: what remains are commands and the
\* daemons they start, which may crash.
Undisturbed ==
  installed = 1 /\ stops = 0 /\ serves = 0 /\ kills = 0 /\ ages = 0 /\ lates = 0

\* However commands, the daemon they start and its crash interleave, at most
\* one daemon process is alive: the lock, the second look at runtime.json and
\* the kill after a failed Write work together.
OneService == Undisturbed => Cardinality({d \in Daemons : pc[d] \notin {"none", "dead"}}) <= 1

\* docs/runtime-lifecycle.md: the caller "records ownership".  When nobody is
\* writing or cleaning up, runtime.json names the daemon that serves, although
\* Ensure and its child write it at the same time through one staging file.
OwnershipRecorded ==
  (/\ Undisturbed
   /\ \A c \in Clis : pc[c] \notin {"tmp", "remove", "rename"}
   /\ \A d \in Daemons : pc[d] \in {"none", "serving", "dead"})
  => \A d \in Daemons : pc[d] = "serving" => Read # None /\ Read.pid = d

\* docs/runtime-lifecycle.md: a caller "starts the same executable [...],
\* records ownership, and waits for readiness".  With nobody else around,
\* neither Ensure nor the daemon it starts fails to write runtime.json.
StartupSucceeds ==
  [][\A p \in Procs : ~RenameFails(p)]_vars

\* docs/runtime-lifecycle.md: commands "reuse the persistent local service".
\* The daemon an upgrade shuts down is one of another version, although its
\* version is asked for three requests earlier (replaceOutdated), and without
\* an upgrade no daemon is started while the one Ensure has read about answers.
ServiceReused ==
  [][\A c \in Clis :
       /\ AskShutdown(c) /\ pc'[c] = "poll" => rec[seen[c].pid].version # ver[c]
       /\ Undisturbed /\ Spawn(c) => ~Answers(seen[c])]_vars

\* docs/state-migrations.md: readers "reject unknown newer versions without
\* modifying them".  A runtime.json of a newer schema is not replaced.
NewerStateKept == [][state = Newer => state' = Newer]_vars

\* Every command that calls Ensure comes back from it, whoever holds or has
\* left the lock and whatever becomes of the daemon it waits for.
EveryCallEnds == \A c \in Clis : pc[c] # "idle" ~> pc[c] = "idle"
=============================================================================
