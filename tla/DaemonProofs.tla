---------------------------- MODULE DaemonProofs ----------------------------
(***************************************************************************)
(* Proofs about Daemon for any commands, process ids, ports and bounds:    *)
(* type correctness; where no command is killed half-way and none holds    *)
(* the lock for 20 s, exclusiveness of the startup lock; where nobody      *)
(* interferes from outside, that one service runs and is recorded; and     *)
(* that an upgrade shuts down no service but an outdated one.              *)
(***************************************************************************)
EXTENDS Daemon, FiniteSetTheorems, TLAPS

\* A command that writes runtime.json, or waits for what it says, has a record.
WritersHaveRecords ==
  \A c \in Clis : pc[c] \in {"tmp", "remove", "rename", "wait"} => rec[c] # None

\* Where no command is killed and no lock outlives 20 s, the lock file exists
\* exactly while its creator holds it.
LockKept ==
  /\ \A c \in Clis : pc[c] # "steal"
  /\ \A c \in Clis : pc[c] \in Holding => lock # None /\ lock.by = c
  /\ lock # None => pc[lock.by] \in Holding /\ ~lock.aged

TInv == TypeOK /\ WritersHaveRecords

-----------------------------------------------------------------------------
(* Types *)

\* No file, no record, nobody working: the initial state has its type.
LEMMA TypeInit == Init => TInv
BY PortsAssumption, BoundsAssumption, ProcsAssumption
DEF Init, TInv, TypeOK, WritersHaveRecords, Procs, CliPCs, DaemonPCs, Versions

\* Every step of a command, of a daemon and of their environment keeps the
\* types; a write always has a record to write.
LEMMA TypeStep == TInv /\ [Next]_vars => TInv'
<1> SUFFICES ASSUME TInv, [Next]_vars PROVE TInv'
  OBVIOUS
<1> USE ProcsAssumption, FilesAssumption
    DEF TInv, TypeOK, WritersHaveRecords, Procs, CliPCs, DaemonPCs, Versions,
        States, Locks
<1>1. ASSUME NEW c \in Clis, FastCheck(c) PROVE TInv'
  BY <1>1, BoundsAssumption DEF FastCheck, Health, Goto, Leave, files, Answers
<1>2. ASSUME NEW c \in Clis, Acquire(c) PROVE TInv'
  BY <1>2 DEF Acquire, Goto, budgets
<1>3. ASSUME NEW c \in Clis, StatStale(c) PROVE TInv'
  BY <1>3 DEF StatStale, Goto, files, budgets
<1>4. ASSUME NEW c \in Clis, Steal(c) PROVE TInv'
  BY <1>4 DEF Steal, Goto, budgets
<1>5. ASSUME NEW c \in Clis, Reread(c) PROVE TInv'
  BY <1>5 DEF Reread, Read, Goto, files, budgets
<1>6. ASSUME NEW c \in Clis, Recheck(c) PROVE TInv'
  BY <1>6, BoundsAssumption DEF Recheck, Health, Goto, Release, Answers, Leave
<1>7. ASSUME NEW c \in Clis, AskVersion(c) PROVE TInv'
  <2>1. CASE Release(c)
    BY <1>7, <2>1 DEF AskVersion, Release, budgets, Leave, Goto
  <2>2. CASE \E step \in {"tmp", "sessions"} : Goto(c, step) /\ UNCHANGED <<lock, seen>>
    <3>1. rec' \in [Procs -> States \cup {None}] /\ (pc'[c] = "tmp" => rec'[c] # None)
      BY <1>7, <2>2 DEF AskVersion, Goto, Answers, Release, Leave
    <3>2. /\ pc' \in [Procs -> CliPCs \cup DaemonPCs]
          /\ \A d \in Clis : pc'[d] \in CliPCs
          /\ \A d \in Daemons : pc'[d] \in DaemonPCs
      BY <2>2 DEF Goto
    <3>3. UNCHANGED <<state, tmp, lock, seen, ver, installed, busy, budgets>>
      BY <1>7, <2>2 DEF AskVersion
    <3>4. ASSUME NEW d \in Clis, d # c PROVE pc'[d] = pc[d] /\ rec'[d] = rec[d]
      BY <1>7, <2>2, <3>4 DEF AskVersion, Goto, Release, Leave
    <3>5. pc'[c] \in {"tmp", "sessions"}
      BY <2>2 DEF Goto
    <3>6. WritersHaveRecords'
      BY <3>1, <3>4, <3>5
    <3> QED
      BY <3>1, <3>2, <3>3, <3>6 DEF budgets
  <2> QED
    BY <1>7, <2>1, <2>2 DEF AskVersion
<1>8. ASSUME NEW c \in Clis, AskSessions(c) PROVE TInv'
  BY <1>8 DEF AskSessions, Goto, Release, Answers, budgets, Leave
<1>9. ASSUME NEW c \in Clis, AskShutdown(c) PROVE TInv'
  BY <1>9 DEF AskShutdown, Release, Answers, budgets, Leave, Goto
<1>10. ASSUME NEW c \in Clis, Poll(c) PROVE TInv'
  BY <1>10, BoundsAssumption DEF Poll, Health, Goto, Release, Answers, Leave
<1>11. ASSUME NEW c \in Clis, Unclaim(c) PROVE TInv'
  BY <1>11 DEF Unclaim, Read, Goto, files, budgets
<1>12. ASSUME NEW c \in Clis, Clear(c) PROVE TInv'
  BY <1>12 DEF Clear, Goto, budgets
<1>13. ASSUME NEW c \in Clis, Spawn(c) PROVE TInv'
  BY <1>13, BoundsAssumption DEF Spawn, FreePort, files, budgets
<1>14. ASSUME NEW c \in Clis, SpawnFails(c) PROVE TInv'
  BY <1>14 DEF SpawnFails, Release, budgets, Leave, Goto
<1>15. ASSUME NEW c \in Clis, WaitHealthy(c) PROVE TInv'
  BY <1>15, BoundsAssumption DEF WaitHealthy, Release, Answers, Leave, Goto
<1>16. ASSUME NEW p \in Procs, WriteTmp(p) PROVE TInv'
  BY <1>16 DEF WriteTmp, Goto, budgets
<1>17. ASSUME NEW p \in Procs, RemoveState(p) PROVE TInv'
  BY <1>17 DEF RemoveState, Goto, budgets
<1>18. ASSUME NEW p \in Procs, Rename(p) PROVE TInv'
  BY <1>18 DEF Rename, Goto, Rewriting, budgets
<1>19. ASSUME NEW p \in Procs, RenameFails(p) PROVE TInv'
  BY <1>19 DEF RenameFails, Goto, Rewriting, budgets
<1>20. ASSUME NEW d \in Daemons, ReadExisting(d) PROVE TInv'
  BY <1>20 DEF ReadExisting, Read, Goto, files, budgets
<1>21. ASSUME NEW d \in Daemons, CheckExisting(d) PROVE TInv'
  BY <1>21, BoundsAssumption DEF CheckExisting, Health, Goto, files, Answers
<1>22. ASSUME NEW d \in Daemons, Listen(d) PROVE TInv'
  BY <1>22 DEF Listen, Goto, files, budgets
<1>23. ASSUME NEW d \in Daemons, ReadOwn(d) PROVE TInv'
  BY <1>23 DEF ReadOwn, Read, Goto, files, budgets
<1>24. ASSUME NEW d \in Daemons, ClearOwn(d) PROVE TInv'
  BY <1>24 DEF ClearOwn, Goto, budgets
<1>25. ASSUME NEW c \in Clis, Invoke(c) PROVE TInv'
  BY <1>25, BoundsAssumption DEF Invoke, Read, Goto, files
<1>26. ASSUME NEW c \in Clis, KillCli(c) PROVE TInv'
  BY <1>26, BoundsAssumption DEF KillCli, Leave, files, Goto
<1>27. ASSUME NEW d \in Daemons, Serve(d) PROVE TInv'
  BY <1>27, BoundsAssumption, PortsAssumption DEF Serve, Goto, files
<1>28. ASSUME NEW d \in Daemons, SessionStarts(d) PROVE TInv'
  BY <1>28 DEF SessionStarts, files, procs, budgets
<1>29. ASSUME NEW d \in Daemons, SessionsEnd(d) PROVE TInv'
  BY <1>29 DEF SessionsEnd, files, procs, budgets
<1>30. ASSUME NEW d \in Daemons, Terminate(d) PROVE TInv'
  BY <1>30, BoundsAssumption DEF Terminate, Goto, files
<1>31. ASSUME NEW d \in Daemons, CrashDaemon(d) PROVE TInv'
  BY <1>31, BoundsAssumption DEF CrashDaemon, Goto, files
<1>32. CASE Age
  <2>1. lock' \in Locks
    <3>1. lock \in Locks
      BY <1>32 DEF Age
    <3>2. lock' = [by |-> lock.by, aged |-> TRUE]
      BY <1>32, <3>1 DEF Age
    <3>3. QED
      BY <3>1, <3>2
  <2>2. ages' \in 0..MaxAges
    BY <1>32, BoundsAssumption DEF Age
  <2>3. QED
    BY <1>32, <2>1, <2>2 DEF Age, procs
<1>33. CASE Update
  BY <1>33, BoundsAssumption DEF Update, files, procs, budgets
<1>34. CASE UNCHANGED vars
  BY <1>34 DEF vars, files, procs, budgets
<1>35. QED
  BY <1>1, <1>2, <1>3, <1>4, <1>5, <1>6, <1>7, <1>8, <1>9, <1>10,
     <1>11, <1>12, <1>13, <1>14, <1>15, <1>16, <1>17, <1>18, <1>19, <1>20,
     <1>21, <1>22, <1>23, <1>24, <1>25, <1>26, <1>27, <1>28, <1>29, <1>30,
     <1>31, <1>32, <1>33, <1>34
  DEF Next, EnsureStep, WriteStep, ServeStep, Environment

\* The files and the processes of a behaviour have their types.
THEOREM TypeCorrect == Spec => []TypeOK
<1>1. TInv => TypeOK
  BY DEF TInv
<1>2. QED
  BY <1>1, TypeInit, TypeStep, PTL DEF Spec

-----------------------------------------------------------------------------
(* Budgets *)

Counted ==
  /\ installed' \in {installed, installed + 1} /\ serves' \in {serves, serves + 1}
  /\ kills' \in {kills, kills + 1} /\ ages' \in {ages, ages + 1}
  /\ stops' \in {stops, stops + 1} /\ lates' \in {lates, lates + 1}

\* What has disturbed the commands is counted, and the count never falls.
LEMMA BudgetsGrow == [Next]_vars => Counted
<1> SUFFICES ASSUME [Next]_vars PROVE Counted
  OBVIOUS
<1> USE DEF Counted
<1>1. ASSUME NEW c \in Clis, EnsureStep(c) PROVE Counted
  <2>1. CASE FastCheck(c) \/ Recheck(c) \/ Poll(c) \/ WaitHealthy(c)
    BY <2>1 DEF FastCheck, Recheck, Poll, WaitHealthy, Health
  <2>2. CASE Acquire(c) \/ StatStale(c) \/ Steal(c) \/ Reread(c)
    BY <2>2 DEF Acquire, StatStale, Steal, Reread, budgets
  <2>3. CASE AskVersion(c) \/ AskSessions(c) \/ AskShutdown(c)
    BY <2>3 DEF AskVersion, AskSessions, AskShutdown, budgets
  <2>4. CASE Unclaim(c) \/ Clear(c) \/ Spawn(c) \/ SpawnFails(c)
    BY <2>4 DEF Unclaim, Clear, Spawn, SpawnFails, budgets
  <2> QED
    BY <1>1, <2>1, <2>2, <2>3, <2>4 DEF EnsureStep
<1>2. ASSUME NEW p \in Procs, WriteStep(p) PROVE Counted
  BY <1>2 DEF WriteStep, WriteTmp, RemoveState, Rename, RenameFails, budgets
<1>3. ASSUME NEW d \in Daemons, ServeStep(d) PROVE Counted
  BY <1>3 DEF ServeStep, ReadExisting, CheckExisting, Listen, ReadOwn, ClearOwn, Health, budgets
<1>4. ASSUME Environment PROVE Counted
  <2>1. CASE \E c \in Clis : Invoke(c) \/ KillCli(c)
    BY <2>1 DEF Invoke, KillCli
  <2>2. CASE \E d \in Daemons : Serve(d) \/ SessionStarts(d) \/ SessionsEnd(d)
    BY <2>2 DEF Serve, SessionStarts, SessionsEnd, budgets
  <2>3. CASE \E d \in Daemons : Terminate(d) \/ CrashDaemon(d)
    BY <2>3 DEF Terminate, CrashDaemon
  <2>4. CASE Age \/ Update
    BY <2>4 DEF Age, Update, budgets
  <2> QED
    BY <1>4, <2>1, <2>2, <2>3, <2>4 DEF Environment
<1>5. ASSUME UNCHANGED vars PROVE Counted
  BY <1>5 DEF vars, budgets
<1> QED
  BY <1>1, <1>2, <1>3, <1>4, <1>5 DEF Next

-----------------------------------------------------------------------------
(* The startup lock *)

\* Initially there is no lock file and nobody holds it.
LEMMA LockInit == Init => LockKept
BY DEF Init, LockKept, Holding, CliPCs, Procs

\* Only the holder removes the file, so a command that creates it is alone.
LEMMA LockStep ==
  ASSUME kills' = 0, ages' = 0, TInv, LockKept, [Next]_vars
  PROVE  LockKept'
<1> USE ProcsAssumption, FilesAssumption
    DEF TInv, TypeOK, WritersHaveRecords, Procs, CliPCs, DaemonPCs, States,
        Locks, LockKept, Holding
<1>1. ASSUME NEW c \in Clis, FastCheck(c) PROVE LockKept'
  <2>1. pc'[c] \in {"idle", "acquire"} /\ \A e \in Clis \ {c} : pc'[e] = pc[e]
    BY <1>1 DEF FastCheck, Leave, Goto
  <2>2. lock' = lock /\ pc[c] = "check"
    BY <1>1 DEF FastCheck, files
  <2>3. QED
    BY <2>1, <2>2
<1>2. ASSUME NEW c \in Clis, Acquire(c) PROVE LockKept'
  <2>1. lock' # None /\ lock'.by = c /\ ~lock'.aged
    <3>1. lock' = [by |-> c, aged |-> FALSE]
      BY <1>2 DEF Acquire
    <3>2. lock' \in Locks
      BY <3>1
    <3>3. QED
      BY <3>1, <3>2, FilesAssumption
  <2>2. pc'[c] = "locked" /\ \A e \in Clis \ {c} : pc'[e] = pc[e]
    BY <1>2 DEF Acquire, Goto
  <2>3. \A e \in Clis : pc[e] \notin Holding
    BY <1>2 DEF Acquire
  <2>4. QED
    BY <2>1, <2>2, <2>3
<1>3. ASSUME NEW c \in Clis, StatStale(c) PROVE LockKept'
  BY <1>3 DEF StatStale, Goto, files, budgets
<1>4. ASSUME NEW c \in Clis, Steal(c) PROVE LockKept'
  BY <1>4 DEF Steal, Goto, budgets
<1>5. ASSUME NEW c \in Clis, Reread(c) PROVE LockKept'
  BY <1>5 DEF Reread, Read, Goto, files, budgets
<1>6. ASSUME NEW c \in Clis, Recheck(c) PROVE LockKept'
  BY <1>6 DEF Recheck, Health, Goto, Release, Answers, Leave
<1>7. ASSUME NEW c \in Clis, AskVersion(c) PROVE LockKept'
  BY <1>7 DEF AskVersion, Goto, Release, Answers, budgets, Leave
<1>8. ASSUME NEW c \in Clis, AskSessions(c) PROVE LockKept'
  BY <1>8 DEF AskSessions, Goto, Release, Answers, budgets, Leave
<1>9. ASSUME NEW c \in Clis, AskShutdown(c) PROVE LockKept'
  BY <1>9 DEF AskShutdown, Release, Answers, budgets, Leave, Goto
<1>10. ASSUME NEW c \in Clis, Poll(c) PROVE LockKept'
  BY <1>10 DEF Poll, Health, Goto, Release, Answers, Leave
<1>11. ASSUME NEW c \in Clis, Unclaim(c) PROVE LockKept'
  BY <1>11 DEF Unclaim, Read, Goto, files, budgets
<1>12. ASSUME NEW c \in Clis, Clear(c) PROVE LockKept'
  BY <1>12 DEF Clear, Goto, budgets
<1>13. ASSUME NEW c \in Clis, Spawn(c) PROVE LockKept'
  BY <1>13 DEF Spawn, FreePort, files, budgets
<1>14. ASSUME NEW c \in Clis, SpawnFails(c) PROVE LockKept'
  BY <1>14 DEF SpawnFails, Release, budgets, Leave, Goto
<1>15. ASSUME NEW c \in Clis, WaitHealthy(c) PROVE LockKept'
  BY <1>15 DEF WaitHealthy, Release, Answers, Leave, Goto
<1>16. ASSUME NEW p \in Procs, WriteTmp(p) PROVE LockKept'
  BY <1>16 DEF WriteTmp, Goto, budgets
<1>17. ASSUME NEW p \in Procs, RemoveState(p) PROVE LockKept'
  BY <1>17 DEF RemoveState, Goto, budgets
<1>18. ASSUME NEW p \in Procs, Rename(p) PROVE LockKept'
  BY <1>18 DEF Rename, Goto, Rewriting, budgets
<1>19. ASSUME NEW p \in Procs, RenameFails(p) PROVE LockKept'
  BY <1>19 DEF RenameFails, Goto, Rewriting, budgets
<1>20. ASSUME NEW d \in Daemons, ReadExisting(d) PROVE LockKept'
  BY <1>20 DEF ReadExisting, Read, Goto, files, budgets
<1>21. ASSUME NEW d \in Daemons, CheckExisting(d) PROVE LockKept'
  BY <1>21 DEF CheckExisting, Health, Goto, files, Answers
<1>22. ASSUME NEW d \in Daemons, Listen(d) PROVE LockKept'
  BY <1>22 DEF Listen, Goto, files, budgets
<1>23. ASSUME NEW d \in Daemons, ReadOwn(d) PROVE LockKept'
  BY <1>23 DEF ReadOwn, Read, Goto, files, budgets
<1>24. ASSUME NEW d \in Daemons, ClearOwn(d) PROVE LockKept'
  BY <1>24 DEF ClearOwn, Goto, budgets
<1>25. ASSUME NEW c \in Clis, Invoke(c) PROVE LockKept'
  BY <1>25 DEF Invoke, Read, Goto, files
<1>26. ASSUME NEW c \in Clis, KillCli(c) PROVE LockKept'
  BY <1>26 DEF KillCli, Leave, files, Goto
<1>27. ASSUME NEW d \in Daemons, Serve(d) PROVE LockKept'
  BY <1>27 DEF Serve, Goto, files
<1>28. ASSUME NEW d \in Daemons, SessionStarts(d) PROVE LockKept'
  BY <1>28 DEF SessionStarts, files, procs, budgets
<1>29. ASSUME NEW d \in Daemons, SessionsEnd(d) PROVE LockKept'
  BY <1>29 DEF SessionsEnd, files, procs, budgets
<1>30. ASSUME NEW d \in Daemons, Terminate(d) PROVE LockKept'
  BY <1>30 DEF Terminate, Goto, files
<1>31. ASSUME NEW d \in Daemons, CrashDaemon(d) PROVE LockKept'
  BY <1>31 DEF CrashDaemon, Goto, files
<1>32. CASE Age
  BY <1>32 DEF Age, procs
<1>33. CASE Update
  BY <1>33 DEF Update, files, procs, budgets
<1>34. CASE UNCHANGED vars
  BY <1>34 DEF vars, files, procs, budgets
<1>35. QED
  BY <1>1, <1>2, <1>3, <1>4, <1>5, <1>6, <1>7, <1>8, <1>9, <1>10,
     <1>11, <1>12, <1>13, <1>14, <1>15, <1>16, <1>17, <1>18, <1>19, <1>20,
     <1>21, <1>22, <1>23, <1>24, <1>25, <1>26, <1>27, <1>28, <1>29, <1>30,
     <1>31, <1>32, <1>33, <1>34
  DEF Next, EnsureStep, WriteStep, ServeStep, Environment

\* Two commands are never inside the startup section together, whatever the
\* daemons do, until a command is killed half-way or a lock outlives its 20 s
\* under a live holder (acquire, and its deferred removal of the lock).
THEOREM LockExclusiveUntil ==
  Spec => [](kills = 0 /\ ages = 0 => StartupLockExclusive)
<1> DEFINE Inv == kills = 0 /\ ages = 0 => LockKept
<1>1. Inv => (kills = 0 /\ ages = 0 => StartupLockExclusive)
  BY DEF LockKept, StartupLockExclusive
<1>2. TInv /\ Inv /\ [Next]_vars => Inv'
  <2> SUFFICES ASSUME TInv, Inv, [Next]_vars, kills' = 0, ages' = 0
               PROVE  LockKept'
    OBVIOUS
  <2>1. kills \in Nat /\ ages \in Nat
    BY BoundsAssumption DEF TInv, TypeOK
  <2>2. kills = 0 /\ ages = 0
    BY <2>1, BudgetsGrow DEF Counted
  <2> QED
    BY <2>2, LockStep
<1>3. QED
  BY <1>1, <1>2, TypeInit, TypeStep, LockInit, PTL DEF Spec

\* Where neither can happen, they never are.
THEOREM LockExclusive ==
  ASSUME MaxKills = 0, MaxAges = 0
  PROVE  Spec => []StartupLockExclusive
<1>1. TypeOK => kills = 0 /\ ages = 0
  BY DEF TypeOK
<1>2. QED
  BY <1>1, TypeCorrect, LockExclusiveUntil, PTL

-----------------------------------------------------------------------------
(* One service *)

Alive(d)   == pc[d] \notin {"none", "dead"}
Writing(c) == pc[c] \in {"tmp", "remove", "rename", "wait"}

\* The steps of an upgrade.
Upgrading  == {"version", "sessions", "shutdown", "poll", "unclaim", "clear"}

\* All that is written anywhere is of the one version there is, and names a
\* daemon that was started.
Known(s) == s \in States => s.version = 1 /\ pc[s.pid] # "none"

OneVersion ==
  /\ Known(state) /\ Known(tmp) /\ \A p \in Procs : Known(seen[p]) /\ Known(rec[p])
  /\ \A c \in Clis :
       /\ ver[c] = 1
       /\ pc[c] \notin Upgrading

\* The staging file has the record of whoever is about to rename it, which
\* names a daemon of its own.
Staged ==
  /\ \A p \in Procs : pc[p] \in {"remove", "rename"} => tmp \in {None, rec[p]}
  /\ \A c \in Clis : Writing(c) => rec[c] \in States /\ ~Rewriting(c)

\* A daemon lives because the command that started it still works on the
\* record of both, or it serves and that record is in runtime.json.
Recorded ==
  \A d \in Daemons : Alive(d) =>
    /\ rec[d] \in States /\ rec[d].pid = d /\ pc[d] \notin {"closing", "clear"}
    /\ \A c \in Clis : Writing(c) => rec[c] = rec[d]
    /\ (\A c \in Clis : ~Writing(c)) => pc[d] = "serving" /\ state = rec[d]
    /\ \A c \in Clis : pc[c] = "wait" /\ pc[d] \in {"listen", "serving"} => state = rec[d]

\* A command that starts a daemon has found none, also one that is about to.
Absent ==
  \A c \in Clis, d \in Daemons : Alive(d) =>
    /\ pc[c] # "spawn"
    /\ pc[c] = "recheck" => pc[d] = "serving" /\ seen[c] = rec[d]

Alone == LockKept /\ OneVersion /\ Staged /\ Recorded /\ Absent

SInv == Undisturbed => Alone

LEMMA OneInit == Init => SInv
<1> SUFFICES ASSUME Init PROVE Alone
  BY DEF SInv
<1>1. \A d \in Daemons : ~Alive(d)
  BY ProcsAssumption DEF Init, Alive, Procs
<1>2. OneVersion
  BY FilesAssumption DEF Init, OneVersion, Known, Procs, States, Upgrading
<1>3. Staged
  BY ProcsAssumption DEF Init, Staged, Writing, Procs
<1> QED
  BY <1>1, <1>2, <1>3, LockInit DEF Alone, Recorded, Absent

\* Who disturbs the commands does so for the rest of the behaviour.
LEMMA UndisturbedBefore ==
  ASSUME TInv, TInv', [Next]_vars, Undisturbed'
  PROVE  Undisturbed
<1>1. /\ installed \in Nat /\ installed >= 1 /\ serves \in Nat /\ kills \in Nat
      /\ ages \in Nat /\ stops \in Nat /\ lates \in Nat
  BY BoundsAssumption DEF TInv, TypeOK, Versions
<1> QED
  BY <1>1, BudgetsGrow DEF Undisturbed, Counted

-----------------------------------------------------------------------------
(* Every step keeps one service *)

\* Only one command is between the lock and its release.
LEMMA OneHolds ==
  ASSUME LockKept, NEW c \in Clis, Writing(c), NEW e \in Clis
  PROVE  Writing(e) \/ pc[e] \in {"spawn", "recheck"} => e = c
BY DEF LockKept, Writing, Holding, CliPCs

\* A daemon that does not serve yet is the only one, and has its command.
LEMMA Parent ==
  ASSUME TInv, Alone, NEW d \in Daemons, Alive(d), pc[d] # "serving"
  PROVE  /\ \E c \in Clis : Writing(c) /\ rec[c] = rec[d] /\ rec[c] \in States
         /\ \A e \in Daemons : Alive(e) => e = d
         /\ \A c \in Clis : pc[c] \notin {"spawn", "recheck"}
<1>1. PICK c \in Clis : Writing(c)
  BY DEF Alone, Recorded
<1>2. ASSUME NEW e \in Daemons, Alive(e) PROVE rec[c] = rec[e] /\ rec[e].pid = e
  BY <1>1, <1>2 DEF Alone, Recorded
<1>3. rec[c] = rec[d] /\ rec[d].pid = d /\ rec[c] \in States
  BY <1>1, <1>2 DEF Alone, Staged
<1>4. \A e \in Clis : pc[e] \notin {"spawn", "recheck"}
  BY DEF Alone, Absent
<1> QED
  BY <1>1, <1>2, <1>3, <1>4

\* A command that does not write before or after.
LEMMA CommandMoves ==
  ASSUME TInv, TInv', Alone, LockKept', NEW c \in Clis,
         ~Writing(c), ~Writing(c)', pc'[c] \notin Upgrading,
         state' = state, tmp' = tmp, \A e \in Clis : ver'[e] = 1,
         \A p \in Procs \ {c} : pc'[p] = pc[p] /\ seen'[p] = seen[p] /\ rec'[p] = rec[p],
         seen'[c] \in {seen[c], None, Read}, rec'[c] \in {rec[c], None},
         \A d \in Daemons : Alive(d) =>
           pc'[c] # "spawn" /\ (pc'[c] = "recheck" => pc[d] = "serving" /\ seen'[c] = rec[d])
  PROVE  Alone'
<1> USE ProcsAssumption, FilesAssumption DEF Procs
<1>1. \A d \in Daemons : d # c /\ pc'[d] = pc[d] /\ rec'[d] = rec[d]
  OBVIOUS
<1>2. \A e \in Clis \ {c} : Writing(e) <=> Writing(e)'
  BY DEF Writing
<1>3. OneVersion'
  <2>1. Known(state)' /\ Known(tmp)'
    BY <1>1 DEF Alone, OneVersion, Known, States
  <2>2. ASSUME NEW p \in Procs PROVE Known(seen[p])' /\ Known(rec[p])'
    <3>1. seen'[p] \in {seen[p], None, state} /\ rec'[p] \in {rec[p], None}
      BY DEF Read
    <3>2. Known(seen[p]) /\ Known(rec[p]) /\ Known(state)
      BY DEF Alone, OneVersion
    <3> QED
      BY <1>1, <3>1, <3>2 DEF Known, States
  <2>3. \A e \in Clis : pc'[e] \notin Upgrading
    BY DEF Alone, OneVersion
  <2> QED
    BY <2>1, <2>2, <2>3 DEF OneVersion
<1>4. Staged'
  BY <1>2 DEF Alone, Staged, Rewriting, Writing
<1>5. Recorded'
  BY <1>1, <1>2 DEF Alone, Recorded, Alive, Writing
<1>6. Absent'
  BY <1>1 DEF Alone, Absent, Alive
<1> QED
  BY <1>3, <1>4, <1>5, <1>6 DEF Alone

\* A daemon that dies, or has not come to write yet.
LEMMA DaemonMoves ==
  ASSUME TInv, TInv', Alone, LockKept', NEW d \in Daemons, Alive(d),
         UNCHANGED <<state, tmp, rec, ver>>,
         \A p \in Procs \ {d} : pc'[p] = pc[p] /\ seen'[p] = seen[p],
         seen'[d] \in {seen[d], Read},
         \/ pc'[d] = "dead"
         \/ pc[d] \in {"read", "check"} /\ pc'[d] \in {"check", "tmp"}
  PROVE  Alone'
<1> USE ProcsAssumption, FilesAssumption DEF Procs
<1>1. \A c \in Clis : c # d /\ pc'[c] = pc[c] /\ seen'[c] = seen[c] /\ (Writing(c) <=> Writing(c)')
  BY DEF Writing
<1>2. \A e \in Daemons : (pc[e] # "none" => pc'[e] # "none") /\ (Alive(e)' => Alive(e))
  BY DEF Alive
<1>3. OneVersion'
  <2>1. Known(state)' /\ Known(tmp)'
    BY <1>2 DEF Alone, OneVersion, Known, States
  <2>2. ASSUME NEW p \in Procs PROVE Known(seen[p])' /\ Known(rec[p])'
    <3>1. seen'[p] \in {seen[p], None, state} /\ rec'[p] = rec[p]
      BY DEF Read
    <3>2. Known(seen[p]) /\ Known(rec[p]) /\ Known(state)
      BY DEF Alone, OneVersion
    <3> QED
      BY <1>2, <3>1, <3>2 DEF Known, States
  <2> QED
    BY <1>1, <2>1, <2>2 DEF Alone, OneVersion
<1>4. Staged'
  BY <1>1 DEF Alone, Staged, Rewriting, Writing
<1>5. Recorded'
  <2>1. pc'[d] # "dead" => \E c \in Clis : Writing(c)
    BY Parent
  <2> QED
    BY <1>1, <1>2, <2>1 DEF Alone, Recorded, Alive
<1>6. Absent'
  BY <1>1, <1>2 DEF Alone, Absent, Alive
<1> QED
  BY <1>3, <1>4, <1>5, <1>6 DEF Alone

\* A writer is a command that alone works on a record, or its daemon.
LEMMA Writer ==
  ASSUME TInv, Alone, NEW p \in Procs, pc[p] \in {"tmp", "remove", "rename"}
  PROVE  \E c \in Clis :
           /\ Writing(c) /\ rec[c] = rec[p] /\ rec[p] \in States
           /\ \A e \in Clis : Writing(e) \/ pc[e] \in {"spawn", "recheck"} => e = c
           /\ \A d \in Daemons : Alive(d) => rec[d] = rec[p]
           /\ p \in Daemons => \A d \in Daemons : Alive(d) => d = p
           /\ p \in Clis => p = c
<1>1. CASE p \in Clis
  <2>1. Writing(p) /\ rec[p] \in States
    BY <1>1 DEF Writing, Alone, Staged
  <2>2. \A d \in Daemons : Alive(d) => rec[d] = rec[p]
    BY <1>1, <2>1 DEF Alone, Recorded
  <2> QED
    BY <1>1, <2>1, <2>2, OneHolds, ProcsAssumption DEF Alone
<1>2. CASE p \in Daemons
  <2>1. Alive(p) /\ pc[p] # "serving"
    BY DEF Alive
  <2>2. PICK c \in Clis : Writing(c) /\ rec[c] = rec[p] /\ rec[c] \in States
    BY <1>2, <2>1, Parent
  <2>3. \A d \in Daemons : Alive(d) => d = p
    BY <1>2, <2>1, Parent
  <2> QED
    BY <1>2, <2>2, <2>3, OneHolds, ProcsAssumption DEF Alone
<1> QED
  BY <1>1, <1>2 DEF Procs

LEMMA WriteMoves ==
  ASSUME TInv, TInv', Alone, LockKept', NEW p \in Procs,
         WriteTmp(p) \/ RemoveState(p) \/ Rename(p)
  PROVE  Alone'
<1> USE ProcsAssumption, FilesAssumption DEF Procs
<1>0. /\ pc[p] \in {"tmp", "remove", "rename"} /\ UNCHANGED <<seen, rec, ver>>
      /\ pc' = [pc EXCEPT ![p] = pc'[p]]
      /\ p \in Clis => pc'[p] \in {"remove", "rename", "wait"}
      /\ p \in Daemons => pc'[p] \in {"remove", "rename", "listen"}
  <2>1. p \in Clis => ~Rewriting(p)
    BY DEF WriteTmp, RemoveState, Rename, Alone, Staged, Writing
  <2> QED
    BY <2>1 DEF WriteTmp, RemoveState, Rename, Goto, TInv, TypeOK
<1>1. PICK c \in Clis :
        /\ Writing(c) /\ rec[c] = rec[p] /\ rec[p] \in States
        /\ \A e \in Clis : Writing(e) \/ pc[e] \in {"spawn", "recheck"} => e = c
        /\ \A d \in Daemons : Alive(d) => rec[d] = rec[p]
        /\ p \in Daemons => \A d \in Daemons : Alive(d) => d = p
        /\ p \in Clis => p = c
  BY <1>0, Writer
<1>2. \A q \in Procs \ {p} : pc'[q] = pc[q]
  BY <1>0 DEF TInv, TypeOK
<1>3. /\ \A e \in Clis : Writing(e)' <=> Writing(e)
      /\ \A d \in Daemons : (Alive(d)' <=> Alive(d)) /\ (pc[d] # "none" => pc'[d] # "none")
  BY <1>0, <1>2 DEF Writing, Alive
<1>4. tmp \in {None, rec[p]} \/ pc[p] = "tmp"
  BY <1>0 DEF Alone, Staged
<1>5. /\ state' = state \/ state' = None \/ (state' = rec[p] /\ pc[p] = "rename")
      /\ tmp' \in {None, rec[p]} \/ (tmp' = tmp /\ pc[p] = "remove")
      /\ pc[p] = "tmp" => state' = state
      /\ pc[p] = "rename" <=> pc'[p] \in {"wait", "listen"}
      /\ pc[p] = "rename" => state' = rec[p]
  BY <1>0, <1>4 DEF WriteTmp, RemoveState, Rename, Goto, TInv, TypeOK
<1>6. tmp' \in {None, rec[p]}
  BY <1>4, <1>5
<1>7. OneVersion'
  <2>1. \A x \in {state, tmp, rec[p]} : Known(x)
    BY DEF Alone, OneVersion
  <2>2. Known(state)' /\ Known(tmp)'
    BY <1>3, <1>5, <1>6, <2>1 DEF Known, States
  <2>3. ASSUME NEW q \in Procs PROVE Known(seen[q])' /\ Known(rec[q])'
    BY <1>0, <1>3 DEF Alone, OneVersion, Known, States
  <2>4. \A e \in Clis : ver'[e] = 1 /\ pc'[e] \notin Upgrading
    BY <1>0, <1>2 DEF Alone, OneVersion, Upgrading
  <2> QED
    BY <2>2, <2>3, <2>4 DEF OneVersion
<1>8. Staged'
  <2>1. ASSUME NEW q \in Procs, pc'[q] \in {"remove", "rename"} PROVE rec[q] = rec[p]
    <3>1. CASE q = p
      BY <3>1
    <3>2. CASE q # p /\ q \in Clis
      <4>1. Writing(q)
        BY <1>2, <2>1, <3>2 DEF Writing
      <4> QED
        BY <1>1, <3>2, <4>1
    <3>3. CASE q # p /\ q \in Daemons
      <4>1. Alive(q)
        BY <1>2, <2>1, <3>3 DEF Alive
      <4> QED
        BY <1>1, <3>3, <4>1
    <3> QED
      BY <3>1, <3>2, <3>3
  <2>2. \A e \in Clis : Writing(e)' => rec'[e] \in States /\ ~Rewriting(e)'
    BY <1>0, <1>3 DEF Alone, Staged, Rewriting
  <2> QED
    BY <1>0, <1>6, <2>1, <2>2 DEF Staged
<1>9. Recorded'
  <2> SUFFICES ASSUME NEW d \in Daemons, Alive(d)'
               PROVE  /\ rec[d] \in States /\ rec[d].pid = d /\ pc'[d] \notin {"closing", "clear"}
                      /\ \A e \in Clis : Writing(e)' => rec[e] = rec[d]
                      /\ \A e \in Clis :
                           pc'[e] = "wait" /\ pc'[d] \in {"listen", "serving"} => state' = rec[d]
    BY <1>0, <1>1, <1>3 DEF Recorded
  <2>1. Alive(d) /\ rec[d] = rec[p]
    BY <1>1, <1>3
  <2>2. rec[d].pid = d /\ pc'[d] \notin {"closing", "clear"}
    BY <1>0, <1>2, <2>1 DEF Alone, Recorded
  <2>3. \A e \in Clis : Writing(e)' => rec[e] = rec[d]
    BY <1>1, <1>3, <2>1
  <2>4. ASSUME NEW e \in Clis, pc'[e] = "wait", pc'[d] \in {"listen", "serving"}
        PROVE  state' = rec[d]
    <3>1. CASE pc[p] = "rename"
      BY <1>5, <2>1, <3>1
    <3>2. CASE pc[p] # "rename"
      <4>1. e # p /\ d # p
        BY <1>0, <1>5, <2>4, <3>2
      <4>2. pc[e] = "wait" /\ pc[d] = pc'[d]
        BY <1>2, <2>4, <4>1
      <4>3. state = rec[d] /\ Writing(e)
        BY <2>1, <2>4, <4>2 DEF Alone, Recorded, Writing
      <4>4. FALSE
        BY <1>1, <2>1, <4>1, <4>3
      <4> QED
        BY <4>4
    <3> QED
      BY <3>1, <3>2
  <2> QED
    BY <1>1, <2>1, <2>2, <2>3, <2>4
<1>10. Absent'
  BY <1>0, <1>1, <1>2, <1>3 DEF Alone, Absent
<1> QED
  BY <1>7, <1>8, <1>9, <1>10 DEF Alone

\* Ensure's failed write takes its daemon with it.
LEMMA FailedWrite ==
  ASSUME TInv, TInv', Alone, LockKept', NEW c \in Clis, RenameFails(c)
  PROVE  Alone'
<1> USE ProcsAssumption, FilesAssumption DEF Procs
<1>0. Writing(c) /\ ~Rewriting(c) /\ c \notin Daemons
  BY DEF RenameFails, Writing, Alone, Staged
<1>1. /\ pc' = [q \in Procs |-> IF q = c THEN "idle" ELSE IF q = rec[c].pid THEN "dead" ELSE pc[q]]
      /\ seen' = [seen EXCEPT ![c] = None] /\ rec' = [rec EXCEPT ![c] = None]
      /\ UNCHANGED <<state, tmp, ver>>
  BY <1>0 DEF RenameFails
<1>2. \A d \in Daemons : ~Alive(d)' /\ (pc[d] # "none" => pc'[d] # "none")
  <2>1. ASSUME NEW d \in Daemons, Alive(d) PROVE d = rec[c].pid
    BY <1>0, <2>1 DEF Alone, Recorded
  <2> QED
    BY <1>1, <2>1 DEF Alive
<1>3. \A e \in Clis : ~Writing(e)' /\ pc'[e] \notin Upgrading
  <2>1. \A e \in Clis : e = c \/ (~Writing(e) /\ pc[e] \notin Upgrading)
    BY <1>0, OneHolds DEF Alone, OneVersion
  <2>2. rec[c] \in States
    BY <1>0 DEF Alone, Staged
  <2> QED
    BY <1>1, <2>1, <2>2 DEF Writing, Upgrading, States
<1>4. OneVersion'
  <2>1. Known(state)' /\ Known(tmp)'
    BY <1>1, <1>2 DEF Alone, OneVersion, Known, States
  <2>2. ASSUME NEW q \in Procs PROVE Known(seen[q])' /\ Known(rec[q])'
    <3>1. seen'[q] \in {seen[q], None} /\ rec'[q] \in {rec[q], None}
      BY <1>1 DEF TInv, TypeOK
    <3>2. Known(seen[q]) /\ Known(rec[q])
      BY DEF Alone, OneVersion
    <3> QED
      BY <1>2, <3>1, <3>2 DEF Known, States
  <2> QED
    BY <1>1, <1>3, <2>1, <2>2 DEF Alone, OneVersion
<1>5. Staged' /\ Recorded' /\ Absent'
  <2>1. ASSUME NEW q \in Procs PROVE pc'[q] \notin {"remove", "rename"}
    BY <1>2, <1>3 DEF Alive, Writing
  <2> QED
    BY <1>2, <1>3, <2>1 DEF Staged, Recorded, Absent
<1> QED
  BY <1>4, <1>5 DEF Alone

\* A command that has found no daemon starts one, of its own version.
LEMMA SpawnMoves ==
  ASSUME TInv, TInv', Alone, LockKept', installed = 1, NEW c \in Clis, Spawn(c)
  PROVE  Alone'
<1> USE ProcsAssumption, FilesAssumption DEF Procs
<1>0. PICK d \in Daemons, port \in Ports :
        /\ pc[d] = "none"
        /\ rec' = [rec EXCEPT ![c] = [pid |-> d, port |-> port, version |-> ver[c]],
                              ![d] = [pid |-> d, port |-> port, version |-> installed]]
        /\ pc' = [pc EXCEPT ![c] = "tmp", ![d] = "read"]
  BY DEF Spawn
<1> DEFINE new == [pid |-> d, port |-> port, version |-> 1]
<1>1. /\ pc[c] = "spawn" /\ UNCHANGED <<state, tmp, seen, ver>> /\ c # d
      /\ rec'[c] = new /\ rec'[d] = new /\ new \in States
      /\ pc'[c] = "tmp" /\ pc'[d] = "read"
      /\ \A q \in Procs \ {c, d} : pc'[q] = pc[q] /\ rec'[q] = rec[q]
  <2>1. ver[c] = 1 /\ pc[c] = "spawn" /\ UNCHANGED <<state, tmp, seen, ver>> /\ c # d
    BY DEF Spawn, Alone, OneVersion, files
  <2>2. 1 \in Versions /\ new \in States
    BY <2>1 DEF TInv, TypeOK, States
  <2> QED
    BY <1>0, <2>1, <2>2 DEF TInv, TypeOK
<1>2. new.pid = d /\ new.version = 1
  OBVIOUS
<1> HIDE DEF new
<1>3. \A e \in Daemons : ~Alive(e) /\ (Alive(e)' => e = d) /\ (pc[e] # "none" => pc'[e] # "none")
  BY <1>1 DEF Alone, Absent, Alive
<1>4. \A e \in Clis \ {c} : ~Writing(e)' /\ pc'[e] \notin {"spawn", "recheck"}
  <2>1. pc[c] \in Holding
    BY <1>1 DEF Holding, CliPCs
  <2>2. ASSUME NEW e \in Clis \ {c} PROVE pc[e] \notin Holding
    BY <2>1 DEF Alone, LockKept
  <2> QED
    BY <1>1, <2>2 DEF Writing, Holding, CliPCs
<1>5. OneVersion'
  <2>1. Known(state)' /\ Known(tmp)'
    BY <1>1, <1>3 DEF Alone, OneVersion, Known, States
  <2>2. ASSUME NEW q \in Procs PROVE Known(seen[q])' /\ Known(rec[q])'
    <3>1. seen'[q] = seen[q] /\ rec'[q] \in {rec[q], new}
      BY <1>1
    <3>2. Known(seen[q]) /\ Known(rec[q])
      BY DEF Alone, OneVersion
    <3> QED
      BY <1>1, <1>2, <1>3, <3>1, <3>2 DEF Known, States
  <2>3. \A e \in Clis : ver'[e] = 1 /\ pc'[e] \notin Upgrading
    BY <1>1 DEF Alone, OneVersion, Upgrading
  <2> QED
    BY <2>1, <2>2, <2>3 DEF OneVersion
<1>6. Staged'
  <2>1. ASSUME NEW q \in Procs PROVE pc'[q] \notin {"remove", "rename"}
    BY <1>1, <1>3, <1>4 DEF Writing, Alive
  <2>2. ~Rewriting(c)'
    <3>1. Known(seen[c])
      BY DEF Alone, OneVersion
    <3>2. seen[c] # None => seen[c].pid # d
      BY <1>0, <3>1 DEF Known, TInv, TypeOK
    <3> QED
      BY <1>1, <1>2, <3>2 DEF Rewriting
  <2> QED
    BY <1>1, <1>4, <2>1, <2>2 DEF Staged
<1>7. Recorded' /\ Absent'
  <2>1. Writing(c)'
    BY <1>1 DEF Writing
  <2> QED
    BY <1>1, <1>2, <1>3, <1>4, <2>1 DEF Recorded, Absent
<1> QED
  BY <1>5, <1>6, <1>7 DEF Alone

\* A command that stops waiting has a daemon that serves, or none.
LEMMA WaitEnds ==
  ASSUME TInv, TInv', Alone, LockKept', lates' = lates, NEW c \in Clis, WaitHealthy(c)
  PROVE  Alone'
<1> USE ProcsAssumption, FilesAssumption DEF Procs
<1>0. /\ pc[c] = "wait" /\ UNCHANGED <<state, tmp, ver>>
      /\ pc' = [pc EXCEPT ![c] = "idle"]
      /\ seen' = [seen EXCEPT ![c] = None] /\ rec' = [rec EXCEPT ![c] = None]
      /\ Answers(rec[c]) \/ pc[rec[c].pid] \notin Starting
  <2>1. lates \in Nat
    BY BoundsAssumption DEF TInv, TypeOK
  <2> QED
    BY <2>1 DEF WaitHealthy, Release, Leave, Goto
<1>1. Writing(c) /\ rec[c] \in States
  BY <1>0 DEF Writing, Alone, Staged
<1>2. \A e \in Clis \ {c} : ~Writing(e) /\ pc[e] \notin {"spawn", "recheck"}
  BY <1>1, OneHolds DEF Alone
<1>3. ASSUME NEW d \in Daemons, Alive(d) PROVE pc[d] = "serving" /\ state = rec[d]
  <2>1. /\ rec[c] = rec[d] /\ rec[d].pid = d /\ pc[d] \notin {"closing", "clear"}
        /\ pc[d] = "serving" => state = rec[d]
    BY <1>0, <1>1, <1>3 DEF Alone, Recorded
  <2>2. CASE Answers(rec[c])
    <3>1. PICK e \in Daemons : pc[e] = "serving"
      BY <2>2 DEF Answers, Serving
    <3>2. e = d
      BY <1>1, <2>1, <3>1 DEF Alone, Recorded, Alive
    <3> QED
      BY <2>1, <3>1, <3>2
  <2>3. CASE pc[rec[c].pid] \notin Starting
    BY <1>3, <2>1, <2>3 DEF Starting, Alive, TInv, TypeOK, DaemonPCs
  <2> QED
    BY <1>0, <2>2, <2>3
<1>4. \A d \in Daemons : pc'[d] = pc[d] /\ rec'[d] = rec[d]
  BY <1>0 DEF TInv, TypeOK
<1>5. \A e \in Clis : ~Writing(e)' /\ pc'[e] \notin {"spawn", "recheck"} /\ pc'[e] \notin Upgrading
  BY <1>0, <1>2 DEF Writing, TInv, TypeOK, Alone, OneVersion, Upgrading
<1>6. OneVersion'
  <2>1. Known(state)' /\ Known(tmp)'
    BY <1>0, <1>4 DEF Alone, OneVersion, Known, States
  <2>2. ASSUME NEW q \in Procs PROVE Known(seen[q])' /\ Known(rec[q])'
    <3>1. seen'[q] \in {seen[q], None} /\ rec'[q] \in {rec[q], None}
      BY <1>0 DEF TInv, TypeOK
    <3>2. Known(seen[q]) /\ Known(rec[q])
      BY DEF Alone, OneVersion
    <3> QED
      BY <1>4, <3>1, <3>2 DEF Known, States
  <2> QED
    BY <1>0, <1>5, <2>1, <2>2 DEF Alone, OneVersion
<1>7. Staged'
  <2>1. ASSUME NEW q \in Procs PROVE pc'[q] \notin {"remove", "rename"}
    <3>1. CASE q \in Clis
      BY <1>5, <3>1 DEF Writing
    <3>2. CASE q \in Daemons
      BY <1>3, <1>4, <3>2 DEF Alive
    <3> QED
      BY <3>1, <3>2
  <2> QED
    BY <1>5, <2>1 DEF Staged
<1>8. Recorded' /\ Absent'
  <2>1. ASSUME NEW d \in Daemons, Alive(d)' PROVE Alive(d)
    BY <1>4, <2>1 DEF Alive
  <2> QED
    BY <1>0, <1>3, <1>4, <1>5, <2>1 DEF Alone, Recorded, Absent, Writing
<1> QED
  BY <1>6, <1>7, <1>8 DEF Alone

\* The only daemon finds its port free.
LEMMA ListenMoves ==
  ASSUME TInv, TInv', Alone, LockKept', NEW d \in Daemons, Listen(d)
  PROVE  Alone'
<1> USE ProcsAssumption, FilesAssumption DEF Procs
<1>0. /\ pc[d] = "listen" /\ Alive(d) /\ UNCHANGED <<state, tmp, seen, rec, ver>>
  BY DEF Listen, files, Alive
<1>1. PICK c \in Clis : Writing(c)
  BY <1>0, Parent
<1>2. /\ \A e \in Daemons : Alive(e) => e = d
      /\ \A e \in Clis : pc[e] \notin {"spawn", "recheck"}
  BY <1>0, Parent
<1>3. Serving(rec[d].port) = {}
  BY <1>0, <1>2 DEF Serving, Alive
<1>4. pc' = [pc EXCEPT ![d] = "serving"]
  BY <1>3 DEF Listen, Goto
<1>5. /\ \A q \in Procs \ {d} : pc'[q] = pc[q] /\ pc'[d] = "serving"
      /\ \A e \in Daemons : (Alive(e)' <=> Alive(e)) /\ (pc[e] # "none" => pc'[e] # "none")
      /\ \A e \in Clis : (Writing(e)' <=> Writing(e)) /\ pc'[e] = pc[e]
  BY <1>0, <1>4 DEF TInv, TypeOK, Alive, Writing
<1>6. OneVersion'
  BY <1>0, <1>5 DEF Alone, OneVersion, Known, States
<1>7. Staged'
  BY <1>0, <1>5 DEF Alone, Staged, Rewriting
<1>8. Recorded'
  BY <1>0, <1>1, <1>2, <1>5 DEF Alone, Recorded
<1>9. Absent'
  BY <1>2, <1>5 DEF Absent
<1> QED
  BY <1>6, <1>7, <1>8, <1>9 DEF Alone

LEMMA OneStep == TInv /\ TInv' /\ SInv /\ [Next]_vars => SInv'
<1> SUFFICES ASSUME TInv, TInv', SInv, [Next]_vars, Undisturbed' PROVE Alone'
  BY DEF SInv
<1>0. /\ Alone /\ installed = 1 /\ installed' = 1 /\ stops' = 0 /\ serves' = 0
      /\ kills' = 0 /\ ages' = 0 /\ lates = 0 /\ lates' = 0
      /\ stops = 0 /\ serves = 0 /\ kills = 0 /\ ages = 0
  BY UndisturbedBefore DEF SInv, Undisturbed
<1>l. LockKept'
  BY <1>0, LockStep DEF Alone
<1> USE ProcsAssumption, FilesAssumption DEF Procs
<1>1. ASSUME NEW c \in Clis, EnsureStep(c) PROVE Alone'
  <2>0. /\ ver[c] = 1 /\ pc[c] \notin Upgrading /\ \A e \in Clis : ver[e] = 1
        /\ \A d \in Daemons : Alive(d) => rec[d] \in States
    BY <1>0 DEF Alone, OneVersion, Recorded
  <2>1. CASE FastCheck(c)
    <3>1. /\ pc[c] = "check" /\ UNCHANGED <<state, tmp, ver>> /\ pc'[c] \in {"idle", "acquire"}
          /\ seen'[c] \in {seen[c], None} /\ rec'[c] \in {rec[c], None}
          /\ \A q \in Procs \ {c} : pc'[q] = pc[q] /\ seen'[q] = seen[q] /\ rec'[q] = rec[q]
      BY <2>1 DEF FastCheck, Leave, Goto, files, TInv, TypeOK
    <3> QED
      BY <1>0, <1>l, <2>0, <3>1, CommandMoves DEF Writing, Upgrading
  <2>2. CASE Acquire(c) \/ StatStale(c) \/ Steal(c)
    <3>1. /\ pc[c] \in {"acquire", "steal"} /\ UNCHANGED <<state, tmp, seen, rec, ver>>
          /\ pc'[c] \in {"locked", "steal", "acquire"}
          /\ \A q \in Procs \ {c} : pc'[q] = pc[q]
      BY <2>2 DEF Acquire, StatStale, Steal, Goto, files, TInv, TypeOK
    <3> QED
      BY <1>0, <1>l, <2>0, <3>1, CommandMoves DEF Writing, Upgrading
  <2>3. CASE Reread(c)
    <3>1. /\ pc[c] = "locked" /\ UNCHANGED <<state, tmp, rec, ver>>
          /\ pc'[c] = "recheck" /\ seen'[c] = Read
          /\ \A q \in Procs \ {c} : pc'[q] = pc[q] /\ seen'[q] = seen[q]
      BY <2>3 DEF Reread, Goto, files, TInv, TypeOK
    <3>2. ASSUME NEW d \in Daemons, Alive(d) PROVE pc[d] = "serving" /\ Read = rec[d]
      <4>1. \A e \in Clis : ~Writing(e)
        BY <1>0, <3>1 DEF Alone, LockKept, Writing, Holding, CliPCs
      <4>2. pc[d] = "serving" /\ state = rec[d] /\ state \in States
        BY <1>0, <3>2, <4>1 DEF Alone, Recorded
      <4> QED
        BY <4>2 DEF Read
    <3> QED
      BY <1>0, <1>l, <2>0, <3>1, <3>2, CommandMoves DEF Writing, Upgrading
  <2>4. CASE Recheck(c)
    <3>1. /\ pc[c] = "recheck" /\ UNCHANGED <<state, tmp, ver>>
          /\ seen'[c] \in {seen[c], None} /\ rec'[c] \in {rec[c], None}
          /\ \A q \in Procs \ {c} : pc'[q] = pc[q] /\ seen'[q] = seen[q] /\ rec'[q] = rec[q]
          /\ \/ pc'[c] = "idle"
             \/ pc'[c] = "spawn" /\ ~Answers(seen[c])
             \/ pc'[c] = "version" /\ Answers(seen[c]) /\ seen[c].version # ver[c]
      BY <1>0, <2>4 DEF Recheck, Health, Release, Leave, Goto, TInv, TypeOK
    <3>2. seen[c] # None => seen[c].version = 1
      BY <1>0 DEF Alone, OneVersion, Known, TInv, TypeOK
    <3>3. pc'[c] \in {"idle", "spawn"}
      BY <2>0, <3>1, <3>2 DEF Answers
    <3>4. ASSUME NEW d \in Daemons, Alive(d) PROVE pc'[c] # "spawn"
      <4>1. pc[d] = "serving" /\ seen[c] = rec[d] /\ rec[d] \in States
        BY <1>0, <2>0, <3>1, <3>4 DEF Alone, Absent
      <4>2. Answers(seen[c])
        BY <4>1 DEF Answers, Serving
      <4> QED
        BY <3>1, <4>2
    <3> QED
      BY <1>0, <1>l, <2>0, <3>1, <3>3, <3>4, CommandMoves DEF Writing, Upgrading
  <2>5. CASE \/ AskVersion(c) \/ AskSessions(c) \/ AskShutdown(c) \/ Poll(c)
             \/ Unclaim(c) \/ Clear(c)
    BY <2>0, <2>5 DEF AskVersion, AskSessions, AskShutdown, Poll, Unclaim, Clear, Upgrading
  <2>6. CASE Spawn(c)
    BY <1>0, <1>l, <2>6, SpawnMoves
  <2>7. CASE SpawnFails(c)
    <3>1. /\ pc[c] = "spawn" /\ UNCHANGED <<state, tmp, ver>> /\ pc'[c] = "idle"
          /\ seen'[c] = None /\ rec'[c] = None
          /\ \A q \in Procs \ {c} : pc'[q] = pc[q] /\ seen'[q] = seen[q] /\ rec'[q] = rec[q]
      BY <2>7 DEF SpawnFails, Release, Leave, Goto, TInv, TypeOK
    <3> QED
      BY <1>0, <1>l, <2>0, <3>1, CommandMoves DEF Writing, Upgrading
  <2>8. CASE WaitHealthy(c)
    BY <1>0, <1>l, <2>8, WaitEnds
  <2> QED
    BY <1>1, <2>1, <2>2, <2>3, <2>4, <2>5, <2>6, <2>7, <2>8 DEF EnsureStep
<1>2. ASSUME NEW p \in Procs, WriteStep(p) PROVE Alone'
  <2>1. CASE WriteTmp(p) \/ RemoveState(p) \/ Rename(p)
    BY <1>0, <1>l, <2>1, WriteMoves
  <2>2. CASE RenameFails(p) /\ p \in Clis
    BY <1>0, <1>l, <2>2, FailedWrite
  <2>3. CASE RenameFails(p) /\ p \in Daemons
    <3>1. /\ Alive(p) /\ UNCHANGED <<state, tmp, seen, rec, ver>> /\ pc'[p] = "dead"
          /\ \A q \in Procs \ {p} : pc'[q] = pc[q]
      BY <2>3 DEF RenameFails, Goto, Alive, TInv, TypeOK
    <3> QED
      BY <1>0, <1>l, <2>3, <3>1, DaemonMoves
  <2> QED
    BY <1>2, <2>1, <2>2, <2>3 DEF WriteStep
<1>3. ASSUME NEW d \in Daemons, ServeStep(d) PROVE Alone'
  <2>0. pc[d] \in {"closing", "clear"} => FALSE
    BY <1>0 DEF Alone, Recorded, Alive
  <2>1. CASE ReadExisting(d) \/ CheckExisting(d)
    <3>1. /\ Alive(d) /\ pc[d] \in {"read", "check"} /\ UNCHANGED <<state, tmp, rec, ver>>
          /\ pc'[d] \in {"dead", "check", "tmp"} /\ seen'[d] \in {seen[d], Read}
          /\ \A q \in Procs \ {d} : pc'[q] = pc[q] /\ seen'[q] = seen[q]
      BY <2>1 DEF ReadExisting, CheckExisting, Goto, files, Alive, TInv, TypeOK
    <3> QED
      BY <1>0, <1>l, <3>1, DaemonMoves
  <2>2. CASE Listen(d)
    BY <1>0, <1>l, <2>2, ListenMoves
  <2>3. CASE ReadOwn(d) \/ ClearOwn(d)
    BY <2>0, <2>3 DEF ReadOwn, ClearOwn
  <2> QED
    BY <1>3, <2>1, <2>2, <2>3 DEF ServeStep
<1>4. ASSUME UNCHANGED <<state, tmp, procs>> PROVE Alone'
  BY <1>0, <1>l, <1>4 DEF procs, Alone, OneVersion, Staged, Recorded, Absent, Known, Writing, Alive,
     Rewriting
<1>5. ASSUME Environment PROVE Alone'
  <2>1. ASSUME NEW c \in Clis, Invoke(c) PROVE Alone'
    <3>1. /\ pc[c] = "idle" /\ UNCHANGED <<state, tmp, rec>> /\ pc'[c] = "check"
          /\ seen'[c] = Read /\ ver' = [ver EXCEPT ![c] = 1]
          /\ \A q \in Procs \ {c} : pc'[q] = pc[q] /\ seen'[q] = seen[q]
      BY <1>0, <2>1 DEF Invoke, Goto, files, TInv, TypeOK
    <3>2. \A e \in Clis : ver'[e] = 1
      BY <1>0, <3>1 DEF Alone, OneVersion, TInv, TypeOK
    <3> QED
      BY <1>0, <1>l, <3>1, <3>2, CommandMoves DEF Writing, Upgrading
  <2>2. ASSUME NEW d \in Daemons, CrashDaemon(d) PROVE Alone'
    <3>1. /\ Alive(d) /\ UNCHANGED <<state, tmp, seen, rec, ver>> /\ pc'[d] = "dead"
          /\ \A q \in Procs \ {d} : pc'[q] = pc[q]
      BY <2>2 DEF CrashDaemon, Goto, files, Alive, TInv, TypeOK
    <3> QED
      BY <1>0, <1>l, <3>1, DaemonMoves
  <2>3. ASSUME NEW d \in Daemons, SessionStarts(d) \/ SessionsEnd(d) PROVE Alone'
    BY <1>4, <2>3 DEF SessionStarts, SessionsEnd, files
  <2>4. CASE Age
    BY <1>4, <2>4 DEF Age
  \* The others would disturb.
  <2>5. ASSUME NEW c \in Clis, KillCli(c) PROVE FALSE
    BY <1>0, <2>5 DEF KillCli
  <2>6. ASSUME NEW d \in Daemons, Serve(d) \/ Terminate(d) PROVE FALSE
    BY <1>0, <2>6 DEF Serve, Terminate
  <2>7. ASSUME Update PROVE FALSE
    BY <1>0, <2>7 DEF Update
  <2> QED
    BY <1>5, <2>1, <2>2, <2>3, <2>4, <2>5, <2>6, <2>7 DEF Environment
<1>6. CASE UNCHANGED vars
  BY <1>4, <1>6 DEF vars, files
<1> QED
  BY <1>1, <1>2, <1>3, <1>5, <1>6 DEF Next

\* The invariant holds in every state of every behaviour.
THEOREM Invariance == Spec => [](TInv /\ SInv)
<1>1. Init => TInv /\ SInv
  BY TypeInit, OneInit
<1>2. TInv /\ SInv /\ [Next]_vars => (TInv /\ SInv)'
  BY TypeStep, OneStep
<1> QED
  BY <1>1, <1>2, PTL DEF Spec

\* However many commands call Ensure at once, and whenever the daemon they
\* start dies, at most one daemon process is alive (Ensure, acquire, serve).
THEOREM OneDaemon == Spec => []OneService
<1>1. ASSUME TInv, SInv PROVE OneService
  <2> SUFFICES ASSUME Undisturbed
               PROVE  Cardinality({d \in Daemons : pc[d] \notin {"none", "dead"}}) <= 1
    BY DEF OneService
  <2> DEFINE L == {d \in Daemons : Alive(d)}
  <2>1. ASSUME NEW d \in L, NEW e \in L PROVE d = e
    <3>1. /\ Alive(d) /\ Alive(e) /\ rec[d].pid = d /\ rec[e].pid = e
      BY <1>1 DEF SInv, Alone, Recorded
    <3>2. rec[d] = rec[e]
      BY <1>1, <3>1 DEF SInv, Alone, Recorded
    <3> QED
      BY <3>1, <3>2
  <2>2. L = {} \/ \E d \in L : L = {d}
    BY <2>1
  <2> HIDE DEF L
  <2>3. CASE L = {}
    <3>1. Cardinality(L) = 0
      BY <2>3, FS_EmptySet
    <3> QED
      BY <3>1 DEF L, Alive
  <2>4. CASE \E d \in L : L = {d}
    <3>1. PICK d \in L : L = {d}
      BY <2>4
    <3>2. Cardinality(L) = 1
      BY <3>1, FS_Singleton
    <3> QED
      BY <3>2 DEF L, Alive
  <2> QED
    BY <2>2, <2>3, <2>4
<1> QED
  BY <1>1, Invariance, PTL

\* When nobody is writing, runtime.json names the daemon that serves, although
\* the command and its daemon write it at the same time (Write, Ensure, serve).
THEOREM ServiceRecorded == Spec => []OwnershipRecorded
<1>1. ASSUME TInv, SInv PROVE OwnershipRecorded
  <2> SUFFICES ASSUME Undisturbed,
                      \A c \in Clis : pc[c] \notin {"tmp", "remove", "rename"},
                      NEW d \in Daemons, pc[d] = "serving"
               PROVE  Read # None /\ Read.pid = d
    BY DEF OwnershipRecorded
  <2>1. state = rec[d] /\ rec[d].pid = d /\ rec[d] \in States
    BY <1>1 DEF SInv, Alone, Recorded, Alive, Writing
  <2> QED
    BY <2>1, FilesAssumption DEF Read
<1> QED
  BY <1>1, Invariance, PTL

-----------------------------------------------------------------------------
(* Reuse: no daemon begins to serve while a command replaces one *)

\* A record names a daemon that was started.
Named(s) == s \in States => pc[s.pid] # "none"

AllNamed ==
  /\ Named(state) /\ Named(tmp)
  /\ \A p \in Procs : Named(seen[p]) /\ Named(rec[p])

OneAnswers ==
  \A d, e \in Daemons :
    pc[d] = "serving" /\ pc[e] = "serving" /\ rec[d].port = rec[e].port => d = e

\* A command that has started a daemon and still waits for it; a daemon that
\* does not serve yet has one, and nobody else has taken its port.
Launching(c) == Writing(c) /\ ~Rewriting(c)

Awaited ==
  \A d \in Daemons : pc[d] \in Starting => \E c \in Clis : Launching(c) /\ rec[c].pid = d

PortKept ==
  \A c \in Clis : Launching(c) => Serving(rec[c].port) \subseteq {rec[c].pid}

\* What answers a command that goes on to shut a daemon down is of another
\* version.
Outdated(c) ==
  pc[c] \in {"sessions", "shutdown"} =>
    \A d \in Serving(seen[c].port) : rec[d].version # ver[c]

RInv ==
  /\ LockKept /\ AllNamed /\ OneAnswers /\ Awaited /\ PortKept
  /\ \A c \in Clis : Outdated(c)

\* Most steps start no daemon and let none serve, and a command stops waiting
\* only when its daemon has left off starting.
Settles ==
  /\ \A d \in Daemons :
       /\ rec'[d] = rec[d]
       /\ pc'[d] \in Starting => pc[d] \in Starting
       /\ pc'[d] = "serving" => pc[d] = "serving"
  /\ \A c \in Clis :
       /\ Launching(c)' => Launching(c) /\ rec'[c] = rec[c]
       /\ Launching(c) => \/ Launching(c)' /\ rec'[c] = rec[c]
                          \/ pc'[rec[c].pid] \notin Starting

\* No command comes to ask for sessions or the shutdown.
AsksOn ==
  \A c \in Clis :
    pc'[c] \in {"sessions", "shutdown"} =>
      pc[c] \in {"sessions", "shutdown"} /\ seen'[c] = seen[c] /\ ver'[c] = ver[c]

LEMMA ReuseInit == Init => RInv
BY LockInit, ProcsAssumption, FilesAssumption
DEF Init, RInv, AllNamed, Named, OneAnswers, Awaited, Starting, PortKept, Launching,
    Writing, Outdated, Procs, States

LEMMA SettlesKeeps ==
  ASSUME RInv, Settles
  PROVE  OneAnswers' /\ Awaited' /\ PortKept'
<1>1. OneAnswers'
  BY DEF RInv, Settles, OneAnswers
<1>2. Awaited'
  BY DEF RInv, Settles, Awaited
<1>3. PortKept'
  BY DEF RInv, Settles, PortKept, Serving
<1> QED
  BY <1>1, <1>2, <1>3

LEMMA AsksOnKeeps ==
  ASSUME RInv, Settles, AsksOn, NEW c \in Clis
  PROVE  Outdated(c)'
BY DEF RInv, Settles, AsksOn, Outdated, Serving

\* Records are copied from one place to another, and made for a new daemon.
LEMMA NamesStep ==
  ASSUME TInv, TInv', AllNamed, [Next]_vars
  PROVE  AllNamed'
<1> USE ProcsAssumption, FilesAssumption DEF Procs
<1> DEFINE Copied == /\ state' \in {state, tmp, None}
                     /\ \A d \in Daemons : pc[d] # "none" => pc'[d] # "none"
                     /\ tmp' \in {tmp, None} \/ \E p \in Procs : tmp' = rec[p]
                     /\ \A p \in Procs : seen'[p] \in {seen[p], state, None}
                     /\ \A p \in Procs : rec'[p] \in {rec[p], None}
<1>0. Copied => AllNamed'
  BY DEF AllNamed, Named, States
<1>t. /\ pc \in [Procs -> CliPCs \cup DaemonPCs]
      /\ seen \in [Procs -> States \cup {None}] /\ rec \in [Procs -> States \cup {None}]
      /\ \A c \in Clis : pc[c] \in CliPCs
  BY DEF TInv, TypeOK
<1>1. ASSUME NEW c \in Clis, EnsureStep(c) PROVE AllNamed'
  <2>1. CASE FastCheck(c) \/ Recheck(c) \/ Poll(c) \/ WaitHealthy(c)
    BY <2>1, <1>t, <1>0 DEF FastCheck, Recheck, Poll, WaitHealthy, Release, Leave, Goto, files
  <2>2. CASE Acquire(c) \/ StatStale(c) \/ Steal(c) \/ Reread(c)
    BY <2>2, <1>t, <1>0 DEF Acquire, StatStale, Steal, Reread, Read, Goto, files
  <2>3. CASE AskSessions(c) \/ AskShutdown(c)
    BY <2>3, <1>t, <1>0 DEF AskSessions, AskShutdown, Release, Leave, Goto, files
  <2>4. CASE AskVersion(c)
    <3>1. CASE rec' = [rec EXCEPT ![c] = [seen[c] EXCEPT !.version = ver[c]]]
               /\ Answers(seen[c]) /\ UNCHANGED seen
      <4>1. seen[c] \in States /\ rec'[c] = [seen[c] EXCEPT !.version = ver[c]]
        BY <3>1, <1>t DEF Answers
      <4>2. rec'[c].pid = seen[c].pid
        BY <4>1 DEF States
      <4>3. UNCHANGED <<state, tmp>> /\ \A d \in Daemons : pc[d] # "none" => pc'[d] # "none"
        BY <2>4, <1>t DEF AskVersion, Release, Leave, Goto
      <4> QED
        BY <3>1, <4>1, <4>2, <4>3, <1>t DEF AllNamed, Named, States
    <3>2. CASE ~(rec' = [rec EXCEPT ![c] = [seen[c] EXCEPT !.version = ver[c]]]
                 /\ Answers(seen[c]) /\ UNCHANGED seen)
      BY <2>4, <3>2, <1>t, <1>0 DEF AskVersion, Release, Leave, Goto
    <3> QED
      BY <3>1, <3>2
  <2>5. CASE Unclaim(c) \/ Clear(c) \/ SpawnFails(c)
    BY <2>5, <1>t, <1>0 DEF Unclaim, Clear, SpawnFails, Release, Leave, Goto, files
  <2>6. CASE Spawn(c)
    <3>1. PICK d \in Daemons, port \in Ports :
            /\ rec' = [rec EXCEPT ![c] = [pid |-> d, port |-> port, version |-> ver[c]],
                                  ![d] = [pid |-> d, port |-> port, version |-> installed]]
            /\ pc' = [pc EXCEPT ![c] = "tmp", ![d] = "read"]
      BY <2>6 DEF Spawn
    <3>2. \A p \in Procs : rec'[p] = rec[p] \/ rec'[p].pid = d
      BY <3>1, <1>t
    <3>3. pc'[d] = "read" /\ \A e \in Daemons : pc[e] # "none" => pc'[e] # "none"
      BY <3>1, <1>t
    <3> QED
      BY <2>6, <3>2, <3>3 DEF Spawn, files, AllNamed, Named, States
  <2> QED
    BY <1>1, <2>1, <2>2, <2>3, <2>4, <2>5, <2>6 DEF EnsureStep
<1>2. ASSUME NEW p \in Procs, WriteStep(p) PROVE AllNamed'
  BY <1>2, <1>t, <1>0 DEF WriteStep, WriteTmp, RemoveState, Rename, RenameFails, Release, Leave, Goto
<1>3. ASSUME NEW d \in Daemons, ServeStep(d) PROVE AllNamed'
  BY <1>3, <1>t, <1>0 DEF ServeStep, ReadExisting, CheckExisting, Listen, ReadOwn, ClearOwn,
     Read, Goto, files
<1>4. ASSUME Environment PROVE AllNamed'
  <2>1. CASE \E c \in Clis : Invoke(c) \/ KillCli(c)
    BY <2>1, <1>t, <1>0 DEF Invoke, KillCli, Leave, Read, Goto, files
  <2>2. ASSUME NEW d \in Daemons, Serve(d) PROVE AllNamed'
    BY <2>2, <1>t DEF Serve, Goto, files, AllNamed, Named, States
  <2>3. CASE \E d \in Daemons : \/ SessionStarts(d) \/ SessionsEnd(d)
                                \/ Terminate(d) \/ CrashDaemon(d)
    BY <2>3, <1>t, <1>0 DEF SessionStarts, SessionsEnd, Terminate, CrashDaemon, Goto, files, procs
  <2>4. CASE Age \/ Update
    BY <2>4, <1>0 DEF Age, Update, files, procs
  <2> QED
    BY <1>4, <2>1, <2>2, <2>3, <2>4 DEF Environment
<1>5. CASE UNCHANGED vars
  BY <1>5, <1>0 DEF vars, files, procs
<1> QED
  BY <1>1, <1>2, <1>3, <1>4, <1>5 DEF Next

\* A step of a command that starts no daemon and does not decide on one.
LEMMA CommandSettles ==
  ASSUME TInv, LockKept, lates' = lates, NEW c \in Clis, EnsureStep(c), ~Spawn(c),
         PortKept
  PROVE  Settles /\ (AskVersion(c) \/ AsksOn)
<1> USE ProcsAssumption DEF Procs
<1>t. /\ pc \in [Procs -> CliPCs \cup DaemonPCs]
      /\ seen \in [Procs -> States \cup {None}] /\ rec \in [Procs -> States \cup {None}]
  BY DEF TInv, TypeOK
<1> DEFINE Aside == /\ \A p \in Procs \ {c} : pc'[p] = pc[p] /\ seen'[p] = seen[p] /\ rec'[p] = rec[p]
                    /\ ver' = ver
<1>1. CASE FastCheck(c) \/ Recheck(c) \/ Poll(c)
  <2>1. Aside /\ ~Writing(c) /\ ~Writing(c)' /\ pc'[c] \notin {"sessions", "shutdown"}
    BY <1>1, <1>t DEF FastCheck, Recheck, Poll, Release, Leave, Goto, Writing
  <2> QED
    BY <2>1 DEF Settles, AsksOn, Launching, Writing, Rewriting
<1>2. CASE Acquire(c) \/ StatStale(c) \/ Steal(c) \/ Reread(c)
  <2>1. Aside /\ ~Writing(c) /\ ~Writing(c)' /\ pc'[c] \notin {"sessions", "shutdown"}
    BY <1>2, <1>t DEF Acquire, StatStale, Steal, Reread, Goto, Writing
  <2> QED
    BY <2>1 DEF Settles, AsksOn, Launching, Writing, Rewriting
<1>3. CASE AskVersion(c)
  <2>1. Aside /\ ~Writing(c) /\ (Writing(c)' => Rewriting(c)')
    <3>1. CASE rec' = [rec EXCEPT ![c] = [seen[c] EXCEPT !.version = ver[c]]]
               /\ Answers(seen[c]) /\ UNCHANGED seen
      <4>1. seen[c] \in States /\ seen[c] # None /\ rec'[c] = [seen[c] EXCEPT !.version = ver[c]]
        BY <3>1, <1>t DEF Answers
      <4>2. rec'[c].pid = seen[c].pid
        BY <4>1 DEF States
      <4> QED
        BY <1>3, <3>1, <4>1, <4>2, <1>t DEF AskVersion, Release, Leave, Goto, Rewriting, Writing
    <3>2. CASE ~(rec' = [rec EXCEPT ![c] = [seen[c] EXCEPT !.version = ver[c]]]
                 /\ Answers(seen[c]) /\ UNCHANGED seen)
      BY <1>3, <3>2, <1>t DEF AskVersion, Release, Leave, Goto, Writing
    <3> QED
      BY <3>1, <3>2
  <2> QED
    BY <1>3, <2>1 DEF Settles, Launching, Writing, Rewriting
<1>4. CASE AskSessions(c)
  <2>1. /\ Aside /\ ~Writing(c) /\ ~Writing(c)' /\ pc[c] = "sessions"
        /\ pc'[c] = "shutdown" => seen'[c] = seen[c]
        /\ pc'[c] \in {"shutdown", "idle"}
    BY <1>4, <1>t DEF AskSessions, Release, Leave, Goto, Writing
  <2> QED
    BY <2>1 DEF Settles, AsksOn, Launching, Writing, Rewriting
<1>5. CASE AskShutdown(c)
  <2>1. /\ ~Writing(c) /\ ~Writing(c)' /\ pc'[c] \in {"poll", "idle"}
        /\ \A d \in Daemons : pc'[d] = pc[d] \/ pc'[d] = "closing"
        /\ \A p \in Procs \ {c} : seen'[p] = seen[p] /\ rec'[p] = rec[p]
        /\ \A e \in Clis \ {c} : pc'[e] = pc[e]
        /\ ver' = ver
    BY <1>5, <1>t DEF AskShutdown, Answers, Serving, Release, Leave, Goto, Writing, States
  <2> QED
    BY <2>1 DEF Settles, AsksOn, Launching, Writing, Rewriting, Starting
<1>6. CASE Unclaim(c) \/ Clear(c) \/ SpawnFails(c)
  <2>1. Aside /\ ~Writing(c) /\ ~Writing(c)' /\ pc'[c] \notin {"sessions", "shutdown"}
    BY <1>6, <1>t DEF Unclaim, Clear, SpawnFails, Release, Leave, Goto, Writing
  <2> QED
    BY <2>1 DEF Settles, AsksOn, Launching, Writing, Rewriting
<1>7. CASE WaitHealthy(c)
  <2>1. Aside /\ Writing(c) /\ pc'[c] = "idle"
    BY <1>7, <1>t DEF WaitHealthy, Release, Leave, Goto, Writing
  <2>2. ~Answers(rec[c]) => pc[rec[c].pid] \notin Starting
    BY <1>7, BoundsAssumption DEF WaitHealthy, TInv, TypeOK
  <2>3. rec[c] \in States
    BY <1>t, <1>7 DEF WaitHealthy, TInv, WritersHaveRecords
  <2>4. Launching(c) => pc'[rec[c].pid] \notin Starting
    <3>1. rec[c].pid \in Daemons
      BY <2>3 DEF States
    <3>2. Launching(c) /\ Answers(rec[c]) => pc[rec[c].pid] = "serving"
      BY <2>3 DEF PortKept, Answers, Serving
    <3> QED
      BY <2>1, <2>2, <3>1, <3>2 DEF Starting
  <2> QED
    BY <2>1, <2>4 DEF Settles, AsksOn, Launching, Writing, Rewriting
<1> QED
  BY <1>1, <1>2, <1>3, <1>4, <1>5, <1>6, <1>7 DEF EnsureStep

\* A write by a command goes on until its daemon is killed; a daemon's own
\* concerns nobody.
LEMMA WriteSettles ==
  ASSUME TInv, NEW p \in Procs, WriteStep(p)
  PROVE  Settles /\ AsksOn
<1> USE ProcsAssumption DEF Procs
<1>t. /\ pc \in [Procs -> CliPCs \cup DaemonPCs]
      /\ seen \in [Procs -> States \cup {None}] /\ rec \in [Procs -> States \cup {None}]
  BY DEF TInv, TypeOK
<1>1. CASE WriteTmp(p) \/ RemoveState(p)
  BY <1>1, <1>t DEF WriteTmp, RemoveState, Goto, Settles, AsksOn, Launching, Writing, Rewriting,
     Starting
<1>2. CASE Rename(p)
  BY <1>2, <1>t DEF Rename, Goto, Settles, AsksOn, Launching, Writing, Rewriting, Starting
<1>3. CASE RenameFails(p)
  <2>1. CASE p \in Daemons
    BY <1>3, <2>1, <1>t DEF RenameFails, Goto, Settles, AsksOn, Launching, Writing, Rewriting,
       Starting
  <2>2. CASE p \in Clis
    <3>1. rec[p] \in States /\ rec[p].pid \in Daemons
      BY <1>3, <2>2, <1>t DEF RenameFails, TInv, WritersHaveRecords, States
    <3>2. /\ pc'[p] = "idle" /\ UNCHANGED ver
          /\ \A q \in Procs \ {p} : pc'[q] \in {pc[q], "dead"} /\ seen'[q] = seen[q] /\ rec'[q] = rec[q]
          /\ \A q \in Clis \ {p} : pc'[q] = pc[q]
          /\ ~Rewriting(p) => pc'[rec[p].pid] = "dead"
      BY <1>3, <2>2, <3>1, <1>t DEF RenameFails
    <3> QED
      BY <2>2, <3>1, <3>2 DEF Settles, AsksOn, Launching, Writing, Rewriting, Starting
  <2> QED
    BY <2>1, <2>2
<1> QED
  BY <1>1, <1>2, <1>3 DEF WriteStep

\* The daemons' own steps, but for the one in which they begin to serve, and
\* those of their surroundings.
LEMMA OthersSettle ==
  ASSUME TInv, kills' = kills, serves' = serves,
         Environment \/ \E d \in Daemons : ServeStep(d) /\ ~Listen(d)
  PROVE  Settles /\ AsksOn
<1> USE ProcsAssumption, BoundsAssumption DEF Procs
<1>t. /\ pc \in [Procs -> CliPCs \cup DaemonPCs]
      /\ seen \in [Procs -> States \cup {None}] /\ rec \in [Procs -> States \cup {None}]
      /\ kills \in Nat /\ serves \in Nat
  BY DEF TInv, TypeOK
<1>1. ASSUME NEW d \in Daemons, ServeStep(d), ~Listen(d) PROVE Settles /\ AsksOn
  BY <1>1, <1>t DEF ServeStep, ReadExisting, CheckExisting, ReadOwn, ClearOwn, Goto, files,
     Settles, AsksOn, Launching, Writing, Rewriting, Starting
<1>2. ASSUME NEW c \in Clis, Invoke(c) PROVE Settles /\ AsksOn
  BY <1>2, <1>t DEF Invoke, Goto, files, Settles, AsksOn, Launching, Writing, Rewriting
<1>3. ASSUME NEW c \in Clis, KillCli(c) PROVE FALSE
  BY <1>3, <1>t DEF KillCli
<1>4. ASSUME NEW d \in Daemons, Serve(d) PROVE FALSE
  BY <1>4, <1>t DEF Serve
<1>5. ASSUME NEW d \in Daemons, \/ SessionStarts(d) \/ SessionsEnd(d)
                                \/ Terminate(d) \/ CrashDaemon(d)
      PROVE  Settles /\ AsksOn
  BY <1>5, <1>t DEF SessionStarts, SessionsEnd, Terminate, CrashDaemon, Goto, files, procs,
     Settles, AsksOn, Launching, Writing, Rewriting, Starting
<1>6. CASE Age \/ Update
  BY <1>6 DEF Age, Update, files, procs, Settles, AsksOn, Launching, Writing, Rewriting
<1> QED
  BY <1>1, <1>2, <1>3, <1>4, <1>5, <1>6 DEF Environment

\* The version a command is told is that of the only daemon at the port.
LEMMA VersionTold ==
  ASSUME TInv, RInv, Settles, NEW c \in Clis, AskVersion(c), NEW e \in Clis
  PROVE  Outdated(e)'
<1> USE ProcsAssumption DEF Procs
<1>t. /\ pc \in [Procs -> CliPCs \cup DaemonPCs]
      /\ seen \in [Procs -> States \cup {None}] /\ rec \in [Procs -> States \cup {None}]
  BY DEF TInv, TypeOK
<1>1. CASE e # c
  <2>1. pc'[e] = pc[e] /\ seen'[e] = seen[e] /\ ver' = ver
    BY <1>1, <1>t DEF AskVersion, Release, Leave, Goto
  <2> QED
    BY <2>1 DEF RInv, Settles, Outdated, Serving
<1>2. CASE e = c /\ pc'[c] = "sessions"
  <2>1. PICK d \in Daemons : d \in Serving(seen[c].port) /\ rec[d].version # ver[c]
    BY <1>2, <1>t DEF AskVersion, Release, Leave, Goto
  <2>2. seen' = seen /\ ver' = ver
    BY <1>2, <1>t DEF AskVersion, Release, Leave, Goto
  <2>3. \A f \in Serving(seen[c].port) : f = d
    BY <2>1 DEF RInv, OneAnswers, Serving
  <2> QED
    BY <1>2, <2>1, <2>2, <2>3 DEF Settles, Outdated, Serving
<1>3. CASE e = c /\ pc'[c] # "sessions"
  <2>1. pc'[c] # "shutdown"
    BY <1>t DEF AskVersion, Release, Leave, Goto
  <2> QED
    BY <1>3, <2>1 DEF Outdated
<1> QED
  BY <1>1, <1>2, <1>3

\* A daemon is started by the holder of the lock, on a port nobody serves.
LEMMA SpawnReuses ==
  ASSUME TInv, RInv, NEW c \in Clis, Spawn(c)
  PROVE  OneAnswers' /\ Awaited' /\ PortKept' /\ \A e \in Clis : Outdated(e)'
<1> USE ProcsAssumption, FilesAssumption DEF Procs
<1>t. /\ pc \in [Procs -> CliPCs \cup DaemonPCs]
      /\ seen \in [Procs -> States \cup {None}] /\ rec \in [Procs -> States \cup {None}]
  BY DEF TInv, TypeOK
<1>1. PICK d \in Daemons, port \in Ports :
        /\ pc[d] = "none" /\ Serving(port) = {}
        /\ rec' = [rec EXCEPT ![c] = [pid |-> d, port |-> port, version |-> ver[c]],
                              ![d] = [pid |-> d, port |-> port, version |-> installed]]
        /\ pc' = [pc EXCEPT ![c] = "tmp", ![d] = "read"]
  BY DEF Spawn, FreePort
<1>2. /\ pc[c] = "spawn" /\ UNCHANGED <<seen, ver>> /\ c # d
      /\ pc'[c] = "tmp" /\ pc'[d] = "read"
      /\ rec'[c].pid = d /\ rec'[c].port = port
      /\ \A p \in Procs \ {c, d} : pc'[p] = pc[p] /\ rec'[p] = rec[p]
  BY <1>1, <1>t DEF Spawn
<1>3. \A e \in Clis \ {c} : pc'[e] = pc[e] /\ pc[e] \notin Holding
  <2>1. pc[c] \in Holding
    BY <1>2 DEF Holding, CliPCs
  <2> QED
    BY <1>2, <2>1 DEF RInv, LockKept
<1>4. \A e \in Clis \ {c} : ~Writing(e)' /\ pc'[e] \notin {"sessions", "shutdown"}
  BY <1>3 DEF Holding, CliPCs, Writing
<1>5. \A e \in Clis : ~Writing(e)
  BY <1>2, <1>3 DEF Holding, CliPCs, Writing
<1>6. \A e \in Daemons : pc[e] \notin Starting
  BY <1>5 DEF RInv, Awaited, Launching
<1>7. Launching(c)'
  <2>1. seen[c] # None => seen[c].pid # d
    BY <1>1, <1>t DEF RInv, AllNamed, Named
  <2> QED
    BY <1>2, <2>1 DEF Launching, Writing, Rewriting
<1>8. \A e \in Daemons : pc'[e] = "serving" => e # d /\ pc[e] = "serving" /\ rec'[e] = rec[e]
  BY <1>2
<1>9. OneAnswers'
  BY <1>8 DEF RInv, OneAnswers
<1>10. Awaited'
  BY <1>2, <1>6, <1>7 DEF Awaited
<1>11. PortKept'
  <2>1. Serving(port)' = {}
    BY <1>1, <1>8 DEF Serving
  <2> QED
    BY <1>2, <1>4, <2>1 DEF PortKept, Launching, Serving
<1>12. \A e \in Clis : Outdated(e)'
  BY <1>2, <1>4 DEF Outdated
<1> QED
  BY <1>9, <1>10, <1>11, <1>12

\* A daemon begins to serve while the holder of the lock waits for it.
LEMMA ListenReuses ==
  ASSUME TInv, RInv, NEW d \in Daemons, Listen(d)
  PROVE  OneAnswers' /\ Awaited' /\ PortKept' /\ \A e \in Clis : Outdated(e)'
<1> USE ProcsAssumption DEF Procs
<1>1. /\ pc[d] = "listen" /\ UNCHANGED <<seen, rec, ver>>
      /\ pc'[d] \in {"serving", "closing"} /\ \A p \in Procs \ {d} : pc'[p] = pc[p]
      /\ pc'[d] = "serving" => Serving(rec[d].port) = {}
  BY DEF Listen, Goto, files, TInv, TypeOK
<1>2. PICK c \in Clis : Launching(c) /\ rec[c].pid = d
  BY <1>1 DEF RInv, Awaited, Starting
<1>3. \A e \in Clis \ {c} : pc[e] \notin Holding
  <2>1. pc[c] \in Holding
    BY <1>2 DEF Launching, Writing, Holding, CliPCs
  <2> QED
    BY <2>1 DEF RInv, LockKept
<1>4. \A e \in Clis : Launching(e) <=> Launching(e)'
  BY <1>1 DEF Launching, Writing, Rewriting
<1>5. \A e \in Clis \ {c} : ~Launching(e)
  BY <1>3 DEF Launching, Writing, Holding, CliPCs
<1>6. OneAnswers'
  BY <1>1 DEF RInv, OneAnswers, Serving
<1>7. Awaited'
  BY <1>1, <1>4 DEF RInv, Awaited, Starting
<1>8. PortKept'
  <2>1. Serving(rec[c].port) \subseteq {d}
    BY <1>2 DEF RInv, PortKept
  <2> QED
    BY <1>1, <1>2, <1>4, <1>5, <2>1 DEF PortKept, Serving
<1>9. \A e \in Clis : pc'[e] \notin {"sessions", "shutdown"}
  BY <1>1, <1>2, <1>3 DEF Launching, Writing, Holding, CliPCs
<1> QED
  BY <1>6, <1>7, <1>8, <1>9 DEF Outdated

LEMMA ReuseStep ==
  ASSUME TInv, TInv', RInv, [Next]_vars,
         kills' = 0, ages' = 0, kills' = kills, serves' = serves, lates' = lates
  PROVE  RInv'
<1> DEFINE Rest == OneAnswers' /\ Awaited' /\ PortKept' /\ \A e \in Clis : Outdated(e)'
<1>1. LockKept'
  BY LockStep DEF RInv
<1>2. AllNamed'
  BY NamesStep DEF RInv
<1>3. Settles /\ AsksOn => Rest
  BY SettlesKeeps, AsksOnKeeps
<1>4. ASSUME NEW c \in Clis, EnsureStep(c) PROVE Rest
  <2>1. CASE Spawn(c)
    BY <2>1, SpawnReuses
  <2>2. CASE ~Spawn(c)
    <3>1. Settles /\ (AskVersion(c) \/ AsksOn)
      BY <1>4, <2>2, CommandSettles DEF RInv
    <3>2. CASE AskVersion(c)
      BY <3>1, <3>2, SettlesKeeps, VersionTold
    <3> QED
      BY <1>3, <3>1, <3>2
  <2> QED
    BY <2>1, <2>2
<1>5. ASSUME NEW p \in Procs, WriteStep(p) PROVE Rest
  BY <1>3, <1>5, WriteSettles
<1>6. ASSUME NEW d \in Daemons, ServeStep(d) PROVE Rest
  <2>1. CASE Listen(d)
    BY <2>1, ListenReuses
  <2>2. CASE ~Listen(d)
    BY <1>3, <1>6, <2>2, OthersSettle
  <2> QED
    BY <2>1, <2>2
<1>7. ASSUME Environment PROVE Rest
  BY <1>3, <1>7, OthersSettle
<1>8. ASSUME UNCHANGED vars PROVE Rest
  BY <1>3, <1>8 DEF vars, files, procs, Settles, AsksOn, Launching, Writing, Rewriting
<1>9. Rest
  BY <1>4, <1>5, <1>6, <1>7, <1>8 DEF Next
<1> QED
  BY <1>1, <1>2, <1>9 DEF RInv

\* No command was killed half-way, no lock and no answer was late, and nobody
\* has run `backpack serve'.
Calm == kills = 0 /\ ages = 0 /\ serves = 0 /\ lates = 0

Reused ==
  \A c \in Clis :
    /\ AskShutdown(c) /\ pc'[c] = "poll" => rec[seen[c].pid].version # ver[c]
    /\ Undisturbed /\ Spawn(c) => ~Answers(seen[c])

\* The daemon an upgrade shuts down is of another version, although it is asked
\* three requests earlier, and undisturbed no daemon is started while the one
\* that was read about answers (replaceOutdated, Ensure): until a command is
\* killed half-way, a deadline is missed or somebody runs `backpack serve'.
THEOREM ReusesUntil == Spec => [][Calm => Reused]_vars
<1> DEFINE Inv == Calm => RInv
<1>1. Init => Inv
  BY ReuseInit
<1>2. TInv /\ TInv' /\ Inv /\ [Next]_vars => Inv'
  <2> SUFFICES ASSUME TInv, TInv', Inv, [Next]_vars, Calm' PROVE RInv'
    OBVIOUS
  <2>1. kills \in Nat /\ ages \in Nat /\ serves \in Nat /\ lates \in Nat
    BY BoundsAssumption DEF TInv, TypeOK
  <2>2. Calm
    BY <2>1, BudgetsGrow DEF Calm, Counted
  <2> QED
    BY <2>2, ReuseStep DEF Calm
<1>3. TInv /\ SInv /\ Inv /\ [Next]_vars => [Calm => Reused]_vars
  <2> SUFFICES ASSUME SInv, TInv, RInv PROVE Reused
    OBVIOUS
  <2>1. ASSUME NEW c \in Clis, AskShutdown(c), pc'[c] = "poll"
        PROVE  rec[seen[c].pid].version # ver[c]
    <3>1. pc[c] = "shutdown" /\ seen[c].pid \in Serving(seen[c].port)
      BY <2>1, ProcsAssumption
      DEF AskShutdown, Release, Leave, Goto, TInv, TypeOK, Procs
    <3> QED
      BY <3>1 DEF RInv, Outdated
  <2>2. ASSUME NEW c \in Clis, Undisturbed, Spawn(c) PROVE ~Answers(seen[c])
    BY <2>2 DEF SInv, Alone, Absent, Alive, Spawn, Answers, Serving
  <2> QED
    BY <2>1, <2>2 DEF Reused
<1> QED
  BY <1>1, <1>2, <1>3, Invariance, PTL DEF Spec

\* Where none of it can happen, it always is.
THEOREM ReusesTheService ==
  ASSUME MaxKills = 0, MaxAges = 0, MaxServes = 0, MaxLates = 0
  PROVE  Spec => ServiceReused
<1>1. TypeOK => Calm
  BY DEF TypeOK, Calm
<1>2. TypeOK /\ [Calm => Reused]_vars => [Reused]_vars
  BY <1>1
<1> QED
  BY <1>2, TypeCorrect, ReusesUntil, PTL DEF ServiceReused, Reused
=============================================================================
