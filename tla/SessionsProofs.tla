--------------------------- MODULE SessionsProofs ---------------------------
(***************************************************************************)
(* Proofs about Sessions for any finite or infinite set of ids, models and *)
(* callers, any bounds and either platform: IInv is inductive, and with it *)
(* the safety properties, the two action properties and the refinement of  *)
(* SessionContract hold.  Liveness is left to TLC.                         *)
(***************************************************************************)
EXTENDS Sessions, TLAPS

-----------------------------------------------------------------------------
(* The inductive invariant behind the safety properties. *)

StartPCs == {"health", "publish", "abortWait"}
StopPCs  == {"signal", "stopWait", "killWait", "finish"}

\* An id no client has seen has left no trace, an unused one has no process.
FreshIds ==
  \A s \in SessionIDs :
    /\ s \notin known => /\ mem[s] = "absent" /\ disk[s] = "absent"
                         /\ rival # None => rival[s] = "absent"
    /\ proc[s] = "none" => s \notin known /\ \A c \in Goroutines : tgt[c] # s

\* Who works on which session: a Start on one that nobody else knows, a Stop
\* on one the manager owns; a Stop that is over has seen the process die.
Targets ==
  \A c \in Goroutines :
    /\ pc[c] \in {"idle", "preparing"} => tgt[c] = None
    /\ pc[c] \in StartPCs => /\ c # Main /\ tgt[c] \in SessionIDs \ known
                             /\ proc[tgt[c]] \in {"running", "exited", "reaped"}
                             /\ \A d \in Goroutines \ {c} : tgt[d] # tgt[c]
    /\ pc[c] \in StopPCs => tgt[c] \in owned
    /\ pc[c] = "finish" => proc[tgt[c]] = "reaped"
    /\ pc[Main] # "preparing"

\* Statuses against processes, for owned sessions and for inherited ones.
Records ==
  \A s \in SessionIDs :
    /\ s \in owned =>
         /\ s \in known
         /\ mem[s] \in {"ready", "stopping", "stopped", "failed"}
         /\ proc[s] \in {"running", "exited", "reaped"}
         /\ mem[s] = "failed" => proc[s] = "reaped"
    /\ s \notin owned => mem[s] \in {"absent", "stopped", "failed"}
    /\ mem[s] = "ready" => s \in monitors
    /\ s \in monitors => s \in owned

\* A daemon that is down, and one that cannot read its file, holds nothing.
Quiet ==
  /\ phase = "down" =>
       /\ mem = Nothing /\ owned = {} /\ monitors = {} /\ queue = {} /\ listed = {}
       /\ \A c \in Goroutines : pc[c] = "idle"
  /\ foreign => /\ disk = Nothing /\ mem = Nothing /\ rival = None /\ owned = {}
                /\ \A c \in Goroutines : pc[c] = "idle"
                /\ phase # "down" => stateErr

\* What Shutdown listed is still in its queue, being stopped by it, or dead.
Listed ==
  \A s \in listed :
    /\ s \in owned
    /\ s \in queue \/ proc[s] = "reaped" \/ (tgt[Main] = s /\ pc[Main] \in StopPCs)

\* Absent failed writes and second servers, file and memory can only differ on
\* a session that some Stop is working on.
FileFollows ==
  /\ rivals = 0 => rival = None
  /\ phase # "down" /\ ~stateErr /\ writeErrors = 0 /\ rivals = 0 =>
       \A s \in SessionIDs :
         disk[s] = mem[s] \/ \E c \in Goroutines : tgt[c] = s /\ pc[c] \in StopPCs

IInv ==
  /\ TypeOK
  /\ StoppedIsDead
  /\ NoStrayProcess
  /\ FreshIds
  /\ Targets
  /\ Records
  /\ Quiet
  /\ Listed
  /\ FileFollows

-----------------------------------------------------------------------------
(* What a call of persistLocked can do to the file. *)

Persisted ==
  /\ mem' \in [SessionIDs -> Status] /\ disk' \in [SessionIDs -> Status]
  /\ writeErrors' \in 0..MaxWriteErrors
  /\ foreign' \in BOOLEAN
  /\ \/ disk' = mem' /\ foreign' = FALSE
     \/ disk' = disk /\ foreign' = foreign /\ writeErrors' # 0

\* A call of persistLocked either writes the whole map or leaves the file as
\* it was and is counted as a write error.
LEMMA PersistOutcome ==
  ASSUME TypeOK, mem' \in [SessionIDs -> Status], persistLocked(mem')
  PROVE  Persisted
<1>1. CASE disk' = mem' /\ foreign' = FALSE /\ UNCHANGED writeErrors
  BY <1>1 DEF TypeOK, Persisted
<1>2. CASE /\ writeErrors < MaxWriteErrors
           /\ writeErrors' = writeErrors + 1
           /\ UNCHANGED <<disk, foreign>>
  <2>1. writeErrors' \in 0..MaxWriteErrors /\ writeErrors' # 0
    BY <1>2, BoundsAssumption DEF TypeOK
  <2>2. QED
    BY <1>2, <2>1 DEF TypeOK, Persisted
<1>3. QED
  BY <1>1, <1>2 DEF persistLocked

-----------------------------------------------------------------------------
(* IInv is inductive. *)

\* The state before the first daemon start satisfies the inductive invariant.
LEMMA InvInit == Init => IInv
<1> SUFFICES ASSUME Init PROVE IInv
  OBVIOUS
<1> USE DEF Init, Nothing, Status, PCs, ProcStates, Goroutines
<1>1. TypeOK
  <2>1. /\ starts \in 0..MaxStarts
        /\ writeErrors \in 0..MaxWriteErrors
        /\ rivals \in 0..MaxRivals
    BY BoundsAssumption
  <2>2. mem \in [SessionIDs -> Status] /\ disk \in [SessionIDs -> Status]
    OBVIOUS
  <2>3. QED
    BY <2>1, <2>2 DEF TypeOK
<1>2. StoppedIsDead /\ NoStrayProcess
  BY DEF StoppedIsDead, NoStrayProcess
<1>3. FreshIds /\ Targets
  BY NoneAssumption DEF FreshIds, Targets, StartPCs, StopPCs
<1>4. Records /\ Quiet /\ Listed /\ FileFollows
  BY DEF Records, Quiet, Listed, FileFollows
<1>5. QED
  BY <1>1, <1>2, <1>3, <1>4 DEF IInv

\* However the daemon process ends, with or without losing sessions.json on
\* the way, the invariant survives it.
LEMMA GoneInv ==
  ASSUME IInv, DaemonGone, disk' = disk \/ disk' = Nothing,
         UNCHANGED <<foreign, rival>>
  PROVE  IInv'
<1> USE DEF IInv, DaemonGone, Nothing, budgets
<1>1. TypeOK'
  <2>1. disk' \in [SessionIDs -> Status] /\ mem' \in [SessionIDs -> Status]
    BY DEF TypeOK, Status
  <2>2. /\ pc' \in [Goroutines -> PCs]
        /\ tgt' \in [Goroutines -> SessionIDs \cup {None}]
        /\ want' \in [Goroutines -> Models \cup {None}]
    BY DEF PCs
  <2>3. proc' \in [SessionIDs -> ProcStates]
    BY DEF TypeOK, ProcStates
  <2>4. QED
    BY <2>1, <2>2, <2>3 DEF TypeOK
<1>2. StoppedIsDead'
  BY CallersAssumption, NoneAssumption DEF TypeOK, Goroutines, StartPCs,
     StopPCs, Status, StoppedIsDead, NoStrayProcess, FreshIds, Targets,
     Records, Quiet, Listed, FileFollows
<1>3. NoStrayProcess'
  BY CallersAssumption, NoneAssumption DEF TypeOK, Goroutines, StartPCs,
     StopPCs, Status, StoppedIsDead, NoStrayProcess, FreshIds, Targets,
     Records, Quiet, Listed, FileFollows
<1>4. FreshIds'
  BY CallersAssumption, NoneAssumption DEF TypeOK, Goroutines, StartPCs,
     StopPCs, Status, StoppedIsDead, NoStrayProcess, FreshIds, Targets,
     Records, Quiet, Listed, FileFollows
<1>5. Targets'
  BY CallersAssumption, NoneAssumption DEF TypeOK, Goroutines, StartPCs,
     StopPCs, Status, StoppedIsDead, NoStrayProcess, FreshIds, Targets,
     Records, Quiet, Listed, FileFollows
<1>6. Records'
  BY CallersAssumption, NoneAssumption DEF TypeOK, Goroutines, StartPCs,
     StopPCs, Status, StoppedIsDead, NoStrayProcess, FreshIds, Targets,
     Records, Quiet, Listed, FileFollows
<1>7. Quiet'
  BY CallersAssumption, NoneAssumption DEF TypeOK, Goroutines, StartPCs,
     StopPCs, Status, StoppedIsDead, NoStrayProcess, FreshIds, Targets,
     Records, Quiet, Listed, FileFollows
<1>8. Listed'
  BY CallersAssumption, NoneAssumption DEF TypeOK, Goroutines, StartPCs,
     StopPCs, Status, StoppedIsDead, NoStrayProcess, FreshIds, Targets,
     Records, Quiet, Listed, FileFollows
<1>9. FileFollows'
  BY CallersAssumption, NoneAssumption DEF TypeOK, Goroutines, StartPCs,
     StopPCs, Status, StoppedIsDead, NoStrayProcess, FreshIds, Targets,
     Records, Quiet, Listed, FileFollows
<1>10. QED
  BY <1>1, <1>2, <1>3, <1>4, <1>5, <1>6, <1>7, <1>8, <1>9

\* Every step of the manager, of a child, of the daemon and of a second server
\* preserves the invariant.
LEMMA InvStep == IInv /\ [Next]_vars => IInv'
<1> SUFFICES ASSUME IInv, [Next]_vars PROVE IInv'
  OBVIOUS
<1> USE BoundsAssumption, CallersAssumption, NoneAssumption
    DEF IInv, TypeOK, StoppedIsDead, NoStrayProcess, FreshIds, Targets,
        Records, Quiet, Listed, FileFollows, Status, PCs, ProcStates,
        Goroutines, StartPCs, StopPCs, Nothing,
        daemonVars, callVars, osVars, fileVars, budgets, observed
<1>1. CASE Start
  <2>1. mem' \in [SessionIDs -> Status]
    BY <1>1 DEF Start, Reconciled
  <2>2. \/ Persisted /\ mem' = Reconciled(disk)
        \/ /\ foreign \/ disk = Nothing
           /\ mem' = Nothing /\ UNCHANGED <<disk, foreign, writeErrors>>
    BY <1>1, <2>1, PersistOutcome DEF Start, Reconciled
  <2>3. TypeOK'
    BY <1>1, <2>2 DEF Start, Reconciled, Persisted
  <2>4. StoppedIsDead'
    BY <1>1, <2>2 DEF Start, Reconciled, Persisted
  <2>5. NoStrayProcess'
    BY <1>1, <2>2 DEF Start, Reconciled, Persisted
  <2>6. FreshIds'
    BY <1>1, <2>2 DEF Start, Reconciled, Persisted
  <2>7. Targets'
    BY <1>1, <2>2 DEF Start, Reconciled, Persisted
  <2>8. Records'
    BY <1>1, <2>2 DEF Start, Reconciled, Persisted
  <2>9. Quiet'
    BY <1>1, <2>2 DEF Start, Reconciled, Persisted
  <2>10. Listed'
    BY <1>1, <2>2 DEF Start, Reconciled, Persisted
  <2>11. FileFollows'
    BY <1>1, <2>2 DEF Start, Reconciled, Persisted
  <2>12. QED
    BY <2>3, <2>4, <2>5, <2>6, <2>7, <2>8, <2>9, <2>10, <2>11
<1>2. ASSUME NEW c \in Callers, NEW m \in Models, Create(c, m)
      PROVE  IInv'
  BY <1>2 DEF Create
<1>3. ASSUME NEW c \in Callers, NEW m \in Models, Ensure(c, m)
      PROVE  IInv'
  BY <1>3 DEF Ensure, Create
<1>4. ASSUME NEW c \in Callers, NEW s \in SessionIDs, Stop(c, s)
      PROVE  IInv'
  <2>1. mem' \in [SessionIDs -> Status]
    BY <1>4 DEF Stop, StopBegin
  <2>2. Persisted
    BY <1>4, <2>1, PersistOutcome DEF Stop, StopBegin
  <2>3. TypeOK'
    BY <1>4, <2>2 DEF Stop, StopBegin, Persisted
  <2>4. StoppedIsDead'
    BY <1>4, <2>2 DEF Stop, StopBegin, Persisted
  <2>5. NoStrayProcess'
    BY <1>4, <2>2 DEF Stop, StopBegin, Persisted
  <2>6. FreshIds'
    BY <1>4, <2>2 DEF Stop, StopBegin, Persisted
  <2>7. Targets'
    BY <1>4, <2>2 DEF Stop, StopBegin, Persisted
  <2>8. Records'
    BY <1>4, <2>2 DEF Stop, StopBegin, Persisted
  <2>9. Quiet'
    BY <1>4, <2>2 DEF Stop, StopBegin, Persisted
  <2>10. Listed'
    BY <1>4, <2>2 DEF Stop, StopBegin, Persisted
  <2>11. FileFollows'
    BY <1>4, <2>2 DEF Stop, StopBegin, Persisted
  <2>12. QED
    BY <2>3, <2>4, <2>5, <2>6, <2>7, <2>8, <2>9, <2>10, <2>11
<1>5. ASSUME NEW c \in Callers, CreateFails(c)
      PROVE  IInv'
  BY <1>5 DEF CreateFails, Return
<1>6. ASSUME NEW c \in Callers, NEW s \in SessionIDs, Execute(c, s)
      PROVE  IInv'
  BY <1>6 DEF Execute
<1>7. ASSUME NEW c \in Callers, Healthy(c)
      PROVE  IInv'
  BY <1>7 DEF Healthy
<1>8. ASSUME NEW c \in Callers, Publish(c)
      PROVE  IInv'
  <2>1. mem' \in [SessionIDs -> Status]
    BY <1>8 DEF Publish, Return
  <2>2. Persisted
    BY <1>8, <2>1, PersistOutcome DEF Publish
  <2>3. TypeOK'
    BY <1>8, <2>2 DEF Publish, Return, Persisted
  <2>4. StoppedIsDead'
    BY <1>8, <2>2 DEF Publish, Return, Persisted
  <2>5. NoStrayProcess'
    BY <1>8, <2>2 DEF Publish, Return, Persisted
  <2>6. FreshIds'
    BY <1>8, <2>2 DEF Publish, Return, Persisted
  <2>7. Targets'
    BY <1>8, <2>2 DEF Publish, Return, Persisted
  <2>8. Records'
    BY <1>8, <2>2 DEF Publish, Return, Persisted
  <2>9. Quiet'
    BY <1>8, <2>2 DEF Publish, Return, Persisted
  <2>10. Listed'
    BY <1>8, <2>2 DEF Publish, Return, Persisted
  <2>11. FileFollows'
    BY <1>8, <2>2 DEF Publish, Return, Persisted
  <2>12. QED
    BY <2>3, <2>4, <2>5, <2>6, <2>7, <2>8, <2>9, <2>10, <2>11
<1>9. ASSUME NEW c \in Callers, HealthTimeout(c)
      PROVE  IInv'
  BY <1>9 DEF HealthTimeout, Return, Interrupt
<1>10. ASSUME NEW c \in Callers, AbortKill(c)
      PROVE  IInv'
  BY <1>10 DEF AbortKill, Kill
<1>11. ASSUME NEW c \in Callers, AbortDone(c)
      PROVE  IInv'
  BY <1>11 DEF AbortDone, Return
<1>12. ASSUME NEW c \in Goroutines, Signal(c)
      PROVE  IInv'
  BY <1>12 DEF Signal, Interrupt
<1>13. ASSUME NEW c \in Goroutines, SignalRefused(c)
      PROVE  IInv'
  BY <1>13 DEF SignalRefused, AdapterReturns
<1>14. ASSUME NEW c \in Goroutines, StopTimeout(c)
      PROVE  IInv'
  BY <1>14 DEF StopTimeout, Kill
<1>15. ASSUME NEW c \in Goroutines, StopTimeoutLate(c)
      PROVE  IInv'
  BY <1>15 DEF StopTimeoutLate, AdapterReturns
<1>16. ASSUME NEW c \in Goroutines, StopDone(c)
      PROVE  IInv'
  BY <1>16 DEF StopDone, AdapterReturns
<1>17. ASSUME NEW c \in Goroutines, StopFinish(c)
      PROVE  IInv'
  <2>1. mem' \in [SessionIDs -> Status]
    BY <1>17 DEF StopFinish, Return
  <2>2. Persisted
    BY <1>17, <2>1, PersistOutcome DEF StopFinish
  <2>3. TypeOK'
    BY <1>17, <2>2 DEF StopFinish, Return, Persisted
  <2>4. StoppedIsDead'
    BY <1>17, <2>2 DEF StopFinish, Return, Persisted
  <2>5. NoStrayProcess'
    BY <1>17, <2>2 DEF StopFinish, Return, Persisted
  <2>6. FreshIds'
    BY <1>17, <2>2 DEF StopFinish, Return, Persisted
  <2>7. Targets'
    BY <1>17, <2>2 DEF StopFinish, Return, Persisted
  <2>8. Records'
    BY <1>17, <2>2 DEF StopFinish, Return, Persisted
  <2>9. Quiet'
    BY <1>17, <2>2 DEF StopFinish, Return, Persisted
  <2>10. Listed'
    BY <1>17, <2>2 DEF StopFinish, Return, Persisted
  <2>11. FileFollows'
    BY <1>17, <2>2 DEF StopFinish, Return, Persisted
  <2>12. QED
    BY <2>3, <2>4, <2>5, <2>6, <2>7, <2>8, <2>9, <2>10, <2>11
<1>18. ASSUME NEW s \in SessionIDs, MonitorFails(s)
      PROVE  IInv'
  <2>1. mem' \in [SessionIDs -> Status]
    BY <1>18 DEF MonitorFails
  <2>2. Persisted
    BY <1>18, <2>1, PersistOutcome DEF MonitorFails
  <2>3. TypeOK'
    BY <1>18, <2>2 DEF MonitorFails, Persisted
  <2>4. StoppedIsDead'
    BY <1>18, <2>2 DEF MonitorFails, Persisted
  <2>5. NoStrayProcess'
    BY <1>18, <2>2 DEF MonitorFails, Persisted
  <2>6. FreshIds'
    BY <1>18, <2>2 DEF MonitorFails, Persisted
  <2>7. Targets'
    BY <1>18, <2>2 DEF MonitorFails, Persisted
  <2>8. Records'
    BY <1>18, <2>2 DEF MonitorFails, Persisted
  <2>9. Quiet'
    BY <1>18, <2>2 DEF MonitorFails, Persisted
  <2>10. Listed'
    BY <1>18, <2>2 DEF MonitorFails, Persisted
  <2>11. FileFollows'
    BY <1>18, <2>2 DEF MonitorFails, Persisted
  <2>12. QED
    BY <2>3, <2>4, <2>5, <2>6, <2>7, <2>8, <2>9, <2>10, <2>11
<1>19. ASSUME NEW s \in SessionIDs, MonitorIgnores(s)
      PROVE  IInv'
  BY <1>19 DEF MonitorIgnores
<1>20. ASSUME NEW s \in SessionIDs, ProcessExit(s)
      PROVE  IInv'
  BY <1>20 DEF ProcessExit
<1>21. ASSUME NEW s \in SessionIDs, Reap(s)
      PROVE  IInv'
  BY <1>21 DEF Reap
<1>22. CASE ShutdownBegin
  BY <1>22 DEF ShutdownBegin
<1>23. CASE ShutdownList
  BY <1>23 DEF ShutdownList
<1>24. ASSUME NEW s \in SessionIDs, ShutdownStop(s)
      PROVE  IInv'
  <2>1. mem' \in [SessionIDs -> Status]
    BY <1>24 DEF ShutdownStop, StopBegin
  <2>2. Persisted
    BY <1>24, <2>1, PersistOutcome DEF ShutdownStop, StopBegin
  <2>3. TypeOK'
    BY <1>24, <2>2 DEF ShutdownStop, StopBegin, Persisted
  <2>4. StoppedIsDead'
    BY <1>24, <2>2 DEF ShutdownStop, StopBegin, Persisted
  <2>5. NoStrayProcess'
    BY <1>24, <2>2 DEF ShutdownStop, StopBegin, Persisted
  <2>6. FreshIds'
    BY <1>24, <2>2 DEF ShutdownStop, StopBegin, Persisted
  <2>7. Targets'
    BY <1>24, <2>2 DEF ShutdownStop, StopBegin, Persisted
  <2>8. Records'
    BY <1>24, <2>2 DEF ShutdownStop, StopBegin, Persisted
  <2>9. Quiet'
    BY <1>24, <2>2 DEF ShutdownStop, StopBegin, Persisted
  <2>10. Listed'
    BY <1>24, <2>2 DEF ShutdownStop, StopBegin, Persisted
  <2>11. FileFollows'
    BY <1>24, <2>2 DEF ShutdownStop, StopBegin, Persisted
  <2>12. QED
    BY <2>3, <2>4, <2>5, <2>6, <2>7, <2>8, <2>9, <2>10, <2>11
<1>25. CASE Exit
  BY <1>25, GoneInv DEF Exit
<1>26. CASE Crash
  BY <1>26, GoneInv DEF Crash
<1>27. CASE CrashInReplace
  BY <1>27, GoneInv DEF CrashInReplace
<1>28. CASE RivalReads
  BY <1>28 DEF RivalReads, Reconciled
<1>29. CASE RivalWrites
  <2>1. TypeOK'
    BY <1>29 DEF RivalWrites
  <2>2. StoppedIsDead'
    BY <1>29 DEF RivalWrites
  <2>3. NoStrayProcess'
    BY <1>29 DEF RivalWrites
  <2>4. FreshIds'
    BY <1>29 DEF RivalWrites
  <2>5. Targets'
    BY <1>29 DEF RivalWrites
  <2>6. Records'
    BY <1>29 DEF RivalWrites
  <2>7. Quiet'
    BY <1>29 DEF RivalWrites
  <2>8. Listed'
    BY <1>29 DEF RivalWrites
  <2>9. FileFollows'
    BY <1>29 DEF RivalWrites
  <2>10. QED
    BY <2>1, <2>2, <2>3, <2>4, <2>5, <2>6, <2>7, <2>8, <2>9
<1>30. CASE UNCHANGED vars
  BY <1>30 DEF vars
<1>31. QED
  BY <1>1, <1>2, <1>3, <1>4, <1>5, <1>6, <1>7, <1>8, <1>9, <1>10, <1>11, <1>12,
     <1>13, <1>14, <1>15, <1>16, <1>17, <1>18, <1>19, <1>20, <1>21, <1>22, <1>23, <1>24,
     <1>25, <1>26, <1>27, <1>28, <1>29, <1>30
  DEF Next, Request, Creating, Stopping, Monitor, Shutdown, Environment

-----------------------------------------------------------------------------
(* Safety *)

\* The inductive invariant holds in every reachable state.
THEOREM Invariance == Spec => []IInv
<1>1. QED
  BY InvInit, InvStep, PTL DEF Spec

\* Every variable of the manager keeps its type.
THEOREM TypeCorrect == Spec => []TypeOK
<1>1. IInv => TypeOK
  BY DEF IInv
<1>2. QED
  BY <1>1, Invariance, PTL

\* A ready session is owned and its monitor goroutine is alive, whatever stops,
\* exits, crashes and restarts came before.
THEOREM ReadyWatched == Spec => []ReadyIsWatched
<1>1. IInv => ReadyIsWatched
  BY DEF IInv, Records, ReadyIsWatched
<1>2. QED
  BY <1>1, Invariance, PTL

\* "stopped" in memory, in sessions.json or on its way there means a dead process.
THEOREM StoppedDead == Spec => []StoppedIsDead
<1>1. IInv => StoppedIsDead
  BY DEF IInv
<1>2. QED
  BY <1>1, Invariance, PTL

\* Every child of the live daemon is in the hands of a session or of a Start.
THEOREM NoStray == Spec => []NoStrayProcess
<1>1. IInv => NoStrayProcess
  BY DEF IInv
<1>2. QED
  BY <1>1, Invariance, PTL

\* sessions.json equals the manager's map whenever no Stop is half done.
THEOREM FileAgrees == Spec => []QuiescentFileAgrees
<1>1. IInv => QuiescentFileAgrees
  BY DEF IInv, FileFollows, QuiescentFileAgrees, TypeOK, StopPCs
<1>2. QED
  BY <1>1, Invariance, PTL

\* When serve is about to return, all sessions Shutdown listed are dead.
THEOREM ShutdownStops == Spec => []ShutdownStopsListed
<1>1. IInv => ShutdownStopsListed
  BY DEF IInv, Listed, ShutdownStopsListed, ShutdownDone, StopPCs
<1>2. QED
  BY <1>1, Invariance, PTL

\* Only Publish makes a session ready, and it does so to an unknown id.
LEMMA ReadyOnce ==
  IInv /\ [Next]_vars => \A r \in known : mem[r] # "ready" => mem'[r] # "ready"
<1> SUFFICES ASSUME IInv,
  [Next]_vars PROVE \A r \in known : mem[r] # "ready" => mem'[r] # "ready"
  OBVIOUS
<1> USE DEF IInv, TypeOK, Targets, Records, Goroutines, StartPCs, Nothing,
        daemonVars, callVars, osVars, fileVars, budgets, observed
<1>1. CASE Start
  BY <1>1 DEF Start, persistLocked, Reconciled
<1>2. ASSUME NEW c \in Callers, NEW m \in Models, Create(c, m)
      PROVE  \A r \in known : mem[r] # "ready" => mem'[r] # "ready"
  BY <1>2 DEF Create
<1>3. ASSUME NEW c \in Callers, NEW m \in Models, Ensure(c, m)
      PROVE  \A r \in known : mem[r] # "ready" => mem'[r] # "ready"
  BY <1>3 DEF Ensure, Create
<1>4. ASSUME NEW c \in Callers, NEW s \in SessionIDs, Stop(c, s)
      PROVE  \A r \in known : mem[r] # "ready" => mem'[r] # "ready"
  BY <1>4 DEF Stop, StopBegin, persistLocked
<1>5. ASSUME NEW c \in Callers, CreateFails(c)
      PROVE  \A r \in known : mem[r] # "ready" => mem'[r] # "ready"
  BY <1>5 DEF CreateFails, Return
<1>6. ASSUME NEW c \in Callers, NEW s \in SessionIDs, Execute(c, s)
      PROVE  \A r \in known : mem[r] # "ready" => mem'[r] # "ready"
  BY <1>6 DEF Execute
<1>7. ASSUME NEW c \in Callers, Healthy(c)
      PROVE  \A r \in known : mem[r] # "ready" => mem'[r] # "ready"
  BY <1>7 DEF Healthy
<1>8. ASSUME NEW c \in Callers, Publish(c)
      PROVE  \A r \in known : mem[r] # "ready" => mem'[r] # "ready"
  BY <1>8 DEF Publish, Return, persistLocked
<1>9. ASSUME NEW c \in Callers, HealthTimeout(c)
      PROVE  \A r \in known : mem[r] # "ready" => mem'[r] # "ready"
  BY <1>9 DEF HealthTimeout, Return, Interrupt
<1>10. ASSUME NEW c \in Callers, AbortKill(c)
      PROVE  \A r \in known : mem[r] # "ready" => mem'[r] # "ready"
  BY <1>10 DEF AbortKill, Kill
<1>11. ASSUME NEW c \in Callers, AbortDone(c)
      PROVE  \A r \in known : mem[r] # "ready" => mem'[r] # "ready"
  BY <1>11 DEF AbortDone, Return
<1>12. ASSUME NEW c \in Goroutines, Signal(c)
      PROVE  \A r \in known : mem[r] # "ready" => mem'[r] # "ready"
  BY <1>12 DEF Signal, Interrupt
<1>13. ASSUME NEW c \in Goroutines, SignalRefused(c)
      PROVE  \A r \in known : mem[r] # "ready" => mem'[r] # "ready"
  BY <1>13 DEF SignalRefused, AdapterReturns
<1>14. ASSUME NEW c \in Goroutines, StopTimeout(c)
      PROVE  \A r \in known : mem[r] # "ready" => mem'[r] # "ready"
  BY <1>14 DEF StopTimeout, Kill
<1>15. ASSUME NEW c \in Goroutines, StopTimeoutLate(c)
      PROVE  \A r \in known : mem[r] # "ready" => mem'[r] # "ready"
  BY <1>15 DEF StopTimeoutLate, AdapterReturns
<1>16. ASSUME NEW c \in Goroutines, StopDone(c)
      PROVE  \A r \in known : mem[r] # "ready" => mem'[r] # "ready"
  BY <1>16 DEF StopDone, AdapterReturns
<1>17. ASSUME NEW c \in Goroutines, StopFinish(c)
      PROVE  \A r \in known : mem[r] # "ready" => mem'[r] # "ready"
  BY <1>17 DEF StopFinish, Return, persistLocked
<1>18. ASSUME NEW s \in SessionIDs, MonitorFails(s)
      PROVE  \A r \in known : mem[r] # "ready" => mem'[r] # "ready"
  BY <1>18 DEF MonitorFails, persistLocked
<1>19. ASSUME NEW s \in SessionIDs, MonitorIgnores(s)
      PROVE  \A r \in known : mem[r] # "ready" => mem'[r] # "ready"
  BY <1>19 DEF MonitorIgnores
<1>20. ASSUME NEW s \in SessionIDs, ProcessExit(s)
      PROVE  \A r \in known : mem[r] # "ready" => mem'[r] # "ready"
  BY <1>20 DEF ProcessExit
<1>21. ASSUME NEW s \in SessionIDs, Reap(s)
      PROVE  \A r \in known : mem[r] # "ready" => mem'[r] # "ready"
  BY <1>21 DEF Reap
<1>22. CASE ShutdownBegin
  BY <1>22 DEF ShutdownBegin
<1>23. CASE ShutdownList
  BY <1>23 DEF ShutdownList
<1>24. ASSUME NEW s \in SessionIDs, ShutdownStop(s)
      PROVE  \A r \in known : mem[r] # "ready" => mem'[r] # "ready"
  BY <1>24 DEF ShutdownStop, StopBegin, persistLocked
<1>25. CASE Exit
  BY <1>25 DEF Exit, DaemonGone, ShutdownDone
<1>26. CASE Crash
  BY <1>26 DEF Crash, DaemonGone
<1>27. CASE CrashInReplace
  BY <1>27 DEF CrashInReplace, DaemonGone
<1>28. CASE RivalReads
  BY <1>28 DEF RivalReads, Reconciled
<1>29. CASE RivalWrites
  BY <1>29 DEF RivalWrites
<1>30. CASE UNCHANGED vars
  BY <1>30 DEF vars
<1>31. QED
  BY <1>1, <1>2, <1>3, <1>4, <1>5, <1>6, <1>7, <1>8, <1>9, <1>10, <1>11, <1>12,
     <1>13, <1>14, <1>15, <1>16, <1>17, <1>18, <1>19, <1>20, <1>21, <1>22, <1>23, <1>24,
     <1>25, <1>26, <1>27, <1>28, <1>29, <1>30
  DEF Next, Request, Creating, Stopping, Monitor, Shutdown, Environment, Goroutines

\* An id that left "ready" is never served again, across crashes and restarts.
THEOREM ServedOnce == Spec => NeverReadyAgain
<1>1. IInv /\ [Next]_vars => [\A s \in known : mem[s] # "ready" => mem'[s] # "ready"]_vars
  BY ReadyOnce
<1>2. QED
  BY <1>1, Invariance, PTL DEF Spec, NeverReadyAgain

\* No action that writes sessions.json is enabled while the file is foreign.
LEMMA ForeignKept == IInv /\ [Next]_vars => (foreign => foreign')
<1> SUFFICES ASSUME IInv, [Next]_vars PROVE foreign => foreign'
  OBVIOUS
<1> USE CallersAssumption, NoneAssumption
    DEF IInv, TypeOK, Targets, Records, Quiet, Goroutines, StartPCs, StopPCs, Nothing,
        daemonVars, callVars, osVars, fileVars, budgets, observed
<1>1. CASE Start
  BY <1>1 DEF Start, persistLocked, Reconciled
<1>2. ASSUME NEW c \in Callers, NEW m \in Models, Create(c, m)
      PROVE  foreign => foreign'
  BY <1>2 DEF Create
<1>3. ASSUME NEW c \in Callers, NEW m \in Models, Ensure(c, m)
      PROVE  foreign => foreign'
  BY <1>3 DEF Ensure, Create
<1>4. ASSUME NEW c \in Callers, NEW s \in SessionIDs, Stop(c, s)
      PROVE  foreign => foreign'
  BY <1>4 DEF Stop, StopBegin, persistLocked
<1>5. ASSUME NEW c \in Callers, CreateFails(c)
      PROVE  foreign => foreign'
  BY <1>5 DEF CreateFails, Return
<1>6. ASSUME NEW c \in Callers, NEW s \in SessionIDs, Execute(c, s)
      PROVE  foreign => foreign'
  BY <1>6 DEF Execute
<1>7. ASSUME NEW c \in Callers, Healthy(c)
      PROVE  foreign => foreign'
  BY <1>7 DEF Healthy
<1>8. ASSUME NEW c \in Callers, Publish(c)
      PROVE  foreign => foreign'
  BY <1>8 DEF Publish, Return, persistLocked
<1>9. ASSUME NEW c \in Callers, HealthTimeout(c)
      PROVE  foreign => foreign'
  BY <1>9 DEF HealthTimeout, Return, Interrupt
<1>10. ASSUME NEW c \in Callers, AbortKill(c)
      PROVE  foreign => foreign'
  BY <1>10 DEF AbortKill, Kill
<1>11. ASSUME NEW c \in Callers, AbortDone(c)
      PROVE  foreign => foreign'
  BY <1>11 DEF AbortDone, Return
<1>12. ASSUME NEW c \in Goroutines, Signal(c)
      PROVE  foreign => foreign'
  BY <1>12 DEF Signal, Interrupt
<1>13. ASSUME NEW c \in Goroutines, SignalRefused(c)
      PROVE  foreign => foreign'
  BY <1>13 DEF SignalRefused, AdapterReturns
<1>14. ASSUME NEW c \in Goroutines, StopTimeout(c)
      PROVE  foreign => foreign'
  BY <1>14 DEF StopTimeout, Kill
<1>15. ASSUME NEW c \in Goroutines, StopTimeoutLate(c)
      PROVE  foreign => foreign'
  BY <1>15 DEF StopTimeoutLate, AdapterReturns
<1>16. ASSUME NEW c \in Goroutines, StopDone(c)
      PROVE  foreign => foreign'
  BY <1>16 DEF StopDone, AdapterReturns
<1>17. ASSUME NEW c \in Goroutines, StopFinish(c)
      PROVE  foreign => foreign'
  BY <1>17 DEF StopFinish, Return, persistLocked
<1>18. ASSUME NEW s \in SessionIDs, MonitorFails(s)
      PROVE  foreign => foreign'
  BY <1>18 DEF MonitorFails, persistLocked
<1>19. ASSUME NEW s \in SessionIDs, MonitorIgnores(s)
      PROVE  foreign => foreign'
  BY <1>19 DEF MonitorIgnores
<1>20. ASSUME NEW s \in SessionIDs, ProcessExit(s)
      PROVE  foreign => foreign'
  BY <1>20 DEF ProcessExit
<1>21. ASSUME NEW s \in SessionIDs, Reap(s)
      PROVE  foreign => foreign'
  BY <1>21 DEF Reap
<1>22. CASE ShutdownBegin
  BY <1>22 DEF ShutdownBegin
<1>23. CASE ShutdownList
  BY <1>23 DEF ShutdownList
<1>24. ASSUME NEW s \in SessionIDs, ShutdownStop(s)
      PROVE  foreign => foreign'
  BY <1>24 DEF ShutdownStop, StopBegin, persistLocked
<1>25. CASE Exit
  BY <1>25 DEF Exit, DaemonGone, ShutdownDone
<1>26. CASE Crash
  BY <1>26 DEF Crash, DaemonGone
<1>27. CASE CrashInReplace
  BY <1>27 DEF CrashInReplace, DaemonGone
<1>28. CASE RivalReads
  BY <1>28 DEF RivalReads, Reconciled
<1>29. CASE RivalWrites
  BY <1>29 DEF RivalWrites
<1>30. CASE UNCHANGED vars
  BY <1>30 DEF vars
<1>31. QED
  BY <1>1, <1>2, <1>3, <1>4, <1>5, <1>6, <1>7, <1>8, <1>9, <1>10, <1>11, <1>12,
     <1>13, <1>14, <1>15, <1>16, <1>17, <1>18, <1>19, <1>20, <1>21, <1>22, <1>23, <1>24,
     <1>25, <1>26, <1>27, <1>28, <1>29, <1>30
  DEF Next, Request, Creating, Stopping, Monitor, Shutdown, Environment, Goroutines

\* State written by a newer Backpack survives any run of this one.
THEOREM FutureStateKept == Spec => FutureStatePreserved
<1>1. IInv /\ [Next]_vars => [foreign => foreign']_vars
  BY ForeignKept
<1>2. QED
  BY <1>1, Invariance, PTL DEF Spec, FutureStatePreserved

-----------------------------------------------------------------------------
(* Sessions implements SessionContract. *)

\* While a daemon runs, an id's stage depends on the manager's map alone.
LEMMA SameStage ==
  ASSUME UNCHANGED <<mem, known>>, phase # "down", phase' # "down"
  PROVE  life' = life
  BY DEF life

\* A status change of one owned session is a step of the contract.
LEMMA OneMoves ==
  ASSUME IInv, NEW s \in owned, NEW status \in {"stopping", "stopped",
    "failed"},
         phase # "down", phase' = phase, known' = known,
         mem' = [mem EXCEPT ![s] = status]
  PROVE  [Contract!Next]_life
<1> USE DEF IInv, TypeOK, Records
<1>1. s \in SessionIDs /\ s \in known /\ mem[s] \in {"ready", "stopping", "stopped", "failed"}
  OBVIOUS
<1>2. life' = [life EXCEPT ![s] = Stage(status)]
  BY <1>1 DEF life
<1>3. life[s] = Stage(mem[s])
  BY <1>1 DEF life
<1>4. CASE status = "stopping" /\ mem[s] # "stopping"
  <2>1. Contract!BeginEnd(s)
    BY <1>1, <1>2, <1>3, <1>4 DEF Contract!BeginEnd, Stage
  <2>2. QED
    BY <1>1, <2>1 DEF Contract!Next
<1>5. CASE status # "stopping" /\ mem[s] \in {"ready", "stopping"}
  <2>1. Contract!End(s)
    BY <1>1, <1>2, <1>3, <1>5 DEF Contract!End, Stage
  <2>2. QED
    BY <1>1, <2>1 DEF Contract!Next
<1>6. CASE Stage(status) = Stage(mem[s])
  <2>1. life' = life
    BY <1>1, <1>2, <1>3, <1>6 DEF life
  <2>2. QED
    BY <2>1
<1>7. QED
  BY <1>1, <1>4, <1>5, <1>6 DEF Stage

\* Whatever happens to the daemon or to the file while none runs, a known id is
\* ended or forgotten afterwards.
LEMMA NextDaemonMoves ==
  ASSUME IInv, phase' = "down", known' = known,
    disk' \in [SessionIDs -> Status]
  PROVE  Contract!NextDaemon
<1>1. \A s \in SessionIDs : Reconciled(disk')[s] \in {"absent", "stopped", "failed"}
  BY DEF Reconciled, Status
<1>2. life' = [s \in SessionIDs |-> IF s \notin known THEN "new"
                                    ELSE Stage(Reconciled(disk')[s])]
  BY DEF life, Reconciled
<1>3. \A s \in SessionIDs : s \notin known <=> life[s] = "new"
  BY DEF life, Stage
<1>4. \A s \in SessionIDs : IF s \notin known THEN life'[s] = "new"
                                ELSE life'[s] \in {"ended", "forgotten"}
  BY <1>1, <1>2 DEF Stage
<1>5. life' \in [SessionIDs -> Contract!Stages]
  BY <1>2, <1>4 DEF Contract!Stages
<1>6. QED
  BY <1>3, <1>4, <1>5 DEF Contract!NextDaemon

\* Every step of Sessions is a step of the contract or leaves it alone.
LEMMA ContractStep == IInv /\ [Next]_vars => [Contract!Next]_life
<1> SUFFICES ASSUME IInv, [Next]_vars PROVE [Contract!Next]_life
  OBVIOUS
<1>1. CASE Start
  <2>1. /\ phase = "down" /\ phase' = "serving" /\ known' = known
        /\ mem' = Reconciled(disk)
    BY <1>1 DEF Start, observed
  <2>2. life' = life
    BY <2>1 DEF life
  <2>3. QED
    BY <2>2
<1>2. ASSUME NEW c \in Callers, NEW m \in Models, Create(c, m)
      PROVE  [Contract!Next]_life
  BY <1>2, SameStage DEF Create, IInv, TypeOK, Targets, Records,
     Quiet, Goroutines, StopPCs, daemonVars, callVars, osVars, fileVars,
     budgets, observed
<1>3. ASSUME NEW c \in Callers, NEW m \in Models, Ensure(c, m)
      PROVE  [Contract!Next]_life
  BY <1>3, SameStage DEF Ensure, Create, IInv, TypeOK, Targets, Records,
     Quiet, Goroutines, StopPCs, daemonVars, callVars, osVars, fileVars,
     budgets, observed
<1>4. ASSUME NEW c \in Callers, NEW s \in SessionIDs, Stop(c, s)
      PROVE  [Contract!Next]_life
  <2>1. s \in owned /\ phase # "down"
    BY <1>4 DEF Stop, StopBegin, IInv, TypeOK, Targets, Records, Quiet,
       Goroutines, StopPCs, daemonVars, callVars, osVars, fileVars, budgets,
       observed
  <2>2. mem' = [mem EXCEPT ![s] = "stopping"] /\ UNCHANGED <<phase, known>>
    BY <1>4 DEF Stop, StopBegin, observed
  <2>3. QED
    BY <2>1, <2>2, OneMoves
<1>5. ASSUME NEW c \in Callers, CreateFails(c)
      PROVE  [Contract!Next]_life
  BY <1>5, SameStage DEF CreateFails, Return, IInv, TypeOK, Targets, Records,
     Quiet, Goroutines, StopPCs, daemonVars, callVars, osVars, fileVars,
     budgets, observed
<1>6. ASSUME NEW c \in Callers, NEW s \in SessionIDs, Execute(c, s)
      PROVE  [Contract!Next]_life
  BY <1>6, SameStage DEF Execute, IInv, TypeOK, Targets, Records, Quiet,
     Goroutines, StopPCs, daemonVars, callVars, osVars, fileVars, budgets,
     observed
<1>7. ASSUME NEW c \in Callers, Healthy(c)
      PROVE  [Contract!Next]_life
  BY <1>7, SameStage DEF Healthy, IInv, TypeOK, Targets, Records, Quiet,
     Goroutines, StopPCs, daemonVars, callVars, osVars, fileVars, budgets,
     observed
<1>8. ASSUME NEW c \in Callers, Publish(c)
      PROVE  [Contract!Next]_life
  <2> DEFINE s == tgt[c]
  <2>1. s \in SessionIDs /\ s \notin known /\ phase # "down"
    BY <1>8 DEF Publish, StartPCs, IInv, TypeOK, Targets, Records, Quiet,
       Goroutines, StopPCs, daemonVars, callVars, osVars, fileVars, budgets,
       observed
  <2>2. life' = [life EXCEPT ![s] = "serving"]
    BY <1>8, <2>1 DEF Publish, life, Stage, IInv, TypeOK
  <2>3. Contract!Publish(s)
    BY <2>1, <2>2 DEF Contract!Publish, life
  <2>4. QED
    BY <2>1, <2>3 DEF Contract!Next
<1>9. ASSUME NEW c \in Callers, HealthTimeout(c)
      PROVE  [Contract!Next]_life
  BY <1>9, SameStage DEF HealthTimeout, Return, Interrupt, IInv, TypeOK,
     Targets, Records, Quiet, Goroutines, StopPCs, daemonVars, callVars,
     osVars, fileVars, budgets, observed
<1>10. ASSUME NEW c \in Callers, AbortKill(c)
      PROVE  [Contract!Next]_life
  BY <1>10, SameStage DEF AbortKill, Kill, IInv, TypeOK, Targets, Records,
     Quiet, Goroutines, StopPCs, daemonVars, callVars, osVars, fileVars,
     budgets, observed
<1>11. ASSUME NEW c \in Callers, AbortDone(c)
      PROVE  [Contract!Next]_life
  BY <1>11, SameStage DEF AbortDone, Return, IInv, TypeOK, Targets, Records,
     Quiet, Goroutines, StopPCs, daemonVars, callVars, osVars, fileVars,
     budgets, observed
<1>12. ASSUME NEW c \in Goroutines, Signal(c)
      PROVE  [Contract!Next]_life
  <2>1. tgt[c] \in owned /\ phase # "down"
    BY <1>12 DEF Signal, Interrupt, IInv, TypeOK, Targets, Records, Quiet,
       Goroutines, StopPCs, daemonVars, callVars, osVars, fileVars, budgets,
       observed
  <2>2. mem' = [mem EXCEPT ![tgt[c]] = "stopping"] /\ UNCHANGED <<phase, known>>
    BY <1>12 DEF Signal, Interrupt, observed
  <2>3. QED
    BY <2>1, <2>2, OneMoves
<1>13. ASSUME NEW c \in Goroutines, SignalRefused(c)
      PROVE  [Contract!Next]_life
  <2>1. tgt[c] \in owned /\ phase # "down"
    BY <1>13 DEF SignalRefused, AdapterReturns, IInv, TypeOK, Targets, Records,
       Quiet, Goroutines, StopPCs, daemonVars, callVars, osVars, fileVars,
       budgets, observed
  <2>2. mem' = [mem EXCEPT ![tgt[c]] = "stopped"] /\ UNCHANGED <<phase, known>>
    BY <1>13 DEF SignalRefused, AdapterReturns, observed
  <2>3. QED
    BY <2>1, <2>2, OneMoves
<1>14. ASSUME NEW c \in Goroutines, StopTimeout(c)
      PROVE  [Contract!Next]_life
  BY <1>14, SameStage DEF StopTimeout, Kill, IInv, TypeOK, Targets, Records,
     Quiet, Goroutines, StopPCs, daemonVars, callVars, osVars, fileVars,
     budgets, observed
<1>15. ASSUME NEW c \in Goroutines, StopTimeoutLate(c)
      PROVE  [Contract!Next]_life
  <2>1. tgt[c] \in owned /\ phase # "down"
    BY <1>15 DEF StopTimeoutLate, AdapterReturns, IInv, TypeOK, Targets,
       Records, Quiet, Goroutines, StopPCs, daemonVars, callVars, osVars,
       fileVars, budgets, observed
  <2>2. mem' = [mem EXCEPT ![tgt[c]] = "stopped"] /\ UNCHANGED <<phase, known>>
    BY <1>15 DEF StopTimeoutLate, AdapterReturns, observed
  <2>3. QED
    BY <2>1, <2>2, OneMoves
<1>16. ASSUME NEW c \in Goroutines, StopDone(c)
      PROVE  [Contract!Next]_life
  <2>1. tgt[c] \in owned /\ phase # "down"
    BY <1>16 DEF StopDone, AdapterReturns, IInv, TypeOK, Targets, Records,
       Quiet, Goroutines, StopPCs, daemonVars, callVars, osVars, fileVars,
       budgets, observed
  <2>2. mem' = [mem EXCEPT ![tgt[c]] = "stopped"] /\ UNCHANGED <<phase, known>>
    BY <1>16 DEF StopDone, AdapterReturns, observed
  <2>3. QED
    BY <2>1, <2>2, OneMoves
<1>17. ASSUME NEW c \in Goroutines, StopFinish(c)
      PROVE  [Contract!Next]_life
  <2>1. tgt[c] \in owned /\ phase # "down"
    BY <1>17 DEF StopFinish, Return, IInv, TypeOK, Targets, Records, Quiet,
       Goroutines, StopPCs, daemonVars, callVars, osVars, fileVars, budgets,
       observed
  <2> DEFINE status == IF c \in stopErr THEN "failed" ELSE "stopped"
  <2>2. mem' = [mem EXCEPT ![tgt[c]] = status] /\ UNCHANGED <<phase, known>>
    BY <1>17 DEF StopFinish, Return, observed
  <2>3. QED
    BY <2>1, <2>2, OneMoves
<1>18. ASSUME NEW s \in SessionIDs, MonitorFails(s)
      PROVE  [Contract!Next]_life
  <2>1. s \in owned /\ phase # "down"
    BY <1>18 DEF MonitorFails, IInv, TypeOK, Targets, Records, Quiet,
       Goroutines, StopPCs, daemonVars, callVars, osVars, fileVars, budgets,
       observed
  <2>2. mem' = [mem EXCEPT ![s] = "failed"] /\ UNCHANGED <<phase, known>>
    BY <1>18 DEF MonitorFails, observed
  <2>3. QED
    BY <2>1, <2>2, OneMoves
<1>19. ASSUME NEW s \in SessionIDs, MonitorIgnores(s)
      PROVE  [Contract!Next]_life
  BY <1>19, SameStage DEF MonitorIgnores, IInv, TypeOK, Targets, Records,
     Quiet, Goroutines, StopPCs, daemonVars, callVars, osVars, fileVars,
     budgets, observed
<1>20. ASSUME NEW s \in SessionIDs, ProcessExit(s)
      PROVE  [Contract!Next]_life
  <2>1. life' = life
    BY <1>20 DEF ProcessExit, life, daemonVars, fileVars, observed
  <2>2. QED
    BY <2>1
<1>21. ASSUME NEW s \in SessionIDs, Reap(s)
      PROVE  [Contract!Next]_life
  <2>1. life' = life
    BY <1>21 DEF Reap, life, daemonVars, fileVars, observed
  <2>2. QED
    BY <2>1
<1>22. CASE ShutdownBegin
  BY <1>22, SameStage DEF ShutdownBegin, IInv, TypeOK, Targets, Records, Quiet,
     Goroutines, StopPCs, daemonVars, callVars, osVars, fileVars, budgets,
     observed
<1>23. CASE ShutdownList
  BY <1>23, SameStage DEF ShutdownList, IInv, TypeOK, Targets, Records, Quiet,
     Goroutines, StopPCs, daemonVars, callVars, osVars, fileVars, budgets,
     observed
<1>24. ASSUME NEW s \in SessionIDs, ShutdownStop(s)
      PROVE  [Contract!Next]_life
  <2>1. s \in owned /\ phase # "down"
    BY <1>24 DEF ShutdownStop, StopBegin, IInv, TypeOK, Targets, Records,
       Quiet, Goroutines, StopPCs, daemonVars, callVars, osVars, fileVars,
       budgets, observed
  <2>2. mem' = [mem EXCEPT ![s] = "stopping"] /\ UNCHANGED <<phase, known>>
    BY <1>24 DEF ShutdownStop, StopBegin, observed
  <2>3. QED
    BY <2>1, <2>2, OneMoves
<1>25. CASE Exit
  BY <1>25, NextDaemonMoves DEF Exit, DaemonGone, IInv, TypeOK, Status,
     Nothing, fileVars, Contract!Next
<1>26. CASE Crash
  BY <1>26, NextDaemonMoves DEF Crash, DaemonGone, IInv, TypeOK, Status,
     Nothing, fileVars, Contract!Next
<1>27. CASE CrashInReplace
  BY <1>27, NextDaemonMoves DEF CrashInReplace, DaemonGone, IInv, TypeOK,
     Status, Nothing, fileVars, Contract!Next
<1>28. CASE RivalReads
  BY <1>28, SameStage DEF RivalReads, IInv, TypeOK, Targets, Records, Quiet,
     Goroutines, StopPCs, daemonVars, callVars, osVars, fileVars, budgets,
     observed
<1>29. CASE RivalWrites
  <2>1. CASE phase = "down"
    BY <1>29, <2>1, NextDaemonMoves DEF RivalWrites, IInv, TypeOK, daemonVars,
       observed, Contract!Next
  <2>2. CASE phase # "down"
    BY <1>29, <2>2, SameStage DEF RivalWrites, daemonVars, observed
  <2>3. QED
    BY <2>1, <2>2
<1>30. CASE UNCHANGED vars
  <2>1. life' = life
    BY <1>30 DEF vars, life, daemonVars, fileVars, observed
  <2>2. QED
    BY <2>1
<1>31. QED
  BY <1>1, <1>2, <1>3, <1>4, <1>5, <1>6, <1>7, <1>8, <1>9, <1>10, <1>11, <1>12,
     <1>13, <1>14, <1>15, <1>16, <1>17, <1>18, <1>19, <1>20, <1>21, <1>22, <1>23, <1>24,
     <1>25, <1>26, <1>27, <1>28, <1>29, <1>30
  DEF Next, Request, Creating, Stopping, Monitor, Shutdown, Environment, Goroutines

\* What a client sees of an id is a behaviour of the contract.
THEOREM Refinement == Spec => ImplementsContract
<1>1. Init => Contract!Init
  BY DEF Init, Contract!Init, life
<1>2. QED
  BY <1>1, ContractStep, Invariance, PTL DEF Spec, ImplementsContract,
     Contract!Spec
=============================================================================
