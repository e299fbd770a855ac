---------------------------- MODULE InstallsProofs ----------------------------
(***************************************************************************)
(* Proofs about Installs, for any constants: what an installation of the   *)
(* runtime bundle and an upload to an SSH target bring about.              *)
(***************************************************************************)
EXTENDS Installs, ModelPullProofs, FiniteSetTheorems, TLAPS

-----------------------------------------------------------------------------
(* RuntimeBundle: the invariant *)

Items == 1..Artifacts

\* The steps of an installation under the lock, and of other calls.
Gathering   == {"open", "fetch", "verify", "cache", "extract"}
Placing  == {"replace", "setAside", "commit"}
Installing == {"recheck", "drop", "upload"} \cup Gathering \cup Placing
Elsewhere  == {"idle", "ready", "failed", "lock", "break", "clear", "rmdir"}

BTypes == Bundle!TypeOK /\ bPc \in [Users -> Installing \cup Elsewhere]

\* Who works under the lock has made it, and it has not expired.
Held ==
  \A u \in Users : bPc[u] \in Installing => bLock = [by |-> u, old |-> FALSE]

\* What the shared names lead to while u works on its artifact, and that all it
\* has extracted before is good.
Gathered(u) ==
  LET i == bItem[u] IN
  /\ bPc[u] = "fetch" => bFd[u] = bPart[i] /\ bData[bPart[i]] = u
  /\ bPc[u] = "verify" => bPart[i] # None /\ (bExcused[u] \/ bData[bPart[i]] = "good")
  /\ bPc[u] = "cache" => bPart[i] # None /\ bData[bPart[i]] = "good"
  /\ bPc[u] = "extract" => bCached[i] # None /\ bData[bCached[i]] = "good"
  /\ bPc[u] \in Gathering => \A j \in Items : j < i => bStage[u][j] = "good"
  /\ bPc[u] = "drop" => \A j \in Items : j <= i => bStage[u][j] = "good"
  /\ bPc[u] \in Placing => \A j \in Items : bStage[u][j] = "good"

\* What u finds where the installation belongs when it has extracted all.
Room(u) ==
  /\ bPc[u] = "setAside" => ~Bundle!Loads(bFinal) /\ (bExcused[u] \/ bFinal # None)
  /\ bPc[u] = "commit" => bFinal = None \/ bFinal.empty

\* A Remove excuses everybody until it is done.
Excuses ==
  (\E r \in Users : bPc[r] \in {"clear", "rmdir"}) => \A u \in Users : bExcused[u]

\* A directory without files has no manifest.
Hollow == bFinal # None /\ bFinal.empty => ~bFinal.whole

\* An installation begins with the first artifact.
Afresh == \A u \in Users : bPc[u] \in Elsewhere \cup {"recheck"} => bItem[u] = 1

BInv ==
  /\ BTypes /\ Excuses /\ Hollow /\ Afresh
  /\ ~bOverrun => /\ Held
                  /\ \A u \in Users : Gathered(u) /\ Room(u)
                  /\ Bundle!RuntimeVerified /\ Bundle!RuntimeInstalls

-----------------------------------------------------------------------------
(* RuntimeBundle: types *)

\* Functions from a finite set reach no more than its elements.
LEMMA Reach ==
  ASSUME NEW S, IsFiniteSet(S), NEW T, NEW f \in [S -> T]
  PROVE  IsFiniteSet({f[x] : x \in S}) /\ Cardinality({f[x] : x \in S}) <= Cardinality(S)
<1> DEFINE R == {f[x] : x \in S}
<1>1. f \in Surjection(S, R)
  BY DEF Surjection
<1> QED
  BY <1>1, FS_Surjection

\* Open finds a block that nobody uses.
LEMMA BlockFree ==
  ASSUME BTypes
  PROVE  Bundle!FreeBlock \in Blocks
<1> DEFINE P == {bPart[i] : i \in Items}
           C == {bCached[i] : i \in Items}
           F == {bFd[u] : u \in Users}
           U == (P \cup C) \cup F
<1>1. Artifacts \in Nat /\ IsFiniteSet(Items) /\ Cardinality(Items) = Artifacts
  BY BundleAssumption, FS_Interval DEF Items
<1>2. bPart \in [Items -> Blocks \cup {None}]
  BY DEF BTypes, Bundle!TypeOK, Bundle!Items, Items
<1>3. bCached \in [Items -> Blocks \cup {None}]
  BY DEF BTypes, Bundle!TypeOK, Bundle!Items, Items
<1>4. bFd \in [Users -> Blocks \cup {None}] /\ IsFiniteSet(Users)
  BY UsersAssumption DEF BTypes, Bundle!TypeOK
<1>p. IsFiniteSet(P) /\ Cardinality(P) <= Artifacts
  BY <1>1, <1>2, Reach
<1>c. IsFiniteSet(C) /\ Cardinality(C) <= Artifacts
  BY <1>1, <1>3, Reach
<1>f. IsFiniteSet(F) /\ Cardinality(F) <= Cardinality(Users)
  BY <1>4, Reach
<1> HIDE DEF P, C, F
<1>5. IsFiniteSet(P \cup C) /\ Cardinality(P \cup C) <= 2 * Artifacts
  <2>1. /\ Cardinality(P) \in Nat /\ Cardinality(C) \in Nat /\ Cardinality(P \cap C) \in Nat
    <3>1. IsFiniteSet(P \cap C)
      BY <1>p, <1>f, FS_Subset
    <3> QED
      BY <1>p, <1>c, <3>1, FS_CardinalityType
  <2>2. /\ IsFiniteSet(P \cup C)
        /\ Cardinality(P \cup C) = Cardinality(P) + Cardinality(C) - Cardinality(P \cap C)
    BY <1>p, <1>c, FS_Union
  <2> QED
    BY <1>1, <1>p, <1>c, <2>1, <2>2
<1> DEFINE Q == P \cup C
<1>6. IsFiniteSet(U) /\ Cardinality(U) <= 2 * Artifacts + Cardinality(Users)
  <2> HIDE DEF Q
  <2>0. IsFiniteSet(Q) /\ Cardinality(Q) <= 2 * Artifacts
    BY <1>5 DEF Q
  <2>1. Cardinality(Q) \in Nat /\ Cardinality(F) \in Nat /\ Cardinality(Q \cap F) \in Nat
    <3>1. IsFiniteSet(Q \cap F)
      BY <1>p, <1>f, FS_Subset
    <3> QED
      BY <1>f, <2>0, <3>1, FS_CardinalityType
  <2>2. /\ IsFiniteSet(Q \cup F)
        /\ Cardinality(Q \cup F) = Cardinality(Q) + Cardinality(F) - Cardinality(Q \cap F)
    BY <1>f, <2>0, FS_Union
  <2>3. Cardinality(Users) \in Nat
    BY UsersAssumption, FS_CardinalityType
  <2>4. Cardinality(Q \cup F) <= 2 * Artifacts + Cardinality(Users)
    BY <1>1, <1>f, <2>0, <2>1, <2>2, <2>3
  <2> QED
    BY <2>2, <2>4 DEF Q
<1>7. \E b \in Blocks : b \notin U
  <2> SUFFICES ASSUME Blocks \subseteq U PROVE FALSE
    OBVIOUS
  <2> HIDE DEF U
  <2>1. Cardinality(Blocks) <= Cardinality(U)
    BY <1>6, FS_Subset
  <2>2. Cardinality(Blocks) \in Nat /\ Cardinality(U) \in Nat /\ Cardinality(Users) \in Nat
    BY <1>6, BlocksAssumption, UsersAssumption, FS_CardinalityType
  <2> QED
    BY <1>1, <1>6, <2>1, <2>2, BlocksAssumption
<1>8. \E b \in Blocks : /\ \A i \in Bundle!Items : b \notin {bPart[i], bCached[i]}
                      /\ \A u \in Users : b # bFd[u]
  BY <1>7 DEF Bundle!Items, Items, P, C, F
<1> QED
  BY <1>8 DEF Bundle!FreeBlock

LEMMA BundleInit == Bundle!Init => BInv
<1> SUFFICES ASSUME Bundle!Init PROVE BInv
  OBVIOUS
<1> USE DEF Bundle!Init
<1>1. BTypes
  <2>1. 1 \in Bundle!Items /\ 0 \in 0..MaxFaults
    BY BundleAssumption DEF Bundle!Items
  <2> QED
    BY <2>1 DEF BTypes, Bundle!TypeOK, Elsewhere
<1>2. \A u \in Users : bPc[u] = "idle"
  OBVIOUS
<1>3. Excuses /\ Hollow /\ Afresh /\ Held /\ Bundle!RuntimeVerified /\ Bundle!RuntimeInstalls
  BY <1>2 DEF Excuses, Hollow, Afresh, Held, Installing, Gathering, Placing, Bundle!Loads,
     Bundle!RuntimeVerified, Bundle!RuntimeInstalls
<1>4. \A u \in Users : Gathered(u) /\ Room(u)
  BY <1>2 DEF Gathered, Room, Gathering, Placing
<1> QED
  BY <1>1, <1>3, <1>4 DEF BInv

\* Ensure returns, from any step under the lock.
LEMMA LeaveTypes ==
  ASSUME BTypes, NEW u \in Users, NEW step \in {"ready", "failed"}, Bundle!Leave(u, step)
  PROVE  /\ bLock' = None
         /\ bPc' \in [Users -> Installing \cup Elsewhere]
         /\ bItem' \in [Users -> Bundle!Items] /\ bFd' \in [Users -> Blocks \cup {None}]
         /\ \A v \in Users : bPc'[v] = "fetch" <=> bFd'[v] # None
         /\ bStage' \in [Users -> [Bundle!Items -> {"none", "good", "bad", "torn"}]]
<1>1. 1 \in Bundle!Items
  BY BundleAssumption DEF Bundle!Items
<1>2. /\ bPc' = [bPc EXCEPT ![u] = step] /\ bItem' = [bItem EXCEPT ![u] = 1]
      /\ bFd' = [bFd EXCEPT ![u] = None]
      /\ bStage' = [bStage EXCEPT ![u] = [i \in Bundle!Items |-> "none"]]
  BY DEF Bundle!Leave, Bundle!Goto
<1>3. \A v \in Users : bPc'[v] = "fetch" <=> bFd'[v] # None
  BY <1>2 DEF BTypes, Bundle!TypeOK
<1>4. bPc' \in [Users -> Installing \cup Elsewhere]
  BY <1>2 DEF BTypes, Elsewhere
<1> QED
  BY <1>1, <1>2, <1>3, <1>4 DEF BTypes, Bundle!TypeOK, Bundle!Leave, Bundle!Release

LEMMA BundleOne == 1 \in Bundle!Items
BY BundleAssumption DEF Bundle!Items

Installations ==
  [whole : BOOLEAN, empty : BOOLEAN,
   from : [Bundle!Items -> {"none", "good", "bad", "torn"}]]

\* What a Remove and what decay leave of an installation.
LEMMA Spoils ==
  ASSUME bFinal \in Installations
  PROVE  /\ [bFinal EXCEPT !.whole = FALSE, !.empty = TRUE] \in Installations
         /\ [bFinal EXCEPT !.whole = FALSE] \in Installations
         /\ [bFinal EXCEPT !.whole = FALSE].whole = FALSE
         /\ [bFinal EXCEPT !.whole = FALSE].empty = bFinal.empty
BY DEF Installations

\* A step that neither opens nor closes a file.
LEMMA GoTypes ==
  ASSUME BTypes, NEW u \in Users, NEW step \in (Installing \cup Elsewhere) \ {"fetch"},
         bPc[u] # "fetch", bPc' = [bPc EXCEPT ![u] = step],
         UNCHANGED <<bLock, bItem, bFd, bStage, Bundle!cache, bFinal, bExcused, Bundle!budget>>
  PROVE  BTypes'
<1>1. bPc' \in [Users -> Installing \cup Elsewhere]
  BY DEF BTypes
<1>2. \A v \in Users : bPc'[v] = "fetch" <=> bFd'[v] # None
  BY DEF BTypes, Bundle!TypeOK
<1> QED
  BY <1>1, <1>2 DEF BTypes, Bundle!TypeOK, Bundle!cache, Bundle!budget

\* A mishap stays within its bound.
LEMMA LoseTypes ==
  ASSUME BTypes
  PROVE  /\ Bundle!Fault => bFaults' \in 0..MaxFaults
         /\ \A taken : Bundle!LoseLock(taken) =>
               bOverrun' \in BOOLEAN /\ bFaults' \in 0..MaxFaults
<1>1. Bundle!Fault => bFaults' \in 0..MaxFaults
  BY BundleAssumption DEF BTypes, Bundle!TypeOK, Bundle!Fault
<1>2. ASSUME NEW taken, Bundle!LoseLock(taken)
      PROVE  bOverrun' \in BOOLEAN /\ bFaults' \in 0..MaxFaults
  <2>1. CASE taken
    BY <1>1, <1>2, <2>1 DEF Bundle!LoseLock
  <2>2. CASE ~taken
    BY <1>2, <2>2 DEF Bundle!LoseLock, Bundle!budget, BTypes, Bundle!TypeOK
  <2> QED
    BY <2>1, <2>2
<1> QED
  BY <1>1, <1>2

LEMMA BundleTypes ==
  ASSUME BTypes, [Bundle!Next]_(Bundle!vars)
  PROVE  BTypes'
<1> USE BundleAssumption, BlocksAssumption
    DEF BTypes, Bundle!TypeOK, Installing, Gathering, Placing, Elsewhere,
        Bundle!Goto, Bundle!cache, Bundle!budget, Bundle!calls
<1>1. ASSUME NEW u \in Users, Bundle!Begin(u) PROVE BTypes'
  BY <1>1 DEF Bundle!Begin, Bundle!Loads
<1>2. ASSUME NEW u \in Users, Bundle!NoBundle(u) PROVE BTypes'
  BY <1>2 DEF Bundle!NoBundle
<1>3. ASSUME NEW u \in Users, Bundle!Acquire(u) PROVE BTypes'
  BY <1>3 DEF Bundle!Acquire
<1>4. ASSUME NEW u \in Users, Bundle!FindExpired(u) PROVE BTypes'
  BY <1>4 DEF Bundle!FindExpired
<1>5. ASSUME NEW u \in Users, Bundle!BreakLock(u) PROVE BTypes'
  BY <1>5, LoseTypes DEF Bundle!BreakLock
<1>6. ASSUME NEW u \in Users, Bundle!GiveUp(u) PROVE BTypes'
  BY <1>6 DEF Bundle!GiveUp
<1>7. ASSUME NEW u \in Users, Bundle!Recheck(u) PROVE BTypes'
  BY <1>7 DEF Bundle!Recheck
<1>8. ASSUME NEW u \in Users, Bundle!Open(u) PROVE BTypes'
  BY <1>8, BlockFree DEF Bundle!Open
<1>9. ASSUME NEW u \in Users, Bundle!FetchFails(u) PROVE BTypes'
  <2>1. CASE \E step \in {"ready", "failed"} : Bundle!Leave(u, step)
    BY <1>9, <2>1, LeaveTypes DEF Bundle!FetchFails
  <2>2. CASE ~\E step \in {"ready", "failed"} : Bundle!Leave(u, step)
    BY <1>9, <2>2 DEF Bundle!FetchFails
  <2> QED
    BY <2>1, <2>2
<1>10. ASSUME NEW u \in Users, NEW content \in {"good", "bad"}, Bundle!Fetch(u, content) PROVE BTypes'
  BY <1>10 DEF Bundle!Fetch
<1>11. ASSUME NEW u \in Users, Bundle!Verify(u) PROVE BTypes'
  <2>1. CASE \E step \in {"ready", "failed"} : Bundle!Leave(u, step)
    BY <1>11, <2>1, LeaveTypes DEF Bundle!Verify
  <2>2. CASE ~\E step \in {"ready", "failed"} : Bundle!Leave(u, step)
    BY <1>11, <2>2 DEF Bundle!Verify
  <2> QED
    BY <2>1, <2>2
<1>12. ASSUME NEW u \in Users, Bundle!RenamePart(u) PROVE BTypes'
  <2>1. bCached' \in [Bundle!Items -> Blocks \cup {None}] /\ bPart' \in [Bundle!Items -> Blocks \cup {None}]
    <3>1. CASE UNCHANGED <<bPart, bCached>>
      BY <3>1
    <3>2. CASE ~UNCHANGED <<bPart, bCached>>
      <4>1. /\ bCached' = [bCached EXCEPT ![bItem[u]] = bPart[bItem[u]]]
            /\ bPart' = [bPart EXCEPT ![bItem[u]] = None]
        BY <1>12, <3>2 DEF Bundle!RenamePart
      <4>2. bPart[bItem[u]] \in Blocks \cup {None}
        OBVIOUS
      <4> QED
        BY <4>1, <4>2
    <3> QED
      BY <3>1, <3>2
  <2>2. UNCHANGED <<bData, bFinal, bExcused, bOverrun, bFaults>>
    BY <1>12 DEF Bundle!RenamePart
  <2>3. CASE bPart[bItem[u]] # None
    <3>1. UNCHANGED <<bLock, bItem, bFd, bStage>> /\ bPc' = [bPc EXCEPT ![u] = "extract"]
      BY <1>12, <2>3 DEF Bundle!RenamePart
    <3>2. bPc[u] = "cache"
      BY <1>12 DEF Bundle!RenamePart
    <3> QED
      BY <2>1, <2>2, <3>1, <3>2
  <2>4. CASE bPart[bItem[u]] = None
    BY <1>12, <2>1, <2>2, <2>4, LeaveTypes DEF Bundle!RenamePart
  <2> QED
    BY <2>3, <2>4
<1>13. ASSUME NEW u \in Users, Bundle!Extract(u) PROVE BTypes'
  <2>1. UNCHANGED <<bPart, bCached, bData, bFinal, bExcused, bOverrun, bFaults>>
    BY <1>13 DEF Bundle!Extract
  <2>2. CASE Bundle!Leave(u, "failed")
    BY <2>1, <2>2, LeaveTypes
  <2>3. CASE ~Bundle!Leave(u, "failed")
    <3>1. /\ bPc' = [bPc EXCEPT ![u] = "drop"] /\ UNCHANGED <<bLock, bItem, bFd>> /\ bPc[u] = "extract"
          /\ \E content \in {"none", "good", "bad", "torn"} :
               bStage' = [bStage EXCEPT ![u][bItem[u]] = content]
      BY <1>13, <2>3 DEF Bundle!Extract
    <3>2. bStage' \in [Users -> [Bundle!Items -> {"none", "good", "bad", "torn"}]]
      BY <3>1
    <3> QED
      BY <2>1, <3>1, <3>2
  <2> QED
    BY <2>2, <2>3
<1>14. ASSUME NEW u \in Users, Bundle!DropArchive(u) PROVE BTypes'
  <2>1. /\ bCached' = [bCached EXCEPT ![bItem[u]] = None] /\ bPc[u] = "drop"
        /\ UNCHANGED <<bLock, bPart, bData, bFinal, bFd, bStage, bExcused, bOverrun, bFaults>>
        /\ bPc' = [bPc EXCEPT ![u] = "open"] \/ bPc' = [bPc EXCEPT ![u] = "replace"]
    BY <1>14 DEF Bundle!DropArchive
  <2>2. bItem' \in [Users -> Bundle!Items]
    <3>1. CASE bItem[u] < Artifacts
      <4>1. bItem' = [bItem EXCEPT ![u] = bItem[u] + 1]
        BY <1>14, <3>1 DEF Bundle!DropArchive
      <4>2. bItem[u] + 1 \in Bundle!Items
        BY <3>1 DEF Bundle!Items
      <4> QED
        BY <4>1, <4>2
    <3>2. CASE ~(bItem[u] < Artifacts)
      BY <1>14, <3>2 DEF Bundle!DropArchive
    <3> QED
      BY <3>1, <3>2
  <2>3. /\ bCached' \in [Bundle!Items -> Blocks \cup {None}]
        /\ bPc' \in [Users -> Installing \cup Elsewhere]
    <3>1. /\ bCached \in [Bundle!Items -> Blocks \cup {None}]
          /\ bPc \in [Users -> Installing \cup Elsewhere]
      OBVIOUS
    <3>2. {"open", "replace"} \subseteq Installing \cup Elsewhere
      OBVIOUS
    <3> HIDE DEF BTypes, Bundle!TypeOK, Installing, Elsewhere
    <3> QED
      BY <2>1, <3>1, <3>2
  <2>4. \A v \in Users : bPc'[v] = "fetch" <=> bFd'[v] # None
    BY <2>1
  <2> QED
    BY <2>1, <2>2, <2>3, <2>4
<1>15. ASSUME NEW u \in Users, Bundle!Replace(u) PROVE BTypes'
  <2>1. CASE \E step \in {"ready", "failed"} : Bundle!Leave(u, step)
    BY <1>15, <2>1, LeaveTypes DEF Bundle!Replace
  <2>2. CASE ~\E step \in {"ready", "failed"} : Bundle!Leave(u, step)
    <3>1. /\ \E step \in {"commit", "setAside"} : bPc' = [bPc EXCEPT ![u] = step]
          /\ bPc[u] = "replace" /\ UNCHANGED <<bLock, bItem, bFd, bStage>>
          /\ UNCHANGED <<Bundle!cache, bFinal, bExcused, Bundle!budget>>
      BY <1>15, <2>2 DEF Bundle!Replace
    <3> QED
      BY <3>1, GoTypes
  <2> QED
    BY <2>1, <2>2
<1>16. ASSUME NEW u \in Users, Bundle!SetAside(u) PROVE BTypes'
  <2>1. UNCHANGED <<bPart, bCached, bData, bExcused, bOverrun, bFaults>> /\ bFinal' = None
    BY <1>16 DEF Bundle!SetAside
  <2>2. CASE bFinal = None
    BY <1>16, <2>1, <2>2, LeaveTypes DEF Bundle!SetAside
  <2>3. CASE bFinal # None
    BY <1>16, <2>1, <2>3 DEF Bundle!SetAside
  <2> QED
    BY <2>2, <2>3
<1>17. ASSUME NEW u \in Users, Bundle!Commit(u) PROVE BTypes'
  <2>1. UNCHANGED <<bPart, bCached, bData, bExcused, bOverrun, bFaults>>
    BY <1>17 DEF Bundle!Commit
  <2>2. CASE bFinal = None \/ bFinal.empty
    <3>1. bFinal' = [whole |-> TRUE, empty |-> FALSE, from |-> bStage[u]]
      BY <1>17, <2>2 DEF Bundle!Commit
    <3>2. bFinal' \in [whole : BOOLEAN, empty : BOOLEAN,
                       from : [Bundle!Items -> {"none", "good", "bad", "torn"}]]
      BY <3>1
    <3>3. /\ bPc' = [bPc EXCEPT ![u] = "upload"] /\ bPc[u] = "commit"
          /\ UNCHANGED <<bLock, bItem, bFd, bStage>>
      BY <1>17, <2>2 DEF Bundle!Commit
    <3> QED
      BY <2>1, <3>2, <3>3
  <2>3. CASE ~(bFinal = None \/ bFinal.empty)
    BY <1>17, <2>1, <2>3, LeaveTypes DEF Bundle!Commit
  <2> QED
    BY <2>2, <2>3
<1>18. ASSUME NEW u \in Users, NEW ok \in BOOLEAN, Bundle!Upload(u, ok) PROVE BTypes'
  <2>1. CASE \E step \in {"ready", "failed"} : Bundle!Leave(u, step)
    BY <1>18, <2>1, LeaveTypes DEF Bundle!Upload
  <2>2. CASE ~\E step \in {"ready", "failed"} : Bundle!Leave(u, step)
    BY <1>18, <2>2 DEF Bundle!Upload
  <2> QED
    BY <2>1, <2>2
<1>19. ASSUME NEW u \in Users, Bundle!FindInstalled(u) PROVE BTypes'
  BY <1>19 DEF Bundle!FindInstalled
<1>20. ASSUME NEW u \in Users, Bundle!Clear(u) PROVE BTypes'
  <2>1. \/ UNCHANGED bFinal
        \/ bFinal # None /\ bFinal' = [bFinal EXCEPT !.whole = FALSE, !.empty = TRUE]
    BY <1>20 DEF Bundle!Clear
  <2>2. bFinal = None \/ bFinal \in Installations
    BY DEF Installations
  <2>3. bFinal' = None \/ bFinal' \in Installations
    <3> HIDE DEF BTypes, Bundle!TypeOK
    <3> QED
      BY <2>1, <2>2, Spoils
  <2> QED
    BY <1>20, <2>3 DEF Bundle!Clear, Installations
<1>21. ASSUME NEW u \in Users, Bundle!RemoveDirectory(u) PROVE BTypes'
  BY <1>21 DEF Bundle!RemoveDirectory
<1>22. ASSUME NEW u \in Users, Bundle!Die(u) PROVE BTypes'
  BY <1>22, LoseTypes, BundleOne DEF Bundle!Die
<1>23. CASE Bundle!Expire
  <2>1. /\ bLock \in [by : Users, old : BOOLEAN] /\ bLock' = [bLock EXCEPT !.old = TRUE]
        /\ UNCHANGED <<bPart, bCached, bData, bFinal, bPc, bItem, bFd, bStage, bExcused>>
    BY <1>23 DEF Bundle!Expire
  <2>2. bOverrun' \in BOOLEAN /\ bFaults' \in 0..MaxFaults
    BY <1>23, LoseTypes DEF Bundle!Expire
  <2>3. bLock' \in [by : Users, old : BOOLEAN]
    BY <2>1
  <2> QED
    BY <2>1, <2>2, <2>3
<1>24. CASE Bundle!Decay
  <2>1. /\ bFinal' = [bFinal EXCEPT !.whole = FALSE] /\ bFinal # None
        /\ UNCHANGED <<bLock, bPart, bCached, bData, bPc, bItem, bFd, bStage, bExcused, bOverrun>>
    BY <1>24 DEF Bundle!Decay, Bundle!Loads
  <2>2. bFaults' \in 0..MaxFaults
    BY <1>24, LoseTypes DEF Bundle!Decay
  <2>3. bFinal' \in [whole : BOOLEAN, empty : BOOLEAN,
                     from : [Bundle!Items -> {"none", "good", "bad", "torn"}]]
    BY <2>1
  <2> QED
    BY <2>1, <2>2, <2>3
<1>25. CASE UNCHANGED Bundle!vars
  BY <1>25 DEF Bundle!vars
<1> HIDE DEF BTypes, Bundle!TypeOK
<1> QED
  BY <1>1, <1>2, <1>3, <1>4, <1>5, <1>6, <1>7, <1>8, <1>9, <1>10, <1>11, <1>12,
     <1>13, <1>14, <1>15, <1>16, <1>17, <1>18, <1>19, <1>20, <1>21, <1>22, <1>23, <1>24, <1>25
  DEF Bundle!Next, Bundle!Ensure, Bundle!Remove

-----------------------------------------------------------------------------
(* RuntimeBundle: the steps under the lock *)

\* The steps of the one that works.
Works(u) ==
  \/ Bundle!Recheck(u) \/ Bundle!Open(u) \/ Bundle!FetchFails(u)
  \/ \E content \in {"good", "bad"} : Bundle!Fetch(u, content)
  \/ Bundle!Verify(u) \/ Bundle!RenamePart(u) \/ Bundle!Extract(u) \/ Bundle!DropArchive(u)
  \/ Bundle!Replace(u) \/ Bundle!SetAside(u) \/ Bundle!Commit(u)
  \/ \E ok \in BOOLEAN : Bundle!Upload(u, ok)

\* It leaves, or it goes on to another step under the lock.
LEMMA WorkMoves ==
  ASSUME NEW u \in Users, Works(u)
  PROVE  /\ bPc[u] \in Installing /\ UNCHANGED <<bOverrun, bFaults>>
         /\ \/ \E step \in {"ready", "failed"} : Bundle!Leave(u, step)
            \/ /\ UNCHANGED bLock
               /\ \E step \in Installing : bPc' = [bPc EXCEPT ![u] = step]
<1> USE DEF Installing, Gathering, Placing, Bundle!Goto, Bundle!budget
<1>1. CASE Bundle!Recheck(u) \/ Bundle!Open(u) \/ Bundle!FetchFails(u)
  BY <1>1 DEF Bundle!Recheck, Bundle!Open, Bundle!FetchFails
<1>2. CASE \E content \in {"good", "bad"} : Bundle!Fetch(u, content)
  BY <1>2 DEF Bundle!Fetch
<1>3. CASE Bundle!Verify(u) \/ Bundle!RenamePart(u) \/ Bundle!Extract(u)
  BY <1>3 DEF Bundle!Verify, Bundle!RenamePart, Bundle!Extract
<1>4. CASE Bundle!DropArchive(u) \/ Bundle!Replace(u) \/ Bundle!SetAside(u) \/ Bundle!Commit(u)
  BY <1>4 DEF Bundle!DropArchive, Bundle!Replace, Bundle!SetAside, Bundle!Commit
<1>5. CASE \E ok \in BOOLEAN : Bundle!Upload(u, ok)
  BY <1>5 DEF Bundle!Upload
<1> QED
  BY <1>1, <1>2, <1>3, <1>4, <1>5 DEF Works

\* Nobody else works then, or begins to.
LEMMA WorkHeld ==
  ASSUME BTypes, Held, NEW u \in Users, Works(u)
  PROVE  /\ Held'
         /\ \A v \in Users \ {u} : bPc'[v] = bPc[v] /\ bPc[v] \notin Installing
<1>1. \A v \in Users \ {u} : bPc[v] \notin Installing
  BY WorkMoves DEF Held
<1>2. \/ bPc' = [bPc EXCEPT ![u] = "ready"] \/ bPc' = [bPc EXCEPT ![u] = "failed"]
      \/ UNCHANGED bLock /\ \E step \in Installing : bPc' = [bPc EXCEPT ![u] = step]
  BY WorkMoves DEF Bundle!Leave, Bundle!Goto
<1>3. \A v \in Users \ {u} : bPc'[v] = bPc[v]
  BY <1>2 DEF BTypes
<1>4. bPc'[u] \in Installing => bLock' = [by |-> u, old |-> FALSE]
  BY <1>2, WorkMoves DEF BTypes, Held, Installing, Gathering, Placing
<1> QED
  BY <1>1, <1>3, <1>4 DEF Held

\* What is under the shared names stays what u has made of it.
LEMMA WorkGathers ==
  ASSUME BInv, BTypes', ~bOverrun, NEW u \in Users, Works(u)
  PROVE  Gathered(u)'
<1> USE DEF BInv, BTypes, Bundle!TypeOK, Gathered, Gathering, Placing, Bundle!Goto
<1>0. ASSUME NEW step \in {"ready", "failed"}, Bundle!Leave(u, step) PROVE Gathered(u)'
  BY <1>0 DEF Bundle!Leave
<1>1. CASE Bundle!Recheck(u)
  <2>1. bItem[u] = 1 /\ \A j \in Items : ~(j < 1)
    BY <1>1 DEF Bundle!Recheck, Afresh, Items
  <2> QED
    BY <1>0, <1>1, <2>1 DEF Bundle!Recheck
<1>2. CASE Bundle!Open(u)
  BY <1>2, BlockFree DEF Bundle!Open
<1>3. CASE Bundle!FetchFails(u)
  BY <1>0, <1>3 DEF Bundle!FetchFails
<1>4. ASSUME NEW content \in {"good", "bad"}, Bundle!Fetch(u, content) PROVE Gathered(u)'
  <2>1. /\ bPc[u] = "fetch" /\ bPc' = [bPc EXCEPT ![u] = "verify"]
        /\ UNCHANGED <<bPart, bCached, bItem, bStage>>
        /\ bExcused'[u] = (bExcused[u] \/ content = "bad")
    BY <1>4 DEF Bundle!Fetch
  <2>2. bFd[u] = bPart[bItem[u]] /\ bData[bFd[u]] = u /\ bFd[u] \in Blocks
    BY <2>1
  <2>3. content = "good" => bData'[bFd[u]] = "good"
    BY <1>4, <2>2 DEF Bundle!Fetch
  <2>4. bPart'[bItem'[u]] # None /\ (bExcused'[u] \/ bData'[bPart'[bItem'[u]]] = "good")
    BY <2>1, <2>2, <2>3, BlocksAssumption
  <2> QED
    BY <2>1, <2>4
<1>5. CASE Bundle!Verify(u)
  <2>1. CASE bPart[bItem[u]] # None /\ bData[bPart[bItem[u]]] = "good"
    <3>1. /\ bPc[u] = "verify" /\ bPc' = [bPc EXCEPT ![u] = "cache"]
          /\ UNCHANGED <<bPart, bCached, bData, bItem, bFd, bStage, bExcused>>
      BY <1>5, <2>1 DEF Bundle!Verify, Bundle!cache
    <3> QED
      BY <2>1, <3>1
  <2>2. CASE ~(bPart[bItem[u]] # None /\ bData[bPart[bItem[u]]] = "good")
    BY <1>0, <1>5, <2>2 DEF Bundle!Verify
  <2> QED
    BY <2>1, <2>2
<1>6. CASE Bundle!RenamePart(u)
  BY <1>0, <1>6 DEF Bundle!RenamePart
<1>7. CASE Bundle!Extract(u)
  <2>1. bCached[bItem[u]] # None /\ bData[bCached[bItem[u]]] = "good"
    BY <1>7 DEF Bundle!Extract
  <2>2. /\ bPc[u] = "extract" /\ bPc' = [bPc EXCEPT ![u] = "drop"]
        /\ UNCHANGED <<bPart, bCached, bData, bItem, bFd, bExcused>>
        /\ bStage' = [bStage EXCEPT ![u][bItem[u]] = "good"]
    BY <1>7, <2>1 DEF Bundle!Extract, Bundle!cache
  <2>3. \A j \in Items : j <= bItem[u] => bStage'[u][j] = "good"
    <3>1. bItem[u] \in Items /\ bStage[u] \in [Items -> {"none", "good", "bad", "torn"}]
      BY DEF Items, Bundle!Items
    <3>2. \A j \in Items : j <= bItem[u] => j = bItem[u] \/ j < bItem[u]
      BY <3>1 DEF Items
    <3> QED
      BY <2>2, <3>1, <3>2
  <2> QED
    BY <2>2, <2>3
<1>8. CASE Bundle!DropArchive(u)
  <2>1. /\ bPc[u] = "drop" /\ UNCHANGED <<bPart, bData, bFd, bStage, bExcused>>
        /\ \/ bPc' = [bPc EXCEPT ![u] = "open"] /\ bItem'[u] = bItem[u] + 1
           \/ bPc' = [bPc EXCEPT ![u] = "replace"] /\ ~(bItem[u] < Artifacts)
    BY <1>8 DEF Bundle!DropArchive
  <2>2. \A j \in Items : /\ j < bItem[u] + 1 => j <= bItem[u]
                         /\ ~(bItem[u] < Artifacts) => j <= bItem[u]
    BY BundleAssumption DEF Items, Bundle!Items
  <2> QED
    BY <2>1, <2>2
<1>9. CASE Bundle!Replace(u) \/ Bundle!SetAside(u) \/ Bundle!Commit(u)
  BY <1>0, <1>9 DEF Bundle!Replace, Bundle!SetAside, Bundle!Commit
<1>10. ASSUME NEW ok \in BOOLEAN, Bundle!Upload(u, ok) PROVE Gathered(u)'
  BY <1>0, <1>10 DEF Bundle!Upload
<1> USE DEF Works
<1>11. CASE Bundle!Recheck(u) \/ Bundle!Open(u) \/ Bundle!FetchFails(u)
  BY <1>1, <1>2, <1>3, <1>11
<1>12. CASE \/ \E content \in {"good", "bad"} : Bundle!Fetch(u, content)
            \/ \E ok \in BOOLEAN : Bundle!Upload(u, ok)
  BY <1>4, <1>10, <1>12
<1> QED
  BY <1>5, <1>6, <1>7, <1>8, <1>9, <1>11, <1>12

\* The installation changes only for one that is good, or goes.
LEMMA WorkPlaces ==
  ASSUME BInv, BTypes', ~bOverrun, NEW u \in Users, Works(u)
  PROVE  Room(u)' /\ Bundle!RuntimeVerified'
<1> USE DEF BInv, BTypes, Bundle!TypeOK, Room, Bundle!Goto, Bundle!Loads,
            Bundle!RuntimeVerified
<1>0. ASSUME NEW step \in {"ready", "failed"}, Bundle!Leave(u, step)
      PROVE  bPc'[u] \notin {"setAside", "commit"}
  BY <1>0 DEF Bundle!Leave
<1>1. CASE Bundle!Recheck(u) \/ Bundle!Open(u) \/ Bundle!FetchFails(u)
  BY <1>0, <1>1 DEF Bundle!Recheck, Bundle!Open, Bundle!FetchFails
<1>2. ASSUME NEW content \in {"good", "bad"}, Bundle!Fetch(u, content)
      PROVE  Room(u)' /\ Bundle!RuntimeVerified'
  BY <1>2 DEF Bundle!Fetch
<1>3. CASE Bundle!Verify(u) \/ Bundle!RenamePart(u) \/ Bundle!Extract(u)
  BY <1>0, <1>3 DEF Bundle!Verify, Bundle!RenamePart, Bundle!Extract
<1>4. CASE Bundle!DropArchive(u)
  BY <1>4 DEF Bundle!DropArchive
<1>5. CASE Bundle!Replace(u)
  BY <1>0, <1>5 DEF Bundle!Replace
<1>6. CASE Bundle!SetAside(u)
  BY <1>0, <1>6 DEF Bundle!SetAside
<1>7. CASE Bundle!Commit(u)
  <2>1. \A i \in Bundle!Items : bStage[u][i] = "good"
    BY <1>7 DEF Bundle!Commit, Gathered, Placing, Items, Bundle!Items
  <2> QED
    BY <1>0, <1>7, <2>1 DEF Bundle!Commit
<1>8. ASSUME NEW ok \in BOOLEAN, Bundle!Upload(u, ok)
      PROVE  Room(u)' /\ Bundle!RuntimeVerified'
  BY <1>0, <1>8 DEF Bundle!Upload
<1> QED
  BY <1>1, <1>2, <1>3, <1>4, <1>5, <1>6, <1>7, <1>8 DEF Works

\* Whoever fails from under the lock has met a fault or a Remove.
LEMMA WorkFails ==
  ASSUME BInv, BTypes', ~bOverrun, NEW u \in Users, Works(u)
  PROVE  bPc'[u] = "failed" => bExcused'[u]
<1> USE DEF BInv, BTypes, Bundle!TypeOK, Bundle!Goto
<1>0. ASSUME NEW step \in {"ready", "failed"}, Bundle!Leave(u, step) PROVE bPc'[u] = step
  BY <1>0 DEF Bundle!Leave
<1>1. CASE Bundle!Recheck(u) \/ Bundle!Open(u) \/ Bundle!FetchFails(u)
  BY <1>0, <1>1 DEF Bundle!Recheck, Bundle!Open, Bundle!FetchFails
<1>2. ASSUME NEW content \in {"good", "bad"}, Bundle!Fetch(u, content)
      PROVE  bPc'[u] # "failed"
  BY <1>2 DEF Bundle!Fetch
<1>3. CASE Bundle!Verify(u) \/ Bundle!RenamePart(u) \/ Bundle!Extract(u)
  BY <1>0, <1>3 DEF Bundle!Verify, Bundle!RenamePart, Bundle!Extract, Gathered
<1>4. CASE Bundle!DropArchive(u) \/ Bundle!Replace(u)
  BY <1>0, <1>4 DEF Bundle!DropArchive, Bundle!Replace
<1>5. CASE Bundle!SetAside(u) \/ Bundle!Commit(u)
  BY <1>0, <1>5 DEF Bundle!SetAside, Bundle!Commit, Room
<1>6. ASSUME NEW ok \in BOOLEAN, Bundle!Upload(u, ok)
      PROVE  bPc'[u] = "failed" => bExcused'[u]
  <2>1. CASE ok
    BY <1>0, <1>6, <2>1 DEF Bundle!Upload
  <2>2. CASE ~ok
    <3>1. bExcused \in [Users -> BOOLEAN] /\ bExcused' = [bExcused EXCEPT ![u] = @ \/ ~ok]
      BY <1>6 DEF Bundle!Upload
    <3> HIDE DEF BInv, BTypes, Bundle!TypeOK
    <3> QED
      BY <2>2, <3>1
  <2> QED
    BY <2>1, <2>2
<1> QED
  BY <1>1, <1>2, <1>3, <1>4, <1>5, <1>6 DEF Works

\* The rest holds after every step of Works, also of one that has lost the lock.
LEMMA WorkRest ==
  ASSUME BInv, BTypes', NEW u \in Users, Works(u)
  PROVE  /\ Excuses' /\ Hollow' /\ Afresh'
         /\ \A v \in Users : bPc'[v] = bPc[v] \/ v = u
         /\ \A v \in Users \ {u} : bExcused'[v] = bExcused[v]
<1> USE DEF BInv, BTypes, Bundle!TypeOK, Bundle!Goto
<1>1. \/ bPc' = [bPc EXCEPT ![u] = "ready"] \/ bPc' = [bPc EXCEPT ![u] = "failed"]
      \/ \E step \in Installing : bPc' = [bPc EXCEPT ![u] = step]
  BY WorkMoves DEF Bundle!Leave
<1>2. \E e \in BOOLEAN : bExcused' = [bExcused EXCEPT ![u] = bExcused[u] \/ e]
  BY DEF Works, Bundle!Recheck, Bundle!Open, Bundle!FetchFails, Bundle!Fetch, Bundle!Verify,
     Bundle!RenamePart, Bundle!Extract, Bundle!DropArchive, Bundle!Replace, Bundle!SetAside,
     Bundle!Commit, Bundle!Upload
<1>3. Excuses'
  BY <1>1, <1>2, WorkMoves DEF Excuses, Installing, Gathering, Placing
<1>4. bFinal' \in {bFinal, None} \/ bFinal' = [whole |-> TRUE, empty |-> FALSE, from |-> bStage[u]]
  <2>1. CASE Bundle!SetAside(u)
    BY <2>1 DEF Bundle!SetAside
  <2>2. CASE Bundle!Commit(u)
    BY <2>2 DEF Bundle!Commit
  <2>3. CASE ~Bundle!SetAside(u) /\ ~Bundle!Commit(u)
    <3> HIDE DEF BInv, BTypes, Bundle!TypeOK
    <3> QED
      BY <2>3 DEF Works, Bundle!Recheck, Bundle!Open, Bundle!FetchFails, Bundle!Fetch,
         Bundle!Verify, Bundle!RenamePart, Bundle!Extract, Bundle!DropArchive,
         Bundle!Replace, Bundle!Upload
  <2> QED
    BY <2>1, <2>2, <2>3
<1>5. Hollow'
  BY <1>4 DEF Hollow
<1>6. bPc'[u] \in Elsewhere \cup {"recheck"} => bItem'[u] = 1
  <2>1. \/ \E step \in {"ready", "failed"} : Bundle!Leave(u, step)
        \/ bPc'[u] \notin Elsewhere \cup {"recheck"}
    <3> USE DEF Elsewhere
    <3>1. CASE \/ Bundle!Recheck(u) \/ Bundle!Open(u) \/ Bundle!FetchFails(u)
               \/ \E content \in {"good", "bad"} : Bundle!Fetch(u, content)
      BY <3>1 DEF Bundle!Recheck, Bundle!Open, Bundle!FetchFails, Bundle!Fetch
    <3>2. CASE Bundle!Verify(u) \/ Bundle!RenamePart(u) \/ Bundle!Extract(u)
      BY <3>2 DEF Bundle!Verify, Bundle!RenamePart, Bundle!Extract
    <3>3. CASE Bundle!DropArchive(u) \/ Bundle!Replace(u) \/ Bundle!SetAside(u)
      BY <3>3 DEF Bundle!DropArchive, Bundle!Replace, Bundle!SetAside
    <3>4. CASE Bundle!Commit(u) \/ \E ok \in BOOLEAN : Bundle!Upload(u, ok)
      BY <3>4 DEF Bundle!Commit, Bundle!Upload
    <3> QED
      BY <3>1, <3>2, <3>3, <3>4 DEF Works
  <2> QED
    BY <2>1 DEF Bundle!Leave
<1>7. \A v \in Users \ {u} : bItem'[v] = bItem[v]
  <2>1. \/ UNCHANGED bItem
        \/ \E step \in {"ready", "failed"} : Bundle!Leave(u, step)
        \/ bItem' = [bItem EXCEPT ![u] = @ + 1]
    BY DEF Works, Bundle!Recheck, Bundle!Open, Bundle!FetchFails, Bundle!Fetch, Bundle!Verify,
       Bundle!RenamePart, Bundle!Extract, Bundle!DropArchive, Bundle!Replace, Bundle!SetAside,
       Bundle!Commit, Bundle!Upload
  <2> QED
    BY <2>1 DEF Bundle!Leave
<1>8. \A v \in Users \ {u} : bPc'[v] = bPc[v]
  BY <1>1
<1>9. Afresh'
  <2> SUFFICES ASSUME NEW v \in Users, bPc'[v] \in Elsewhere \cup {"recheck"}
               PROVE  bItem'[v] = 1
    BY DEF Afresh
  <2> QED
    BY <1>6, <1>7, <1>8 DEF Afresh
<1> QED
  BY <1>2, <1>3, <1>5, <1>8, <1>9

-----------------------------------------------------------------------------
(* RuntimeBundle: every other step *)

\* The steps of calls that are not under the lock, and of the environment.
Others(u) ==
  \/ Bundle!Begin(u) \/ Bundle!NoBundle(u) \/ Bundle!Acquire(u) \/ Bundle!FindExpired(u)
  \/ Bundle!BreakLock(u) \/ Bundle!GiveUp(u)
  \/ Bundle!Remove(u) \/ Bundle!Die(u)

\* They touch nothing under the shared names, and no state of the others but
\* that a Remove excuses them.
LEMMA OtherMoves ==
  ASSUME NEW u \in Users, Others(u)
  PROVE  /\ UNCHANGED <<bPart, bCached, bData>>
         /\ \E step \in Elsewhere \cup {"recheck"} :
              /\ bPc' = [bPc EXCEPT ![u] = step]
              /\ step = "recheck" => /\ bLock = None /\ bLock' = [by |-> u, old |-> FALSE]
                                     /\ bPc[u] = "lock"
         /\ \/ UNCHANGED <<bItem, bFd, bStage>> /\ bPc[u] \in Elsewhere
            \/ /\ bItem' = [bItem EXCEPT ![u] = 1] /\ bFd' = [bFd EXCEPT ![u] = None]
               /\ \E e : bStage' = [bStage EXCEPT ![u] = e]
         /\ \/ UNCHANGED bExcused
            \/ \E e : bExcused' = [bExcused EXCEPT ![u] = e]
            \/ bExcused' = [v \in Users |-> TRUE]
<1> USE DEF Bundle!Goto, Bundle!cache, Elsewhere
<1>1. CASE Bundle!Begin(u) \/ Bundle!NoBundle(u)
  BY <1>1 DEF Bundle!Begin, Bundle!NoBundle
<1>2. CASE Bundle!Acquire(u)
  BY <1>2 DEF Bundle!Acquire
<1>3. CASE Bundle!FindExpired(u) \/ Bundle!GiveUp(u) \/ Bundle!BreakLock(u)
  BY <1>3 DEF Bundle!FindExpired, Bundle!GiveUp, Bundle!BreakLock
<1>4. CASE Bundle!Remove(u)
  BY <1>4 DEF Bundle!Remove, Bundle!FindInstalled, Bundle!Clear, Bundle!RemoveDirectory
<1>5. CASE Bundle!Die(u)
  <2>1. UNCHANGED <<bPart, bCached, bData, bExcused>> /\ bPc' = [bPc EXCEPT ![u] = "idle"]
    BY <1>5 DEF Bundle!Die
  <2>2. bItem' = [bItem EXCEPT ![u] = 1] /\ bFd' = [bFd EXCEPT ![u] = None]
    BY <1>5 DEF Bundle!Die
  <2>3. \E e : bStage' = [bStage EXCEPT ![u] = e]
    BY <1>5, Zenon DEF Bundle!Die
  <2>4. \E step \in Elsewhere \cup {"recheck"} :
          /\ bPc' = [bPc EXCEPT ![u] = step]
          /\ step = "recheck" => /\ bLock = None /\ bLock' = [by |-> u, old |-> FALSE]
                                 /\ bPc[u] = "lock"
    BY <2>1
  <2>5. UNCHANGED <<bPart, bCached, bData>>
    BY <2>1
  <2>6. UNCHANGED bExcused
    BY <2>1
  <2> QED
    BY <2>2, <2>3, <2>4, <2>5, <2>6, Zenon
<1> QED
  BY <1>1, <1>2, <1>3, <1>4, <1>5 DEF Others

\* The installation loses its files to a Remove, and then its directory.
LEMMA OtherPlaces ==
  ASSUME NEW u \in Users, Others(u)
  PROVE  \/ UNCHANGED bFinal
         \/ /\ bPc[u] = "clear" /\ bFinal # None
            /\ bFinal' = [bFinal EXCEPT !.whole = FALSE, !.empty = TRUE]
         \/ bPc[u] = "rmdir" /\ bFinal # None /\ bFinal.empty /\ bFinal' = None
<1>1. CASE Bundle!Clear(u) \/ Bundle!RemoveDirectory(u)
  BY <1>1 DEF Bundle!Clear, Bundle!RemoveDirectory
<1>2. CASE ~(Bundle!Clear(u) \/ Bundle!RemoveDirectory(u))
  BY <1>2 DEF Others, Bundle!Remove, Bundle!FindInstalled, Bundle!Begin, Bundle!NoBundle,
     Bundle!Acquire, Bundle!FindExpired, Bundle!BreakLock, Bundle!GiveUp, Bundle!Die
<1> QED
  BY <1>1, <1>2

\* While a Remove is under way everybody stays excused.
LEMMA OtherExcuses ==
  ASSUME BInv, NEW u \in Users, Others(u)
  PROVE  /\ Excuses'
         /\ \A v \in Users \ {u} : bExcused[v] => bExcused'[v]
         /\ bPc'[u] = "failed" => bExcused'[u]
<1> USE DEF BInv, BTypes, Bundle!TypeOK, Excuses, Bundle!Goto
<1>1. CASE Bundle!Begin(u)
  BY <1>1 DEF Bundle!Begin
<1>2. CASE Bundle!NoBundle(u) \/ Bundle!GiveUp(u)
  <2>1. /\ bPc' = [bPc EXCEPT ![u] = "failed"]
        /\ bExcused' = [bExcused EXCEPT ![u] = TRUE]
    BY <1>2 DEF Bundle!NoBundle, Bundle!GiveUp
  <2> QED
    BY <2>1
<1>3. CASE Bundle!Acquire(u) \/ Bundle!FindExpired(u) \/ Bundle!BreakLock(u)
  BY <1>3 DEF Bundle!Acquire, Bundle!FindExpired, Bundle!BreakLock
<1>4. CASE Bundle!Remove(u)
  BY <1>4 DEF Bundle!Remove, Bundle!FindInstalled, Bundle!Clear, Bundle!RemoveDirectory
<1>5. CASE Bundle!Die(u)
  BY <1>5 DEF Bundle!Die
<1> QED
  BY <1>1, <1>2, <1>3, <1>4, <1>5 DEF Others

\* A lock that is lost by who works makes the difference that overrun notes.
LEMMA OtherHolds ==
  ASSUME BInv, BTypes', NEW u \in Users, Others(u), ~bOverrun'
  PROVE  ~bOverrun /\ Held'
<1>1. ~bOverrun
  BY DEF Others, Bundle!Remove, Bundle!FindInstalled, Bundle!Clear, Bundle!RemoveDirectory,
     Bundle!Begin, Bundle!NoBundle, Bundle!Acquire, Bundle!FindExpired, Bundle!BreakLock,
     Bundle!GiveUp, Bundle!Die, Bundle!LoseLock, Bundle!budget
<1>2. Held
  BY <1>1 DEF BInv
<1>3. CASE bPc'[u] = "recheck"
  <2>1. /\ bLock = None /\ bLock' = [by |-> u, old |-> FALSE]
        /\ \A v \in Users \ {u} : bPc'[v] = bPc[v]
    BY <1>3, OtherMoves DEF BInv, BTypes, Elsewhere
  <2>2. \A v \in Users : bPc[v] \notin Installing
    <3>1. \A v \in Users : [by |-> v, old |-> FALSE] \in [by : Users, old : BOOLEAN]
      OBVIOUS
    <3> QED
      BY <1>2, <2>1, <3>1, BundleAssumption DEF Held
  <2> QED
    BY <1>1, <2>1, <2>2 DEF Held
<1>4. CASE bPc'[u] # "recheck"
  <2>1. bPc'[u] \notin Installing /\ \A v \in Users \ {u} : bPc'[v] = bPc[v]
    BY <1>4, OtherMoves DEF BInv, BTypes, Elsewhere, Installing, Gathering, Placing
  <2>2. UNCHANGED bLock \/ \A v \in Users : bPc[v] \notin Installing
    <3>1. CASE Bundle!BreakLock(u)
      BY <1>2, <3>1 DEF Bundle!BreakLock, Bundle!LoseLock, Held
    <3>2. CASE ~Bundle!BreakLock(u)
      BY <1>4, <3>2 DEF Others, Bundle!Remove, Bundle!FindInstalled, Bundle!Clear,
         Bundle!RemoveDirectory, Bundle!Begin, Bundle!NoBundle, Bundle!Acquire,
         Bundle!FindExpired, Bundle!GiveUp, Bundle!Die, Bundle!Goto, BInv, BTypes
    <3> QED
      BY <3>1, <3>2
  <2> QED
    BY <1>1, <1>2, <2>1, <2>2 DEF Held
<1> QED
  BY <1>1, <1>3, <1>4

\* Who works goes on from where it was, whatever the others do.
LEMMA OtherKeeps ==
  ASSUME BInv, BTypes', ~bOverrun, NEW u \in Users, Others(u)
  PROVE  \A v \in Users : Gathered(v)' /\ Room(v)'
<1>1. bPc'[u] \in Elsewhere \cup {"recheck"}
  BY OtherMoves DEF BInv, BTypes
<1>2. Gathered(u)' /\ Room(u)'
  BY <1>1 DEF Gathered, Room, Elsewhere, Gathering, Placing
<1>3. ASSUME NEW v \in Users \ {u} PROVE Gathered(v)' /\ Room(v)'
  <2>1. /\ UNCHANGED <<bPart, bCached, bData>>
        /\ bPc'[v] = bPc[v] /\ bItem'[v] = bItem[v] /\ bFd'[v] = bFd[v]
        /\ bStage'[v] = bStage[v]
    <3>1. UNCHANGED <<bPart, bCached, bData>>
      BY OtherMoves
    <3>2. bPc'[v] = bPc[v]
      BY OtherMoves DEF BInv, BTypes
    <3>3. \E Stages : /\ bItem \in [Users -> Bundle!Items] /\ bStage \in [Users -> Stages]
                      /\ bFd \in [Users -> Blocks \cup {None}]
      BY DEF BInv, BTypes, Bundle!TypeOK
    <3>4. bItem'[v] = bItem[v] /\ bFd'[v] = bFd[v] /\ bStage'[v] = bStage[v]
      BY <3>3, OtherMoves
    <3> QED
      BY <3>1, <3>2, <3>4
  <2>2. bExcused[v] => bExcused'[v]
    BY OtherExcuses
  <2>3. Gathered(v) /\ Room(v)
    BY DEF BInv
  <2>4. Gathered(v)'
    BY <2>1, <2>2, <2>3 DEF Gathered, Gathering, Placing
  <2>5. bFinal' # bFinal => bExcused[v]
    BY OtherPlaces DEF BInv, Excuses
  <2>6. Room(v)'
    <3>1. CASE UNCHANGED bFinal
      BY <2>1, <2>2, <2>3, <3>1 DEF Room, Bundle!Loads
    <3>2. CASE /\ bFinal # None
               /\ bFinal' = [bFinal EXCEPT !.whole = FALSE, !.empty = TRUE]
      <4>1. ~bFinal'.whole /\ bFinal'.empty
        BY <3>2 DEF BInv, BTypes, Bundle!TypeOK
      <4> QED
        BY <2>1, <2>2, <2>3, <2>5, <3>2, <4>1 DEF Room, Bundle!Loads
    <3>3. CASE bFinal # None /\ bFinal' = None
      BY <2>1, <2>2, <2>3, <2>5, <3>3 DEF Room, Bundle!Loads
    <3> QED
      BY <3>1, <3>2, <3>3, OtherPlaces
  <2> QED
    BY <2>4, <2>6
<1> QED
  BY <1>2, <1>3

\* What a Remove leaves does not load, and who begins begins afresh.
LEMMA OtherRest ==
  ASSUME BInv, BTypes', NEW u \in Users, Others(u)
  PROVE  /\ Hollow' /\ Afresh'
         /\ ~bOverrun => Bundle!RuntimeVerified' /\ Bundle!RuntimeInstalls'
<1>1. \/ UNCHANGED bFinal
      \/ ~bFinal'.whole
      \/ bFinal' = None
  <2>1. ASSUME bFinal # None, bFinal' = [bFinal EXCEPT !.whole = FALSE, !.empty = TRUE]
        PROVE  ~bFinal'.whole
    BY <2>1 DEF BInv, BTypes, Bundle!TypeOK
  <2> QED
    BY <2>1, OtherPlaces
<1>2. Hollow'
  BY <1>1 DEF BInv, Hollow
<1>3. Afresh'
  <2>1. bItem'[u] = 1
    BY OtherMoves DEF BInv, BTypes, Bundle!TypeOK, Afresh
  <2>2. \A v \in Users \ {u} : bPc'[v] = bPc[v] /\ bItem'[v] = bItem[v]
    <3> SUFFICES ASSUME NEW v \in Users \ {u} PROVE bPc'[v] = bPc[v] /\ bItem'[v] = bItem[v]
      OBVIOUS
    <3>1. bPc'[v] = bPc[v]
      BY OtherMoves DEF BInv, BTypes
    <3>2. bItem \in [Users -> Bundle!Items]
      BY DEF BInv, BTypes, Bundle!TypeOK
    <3>3. UNCHANGED bItem \/ bItem' = [bItem EXCEPT ![u] = 1]
      BY OtherMoves
    <3>4. bItem'[v] = bItem[v]
      BY <3>2, <3>3
    <3> QED
      BY <3>1, <3>4
  <2> QED
    BY <2>1, <2>2 DEF BInv, Afresh
<1>4. ~bOverrun => Bundle!RuntimeVerified'
  BY <1>1 DEF BInv, Bundle!RuntimeVerified, Bundle!Loads
<1>5. ASSUME ~bOverrun PROVE Bundle!RuntimeInstalls'
  <2>1. \A v \in Users \ {u} : bPc'[v] = bPc[v]
    BY OtherMoves DEF BInv, BTypes
  <2> QED
    BY <1>5, <2>1, OtherExcuses DEF BInv, Bundle!RuntimeInstalls
<1> QED
  BY <1>2, <1>3, <1>4, <1>5

LEMMA BundleStep ==
  ASSUME BInv, [Bundle!Next]_(Bundle!vars)
  PROVE  BInv'
<1>t. BTypes'
  BY BundleTypes DEF BInv
<1>1. ASSUME NEW u \in Users, Works(u) PROVE BInv'
  <2>1. /\ Excuses' /\ Hollow' /\ Afresh'
        /\ \A v \in Users \ {u} : bPc'[v] = bPc[v] /\ bExcused'[v] = bExcused[v]
    BY <1>t, <1>1, WorkRest
  <2>2. UNCHANGED bOverrun
    BY <1>1, WorkMoves
  <2> SUFFICES ASSUME ~bOverrun'
               PROVE  /\ Held'
                      /\ \A v \in Users : Gathered(v)' /\ Room(v)'
                      /\ Bundle!RuntimeVerified' /\ Bundle!RuntimeInstalls'
    BY <1>t, <2>1 DEF BInv
  <2>3. Held' /\ \A v \in Users \ {u} : bPc'[v] \notin Installing
    BY <1>1, <2>2, WorkHeld DEF BInv
  <2>4. Gathered(u)' /\ Room(u)' /\ Bundle!RuntimeVerified'
    BY <1>t, <1>1, <2>2, WorkGathers, WorkPlaces
  <2>5. \A v \in Users \ {u} : Gathered(v)' /\ Room(v)'
    BY <2>3 DEF Gathered, Room, Installing, Gathering, Placing
  <2>6. Bundle!RuntimeInstalls'
    <3>1. bPc'[u] = "failed" => bExcused'[u]
      BY <1>t, <1>1, <2>2, WorkFails
    <3>2. Bundle!RuntimeInstalls
      BY <2>2 DEF BInv
    <3> QED
      BY <2>1, <2>2, <3>1, <3>2 DEF Bundle!RuntimeInstalls
  <2> QED
    BY <2>3, <2>4, <2>5, <2>6
<1>2. ASSUME NEW u \in Users, Others(u) PROVE BInv'
  <2>1. Excuses' /\ Hollow' /\ Afresh'
    BY <1>t, <1>2, OtherExcuses, OtherRest
  <2>2. ASSUME ~bOverrun' PROVE ~bOverrun /\ Held'
    BY <1>t, <1>2, <2>2, OtherHolds
  <2>3. ASSUME ~bOverrun'
        PROVE  /\ \A v \in Users : Gathered(v)' /\ Room(v)'
               /\ Bundle!RuntimeVerified' /\ Bundle!RuntimeInstalls'
    BY <1>t, <1>2, <2>2, <2>3, OtherKeeps, OtherRest
  <2> QED
    BY <1>t, <2>1, <2>2, <2>3 DEF BInv
<1>3. CASE Bundle!Expire
  <2>1. UNCHANGED <<bPart, bCached, bData, bFinal, bPc, bItem, bFd, bStage, bExcused>>
    BY <1>3 DEF Bundle!Expire, Bundle!cache, Bundle!calls
  <2>2. ASSUME ~bOverrun' PROVE ~bOverrun /\ Held'
    <3>1. ~bOverrun /\ bLock # None /\ ~Bundle!Working(bLock.by)
      BY <1>3, <2>2 DEF Bundle!Expire, Bundle!LoseLock, Bundle!budget
    <3>2. \A v \in Users : bPc[v] \in Installing => bLock.by = v /\ Bundle!Working(v)
      BY <3>1 DEF BInv, Held, Installing, Gathering, Placing, Bundle!Working
    <3> QED
      BY <2>1, <3>1, <3>2 DEF Held
  <2>3. Excuses' /\ Hollow' /\ Afresh'
    BY <2>1 DEF BInv, Excuses, Hollow, Afresh
  <2>4. ~bOverrun => Bundle!RuntimeVerified' /\ Bundle!RuntimeInstalls'
    BY <2>1 DEF BInv, Bundle!RuntimeVerified, Bundle!RuntimeInstalls, Bundle!Loads
  <2>5. ASSUME ~bOverrun, NEW v \in Users PROVE Gathered(v)' /\ Room(v)'
    BY <2>1, <2>5 DEF BInv, Gathered, Room, Bundle!Loads
  <2> QED
    BY <1>t, <2>2, <2>3, <2>4, <2>5, <2>1 DEF BInv, Bundle!RuntimeVerified
<1>4. CASE Bundle!Decay
  <2>1. /\ UNCHANGED <<bLock, bPart, bCached, bData, bPc, bItem, bFd, bStage, bExcused, bOverrun>>
        /\ bFinal # None /\ bFinal' = [bFinal EXCEPT !.whole = FALSE]
    BY <1>4 DEF Bundle!Decay, Bundle!cache, Bundle!calls, Bundle!Loads
  <2>2. bFinal' # None /\ ~bFinal'.whole /\ bFinal'.empty = bFinal.empty
    <3>1. bFinal \in Installations
      BY <2>1 DEF BInv, BTypes, Bundle!TypeOK, Installations
    <3>2. bFinal' \in Installations
      BY <2>1, <3>1, Spoils
    <3>3. bFinal' # None
      BY <3>2, BundleAssumption DEF Installations, Bundle!Items
    <3>4. ~bFinal'.whole /\ bFinal'.empty = bFinal.empty
      BY <2>1, <3>1, Spoils
    <3> QED
      BY <3>3, <3>4
  <2>3. Excuses' /\ Hollow' /\ Afresh'
    BY <2>1, <2>2 DEF BInv, Excuses, Hollow, Afresh
  <2>4. ~bOverrun => Held' /\ Bundle!RuntimeVerified' /\ Bundle!RuntimeInstalls'
    BY <2>1, <2>2 DEF BInv, Held, Bundle!RuntimeVerified, Bundle!RuntimeInstalls, Bundle!Loads
  <2>5. ASSUME ~bOverrun, NEW v \in Users PROVE Gathered(v)'
    BY <2>1, <2>5 DEF BInv, Gathered
  <2>6. ASSUME ~bOverrun, NEW v \in Users PROVE Room(v)'
    BY <2>1, <2>2, <2>6 DEF BInv, Room, Bundle!Loads
  <2> QED
    BY <1>t, <2>1, <2>3, <2>4, <2>5, <2>6 DEF BInv
<1>5. CASE UNCHANGED Bundle!vars
  <2>1. UNCHANGED <<bLock, bPart, bCached, bData, bFinal, bPc, bItem, bFd, bStage, bExcused,
                    bOverrun>>
    BY <1>5 DEF Bundle!vars, Bundle!cache, Bundle!calls, Bundle!budget
  <2>2. Excuses' /\ Hollow' /\ Afresh'
    BY <2>1 DEF BInv, Excuses, Hollow, Afresh
  <2>3. ~bOverrun => Held' /\ Bundle!RuntimeVerified' /\ Bundle!RuntimeInstalls'
    BY <2>1 DEF BInv, Held, Bundle!RuntimeVerified, Bundle!RuntimeInstalls, Bundle!Loads
  <2>4. ASSUME ~bOverrun, NEW v \in Users PROVE Gathered(v)' /\ Room(v)'
    BY <2>1, <2>4 DEF BInv, Gathered, Room, Bundle!Loads
  <2> QED
    BY <1>t, <2>1, <2>2, <2>3, <2>4 DEF BInv
<1> QED
  BY <1>1, <1>2, <1>3, <1>4, <1>5 DEF Bundle!Next, Bundle!Ensure, Works, Others

-----------------------------------------------------------------------------
(* RuntimeBundle: what SpecInstalls promises *)

LEMMA BundleMoves ==
  ASSUME [NextInstalls]_allVars
  PROVE  [Bundle!Next]_(Bundle!vars)
<1>1. UNCHANGED bundleVars => UNCHANGED Bundle!vars
  BY DEF bundleVars, Bundle!vars, Bundle!cache, Bundle!calls, Bundle!budget
<1> QED
  BY <1>1 DEF NextInstalls, allVars

LEMMA BundleInvariant == SpecInstalls => []BInv
<1>1. InitInstalls => BInv
  BY BundleInit DEF InitInstalls
<1>2. BInv /\ [NextInstalls]_allVars => BInv'
  BY BundleMoves, BundleStep
<1> QED
  BY <1>1, <1>2, PTL DEF SpecInstalls

\* As long as no working holder loses the lock, the installation that loads
\* consists of artifacts with the checksums of the catalog, for any number of
\* processes and artifacts (Manager.install).
THEOREM BundleVerified == SpecInstalls => []RuntimeVerified
<1>1. BInv => RuntimeVerified
  BY DEF BInv, RuntimeVerified, Bundle!RuntimeVerified
<1> QED
  BY <1>1, BundleInvariant, PTL

\* Nothing that dead attempts leave fails an Ensure that is served correctly
\* and that no Remove disturbs (Manager.install).
THEOREM BundleInstalls == SpecInstalls => []RuntimeInstalls
<1>1. BInv => RuntimeInstalls
  BY DEF BInv, RuntimeInstalls, Bundle!RuntimeInstalls
<1> QED
  BY <1>1, BundleInvariant, PTL

\* An installation that loads goes only to a Remove or to decay, as long as no
\* working holder loses the lock (Manager.install, its second load).
THEOREM BundleKept == SpecInstalls => RuntimeKept
<1> DEFINE Kept == \/ bOverrun
                   \/ bPc' = bPc
                   \/ \E u \in Users : bPc[u] = "clear" /\ bPc'[u] = "rmdir"
<1>1. ASSUME BInv, [NextInstalls]_allVars, Bundle!Loads(bFinal), bFinal' # bFinal
      PROVE  Kept
  <2>0. Bundle!Next
    BY <1>1, BundleMoves DEF Bundle!vars
  <2>1. ASSUME NEW u \in Users, Works(u) PROVE Kept
    <3> SUFFICES ASSUME ~bOverrun PROVE FALSE
      OBVIOUS
    <3>1. Bundle!SetAside(u) \/ Bundle!Commit(u)
      BY <1>1, <2>1 DEF Works, Bundle!Recheck, Bundle!Open, Bundle!FetchFails, Bundle!Fetch,
         Bundle!Verify, Bundle!RenamePart, Bundle!Extract, Bundle!DropArchive,
         Bundle!Replace, Bundle!Upload
    <3>2. Room(u) /\ Hollow
      BY <1>1 DEF BInv
    <3>3. bFinal # None /\ bFinal.whole
      BY <1>1 DEF Bundle!Loads
    <3> QED
      BY <1>1, <3>1, <3>2, <3>3 DEF Room, Hollow, Bundle!Loads, Bundle!SetAside, Bundle!Commit
  <2>2. ASSUME NEW u \in Users, Others(u) PROVE Kept
    <3>1. Bundle!Clear(u) \/ Bundle!RemoveDirectory(u)
      BY <1>1, <2>2 DEF Others, Bundle!Remove, Bundle!FindInstalled, Bundle!Begin,
         Bundle!NoBundle, Bundle!Acquire, Bundle!FindExpired, Bundle!BreakLock,
         Bundle!GiveUp, Bundle!Die
    <3>2. CASE Bundle!Clear(u)
      <4>1. bPc[u] = "clear" /\ bPc' = [bPc EXCEPT ![u] = "rmdir"]
        BY <3>2 DEF Bundle!Clear, Bundle!Goto
      <4> QED
        BY <1>1, <4>1 DEF BInv, BTypes
    <3>3. CASE Bundle!RemoveDirectory(u)
      BY <1>1, <3>3 DEF Bundle!RemoveDirectory, BInv, Hollow, Bundle!Loads
    <3> QED
      BY <3>1, <3>2, <3>3
  <2>3. CASE Bundle!Expire \/ Bundle!Decay
    BY <2>3 DEF Bundle!Expire, Bundle!Decay, Bundle!calls
  <2> QED
    BY <2>0, <2>1, <2>2, <2>3 DEF Bundle!Next, Bundle!Ensure, Works, Others
<1>2. BInv /\ [NextInstalls]_allVars
        => [Bundle!Loads(bFinal) /\ bFinal' # bFinal => Kept]_(Bundle!vars)
  BY <1>1
<1> QED
  BY <1>2, BundleInvariant, PTL DEF SpecInstalls, RuntimeKept, Bundle!RuntimeKept

-----------------------------------------------------------------------------
(* RemoteCache: the invariant *)

OfModel   == {"copy", "copying", "sum", "move"}
Whole     == {"manifest", "chmod", "swap"}
OfRuntime == {"stage", "part", "parting", "check"} \cup Whole
Steps     == {"idle", "ready", "failed"} \cup OfModel \cup OfRuntime

RTypes == Remote!TypeOK /\ rPc \in [Users -> Steps]

\* Two uploads of one thing know of each other.
Together(u, v) ==
  \/ rPc[u] \in OfModel /\ rPc[v] \in OfModel
  \/ rPc[u] \in OfRuntime /\ rPc[v] \in OfRuntime

Known == \A u, v \in Users : u # v /\ Together(u, v) => rOverlap /\ rBlamed[u]

Undisturbed(u) == ~rOverlap \/ ~rBlamed[u]

\* What an upload that has met no other has made of the .part.
ModelSteady(u) ==
  /\ rPc[u] = "copying" => rOnto[u] = "part" /\ u \notin rShared
  /\ rPc[u] = "sum" => rBlamed[u] \/ rPartial = "good"
  /\ rPc[u] = "move" => rPartial = "good"

\* The files of the stage that are done: those up to the one it works on.
RuntimeSteady(u) ==
  LET Upto(n) == rStage # None /\ \A j \in 1..Parts : rStage[j] = "done" <=> j < n IN
  /\ rPc[u] \in {"part", "parting", "check"} => Upto(rAt[u])
  /\ rPc[u] = "parting" => rStage[rAt[u]] = "torn" /\ u \notin rShared
  /\ rPc[u] = "check" => rStage[rAt[u]] = "full"
  /\ rPc[u] \in Whole => rStage # None /\ \A j \in 1..Parts : rStage[j] = "done"

RInv ==
  /\ RTypes /\ Known /\ Remote!PreparesAgain
  /\ \A u \in Users : Undisturbed(u) => ModelSteady(u) /\ RuntimeSteady(u)

-----------------------------------------------------------------------------
(* RemoteCache: types, and who moves what *)

LEMMA RemoteInit == Remote!Init => RInv
<1> SUFFICES ASSUME Remote!Init PROVE RInv
  OBVIOUS
<1>1. 1 \in Remote!AllParts /\ 0 \in 0..MaxFailures
  BY CacheAssumption DEF Remote!AllParts
<1>2. RTypes
  BY <1>1 DEF Remote!Init, RTypes, Remote!TypeOK, Remote!Idle, Steps
<1>3. \A u \in Users : rPc[u] = "idle"
  BY DEF Remote!Init
<1> QED
  BY <1>2, <1>3 DEF RInv, Known, Together, Remote!PreparesAgain, ModelSteady, RuntimeSteady,
     OfModel, OfRuntime, Whole

\* The steps of u in the two preparations, and its loss.
RemoteActs(u) == Remote!PrepareModel(u) \/ Remote!PrepareRuntime(u) \/ Remote!Disconnect(u)

\* u begins to upload.
Begins(u) ==
  /\ rPc[u] \in {"idle", "ready", "failed"}
  /\ \/ Remote!Start(u, "copy", {v \in Users : Remote!OnModel(v)})
     \/ Remote!Start(u, "stage", {v \in Users : Remote!OnRuntime(v)})
  /\ UNCHANGED <<rFile, rPartial, rSource, rStage, rRuntime, rAt, rOnto, rShared>>

\* u goes on, and touches what belongs to its upload only.
Goes(u) ==
  /\ UNCHANGED rOverlap
  /\ \A v \in Users \ {u} :
       /\ rPc'[v] = rPc[v] /\ rBlamed'[v] = rBlamed[v] /\ rAt'[v] = rAt[v]
       /\ Together(u, v) \/ (v \in rShared' <=> v \in rShared)
  /\ rPc'[u] \in OfModel => rPc[u] \in OfModel
  /\ rPc'[u] \in OfRuntime => rPc[u] \in OfRuntime
  /\ rPc'[u] # "ready" /\ rBlamed[u] => rBlamed'[u]
  /\ UNCHANGED <<rPartial, rOnto>> \/ rPc[u] \in OfModel
  /\ UNCHANGED rStage \/ rPc[u] \in OfRuntime

LEMMA RemoteMoves ==
  ASSUME RTypes, NEW u \in Users, RemoteActs(u)
  PROVE  Begins(u) \/ Goes(u)
<1> USE DEF RTypes, Remote!TypeOK, OfModel, OfRuntime, Whole, Steps, Together, Remote!Goto,
            Remote!Answer, Remote!model, Remote!bundle, Remote!open, Goes
<1>1. CASE Remote!CheckModel(u) \/ Remote!CheckRuntime(u)
  <2>1. CASE Remote!Succeed(u) /\ UNCHANGED <<rPartial, rOnto, rShared, rStage, rAt>>
    BY <2>1 DEF Remote!Succeed
  <2>2. CASE ~(Remote!Succeed(u) /\ UNCHANGED <<rPartial, rOnto, rShared, rStage, rAt>>)
    BY <1>1, <2>2 DEF Remote!CheckModel, Remote!CheckRuntime, Begins, Remote!Idle
  <2> QED
    BY <2>1, <2>2
<1>2. CASE Remote!CopyWhole(u) \/ Remote!CopyRest(u)
  BY <1>2 DEF Remote!CopyWhole, Remote!CopyRest, Remote!Truncate, Remote!Opens
<1>3. CASE Remote!Copied(u) \/ Remote!Sum(u) \/ Remote!Move(u)
  BY <1>3 DEF Remote!Copied, Remote!Sum, Remote!Move
<1>4. CASE Remote!Stage(u) \/ Remote!CopyPart(u) \/ Remote!PartCopied(u)
  BY <1>4 DEF Remote!Stage, Remote!CopyPart, Remote!PartCopied, Remote!Opens
<1>5. CASE Remote!CheckPart(u) \/ Remote!CopyManifest(u)
  BY <1>5 DEF Remote!CheckPart, Remote!CopyManifest
<1>6. CASE Remote!Chmod(u) \/ Remote!Swap(u)
  BY <1>6 DEF Remote!Chmod, Remote!Swap
<1>7. CASE Remote!Disconnect(u)
  BY <1>7 DEF Remote!Disconnect
<1> QED
  BY <1>1, <1>2, <1>3, <1>4, <1>5, <1>6, <1>7
  DEF RemoteActs, Remote!PrepareModel, Remote!PrepareRuntime

\* The types of the steps and the commands, and those of the data.
Control ==
  /\ rPc \in [Users -> Steps]
  /\ rCut \subseteq Users /\ \A v \in rCut : rPc[v] \in Remote!Commands

Data ==
  /\ {rFile, rPartial} \subseteq {None, "torn", "good", "bad"}
  /\ rSource \in {"good", "bad"}
  /\ rStage = None \/ rStage \in [Remote!AllParts -> {"none", "torn", "full", "done"}]
  /\ rRuntime = None \/ rRuntime \subseteq Remote!AllParts
  /\ rAt \in [Users -> Remote!AllParts] /\ rOnto \in [Users -> {"part", "file"}]
  /\ rShared \subseteq Users
  /\ rBlamed \in [Users -> BOOLEAN] /\ rOverlap \in BOOLEAN
  /\ rFailures \in 0..MaxFailures

LEMMA RemoteTyped == (RTypes <=> Control /\ Data) /\ (RTypes' <=> Control' /\ Data')
<1>1. (\A u \in Users : Remote!Idle(u) \/ Remote!OnModel(u) \/ Remote!OnRuntime(u))
        <=> \A u \in Users : rPc[u] \in Steps
  BY DEF Remote!Idle, Remote!OnModel, Remote!OnRuntime, Steps, OfModel, OfRuntime, Whole
<1>2. RTypes <=> Control /\ Data
  BY <1>1 DEF RTypes, Remote!TypeOK, Control, Data
<1>3. (\A u \in Users : Remote!Idle(u) \/ Remote!OnModel(u) \/ Remote!OnRuntime(u))'
        <=> (\A u \in Users : rPc[u] \in Steps)'
  BY DEF Remote!Idle, Remote!OnModel, Remote!OnRuntime, Steps, OfModel, OfRuntime, Whole
<1>4. RTypes' <=> Control' /\ Data'
  BY <1>3 DEF RTypes, Remote!TypeOK, Control, Data
<1> QED
  BY <1>2, <1>4

\* A remote command is followed by commands, or answered.
LEMMA ControlKept ==
  ASSUME Control, NEW u \in Users, NEW step \in Steps,
         \/ Remote!Answer(u, step)
         \/ Remote!Goto(u, step) /\ (rPc[u] \in Remote!Commands => step \in Remote!Commands)
  PROVE  Control'
<1>1. CASE Remote!Answer(u, step)
  BY <1>1 DEF Control, Remote!Answer, Steps
<1>2. CASE Remote!Goto(u, step) /\ (rPc[u] \in Remote!Commands => step \in Remote!Commands)
  BY <1>2 DEF Control, Remote!Goto
<1> QED
  BY <1>1, <1>2

LEMMA RemoteTypes ==
  ASSUME RTypes, [Remote!Next]_(Remote!vars)
  PROVE  RTypes'
<1>a. /\ Control /\ Data
      /\ RTypes' <=> Control' /\ Data'
      /\ Remote!Fault => rFailures' \in 0..MaxFailures
      /\ 1 \in Remote!AllParts /\ Parts \in Remote!AllParts
  BY CacheAssumption, RemoteTyped DEF Data, Remote!Fault, Remote!AllParts
<1>b. \A u \in Users : \A step \in Steps : Remote!Answer(u, step) => Control'
  BY <1>a, ControlKept
<1>c. \A u \in Users : \A step \in Steps :
        /\ Remote!Goto(u, step)
        /\ rPc[u] \in Remote!Commands => step \in Remote!Commands
        => Control'
  BY <1>a, ControlKept
<1> USE <1>a DEF Data, Remote!model, Remote!bundle, Remote!open, Remote!callers
<1> DEFINE Free(u) == rPc[u] \notin Remote!Commands
<1>f. \A u \in Users : rPc[u] \in {"idle", "ready", "failed", "copy", "copying", "part",
                                   "parting", "manifest"} => Free(u)
  BY DEF Remote!Commands
<1>s. {"idle", "ready", "failed"} \cup OfModel \cup OfRuntime = Steps
  BY DEF Steps
<1> USE <1>b, <1>c, <1>f, <1>s DEF OfModel, OfRuntime, Whole
<1> HIDE DEF Free, Data
<1>1. ASSUME NEW u \in Users, Remote!CheckModel(u) \/ Remote!CheckRuntime(u) PROVE RTypes'
  <2>1. /\ UNCHANGED <<rFile, rPartial, rSource, rStage, rRuntime, rAt, rOnto, rShared>>
        /\ rFailures' \in 0..MaxFailures
        /\ Free(u)
    BY <1>1 DEF Remote!CheckModel, Remote!CheckRuntime, Remote!Idle, Data
  <2>2. CASE Remote!Succeed(u)
    <3>1. Control'
      BY <2>1, <2>2 DEF Remote!Succeed, Free
    <3> QED
      BY <2>1, <2>2, <3>1 DEF Remote!Succeed, Data
  <2>3. ASSUME NEW step \in {"copy", "stage"}, NEW busy, Remote!Start(u, step, busy)
        PROVE  RTypes'
    <3>1. Control'
      BY <2>1, <2>3 DEF Remote!Start, Free
    <3>2. rBlamed' \in [Users -> BOOLEAN] /\ rOverlap' \in BOOLEAN
      BY <2>3, Zenon DEF Remote!Start, Data
    <3> QED
      BY <2>1, <3>1, <3>2 DEF Data
  <2> QED
    BY <1>1, <2>2, <2>3 DEF Remote!CheckModel, Remote!CheckRuntime
<1>2. ASSUME NEW u \in Users, Remote!CopyWhole(u) \/ Remote!CopyRest(u) PROVE RTypes'
  <2>1. Control'
    <3>1. \E step \in {"sum", "copying"} : Remote!Goto(u, step)
      BY <1>2 DEF Remote!CopyWhole, Remote!CopyRest, Remote!Truncate
    <3>2. Free(u)
      BY <1>2 DEF Remote!CopyWhole, Remote!CopyRest
    <3> QED
      BY <3>1, <3>2 DEF Free
  <2>2. CASE Remote!Truncate(u)
    BY <1>2, <2>1, <2>2 DEF Remote!CopyWhole, Remote!CopyRest, Remote!Truncate, Remote!Opens, Data
  <2>3. CASE ~Remote!Truncate(u)
    BY <1>2, <2>1, <2>3 DEF Remote!CopyWhole, Remote!CopyRest, Data
  <2> QED
    BY <2>2, <2>3
<1>3. ASSUME NEW u \in Users, Remote!Copied(u) PROVE RTypes'
  <2>1. Control'
    BY <1>3 DEF Remote!Copied, Free
  <2> QED
    BY <1>3, <2>1 DEF Remote!Copied, Data
<1>4. ASSUME NEW u \in Users, Remote!Sum(u) PROVE RTypes'
  <2>1. "move" \in Remote!Commands
    BY DEF Remote!Commands
  <2>2. Control'
    BY <1>4, <2>1 DEF Remote!Sum
  <2> QED
    BY <1>4, <2>2 DEF Remote!Sum, Data
<1>5. ASSUME NEW u \in Users, Remote!Move(u) PROVE RTypes'
  <2>1. Control'
    BY <1>5 DEF Remote!Move
  <2> QED
    BY <1>5, <2>1 DEF Remote!Move, Data
<1>6. ASSUME NEW u \in Users, Remote!Stage(u) PROVE RTypes'
  <2>1. Control'
    BY <1>6 DEF Remote!Stage
  <2> QED
    BY <1>6, <2>1 DEF Remote!Stage, Remote!Fresh, Data
<1>7. ASSUME NEW u \in Users, Remote!CopyPart(u) PROVE RTypes'
  <2>1. Control'
    BY <1>7 DEF Remote!CopyPart, Free
  <2>2. rStage' \in [Remote!AllParts -> {"none", "torn", "full", "done"}]
    BY <1>7 DEF Remote!CopyPart, Remote!Fresh, Data
  <2>3. rShared' \subseteq Users
    BY <1>7 DEF Remote!CopyPart, Remote!Opens, Data
  <2> QED
    BY <1>7, <2>1, <2>2, <2>3 DEF Remote!CopyPart, Data
<1>8. ASSUME NEW u \in Users, Remote!PartCopied(u) PROVE RTypes'
  <2>1. Control'
    BY <1>8 DEF Remote!PartCopied, Free
  <2> QED
    BY <1>8, <2>1 DEF Remote!PartCopied, Remote!Part, Data
<1>9. ASSUME NEW u \in Users, Remote!CheckPart(u) PROVE RTypes'
  <2>1. Control'
    BY <1>9 DEF Remote!CheckPart
  <2>2. rAt' \in [Users -> Remote!AllParts]
    <3>1. \/ UNCHANGED rAt
          \/ rAt[u] < Parts /\ rAt' = [rAt EXCEPT ![u] = rAt[u] + 1]
          \/ rAt' = [rAt EXCEPT ![u] = 1]
      BY <1>9 DEF Remote!CheckPart
    <3>2. rAt[u] < Parts => rAt[u] + 1 \in Remote!AllParts
      BY CacheAssumption DEF Remote!AllParts, Data
    <3> QED
      BY <3>1, <3>2 DEF Data
  <2>3. rStage' = None \/ rStage' \in [Remote!AllParts -> {"none", "torn", "full", "done"}]
    BY <1>9 DEF Remote!CheckPart, Remote!Part, Data
  <2> QED
    BY <1>9, <2>1, <2>2, <2>3 DEF Remote!CheckPart, Data
<1>10. ASSUME NEW u \in Users, Remote!CopyManifest(u) PROVE RTypes'
  <2>1. Control'
    BY <1>10 DEF Remote!CopyManifest, Free
  <2> QED
    BY <1>10, <2>1 DEF Remote!CopyManifest, Data
<1>11. ASSUME NEW u \in Users, Remote!Chmod(u) PROVE RTypes'
  <2>1. "swap" \in Remote!Commands
    BY DEF Remote!Commands
  <2>2. Control'
    BY <1>11, <2>1 DEF Remote!Chmod
  <2> QED
    BY <1>11, <2>2 DEF Remote!Chmod, Data
<1>12. ASSUME NEW u \in Users, Remote!Swap(u) PROVE RTypes'
  <2>1. Control'
    BY <1>12 DEF Remote!Swap
  <2> QED
    BY <1>12, <2>1 DEF Remote!Swap, Data
<1>13. ASSUME NEW u \in Users, Remote!Disconnect(u) PROVE RTypes'
  <2>1. CASE Remote!Goto(u, "idle")
    <3>1. Control'
      BY <2>1, <1>13 DEF Remote!Disconnect, Remote!Goto, Control, Steps
    <3> QED
      BY <1>13, <3>1 DEF Remote!Disconnect, Data
  <2>2. CASE rPc[u] \in Remote!Commands /\ rCut' = rCut \cup {u} /\ UNCHANGED rPc
    <3>1. Control'
      BY <2>2 DEF Control
    <3> QED
      BY <1>13, <3>1 DEF Remote!Disconnect, Data
  <2> QED
    BY <1>13, <2>1, <2>2 DEF Remote!Disconnect
<1>14. CASE Remote!SourceChanges \/ Remote!RemoteDecays \/ UNCHANGED Remote!vars
  <2>1. UNCHANGED <<rPc, rCut, rStage, rPartial, rAt, rOnto, rShared, rBlamed, rOverlap>>
    BY <1>14 DEF Remote!SourceChanges, Remote!RemoteDecays, Remote!vars
  <2>2. Control'
    BY <2>1 DEF Control
  <2> QED
    BY <1>14, <2>1, <2>2 DEF Remote!SourceChanges, Remote!RemoteDecays, Remote!vars, Data
<1> QED
  BY <1>1, <1>2, <1>3, <1>4, <1>5, <1>6, <1>7, <1>8, <1>9, <1>10, <1>11, <1>12, <1>13, <1>14
  DEF Remote!Next, Remote!PrepareModel, Remote!PrepareRuntime

-----------------------------------------------------------------------------
(* RemoteCache: the steps *)

LEMMA KnownStep ==
  ASSUME RInv, RTypes', NEW u \in Users, RemoteActs(u)
  PROVE  Known'
<1> USE DEF RInv, RTypes, Remote!TypeOK
<1>1. CASE Begins(u)
  <2> DEFINE M == {v \in Users : Remote!OnModel(v)}
             R == {v \in Users : Remote!OnRuntime(v)}
  <2>0. \A v \in Users : (v \in M <=> rPc[v] \in OfModel) /\ (v \in R <=> rPc[v] \in OfRuntime)
    BY DEF Remote!OnModel, Remote!OnRuntime, OfModel, OfRuntime, Whole
  <2> HIDE DEF M, R
  <2>1. ASSUME NEW step, NEW busy \in SUBSET Users, Remote!Start(u, step, busy),
               NEW T \in {OfModel, OfRuntime}, NEW v \in Users, NEW w \in Users, v # w,
               rPc'[v] \in T, rPc'[w] \in T, step \in T => \A x \in Users : rPc[x] \in T => x \in busy
        PROVE  rOverlap' /\ rBlamed'[v]
    <3>1. rPc' = [rPc EXCEPT ![u] = step] /\ rOverlap' \in BOOLEAN
      BY <2>1 DEF Remote!Start, Remote!Goto
    <3>2. /\ busy # {} => rOverlap' /\ rBlamed'[u]
          /\ \A x \in busy : rBlamed'[x]
          /\ \A x \in Users \ {u} : rBlamed[x] => rBlamed'[x]
          /\ rOverlap /\ (\E x \in Users \ {u} : ~Remote!Idle(x)) => rOverlap'
      BY <2>1 DEF Remote!Start
    <3>3. CASE v = u
      <4>1. rPc[w] \in T /\ step \in T
        BY <2>1, <3>1, <3>3
      <4> QED
        BY <2>1, <3>2, <3>3, <4>1
    <3>4. CASE w = u
      <4>1. rPc[v] \in T /\ step \in T
        BY <2>1, <3>1, <3>4
      <4> QED
        BY <2>1, <3>2, <3>4, <4>1
    <3>5. CASE v # u /\ w # u
      <4>1. rPc[v] \in T /\ rPc[w] \in T
        BY <2>1, <3>1, <3>5
      <4>2. rOverlap /\ rBlamed[v]
        BY <2>1, <4>1 DEF Known, Together
      <4>3. ~Remote!Idle(v)
        BY <2>1, <4>1 DEF Remote!Idle, OfModel, OfRuntime, Whole
      <4> QED
        BY <3>2, <3>5, <4>2, <4>3
    <3> QED
      BY <3>3, <3>4, <3>5
  <2>2. CASE Remote!Start(u, "copy", M)
    <3>1. M \in SUBSET Users /\ "copy" \notin OfRuntime
      BY DEF M, OfRuntime, Whole
    <3> QED
      BY <2>0, <2>1, <2>2, <3>1 DEF Known, Together
  <2>3. CASE Remote!Start(u, "stage", R)
    <3>1. R \in SUBSET Users /\ "stage" \notin OfModel
      BY DEF R, OfModel
    <3> QED
      BY <2>0, <2>1, <2>3, <3>1 DEF Known, Together
  <2> QED
    BY <1>1, <2>2, <2>3 DEF Begins, M, R
<1>2. CASE Goes(u)
  <2>1. \A v \in Users : /\ rPc'[v] \in OfModel => rPc[v] \in OfModel
                         /\ rPc'[v] \in OfRuntime => rPc[v] \in OfRuntime
                         /\ rPc'[v] # "ready" /\ rBlamed[v] => rBlamed'[v]
    BY <1>2 DEF Goes
  <2>2. "ready" \notin OfModel /\ "ready" \notin OfRuntime
    BY DEF OfModel, OfRuntime, Whole
  <2> QED
    BY <1>2, <2>1, <2>2 DEF Known, Together, Goes
<1> QED
  BY <1>1, <1>2, RemoteMoves

\* A step of u leaves the uploads of the others as they are.
LEMMA SteadyOthers ==
  ASSUME RInv, RTypes', NEW u \in Users, RemoteActs(u), NEW v \in Users \ {u}, Undisturbed(v)'
  PROVE  ModelSteady(v)' /\ RuntimeSteady(v)'
<1> USE DEF RInv, RTypes, Remote!TypeOK
<1>1. CASE Begins(u)
  <2>1. /\ UNCHANGED <<rPartial, rStage, rAt, rOnto, rShared>> /\ rPc'[v] = rPc[v]
        /\ rBlamed[v] => rBlamed'[v]
        /\ rOverlap /\ ~Remote!Idle(v) => rOverlap'
    BY <1>1 DEF Begins, Remote!Start, Remote!Goto
  <2>2. CASE Remote!Idle(v)
    BY <2>1, <2>2 DEF Remote!Idle, ModelSteady, RuntimeSteady, Whole
  <2>3. CASE ~Remote!Idle(v)
    <3>1. Undisturbed(v)
      BY <2>1, <2>3 DEF Undisturbed
    <3> QED
      BY <2>1, <3>1 DEF ModelSteady, RuntimeSteady, Whole
  <2> QED
    BY <2>2, <2>3
<1>2. CASE Goes(u)
  <2>1. rPc'[v] = rPc[v] /\ rBlamed'[v] = rBlamed[v] /\ rAt'[v] = rAt[v] /\ Undisturbed(v)
    BY <1>2 DEF Goes, Undisturbed
  <2>2. ~Together(u, v) /\ (v \in rShared' <=> v \in rShared)
    BY <1>2, <2>1 DEF Known, Together, Undisturbed, Goes
  <2>3. ModelSteady(v)'
    <3>1. UNCHANGED <<rPartial, rOnto>> \/ rPc[v] \notin OfModel
      BY <1>2, <2>2 DEF Goes, Together
    <3> QED
      BY <2>1, <2>2, <3>1 DEF ModelSteady, OfModel
  <2>4. RuntimeSteady(v)'
    <3>1. UNCHANGED rStage \/ rPc[v] \notin OfRuntime
      BY <1>2, <2>2 DEF Goes, Together
    <3> QED
      BY <2>1, <2>2, <3>1 DEF RuntimeSteady, OfRuntime, Whole
  <2> QED
    BY <2>3, <2>4
<1> QED
  BY <1>1, <1>2, RemoteMoves

\* u itself goes on from what it has made, and fails only when it is blamed.
LEMMA SteadyOwn ==
  ASSUME RInv, RTypes', NEW u \in Users, RemoteActs(u)
  PROVE  /\ Undisturbed(u)' => ModelSteady(u)' /\ RuntimeSteady(u)'
         /\ rPc'[u] = "failed" => rBlamed'[u]
<1>0. RTypes
  BY DEF RInv
<1> DEFINE Claim == /\ Undisturbed(u)' => ModelSteady(u)' /\ RuntimeSteady(u)'
                    /\ rPc'[u] = "failed" => rBlamed'[u]
<1>1. CASE Begins(u)
  <2>1. rPc'[u] \in {"copy", "stage"}
    BY <1>0, <1>1 DEF RTypes, Begins, Remote!Start, Remote!Goto
  <2> QED
    BY <2>1 DEF ModelSteady, RuntimeSteady, Whole
<1>2. CASE Goes(u) /\ ~Undisturbed(u)
  <2>1. rPc'[u] # "ready" => rBlamed'[u] /\ ~Undisturbed(u)'
    BY <1>2 DEF Goes, Undisturbed
  <2> QED
    BY <2>1 DEF ModelSteady, RuntimeSteady, Whole
<1>3. CASE Goes(u) /\ Undisturbed(u)
  <2>1. /\ ModelSteady(u) /\ RuntimeSteady(u)
        /\ \A v \in Users \ {u} : ~Together(u, v)
    BY <1>3 DEF RInv, Known, Undisturbed
  <2> USE <1>0 DEF RTypes, Remote!TypeOK, Remote!Goto, Remote!Answer, Remote!model,
                   Remote!bundle, Remote!open
  <2>2. CASE Remote!CopyWhole(u) \/ Remote!CopyRest(u)
    <3>1. Remote!Truncate(u) => u \notin rShared'
      <4>1. {v \in Users : rPc[v] = "copying" /\ rOnto[v] = "part"} = {}
        BY <2>1, <2>2 DEF Remote!CopyWhole, Remote!CopyRest, Together, OfModel
      <4> QED
        BY <4>1 DEF Remote!Truncate, Remote!Opens
    <3> QED
      BY <2>2, <3>1 DEF Remote!CopyWhole, Remote!CopyRest, Remote!Truncate, ModelSteady,
         RuntimeSteady, Whole
  <2>3. CASE Remote!Copied(u)
    <3>1. rPartial' = rSource
      BY <2>1, <2>3 DEF Remote!Copied, ModelSteady
    <3> QED
      BY <2>3, <3>1 DEF Remote!Copied, ModelSteady, RuntimeSteady, Whole
  <2>4. CASE Remote!Sum(u)
    BY <2>1, <2>4 DEF Remote!Sum, ModelSteady, RuntimeSteady, Whole
  <2>5. CASE Remote!Move(u)
    BY <2>1, <2>5, CacheAssumption DEF Remote!Move, ModelSteady, RuntimeSteady, Whole
  <2>6. CASE Remote!Stage(u)
    <3>1. /\ rStage' = [i \in 1..Parts |-> "none"] /\ rAt'[u] = 1
          /\ rPc'[u] \in {"part", "idle"}
      BY <2>6 DEF Remote!Stage, Remote!Fresh, Remote!AllParts
    <3>2. rStage' # None /\ \A j \in 1..Parts : rStage'[j] = "done" <=> j < 1
      BY <3>1, CacheAssumption
    <3> QED
      BY <3>1, <3>2 DEF ModelSteady, RuntimeSteady, Whole
  <2>7. CASE Remote!CopyPart(u)
    <3>1. /\ rPc[u] = "part" /\ rStage # None
          /\ \A j \in 1..Parts : rStage[j] = "done" <=> j < rAt[u]
      BY <2>1, <2>7 DEF Remote!CopyPart, RuntimeSteady
    <3>2. rStage \in [1..Parts -> {"none", "torn", "full", "done"}] /\ rAt[u] \in 1..Parts
      BY <3>1 DEF Remote!AllParts
    <3>3. rStage[rAt[u]] # "done"
      BY <3>1, <3>2
    <3>4. /\ rStage' = [rStage EXCEPT ![rAt[u]] = "torn"]
          /\ rPc'[u] = "parting" /\ UNCHANGED rAt
      BY <2>7, <3>1, <3>3 DEF Remote!CopyPart
    <3>5. rStage' # None /\ rStage'[rAt[u]] = "torn"
      <4>1. rStage' \in [1..Parts -> {"none", "torn", "full", "done"}]
        BY <3>2, <3>4
      <4> QED
        BY <3>2, <3>4, <4>1, CacheAssumption
    <3>6. \A j \in 1..Parts : rStage'[j] = "done" <=> j < rAt[u]
      BY <3>1, <3>2, <3>3, <3>4
    <3>7. u \notin rShared'
      <4>1. {v \in Users : rPc[v] = "parting" /\ rAt[v] = rAt[u]} = {}
        BY <2>1, <3>1 DEF Together, OfRuntime
      <4> QED
        BY <2>7, <4>1 DEF Remote!CopyPart, Remote!Opens
    <3> QED
      BY <3>4, <3>5, <3>6, <3>7 DEF ModelSteady, RuntimeSteady, Whole
  <2>8. CASE Remote!PartCopied(u)
    <3>1. /\ rPc[u] = "parting" /\ rStage # None /\ rStage[rAt[u]] = "torn"
          /\ \A j \in 1..Parts : rStage[j] = "done" <=> j < rAt[u]
          /\ u \notin rShared
      BY <2>1, <2>8 DEF Remote!PartCopied, RuntimeSteady
    <3>2. /\ rStage' = [rStage EXCEPT ![rAt[u]] = "full"]
          /\ rPc'[u] = "check" /\ UNCHANGED rAt
      BY <2>8, <3>1 DEF Remote!PartCopied, Remote!Part
    <3>3. rStage \in [1..Parts -> {"none", "torn", "full", "done"}] /\ rAt[u] \in 1..Parts
      BY <3>1 DEF Remote!AllParts
    <3>4. rStage' # None /\ rStage'[rAt[u]] = "full"
      <4>1. rStage' \in [1..Parts -> {"none", "torn", "full", "done"}]
        BY <3>2, <3>3
      <4> QED
        BY <3>2, <3>3, <4>1, CacheAssumption
    <3>5. \A j \in 1..Parts : rStage'[j] = "done" <=> j < rAt[u]
      BY <3>1, <3>2, <3>3
    <3> QED
      BY <3>2, <3>4, <3>5 DEF ModelSteady, RuntimeSteady, Whole
  <2>9. CASE Remote!CheckPart(u)
    <3>1. /\ rPc[u] = "check" /\ rStage # None /\ rStage[rAt[u]] = "full"
          /\ \A j \in 1..Parts : rStage[j] = "done" <=> j < rAt[u]
      BY <2>1, <2>9 DEF Remote!CheckPart, RuntimeSteady
    <3>2. /\ rStage' = [rStage EXCEPT ![rAt[u]] = "done"]
          /\ \/ rAt[u] < Parts /\ rPc'[u] \in {"part", "idle"} /\ rAt'[u] = rAt[u] + 1
             \/ ~(rAt[u] < Parts) /\ rPc'[u] \in {"manifest", "idle"}
      BY <2>9, <3>1 DEF Remote!CheckPart, Remote!Part
    <3>3. rStage \in [1..Parts -> {"none", "torn", "full", "done"}] /\ rAt[u] \in 1..Parts
      BY <3>1 DEF Remote!AllParts
    <3>4. rStage' # None
      <4>1. rStage' \in [1..Parts -> {"none", "torn", "full", "done"}]
        BY <3>2, <3>3
      <4> QED
        BY <4>1, CacheAssumption
    <3>5. \A j \in 1..Parts : /\ j < rAt[u] + 1 <=> j = rAt[u] \/ j < rAt[u]
                              /\ ~(rAt[u] < Parts) => j = rAt[u] \/ j < rAt[u]
      BY <3>3, CacheAssumption
    <3>6. \A j \in 1..Parts : rStage'[j] = "done" <=> j = rAt[u] \/ j < rAt[u]
      BY <3>1, <3>2, <3>3
    <3> QED
      BY <3>2, <3>4, <3>5, <3>6 DEF ModelSteady, RuntimeSteady, Whole
  <2>10. CASE Remote!CopyManifest(u)
    BY <2>1, <2>10 DEF Remote!CopyManifest, ModelSteady, RuntimeSteady, Whole
  <2>11. CASE Remote!Chmod(u)
    <3>1. Parts \in 1..Parts
      BY CacheAssumption
    <3> QED
      BY <2>1, <2>11, <3>1 DEF Remote!Chmod, ModelSteady, RuntimeSteady, Whole
  <2>12. CASE Remote!Swap(u)
    BY <2>1, <2>12 DEF Remote!Swap, ModelSteady, RuntimeSteady, Whole
  <2>13. CASE Remote!Disconnect(u)
    <3>1. CASE Remote!Goto(u, "idle")
      BY <3>1 DEF ModelSteady, RuntimeSteady, Whole
    <3>2. CASE UNCHANGED rPc
      <4>1. /\ UNCHANGED <<rPartial, rStage, rAt, rOnto, rShared, rBlamed>>
            /\ rPc[u] # "failed"
        BY <2>13 DEF Remote!Disconnect, Remote!Idle
      <4> QED
        BY <2>1, <3>2, <4>1 DEF ModelSteady, RuntimeSteady, Whole
    <3> QED
      BY <2>13, <3>1, <3>2 DEF Remote!Disconnect
  <2>14. CASE Remote!CheckModel(u) \/ Remote!CheckRuntime(u)
    <3>1. rPc'[u] \in {"ready", "copy", "stage"}
      BY <2>14 DEF Remote!CheckModel, Remote!CheckRuntime, Remote!Succeed, Remote!Start
    <3> QED
      BY <3>1 DEF ModelSteady, RuntimeSteady, Whole
  <2> QED
    BY <2>2, <2>3, <2>4, <2>5, <2>6, <2>7, <2>8, <2>9, <2>10, <2>11, <2>12, <2>13, <2>14
    DEF RemoteActs, Remote!PrepareModel, Remote!PrepareRuntime
<1> QED
  BY <1>0, <1>1, <1>2, <1>3, RemoteMoves

LEMMA RemoteStep ==
  ASSUME RInv, [Remote!Next]_(Remote!vars)
  PROVE  RInv'
<1>t. RTypes'
  BY RemoteTypes DEF RInv
<1>1. ASSUME NEW u \in Users, RemoteActs(u) PROVE RInv'
  <2>1. Known'
    BY <1>t, <1>1, KnownStep
  <2>2. \A v \in Users : Undisturbed(v)' => ModelSteady(v)' /\ RuntimeSteady(v)'
    BY <1>t, <1>1, SteadyOthers, SteadyOwn
  <2>3. ASSUME NEW v \in Users, rPc'[v] = "failed" PROVE rBlamed'[v]
    <3>1. CASE v = u
      BY <1>t, <1>1, <2>3, <3>1, SteadyOwn
    <3>2. CASE v # u
      <4>1. rPc'[v] = rPc[v] /\ (rBlamed[v] => rBlamed'[v])
        <5>1. CASE Begins(u)
          BY <3>2, <5>1 DEF RInv, RTypes, Remote!TypeOK, Begins, Remote!Start, Remote!Goto
        <5>2. CASE Goes(u)
          BY <3>2, <5>2 DEF Goes
        <5> QED
          BY <1>1, <5>1, <5>2, RemoteMoves DEF RInv
      <4> QED
        BY <2>3, <4>1 DEF RInv, Remote!PreparesAgain
    <3> QED
      BY <3>1, <3>2
  <2> QED
    BY <1>t, <2>1, <2>2, <2>3 DEF RInv, Remote!PreparesAgain
<1>2. CASE Remote!SourceChanges \/ Remote!RemoteDecays \/ UNCHANGED Remote!vars
  <2>1. UNCHANGED <<rPartial, rStage, rPc, rAt, rOnto, rShared, rBlamed, rOverlap>>
    BY <1>2 DEF Remote!SourceChanges, Remote!RemoteDecays, Remote!vars, Remote!callers,
       Remote!open, Remote!bundle, Remote!model
  <2>2. Known' /\ Remote!PreparesAgain'
    BY <2>1 DEF RInv, Known, Together, Remote!PreparesAgain
  <2>3. \A v \in Users : Undisturbed(v)' => ModelSteady(v)' /\ RuntimeSteady(v)'
    BY <2>1 DEF RInv, Undisturbed, ModelSteady, RuntimeSteady
  <2> QED
    BY <1>t, <2>2, <2>3 DEF RInv
<1> QED
  BY <1>1, <1>2 DEF Remote!Next, RemoteActs

-----------------------------------------------------------------------------
(* RemoteCache: what SpecInstalls promises *)

LEMMA RemoteNext ==
  ASSUME [NextInstalls]_allVars
  PROVE  [Remote!Next]_(Remote!vars)
<1>1. UNCHANGED remoteVars => UNCHANGED Remote!vars
  BY DEF remoteVars, Remote!vars, Remote!model, Remote!bundle, Remote!open, Remote!callers
<1> QED
  BY <1>1 DEF NextInstalls, allVars

LEMMA RemoteInvariant == SpecInstalls => []RInv
<1>1. InitInstalls => RInv
  BY RemoteInit DEF InitInstalls
<1>2. RInv /\ [NextInstalls]_allVars => RInv'
  BY RemoteNext, RemoteStep
<1> QED
  BY <1>1, <1>2, PTL DEF SpecInstalls

\* No preparation fails because of an incomplete .part or stage that an earlier
\* one has left: one that fails has met another upload of the same thing, has
\* sent a rotten local file, or has found, with rsync, a .part of full length
\* and other content, which fails every later one too (copy, PrepareModel,
\* PrepareRuntime).
THEOREM TargetPreparesAgain == SpecInstalls => []PreparesAgain
<1>1. RInv => PreparesAgain
  BY DEF RInv, PreparesAgain
<1> QED
  BY <1>1, RemoteInvariant, PTL

\* A remote model gets its name with the right content only, and a remote
\* runtime when all its files are there only, as long as uploads of one thing
\* do not meet (PrepareModel, PrepareRuntime).
THEOREM TargetVerified == SpecInstalls => RemoteVerified
<1> DEFINE Checked == /\ rFile' # rFile => rFile' = "good"
                      /\ rRuntime' \notin {None, rRuntime} => rRuntime' = Remote!AllParts
<1>1. ASSUME RInv, [NextInstalls]_allVars, ~rOverlap, rFailures' = rFailures
      PROVE  Checked
  <2>0. [Remote!Next]_(Remote!vars)
    BY <1>1, RemoteNext
  <2>1. ASSUME NEW u \in Users, Remote!PrepareModel(u) PROVE Checked
    <3>1. ModelSteady(u)
      BY <1>1 DEF RInv, Undisturbed
    <3>2. UNCHANGED rRuntime
      BY <2>1 DEF Remote!PrepareModel, Remote!CheckModel, Remote!CopyWhole, Remote!CopyRest,
         Remote!Copied, Remote!Sum, Remote!Move, Remote!bundle, Remote!Truncate
    <3>3. rFile' = rFile \/ rFile' = "good"
      BY <2>1, <3>1 DEF Remote!PrepareModel, Remote!CheckModel, Remote!CopyWhole,
         Remote!CopyRest, Remote!Copied, Remote!Sum, Remote!Move, Remote!model, ModelSteady
    <3> QED
      BY <3>2, <3>3
  <2>2. ASSUME NEW u \in Users, Remote!PrepareRuntime(u) PROVE Checked
    <3>1. RuntimeSteady(u)
      BY <1>1 DEF RInv, Undisturbed
    <3>2. UNCHANGED rFile
      BY <2>2 DEF Remote!PrepareRuntime, Remote!CheckRuntime, Remote!Stage, Remote!CopyPart,
         Remote!PartCopied, Remote!CheckPart, Remote!CopyManifest, Remote!Chmod, Remote!Swap,
         Remote!model
    <3>3. CASE Remote!Swap(u)
      <4>1. \A j \in Remote!AllParts : rStage[j] = "done"
        BY <3>1, <3>3 DEF Remote!Swap, RuntimeSteady, Whole, Remote!AllParts
      <4>2. {i \in Remote!AllParts : rStage[i] = "done"} = Remote!AllParts
        BY <4>1
      <4>3. rRuntime' \in {rRuntime, Remote!AllParts}
        BY <3>3, <4>2 DEF Remote!Swap, Remote!bundle
      <4> QED
        BY <3>2, <4>3
    <3>4. CASE ~Remote!Swap(u)
      <4>1. rRuntime' \in {rRuntime, None}
        BY <2>2, <3>4 DEF Remote!PrepareRuntime, Remote!CheckRuntime, Remote!Stage,
           Remote!CopyPart, Remote!PartCopied, Remote!CheckPart, Remote!CopyManifest,
           Remote!Chmod, Remote!bundle
      <4> QED
        BY <3>2, <4>1
    <3> QED
      BY <3>3, <3>4
  <2>3. ASSUME NEW u \in Users, Remote!Disconnect(u) PROVE Checked
    BY <2>3 DEF Remote!Disconnect, Remote!model, Remote!bundle
  <2>4. CASE Remote!SourceChanges
    BY <2>4 DEF Remote!SourceChanges, Remote!bundle
  <2>5. CASE Remote!RemoteDecays
    BY <1>1, <2>5 DEF RInv, RTypes, Remote!TypeOK, Remote!RemoteDecays, Remote!Fault
  <2>6. CASE UNCHANGED Remote!vars
    BY <2>6 DEF Remote!vars, Remote!model, Remote!bundle
  <2> QED
    BY <2>0, <2>1, <2>2, <2>3, <2>4, <2>5, <2>6 DEF Remote!Next
<1>2. RInv /\ [NextInstalls]_allVars
        => [~rOverlap /\ rFailures' = rFailures => Checked]_(Remote!vars)
  BY <1>1
<1> QED
  BY <1>2, RemoteInvariant, PTL DEF SpecInstalls, RemoteVerified, Remote!RemoteVerified

-----------------------------------------------------------------------------
(* The three components together *)

LEMMA ModelMoves == SpecInstalls => Spec
<1>1. InitInstalls => Init
  BY DEF InitInstalls
<1>2. [NextInstalls]_allVars => [Next]_vars
  <2>1. UNCHANGED allVars => UNCHANGED vars
    BY DEF allVars
  <2> QED
    BY <2>1 DEF NextInstalls
<1> QED
  BY <1>1, <1>2, PTL DEF SpecInstalls, Spec

\* The files, locks, inodes and steps of all three keep to their types.
THEOREM InstallsTypes == SpecInstalls => []TypesOK
<1>1. BInv /\ RInv /\ TypeOK => TypesOK
  BY DEF BInv, BTypes, RInv, RTypes, TypesOK
<1> QED
  BY <1>1, ModelMoves, TypeCorrect, BundleInvariant, RemoteInvariant, PTL

=============================================================================
