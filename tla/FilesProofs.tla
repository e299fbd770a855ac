---------------------------- MODULE FilesProofs ----------------------------
(***************************************************************************)
(* Proofs about Periphery, for any constants: the files of the user that   *)
(* Backpack replaces (its own program, the configurations of desktop       *)
(* apps), and the types of all components.                                 *)
(***************************************************************************)
EXTENDS ServingProofs, CloudProofs, TargetStoreProofs, FiniteSetTheorems, TLAPS

-----------------------------------------------------------------------------
(* Updater *)

\* A missing file is no program, and the bound is a number.
Sound == None \notin Update!Programs /\ MaxAccidents \in Nat

\* The steps of a process that is under way.
UpdateSteps     == {"check", "prepare", "stat", "moveAside", "activate", "rollback"}
Channels  == {"stable", "prerelease", "exact"}
Verified(p) == p \in Update!Programs /\ p.good = TRUE

\* A program as Prepare and the installer make it.
Good(v) == [version |-> v, good |-> TRUE]

LEMMA GoodProgram ==
  ASSUME Sound, NEW v \in Releases
  PROVE  Verified(Good(v)) /\ Good(v) # None /\ Good(v).version = v
<1>1. Good(v) \in Update!Programs
  BY DEF Update!Programs, Good
<1>2. Good(v).good = TRUE /\ Good(v).version = v
  BY DEF Good
<1> QED
  BY <1>1, <1>2 DEF Verified, Sound

-----------------------------------------------------------------------------
(* Updater: what the steps have in common *)

\* How a step can end a process: what it planned is gone.
LEMMA Leaves ==
  ASSUME Update!TypeOK, NEW u \in Agents, Update!Leave(u)
  PROVE  /\ upPc' = [upPc EXCEPT ![u] = "idle"]
         /\ upPc' \in [Agents -> {"idle"} \cup UpdateSteps]
         /\ upRunning' \in [Agents -> Releases \cup {None}]
         /\ upTarget' \in [Agents -> Releases \cup {None}]
         /\ upRequest' \in [Agents -> Channels]
         /\ upStaged' \in [Agents -> Update!Programs \cup {None}]
         /\ upAside' \in [Agents -> Update!Programs \cup {None}]
         /\ \A v \in Agents \ {u} :
              /\ upPc'[v] = upPc[v] /\ upRunning'[v] = upRunning[v] /\ upRequest'[v] = upRequest[v]
              /\ upTarget'[v] = upTarget[v] /\ upStaged'[v] = upStaged[v] /\ upAside'[v] = upAside[v]
  BY DEF Update!Leave, Update!Goto, Update!TypeOK, Update!Programs, UpdateSteps, Channels

\* Every step of the system is one of these.
LEMMA StepOf ==
  ASSUME [Update!Next]_(Update!vars)
  PROVE  \/ \E u \in Agents : Update!Launch(u) \/ Update!CheckEnds(u)
         \/ \E u \in Agents, v \in Releases, channel \in Channels : Update!Check(u, channel, v)
         \/ \E u \in Agents, content \in {"good", "bad"} : Update!Prepare(u, content)
         \/ \E u \in Agents : Update!Stage(u) \/ Update!MoveAside(u) \/ Update!Activate(u) \/ Update!ActivateFails(u)
         \/ \E u \in Agents : Update!Rollback(u) \/ Update!RollbackFails(u) \/ Update!Dies(u)
         \/ \E v \in Releases : Update!Publish(v) \/ Update!Reinstall(v)
         \/ UNCHANGED Update!vars
  BY DEF Update!Next, Update!Update, Channels

-----------------------------------------------------------------------------
(* Updater: the invariant *)

\* What a process holds at each step: the version it runs, a target that its
\* channel allows, a staged program that was verified, and what it has aside.
Plan(u) ==
  /\ upPc[u] # "idle" => upRunning[u] \in Releases
  /\ upPc[u] \in UpdateSteps \ {"check"} =>
       /\ upTarget[u] \in Releases
       /\ upRequest[u] = "exact" \/ Update!Before(upRunning[u], upTarget[u])
  /\ upPc[u] \in {"stat", "moveAside", "activate", "rollback"} =>
       Verified(upStaged[u]) /\ upStaged[u].version = upTarget[u]
  /\ Update!Between(u) => Verified(upAside[u])

\* The first rename succeeds for one process at a time: the others find nothing
\* to rename until that one has put a program back.
OneBetween ==
  \A u \in Agents : Update!Between(u) =>
    upFile = None /\ \A v \in Agents : Update!Between(v) => v = u

\* A program is there, or somebody is about to bring one, or has failed to.
InPlace ==
  IF upFile = None THEN upStranded \/ \E u \in Agents : Update!Between(u) ELSE Verified(upFile)

\* What a process runs is still what is installed, or aside, unless it was
\* overtaken.
StillRuns(u) ==
  upPc[u] # "idle" /\ ~upOvertaken[u] =>
    /\ upFile # None => upFile.version = upRunning[u]
    /\ \A v \in Agents : Update!Between(v) => upAside[v].version = upRunning[u]

UInv ==
  /\ Update!TypeOK /\ OneBetween /\ InPlace
  /\ \A u \in Agents : Plan(u) /\ StillRuns(u)

LEMMA UInit ==
  ASSUME Sound
  PROVE  Update!Init => UInv
<1> SUFFICES ASSUME Update!Init PROVE UInv
  OBVIOUS
<1>1. PICK v \in Releases : upPublished = {v} /\ upFile = Good(v)
  BY DEF Update!Init, Good
<1>2. Verified(upFile) /\ upFile # None
  BY <1>1, GoodProgram
<1>3. \A u \in Agents : upPc[u] = "idle"
  BY DEF Update!Init
<1>4. upFile \in Update!Programs \cup {None}
  BY <1>2 DEF Verified
<1>5. Update!TypeOK
  <2>1. upStranded \in BOOLEAN /\ upOvertaken \in [Agents -> BOOLEAN]
    BY Zenon DEF Update!Init
  <2>2. upAccidents \in 0..MaxAccidents
    BY DEF Update!Init, Sound
  <2>3. upRunning \in [Agents -> Releases \cup {None}]
    BY DEF Update!Init
  <2> QED
    BY <1>1, <1>4, <2>1, <2>2, <2>3 DEF Update!Init, Update!TypeOK
<1> QED
  BY <1>2, <1>3, <1>5 DEF UInv, OneBetween, InPlace, Plan, StillRuns, Update!Between,
     UpdateSteps

-----------------------------------------------------------------------------
(* What steps keep *)

\* A step that leaves the program alone, and who is between the renames with
\* what, disturbs nobody's plan but its own.
LEMMA UpdateQuiet ==
  ASSUME UInv, upFile' = upFile, upOvertaken' = upOvertaken, upStranded => upStranded',
         \A v \in Agents :
           /\ Update!Between(v)' <=> Update!Between(v)
           /\ Update!Between(v) => upAside'[v] = upAside[v]
           /\ upPc'[v] # "idle" => upPc[v] # "idle" /\ upRunning'[v] = upRunning[v]
  PROVE  OneBetween' /\ InPlace' /\ \A v \in Agents : StillRuns(v)'
<1>1. OneBetween'
  BY DEF UInv, OneBetween
<1>2. InPlace'
  BY DEF UInv, InPlace, Verified
<1>3. ASSUME NEW v \in Agents PROVE StillRuns(v)'
  BY DEF UInv, StillRuns
<1> QED
  BY <1>1, <1>2, <1>3

\* A process that a step does not touch keeps its plan.
LEMMA PlanKept ==
  ASSUME NEW v, Plan(v), upPc'[v] = upPc[v], upRunning'[v] = upRunning[v],
         upRequest'[v] = upRequest[v], upTarget'[v] = upTarget[v], upStaged'[v] = upStaged[v],
         upAside'[v] = upAside[v]
  PROVE  Plan(v)'
  BY DEF Plan, Update!Between, Verified

\* One that ends needs none.
LEMMA LeaveKeeps ==
  ASSUME UInv, NEW u \in Agents, Update!Leave(u)
  PROVE  /\ upPc'[u] = "idle" /\ ~Update!Between(u)'
         /\ \A v \in Agents : Plan(v)'
         /\ \A v \in Agents \ {u} :
              upPc'[v] = upPc[v] /\ upRunning'[v] = upRunning[v] /\ upAside'[v] = upAside[v]
<1>1. Update!TypeOK
  BY DEF UInv
<1>2. upPc'[u] = "idle"
  BY <1>1, Leaves DEF Update!TypeOK
<1>3. Plan(u)' /\ ~Update!Between(u)'
  BY <1>2 DEF Plan, Update!Between, UpdateSteps
<1>4. ASSUME NEW v \in Agents \ {u} PROVE Plan(v)'
  BY <1>1, Leaves, PlanKept DEF UInv
<1> QED
  BY <1>1, <1>2, <1>3, <1>4, Leaves

LEMMA UpdateTypeStep ==
  ASSUME Sound, UInv, [Update!Next]_(Update!vars)
  PROVE  Update!TypeOK'
<1>0. Update!TypeOK /\ \A u \in Agents : Plan(u)
  BY DEF UInv
<1>a. ASSUME Update!Accident PROVE upAccidents' \in 0..MaxAccidents
  BY <1>0, <1>a DEF Update!Accident, Update!TypeOK, Sound
<1>b. ASSUME NEW u \in Agents, Update!Leave(u), upPublished' \subseteq Releases,
             upFile' \in Update!Programs \cup {None}, upAccidents' \in 0..MaxAccidents,
             upStranded' \in BOOLEAN, upOvertaken' \in [Agents -> BOOLEAN]
      PROVE  Update!TypeOK'
  BY <1>0, <1>b, Leaves DEF Update!TypeOK, UpdateSteps, Channels
<1>c. ASSUME NEW p, Verified(p) PROVE p \in Update!Programs \cup {None}
  BY <1>c DEF Verified
<1>1. ASSUME NEW u \in Agents, Update!Launch(u) PROVE Update!TypeOK'
  <2>1. upOvertaken' \in [Agents -> BOOLEAN]
    BY <1>0, <1>1 DEF Update!Launch, Update!TypeOK
  <2>2. upFile.version \in Releases
    BY <1>0, <1>1 DEF Update!Launch, Update!TypeOK, Update!Programs
  <2> QED
    BY <1>0, <1>1, <2>1, <2>2 DEF Update!Launch, Update!Goto, Update!releases,
       Update!TypeOK
<1>2. ASSUME NEW u \in Agents, Update!CheckEnds(u) PROVE Update!TypeOK'
  BY <1>0, <1>2, <1>b DEF Update!CheckEnds, Update!releases, Update!observed,
     Update!TypeOK
<1>3. ASSUME NEW u \in Agents, NEW v \in Releases, NEW c \in Channels, Update!Check(u, c, v)
      PROVE  Update!TypeOK'
  BY <1>0, <1>3 DEF Update!Check, Update!Goto, Update!releases, Update!observed,
     Update!TypeOK, Channels
<1>4. ASSUME NEW u \in Agents, NEW content, Update!Prepare(u, content)
      PROVE Update!TypeOK'
  <2>1. CASE Update!Accepts(content)
    <3>1. Good(upTarget[u]) \in Update!Programs
      BY <1>0, <1>4, GoodProgram DEF Update!Prepare, Plan, UpdateSteps, Verified
    <3>2. upStaged' = [upStaged EXCEPT ![u] = Good(upTarget[u])]
      BY <1>4, <2>1 DEF Update!Prepare, Good
    <3> QED
      BY <1>0, <1>4, <2>1, <3>1, <3>2 DEF Update!Prepare, Update!Goto, Update!releases,
         Update!observed, Update!TypeOK
  <2>2. CASE ~Update!Accepts(content)
    BY <1>0, <1>4, <1>b, <2>2 DEF Update!Prepare, Update!releases, Update!observed,
       Update!TypeOK
  <2> QED
    BY <2>1, <2>2
<1>5. ASSUME NEW u \in Agents, Update!Stage(u) PROVE Update!TypeOK'
  <2>1. CASE upFile = None
    BY <1>0, <1>5, <1>b, <2>1 DEF Update!Stage, Update!releases, Update!observed,
       Update!TypeOK
  <2>2. CASE upFile # None
    BY <1>0, <1>5, <2>2 DEF Update!Stage, Update!Goto, Update!plan, Update!releases,
       Update!observed, Update!TypeOK
  <2> QED
    BY <2>1, <2>2
<1>6. ASSUME NEW u \in Agents, Update!MoveAside(u) PROVE Update!TypeOK'
  <2>1. CASE upFile = None
    BY <1>0, <1>6, <1>b, <2>1 DEF Update!MoveAside, Update!releases, Update!observed,
       Update!TypeOK
  <2>2. CASE upFile # None
    BY <1>0, <1>6, <2>2 DEF Update!MoveAside, Update!Goto, Update!releases,
       Update!observed, Update!TypeOK
  <2> QED
    BY <2>1, <2>2
<1>7. ASSUME NEW u \in Agents, Update!Activate(u) PROVE Update!TypeOK'
  <2>1. upOvertaken' \in [Agents -> BOOLEAN]
    BY <1>7, Zenon DEF Update!Activate
  <2>2. upStaged[u] \in Update!Programs \cup {None}
    BY <1>0 DEF Update!TypeOK
  <2> QED
    BY <1>0, <1>7, <1>b, <2>1, <2>2 DEF Update!Activate, Update!releases, Update!TypeOK
<1>8. ASSUME NEW u \in Agents, Update!ActivateFails(u) PROVE Update!TypeOK'
  BY <1>0, <1>8, <1>a DEF Update!ActivateFails, Update!Goto, Update!plan,
     Update!releases, Update!TypeOK
<1>9. ASSUME NEW u \in Agents, Update!Rollback(u) PROVE Update!TypeOK'
  <2>1. upAside[u] \in Update!Programs \cup {None}
    BY <1>0 DEF Update!TypeOK
  <2> QED
    BY <1>0, <1>9, <1>b, <2>1 DEF Update!Rollback, Update!releases, Update!observed,
       Update!TypeOK
<1>10. ASSUME NEW u \in Agents, Update!RollbackFails(u) \/ Update!Dies(u)
       PROVE Update!TypeOK'
  <2>1. upStranded' \in BOOLEAN
    BY <1>10, Zenon DEF Update!RollbackFails, Update!Dies
  <2> QED
    BY <1>0, <1>10, <1>a, <1>b, <2>1 DEF Update!RollbackFails, Update!Dies,
       Update!releases, Update!TypeOK
<1>11. ASSUME NEW v \in Releases, Update!Publish(v) PROVE Update!TypeOK'
  BY <1>0, <1>11 DEF Update!Publish, Update!plan, Update!observed, Update!TypeOK
<1>12. ASSUME NEW v \in Releases, Update!Reinstall(v) PROVE Update!TypeOK'
  <2>1. upOvertaken' \in [Agents -> BOOLEAN]
    BY <1>12, Zenon DEF Update!Reinstall
  <2>2. upFile' \in Update!Programs
    BY <1>12, GoodProgram DEF Update!Reinstall, Good, Verified
  <2>3. upStranded' \in BOOLEAN
    BY <1>12, Zenon DEF Update!Reinstall
  <2> QED
    BY <1>0, <1>12, <2>1, <2>2, <2>3 DEF Update!Reinstall, Update!plan, Update!releases,
       Update!TypeOK
<1>13. CASE UNCHANGED Update!vars
  BY <1>0, <1>13 DEF Update!vars, Update!plan, Update!releases, Update!observed,
     Update!TypeOK
<1> QED
  BY <1>1, <1>2, <1>3, <1>4, <1>5, <1>6, <1>7, <1>8, <1>9, <1>10, <1>11, <1>12, <1>13,
     StepOf

-----------------------------------------------------------------------------
(* Every step keeps the invariant *)

LEMMA UStep ==
  ASSUME Sound
  PROVE  UInv /\ [Update!Next]_(Update!vars) => UInv'
<1> SUFFICES ASSUME UInv, [Update!Next]_(Update!vars) PROVE UInv'
  OBVIOUS
<1>0. /\ Update!TypeOK /\ Update!TypeOK' /\ OneBetween /\ InPlace
      /\ \A u \in Agents : Plan(u) /\ StillRuns(u)
  BY UpdateTypeStep DEF UInv
<1>a. ASSUME NEW u \in Agents, Update!Leave(u), ~Update!Between(u), upFile' = upFile,
             upOvertaken' = upOvertaken, upStranded' = upStranded
      PROVE  UInv'
  <2>1. OneBetween' /\ InPlace' /\ \A v \in Agents : StillRuns(v)'
    BY <1>a, LeaveKeeps, UpdateQuiet DEF Update!Between
  <2> QED
    BY <1>0, <1>a, <2>1, LeaveKeeps DEF UInv
<1>1. ASSUME NEW u \in Agents, Update!Launch(u) PROVE UInv'
  <2>1. /\ upFile # None /\ upFile' = upFile /\ upStranded' = upStranded /\ upPc[u] = "idle"
        /\ upRunning' = [upRunning EXCEPT ![u] = upFile.version]
        /\ upOvertaken' = [upOvertaken EXCEPT ![u] = FALSE]
        /\ upPc' = [upPc EXCEPT ![u] = "check"] /\ UNCHANGED <<upRequest, upTarget, upStaged, upAside>>
    BY <1>1 DEF Update!Launch, Update!Goto
  <2>2. \A v \in Agents : ~Update!Between(v) /\ ~Update!Between(v)'
    BY <1>0, <2>1 DEF OneBetween, Update!Between, Update!TypeOK
  <2>3. OneBetween' /\ InPlace'
    BY <1>0, <2>1, <2>2 DEF OneBetween, InPlace, Verified
  <2>4. ASSUME NEW v \in Agents PROVE Plan(v)'
    <3>1. CASE v = u
      <4>1. upFile.version \in Releases
        BY <1>0, <2>1 DEF Update!TypeOK, Update!Programs
      <4> QED
        BY <1>0, <2>1, <3>1, <4>1 DEF Plan, Update!Between, UpdateSteps, Update!TypeOK
    <3>2. CASE v # u
      BY <1>0, <2>1, <3>2, PlanKept DEF Update!TypeOK
    <3> QED
      BY <3>1, <3>2
  <2>5. ASSUME NEW v \in Agents PROVE StillRuns(v)'
    <3>1. CASE v = u
      BY <1>0, <2>1, <2>2, <3>1 DEF StillRuns, Update!TypeOK
    <3>2. CASE v # u
      BY <1>0, <2>1, <2>2, <3>2 DEF StillRuns, Update!TypeOK
    <3> QED
      BY <3>1, <3>2
  <2> QED
    BY <1>0, <2>3, <2>4, <2>5 DEF UInv
<1>2. ASSUME NEW u \in Agents, Update!CheckEnds(u) PROVE UInv'
  BY <1>2, <1>a DEF Update!CheckEnds, Update!observed, Update!Between
<1>b. ASSUME NEW u \in Agents, NEW step, upPc' = [upPc EXCEPT ![u] = step],
             upPc[u] # "idle", ~Update!Between(u) /\ step \notin {"activate", "rollback"},
             upFile' = upFile, upOvertaken' = upOvertaken, upStranded' = upStranded,
             upRunning' = upRunning, upAside' = upAside, Plan(u)',
             \A v \in Agents \ {u} :
               upRequest'[v] = upRequest[v] /\ upTarget'[v] = upTarget[v] /\ upStaged'[v] = upStaged[v]
      PROVE  UInv'
  <2>1. OneBetween' /\ InPlace' /\ \A v \in Agents : StillRuns(v)'
    <3>1. ASSUME NEW v \in Agents
          PROVE  (Update!Between(v)' <=> Update!Between(v)) /\ (upPc'[v] # "idle" => upPc[v] # "idle")
      BY <1>0, <1>b DEF Update!Between, Update!TypeOK
    <3> QED
      BY <1>b, <3>1, UpdateQuiet
  <2>2. ASSUME NEW v \in Agents PROVE Plan(v)'
    BY <1>0, <1>b, PlanKept DEF Update!TypeOK
  <2> QED
    BY <1>0, <2>1, <2>2 DEF UInv
<1>3. ASSUME NEW u \in Agents, NEW v \in Releases, NEW c \in Channels, Update!Check(u, c, v)
      PROVE  UInv'
  <2>1. /\ upPc[u] = "check" /\ upPc' = [upPc EXCEPT ![u] = "prepare"]
        /\ upRequest' = [upRequest EXCEPT ![u] = c] /\ upTarget' = [upTarget EXCEPT ![u] = v]
        /\ UNCHANGED <<upFile, upRunning, upStaged, upAside, upOvertaken, upStranded>>
    BY <1>3 DEF Update!Check, Update!Goto, Update!observed
  <2>2. c = "exact" \/ Update!Before(upRunning[u], v)
    BY <1>3 DEF Update!Check, Update!Available
  <2>3. Plan(u)'
    BY <1>0, <2>1, <2>2 DEF Plan, Update!Between, UpdateSteps, Update!TypeOK
  <2> QED
    BY <1>0, <1>b, <2>1, <2>3 DEF Update!Between, Update!TypeOK
<1>4. ASSUME NEW u \in Agents, NEW content, Update!Prepare(u, content) PROVE UInv'
  <2>1. CASE Update!Accepts(content)
    <3>1. /\ upPc[u] = "prepare" /\ upPc' = [upPc EXCEPT ![u] = "stat"]
          /\ upStaged' = [upStaged EXCEPT ![u] = Good(upTarget[u])]
          /\ UNCHANGED <<upFile, upRunning, upRequest, upTarget, upAside, upOvertaken, upStranded>>
      BY <1>4, <2>1 DEF Update!Prepare, Update!Goto, Good, Update!observed
    <3>2. Verified(Good(upTarget[u])) /\ Good(upTarget[u]).version = upTarget[u]
      BY <1>0, <3>1, GoodProgram DEF Plan, UpdateSteps
    <3>3. Plan(u)'
      BY <1>0, <3>1, <3>2 DEF Plan, Update!Between, UpdateSteps, Verified, Update!TypeOK
    <3> QED
      BY <1>0, <1>b, <3>1, <3>3 DEF Update!Between, Update!TypeOK
  <2>2. CASE ~Update!Accepts(content)
    BY <1>4, <1>a, <2>2 DEF Update!Prepare, Update!observed, Update!Between
  <2> QED
    BY <2>1, <2>2
<1>5. ASSUME NEW u \in Agents, Update!Stage(u) PROVE UInv'
  <2>1. CASE upFile = None
    BY <1>5, <1>a, <2>1 DEF Update!Stage, Update!observed, Update!Between
  <2>2. CASE upFile # None
    <3>1. /\ upPc[u] = "stat" /\ upPc' = [upPc EXCEPT ![u] = "moveAside"]
          /\ UNCHANGED <<upFile, Update!plan, upOvertaken, upStranded>>
      BY <1>5, <2>2 DEF Update!Stage, Update!Goto, Update!observed
    <3>2. Plan(u)'
      BY <1>0, <3>1 DEF Plan, Update!Between, UpdateSteps, Verified, Update!plan,
         Update!TypeOK
    <3>3. /\ ~Update!Between(u) /\ "moveAside" \notin {"activate", "rollback"}
          /\ upFile' = upFile /\ upOvertaken' = upOvertaken /\ upStranded' = upStranded
          /\ upRunning' = upRunning /\ upAside' = upAside
          /\ upRequest' = upRequest /\ upTarget' = upTarget /\ upStaged' = upStaged
      BY <3>1 DEF Update!Between, Update!plan
    <3>4. upPc[u] # "idle"
      BY <3>1
    <3> QED
      BY <1>b, <3>1, <3>2, <3>3, <3>4
  <2> QED
    BY <2>1, <2>2
<1>6. ASSUME NEW u \in Agents, Update!MoveAside(u) PROVE UInv'
  <2>1. CASE upFile = None
    BY <1>6, <1>a, <2>1 DEF Update!MoveAside, Update!observed, Update!Between
  <2>2. CASE upFile # None
    <3>1. /\ upPc[u] = "moveAside" /\ upPc' = [upPc EXCEPT ![u] = "activate"]
          /\ upAside' = [upAside EXCEPT ![u] = upFile] /\ upFile' = None
          /\ UNCHANGED <<upRunning, upRequest, upTarget, upStaged, upOvertaken, upStranded>>
      BY <1>6, <2>2 DEF Update!MoveAside, Update!Goto, Update!observed
    <3>2. \A v \in Agents : ~Update!Between(v) /\ (Update!Between(v)' <=> v = u)
      BY <1>0, <2>2, <3>1 DEF OneBetween, Update!Between, Update!TypeOK
    <3>3. Verified(upFile)
      BY <1>0, <2>2 DEF InPlace
    <3>4. OneBetween' /\ InPlace'
      BY <3>1, <3>2 DEF OneBetween, InPlace
    <3>5. ASSUME NEW v \in Agents PROVE Plan(v)'
      <4>1. CASE v = u
        BY <1>0, <3>1, <3>3, <4>1 DEF Plan, Update!Between, UpdateSteps, Verified,
           Update!TypeOK
      <4>2. CASE v # u
        BY <1>0, <3>1, <4>2, PlanKept DEF Update!TypeOK
      <4> QED
        BY <4>1, <4>2
    <3>6. ASSUME NEW v \in Agents PROVE StillRuns(v)'
      <4>1. upPc'[v] # "idle" => upPc[v] # "idle"
        BY <1>0, <3>1 DEF Update!TypeOK
      <4>2. upAside'[u] = upFile
        BY <1>0, <3>1 DEF Update!TypeOK
      <4> QED
        BY <1>0, <2>2, <3>1, <3>2, <4>1, <4>2 DEF StillRuns
    <3> QED
      BY <1>0, <3>4, <3>5, <3>6 DEF UInv
  <2> QED
    BY <2>1, <2>2
\* The three ways in which a process that is between the renames ends.
<1>c. ASSUME NEW u \in Agents, Update!Between(u), Update!Leave(u)
      PROVE  /\ upFile = None /\ \A v \in Agents : ~Update!Between(v)' /\ Plan(v)'
             /\ \A v \in Agents :
                  upPc'[v] # "idle" => v # u /\ upPc[v] # "idle" /\ upRunning'[v] = upRunning[v]
  <2>1. upFile = None /\ \A v \in Agents \ {u} : ~Update!Between(v)
    BY <1>0, <1>c DEF OneBetween
  <2>2. \A v \in Agents : ~Update!Between(v)'
    BY <1>c, <2>1, LeaveKeeps DEF Update!Between
  <2> QED
    BY <1>c, <2>1, <2>2, LeaveKeeps
<1>7. ASSUME NEW u \in Agents, Update!Activate(u) PROVE UInv'
  <2>1. /\ Update!Between(u) /\ Update!Leave(u) /\ upFile' = upStaged[u]
        /\ upOvertaken' = [v \in Agents |-> upPc[v] # "idle" /\ v # u]
    BY <1>7 DEF Update!Activate, Update!Between
  <2>2. Verified(upFile')
    BY <1>0, <1>7, <2>1 DEF Plan, Update!Activate, Verified
  <2>3. OneBetween' /\ InPlace'
    BY <1>c, <2>1, <2>2 DEF OneBetween, InPlace, Verified, Sound
  <2>4. ASSUME NEW v \in Agents PROVE StillRuns(v)'
    <3>1. upPc'[v] # "idle" => upOvertaken'[v]
      BY <1>c, <2>1
    <3> QED
      BY <3>1 DEF StillRuns
  <2> QED
    BY <1>0, <1>c, <2>1, <2>3, <2>4 DEF UInv
<1>8. ASSUME NEW u \in Agents, Update!ActivateFails(u) PROVE UInv'
  <2>1. /\ upPc[u] = "activate" /\ upPc' = [upPc EXCEPT ![u] = "rollback"]
        /\ UNCHANGED <<upFile, Update!plan, upOvertaken, upStranded>>
    BY <1>8 DEF Update!ActivateFails, Update!Goto
  <2>2. OneBetween' /\ InPlace' /\ \A v \in Agents : StillRuns(v)'
    <3>1. ASSUME NEW v \in Agents
          PROVE  (Update!Between(v)' <=> Update!Between(v)) /\ (upPc'[v] # "idle" => upPc[v] # "idle")
      BY <1>0, <2>1 DEF Update!Between, Update!TypeOK
    <3> QED
      BY <2>1, <3>1, UpdateQuiet DEF Update!plan
  <2>3. ASSUME NEW v \in Agents PROVE Plan(v)'
    <3>1. CASE v = u
      BY <1>0, <2>1, <3>1 DEF Plan, Update!Between, UpdateSteps, Verified, Update!plan,
         Update!TypeOK
    <3>2. CASE v # u
      BY <1>0, <2>1, <3>2, PlanKept DEF Update!plan, Update!TypeOK
    <3> QED
      BY <3>1, <3>2
  <2> QED
    BY <1>0, <2>2, <2>3 DEF UInv
<1>9. ASSUME NEW u \in Agents, Update!Rollback(u) PROVE UInv'
  <2>1. Update!Between(u) /\ Update!Leave(u) /\ upFile' = upAside[u] /\ upOvertaken' = upOvertaken
    BY <1>9 DEF Update!Rollback, Update!Between, Update!observed
  <2>2. Verified(upFile')
    BY <1>0, <2>1 DEF Plan, Verified
  <2>3. OneBetween' /\ InPlace'
    BY <1>c, <2>1, <2>2 DEF OneBetween, InPlace, Verified, Sound
  <2>4. ASSUME NEW v \in Agents PROVE StillRuns(v)'
    BY <1>0, <1>c, <2>1 DEF StillRuns
  <2> QED
    BY <1>0, <1>c, <2>1, <2>3, <2>4 DEF UInv
<1>10. ASSUME NEW u \in Agents, Update!RollbackFails(u) \/ Update!Dies(u) PROVE UInv'
  <2>1. /\ Update!Between(u) /\ Update!Leave(u) /\ upStranded' = TRUE
        /\ upFile' = upFile /\ upOvertaken' = upOvertaken
    BY <1>10 DEF Update!RollbackFails, Update!Dies, Update!Between
  <2>2. upFile' = None /\ OneBetween' /\ InPlace'
    BY <1>c, <2>1 DEF OneBetween, InPlace
  <2>3. ASSUME NEW v \in Agents PROVE StillRuns(v)'
    BY <1>c, <2>1, <2>2 DEF StillRuns
  <2> QED
    BY <1>0, <1>c, <2>1, <2>2, <2>3 DEF UInv
<1>d. ASSUME UNCHANGED <<upFile, upPc, Update!plan, upOvertaken, upStranded>> PROVE UInv'
  <2>1. \A v \in Agents : Plan(v)'
    BY <1>0, <1>d, PlanKept DEF Update!plan
  <2>2. OneBetween' /\ InPlace' /\ \A v \in Agents : StillRuns(v)'
    BY <1>d, UpdateQuiet DEF Update!plan, Update!Between
  <2> QED
    BY <1>0, <2>1, <2>2 DEF UInv
<1>11. ASSUME NEW v \in Releases, Update!Publish(v) PROVE UInv'
  BY <1>11, <1>d DEF Update!Publish, Update!observed
<1>12. ASSUME NEW v \in Releases, Update!Reinstall(v) PROVE UInv'
  <2>1. /\ \A u \in Agents : ~Update!Between(u)
        /\ upFile' = Good(v) /\ UNCHANGED <<upPc, Update!plan>>
        /\ upOvertaken' = [u \in Agents |-> upPc[u] # "idle"]
    BY <1>12 DEF Update!Reinstall, Good
  <2>2. Verified(upFile') /\ \A u \in Agents : ~Update!Between(u)'
    BY <2>1, GoodProgram DEF Update!Between
  <2>3. OneBetween' /\ InPlace'
    BY <2>2 DEF OneBetween, InPlace, Verified, Sound
  <2>4. ASSUME NEW u \in Agents PROVE Plan(u)' /\ StillRuns(u)'
    <3>1. upPc'[u] # "idle" => upOvertaken'[u]
      BY <2>1
    <3> QED
      BY <1>0, <2>1, <3>1, PlanKept DEF StillRuns, Update!plan
  <2> QED
    BY <1>0, <2>3, <2>4 DEF UInv
<1>13. CASE UNCHANGED Update!vars
  BY <1>13, <1>d DEF Update!vars, Update!observed
<1> QED
  BY <1>1, <1>2, <1>3, <1>4, <1>5, <1>6, <1>7, <1>8, <1>9, <1>10, <1>11, <1>12, <1>13,
     StepOf

LEMMA UpdateInvariant == Update!Spec => []UInv
<1>1. Sound
  BY UpdateAssumption DEF Sound, Update!Programs
<1> QED
  BY <1>1, UInit, UStep, PTL DEF Update!Spec

LEMMA UpdateTypes == Update!Spec => []Update!TypeOK
<1>1. UInv => Update!TypeOK
  BY DEF UInv
<1> QED
  BY UpdateInvariant, <1>1, PTL

LEMMA UpdateBehaves == SpecPeriphery => Update!Spec
<1>1. InitPeriphery => Update!Init
  BY DEF InitPeriphery
<1>2. [NextPeriphery]_allVars => [Update!Next]_(Update!vars)
  <2>1. UNCHANGED updateVars => UNCHANGED Update!vars
    BY DEF updateVars, Update!vars, Update!releases, Update!plan, Update!observed
  <2> QED
    BY <2>1 DEF NextPeriphery, allVars
<1> QED
  BY <1>1, <1>2, PTL DEF SpecPeriphery, Update!Spec

\* However many updates there are at once, and whichever of their renames fail,
\* a verified program is at its place, or an update is about to bring it, or
\* one has died or failed twice (replaceWithRollback).
THEOREM ProgramStays == SpecPeriphery => []ProgramInPlace
<1>1. UInv => Update!ProgramInPlace
  BY DEF UInv, InPlace, Verified, Update!ProgramInPlace
<1> QED
  BY UpdateInvariant, UpdateBehaves, <1>1, PTL DEF ProgramInPlace

\* An update over a channel leads forward, or another one has come between
\* (Check, Install).
THEOREM NeverBack == SpecPeriphery => NoSilentDowngrade
<1>1. ASSUME UInv, NEW u \in Agents, upPc[u] = "activate", upFile' = upStaged[u],
             upRequest[u] # "exact", ~upOvertaken[u]
      PROVE  Update!Before(upAside[u].version, upFile'.version)
  <2>1. upStaged[u].version = upTarget[u] /\ Update!Before(upRunning[u], upTarget[u])
    BY <1>1 DEF UInv, Plan, UpdateSteps
  <2>2. upAside[u].version = upRunning[u]
    BY <1>1 DEF UInv, StillRuns, Update!Between
  <2> QED
    BY <1>1, <2>1, <2>2
<1>2. UInv /\ [Update!Next]_(Update!vars) =>
        [\A u \in Agents :
           upPc[u] = "activate" /\ upFile' = upStaged[u] /\ upAside[u] # None
             /\ upRequest[u] # "exact" /\ ~upOvertaken[u]
           => Update!Before(upAside[u].version, upFile'.version)]_(Update!vars)
  BY <1>1
<1> QED
  BY UpdateInvariant, UpdateBehaves, <1>2, PTL
  DEF Update!Spec, Update!NoSilentDowngrade, NoSilentDowngrade

-----------------------------------------------------------------------------
(* CodexApp *)

CodexStates ==
  [existed : BOOLEAN, original : CodexContents, managed : CodexContents]

CodexQuiet == UNCHANGED <<cxEdits, cxMishaps, cxDisturbed>>

\* The latest content is here, with or without Backpack's keys.
Latest(content) == content.rest = cxEdits
Foreign(content) == content.keys \notin Agents

\* What a setup notes: an original without keys of Backpack's, and a managed
\* content of the same version.
Noted(s) ==
  /\ Foreign(s.original) /\ s.managed.rest = s.original.rest
  /\ ~s.existed => s.original = Codex!Empty

\* The notes of a command under way are about the latest content.
Undisturbed ==
  /\ cxStep # "undo"
  /\ cxState # None => Noted(cxState)
  /\ cxStep # "restore" => Latest(Codex!Bytes(cxConfig))
  /\ cxStep \in {"idle", "backup", "catalog", "config"} /\ cxState = None =>
       Foreign(Codex!Bytes(cxConfig))
  /\ cxStep = "forget" => Foreign(Codex!Bytes(cxConfig))
  /\ cxStep \in {"backup", "catalog", "config", "state", "restore"} =>
       Noted(cxNew) /\ Latest(cxNew.original)
  /\ cxStep \in {"catalog", "config", "state", "restore"} =>
       Codex!Bytes(cxBackup) = cxNew.original

XInv == Codex!TypeOK /\ (~cxDisturbed => Undisturbed)

\* Codex!TypeOK, without its abbreviations.
CodexTyped ==
  /\ cxConfig \in CodexContents \cup {None} /\ cxBackup \in CodexContents \cup {None}
  /\ cxState = None \/ cxState \in CodexStates
  /\ cxNew \in CodexStates
  /\ cxStep \in {"idle", "backup", "catalog", "config", "state", "undo", "restore",
                 "forget"}
  /\ cxEdits \in 0..MaxEdits /\ cxMishaps \in 0..MaxMishaps /\ cxDisturbed \in BOOLEAN

LEMMA CodexTypesAre == Codex!TypeOK <=> CodexTyped
  BY DEF Codex!TypeOK, CodexTyped, CodexContents, CodexStates

LEMMA EmptyIsContent ==
  /\ Codex!Empty \in CodexContents
  /\ \A name \in CodexContents \cup {None} : Codex!Bytes(name) \in CodexContents
  /\ \A content \in CodexContents : Codex!Bytes(content) = content
  /\ Codex!Bytes(None) = Codex!Empty /\ Foreign(Codex!Empty) /\ Codex!Empty.rest = 0
  BY CodexAssumption DEF CodexContents, Codex!Empty, Codex!Bytes, Foreign

\* Only Backpack's keys are put in and taken out.
LEMMA ContentsPatched ==
  ASSUME NEW content \in CodexContents, NEW setup \in Agents
  PROVE  /\ Codex!Patched(content, setup) \in CodexContents
         /\ Codex!Patched(content, setup).rest = content.rest
         /\ Codex!Stripped(content) \in CodexContents
         /\ Codex!Stripped(content).rest = content.rest
         /\ Foreign(Codex!Stripped(content))
  BY CodexAssumption DEF CodexContents, Codex!Patched, Codex!Stripped, Foreign

LEMMA XInit == Codex!Init => XInv
<1> SUFFICES ASSUME Codex!Init PROVE XInv
  OBVIOUS
<1>1. cxConfig = None \/ (cxConfig \in CodexContents /\ cxConfig.rest = 0 /\ Foreign(cxConfig))
  BY CodexAssumption DEF Codex!Init, CodexContents, Foreign
<1>2. cxNew \in CodexStates
  BY EmptyIsContent DEF Codex!Init, CodexStates
<1>3. CodexTyped
  <2>1. cxDisturbed \in BOOLEAN
    BY Zenon DEF Codex!Init
  <2>2. cxEdits \in 0..MaxEdits /\ cxMishaps \in 0..MaxMishaps
    BY CodexAssumption DEF Codex!Init
  <2> QED
    BY <1>1, <1>2, <2>1, <2>2 DEF Codex!Init, CodexTyped
<1>4. Latest(Codex!Bytes(cxConfig)) /\ Foreign(Codex!Bytes(cxConfig))
  BY <1>1, EmptyIsContent DEF Codex!Init, Latest
<1> QED
  BY <1>3, <1>4, CodexTypesAre DEF Codex!Init, XInv, Undisturbed

\* What Configure is going to write.
LEMMA ConfigureNotes ==
  ASSUME CodexTyped, NEW setup \in Agents, Codex!Configure(setup)
  PROVE  /\ cxNew' \in CodexStates
         /\ cxStep = "idle" /\ cxStep' \in {"backup", "catalog"}
         /\ UNCHANGED <<cxConfig, cxBackup, cxState>> /\ CodexQuiet
         /\ Undisturbed /\ ~cxDisturbed =>
              /\ Noted(cxNew') /\ cxNew'.original.rest = cxEdits
              /\ cxStep' = "catalog" => Codex!Bytes(cxBackup) = cxNew'.original
<1> DEFINE read == Codex!Bytes(cxConfig)
           drifted == cxState # None /\ read # cxState.managed
<1>1. read \in CodexContents
  BY EmptyIsContent DEF CodexTyped
<1>2. /\ cxStep = "idle" /\ UNCHANGED <<cxConfig, cxBackup, cxState>> /\ CodexQuiet
      /\ cxState # None => Codex!Bytes(cxBackup) = cxState.original
      /\ cxStep' = IF cxState = None \/ drifted THEN "backup" ELSE "catalog"
      /\ cxNew' = [existed  |-> IF cxState = None THEN cxConfig # None
                               ELSE cxState.existed \/ drifted,
                   original |-> IF cxState = None THEN read
                                ELSE IF drifted THEN Codex!Stripped(read)
                                ELSE cxState.original,
                   managed  |-> Codex!Patched(read, setup)]
  BY DEF Codex!Configure, Codex!Quiet, CodexQuiet, Codex!files, Codex!BackupAsRecorded
<1>3. /\ cxNew'.managed = Codex!Patched(read, setup)
      /\ cxState = None => cxNew'.original = read /\ (cxNew'.existed <=> cxConfig # None)
      /\ drifted => cxNew'.original = Codex!Stripped(read) /\ cxNew'.existed
      /\ cxState # None /\ ~drifted =>
           cxNew'.original = cxState.original /\ (cxNew'.existed <=> cxState.existed)
  BY <1>2
<1>4. cxNew' \in CodexStates
  <2>1. cxState # None => cxState.existed \in BOOLEAN /\ cxState.original \in CodexContents
    BY DEF CodexTyped, CodexStates
  <2>2. Codex!Patched(read, setup) \in CodexContents /\ Codex!Stripped(read) \in CodexContents
    BY <1>1, ContentsPatched
  <2> HIDE DEF read
  <2>3. /\ (IF cxState = None THEN cxConfig # None ELSE cxState.existed \/ drifted) \in BOOLEAN
        /\ (IF cxState = None THEN read
            ELSE IF drifted THEN Codex!Stripped(read) ELSE cxState.original) \in CodexContents
    BY <1>1, <2>1, <2>2
  <2> QED
    BY <1>2, <2>2, <2>3 DEF CodexStates, read
<1>5. ASSUME Undisturbed, ~cxDisturbed
      PROVE  /\ Noted(cxNew') /\ cxNew'.original.rest = cxEdits
             /\ cxStep' = "catalog" => Codex!Bytes(cxBackup) = cxNew'.original
  <2>1. read.rest = cxEdits /\ cxNew'.managed.rest = cxEdits
    BY <1>1, <1>2, <1>3, <1>5, ContentsPatched DEF Undisturbed, Latest
  <2>2. CASE cxState = None
    <3>1. Foreign(read)
      BY <1>2, <1>5, <2>2 DEF Undisturbed
    <3>2. ~cxNew'.existed => read = Codex!Empty
      BY <1>3, <2>2, EmptyIsContent
    <3> QED
      BY <1>2, <1>3, <2>1, <2>2, <3>1, <3>2 DEF Noted
  <2>3. CASE drifted
    BY <1>1, <1>2, <1>3, <2>1, <2>3, ContentsPatched DEF Noted
  <2>4. CASE cxState # None /\ ~drifted
    <3>1. Noted(cxState) /\ cxState.managed = read
      BY <1>5, <2>4 DEF Undisturbed
    <3> QED
      BY <1>2, <1>3, <2>1, <2>4, <3>1 DEF Noted
  <2> QED
    BY <2>2, <2>3, <2>4
<1> QED
  BY <1>2, <1>4, <1>5

LEMMA XStep == XInv /\ [Codex!Next]_(Codex!vars) => XInv'
<1> SUFFICES ASSUME XInv, [Codex!Next]_(Codex!vars) PROVE XInv'
  OBVIOUS
<1>0. CodexTyped /\ (~cxDisturbed => Undisturbed)
  BY CodexTypesAre DEF XInv
<1>t. CodexTyped' /\ (~cxDisturbed' => Undisturbed') => XInv'
  BY DEF XInv, Codex!TypeOK, CodexTyped, CodexContents, CodexStates
<1>1. ASSUME NEW setup \in Agents, Codex!Configure(setup) PROVE XInv'
  <2>1. /\ cxNew' \in CodexStates
        /\ cxStep = "idle" /\ cxStep' \in {"backup", "catalog"}
        /\ UNCHANGED <<cxConfig, cxBackup, cxState>> /\ CodexQuiet
        /\ Undisturbed /\ ~cxDisturbed =>
             /\ Noted(cxNew') /\ cxNew'.original.rest = cxEdits
             /\ cxStep' = "catalog" => Codex!Bytes(cxBackup) = cxNew'.original
    BY <1>0, <1>1, ConfigureNotes
  <2>2. CodexTyped'
    BY <1>0, <2>1 DEF CodexTyped, CodexQuiet
  <2>3. ~cxDisturbed' => Undisturbed'
    BY <1>0, <2>1 DEF Undisturbed, CodexQuiet, Noted, Latest, Foreign
  <2> QED
    BY <1>t, <2>2, <2>3
<1>2. ASSUME Codex!Refused \/ UNCHANGED Codex!vars PROVE XInv'
  BY <1>0, <1>2, <1>t DEF Codex!Refused, Codex!vars, Codex!files, CodexTyped, Undisturbed,
     Noted, Latest, Foreign
<1>3. ASSUME Codex!WriteBackup PROVE XInv'
  <2>1. /\ cxStep = "backup" /\ cxStep' = "catalog" /\ cxBackup' = cxNew.original
        /\ UNCHANGED <<cxConfig, cxState, cxNew>> /\ CodexQuiet
        /\ cxNew.original \in CodexContents
    BY <1>0, <1>3 DEF Codex!WriteBackup, Codex!Quiet, CodexQuiet, CodexTyped, CodexStates
  <2>2. Codex!Bytes(cxBackup') = cxNew.original
    BY <2>1, EmptyIsContent
  <2>3. CodexTyped'
    BY <1>0, <2>1 DEF CodexTyped, CodexQuiet
  <2>4. ~cxDisturbed' => Undisturbed'
    BY <1>0, <2>1, <2>2 DEF Undisturbed, CodexQuiet, Noted, Latest, Foreign
  <2> QED
    BY <1>t, <2>3, <2>4
<1>4. ASSUME Codex!WriteCatalog PROVE XInv'
  <2>1. /\ cxStep = "catalog" /\ cxStep' = "config"
        /\ UNCHANGED <<cxConfig, cxBackup, cxState, cxNew>> /\ CodexQuiet
    BY <1>4 DEF Codex!WriteCatalog, Codex!Quiet, CodexQuiet, Codex!files
  <2>2. CodexTyped'
    BY <1>0, <2>1 DEF CodexTyped, CodexQuiet
  <2>3. ~cxDisturbed' => Undisturbed'
    BY <1>0, <2>1 DEF Undisturbed, CodexQuiet, Noted, Latest, Foreign
  <2> QED
    BY <1>t, <2>2, <2>3
<1>5. ASSUME Codex!WriteConfig PROVE XInv'
  <2>1. /\ cxStep = "config" /\ cxStep' = "state" /\ cxConfig' = cxNew.managed
        /\ UNCHANGED <<cxBackup, cxState, cxNew>> /\ CodexQuiet
        /\ cxNew.managed \in CodexContents
    BY <1>0, <1>5 DEF Codex!WriteConfig, Codex!Quiet, CodexQuiet, CodexTyped, CodexStates
  <2>2. Codex!Bytes(cxConfig') = cxNew.managed
    BY <2>1, EmptyIsContent
  <2>3. CodexTyped'
    BY <1>0, <2>1 DEF CodexTyped, CodexQuiet
  <2>4. ~cxDisturbed' => Undisturbed'
    BY <1>0, <2>1, <2>2 DEF Undisturbed, CodexQuiet, Noted, Latest, Foreign
  <2> QED
    BY <1>t, <2>3, <2>4
<1>6. ASSUME Codex!WriteState PROVE XInv'
  <2>1. /\ cxStep = "state" /\ cxStep' = "idle" /\ cxState' = cxNew
        /\ UNCHANGED <<cxConfig, cxBackup, cxNew>> /\ CodexQuiet
        /\ cxNew \in CodexStates /\ cxNew # None
    BY <1>0, <1>6, CodexAssumption DEF Codex!WriteState, Codex!Quiet, CodexQuiet,
       CodexTyped, CodexStates
  <2>2. CodexTyped'
    BY <1>0, <2>1 DEF CodexTyped, CodexQuiet
  <2>3. ~cxDisturbed' => Undisturbed'
    BY <1>0, <2>1 DEF Undisturbed, CodexQuiet, Noted, Latest, Foreign
  <2> QED
    BY <1>t, <2>2, <2>3
<1>7. ASSUME Codex!Restore PROVE XInv'
  <2>1. /\ cxStep = "idle" /\ cxStep' = "restore" /\ cxNew' = cxState /\ cxState # None
        /\ UNCHANGED <<cxConfig, cxBackup, cxState>> /\ CodexQuiet
        /\ Codex!Bytes(cxConfig) = cxState.managed
        /\ Codex!Bytes(cxBackup) = cxState.original
    BY <1>7 DEF Codex!Restore, Codex!Quiet, CodexQuiet, Codex!files,
       Codex!BackupAsRecorded
  <2>2. CodexTyped'
    BY <1>0, <2>1 DEF CodexTyped, CodexQuiet
  <2>3. ~cxDisturbed' => Undisturbed'
    BY <1>0, <2>1 DEF Undisturbed, CodexQuiet, Noted, Latest, Foreign
  <2> QED
    BY <1>t, <2>2, <2>3
<1>8. ASSUME Codex!PutBack PROVE XInv'
  <2>1. /\ cxStep = "restore" /\ cxStep' = "forget"
        /\ cxConfig' = IF cxNew.existed THEN Codex!Bytes(cxBackup) ELSE None
        /\ UNCHANGED <<cxBackup, cxState, cxNew>> /\ CodexQuiet
    BY <1>8 DEF Codex!PutBack, Codex!Quiet, CodexQuiet
  <2>2. CodexTyped'
    BY <1>0, <2>1, EmptyIsContent DEF CodexTyped, CodexQuiet
  <2>3. ASSUME ~cxDisturbed' PROVE Undisturbed'
    <3>1. Undisturbed /\ Noted(cxNew) /\ Latest(cxNew.original)
          /\ Codex!Bytes(cxBackup) = cxNew.original /\ cxNew.original \in CodexContents
      BY <1>0, <2>1, <2>3 DEF Undisturbed, CodexQuiet, CodexTyped, CodexStates
    <3>2. Codex!Bytes(cxConfig') = cxNew.original
      BY <2>1, <3>1, EmptyIsContent DEF Noted
    <3> QED
      BY <2>1, <3>1, <3>2 DEF Undisturbed, CodexQuiet, Noted, Latest, Foreign
  <2> QED
    BY <1>t, <2>2, <2>3
<1>9. ASSUME Codex!Forget PROVE XInv'
  <2>1. /\ cxStep = "forget" /\ cxStep' = "idle" /\ cxState' = None
        /\ UNCHANGED <<cxConfig, cxBackup, cxNew>> /\ CodexQuiet
    BY <1>9 DEF Codex!Forget, Codex!Quiet, CodexQuiet
  <2>2. CodexTyped'
    BY <1>0, <2>1 DEF CodexTyped, CodexQuiet
  <2>3. ~cxDisturbed' => Undisturbed'
    BY <1>0, <2>1 DEF Undisturbed, CodexQuiet, Noted, Latest, Foreign
  <2> QED
    BY <1>t, <2>2, <2>3
<1>10. ASSUME NEW keys \in {"user", Codex!Bytes(cxConfig).keys}, Codex!Edit(keys)
       PROVE XInv'
  <2>1. /\ cxEdits < MaxEdits /\ cxEdits' = cxEdits + 1
        /\ cxConfig' = [keys |-> keys, rest |-> cxEdits + 1]
        /\ cxDisturbed' = (cxDisturbed \/ cxStep # "idle")
        /\ UNCHANGED <<cxBackup, cxState, cxStep, cxNew, cxMishaps>>
    BY <1>10 DEF Codex!Edit
  <2>2. cxEdits' \in 0..MaxEdits /\ cxConfig' \in CodexContents
    <3>1. cxEdits' \in 0..MaxEdits
      BY <1>0, <2>1, CodexAssumption DEF CodexTyped
    <3>2. Codex!Bytes(cxConfig) \in CodexContents
      BY <1>0, EmptyIsContent DEF CodexTyped
    <3>3. keys \in Agents \cup {"user", "none"}
      BY <3>2 DEF CodexContents
    <3> QED
      BY <2>1, <3>1, <3>3 DEF CodexContents
  <2>3. CodexTyped'
    <3>1. cxDisturbed' \in BOOLEAN
      BY <1>0, <2>1, Zenon DEF CodexTyped
    <3> QED
      BY <1>0, <2>1, <2>2, <3>1 DEF CodexTyped
  <2>4. ASSUME ~cxDisturbed' PROVE Undisturbed'
    <3>1. Undisturbed /\ cxStep = "idle"
      BY <1>0, <2>1, <2>4
    <3>2. Codex!Bytes(cxConfig') = [keys |-> keys, rest |-> cxEdits + 1]
      BY <2>1, <2>2, EmptyIsContent
    <3>3. cxState = None => keys \notin Agents
      BY <3>1, CodexAssumption DEF Undisturbed, Foreign
    <3> QED
      BY <2>1, <3>1, <3>2, <3>3 DEF Undisturbed, Noted, Latest, Foreign
  <2> QED
    BY <1>t, <2>3, <2>4
<1>11. ASSUME Codex!WriteFails \/ Codex!Die PROVE XInv'
  <2>1. /\ cxDisturbed' = TRUE /\ cxMishaps < MaxMishaps /\ cxMishaps' = cxMishaps + 1
        /\ cxStep' \in {"idle", "undo"} /\ UNCHANGED <<cxNew, cxEdits>>
        /\ cxConfig' \in {cxConfig, None} /\ cxBackup' \in {cxBackup, None}
        /\ cxState' \in {cxState, None}
    BY <1>11 DEF Codex!WriteFails, Codex!Die, Codex!CutShort, Codex!Mishap, Codex!files
  <2>2. cxMishaps' \in 0..MaxMishaps
    BY <1>0, <2>1, CodexAssumption DEF CodexTyped
  <2>3. cxDisturbed' \in BOOLEAN
    BY <2>1, Zenon
  <2>4. CodexTyped'
    BY <1>0, <2>1, <2>2, <2>3 DEF CodexTyped
  <2> QED
    BY <1>t, <2>1, <2>4
<1>12. ASSUME Codex!Undo PROVE XInv'
  <2>1. /\ cxStep = "undo" /\ cxStep' = "idle"
        /\ cxConfig' = IF cxNew.existed THEN Codex!Bytes(cxBackup) ELSE None
        /\ UNCHANGED <<cxBackup, cxState, cxNew>> /\ CodexQuiet
    BY <1>12 DEF Codex!Undo, Codex!Quiet, CodexQuiet
  <2>2. CodexTyped'
    BY <1>0, <2>1, EmptyIsContent DEF CodexTyped, CodexQuiet
  <2>3. cxDisturbed'
    BY <1>0, <2>1 DEF Undisturbed, CodexQuiet
  <2> QED
    BY <1>t, <2>2, <2>3
<1> QED
  BY <1>1, <1>2, <1>3, <1>4, <1>5, <1>6, <1>7, <1>8, <1>9, <1>10, <1>11, <1>12
  DEF Codex!Next

LEMMA CodexInvariant == Codex!Spec => []XInv
  BY XInit, XStep, PTL DEF Codex!Spec

LEMMA CodexBehaves == SpecPeriphery => Codex!Spec
<1>1. InitPeriphery => Codex!Init
  BY DEF InitPeriphery
<1>2. [NextPeriphery]_allVars => [Codex!Next]_(Codex!vars)
  <2>1. UNCHANGED codexVars => UNCHANGED Codex!vars
    BY DEF codexVars, Codex!vars, Codex!files
  <2> QED
    BY <2>1 DEF NextPeriphery, allVars
<1> QED
  BY <1>1, <1>2, PTL DEF SpecPeriphery, Codex!Spec

\* After any series of setups, edits and setups again, a Restore that nothing
\* disturbs leaves the latest edit and none of Backpack's keys
\* (ConfigureCodexApp, RestoreCodexApp).
THEOREM CodexGivesBack == SpecPeriphery => CodexRestored
<1>1. ASSUME XInv, Codex!Forget, ~cxDisturbed
      PROVE  /\ Codex!Bytes(cxConfig).keys \notin Agents
             /\ Codex!Bytes(cxConfig).rest = cxEdits
  BY <1>1 DEF XInv, Undisturbed, Codex!Forget, Foreign, Latest
<1>2. XInv /\ [Codex!Next]_(Codex!vars) =>
        [Codex!Forget /\ ~cxDisturbed =>
           /\ Codex!Bytes(cxConfig).keys \notin Agents
           /\ Codex!Bytes(cxConfig).rest = cxEdits]_(Codex!vars)
  BY <1>1
<1> QED
  BY CodexInvariant, CodexBehaves, <1>2, PTL DEF Codex!Spec, Codex!CodexRestored,
     CodexRestored

-----------------------------------------------------------------------------
(* ClaudeApp *)

ClaudeEntries == [before : ClaudeContents \cup {None}, managed : ClaudeContents]

ClaudeQuiet == UNCHANGED <<clChanges, clTroubles, clUpset>>

\* A file without a field of Backpack's, and the version of a file.
Plain(content) == content = None \/ content.fields \in {"user", "none"}
Version(content) == IF content = None THEN 0 ELSE content.rest

\* What is saved of a file restores it: the app cannot have changed a profile,
\* and Backpack has not.
SavedWell(f, entry) ==
  Plain(entry.before) /\ (f \notin Modes => entry.managed.rest = Version(entry.before))

\* ClaudeApp's type invariant, without its abbreviations, and what a command
\* needs of it.
ClaudeTyped ==
  /\ clText \in [Claude!Files -> ClaudeContents \cup {None}]
  /\ clSaved = None \/ clSaved \in [Claude!Files -> ClaudeEntries]
  /\ clRecord = None \/ clRecord \in [Claude!Files -> ClaudeEntries]
  /\ clDoing \in {"idle", "configure", "save", "restore", "forget"}
  /\ clAt \in Claude!Files /\ clRoute \in Agents \cup {None}
  /\ clChanges \in 0..MaxChanges /\ clTroubles \in 0..MaxTroubles /\ clUpset \in BOOLEAN

UnderWay ==
  /\ clDoing \in {"configure", "save"} => clRoute \in Agents
  /\ clDoing = "save" => clRecord # None
  /\ clDoing = "restore" =>
       clSaved # None /\ \A f \in Claude!Files : f >= clAt => clText[f] # None

\* The files while nothing has disturbed a command: from clAt on they are still
\* what the command has found, before it they are done.
Newest ==
  clChanges > 0 => \E f \in Claude!Files : Version(clText[f]) = clChanges

Configuring ==
  \A f \in Claude!Files :
    /\ f >= clAt /\ clSaved = None => Plain(clText[f])
    /\ f >= clAt /\ clSaved # None /\ f \notin Modes => clText[f] = clSaved[f].managed
    /\ f < clAt => clRecord # None /\ SavedWell(f, clRecord[f])

Restoring ==
  \A f \in Claude!Files :
    /\ f >= clAt /\ f \notin Modes => clText[f] = clSaved[f].managed
    /\ f < clAt => Plain(clText[f])

Smooth ==
  /\ Newest
  /\ clSaved # None => \A f \in Claude!Files : SavedWell(f, clSaved[f])
  /\ clDoing = "idle" /\ clSaved = None => \A f \in Claude!Files : Plain(clText[f])
  /\ clDoing = "configure" => Configuring
  /\ clDoing = "save" => \A f \in Claude!Files : SavedWell(f, clRecord[f])
  /\ clDoing = "restore" => Restoring
  /\ clDoing = "forget" => \A f \in Claude!Files : Plain(clText[f])

YInv == ClaudeTyped /\ UnderWay /\ (~clUpset => Smooth)

LEMMA ClaudeTypesAre == ClaudeTyped => Claude!TypeOK
  BY DEF Claude!TypeOK, ClaudeTyped, ClaudeContents, ClaudeEntries

LEMMA FilesAreNumbered ==
  /\ Claude!First \in Claude!Files /\ Claude!Last \in Claude!Files
  /\ Claude!Files \subseteq Nat
  /\ \A f \in Claude!Files : Claude!First <= f /\ f <= Claude!Last
  /\ \A f \in Claude!Files \ {Claude!Last} : f + 1 \in Claude!Files
<1>1. PICK n \in Nat \ {0} : Claude!Files = 1..n
  <2>1. Cardinality(Claude!Files) \in Nat /\ Claude!Files = 1..Cardinality(Claude!Files)
    BY ClaudeAssumption, FS_CardinalityType DEF Claude!Files
  <2>2. Cardinality(Claude!Files) # 0
    BY <2>1, ClaudeAssumption DEF Claude!Files
  <2> QED
    BY <2>1, <2>2
<1>2. \E f \in Claude!Files : \A g \in Claude!Files : g >= f
  <2>1. 1 \in Claude!Files /\ \A g \in Claude!Files : g >= 1
    BY <1>1
  <2> QED
    BY <2>1
<1>3. \E f \in Claude!Files : \A g \in Claude!Files : g <= f
  <2>1. n \in Claude!Files /\ \A g \in Claude!Files : g <= n
    BY <1>1
  <2> QED
    BY <2>1
<1>4. Claude!First \in Claude!Files /\ \A g \in Claude!Files : g >= Claude!First
  BY <1>2 DEF Claude!First
<1>5. Claude!Last \in Claude!Files /\ \A g \in Claude!Files : g <= Claude!Last
  BY <1>3 DEF Claude!Last
<1> QED
  BY <1>1, <1>4, <1>5

\* A file that is missing reads as an empty one.
LEMMA ReadIs ==
  ASSUME ClaudeTyped, NEW f \in Claude!Files
  PROVE  /\ Claude!Read(f) \in ClaudeContents
         /\ Claude!Read(f).rest = Version(clText[f])
         /\ Claude!Read(f).fields \in {"user", "none"} <=> Plain(clText[f])
         /\ Claude!Read(f) # None
  BY ClaudeAssumption DEF ClaudeTyped, ClaudeContents, Claude!Read, Claude!Blank, Version,
     Plain

LEMMA EditedIs ==
  ASSUME NEW f, NEW content \in ClaudeContents, clRoute \in Agents
  PROVE  /\ Claude!Edited(f, content) \in ClaudeContents
         /\ Claude!Edited(f, content).rest = content.rest
  BY DEF ClaudeContents, Claude!Edited

LEMMA YInit == Claude!Init => YInv
<1> SUFFICES ASSUME Claude!Init PROVE YInv
  OBVIOUS
<1>1. clText \in [Claude!Files -> ClaudeContents \cup {None}]
      /\ \A f \in Claude!Files : Plain(clText[f])
  BY ClaudeAssumption DEF Claude!Init, ClaudeContents, Plain
<1>2. clUpset \in BOOLEAN
  BY Zenon DEF Claude!Init
<1>3. ClaudeTyped
  BY <1>1, <1>2, FilesAreNumbered, ClaudeAssumption DEF Claude!Init, ClaudeTyped
<1>4. UnderWay /\ Smooth
  BY <1>1 DEF Claude!Init, UnderWay, Smooth, Newest
<1> QED
  BY <1>3, <1>4 DEF YInv

\* A command that goes through the files leaves the version of each one alone.
LEMMA NewestKept ==
  ASSUME Newest, \A f \in Claude!Files : Version(clText'[f]) = Version(clText[f]),
         clChanges' = clChanges
  PROVE  Newest'
  BY DEF Newest

\* The file after clAt is the next one.
LEMMA NextFileIs ==
  ASSUME ClaudeTyped, NEW finish, Claude!NextFile(finish)
  PROVE  /\ clAt' \in Claude!Files
         /\ clDoing' = clDoing \/ clDoing' = finish
         /\ clDoing' # finish =>
              \A f \in Claude!Files : /\ f >= clAt' <=> f >= clAt /\ f # clAt
                                      /\ f < clAt' <=> f < clAt \/ f = clAt
         /\ clDoing # clDoing' =>
              \A f \in Claude!Files : f < clAt \/ f = clAt
<1>1. clAt \in Claude!Files /\ clAt \in Nat
  BY FilesAreNumbered DEF ClaudeTyped
<1>2. CASE clAt = Claude!Last
  BY <1>1, <1>2, FilesAreNumbered DEF Claude!NextFile
<1>3. CASE clAt # Claude!Last
  <2>1. clAt' = clAt + 1 /\ clDoing' = clDoing /\ clAt + 1 \in Claude!Files
    BY <1>1, <1>3, FilesAreNumbered DEF Claude!NextFile
  <2>2. ASSUME NEW f \in Claude!Files
        PROVE  /\ f >= clAt + 1 <=> f >= clAt /\ f # clAt
               /\ f < clAt + 1 <=> f < clAt \/ f = clAt
    BY <1>1, FilesAreNumbered
  <2> QED
    BY <2>1, <2>2
<1> QED
  BY <1>2, <1>3

LEMMA MutateKeeps ==
  ASSUME YInv, Claude!Mutate
  PROVE  YInv'
<1> DEFINE made == Claude!Edited(clAt, Claude!Read(clAt))
           entry == [before |-> IF clSaved = None THEN clText[clAt] ELSE clSaved[clAt].before,
                     managed |-> made]
<1>0. /\ ClaudeTyped /\ clDoing = "configure" /\ clRoute \in Agents
      /\ clAt \in Claude!Files /\ (~clUpset => Smooth)
  BY DEF YInv, ClaudeTyped, UnderWay, Claude!Mutate
<1>1. /\ made \in ClaudeContents /\ made # None
      /\ made.rest = Version(clText[clAt]) /\ Version(made) = made.rest
  BY <1>0, ReadIs, EditedIs, ClaudeAssumption DEF Version
<1>2. /\ clText' = [clText EXCEPT ![clAt] = made]
      /\ UNCHANGED <<clSaved, clRoute>> /\ ClaudeQuiet
      /\ Claude!NextFile("save")
  BY DEF Claude!Mutate, Claude!Calm, ClaudeQuiet
<1> HIDE DEF made
<1>3. /\ clText' \in [Claude!Files -> ClaudeContents \cup {None}]
      /\ clText'[clAt] = made
      /\ \A f \in Claude!Files \ {clAt} : clText'[f] = clText[f]
  BY <1>0, <1>1, <1>2 DEF ClaudeTyped
<1>4. entry \in ClaudeEntries
  <2>1. clSaved # None => clSaved[clAt].before \in ClaudeContents \cup {None}
    BY <1>0 DEF ClaudeTyped, ClaudeEntries
  <2>2. clText[clAt] \in ClaudeContents \cup {None}
    BY <1>0 DEF ClaudeTyped
  <2>3. (IF clSaved = None THEN clText[clAt] ELSE clSaved[clAt].before)
          \in ClaudeContents \cup {None}
    BY <2>1, <2>2
  <2> QED
    BY <1>1, <2>3 DEF ClaudeEntries
<1>5. /\ entry.managed = made
      /\ clSaved = None => entry.before = clText[clAt]
      /\ clSaved # None => entry.before = clSaved[clAt].before
  OBVIOUS
<1>6. clRecord' = [f \in Claude!Files |->
        IF f = clAt THEN entry
        ELSE IF clRecord = None THEN [before |-> None, managed |-> Claude!Blank]
        ELSE clRecord[f]]
  <2>1. clRecord' = [f \in Claude!Files |->
          IF f = clAt
          THEN [before  |-> IF clSaved = None THEN clText[f] ELSE clSaved[f].before,
                managed |-> clText'[f]]
          ELSE IF clRecord = None THEN [before |-> None, managed |-> Claude!Blank]
          ELSE clRecord[f]]
    BY DEF Claude!Mutate
  <2> QED
    BY <1>3, <2>1
<1> HIDE DEF entry
<1>7. /\ clRecord' \in [Claude!Files -> ClaudeEntries] /\ clRecord' # None
      /\ clRecord'[clAt] = entry
      /\ \A f \in Claude!Files \ {clAt} : clRecord # None => clRecord'[f] = clRecord[f]
  <2>1. [before |-> None, managed |-> Claude!Blank] \in ClaudeEntries
    BY ClaudeAssumption DEF ClaudeEntries, ClaudeContents, Claude!Blank
  <2>2. clRecord' \in [Claude!Files -> ClaudeEntries]
    BY <1>0, <1>4, <1>6, <2>1 DEF ClaudeTyped
  <2>3. clRecord' # None
    BY <2>2, ClaudeAssumption DEF Claude!Files, ClaudeEntries
  <2> QED
    BY <1>0, <1>6, <2>2, <2>3
<1>8. /\ clAt' \in Claude!Files /\ clDoing' \in {"configure", "save"}
      /\ clDoing' # "save" =>
           \A f \in Claude!Files : /\ f >= clAt' <=> f >= clAt /\ f # clAt
                                   /\ f < clAt' <=> f < clAt \/ f = clAt
      /\ clDoing' = "save" => \A f \in Claude!Files : f < clAt \/ f = clAt
  BY <1>0, <1>2, NextFileIs
<1>9. ClaudeTyped' /\ UnderWay'
  BY <1>0, <1>2, <1>3, <1>7, <1>8 DEF ClaudeTyped, UnderWay, ClaudeQuiet
<1>10. ASSUME ~clUpset' PROVE Smooth'
  <2>0. Smooth /\ Configuring
    BY <1>0, <1>2, <1>10 DEF ClaudeQuiet, Smooth
  <2>1. Newest'
    <3>1. \A f \in Claude!Files : Version(clText'[f]) = Version(clText[f])
      BY <1>1, <1>3
    <3> QED
      BY <1>2, <2>0, <3>1, NewestKept DEF Smooth, ClaudeQuiet
  <2>2. SavedWell(clAt, entry)
    <3>0. clAt >= clAt
      BY <1>0, FilesAreNumbered
    <3>1. CASE clSaved = None
      BY <1>0, <1>1, <1>5, <2>0, <3>0, <3>1 DEF Configuring, SavedWell
    <3>2. CASE clSaved # None
      <4>1. SavedWell(clAt, clSaved[clAt])
        BY <1>0, <2>0, <3>2 DEF Smooth
      <4>2. clAt \notin Modes => made.rest = clSaved[clAt].managed.rest
        <5>1. clSaved[clAt].managed # None
          BY <1>0, <3>2, ClaudeAssumption DEF ClaudeTyped, ClaudeEntries
        <5> QED
          BY <1>0, <1>1, <2>0, <3>0, <3>2, <5>1 DEF Configuring, Version
      <4> QED
        BY <1>5, <3>2, <4>1, <4>2 DEF SavedWell
    <3> QED
      BY <3>1, <3>2
  <2>3. ASSUME NEW f \in Claude!Files, f < clAt \/ f = clAt
        PROVE  SavedWell(f, clRecord'[f])
    BY <1>7, <2>0, <2>2, <2>3 DEF Configuring
  <2>4. clDoing' = "configure" => Configuring'
    BY <1>2, <1>3, <1>7, <1>8, <2>0, <2>3 DEF Configuring, SavedWell, Plain, Version
  <2>5. clDoing' = "save" => \A f \in Claude!Files : SavedWell(f, clRecord'[f])
    BY <1>8, <2>3
  <2> QED
    BY <1>2, <1>8, <2>0, <2>1, <2>4, <2>5 DEF Smooth, SavedWell, Plain, Version
<1> QED
  BY <1>9, <1>10 DEF YInv

LEMMA PutBackKeeps ==
  ASSUME YInv, Claude!PutBack
  PROVE  YInv'
<1> DEFINE before == clSaved[clAt].before
           back == IF clAt \notin Modes THEN before
                   ELSE [clText[clAt] EXCEPT !.fields =
                           IF before = None THEN "none" ELSE before.fields]
<1>0. /\ ClaudeTyped /\ clDoing = "restore" /\ clSaved # None
      /\ clAt \in Claude!Files /\ (~clUpset => Smooth)
      /\ \A f \in Claude!Files : f >= clAt => clText[f] # None
  BY DEF YInv, ClaudeTyped, UnderWay, Claude!PutBack
<1>1. /\ clText' = [clText EXCEPT ![clAt] = back]
      /\ UNCHANGED <<clSaved, clRoute, clRecord>> /\ ClaudeQuiet
      /\ Claude!NextFile("forget")
  BY DEF Claude!PutBack, Claude!Calm, ClaudeQuiet
<1>2. /\ before \in ClaudeContents \cup {None} /\ clText[clAt] \in ClaudeContents
  BY <1>0, FilesAreNumbered DEF ClaudeTyped, ClaudeEntries
<1>3. back \in ClaudeContents \cup {None}
  BY <1>2 DEF ClaudeContents
<1>4. clAt \in Modes => /\ back \in ClaudeContents /\ back.rest = clText[clAt].rest
                        /\ back.fields = IF before = None THEN "none" ELSE before.fields
  BY <1>2 DEF ClaudeContents
<1>5. clAt \notin Modes => back = before
  OBVIOUS
<1> HIDE DEF back, before
<1>6. /\ clText' \in [Claude!Files -> ClaudeContents \cup {None}]
      /\ clText'[clAt] = back
      /\ \A f \in Claude!Files \ {clAt} : clText'[f] = clText[f]
  BY <1>0, <1>1, <1>3 DEF ClaudeTyped
<1>7. /\ clAt' \in Claude!Files /\ clDoing' \in {"restore", "forget"}
      /\ clDoing' # "forget" =>
           \A f \in Claude!Files : /\ f >= clAt' <=> f >= clAt /\ f # clAt
                                   /\ f < clAt' <=> f < clAt \/ f = clAt
      /\ clDoing' = "forget" => \A f \in Claude!Files : f < clAt \/ f = clAt
  BY <1>0, <1>1, NextFileIs
<1>8. ClaudeTyped' /\ UnderWay'
  BY <1>0, <1>1, <1>6, <1>7 DEF ClaudeTyped, UnderWay, ClaudeQuiet
<1>9. ASSUME ~clUpset' PROVE Smooth'
  <2>0. Smooth /\ Restoring /\ SavedWell(clAt, clSaved[clAt]) /\ clAt >= clAt
    BY <1>0, <1>1, <1>9, FilesAreNumbered DEF ClaudeQuiet, Smooth
  <2>1. Plain(back)
    <3>1. Plain(before)
      BY <2>0 DEF SavedWell, before
    <3> QED
      BY <1>4, <1>5, <3>1 DEF Plain
  <2>2. Version(back) = Version(clText[clAt])
    <3>1. CASE clAt \in Modes
      <4>1. back # None /\ clText[clAt] # None
        BY <1>2, <1>4, <3>1, ClaudeAssumption
      <4> QED
        BY <1>4, <3>1, <4>1 DEF Version
    <3>2. CASE clAt \notin Modes
      <4>1. clText[clAt] = clSaved[clAt].managed /\ clText[clAt] # None
        BY <1>0, <2>0, <3>2 DEF Restoring
      <4>2. clSaved[clAt].managed.rest = Version(before)
        BY <2>0, <3>2 DEF SavedWell, before
      <4> QED
        BY <1>5, <3>2, <4>1, <4>2 DEF Version
    <3> QED
      BY <3>1, <3>2
  <2>3. Newest'
    <3>1. \A f \in Claude!Files : Version(clText'[f]) = Version(clText[f])
      BY <1>6, <2>2
    <3> QED
      BY <1>1, <2>0, <3>1, NewestKept DEF Smooth, ClaudeQuiet
  <2>4. ASSUME NEW f \in Claude!Files, f < clAt \/ f = clAt
        PROVE  Plain(clText'[f])
    BY <1>6, <2>0, <2>1, <2>4 DEF Restoring
  <2>5. clDoing' = "restore" => Restoring'
    BY <1>1, <1>6, <1>7, <2>0, <2>4 DEF Restoring, Plain
  <2>6. clDoing' = "forget" => \A f \in Claude!Files : Plain(clText'[f])
    BY <1>7, <2>4
  <2> QED
    BY <1>1, <1>7, <2>0, <2>3, <2>5, <2>6 DEF Smooth, SavedWell, Plain, Version
<1> QED
  BY <1>8, <1>9 DEF YInv

LEMMA YStep == YInv /\ [Claude!Next]_(Claude!vars) => YInv'
<1> SUFFICES ASSUME YInv, [Claude!Next]_(Claude!vars) PROVE YInv'
  OBVIOUS
<1>0. ClaudeTyped /\ UnderWay /\ (~clUpset => Smooth)
  BY DEF YInv
<1>1. ASSUME NEW r \in Agents, Claude!Configure(r) PROVE YInv'
  <2>1. /\ clDoing = "idle" /\ clDoing' = "configure" /\ clAt' = Claude!First
        /\ clRoute' = r /\ clRecord' = clSaved
        /\ UNCHANGED <<clText, clSaved>> /\ ClaudeQuiet
        /\ clSaved # None => \A f \in Claude!Files : Claude!Untouched(f)
    BY <1>1 DEF Claude!Configure, Claude!Calm, ClaudeQuiet
  <2>2. \A f \in Claude!Files : clAt' <= f /\ ~(f < clAt')
    BY <2>1, FilesAreNumbered
  <2>3. ClaudeTyped' /\ UnderWay'
    BY <1>0, <2>1, FilesAreNumbered DEF ClaudeTyped, UnderWay, ClaudeQuiet
  <2>4. ~clUpset' => Smooth'
    BY <1>0, <2>1, <2>2 DEF Smooth, Configuring, Newest, SavedWell, Plain, Version,
       ClaudeQuiet, Claude!Untouched
  <2> QED
    BY <2>3, <2>4 DEF YInv
<1>2. ASSUME Claude!Save PROVE YInv'
  <2>1. /\ clDoing = "save" /\ clDoing' = "idle" /\ clAt' = Claude!First
        /\ clRecord' = None /\ clSaved' = clRecord /\ clSaved' # None
        /\ UNCHANGED <<clText, clRoute>> /\ ClaudeQuiet
    BY <1>0, <1>2 DEF Claude!Save, Claude!Done, Claude!Calm, ClaudeQuiet, UnderWay
  <2>2. ClaudeTyped' /\ UnderWay'
    BY <1>0, <2>1, FilesAreNumbered DEF ClaudeTyped, UnderWay, ClaudeQuiet
  <2>3. ~clUpset' => Smooth'
    BY <1>0, <2>1 DEF Smooth, Newest, SavedWell, Plain, Version, ClaudeQuiet
  <2> QED
    BY <2>2, <2>3 DEF YInv
<1>3. ASSUME Claude!Restore PROVE YInv'
  <2>1. /\ clDoing = "idle" /\ clDoing' = "restore" /\ clAt' = Claude!First
        /\ clSaved # None
        /\ UNCHANGED <<clText, clSaved, clRoute, clRecord>> /\ ClaudeQuiet
        /\ \A f \in Claude!Files : Claude!Untouched(f)
    BY <1>3 DEF Claude!Restore, Claude!Calm, ClaudeQuiet
  <2>2. \A f \in Claude!Files : clAt' <= f /\ ~(f < clAt')
    BY <2>1, FilesAreNumbered
  <2>3. ClaudeTyped' /\ UnderWay'
    BY <1>0, <2>1, FilesAreNumbered DEF ClaudeTyped, UnderWay, ClaudeQuiet,
       Claude!Untouched
  <2>4. ~clUpset' => Smooth'
    BY <1>0, <2>1, <2>2 DEF Smooth, Restoring, Newest, SavedWell, Plain, Version,
       ClaudeQuiet, Claude!Untouched
  <2> QED
    BY <2>3, <2>4 DEF YInv
<1>4. ASSUME Claude!Forget PROVE YInv'
  <2>1. /\ clDoing = "forget" /\ clDoing' = "idle" /\ clAt' = Claude!First
        /\ clRecord' = None /\ clSaved' = None
        /\ UNCHANGED <<clText, clRoute>> /\ ClaudeQuiet
    BY <1>4 DEF Claude!Forget, Claude!Done, Claude!Calm, ClaudeQuiet
  <2>2. ClaudeTyped' /\ UnderWay'
    BY <1>0, <2>1, FilesAreNumbered DEF ClaudeTyped, UnderWay, ClaudeQuiet
  <2>3. ~clUpset' => Smooth'
    BY <1>0, <2>1 DEF Smooth, Newest, Plain, Version, ClaudeQuiet
  <2> QED
    BY <2>2, <2>3 DEF YInv
<1>5. ASSUME Claude!GiveUp PROVE YInv'
  <2>1. /\ clDoing' = "idle" /\ clAt' = Claude!First /\ clRecord' = None
        /\ UNCHANGED <<clText, clSaved, clRoute, clChanges>>
        /\ \/ clDoing = "idle" /\ UNCHANGED <<clTroubles, clUpset>>
           \/ clTroubles < MaxTroubles /\ clTroubles' = clTroubles + 1 /\ clUpset' = TRUE
    BY <1>5 DEF Claude!GiveUp, Claude!Done, Claude!Trouble
  <2>2. clTroubles' \in 0..MaxTroubles /\ clUpset' \in BOOLEAN
    <3>1. clTroubles' \in 0..MaxTroubles
      BY <1>0, <2>1, ClaudeAssumption DEF ClaudeTyped
    <3>2. clUpset' = TRUE \/ clUpset' = clUpset
      BY <2>1
    <3> QED
      BY <1>0, <3>1, <3>2 DEF ClaudeTyped
  <2>3. ClaudeTyped' /\ UnderWay'
    BY <1>0, <2>1, <2>2, FilesAreNumbered DEF ClaudeTyped, UnderWay
  <2>4. ~clUpset' => Smooth'
    BY <1>0, <2>1 DEF Smooth, Newest, SavedWell, Plain, Version
  <2> QED
    BY <2>3, <2>4 DEF YInv
<1>6. ASSUME NEW g \in Claude!Files, Claude!AppChanges(g) PROVE YInv'
  <2> DEFINE changed == [Claude!Read(g) EXCEPT !.rest = clChanges + 1]
  <2>1. /\ clChanges < MaxChanges /\ clChanges' = clChanges + 1
        /\ clText' = [clText EXCEPT ![g] = changed]
        /\ clUpset' = (clUpset \/ clDoing # "idle")
        /\ UNCHANGED <<clSaved, clDoing, clAt, clRoute, clRecord, clTroubles>>
    BY <1>6 DEF Claude!AppChanges
  <2>2. clChanges' \in 0..MaxChanges
    BY <1>0, <2>1, ClaudeAssumption DEF ClaudeTyped
  <2>3. /\ changed \in ClaudeContents /\ changed.rest = clChanges'
        /\ changed.fields = Claude!Read(g).fields
    <3>1. Claude!Read(g) \in ClaudeContents
      BY <1>0, ReadIs
    <3> QED
      BY <2>1, <2>2, <3>1 DEF ClaudeContents
  <2>4. changed # None /\ Version(changed) = clChanges' /\ (Plain(clText[g]) => Plain(changed))
    <3>1. changed # None
      BY <2>3, ClaudeAssumption
    <3>2. Plain(clText[g]) => Claude!Read(g).fields \in {"user", "none"}
      BY <1>0, ReadIs
    <3> QED
      BY <2>3, <3>1, <3>2 DEF Version, Plain
  <2> HIDE DEF changed
  <2>5. /\ clText' \in [Claude!Files -> ClaudeContents \cup {None}] /\ clText'[g] = changed
        /\ \A f \in Claude!Files \ {g} : clText'[f] = clText[f]
    BY <1>0, <2>1, <2>3 DEF ClaudeTyped
  <2>6. clUpset' \in BOOLEAN
    BY <1>0, <2>1, Zenon DEF ClaudeTyped
  <2>7. ClaudeTyped' /\ UnderWay'
    BY <1>0, <2>1, <2>2, <2>4, <2>5, <2>6 DEF ClaudeTyped, UnderWay
  <2>8. ASSUME ~clUpset' PROVE Smooth'
    <3>1. Smooth /\ clDoing = "idle" /\ clDoing' = "idle"
      BY <1>0, <2>1, <2>8
    <3>2. Newest'
      BY <2>4, <2>5 DEF Newest
    <3>3. clSaved' = None => \A f \in Claude!Files : Plain(clText'[f])
      BY <2>1, <2>4, <2>5, <3>1 DEF Smooth
    <3> QED
      BY <2>1, <3>1, <3>2, <3>3 DEF Smooth, SavedWell, Plain, Version
  <2> QED
    BY <2>7, <2>8 DEF YInv
<1>7. ASSUME Claude!LoseFile PROVE YInv'
  <2>1. /\ clDoing' = "idle" /\ clAt' = Claude!First /\ clRecord' = None
        /\ UNCHANGED <<clRoute, clChanges>> /\ clSaved' \in {clSaved, None}
        /\ clText' = clText \/ clText' = [clText EXCEPT ![clAt] = None]
        /\ clTroubles < MaxTroubles /\ clTroubles' = clTroubles + 1 /\ clUpset' = TRUE
    BY <1>7 DEF Claude!LoseFile, Claude!Done, Claude!Trouble
  <2>2. clTroubles' \in 0..MaxTroubles /\ clUpset' \in BOOLEAN
    BY <1>0, <2>1, ClaudeAssumption DEF ClaudeTyped
  <2>3. ClaudeTyped' /\ UnderWay'
    BY <1>0, <2>1, <2>2, FilesAreNumbered DEF ClaudeTyped, UnderWay
  <2> QED
    BY <2>1, <2>3 DEF YInv
<1>8. ASSUME UNCHANGED Claude!vars PROVE YInv'
  BY <1>0, <1>8 DEF Claude!vars, YInv, ClaudeTyped, UnderWay, Smooth, Newest, Configuring,
     Restoring, SavedWell, Plain, Version
<1> QED
  BY <1>1, <1>2, <1>3, <1>4, <1>5, <1>6, <1>7, <1>8, MutateKeeps, PutBackKeeps
  DEF Claude!Next

LEMMA ClaudeInvariant == Claude!Spec => []YInv
  BY YInit, YStep, PTL DEF Claude!Spec

LEMMA ClaudeBehaves == SpecPeriphery => Claude!Spec
<1>1. InitPeriphery => Claude!Init
  BY DEF InitPeriphery
<1>2. [NextPeriphery]_allVars => [Claude!Next]_(Claude!vars)
  <2>1. UNCHANGED claudeVars => UNCHANGED Claude!vars
    BY DEF claudeVars, Claude!vars
  <2> QED
    BY <2>1 DEF NextPeriphery, allVars
<1> QED
  BY <1>1, <1>2, PTL DEF SpecPeriphery, Claude!Spec

\* When Restore has come through undisturbed, after any series of setups and
\* of changes by the app, no field of Backpack's is left in any of the files and
\* the latest change is still there (ConfigureClaudeApp, RestoreClaudeApp).
THEOREM ClaudeGivesBack == SpecPeriphery => ClaudeRestored
<1>1. ASSUME YInv, Claude!Forget, ~clUpset
      PROVE  /\ \A f \in Claude!Files : Claude!Read(f).fields \in {"user", "none"}
             /\ clChanges > 0 => \E f \in Claude!Files : Claude!Read(f).rest = clChanges
  <2>1. ClaudeTyped /\ Newest /\ \A f \in Claude!Files : Plain(clText[f])
    BY <1>1 DEF YInv, Smooth, Claude!Forget
  <2> QED
    BY <2>1, ReadIs DEF Newest
<1>2. YInv /\ [Claude!Next]_(Claude!vars) =>
        [Claude!Forget /\ ~clUpset =>
           /\ \A f \in Claude!Files : Claude!Read(f).fields \in {"user", "none"}
           /\ clChanges > 0 => \E f \in Claude!Files : Claude!Read(f).rest = clChanges]_(Claude!vars)
  BY <1>1
<1> QED
  BY ClaudeInvariant, ClaudeBehaves, <1>2, PTL
  DEF Claude!Spec, Claude!ClaudeRestored, ClaudeRestored

-----------------------------------------------------------------------------
(* All components: types *)

LEMMA TargetsBehave == SpecPeriphery => Spec
<1>1. InitPeriphery => Init
  BY DEF InitPeriphery
<1>2. [NextPeriphery]_allVars => [Next]_vars
  BY DEF NextPeriphery, allVars
<1> QED
  BY <1>1, <1>2, PTL DEF SpecPeriphery, Spec

\* Every component keeps its types, whatever the others do.
THEOREM TypesHold == SpecPeriphery => []TypesOK
<1>1. SpecPeriphery => []Codex!TypeOK
  <2>1. XInv => Codex!TypeOK
    BY DEF XInv
  <2> QED
    BY <2>1, CodexInvariant, CodexBehaves, PTL
<1>2. SpecPeriphery => []Claude!TypeOK
  <2>1. YInv => Claude!TypeOK
    BY ClaudeTypesAre DEF YInv
  <2> QED
    BY <2>1, ClaudeInvariant, ClaudeBehaves, PTL
<1>3. SpecPeriphery => []Cloud!TypeOK
  <2>1. SInv => Cloud!TypeOK
    BY DEF SInv
  <2> QED
    BY <2>1, StreamInvariant, CloudBehaves, PTL
<1>4. TypeOK /\ Codex!TypeOK /\ Claude!TypeOK /\ Account!TypeOK /\ Update!TypeOK
        /\ Cloud!TypeOK /\ Chat!TypeOK /\ Events!TypeOK /\ Runs!TypeOK => TypesOK
  BY DEF TypesOK
<1>5. SpecPeriphery => []TypeOK
  BY TypeCorrect, TargetsBehave, PTL
<1>6. SpecPeriphery => []Account!TypeOK /\ []Update!TypeOK
  BY AccountTypes, AccountBehaves, UpdateTypes, UpdateBehaves, PTL
<1>7. SpecPeriphery => []Chat!TypeOK /\ []Events!TypeOK
  BY ChatTypes, ChatBehaves, EventsTypes, EventsBehaves, PTL
<1>8. SpecPeriphery => []Runs!TypeOK
  BY RunsApart, RunsTypes, RunsBehaves, PTL
<1> QED
  BY <1>1, <1>2, <1>3, <1>4, <1>5, <1>6, <1>7, <1>8, PTL
=============================================================================
