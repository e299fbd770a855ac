------------------------------- MODULE Installs -------------------------------
(***************************************************************************)
(* The three ways in which something is installed: a model package         *)
(* (ModelPull), the runtime bundle (RuntimeBundle) and the cache of an SSH *)
(* target (RemoteCache).  They share no state, so a behaviour is one of    *)
(* the component it has chosen.                                            *)
(***************************************************************************)
EXTENDS ModelPull, FiniteSets

CONSTANTS
  Users,        \* processes that use a bundle or a target
  Artifacts, Archives, Blocks, MaxFaults,  \* of RuntimeBundle
  Parts, MaxFailures                       \* of RemoteCache

ASSUME UsersAssumption ==
  /\ IsFiniteSet(Users)
  /\ Users \cap {"none", "good", "bad", "torn"} = {}
ASSUME BundleAssumption ==
  /\ Artifacts \in Nat \ {0} /\ MaxFaults \in Nat
  /\ None \notin [by : Users, old : BOOLEAN]
  /\ None \notin [whole : BOOLEAN, empty : BOOLEAN,
                  from : [1..Artifacts -> {"none", "good", "bad", "torn"}]]

\* There always is one more file to create.
ASSUME BlocksAssumption ==
  /\ IsFiniteSet(Blocks) /\ None \notin Blocks
  /\ Cardinality(Blocks) > 2 * Artifacts + Cardinality(Users)
ASSUME CacheAssumption ==
  /\ Parts \in Nat \ {0} /\ MaxFailures \in Nat
  /\ None \notin {"torn", "good", "bad"}
  /\ \A s \in SUBSET (1..Parts) : s # None
  /\ None \notin [1..Parts -> {"none", "torn", "full", "done"}]

VARIABLES
  component,
  bLock, bPart, bCached, bData, bFinal, bPc, bItem, bFd, bStage, bExcused,
  bOverrun, bFaults,
  rFile, rPartial, rSource, rStage, rRuntime, rPc, rAt, rOnto, rShared, rCut,
  rOverlap, rBlamed, rFailures

bundleVars == <<bLock, bPart, bCached, bData, bFinal, bPc, bItem, bFd, bStage,
                bExcused, bOverrun, bFaults>>
Bundle == INSTANCE RuntimeBundle WITH
  Nothing <- None, lock <- bLock, part <- bPart,
  cached <- bCached, data <- bData, final <- bFinal, pc <- bPc, item <- bItem,
  fd <- bFd, stage <- bStage, excused <- bExcused, overrun <- bOverrun,
  faults <- bFaults

remoteVars == <<rFile, rPartial, rSource, rStage, rRuntime, rPc, rAt, rOnto,
                rShared, rCut, rOverlap, rBlamed, rFailures>>
Remote == INSTANCE RemoteCache WITH
  Uploaders <- Users, Absent <- None,
  file <- rFile, partial <- rPartial, source <- rSource, stage <- rStage,
  runtime <- rRuntime, pc <- rPc, at <- rAt, onto <- rOnto,
  shared <- rShared, cut <- rCut,
  overlap <- rOverlap, blamed <- rBlamed, failures <- rFailures

InitInstalls ==
  /\ component \in {"model", "runtime", "target"}
  /\ Init /\ Bundle!Init /\ Remote!Init

NextInstalls ==
  \/ /\ component = "model" /\ Next
     /\ UNCHANGED <<component, bundleVars, remoteVars>>
  \/ /\ component = "runtime" /\ Bundle!Next
     /\ UNCHANGED <<component, vars, remoteVars>>
  \/ /\ component = "target" /\ Remote!Next
     /\ UNCHANGED <<component, vars, bundleVars>>

allVars == <<component, vars, bundleVars, remoteVars>>

SpecInstalls == InitInstalls /\ [][NextInstalls]_allVars

-----------------------------------------------------------------------------
(* The properties of the components; each module says what they mean. *)

\* The type invariants of the three modules.
TypesOK == TypeOK /\ Bundle!TypeOK /\ Remote!TypeOK

\* A bundle that loads was verified (Manager.install).
RuntimeVerified == Bundle!RuntimeVerified

\* Ensure takes no working installation away (Manager.install).
RuntimeKept == Bundle!RuntimeKept

\* What dead attempts have left does not fail an Ensure (Manager.install).
RuntimeInstalls == Bundle!RuntimeInstalls

\* A remote model gets its name with the right content only, and a remote
\* runtime when it is whole only (PrepareModel, PrepareRuntime).
RemoteVerified == Remote!RemoteVerified

\* The incomplete files that cut transfers leave do not fail the next one; with
\* rsync, a complete .part of other content does, for good (copy).
PreparesAgain == Remote!PreparesAgain
=============================================================================
