--------------------------- MODULE ServingProofs ---------------------------
(***************************************************************************)
(* Proofs about Periphery, for any constants: the runs of tools and apps,  *)
(* the requests they send, the streams they get for an answer, and the     *)
(* daemon's events.                                                        *)
(***************************************************************************)
EXTENDS Periphery, FiniteSetTheorems, SequenceTheorems, TLAPS

-----------------------------------------------------------------------------
(* AgentRuns: assumptions *)

\* A command is no request, and None is nobody, no session and no model.
Apart ==
  /\ Commands \cap Agents = {}
  /\ None \notin Commands \cup SessionIds \cup LocalModels
  /\ LocalModels \cap CloudModels = {}

\* There are finitely many sessions and requests.
Finite == IsFiniteSet(SessionIds) /\ IsFiniteSet(Agents)

LEMMA RunsApart == Apart /\ Finite
  BY AgentsAssumption DEF Apart, Finite

\* A behaviour of the whole is one of AgentRuns, or leaves its state alone.
LEMMA RunsBehaves == SpecPeriphery => Runs!Spec
<1>1. InitPeriphery => Runs!Init
  BY DEF InitPeriphery
<1>2. [NextPeriphery]_allVars => [Runs!Next]_(Runs!vars)
  <2>1. UNCHANGED runsVars => UNCHANGED Runs!vars
    BY DEF runsVars, Runs!vars, Runs!daemonVars, Runs!commandVars, Runs!observed
  <2> QED
    BY <2>1 DEF NextPeriphery, allVars
<1> QED
  BY <1>1, <1>2, PTL DEF SpecPeriphery, Runs!Spec

-----------------------------------------------------------------------------
(* AgentRuns: what the steps have in common *)

\* The steps of a command before it has a session.
Starts(c) ==
  \/ \E m \in LocalModels, alive \in BOOLEAN : Runs!RunTool(c, m, alive)
  \/ \E m \in CloudModels : Runs!RunCloudTool(c, m)
  \/ \E m \in LocalModels \cup CloudModels : Runs!RunClaudeApp(c, m) \/ Runs!RunCodexApp(c, m)

LEMMA StartsRun ==
  ASSUME NEW c, Starts(c)
  PROVE  /\ \E m \in LocalModels \cup CloudModels, what \in {"tool", "codex-app", "claude-app"} :
              Runs!Run(c, what, m)
         /\ arKeep' \in {arKeep, arKeep \cup {c}}
<1>1. ASSUME NEW m, NEW alive, Runs!RunTool(c, m, alive)
      PROVE  Runs!Run(c, "tool", m) /\ arKeep' \in {arKeep, arKeep \cup {c}}
  BY <1>1 DEF Runs!RunTool
<1>2. ASSUME NEW m, Runs!RunCloudTool(c, m)
      PROVE Runs!Run(c, "tool", m) /\ arKeep' = arKeep
  BY <1>2 DEF Runs!RunCloudTool
<1>3. ASSUME NEW m, Runs!RunClaudeApp(c, m)
      PROVE Runs!Run(c, "claude-app", m) /\ arKeep' = arKeep
  BY <1>3 DEF Runs!RunClaudeApp
<1>4. ASSUME NEW m, Runs!RunCodexApp(c, m)
      PROVE Runs!Run(c, "codex-app", m) /\ arKeep' = arKeep
  BY <1>4 DEF Runs!RunCodexApp
<1> QED
  BY <1>1, <1>2, <1>3, <1>4 DEF Starts

\* The steps in between only move a command on: from where, and where to.
CommandMoves(c) ==
  \/ Runs!StartTool(c) \/ Runs!StartCloudTool(c) \/ Runs!ConfigureClaude(c) \/ Runs!ConfigureCodex(c)
  \/ Runs!SetupFails(c) \/ Runs!ToolExits(c) \/ Runs!StopLost(c) \/ Runs!Kill(c)

LEMMA MovesGo ==
  ASSUME NEW c, CommandMoves(c)
  PROVE  \/ arPc[c] = "setup" /\ Runs!Goto(c, "running")
         \/ arPc[c] = "setup" /\ Runs!Goto(c, "configured")
         \/ arPc[c] \in {"setup", "running"} /\ Runs!StopsOwn(c) /\ Runs!Goto(c, "stopping")
         \/ arPc[c] \in {"setup", "running"} /\ ~Runs!StopsOwn(c) /\ Runs!Goto(c, "ended")
         \/ arPc[c] = "stopping" /\ Runs!Goto(c, "unheard")
         \/ arPc[c] \in {"loading", "setup", "running", "stopping"} /\ Runs!Goto(c, "killed")
<1>1. CASE Runs!SetupFails(c) \/ Runs!ToolExits(c)
  <2>1. arPc[c] \in {"setup", "running"} /\ Runs!Leave(c)
    BY <1>1 DEF Runs!SetupFails, Runs!ToolExits
  <2> QED
    BY <2>1 DEF Runs!Leave
<1>2. CASE ~(Runs!SetupFails(c) \/ Runs!ToolExits(c))
  BY <1>2 DEF CommandMoves, Runs!StartTool, Runs!StartCloudTool, Runs!ConfigureClaude,
     Runs!ConfigureCodex, Runs!StopLost, Runs!Kill
<1> QED
  BY <1>1, <1>2

\* Every step of the system is one of these.
LEMMA RunsSteps ==
  ASSUME [Runs!Next]_(Runs!vars)
  PROVE  \/ \E c \in Commands : Starts(c) \/ CommandMoves(c) \/ Runs!Refused(c) \/ Runs!StopOwn(c)
         \/ \E c \in Commands, s \in SessionIds : Runs!Told(c, s) \/ Runs!Created(c, s)
         \/ \E r \in Agents, m \in LocalModels : Runs!Ensure(r, m)
         \/ \E r \in Agents, s \in SessionIds : Runs!Ensured(r, s)
         \/ \E r \in Agents : Runs!Endpoint(r)
         \/ \E who \in Commands \cup Agents : Runs!CreateFails(who)
         \/ \E s \in SessionIds : Runs!UserStops(s) \/ Runs!SessionEnds(s)
         \/ Runs!DaemonRestarts
         \/ UNCHANGED Runs!vars
<1>1. ASSUME NEW c \in Commands, Runs!Command(c)
      PROVE  Starts(c) \/ CommandMoves(c) \/ Runs!Refused(c) \/ Runs!StopOwn(c) \/ \E s \in SessionIds : Runs!Told(c, s)
  BY <1>1 DEF Runs!Command, Starts, CommandMoves
<1>2. ASSUME NEW r \in Agents, Runs!Request(r)
      PROVE  \/ \E m \in LocalModels : Runs!Ensure(r, m)
             \/ \E s \in SessionIds : Runs!Ensured(r, s)
             \/ Runs!Endpoint(r)
  BY <1>2 DEF Runs!Request
<1> QED
  BY <1>1, <1>2 DEF Runs!Next

\* What a restart does to the sessions is what the contract says of it.
LEMMA Restarts == Runs!DaemonRestarts => Runs!Daemon!NextDaemon
  BY DEF Runs!DaemonRestarts, Runs!Daemon!NextDaemon, Runs!Daemon!Stages

-----------------------------------------------------------------------------
(* AgentRuns: types *)

LEMMA RunsTypeStep == Runs!TypeOK /\ [Runs!Next]_(Runs!vars) => Runs!TypeOK'
<1> SUFFICES ASSUME Runs!TypeOK, [Runs!Next]_(Runs!vars) PROVE Runs!TypeOK'
  OBVIOUS
<1> USE DEF Runs!TypeOK, Runs!commandVars, Runs!observed, Runs!daemonVars
<1>1. ASSUME NEW c \in Commands, Starts(c) PROVE Runs!TypeOK'
  <2>1. PICK m \in LocalModels \cup CloudModels, what \in {"tool", "codex-app", "claude-app"} :
          Runs!Run(c, what, m)
    BY <1>1, StartsRun
  <2>2. arKeep' \subseteq Commands
    BY <1>1, StartsRun
  <2> QED
    BY <2>1, <2>2 DEF Runs!Run
<1>2. ASSUME NEW c \in Commands, CommandMoves(c) PROVE Runs!TypeOK'
  BY <1>2, MovesGo DEF Runs!Goto
<1>3. ASSUME NEW c \in Commands, Runs!Refused(c) PROVE Runs!TypeOK'
  BY <1>3 DEF Runs!Refused
<1>4. ASSUME NEW c \in Commands, NEW s \in SessionIds, Runs!Told(c, s) PROVE Runs!TypeOK'
  BY <1>4 DEF Runs!Told
<1>5. ASSUME NEW c \in Commands, Runs!StopOwn(c) PROVE Runs!TypeOK'
  BY <1>5 DEF Runs!StopOwn, Runs!Stop, Runs!Daemon!BeginEnd, Runs!Daemon!Stages
<1>6. ASSUME NEW c \in Commands, NEW s \in SessionIds, Runs!Created(c, s)
      PROVE Runs!TypeOK'
  BY <1>6 DEF Runs!Created, Runs!Publish, Runs!Daemon!Publish, Runs!Daemon!Stages
<1>7. ASSUME NEW r \in Agents, NEW m \in LocalModels, Runs!Ensure(r, m) PROVE Runs!TypeOK'
  BY <1>7 DEF Runs!Ensure, Runs!Serving
<1>8. ASSUME NEW r \in Agents, NEW s \in SessionIds, Runs!Ensured(r, s) PROVE Runs!TypeOK'
  <2>1. /\ arLife' = [arLife EXCEPT ![s] = "serving"]
        /\ arModel' = [arModel EXCEPT ![s] = arReq[r].model]
        /\ arMaker' = [arMaker EXCEPT ![s] = IF r \in Commands THEN r ELSE None]
        /\ arCreating' = arCreating \ {r} /\ UNCHANGED <<Runs!commandVars, arGone>>
    BY <1>8 DEF Runs!Ensured, Runs!Publish, Runs!Daemon!Publish
  <2>2. arReq' = [arReq EXCEPT ![r].at = "given", ![r].session = s]
    BY <1>8 DEF Runs!Ensured
  <2>3. arReq' \in [Agents ->
          [at : {"idle", "loading"}, model : LocalModels \cup {None}, session : {None}]
            \cup [at : {"given"}, model : LocalModels \cup {None}, session : SessionIds]]
    <3>1. arReq'[r] \in [at : {"given"}, model : LocalModels \cup {None}, session : SessionIds]
      BY <2>2
    <3>2. arReq' = [arReq EXCEPT ![r] = arReq'[r]]
      BY <2>2
    <3> HIDE DEF Runs!TypeOK
    <3> QED
      BY <3>1, <3>2 DEF Runs!TypeOK
  <2>4. arLife' \in [SessionIds -> Runs!Daemon!Stages]
    BY <2>1 DEF Runs!Daemon!Stages
  <2>5. arModel' \in [SessionIds -> LocalModels \cup CloudModels \cup {None}]
    <3>1. arReq[r].model \in LocalModels \cup {None}
      OBVIOUS
    <3> QED
      BY <2>1, <3>1
  <2> QED
    BY <2>1, <2>3, <2>4, <2>5
<1>9. ASSUME NEW r \in Agents, Runs!Endpoint(r) PROVE Runs!TypeOK'
  BY <1>9 DEF Runs!Endpoint, Runs!Idle
<1>10. ASSUME NEW who \in Commands \cup Agents, Runs!CreateFails(who) PROVE Runs!TypeOK'
  BY <1>10 DEF Runs!CreateFails, Runs!Idle
<1>11. ASSUME NEW s \in SessionIds, Runs!UserStops(s) \/ Runs!SessionEnds(s)
       PROVE Runs!TypeOK'
  BY <1>11 DEF Runs!UserStops, Runs!SessionEnds, Runs!Daemon!BeginEnd, Runs!Daemon!End,
     Runs!Daemon!Stages
<1>12. ASSUME Runs!DaemonRestarts PROVE Runs!TypeOK'
  <2>1. arLife' \in [SessionIds -> Runs!Daemon!Stages]
    BY <1>12, Restarts DEF Runs!Daemon!NextDaemon
  <2> QED
    BY <1>12, <2>1 DEF Runs!DaemonRestarts, Runs!Idle
<1>13. CASE UNCHANGED Runs!vars
  BY <1>13 DEF Runs!vars
<1> QED
  BY <1>1, <1>2, <1>3, <1>4, <1>5, <1>6, <1>7, <1>8, <1>9, <1>10, <1>11, <1>12,
     <1>13, RunsSteps

\* The type invariant, whatever the constants are.
LEMMA RunsTypes == Runs!Spec => []Runs!TypeOK
<1>1. Runs!Init => Runs!TypeOK
  BY DEF Runs!Init, Runs!TypeOK, Runs!Daemon!Init, Runs!Daemon!Stages, Runs!Idle
<1> QED
  BY <1>1, RunsTypeStep, PTL DEF Runs!Spec

-----------------------------------------------------------------------------
(* Sessions that commands leave behind *)

\* What a step may do to sessions that are published: none becomes new, and
\* none serves that did not.
Quieter ==
  \A s \in SessionIds :
    /\ arLife[s] # "new" => arLife'[s] # "new"
    /\ arLife'[s] = "serving" => arLife[s] = "serving"

LEMMA RunsQuiet ==
  ASSUME Runs!TypeOK, NEW s \in SessionIds,
         \/ Runs!Stop(s) \/ Runs!UserStops(s) \/ Runs!SessionEnds(s) \/ Runs!DaemonRestarts \/ UNCHANGED arLife
  PROVE  Quieter
<1>1. CASE Runs!Daemon!BeginEnd(s) \/ Runs!Daemon!End(s)
  BY <1>1 DEF Quieter, Runs!TypeOK, Runs!Daemon!BeginEnd, Runs!Daemon!End
<1>2. CASE Runs!Daemon!NextDaemon
  BY <1>2 DEF Quieter, Runs!TypeOK, Runs!Daemon!NextDaemon
<1>3. CASE UNCHANGED arLife
  BY <1>3 DEF Quieter
<1> QED
  BY <1>1, <1>2, <1>3, Restarts DEF Runs!Stop, Runs!UserStops, Runs!SessionEnds

\* Where a command is tells of the sessions its Create has published: none
\* while Create runs, one at most later, which the command knows of from its
\* setup on; and it leaves the one it knows of serving for a reason.
Place(c) ==
  /\ arPc[c] = "idle" => Runs!Made(c) = {}
  /\ c \in arCreating => arPc[c] \in {"loading", "killed"} /\ Runs!Made(c) = {}
  /\ \A s \in Runs!Made(c) : \A t \in Runs!Made(c) : s = t
  /\ arPc[c] \in {"setup", "running", "stopping"} => \A s \in Runs!Made(c) : arOwn[c] = s
  /\ arPc[c] = "stopping" => arOwn[c] \in SessionIds /\ arLife[arOwn[c]] # "new"
  /\ arOwn[c] # None => arOwn[c] \in Runs!Made(c)
  /\ arPc[c] = "ended" =>
       \A s \in Runs!Made(c) : arLife[s] = "serving" => c \in arKeep \/ arApp[c] = "claude-app"

\* A session with a maker is published.
MadeIsPublished == \A s \in SessionIds : arMaker[s] # None => arLife[s] # "new"

AInv == Runs!TypeOK /\ MadeIsPublished /\ \A c \in Commands : Place(c)

LEMMA AInit ==
  ASSUME Apart
  PROVE  Runs!Init => AInv
<1> SUFFICES ASSUME Runs!Init PROVE AInv
  OBVIOUS
<1>1. Runs!TypeOK
  BY DEF Runs!Init, Runs!TypeOK, Runs!Daemon!Init, Runs!Daemon!Stages, Runs!Idle
<1>2. \A c \in Commands : Runs!Made(c) = {}
  BY DEF Runs!Init, Runs!Made, Apart
<1> QED
  BY <1>1, <1>2 DEF Runs!Init, AInv, MadeIsPublished, Place

\* A step that publishes nothing and does not touch a command leaves it where
\* it is.
LEMMA Bystander ==
  ASSUME AInv, Quieter, UNCHANGED arMaker, NEW c \in Commands,
         arPc'[c] = arPc[c], arOwn'[c] = arOwn[c], arApp'[c] = arApp[c],
         c \in arKeep <=> c \in arKeep', c \in arCreating' => c \in arCreating
  PROVE  Place(c)'
<1>1. Runs!Made(c)' = Runs!Made(c)
  BY DEF Runs!Made
<1>2. \A s \in Runs!Made(c) : s \in SessionIds
  BY DEF Runs!Made
<1> QED
  BY <1>1, <1>2 DEF AInv, Place, Quieter, Runs!TypeOK

LEMMA AStep ==
  ASSUME Apart
  PROVE  AInv /\ [Runs!Next]_(Runs!vars) => AInv'
<1> SUFFICES ASSUME AInv, [Runs!Next]_(Runs!vars) PROVE AInv'
  OBVIOUS
<1>0. Runs!TypeOK /\ Runs!TypeOK' /\ MadeIsPublished /\ \A c \in Commands : Place(c)
  BY RunsTypeStep DEF AInv
<1>a. ASSUME Quieter, UNCHANGED arMaker PROVE MadeIsPublished'
  BY <1>0, <1>a DEF MadeIsPublished, Quieter
<1>b. ASSUME UNCHANGED arLife PROVE Quieter
  BY <1>b DEF Quieter
<1>c. \A d \in Commands : \A s \in Runs!Made(d) : s \in SessionIds /\ arMaker[s] = d
  BY DEF Runs!Made
<1>1. ASSUME NEW c \in Commands, Starts(c) PROVE AInv'
  <2>1. PICK m \in LocalModels \cup CloudModels, what \in {"tool", "codex-app", "claude-app"} :
          Runs!Run(c, what, m)
    BY <1>1, StartsRun
  <2>2. arKeep' \in {arKeep, arKeep \cup {c}}
    BY <1>1, StartsRun
  <2>3. UNCHANGED <<arLife, arOwn, arMaker>> /\ arPc[c] = "idle"
    BY <2>1 DEF Runs!Run, Runs!observed
  <2>4. ASSUME NEW d \in Commands, d # c PROVE Place(d)'
    <3>1. /\ arPc'[d] = arPc[d] /\ arApp'[d] = arApp[d] /\ arOwn'[d] = arOwn[d]
          /\ d \in arCreating' => d \in arCreating
      BY <1>0, <2>1, <2>4 DEF Runs!Run, Runs!TypeOK
    <3>2. d \in arKeep <=> d \in arKeep'
      BY <2>2, <2>4
    <3> QED
      BY <1>b, <2>3, <3>1, <3>2, Bystander
  <2>5. Place(c)'
    <3>1. Runs!Made(c)' = {} /\ arOwn'[c] = None
      BY <1>0, <2>3 DEF Runs!Made, Place
    <3>2. arPc'[c] \in {"loading", "setup"} /\ (c \in arCreating' => arPc'[c] = "loading")
      BY <1>0, <2>1 DEF Runs!Run, Runs!TypeOK, Place
    <3> QED
      BY <3>1, <3>2 DEF Place
  <2> QED
    BY <1>0, <1>a, <1>b, <2>3, <2>4, <2>5 DEF AInv
<1>2. ASSUME NEW c \in Commands, CommandMoves(c) PROVE AInv'
  <2>1. UNCHANGED <<arLife, arOwn, arMaker, arApp, arKeep, arCreating>>
    BY <1>2, MovesGo DEF Runs!Goto, Runs!daemonVars, Runs!observed
  <2>2. ASSUME NEW d \in Commands, d # c PROVE Place(d)'
    <3>1. arPc'[d] = arPc[d]
      BY <1>0, <1>2, <2>2, MovesGo DEF Runs!Goto, Runs!TypeOK
    <3> QED
      BY <1>b, <2>1, <3>1, Bystander
  <2>3. Place(c)'
    <3>1. Runs!Made(c)' = Runs!Made(c)
      BY <2>1 DEF Runs!Made
    <3>2. \/ arPc[c] = "setup" /\ arPc'[c] \in {"running", "configured"}
          \/ arPc[c] \in {"setup", "running"} /\ Runs!StopsOwn(c) /\ arPc'[c] = "stopping"
          \/ arPc[c] \in {"setup", "running"} /\ ~Runs!StopsOwn(c) /\ arPc'[c] = "ended"
          \/ arPc[c] = "stopping" /\ arPc'[c] = "unheard"
          \/ arPc[c] \in {"loading", "setup", "running", "stopping"} /\ arPc'[c] = "killed"
      BY <1>0, <1>2, MovesGo DEF Runs!Goto, Runs!TypeOK
    <3>3. arOwn[c] # None => arOwn[c] \in SessionIds /\ arLife[arOwn[c]] # "new"
      BY <1>0, Apart DEF Place, MadeIsPublished, Runs!Made, Apart
    <3>4. \A s \in Runs!Made(c) : s # None
      BY Apart DEF Runs!Made, Apart
    <3> QED
      BY <1>0, <2>1, <3>1, <3>2, <3>3, <3>4 DEF Place, Runs!StopsOwn
  <2> QED
    BY <1>0, <1>a, <1>b, <2>1, <2>2, <2>3 DEF AInv
<1>3. ASSUME NEW c \in Commands, Runs!Refused(c) PROVE AInv'
  <2>1. UNCHANGED <<arLife, arOwn, arMaker, arApp, arKeep, arCreating>>
    BY <1>3 DEF Runs!Refused, Runs!daemonVars, Runs!observed
  <2>2. ASSUME NEW d \in Commands, d # c PROVE Place(d)'
    <3>1. arPc'[d] = arPc[d]
      BY <1>0, <1>3, <2>2 DEF Runs!Refused, Runs!TypeOK
    <3> QED
      BY <1>b, <2>1, <3>1, Bystander
  <2>3. Place(c)'
    <3>1. Runs!Made(c)' = Runs!Made(c)
      BY <2>1 DEF Runs!Made
    <3>2. arPc'[c] = "ended" /\ c \notin arCreating /\ \A s \in Runs!Made(c) : arLife[s] # "serving"
      BY <1>0, <1>3 DEF Runs!Refused, Runs!TypeOK
    <3> QED
      BY <1>0, <2>1, <3>1, <3>2 DEF Place
  <2> QED
    BY <1>0, <1>a, <1>b, <2>1, <2>2, <2>3 DEF AInv
<1>4. ASSUME NEW c \in Commands, NEW s \in SessionIds, Runs!Told(c, s) PROVE AInv'
  <2>1. UNCHANGED <<arLife, arMaker, arApp, arKeep, arCreating>>
    BY <1>4 DEF Runs!Told, Runs!daemonVars, Runs!observed
  <2>2. ASSUME NEW d \in Commands, d # c PROVE Place(d)'
    <3>1. arPc'[d] = arPc[d] /\ arOwn'[d] = arOwn[d]
      BY <1>0, <1>4, <2>2 DEF Runs!Told, Runs!TypeOK
    <3> QED
      BY <1>b, <2>1, <3>1, Bystander
  <2>3. Place(c)'
    <3>1. Runs!Made(c)' = Runs!Made(c)
      BY <2>1 DEF Runs!Made
    <3>2. arPc'[c] = "setup" /\ arOwn'[c] = s /\ s \in Runs!Made(c) /\ c \notin arCreating
      BY <1>0, <1>4 DEF Runs!Told, Runs!TypeOK, Place
    <3> QED
      BY <1>0, <2>1, <3>1, <3>2 DEF Place
  <2> QED
    BY <1>0, <1>a, <1>b, <2>1, <2>2, <2>3 DEF AInv
<1>5. ASSUME NEW c \in Commands, Runs!StopOwn(c) PROVE AInv'
  <2>1. UNCHANGED <<arOwn, arMaker, arApp, arKeep, arCreating>>
    BY <1>5 DEF Runs!StopOwn, Runs!observed
  <2>2. arPc[c] = "stopping" /\ Runs!Stop(arOwn[c]) /\ arOwn[c] \in SessionIds
    BY <1>0, <1>5 DEF Runs!StopOwn, Place
  <2>3. Quieter
    BY <1>0, <2>2, RunsQuiet
  <2>4. ASSUME NEW d \in Commands, d # c PROVE Place(d)'
    <3>1. arPc'[d] = arPc[d]
      BY <1>0, <1>5, <2>4 DEF Runs!StopOwn, Runs!TypeOK
    <3> QED
      BY <2>1, <2>3, <3>1, Bystander
  <2>5. Place(c)'
    <3>1. Runs!Made(c)' = Runs!Made(c)
      BY <2>1 DEF Runs!Made
    <3>2. arLife'[arOwn[c]] # "serving"
      BY <1>0, <2>2 DEF Runs!Stop, Runs!Daemon!BeginEnd, Runs!TypeOK
    <3>3. arPc'[c] = "ended"
      BY <1>0, <1>5 DEF Runs!StopOwn, Runs!TypeOK
    <3> QED
      BY <1>0, <2>1, <2>2, <3>1, <3>2, <3>3 DEF Place
  <2> QED
    BY <1>0, <1>a, <2>1, <2>3, <2>4, <2>5 DEF AInv
<1>6. ASSUME NEW who \in arCreating, NEW s \in SessionIds, NEW m, Runs!Publish(who, s, m)
      PROVE AInv'
  <2>1. UNCHANGED <<arPc, arOwn, arApp, arKeep>> /\ arCreating' = arCreating \ {who}
    BY <1>6 DEF Runs!Publish, Runs!commandVars
  <2>2. /\ arLife[s] = "new" /\ arLife' = [arLife EXCEPT ![s] = "serving"] /\ arMaker[s] = None
        /\ arMaker' = [arMaker EXCEPT ![s] = IF who \in Commands THEN who ELSE None]
    BY <1>0, <1>6 DEF Runs!Publish, Runs!Daemon!Publish, MadeIsPublished
  <2>3. MadeIsPublished'
    BY <1>0, <2>2 DEF MadeIsPublished, Runs!TypeOK
  <2>4. ASSUME NEW d \in Commands, d # who PROVE Place(d)'
    <3>1. Runs!Made(d)' = Runs!Made(d) /\ s \notin Runs!Made(d)
      BY <1>0, <2>2, <2>4 DEF Runs!Made, Runs!TypeOK, Apart
    <3>2. \A t \in SessionIds : t # s => arLife'[t] = arLife[t]
      BY <1>0, <2>2 DEF Runs!TypeOK
    <3>3. arLife'[s] # "new"
      BY <1>0, <2>2 DEF Runs!TypeOK
    <3> QED
      BY <1>0, <1>c, <2>1, <3>1, <3>2, <3>3 DEF Place
  <2>5. ASSUME who \in Commands PROVE Place(who)'
    <3>1. Runs!Made(who) = {} /\ arPc[who] \in {"loading", "killed"} /\ arOwn[who] = None
      BY <1>0, <2>5 DEF Place
    <3>2. Runs!Made(who)' = {s}
      BY <1>0, <2>2, <2>5, <3>1 DEF Runs!Made, Runs!TypeOK
    <3> QED
      BY <2>1, <3>1, <3>2 DEF Place
  <2> QED
    BY <1>0, <2>3, <2>4, <2>5 DEF AInv
<1>7. ASSUME UNCHANGED <<arPc, arOwn, arApp, arKeep, arMaker>>, Quieter,
             \A d \in Commands : d \in arCreating' => d \in arCreating
      PROVE  AInv'
  BY <1>0, <1>a, <1>7, Bystander DEF AInv
<1>8. ASSUME NEW r \in Agents, NEW m \in LocalModels, Runs!Ensure(r, m) PROVE AInv'
  BY <1>7, <1>8, <1>b DEF Runs!Ensure, Runs!commandVars, Runs!observed, Apart
<1>9. ASSUME NEW r \in Agents, Runs!Endpoint(r) PROVE AInv'
  BY <1>7, <1>9, <1>b DEF Runs!Endpoint, Runs!commandVars, Runs!daemonVars
<1>10. ASSUME NEW who, Runs!CreateFails(who) PROVE AInv'
  BY <1>7, <1>10, <1>b DEF Runs!CreateFails, Runs!commandVars, Runs!observed
<1>11. ASSUME NEW s \in SessionIds, Runs!UserStops(s) \/ Runs!SessionEnds(s) PROVE AInv'
  <2>1. Quieter
    BY <1>0, <1>11, RunsQuiet
  <2> QED
    BY <1>7, <1>11, <2>1 DEF Runs!UserStops, Runs!SessionEnds, Runs!commandVars,
       Runs!observed
<1>12. ASSUME Runs!DaemonRestarts PROVE AInv'
  <2>1. Quieter
    BY <1>0, <1>12 DEF Runs!DaemonRestarts, Runs!Daemon!NextDaemon, Quieter, Runs!TypeOK
  <2> QED
    BY <1>7, <1>12, <2>1 DEF Runs!DaemonRestarts, Runs!commandVars, Runs!observed
<1>13. CASE UNCHANGED Runs!vars
  BY <1>7, <1>13, <1>b DEF Runs!vars, Runs!daemonVars, Runs!commandVars, Runs!observed
<1>14. ASSUME NEW c \in Commands, NEW s \in SessionIds, Runs!Created(c, s) PROVE AInv'
  BY <1>6, <1>14 DEF Runs!Created, Runs!Publish
<1>15. ASSUME NEW r \in Agents, NEW s \in SessionIds, Runs!Ensured(r, s) PROVE AInv'
  BY <1>6, <1>15 DEF Runs!Ensured, Runs!Publish
<1> QED
  BY <1>1, <1>2, <1>3, <1>4, <1>5, <1>8, <1>9, <1>10, <1>11, <1>12, <1>13, <1>14,
     <1>15, RunsSteps

\* Whatever else happens to its session, to the daemon and to other commands,
\* no command leaves a serving session behind, but for the reasons that
\* SessionsAccounted names (runCommand, runCodexApp: the deferred stops).
THEOREM NothingLeftBehind == SpecPeriphery => []SessionsAccounted
<1>1. AInv => Runs!SessionsAccounted
  BY DEF AInv, Place, Runs!Made, Runs!SessionsAccounted
<1> QED
  BY RunsApart, RunsBehaves, AInit, AStep, <1>1, PTL DEF Runs!Spec, SessionsAccounted

\* To the sessions of the daemon, commands and requests do only what
\* SessionContract allows, which Sessions implements (Manager.Create and Stop,
\* through the sessions API): a command that stops its session names one that
\* was created.
THEOREM KeepsTheContract == SpecPeriphery => Runs!Daemon!Spec
<1>1. Runs!Init => Runs!Daemon!Init
  BY DEF Runs!Init
<1>2. AInv /\ [Runs!Next]_(Runs!vars) => [Runs!Daemon!Next]_arLife
  <2> SUFFICES ASSUME AInv, [Runs!Next]_(Runs!vars) PROVE [Runs!Daemon!Next]_arLife
    OBVIOUS
  <2>1. ASSUME NEW c \in Commands, Runs!Command(c), ~Runs!StopOwn(c) PROVE UNCHANGED arLife
    BY <2>1 DEF Runs!Command, Runs!RunTool, Runs!RunCloudTool, Runs!RunClaudeApp, Runs!RunCodexApp,
       Runs!Run, Runs!Told, Runs!Refused, Runs!StartTool, Runs!StartCloudTool,
       Runs!ConfigureClaude, Runs!ConfigureCodex, Runs!SetupFails, Runs!ToolExits, Runs!Leave,
       Runs!StopLost, Runs!Kill, Runs!Goto, Runs!daemonVars
  <2>2. ASSUME NEW c \in Commands, Runs!StopOwn(c) PROVE [Runs!Daemon!Next]_arLife
    <3>1. arOwn[c] \in SessionIds
      BY <2>2 DEF AInv, Place, Runs!StopOwn
    <3> QED
      BY <2>2, <3>1 DEF Runs!StopOwn, Runs!Stop, Runs!Daemon!Next
  <2>3. ASSUME NEW s \in SessionIds,
               \/ \E c \in Commands : Runs!Created(c, s)
               \/ \E r \in Agents : Runs!Ensured(r, s)
               \/ Runs!UserStops(s) \/ Runs!SessionEnds(s)
        PROVE  Runs!Daemon!Next
    BY <2>3 DEF Runs!Created, Runs!Ensured, Runs!Publish, Runs!UserStops, Runs!SessionEnds,
       Runs!Daemon!Next
  <2>4. ASSUME NEW r \in Agents, Runs!Endpoint(r) \/ \E m \in LocalModels : Runs!Ensure(r, m)
        PROVE  UNCHANGED arLife
    BY <2>4 DEF Runs!Endpoint, Runs!Ensure, Runs!daemonVars
  <2>5. ASSUME NEW who \in Commands \cup Agents, Runs!CreateFails(who) PROVE UNCHANGED arLife
    BY <2>5 DEF Runs!CreateFails
  <2>6. CASE Runs!DaemonRestarts
    BY <2>6, Restarts DEF Runs!Daemon!Next
  <2>7. CASE UNCHANGED Runs!vars
    BY <2>7 DEF Runs!vars, Runs!daemonVars
  <2> QED
    BY <2>1, <2>2, <2>3, <2>4, <2>5, <2>6, <2>7 DEF Runs!Next, Runs!Request
<1> QED
  BY RunsApart, RunsBehaves, AInit, AStep, <1>1, <1>2, PTL
  DEF Runs!Spec, Runs!Daemon!Spec

-----------------------------------------------------------------------------
(* AgentRuns: sessions that requests are given *)

\* A handler in Create is waiting for it, a session that was given to a request
\* is published, and one over which a request was refused has gone.
Given ==
  /\ \A r \in Agents : r \in arCreating => arReq[r].at = "loading"
  /\ \A r \in Agents : arReq[r].at = "given" => arLife[arReq[r].session] # "new"
  /\ \A s \in arGone : arLife[s] \notin {"new", "serving"}

GInv == Runs!TypeOK /\ Given

LEMMA GInit == Runs!Init => GInv
  BY DEF Runs!Init, GInv, Given, Runs!TypeOK, Runs!Daemon!Init, Runs!Daemon!Stages,
     Runs!Idle

LEMMA GStep ==
  ASSUME Apart
  PROVE  GInv /\ [Runs!Next]_(Runs!vars) => GInv'
<1> SUFFICES ASSUME GInv, [Runs!Next]_(Runs!vars) PROVE GInv'
  OBVIOUS
<1>0. Runs!TypeOK /\ Runs!TypeOK' /\ Given
  BY RunsTypeStep DEF GInv
<1>b. ASSUME UNCHANGED arLife PROVE Quieter
  BY <1>b DEF Quieter
<1>1. ASSUME UNCHANGED <<arReq, arGone>>, Quieter,
             \A r \in Agents : r \in arCreating' => r \in arCreating
      PROVE  GInv'
  BY <1>0, <1>1 DEF GInv, Given, Quieter, Runs!TypeOK
<1>2. ASSUME NEW c \in Commands, Starts(c) PROVE GInv'
  <2>1. PICK m \in LocalModels \cup CloudModels, what \in {"tool", "codex-app", "claude-app"} :
          Runs!Run(c, what, m)
    BY <1>2, StartsRun
  <2>2. c \notin Agents
    BY Apart DEF Apart
  <2> QED
    BY <1>1, <1>b, <2>1, <2>2 DEF Runs!Run, Runs!observed
<1>3. ASSUME NEW c \in Commands, CommandMoves(c) PROVE GInv'
  <2>1. UNCHANGED <<arLife, arReq, arGone, arCreating>>
    BY <1>3, MovesGo DEF Runs!Goto, Runs!daemonVars, Runs!observed
  <2> QED
    BY <1>1, <1>b, <2>1
<1>4. ASSUME NEW c \in Commands, NEW s, Runs!Refused(c) \/ Runs!Told(c, s) PROVE GInv'
  BY <1>1, <1>4, <1>b DEF Runs!Refused, Runs!Told, Runs!daemonVars, Runs!observed
<1>5. ASSUME NEW c \in Commands, Runs!StopOwn(c) PROVE GInv'
  <2>1. Quieter
    BY <1>0, <1>5 DEF Runs!StopOwn, Runs!Stop, Quieter, Runs!Daemon!BeginEnd, Runs!TypeOK
  <2> QED
    BY <1>1, <1>5, <2>1 DEF Runs!StopOwn, Runs!observed
<1>6. ASSUME NEW c \in Commands, NEW s \in SessionIds, Runs!Created(c, s) PROVE GInv'
  BY <1>0, <1>6 DEF GInv, Given, Runs!Created, Runs!Publish, Runs!Daemon!Publish,
     Runs!TypeOK
<1>7. ASSUME NEW r \in Agents, NEW m \in LocalModels, Runs!Ensure(r, m) PROVE GInv'
  <2>1. /\ UNCHANGED <<arLife, arGone>>
        /\ r \in arCreating' => arReq'[r].at = "loading"
        /\ \E e : arReq' = [arReq EXCEPT ![r] = e]
        /\ arReq'[r].at = "given" => arLife[arReq'[r].session] # "new"
    BY <1>0, <1>7 DEF Given, Runs!Ensure, Runs!Serving, Runs!observed, Runs!TypeOK
  <2>2. \A q \in Agents : q \in arCreating' => q \in arCreating \/ q = r
    BY <1>7 DEF Runs!Ensure
  <2>3. \A q \in Agents \ {r} : arReq'[q] = arReq[q]
    BY <1>0, <2>1 DEF Runs!TypeOK
  <2>4. Given'
    <3>1. \A q \in Agents : q \in arCreating' => arReq'[q].at = "loading"
      BY <1>0, <2>1, <2>2, <2>3 DEF Given
    <3>2. \A q \in Agents : arReq'[q].at = "given" => arLife'[arReq'[q].session] # "new"
      BY <1>0, <2>1, <2>3 DEF Given
    <3>3. \A s \in arGone' : arLife'[s] \notin {"new", "serving"}
      BY <1>0, <2>1 DEF Given
    <3> QED
      BY <3>1, <3>2, <3>3 DEF Given
  <2> QED
    BY <1>0, <2>4 DEF GInv
<1>8. ASSUME NEW r \in Agents, NEW s \in SessionIds, Runs!Ensured(r, s) PROVE GInv'
  <2>1. /\ arReq' = [arReq EXCEPT ![r].at = "given", ![r].session = s]
        /\ arLife' = [arLife EXCEPT ![s] = "serving"] /\ arLife[s] = "new"
        /\ arCreating' = arCreating \ {r} /\ UNCHANGED arGone
    BY <1>8 DEF Runs!Ensured, Runs!Publish, Runs!Daemon!Publish
  <2>2. /\ arReq'[r].at = "given" /\ arReq'[r].session = s /\ arLife'[s] = "serving"
        /\ \A q \in Agents \ {r} : arReq'[q] = arReq[q]
        /\ \A t \in SessionIds \ {s} : arLife'[t] = arLife[t]
    BY <1>0, <2>1 DEF Runs!TypeOK
  <2>3. Given'
    <3>1. \A q \in Agents : q \in arCreating' => arReq'[q].at = "loading"
      BY <1>0, <2>1, <2>2 DEF Given
    <3>2. \A q \in Agents : arReq'[q].at = "given" => arLife'[arReq'[q].session] # "new"
      BY <1>0, <2>1, <2>2 DEF Given, Runs!TypeOK
    <3>3. \A t \in arGone' : arLife'[t] \notin {"new", "serving"}
      BY <1>0, <2>1, <2>2 DEF Given, Runs!TypeOK
    <3> QED
      BY <3>1, <3>2, <3>3 DEF Given
  <2> QED
    BY <1>0, <2>3 DEF GInv
<1>9. ASSUME NEW r \in Agents, Runs!Endpoint(r) PROVE GInv'
  BY <1>0, <1>9 DEF GInv, Given, Runs!Endpoint, Runs!Idle, Runs!daemonVars, Runs!TypeOK
<1>10. ASSUME NEW who, Runs!CreateFails(who) PROVE GInv'
  BY <1>0, <1>10 DEF GInv, Given, Runs!CreateFails, Runs!Idle, Runs!observed, Runs!TypeOK
<1>11. ASSUME NEW s \in SessionIds, Runs!UserStops(s) \/ Runs!SessionEnds(s) PROVE GInv'
  <2>1. Quieter
    BY <1>0, <1>11, RunsQuiet
  <2> QED
    BY <1>1, <1>11, <2>1 DEF Runs!UserStops, Runs!SessionEnds, Runs!observed
<1>12. ASSUME Runs!DaemonRestarts PROVE GInv'
  <2>1. Runs!Daemon!NextDaemon
    BY <1>12, Restarts
  <2>2. /\ arReq' = [r \in Agents |-> Runs!Idle] /\ arCreating' = {} /\ UNCHANGED arGone
        /\ Runs!TypeOK'
    BY <1>0, <1>12, RunsTypeStep DEF Runs!DaemonRestarts, Runs!observed, Runs!Next
  <2> QED
    BY <1>0, <2>1, <2>2 DEF GInv, Given, Runs!Daemon!NextDaemon, Runs!Idle, Runs!TypeOK
<1>13. CASE UNCHANGED Runs!vars
  BY <1>1, <1>13, <1>b DEF Runs!vars, Runs!daemonVars, Runs!observed
<1> QED
  BY <1>2, <1>3, <1>4, <1>5, <1>6, <1>7, <1>8, <1>9, <1>10, <1>11, <1>12, <1>13, RunsSteps

\* A request is given a session at once by Ensure only.
LEMMA GivenByEnsure ==
  ASSUME GInv, [Runs!Next]_(Runs!vars), NEW r \in Agents, arReq[r].at = "idle", arReq'[r].at = "given"
  PROVE  \E m \in LocalModels : Runs!Ensure(r, m)
<1>0. Runs!TypeOK /\ Given
  BY DEF GInv
<1>1. ASSUME UNCHANGED arReq PROVE FALSE
  BY <1>1
<1>2. ASSUME NEW c \in Commands, Starts(c) PROVE UNCHANGED arReq
  <2>1. PICK m, what : Runs!Run(c, what, m)
    BY <1>2, StartsRun
  <2> QED
    BY <2>1 DEF Runs!Run
<1>3. ASSUME NEW c \in Commands, CommandMoves(c) PROVE UNCHANGED arReq
  BY <1>3, MovesGo DEF Runs!Goto
<1>4. ASSUME NEW c \in Commands, NEW s, Runs!Refused(c) \/ Runs!Told(c, s) \/ Runs!StopOwn(c) \/ Runs!Created(c, s)
      PROVE  UNCHANGED arReq
  BY <1>4 DEF Runs!Refused, Runs!Told, Runs!StopOwn, Runs!Created
<1>5. ASSUME NEW d \in Agents, NEW m \in LocalModels, Runs!Ensure(d, m) PROVE d = r
  BY <1>0, <1>5 DEF Runs!Ensure, Runs!TypeOK
<1>6. ASSUME NEW d \in Agents, NEW s \in SessionIds, Runs!Ensured(d, s) PROVE FALSE
  BY <1>0, <1>6 DEF Runs!Ensured, Runs!Publish, Given, Runs!TypeOK
<1>7. ASSUME NEW d \in Agents, Runs!Endpoint(d) PROVE FALSE
  BY <1>0, <1>7 DEF Runs!Endpoint, Runs!Idle, Runs!TypeOK
<1>8. ASSUME NEW who, Runs!CreateFails(who) PROVE FALSE
  BY <1>0, <1>8 DEF Runs!CreateFails, Runs!Idle, Runs!TypeOK
<1>9. ASSUME NEW s \in SessionIds, Runs!UserStops(s) \/ Runs!SessionEnds(s)
      PROVE UNCHANGED arReq
  BY <1>9 DEF Runs!UserStops, Runs!SessionEnds
<1>10. ASSUME Runs!DaemonRestarts PROVE FALSE
  BY <1>10 DEF Runs!DaemonRestarts, Runs!Idle
<1>11. CASE UNCHANGED Runs!vars
  BY <1>1, <1>11 DEF Runs!vars
<1> QED
  BY <1>1, <1>2, <1>3, <1>4, <1>5, <1>6, <1>7, <1>8, <1>9, <1>10, <1>11, RunsSteps

\* A request that was refused may ask again: no later request is given the
\* session it was refused over (chatCompletions: Ensure and Endpoint).
THEOREM AskingAgainHelps == SpecPeriphery => RefusedForGood
<1>1. ASSUME GInv, [Runs!Next]_(Runs!vars), NEW r \in Agents, arReq[r].at = "idle", arReq'[r].at = "given"
      PROVE  arReq'[r].session \notin arGone
  <2>1. PICK m \in LocalModels : Runs!Ensure(r, m)
    BY <1>1, GivenByEnsure
  <2>2. PICK s \in Runs!Serving(m) :
          arReq' = [arReq EXCEPT ![r] = [at |-> "given", model |-> m, session |-> s]]
    BY <1>1, <2>1 DEF Runs!Ensure, GInv, Runs!TypeOK
  <2>3. arReq'[r].session = s
    BY <1>1, <2>2 DEF GInv, Runs!TypeOK
  <2> QED
    BY <1>1, <2>2, <2>3 DEF GInv, Given, Runs!Serving
<1>2. GInv /\ [Runs!Next]_(Runs!vars) =>
        [\A r \in Agents : arReq[r].at = "idle" /\ arReq'[r].at = "given"
           => arReq'[r].session \notin arGone]_(Runs!vars)
  BY <1>1
<1> QED
  BY RunsApart, RunsBehaves, GInit, GStep, <1>2, PTL
  DEF Runs!Spec, Runs!RefusedForGood, RefusedForGood

-----------------------------------------------------------------------------
(* AgentRuns: how often requests load a model *)

Lent(m)    == {s \in Runs!Serving(m) : arMaker[s] = None}
Loading(m) == {r \in Agents : arReq[r].at = "loading" /\ arReq[r].model = m}
Bounded(m) == Cardinality(Lent(m)) + Cardinality(Loading(m)) <= Cardinality(Agents)

\* The instance has the Cardinality of FiniteSets.
LEMMA SameCardinality ==
  ASSUME NEW S
  PROVE  Runs!Cardinality(S) = Cardinality(S)
  BY DEF Runs!Cardinality, Cardinality

LEMMA FiniteSides ==
  ASSUME Finite, NEW m
  PROVE  /\ IsFiniteSet(Lent(m)) /\ IsFiniteSet(Loading(m))
         /\ Cardinality(Lent(m)) \in Nat
         /\ Cardinality(Loading(m)) \in Nat /\ Cardinality(Agents) \in Nat
         /\ Cardinality(Loading(m)) <= Cardinality(Agents)
<1>1. Lent(m) \in SUBSET SessionIds /\ Loading(m) \in SUBSET Agents
  BY DEF Lent, Loading, Runs!Serving
<1>2. IsFiniteSet(Lent(m)) /\ IsFiniteSet(Loading(m))
      /\ Cardinality(Loading(m)) <= Cardinality(Agents)
  BY <1>1, FS_Subset DEF Finite
<1> QED
  BY <1>2, FS_CardinalityType DEF Finite

\* The bound survives a step that adds to neither side ...
LEMMA Shrinks ==
  ASSUME Finite, NEW m, Bounded(m), Lent(m)' \subseteq Lent(m),
         Loading(m)' \subseteq Loading(m)
  PROVE  Bounded(m)'
<1> DEFINE lent == Lent(m)'  waiting == Loading(m)'
<1>1. /\ IsFiniteSet(lent) /\ Cardinality(lent) <= Cardinality(Lent(m))
      /\ IsFiniteSet(waiting) /\ Cardinality(waiting) <= Cardinality(Loading(m))
  BY FiniteSides, FS_Subset
<1>2. Cardinality(lent) \in Nat /\ Cardinality(waiting) \in Nat
  BY <1>1, FS_CardinalityType
<1>3. Cardinality(lent) + Cardinality(waiting) <= Cardinality(Agents)
  <2> HIDE DEF lent, waiting
  <2> QED
    BY <1>1, <1>2, FiniteSides DEF Bounded
<1> QED
  BY <1>3 DEF Bounded

\* ... one that gives a session to a request that has waited for it ...
LEMMA Lends ==
  ASSUME Finite, NEW m, Bounded(m), NEW s, NEW r \in Loading(m),
         Lent(m)' \subseteq Lent(m) \cup {s}, Loading(m)' \subseteq Loading(m) \ {r}
  PROVE  Bounded(m)'
<1> DEFINE lent == Lent(m)'  waiting == Loading(m)'
           more == Lent(m) \cup {s}  fewer == Loading(m) \ {r}
<1>1. /\ IsFiniteSet(more) /\ Cardinality(more) <= Cardinality(Lent(m)) + 1
      /\ Cardinality(more) \in Nat
  <2>1. IsFiniteSet(Lent(m)) /\ Cardinality(Lent(m)) \in Nat
    BY FiniteSides
  <2>2. /\ IsFiniteSet(more)
        /\ Cardinality(more) = IF s \in Lent(m) THEN Cardinality(Lent(m)) ELSE Cardinality(Lent(m)) + 1
    BY <2>1, FS_AddElement
  <2> HIDE DEF more
  <2> QED
    BY <2>1, <2>2
<1>2. /\ IsFiniteSet(fewer) /\ Cardinality(fewer) = Cardinality(Loading(m)) - 1
      /\ Cardinality(fewer) \in Nat
  BY FiniteSides, FS_RemoveElement, FS_CardinalityType
<1> HIDE DEF more, fewer
<1>3. lent \in SUBSET more /\ waiting \in SUBSET fewer
  BY DEF more, fewer
<1> HIDE DEF lent, waiting
<1>4. /\ Cardinality(lent) \in Nat /\ Cardinality(lent) <= Cardinality(more)
      /\ Cardinality(waiting) \in Nat /\ Cardinality(waiting) <= Cardinality(fewer)
  BY <1>1, <1>2, <1>3, FS_Subset, FS_CardinalityType
<1>5. Cardinality(lent) + Cardinality(waiting) <= Cardinality(Agents)
  BY <1>1, <1>2, <1>4, FiniteSides DEF Bounded
<1> QED
  BY <1>5 DEF Bounded, lent, waiting

\* ... and one that finds no session and makes a request wait.
LEMMA Waits ==
  ASSUME Finite, NEW m, Lent(m)' = {}
  PROVE  Bounded(m)'
<1> DEFINE lent == Lent(m)'  waiting == Loading(m)'
<1>1. waiting \in SUBSET Agents
  BY DEF Loading
<1>2. Cardinality(lent) = 0
  BY FS_EmptySet
<1> HIDE DEF lent, waiting
<1>3. IsFiniteSet(waiting) /\ Cardinality(waiting) <= Cardinality(Agents)
  BY <1>1, FS_Subset DEF Finite
<1>4. Cardinality(waiting) \in Nat /\ Cardinality(Agents) \in Nat
  BY <1>3, FS_CardinalityType DEF Finite
<1>5. Cardinality(lent) + Cardinality(waiting) <= Cardinality(Agents)
  BY <1>2, <1>3, <1>4
<1> QED
  BY <1>5 DEF Bounded, lent, waiting

LEMMA BStep ==
  ASSUME Apart, Finite
  PROVE  GInv /\ Runs!LoadsBounded /\ [Runs!Next]_(Runs!vars) => Runs!LoadsBounded'
<1> SUFFICES ASSUME GInv, Runs!LoadsBounded, [Runs!Next]_(Runs!vars), NEW m \in LocalModels
             PROVE  Bounded(m)'
  BY SameCardinality DEF Runs!LoadsBounded, Bounded, Lent, Loading
<1>0. Runs!TypeOK /\ Given /\ Bounded(m)
  BY SameCardinality DEF GInv, Runs!LoadsBounded, Bounded, Lent, Loading
<1>b. ASSUME UNCHANGED arLife PROVE Quieter
  BY <1>b DEF Quieter
<1>1. ASSUME UNCHANGED <<arModel, arMaker>>, Quieter, Loading(m)' \subseteq Loading(m)
      PROVE  Bounded(m)'
  <2>1. Lent(m)' \subseteq Lent(m)
    BY <1>1 DEF Lent, Runs!Serving, Quieter
  <2> QED
    BY <1>0, <1>1, <2>1, Shrinks
<1>2. ASSUME UNCHANGED <<arModel, arMaker, arReq>>, Quieter PROVE Bounded(m)'
  BY <1>1, <1>2 DEF Loading
<1>3. ASSUME NEW c \in Commands, Starts(c) PROVE Bounded(m)'
  <2>1. PICK n, what : Runs!Run(c, what, n)
    BY <1>3, StartsRun
  <2> QED
    BY <1>2, <1>b, <2>1 DEF Runs!Run, Runs!observed
<1>4. ASSUME NEW c \in Commands, CommandMoves(c) PROVE Bounded(m)'
  <2>1. UNCHANGED <<arLife, arModel, arMaker, arReq>>
    BY <1>4, MovesGo DEF Runs!Goto, Runs!daemonVars, Runs!observed
  <2> QED
    BY <1>2, <1>b, <2>1
<1>5. ASSUME NEW c \in Commands, NEW s, Runs!Refused(c) \/ Runs!Told(c, s)
      PROVE Bounded(m)'
  BY <1>2, <1>5, <1>b DEF Runs!Refused, Runs!Told, Runs!daemonVars, Runs!observed
<1>6. ASSUME NEW c \in Commands, Runs!StopOwn(c) PROVE Bounded(m)'
  <2>1. Quieter
    BY <1>0, <1>6 DEF Runs!StopOwn, Runs!Stop, Quieter, Runs!Daemon!BeginEnd, Runs!TypeOK
  <2> QED
    BY <1>2, <1>6, <2>1 DEF Runs!StopOwn, Runs!observed
<1>7. ASSUME NEW c \in Commands, NEW s \in SessionIds, Runs!Created(c, s)
      PROVE Bounded(m)'
  <2>1. Lent(m)' \subseteq Lent(m)
    BY <1>0, <1>7, Apart DEF Runs!Created, Runs!Publish, Runs!Daemon!Publish, Lent,
       Runs!Serving, Runs!TypeOK, Apart
  <2>2. Loading(m)' \subseteq Loading(m)
    BY <1>7 DEF Runs!Created, Loading
  <2> QED
    BY <1>0, <2>1, <2>2, Shrinks
<1>8. ASSUME NEW r \in Agents, NEW n \in LocalModels, Runs!Ensure(r, n) PROVE Bounded(m)'
  <2>1. UNCHANGED <<arLife, arModel, arMaker>>
    BY <1>8 DEF Runs!Ensure, Runs!observed
  <2>2. CASE arReq'[r].at = "given" \/ n # m
    <3>1. Loading(m)' \subseteq Loading(m)
      BY <1>0, <1>8, <2>2 DEF Runs!Ensure, Loading, Runs!TypeOK
    <3> QED
      BY <1>1, <1>b, <2>1, <3>1
  <2>3. CASE arReq'[r].at # "given" /\ n = m
    <3>1. Runs!Serving(m) = {}
      BY <1>0, <1>8, <2>3 DEF Runs!Ensure, Runs!TypeOK
    <3>2. Lent(m)' = {}
      BY <2>1, <3>1 DEF Lent, Runs!Serving
    <3> QED
      BY <3>2, Waits
  <2> QED
    BY <2>2, <2>3
<1>9. ASSUME NEW r \in Agents, NEW s \in SessionIds, Runs!Ensured(r, s) PROVE Bounded(m)'
  <2>1. r \notin Commands /\ arReq[r].at = "loading" /\ Runs!Publish(r, s, arReq[r].model)
    BY <1>0, <1>9, Apart DEF Runs!Ensured, Runs!Publish, Given, Apart
  <2>2. arReq' = [arReq EXCEPT ![r].at = "given", ![r].session = s]
    BY <1>9 DEF Runs!Ensured
  <2>3. CASE arReq[r].model = m
    <3>1. r \in Loading(m)
      BY <2>1, <2>3 DEF Loading
    <3>2. Lent(m)' \subseteq Lent(m) \cup {s}
      BY <1>0, <2>1 DEF Runs!Publish, Runs!Daemon!Publish, Lent, Runs!Serving, Runs!TypeOK
    <3>3. Loading(m)' \subseteq Loading(m) \ {r}
      BY <1>0, <2>2 DEF Loading, Runs!TypeOK
    <3> QED
      BY <1>0, <3>1, <3>2, <3>3, Lends
  <2>4. CASE arReq[r].model # m
    <3>1. Lent(m)' \subseteq Lent(m)
      BY <1>0, <2>1, <2>4 DEF Runs!Publish, Runs!Daemon!Publish, Lent, Runs!Serving,
         Runs!TypeOK
    <3>2. Loading(m)' \subseteq Loading(m)
      BY <1>0, <2>2 DEF Loading, Runs!TypeOK
    <3> QED
      BY <1>0, <3>1, <3>2, Shrinks
  <2> QED
    BY <2>3, <2>4
<1>10. ASSUME NEW r \in Agents, Runs!Endpoint(r) PROVE Bounded(m)'
  <2>1. Loading(m)' \subseteq Loading(m)
    BY <1>0, <1>10 DEF Runs!Endpoint, Loading, Runs!Idle, Runs!TypeOK
  <2> QED
    BY <1>1, <1>10, <1>b, <2>1 DEF Runs!Endpoint, Runs!daemonVars
<1>11. ASSUME NEW who, Runs!CreateFails(who) PROVE Bounded(m)'
  <2>1. Loading(m)' \subseteq Loading(m)
    BY <1>0, <1>11 DEF Runs!CreateFails, Loading, Runs!Idle, Runs!TypeOK
  <2> QED
    BY <1>1, <1>11, <1>b, <2>1 DEF Runs!CreateFails, Runs!observed
<1>12. ASSUME NEW s \in SessionIds, Runs!UserStops(s) \/ Runs!SessionEnds(s)
       PROVE Bounded(m)'
  <2>1. Quieter
    BY <1>0, <1>12, RunsQuiet
  <2> QED
    BY <1>2, <1>12, <2>1 DEF Runs!UserStops, Runs!SessionEnds, Runs!observed
<1>13. ASSUME Runs!DaemonRestarts PROVE Bounded(m)'
  <2>1. Quieter
    BY <1>0, <1>13, Restarts DEF Runs!Daemon!NextDaemon, Quieter, Runs!TypeOK
  <2>2. Loading(m)' \subseteq Loading(m)
    BY <1>13 DEF Runs!DaemonRestarts, Loading, Runs!Idle
  <2> QED
    BY <1>1, <1>13, <2>1, <2>2 DEF Runs!DaemonRestarts, Runs!observed
<1>14. CASE UNCHANGED Runs!vars
  BY <1>2, <1>14, <1>b DEF Runs!vars, Runs!daemonVars, Runs!observed
<1> QED
  BY <1>3, <1>4, <1>5, <1>6, <1>7, <1>8, <1>9, <1>10, <1>11, <1>12, <1>13, <1>14,
     RunsSteps

\* However requests meet between Ensure's look at the sessions and Create, they
\* load no model more often than there are requests at a time.
THEOREM LoadsAreBounded == SpecPeriphery => []LoadsBounded
<1>1. Runs!Init => Runs!LoadsBounded
  <2> SUFFICES ASSUME Runs!Init, NEW m \in LocalModels PROVE Bounded(m)
    BY SameCardinality DEF Runs!LoadsBounded, Bounded, Lent, Loading
  <2>1. Lent(m) = {} /\ Loading(m) = {}
    BY DEF Runs!Init, Lent, Loading, Runs!Serving, Runs!Daemon!Init, Runs!Idle
  <2> QED
    BY <2>1, RunsApart, FS_EmptySet, FiniteSides DEF Bounded
<1> QED
  BY RunsApart, RunsBehaves, GInit, GStep, BStep, <1>1, PTL DEF Runs!Spec, LoadsBounded

-----------------------------------------------------------------------------
(* EventBroker *)

EventBounds == Capacity \in Nat /\ MaxEvents \in Nat /\ MaxClients \in Nat

\* The events from a to b, without a.
After(a, b) == [i \in 1..(b - a) |-> a + i]

LEMMA NothingAfter ==
  ASSUME NEW a \in Nat
  PROVE  After(a, a) = <<>>
<1>1. 1..(a - a) = {}
  OBVIOUS
<1> QED
  BY <1>1 DEF After

LEMMA AfterIsSequence ==
  ASSUME NEW b \in Nat, NEW a \in 0..b
  PROVE  /\ After(a, b) \in Seq(Nat) /\ Len(After(a, b)) = b - a
         /\ \A i \in 1..(b - a) : After(a, b)[i] = a + i
<1>1. b - a \in Nat /\ \A i \in 1..(b - a) : a + i \in Nat
  OBVIOUS
<1>2. After(a, b) \in [1..(b - a) -> Nat]
  BY <1>1 DEF After
<1> QED
  BY <1>1, <1>2 DEF After

\* The next event, appended, or the first one taken away.
LEMMA OneMore ==
  ASSUME NEW b \in Nat, NEW a \in 0..b
  PROVE  Append(After(a, b), b + 1) = After(a, b + 1)
<1> DEFINE s == After(a, b)
           t == After(a, b + 1)
<1>0. b + 1 \in Nat /\ a \in 0..(b + 1)
  OBVIOUS
<1>1. /\ s \in Seq(Nat) /\ Len(s) = b - a /\ \A i \in 1..(b - a) : s[i] = a + i
      /\ t \in Seq(Nat) /\ Len(t) = b + 1 - a /\ \A i \in 1..(b + 1 - a) : t[i] = a + i
  <2>1. /\ s \in Seq(Nat) /\ Len(s) = b - a /\ \A i \in 1..(b - a) : s[i] = a + i
    BY AfterIsSequence
  <2> DEFINE c == b + 1
  <2>2. c \in Nat /\ a \in 0..c
    BY <1>0
  <2> HIDE DEF c
  <2>3. /\ After(a, c) \in Seq(Nat) /\ Len(After(a, c)) = c - a
        /\ \A i \in 1..(c - a) : After(a, c)[i] = a + i
    BY <2>2, AfterIsSequence
  <2> QED
    BY <2>1, <2>3 DEF c
<1> HIDE DEF s, t
<1>2. Append(s, b + 1) \in Seq(Nat) /\ Len(Append(s, b + 1)) = Len(t)
  BY <1>1
<1>3. ASSUME NEW i \in 1..Len(t) PROVE Append(s, b + 1)[i] = t[i]
  BY <1>1, <1>3
<1>4. Append(s, b + 1) = t
  BY <1>1, <1>2, <1>3, SeqEqual
<1> QED
  BY <1>4 DEF s, t

LEMMA OneLess ==
  ASSUME NEW b \in Nat, NEW a \in 0..b, a # b
  PROVE  /\ After(a, b)[1] = a + 1
         /\ Tail(After(a, b)) = After(a + 1, b)
<1> DEFINE s == After(a, b)
           t == After(a + 1, b)
<1>0. a + 1 \in 0..b
  OBVIOUS
<1>1. /\ s \in Seq(Nat) /\ Len(s) = b - a /\ \A i \in 1..(b - a) : s[i] = a + i
      /\ t \in Seq(Nat) /\ Len(t) = b - (a + 1)
      /\ \A i \in 1..(b - (a + 1)) : t[i] = a + 1 + i
  BY <1>0, AfterIsSequence
<1> HIDE DEF s, t
<1>2. s # <<>> /\ Tail(s) \in Seq(Nat) /\ Len(Tail(s)) = Len(t)
  BY <1>0, <1>1
<1>3. ASSUME NEW i \in 1..Len(t) PROVE Tail(s)[i] = t[i]
  <2>1. Tail(s)[i] = s[i + 1] /\ i + 1 \in 1..(b - a)
    BY <1>0, <1>1, <1>2, <1>3
  <2> QED
    BY <1>1, <1>3, <2>1
<1>4. Tail(s) = t
  BY <1>1, <1>2, <1>3, SeqEqual
<1>5. s[1] = a + 1
  BY <1>0, <1>1
<1> QED
  BY <1>4, <1>5 DEF s, t

-----------------------------------------------------------------------------
(* The invariant *)

\* Whoever has subscribed, its channel is open and holds events that were
\* published, and all that it has not seen unless it was full at some time.
InChannel(id) ==
  /\ evChannel[id] \in Seq(0..evEvents) /\ Len(evChannel[id]) <= Capacity
  /\ id \notin evSubscribers => evChannel[id] = <<>>
  /\ id \in evSubscribers => id \notin evIsClosed
  /\ id \in evSubscribers \ evOverflowed => evChannel[id] = After(evSeen[id], evEvents)

EInv ==
  /\ evEvents \in 0..MaxEvents /\ evNext \in 0..MaxClients
  /\ evSubscribers \subseteq 0..(evNext - 1) /\ evIsClosed \subseteq 0..(evNext - 1)
  /\ evOverflowed \subseteq Events!Clients /\ evSeen \in [Events!Clients -> 0..evEvents]
  /\ evChannel = [id \in Events!Clients |-> evChannel[id]]
  /\ \A id \in Events!Clients : InChannel(id)

LEMMA Started ==
  ASSUME EventBounds
  PROVE  /\ Events!Init => EInv
         /\ Events!Restart => EInv'
<1>1. <<>> \in Seq(0..0) /\ Len(<<>>) = 0
  OBVIOUS
<1>2. Events!Init => EInv
  BY <1>1 DEF EventBounds, Events!Init, EInv, InChannel
<1>3. Events!Restart => EInv'
  BY <1>1 DEF EventBounds, Events!Restart, EInv, InChannel
<1> QED
  BY <1>2, <1>3

LEMMA PublishKeeps ==
  ASSUME EventBounds, EInv, Events!Publish
  PROVE  EInv'
<1>1. /\ evEvents \in Nat /\ evEvents' = evEvents + 1 /\ evEvents' \in 0..MaxEvents
      /\ UNCHANGED <<evNext, evSubscribers, evSeen, evIsClosed>>
      /\ evChannel' = [id \in Events!Clients |->
           IF id \in evSubscribers /\ Events!Room(id)
             THEN Append(evChannel[id], evEvents + 1) ELSE evChannel[id]]
      /\ evOverflowed' = evOverflowed \cup {id \in evSubscribers : Len(evChannel[id]) = Capacity}
  BY DEF EventBounds, EInv, Events!Publish
<1>2. evSeen' \in [Events!Clients -> 0..evEvents'] /\ evSubscribers \subseteq Events!Clients
  BY <1>1 DEF EInv, Events!Clients, EventBounds
<1>3. ASSUME NEW id \in Events!Clients PROVE InChannel(id)'
  <2>1. /\ evChannel[id] \in Seq(0..evEvents) /\ Len(evChannel[id]) <= Capacity
        /\ evChannel[id] \in Seq(0..evEvents') /\ Len(evChannel[id]) \in Nat
    <3>1. evChannel[id] \in Seq(0..evEvents) /\ Len(evChannel[id]) <= Capacity
      BY DEF EInv, InChannel
    <3>2. 0..evEvents \subseteq 0..evEvents'
      BY <1>1
    <3>3. evChannel[id] \in Seq(0..evEvents')
      BY <3>1, <3>2, SeqMonotonic
    <3> QED
      BY <3>1, <3>3
  <2>2. CASE id \in evSubscribers /\ Events!Room(id)
    <3>1. evChannel'[id] = Append(evChannel[id], evEvents + 1)
      BY <1>1, <2>2
    <3>2. evChannel'[id] \in Seq(0..evEvents') /\ Len(evChannel'[id]) <= Capacity
      <4>1. evEvents + 1 \in 0..evEvents'
        BY <1>1
      <4>2. evChannel'[id] \in Seq(0..evEvents') /\ Len(evChannel'[id]) = Len(evChannel[id]) + 1
        BY <2>1, <3>1, <4>1, AppendProperties
      <4> QED
        BY <2>1, <2>2, <4>2 DEF Events!Room, EventBounds
    <3>3. ASSUME id \notin evOverflowed
          PROVE evChannel'[id] = After(evSeen[id], evEvents')
      <4>1. evChannel[id] = After(evSeen[id], evEvents) /\ evSeen[id] \in 0..evEvents
        BY <2>2, <3>3 DEF EInv, InChannel
      <4> QED
        BY <1>1, <3>1, <4>1, OneMore
    <3> QED
      BY <1>1, <2>2, <3>2, <3>3 DEF EInv, InChannel
  <2>3. CASE ~(id \in evSubscribers /\ Events!Room(id))
    <3>1. evChannel'[id] = evChannel[id]
      BY <1>1, <2>3
    <3>2. id \in evSubscribers => id \in evOverflowed'
      BY <1>1, <2>1, <2>3 DEF Events!Room, EventBounds
    <3> QED
      BY <1>1, <2>1, <3>1, <3>2 DEF EInv, InChannel
  <2> QED
    BY <2>2, <2>3
<1> QED
  BY <1>1, <1>2, <1>3 DEF EInv

LEMMA SubscribeKeeps ==
  ASSUME EventBounds, EInv, Events!Subscribe
  PROVE  EInv'
<1>1. /\ evNext \in Events!Clients /\ evNext' = evNext + 1 /\ evNext' \in 0..MaxClients
      /\ evEvents \in Nat /\ evEvents' = evEvents
      /\ evSubscribers' = evSubscribers \cup {evNext} /\ evNext \notin evSubscribers
      /\ evNext \notin evIsClosed /\ evSeen' = [evSeen EXCEPT ![evNext] = evEvents]
      /\ UNCHANGED <<evChannel, evIsClosed, evOverflowed>>
  BY DEF EventBounds, EInv, Events!Subscribe, Events!Clients
<1>2. /\ evSubscribers' \subseteq 0..(evNext' - 1) /\ evIsClosed' \subseteq 0..(evNext' - 1)
      /\ evSeen' \in [Events!Clients -> 0..evEvents']
  BY <1>1 DEF EInv
<1>3. ASSUME NEW id \in Events!Clients PROVE InChannel(id)'
  <2>1. CASE id = evNext
    <3>1. evChannel[id] = <<>> /\ evSeen'[id] = evEvents
      BY <1>1, <2>1 DEF EInv, InChannel
    <3>2. evChannel'[id] = After(evSeen'[id], evEvents')
      BY <1>1, <3>1, NothingAfter
    <3> QED
      BY <1>1, <2>1, <3>2 DEF EInv, InChannel
  <2>2. CASE id # evNext
    BY <1>1, <2>2 DEF EInv, InChannel
  <2> QED
    BY <2>1, <2>2
<1> QED
  BY <1>1, <1>2, <1>3 DEF EInv

LEMMA DeliverKeeps ==
  ASSUME EventBounds, EInv, NEW id \in Events!Clients, Events!Deliver(id)
  PROVE  EInv'
<1>1. /\ id \in evSubscribers /\ evChannel[id] # <<>>
      /\ evSeen' = [evSeen EXCEPT ![id] = evChannel[id][1]]
      /\ evChannel' = [evChannel EXCEPT ![id] = Tail(evChannel[id])]
      /\ UNCHANGED <<evEvents, evNext, evSubscribers, evIsClosed, evOverflowed>>
  BY DEF Events!Deliver
<1>2. /\ evChannel[id] \in Seq(0..evEvents) /\ Len(evChannel[id]) <= Capacity
      /\ evChannel[id][1] \in 0..evEvents /\ Tail(evChannel[id]) \in Seq(0..evEvents)
      /\ Len(Tail(evChannel[id])) <= Capacity
  <2>1. evChannel[id] \in Seq(0..evEvents) /\ Len(evChannel[id]) <= Capacity
    BY DEF EInv, InChannel
  <2>2. Len(evChannel[id]) \in Nat /\ Len(evChannel[id]) > 0
    BY <1>1, <2>1
  <2>3. Tail(evChannel[id]) \in Seq(0..evEvents) /\ Len(Tail(evChannel[id])) = Len(evChannel[id]) - 1
    BY <1>1, <2>1, HeadTailProperties
  <2>4. evChannel[id][1] \in 0..evEvents
    <3>1. 1 \in 1..Len(evChannel[id])
      BY <2>2
    <3> QED
      BY <2>1, <3>1, ElementOfSeq
  <2> QED
    BY <2>1, <2>2, <2>3, <2>4 DEF EventBounds
<1>3. evSeen' \in [Events!Clients -> 0..evEvents']
  BY <1>1, <1>2 DEF EInv
<1>4. evChannel' = [i \in Events!Clients |-> evChannel'[i]]
  BY <1>1 DEF EInv
<1>5. ASSUME NEW i \in Events!Clients PROVE InChannel(i)'
  <2>1. CASE i = id
    <3>1. evChannel'[i] = Tail(evChannel[id]) /\ evSeen'[i] = evChannel[id][1]
      BY <1>1, <2>1 DEF EInv
    <3>2. ASSUME id \notin evOverflowed PROVE evChannel'[i] = After(evSeen'[i], evEvents)
      <4>1. evChannel[id] = After(evSeen[id], evEvents) /\ evSeen[id] \in 0..evEvents
        BY <1>1, <3>2 DEF EInv, InChannel
      <4>2. evEvents \in Nat /\ evSeen[id] # evEvents
        BY <1>1, <4>1, NothingAfter DEF EInv, EventBounds
      <4> QED
        BY <3>1, <4>1, <4>2, OneLess
    <3> QED
      BY <1>1, <1>2, <2>1, <3>1, <3>2 DEF EInv, InChannel
  <2>2. CASE i # id
    <3>1. evChannel'[i] = evChannel[i] /\ evSeen'[i] = evSeen[i]
      BY <1>1, <2>2 DEF EInv
    <3> QED
      BY <1>1, <3>1 DEF EInv, InChannel
  <2> QED
    BY <2>1, <2>2
<1> QED
  BY <1>1, <1>3, <1>4, <1>5 DEF EInv

LEMMA CancelLeaves ==
  ASSUME EventBounds, EInv, NEW id \in Events!Clients, Events!Cancel(id)
  PROVE  EInv'
<1>1. /\ id \in evSubscribers /\ evSubscribers' = evSubscribers \ {id}
      /\ evIsClosed' = evIsClosed \cup {id} /\ evChannel' = [evChannel EXCEPT ![id] = <<>>]
      /\ UNCHANGED <<evEvents, evNext, evSeen, evOverflowed>>
  BY DEF Events!Cancel
<1>2. evChannel' = [i \in Events!Clients |-> evChannel'[i]]
  BY <1>1 DEF EInv
<1>3. ASSUME NEW i \in Events!Clients PROVE InChannel(i)'
  <2>1. CASE i = id
    BY <1>1, <2>1 DEF EInv, InChannel, EventBounds
  <2>2. CASE i # id
    <3>1. evChannel'[i] = evChannel[i]
      BY <1>1, <2>2 DEF EInv
    <3> QED
      BY <1>1, <2>2, <3>1 DEF EInv, InChannel
  <2> QED
    BY <2>1, <2>2
<1> QED
  BY <1>1, <1>2, <1>3 DEF EInv

LEMMA EStep ==
  ASSUME EventBounds
  PROVE  EInv /\ [Events!Next]_(Events!vars) => EInv'
<1>1. ASSUME EInv, UNCHANGED Events!vars PROVE EInv'
  BY <1>1 DEF Events!vars, Events!readers, EInv, InChannel
<1> QED
  BY <1>1, Started, PublishKeeps, SubscribeKeeps, DeliverKeeps,
     CancelLeaves DEF Events!Next

LEMMA EventsInvariant == Events!Spec => []EInv
<1>1. EventBounds
  BY EventsAssumption DEF EventBounds
<1> QED
  BY <1>1, Started, EStep, PTL DEF Events!Spec

LEMMA EventsTypes == Events!Spec => []Events!TypeOK
<1>1. EInv => Events!TypeOK
  BY DEF EInv, InChannel, Events!TypeOK
<1> QED
  BY EventsInvariant, <1>1, PTL

LEMMA EventsBehaves == SpecPeriphery => Events!Spec
<1>1. InitPeriphery => Events!Init
  BY DEF InitPeriphery
<1>2. [NextPeriphery]_allVars => [Events!Next]_(Events!vars)
  <2>1. UNCHANGED eventsVars => UNCHANGED Events!vars
    BY DEF eventsVars, Events!vars, Events!readers
  <2> QED
    BY <2>1 DEF NextPeriphery, allVars
<1> QED
  BY <1>1, <1>2, PTL DEF SpecPeriphery, Events!Spec

\* A client whose channel never was full has got, or will find in its channel,
\* every event since it subscribed, in order, and its channel is open: whatever
\* the capacity and however publishing, subscribing and cancelling interleave.
THEOREM NothingMissed == SpecPeriphery => []EventsComplete
<1>1. ASSUME EInv PROVE Events!EventsComplete
  <2>1. evSubscribers \subseteq Events!Clients
    BY <1>1, EventsAssumption DEF EInv, Events!Clients, EventBounds
  <2> QED
    BY <1>1, <2>1 DEF EInv, InChannel, Events!EventsComplete, After
<1> QED
  BY EventsInvariant, EventsBehaves, <1>1, PTL DEF EventsComplete

-----------------------------------------------------------------------------
(* ChatStream: what an answer's chunks bring *)

Answering == {"streaming", "closing", "done", "failed", "gone"}
CallEntries == [at : Nat, args : Seq(Nat)]

\* The calls that have begun.
Found == {t \in Tools : chCalls[t] # None}

\* A delta that may open an item.
Opener(d)  == d.kind \in {"text", "tool"}
Opening(p) == \E i \in DOMAIN p : Opener(p[i])

LEMMA ToolsAreNumbered == \E n \in Nat : Tools = 0..(n - 1)
<1>1. Cardinality(Tools) \in Nat /\ Tools = 0..(Cardinality(Tools) - 1)
  BY StreamsAssumption, FS_CardinalityType
<1> QED
  BY <1>1

LEMMA ChunksAreBounded == MaxChunks \in Nat
  BY StreamsAssumption

LEMMA NoneIsApart == None \notin Nat /\ None \notin CallEntries
  BY StreamsAssumption DEF CallEntries

LEMMA TailOfOne ==
  ASSUME NEW a
  PROVE  /\ Tail(<<a>>) = <<>> /\ Len(<<a>>) = 1 /\ DOMAIN <<a>> = 1..1
         /\ <<a>>[1] = a /\ <<a>> # <<>>
  OBVIOUS

LEMMA TailOfTwo ==
  ASSUME NEW a, NEW b
  PROVE  /\ Tail(<<a, b>>) = <<b>> /\ Len(<<a, b>>) = 2 /\ DOMAIN <<a, b>> = 1..2
         /\ <<a, b>>[1] = a /\ <<a, b>>[2] = b /\ <<a, b>> # <<>>
  OBVIOUS

\* What there is to know of a chunk of deltas: at most the last one opens an
\* item, and a reason comes first.
ChunkFacts(c) ==
  /\ c # <<>> /\ 1 \in DOMAIN c
  /\ c[1].kind \in {"text", "tool", "finish", "usage"}
  /\ Tail(c) \in Chat!Chunks \cup {<<>>}
  /\ Opener(c[1]) => Tail(c) = <<>>
  /\ Opening(Tail(c)) => Opening(c)
  /\ \A i \in DOMAIN Tail(c) : \E j \in DOMAIN c : j # 1 /\ Tail(c)[i] = c[j]
  /\ \A i \in DOMAIN c :
       /\ c[i].kind = "tool" => c[i].tool \in Tools /\ c[i].args \in BOOLEAN
       /\ c[i].kind = "finish" => i = 1 /\ c[i].reason \in Chat!Reasons
  /\ "reason" \in DOMAIN c[1] => c[1].reason \in Chat!Reasons \cup {"none"}
  /\ c[1].kind = "finish" => "reason" \in DOMAIN c[1]
  /\ "reason" \in DOMAIN c[1] /\ c[1].kind # "finish" =>
       c[1].reason = "none" \/ c = <<Chat!Text(c[1].reason)>>

LEMMA ChunkOfOne ==
  ASSUME NEW d \in Chat!Alone
  PROVE  <<d>> \in Chat!Chunks
  BY DEF Chat!Chunks

LEMMA CallAlone ==
  ASSUME NEW t \in Tools, NEW a \in BOOLEAN
  PROVE  <<Chat!ToolCall(t, a)>> \in Chat!Chunks
<1>1. Chat!ToolCall(t, a) \in Chat!Alone
  BY DEF Chat!Alone
<1> QED
  BY <1>1, ChunkOfOne

LEMMA UsageAlone == <<Chat!Usage>> \in Chat!Chunks
<1>1. Chat!Usage \in Chat!Alone
  BY DEF Chat!Alone
<1> QED
  BY <1>1, ChunkOfOne

LEMMA ChunkCases ==
  ASSUME NEW c \in Chat!Chunks
  PROVE  \/ \E r \in Chat!Reasons \cup {"none"} : c = <<Chat!Text(r)>>
         \/ c = <<Chat!Usage>>
         \/ \E t \in Tools, a \in BOOLEAN : c = <<Chat!ToolCall(t, a)>>
         \/ \E r \in Chat!Reasons : c = <<Chat!Finish(r)>>
         \/ \E t \in Tools : c = <<Chat!Finish("stop"), Chat!ToolCall(t, TRUE)>>
         \/ \E r \in Chat!Reasons : c = <<Chat!Finish(r), Chat!Usage>>
<1>1. CASE c \in Chat!Together
  BY <1>1 DEF Chat!Together
<1>2. CASE \E d \in Chat!Alone : c = <<d>>
  <2>1. PICK d \in Chat!Alone : c = <<d>>
    BY <1>2
  <2>2. \/ d \in {Chat!Text("none"), Chat!Usage}
        \/ \E t \in Tools, a \in BOOLEAN : d = Chat!ToolCall(t, a)
        \/ \E r \in Chat!Reasons : d = Chat!Text(r) \/ d = Chat!Finish(r)
    BY DEF Chat!Alone
  <2> QED
    BY <2>1, <2>2
<1> QED
  BY <1>1, <1>2 DEF Chat!Chunks

LEMMA ChunkIs ==
  ASSUME NEW c \in Chat!Chunks
  PROVE  ChunkFacts(c)
<1> USE DEF Chat!Text, Chat!Finish, Chat!ToolCall, Chat!Usage, Chat!Reasons
<1>1. CASE c = <<Chat!Usage>>
  BY <1>1, TailOfOne DEF ChunkFacts, Opener, Opening
<1>2. ASSUME NEW r \in Chat!Reasons \cup {"none"}, c = <<Chat!Text(r)>>
      PROVE ChunkFacts(c)
  BY <1>2, TailOfOne DEF ChunkFacts, Opener, Opening
<1>3. ASSUME NEW t \in Tools, NEW a \in BOOLEAN, c = <<Chat!ToolCall(t, a)>>
      PROVE  ChunkFacts(c)
  BY <1>3, TailOfOne DEF ChunkFacts, Opener, Opening
<1>4. ASSUME NEW r \in Chat!Reasons, c = <<Chat!Finish(r)>> PROVE ChunkFacts(c)
  BY <1>4, TailOfOne DEF ChunkFacts, Opener, Opening
<1>5. ASSUME NEW t \in Tools, NEW a \in BOOLEAN,
             c = <<Chat!Finish("stop"), Chat!ToolCall(t, a)>>
      PROVE  ChunkFacts(c)
  <2> DEFINE f == Chat!Finish("stop")
             d == Chat!ToolCall(t, a)
  <2>1. /\ f.kind = "finish" /\ f.reason = "stop" /\ "reason" \in DOMAIN f
        /\ d.kind = "tool" /\ d.tool = t /\ d.args \in BOOLEAN
    OBVIOUS
  <2>2. <<d>> \in Chat!Chunks
    BY CallAlone
  <2> HIDE DEF f, d
  <2>3. /\ c = <<f, d>> /\ Tail(c) = <<d>> /\ DOMAIN c = 1..2 /\ c[1] = f /\ c[2] = d
        /\ c # <<>> /\ DOMAIN <<d>> = 1..1 /\ <<d>>[1] = d
    BY <1>5, TailOfTwo, TailOfOne DEF f, d
  <2>4. 1 \in 1..2 /\ 2 \in 1..2 /\ \A i \in 1..2 : i = 1 \/ i = 2
    OBVIOUS
  <2>5. 2 # 1 /\ 1 \in 1..1 /\ \A i \in 1..1 : i = 1
    OBVIOUS
  <2>6. \A i \in DOMAIN Tail(c) : \E j \in DOMAIN c : j # 1 /\ Tail(c)[i] = c[j]
    BY <2>3, <2>4, <2>5
  <2>7. Opening(Tail(c)) => Opening(c)
    BY <2>6 DEF Opening
  <2>8. ~Opener(c[1])
    BY <2>1, <2>3 DEF Opener
  <2>9. \A i \in DOMAIN c :
          /\ c[i].kind = "tool" => c[i].tool \in Tools /\ c[i].args \in BOOLEAN
          /\ c[i].kind = "finish" => i = 1 /\ c[i].reason \in Chat!Reasons
    BY <2>1, <2>3, <2>4
  <2> QED
    BY <2>1, <2>2, <2>3, <2>4, <2>6, <2>7, <2>8, <2>9 DEF ChunkFacts
<1>6. ASSUME NEW r \in Chat!Reasons, c = <<Chat!Finish(r), Chat!Usage>>
      PROVE ChunkFacts(c)
  <2>1. <<Chat!Usage>> \in Chat!Chunks
    BY UsageAlone
  <2> QED
    BY <1>6, <2>1, TailOfOne, TailOfTwo DEF ChunkFacts, Opener, Opening
<1> QED
  BY <1>1, <1>2, <1>3, <1>4, <1>5, <1>6, ChunkCases

-----------------------------------------------------------------------------
(* ChatStream: the invariant *)

ChatTyped ==
  /\ chProtocol \in Protocols /\ chPhase \in Answering
  /\ chChunks \in Nat /\ chChunks <= MaxChunks /\ chNext \in Nat
  /\ chPending \in Chat!Chunks \cup {<<>>}
  /\ chPending = <<>> \/ chPhase \in {"streaming", "gone"}
  /\ chTextAt \in Nat \cup {None}
  /\ chCalls \in [Tools -> CallEntries \cup {None}]
  /\ chFinish \in Chat!Reasons \cup {"none"} /\ chSaid \in Chat!Reasons \cup {"none"}
  /\ chOpened = [i \in 1..chNext |-> i - 1]
  /\ chTold \in [0..MaxChunks -> Seq(Nat)] /\ chGiven \in [Tools -> Seq(Nat)]
  /\ chTogether \in BOOLEAN

\* Every chunk opens one item at most.
Room == chNext + (IF Opening(chPending) THEN 1 ELSE 0) <= chChunks

\* The text and the calls have the items among themselves, each one of its own,
\* and the calls are those from 0 on.
Items ==
  /\ \E k \in Nat : /\ Found = 0..(k - 1)
                    /\ chNext = IF chTextAt = None THEN k ELSE k + 1
  /\ chTextAt # None => chTextAt < chNext
  /\ \A t \in Found : chCalls[t].at < chNext /\ chCalls[t].at # chTextAt
  /\ \A t, u \in Found : chCalls[t].at = chCalls[u].at => t = u
  /\ \A i \in 0..(chNext - 1) : i = chTextAt \/ \E t \in Found : chCalls[t].at = i

Arguments ==
  /\ \A t \in Tools \ Found : chGiven[t] = <<>>
  /\ \A t \in Found : chGiven[t] = chCalls[t].args /\ chGiven[t] = chTold[chCalls[t].at]
  /\ \A i \in 0..MaxChunks : i >= chNext => chTold[i] = <<>>

\* A call in a delta has begun, or is the next one.
CountedOn ==
  \A i \in DOMAIN chPending : chPending[i].kind = "tool" =>
    \A u \in Tools : u < chPending[i].tool => u \in Found

\* The reason is with the translation or in the next delta, or came with text.
Reason ==
  /\ \A i \in DOMAIN chPending : chPending[i].kind = "finish" => chSaid = chPending[i].reason
  /\ chFinish # "none" => chFinish = chSaid
  /\ chSaid = "length" /\ ~chTogether =>
       chFinish = "length" \/ (chPending # <<>> /\ chPending[1].kind = "finish")

\* How an answer has ended.
Ending ==
  /\ chPhase # "done" => chClosed = <<>> /\ chOutcome = "none"
  /\ chPhase = "done" =>
       /\ Chat!ItemsClosed /\ Len(chClosed) = chNext /\ Chat!LengthReported
       /\ chOutcome \in {"complete", "incomplete", "tool_use"}

HInv == ChatTyped /\ Room /\ Items /\ Arguments /\ CountedOn /\ Reason /\ Ending

LEMMA NothingOpening == ~Opening(<<>>)
  BY DEF Opening

\* Before the first chunk.
EmptyAnswer ==
  /\ chProtocol \in Protocols
  /\ chPhase = "streaming" /\ chChunks = 0 /\ chPending = <<>> /\ chNext = 0
  /\ chTextAt = None /\ chCalls = [t \in Tools |-> None]
  /\ chFinish = "none" /\ chOutcome = "none"
  /\ chOpened = <<>> /\ chClosed = <<>> /\ chTold = [i \in 0..MaxChunks |-> <<>>]
  /\ chGiven = [t \in Tools |-> <<>>] /\ chSaid = "none" /\ chTogether = FALSE

LEMMA FreshIsEmpty == EmptyAnswer => HInv
<1> SUFFICES ASSUME EmptyAnswer PROVE HInv
  OBVIOUS
<1> USE DEF EmptyAnswer
<1>1. Found = {} /\ 0 \in Nat /\ 0..(0 - 1) = {}
  BY DEF Found
<1>2. Items
  BY <1>1 DEF Items
<1>3. <<>> = [i \in 1..chNext |-> i - 1]
  <2>1. 1..chNext = {}
    OBVIOUS
  <2> QED
    BY <2>1
<1>4. chTogether \in BOOLEAN
  BY Zenon
<1>5. ChatTyped
  BY <1>3, <1>4, ChunksAreBounded, NoneIsApart DEF ChatTyped, Answering
<1>6. Room /\ Arguments /\ CountedOn /\ Reason /\ Ending
  BY <1>1, NothingOpening DEF Room, Arguments, CountedOn, Reason, Ending
<1> QED
  BY <1>2, <1>5, <1>6 DEF HInv

LEMMA HInit == Chat!Init => HInv
  BY FreshIsEmpty DEF Chat!Init, EmptyAnswer

LEMMA FreshIsEmptyNext == EmptyAnswer' => HInv'
  BY FreshIsEmpty, PTL

LEMMA ChunkKeeps ==
  ASSUME HInv, NEW c \in Chat!Chunks, Chat!Chunk(c)
  PROVE  HInv'
<1>0. ChunkFacts(c) /\ ChatTyped
  BY ChunkIs DEF HInv
<1>1. /\ chPhase = "streaming" /\ chPending = <<>> /\ chPending' = c
      /\ chChunks < MaxChunks /\ chChunks' = chChunks + 1
      /\ chSaid # "none" => \A i \in DOMAIN c : c[i].kind = "usage"
      /\ chSaid' = IF "reason" \in DOMAIN c[1] THEN Chat!SetTo(c[1].reason, chSaid) ELSE chSaid
      /\ chTogether' = (chTogether \/ \E r \in Chat!Reasons : c = <<Chat!Text(r)>>)
      /\ UNCHANGED <<chProtocol, chPhase, chNext, chTextAt, chCalls, chFinish, chOutcome,
                     chOpened, chClosed, chTold, chGiven>>
      /\ \A i \in DOMAIN c : c[i].kind = "tool" =>
           \A t \in Tools : t < c[i].tool => chCalls[t] # None
  BY DEF Chat!Chunk, Chat!Counted, Chat!client
<1>2. chSaid' \in Chat!Reasons \cup {"none"} /\ chTogether' \in BOOLEAN
  BY <1>0, <1>1 DEF ChatTyped, ChunkFacts, Chat!SetTo
<1>3. ChatTyped'
  BY <1>0, <1>1, <1>2, ChunksAreBounded, NoneIsApart DEF ChatTyped
<1>4. Room'
  BY <1>0, <1>1, NothingOpening DEF HInv, Room, ChatTyped
<1>5. Items' /\ Arguments'
  BY <1>1 DEF HInv, Items, Arguments, Found
<1>6. CountedOn'
  BY <1>1 DEF CountedOn, Found
<1>7. Reason'
  <2>1. CASE chSaid # "none"
    <3>1. c[1].kind = "usage"
      BY <1>0, <1>1, <2>1 DEF ChunkFacts
    <3>2. chSaid' = chSaid
      <4>1. "reason" \in DOMAIN c[1] => c[1].reason = "none" \/ c = <<Chat!Text(c[1].reason)>>
        BY <1>0, <3>1 DEF ChunkFacts
      <4>2. ASSUME c = <<Chat!Text(c[1].reason)>> PROVE FALSE
        BY <3>1, <4>2, TailOfOne DEF Chat!Text
      <4> QED
        BY <1>1, <4>1, <4>2 DEF Chat!SetTo
    <3>3. chSaid = "length" /\ ~chTogether => chFinish = "length"
      BY <1>1 DEF HInv, Reason
    <3>4. chTogether => chTogether'
      BY <1>1
    <3> QED
      BY <1>1, <2>1, <3>2, <3>3, <3>4 DEF HInv, Reason
  <2>2. CASE chSaid = "none"
    <3>1. chFinish = "none"
      BY <2>2 DEF HInv, Reason
    <3>2. ASSUME NEW i \in DOMAIN c, c[i].kind = "finish" PROVE chSaid' = c[i].reason
      BY <1>0, <1>1, <3>2 DEF ChunkFacts, Chat!SetTo, Chat!Reasons
    <3>3. ASSUME chSaid' = "length", ~chTogether' PROVE c[1].kind = "finish"
      <4>1. "reason" \in DOMAIN c[1] /\ c[1].reason = "length"
        BY <1>1, <2>2, <3>3 DEF Chat!SetTo
      <4>2. c # <<Chat!Text(c[1].reason)>>
        BY <1>1, <3>3, <4>1 DEF Chat!Reasons
      <4> QED
        BY <1>0, <4>1, <4>2 DEF ChunkFacts
    <3> QED
      BY <1>0, <1>1, <3>1, <3>2, <3>3 DEF Reason, ChunkFacts
  <2> QED
    BY <2>1, <2>2
<1>8. Ending'
  BY <1>1 DEF HInv, Ending
<1> QED
  BY <1>3, <1>4, <1>5, <1>6, <1>7, <1>8 DEF HInv

\* A delta that is taken from the chunk.
LEMMA Consumed ==
  ASSUME HInv, NEW kind, Chat!Consume(kind)
  PROVE  /\ ChunkFacts(chPending) /\ chPhase = "streaming" /\ chPending # <<>>
         /\ chPending[1].kind = kind /\ chPending' = Tail(chPending)
         /\ chPending' \in Chat!Chunks \cup {<<>>}
         /\ Opener(chPending[1]) => /\ chPending' = <<>> /\ Opening(chPending)
                                    /\ chNext + 1 <= chChunks
         /\ Opening(chPending') => Opening(chPending)
<1>1. /\ chPending \in Chat!Chunks /\ chPhase = "streaming" /\ chPending # <<>>
      /\ chPending[1].kind = kind /\ chPending' = Tail(chPending)
  BY DEF HInv, ChatTyped, Chat!Consume
<1>2. ChunkFacts(chPending)
  BY <1>1, ChunkIs
<1>3. Opener(chPending[1]) => Opening(chPending)
  BY <1>2 DEF ChunkFacts, Opening
<1>4. Opening(chPending) => chNext + 1 <= chChunks
  BY DEF HInv, Room
<1> QED
  BY <1>1, <1>2, <1>3, <1>4 DEF ChunkFacts

\* One more item, at its end.
LEMMA OneMoreItem ==
  ASSUME NEW n \in Nat, NEW s, s = [i \in 1..n |-> i - 1]
  PROVE  Append(s, n) = [i \in 1..(n + 1) |-> i - 1]
<1>1. s \in Seq(Int) /\ Len(s) = n
  <2>1. s \in [1..n -> Int]
    OBVIOUS
  <2> QED
    BY <2>1
<1>2. /\ Append(s, n) \in Seq(Int) /\ Len(Append(s, n)) = n + 1
      /\ \A i \in 1..n : Append(s, n)[i] = s[i]
      /\ Append(s, n)[n + 1] = n
  BY <1>1
<1>3. DOMAIN Append(s, n) = 1..(n + 1) /\ \A i \in 1..(n + 1) : Append(s, n)[i] = i - 1
  BY <1>1, <1>2
<1> QED
  BY <1>2, <1>3

LEMMA TextKeeps ==
  ASSUME HInv, Chat!TextDelta
  PROVE  HInv'
<1>0. /\ ChatTyped /\ Items /\ Arguments /\ ChunkFacts(chPending)
      /\ chPhase = "streaming" /\ chPending[1].kind = "text"
      /\ chPending' = <<>> /\ chNext + 1 <= chChunks
  BY Consumed DEF HInv, Chat!TextDelta, Opener
<1>1. /\ IF chTextAt = None
           THEN chTextAt' = chNext /\ chNext' = chNext + 1 /\ chOpened' = Append(chOpened, chNext)
           ELSE UNCHANGED <<chTextAt, chNext, chOpened>>
      /\ UNCHANGED <<chProtocol, chChunks, chPhase, chCalls, chFinish, chOutcome, chClosed,
                     chTold, chGiven, chSaid, chTogether>>
  BY DEF Chat!TextDelta, Chat!answer, Chat!ghosts
<1>2. chNext \in Nat /\ chNext # None /\ chNext + 1 \in Nat
  BY <1>0, ChunksAreBounded, NoneIsApart DEF ChatTyped
<1>3. chOpened' = [i \in 1..chNext' |-> i - 1] /\ chNext' \in Nat /\ chTextAt' \in Nat \cup {None}
  BY <1>0, <1>1, <1>2, OneMoreItem DEF ChatTyped
<1>4. ChatTyped'
  BY <1>0, <1>1, <1>3 DEF ChatTyped
<1>5. Items'
  <2>1. CASE chTextAt # None
    BY <1>0, <1>1, <2>1 DEF Items, Found
  <2>2. CASE chTextAt = None
    <3>1. PICK k \in Nat : Found = 0..(k - 1) /\ chNext = k
      BY <1>0, <2>2 DEF Items
    <3>2. /\ Found' = 0..(k - 1) /\ chNext' = k + 1 /\ chTextAt' = k /\ k # None
          /\ chCalls' = chCalls /\ Found' = Found
      BY <1>1, <1>2, <2>2, <3>1 DEF Found
    <3>3. \A t \in Found : chCalls[t].at \in Nat /\ chCalls[t].at < k
      BY <1>0, <3>1, ToolsAreNumbered DEF Items, Found, ChatTyped, CallEntries
    <3>4. \A t, u \in Found : chCalls[t].at = chCalls[u].at => t = u
      BY <1>0 DEF Items
    <3>5. \A i \in 0..k : i = k \/ \E t \in Found : chCalls[t].at = i
      <4>1. \A i \in 0..(k - 1) : \E t \in Found : chCalls[t].at = i
        BY <1>0, <2>2, <3>1, ChunksAreBounded, NoneIsApart DEF Items
      <4>2. ASSUME NEW i \in 0..k, i # k PROVE i \in 0..(k - 1)
        BY <4>2
      <4>3. ASSUME NEW i \in 0..k PROVE i = k \/ \E t \in Found : chCalls[t].at = i
        BY <4>1, <4>2
      <4> QED
        BY <4>3
    <3>6. \A t \in Found : chCalls[t].at < k + 1 /\ chCalls[t].at # k
      BY <3>3
    <3>7. \A t \in Found' : chCalls'[t].at < chNext' /\ chCalls'[t].at # chTextAt'
      BY <3>2, <3>6
    <3>8. \A t, u \in Found' : chCalls'[t].at = chCalls'[u].at => t = u
      BY <3>2, <3>4
    <3>9. \A i \in 0..(chNext' - 1) : i = chTextAt' \/ \E t \in Found' : chCalls'[t].at = i
      <4>1. (k + 1) - 1 = k
        OBVIOUS
      <4> QED
        BY <3>2, <3>5, <4>1
    <3>10. \E m \in Nat : /\ Found' = 0..(m - 1)
                          /\ chNext' = IF chTextAt' = None THEN m ELSE m + 1
      BY <3>1, <3>2
    <3>11. chTextAt' < chNext'
      BY <3>1, <3>2
    <3> QED
      BY <3>7, <3>8, <3>9, <3>10, <3>11 DEF Items
  <2> QED
    BY <2>1, <2>2
<1>6. Arguments'
  BY <1>0, <1>1, <1>2 DEF Arguments, Found
<1>7. Room'
  BY <1>0, <1>1, NothingOpening DEF HInv, Room, ChatTyped
<1>8. CountedOn' /\ Reason' /\ Ending'
  BY <1>0, <1>1 DEF HInv, CountedOn, Reason, Ending
<1> QED
  BY <1>4, <1>5, <1>6, <1>7, <1>8 DEF HInv

LEMMA OtherKeeps ==
  ASSUME HInv, Chat!OtherDelta
  PROVE  HInv'
<1>0. ChatTyped /\ chPending \in Chat!Chunks \cup {<<>>}
  BY DEF HInv, ChatTyped
<1>1. /\ ChunkFacts(chPending) /\ chPhase = "streaming" /\ chPending # <<>>
      /\ chPending[1].kind \in {"usage", "finish"}
      /\ chPending' = Tail(chPending) /\ chPending' \in Chat!Chunks \cup {<<>>}
      /\ Opening(chPending') => Opening(chPending)
  BY Consumed DEF Chat!OtherDelta
<1>2. /\ chFinish' = IF chPending[1].kind = "finish"
                     THEN Chat!SetTo(chPending[1].reason, chFinish) ELSE chFinish
      /\ UNCHANGED <<chProtocol, chChunks, chPhase, chNext, chTextAt, chCalls, chOutcome,
                     chOpened, chClosed, chTold, chGiven, chSaid, chTogether>>
  BY DEF Chat!OtherDelta, Chat!FinishAfter, Chat!answer, Chat!client, Chat!ghosts
<1>3. chPending[1].kind = "finish" =>
        /\ chPending[1].reason \in Chat!Reasons /\ chPending[1].reason # "none"
        /\ chSaid = chPending[1].reason /\ chFinish' = chSaid
  BY <1>1, <1>2 DEF ChunkFacts, Chat!Reasons, Chat!SetTo, HInv, Reason
<1>4. ChatTyped'
  <2>1. chFinish' \in Chat!Reasons \cup {"none"}
    BY <1>0, <1>2, <1>3 DEF ChatTyped
  <2> QED
    BY <1>0, <1>1, <1>2, <2>1 DEF ChatTyped
<1>5. Room'
  BY <1>0, <1>1, <1>2 DEF HInv, Room, ChatTyped
<1>6. Items' /\ Arguments'
  BY <1>2 DEF HInv, Items, Arguments, Found
<1>7. \A i \in DOMAIN chPending' : \E j \in DOMAIN chPending :
        j # 1 /\ chPending'[i] = chPending[j]
  BY <1>1 DEF ChunkFacts
<1>8. CountedOn'
  BY <1>2, <1>7 DEF HInv, CountedOn, Found
<1>9. Reason'
  <2>1. \A i \in DOMAIN chPending' : chPending'[i].kind # "finish"
    BY <1>1, <1>7 DEF ChunkFacts
  <2>2. chFinish' # "none" => chFinish' = chSaid
    BY <1>2, <1>3 DEF HInv, Reason
  <2>3. chSaid = "length" /\ ~chTogether => chFinish' = "length"
    BY <1>2, <1>3 DEF HInv, Reason
  <2> QED
    BY <1>2, <2>1, <2>2, <2>3 DEF Reason
<1>10. Ending'
  BY <1>1, <1>2 DEF HInv, Ending
<1> QED
  BY <1>4, <1>5, <1>6, <1>8, <1>9, <1>10 DEF HInv

\* A call that begins is the one after those that have begun.
LEMMA NextCall ==
  ASSUME NEW k \in Nat, Found = 0..(k - 1), NEW t \in Tools \ Found,
         \A u \in Tools : u < t => u \in Found
  PROVE  t = k
<1>1. PICK n \in Nat : Tools = 0..(n - 1)
  BY ToolsAreNumbered
<1>2. t \in 0..(n - 1) /\ t >= k
  BY <1>1
<1>3. ASSUME t > k PROVE FALSE
  <2>1. k \in Tools /\ k < t
    BY <1>1, <1>2, <1>3
  <2> QED
    BY <2>1
<1> QED
  BY <1>2, <1>3

LEMMA ToolKeeps ==
  ASSUME HInv, Chat!ToolDelta
  PROVE  HInv'
<1> DEFINE t == chPending[1].tool
           at == IF chCalls[t] = None THEN chNext ELSE chCalls[t].at
           more == IF chPending[1].args THEN <<chChunks>> ELSE <<>>
           entry == [at   |-> at,
                     args |-> (IF chCalls[t] = None THEN <<>> ELSE chCalls[t].args) \o more]
<1>0. /\ ChatTyped /\ Room /\ Items /\ Arguments /\ ChunkFacts(chPending)
      /\ chPhase = "streaming" /\ chPending[1].kind = "tool"
      /\ chPending' = <<>> /\ chNext + 1 <= chChunks /\ 1 \in DOMAIN chPending
  BY Consumed DEF HInv, Chat!ToolDelta, Opener, ChunkFacts
<1>1. t \in Tools /\ chPending[1].args \in BOOLEAN /\ \A u \in Tools : u < t => u \in Found
  BY <1>0 DEF ChunkFacts, HInv, CountedOn
<1>2. /\ chCalls' = [chCalls EXCEPT ![t] = entry]
      /\ chNext' = IF chCalls[t] = None THEN chNext + 1 ELSE chNext
      /\ chOpened' = IF chCalls[t] = None THEN Append(chOpened, at) ELSE chOpened
      /\ chTold' = [chTold EXCEPT ![at] = chTold[at] \o more]
      /\ chGiven' = [chGiven EXCEPT ![t] = chGiven[t] \o more]
      /\ UNCHANGED <<chProtocol, chChunks, chPhase, chTextAt, chFinish, chOutcome, chClosed,
                     chSaid, chTogether>>
  BY DEF Chat!ToolDelta, Chat!CallAt, Chat!answer
<1>3. more \in Seq(Nat)
  BY <1>0, <1>1 DEF ChatTyped
<1>4. chCalls[t] # None => /\ t \in Found /\ chCalls[t] \in CallEntries
                           /\ chCalls[t].at \in Nat /\ chCalls[t].at < chNext
                           /\ chCalls[t].args \in Seq(Nat)
  BY <1>0, <1>1 DEF Found, ChatTyped, CallEntries, Items
<1>5. chNext \in Nat /\ chNext \in 0..MaxChunks /\ at \in Nat /\ at \in 0..MaxChunks
  BY <1>0, <1>4, ChunksAreBounded, NoneIsApart DEF ChatTyped
<1>6. at = chNext \/ at = chCalls[t].at
  OBVIOUS
<1> HIDE DEF more
<1>7. /\ entry \in CallEntries /\ entry # None /\ entry.at = at
      /\ chCalls[t] = None => entry.args = more
      /\ chCalls[t] # None => entry.args = chCalls[t].args \o more
  <2>1. ((IF chCalls[t] = None THEN <<>> ELSE chCalls[t].args) \o more) \in Seq(Nat)
    BY <1>3, <1>4
  <2>2. entry \in CallEntries
    BY <1>5, <2>1 DEF CallEntries
  <2>3. <<>> \o more = more
    BY <1>3
  <2> QED
    BY <2>2, <2>3, ChunksAreBounded, NoneIsApart DEF CallEntries
<1>8. /\ chCalls[t] = None => at = chNext
      /\ chCalls[t] # None => at = chCalls[t].at
  OBVIOUS
<1> HIDE DEF entry, at
<1>9. /\ chCalls' \in [Tools -> CallEntries \cup {None}] /\ chCalls'[t] = entry
      /\ \A u \in Tools \ {t} : chCalls'[u] = chCalls[u]
      /\ Found' = Found \cup {t}
  <2>1. /\ chCalls' \in [Tools -> CallEntries \cup {None}] /\ chCalls'[t] = entry
        /\ \A u \in Tools \ {t} : chCalls'[u] = chCalls[u]
    BY <1>0, <1>1, <1>2, <1>7 DEF ChatTyped
  <2> QED
    BY <1>1, <1>7, <2>1 DEF Found
<1>10. /\ chTold' \in [0..MaxChunks -> Seq(Nat)] /\ chTold'[at] = chTold[at] \o more
       /\ \A i \in 0..MaxChunks : i # at => chTold'[i] = chTold[i]
  <2>1. chTold \in [0..MaxChunks -> Seq(Nat)] /\ chTold[at] \o more \in Seq(Nat)
    BY <1>0, <1>3, <1>5 DEF ChatTyped
  <2> QED
    BY <1>2, <1>5, <2>1
<1>11. /\ chGiven' \in [Tools -> Seq(Nat)] /\ chGiven'[t] = chGiven[t] \o more
       /\ \A u \in Tools \ {t} : chGiven'[u] = chGiven[u]
  <2>1. chGiven \in [Tools -> Seq(Nat)] /\ chGiven[t] \o more \in Seq(Nat)
    BY <1>0, <1>1, <1>3 DEF ChatTyped
  <2> QED
    BY <1>1, <1>2, <2>1
<1>12. chOpened' = [i \in 1..chNext' |-> i - 1] /\ chNext' \in Nat /\ chNext' <= chChunks
       /\ chNext <= chNext'
  <2>1. chChunks \in Nat
    BY <1>0 DEF ChatTyped
  <2> QED
    BY <1>0, <1>2, <1>5, <1>8, <2>1, OneMoreItem DEF ChatTyped
<1>13. ChatTyped'
  BY <1>0, <1>2, <1>9, <1>10, <1>11, <1>12 DEF ChatTyped
<1>14. Room'
  BY <1>0, <1>2, <1>12, NothingOpening DEF Room, ChatTyped
<1>15. ASSUME chCalls[t] = None PROVE Items' /\ Arguments'
  <2>1. at = chNext /\ chNext' = chNext + 1 /\ t \notin Found
    BY <1>2, <1>8, <1>15 DEF Found
  <2>2. PICK k \in Nat : /\ Found = 0..(k - 1)
                         /\ chNext = IF chTextAt = None THEN k ELSE k + 1
    BY <1>0 DEF Items
  <2>3. t = k
    BY <1>1, <2>1, <2>2, NextCall
  <2>4. Items'
    <3>1. k + 1 \in Nat /\ Found' = 0..((k + 1) - 1)
          /\ chNext' = IF chTextAt' = None THEN k + 1 ELSE (k + 1) + 1
      BY <1>2, <1>9, <2>1, <2>2, <2>3
    <3>2. chTextAt' # None => chTextAt' < chNext' /\ chTextAt' # chNext
      BY <1>0, <1>2, <1>5, <2>1 DEF Items, ChatTyped
    <3>3. ASSUME NEW u \in Found
          PROVE  /\ u # t /\ chCalls'[u].at = chCalls[u].at
                 /\ chCalls'[u].at < chNext /\ chCalls'[u].at # chTextAt
                 /\ chCalls'[u].at \in Nat
      <4>1. u \in Tools \ {t} /\ chCalls[u] \in CallEntries
        BY <1>0, <2>1, <3>3 DEF Found, ChatTyped
      <4> QED
        BY <1>0, <1>9, <4>1 DEF Items, CallEntries
    <3>4. ASSUME NEW u \in Found'
          PROVE  chCalls'[u].at < chNext' /\ chCalls'[u].at # chTextAt'
      <4>1. CASE u = t
        <5>1. chTextAt # chNext
          BY <1>0, <1>5, ChunksAreBounded, NoneIsApart DEF Items, ChatTyped
        <5>2. chCalls'[t].at = chNext /\ chNext < chNext'
          BY <1>5, <1>7, <1>9, <2>1
        <5> QED
          BY <1>2, <4>1, <5>1, <5>2
      <4>2. CASE u # t
        BY <1>2, <1>5, <1>9, <2>1, <3>3, <4>2
      <4> QED
        BY <4>1, <4>2
    <3>5. ASSUME NEW u \in Found', NEW v \in Found', chCalls'[u].at = chCalls'[v].at
          PROVE  u = v
      <4>1. ASSUME NEW w \in Found PROVE chCalls'[w].at # chCalls'[t].at
        BY <1>5, <1>7, <1>9, <2>1, <3>3, <4>1
      <4>2. CASE u \in Found /\ v \in Found
        BY <1>0, <3>3, <3>5, <4>2 DEF Items
      <4> QED
        BY <1>9, <3>5, <4>1, <4>2
    <3>6. ASSUME NEW i \in 0..(chNext' - 1)
          PROVE  i = chTextAt' \/ \E u \in Found' : chCalls'[u].at = i
      <4>1. CASE i = chNext
        BY <1>7, <1>9, <2>1, <4>1
      <4>2. CASE i # chNext
        <5>1. i \in 0..(chNext - 1)
          BY <1>5, <2>1, <3>6, <4>2
        <5>2. i = chTextAt \/ \E u \in Found : chCalls[u].at = i
          BY <1>0, <5>1 DEF Items
        <5> QED
          BY <1>2, <1>9, <3>3, <5>2
      <4> QED
        BY <4>1, <4>2
    <3>7. \E m \in Nat : /\ Found' = 0..(m - 1)
                         /\ chNext' = IF chTextAt' = None THEN m ELSE m + 1
      BY <3>1
    <3> QED
      BY <3>2, <3>4, <3>5, <3>6, <3>7 DEF Items
  <2>5. Arguments'
    <3>1. chGiven[t] = <<>> /\ chTold[at] = <<>> /\ <<>> \o more = more
      BY <1>0, <1>1, <1>3, <1>5, <2>1 DEF Arguments
    <3>2. \A u \in Tools \ Found' : chGiven'[u] = <<>>
      BY <1>0, <1>9, <1>11 DEF Arguments
    <3>3. ASSUME NEW u \in Found'
          PROVE  chGiven'[u] = chCalls'[u].args /\ chGiven'[u] = chTold'[chCalls'[u].at]
      <4>1. CASE u = t
        BY <1>7, <1>9, <1>10, <1>11, <1>15, <3>1, <4>1
      <4>2. CASE u # t
        <5>1. u \in Found /\ u \in Tools /\ chCalls'[u] = chCalls[u] /\ chGiven'[u] = chGiven[u]
          BY <1>9, <1>11, <4>2 DEF Found
        <5>2. chCalls[u].at \in 0..MaxChunks /\ chCalls[u].at # at
          <6>1. chCalls[u] \in CallEntries /\ chCalls[u].at < chNext
            BY <1>0, <5>1 DEF Found, ChatTyped, Items
          <6> QED
            BY <1>5, <2>1, <6>1, ChunksAreBounded, NoneIsApart DEF CallEntries
        <5> QED
          BY <1>0, <1>10, <5>1, <5>2 DEF Arguments
      <4> QED
        BY <4>1, <4>2
    <3>4. \A i \in 0..MaxChunks : i >= chNext' => chTold'[i] = <<>>
      <4>1. ASSUME NEW i \in 0..MaxChunks, i >= chNext' PROVE i >= chNext /\ i # at
        BY <1>5, <2>1, <4>1, ChunksAreBounded
      <4> QED
        BY <1>0, <1>10, <4>1 DEF Arguments
    <3> QED
      BY <3>2, <3>3, <3>4 DEF Arguments
  <2> QED
    BY <2>4, <2>5
<1>16. ASSUME chCalls[t] # None PROVE Items' /\ Arguments'
  <2>1. at = chCalls[t].at /\ chNext' = chNext /\ t \in Found /\ Found' = Found
    BY <1>2, <1>4, <1>8, <1>9, <1>16
  <2>2. \A u \in Found : u \in Tools /\ chCalls'[u].at = chCalls[u].at
    BY <1>7, <1>9, <2>1 DEF Found
  <2>3. Items'
    <3>1. /\ \E k \in Nat : /\ Found' = 0..(k - 1)
                           /\ chNext' = IF chTextAt' = None THEN k ELSE k + 1
          /\ chTextAt' # None => chTextAt' < chNext'
      BY <1>0, <1>2, <2>1 DEF Items
    <3>2. ASSUME NEW u \in Found'
          PROVE  chCalls'[u].at < chNext' /\ chCalls'[u].at # chTextAt'
      <4>1. u \in Found /\ chCalls'[u].at = chCalls[u].at /\ chTextAt' = chTextAt
        BY <1>2, <2>1, <2>2
      <4> QED
        BY <1>0, <2>1, <4>1 DEF Items
    <3>3. \A u, v \in Found' : chCalls'[u].at = chCalls'[v].at => u = v
      BY <1>0, <2>1, <2>2 DEF Items
    <3>4. ASSUME NEW i \in 0..(chNext' - 1)
          PROVE  i = chTextAt' \/ \E u \in Found' : chCalls'[u].at = i
      <4>1. i \in 0..(chNext - 1) /\ chTextAt' = chTextAt
        BY <1>2, <2>1
      <4>2. i = chTextAt \/ \E u \in Found : chCalls[u].at = i
        BY <1>0, <4>1 DEF Items
      <4> QED
        BY <2>1, <2>2, <4>1, <4>2
    <3> QED
      BY <3>1, <3>2, <3>3, <3>4 DEF Items
  <2>4. Arguments'
    <3>1. chGiven[t] = chCalls[t].args /\ chGiven[t] = chTold[at]
      BY <1>0, <2>1 DEF Arguments
    <3>2. \A u \in Tools \ Found' : chGiven'[u] = <<>>
      BY <1>0, <1>9, <1>11 DEF Arguments
    <3>3. ASSUME NEW u \in Found'
          PROVE  chGiven'[u] = chCalls'[u].args /\ chGiven'[u] = chTold'[chCalls'[u].at]
      <4>1. CASE u = t
        BY <1>7, <1>9, <1>10, <1>11, <1>16, <3>1, <4>1
      <4>2. CASE u # t
        <5>1. u \in Found /\ u \in Tools /\ chCalls'[u] = chCalls[u] /\ chGiven'[u] = chGiven[u]
          BY <1>9, <1>11, <4>2 DEF Found
        <5>2. chCalls[u].at \in 0..MaxChunks /\ chCalls[u].at # at
          <6>1. chCalls[u] \in CallEntries /\ chCalls[u].at < chNext
            BY <1>0, <5>1 DEF Found, ChatTyped, Items
          <6>2. chCalls[u].at # chCalls[t].at
            BY <1>0, <2>1, <4>2, <5>1 DEF Items
          <6> QED
            BY <1>5, <2>1, <6>1, <6>2, ChunksAreBounded, NoneIsApart DEF CallEntries
        <5> QED
          BY <1>0, <1>10, <5>1, <5>2 DEF Arguments
      <4> QED
        BY <4>1, <4>2
    <3>4. \A i \in 0..MaxChunks : i >= chNext' => chTold'[i] = <<>>
      <4>1. at < chNext
        BY <1>0, <2>1 DEF Items
      <4>2. ASSUME NEW i \in 0..MaxChunks, i >= chNext' PROVE i >= chNext /\ i # at
        BY <1>5, <2>1, <4>1, <4>2, ChunksAreBounded
      <4> QED
        BY <1>0, <1>10, <4>2 DEF Arguments
    <3> QED
      BY <3>2, <3>3, <3>4 DEF Arguments
  <2> QED
    BY <2>3, <2>4
<1>17. CountedOn' /\ Reason' /\ Ending'
  BY <1>0, <1>2 DEF HInv, CountedOn, Reason, Ending
<1> QED
  BY <1>13, <1>14, <1>15, <1>16, <1>17 DEF HInv

LEMMA SameSize ==
  ASSUME NEW S
  PROVE  Chat!Cardinality(S) = Cardinality(S)
  BY DEF Chat!Cardinality, Cardinality

\* The loop over the calls goes through all of them.
LEMMA AllCalls ==
  ASSUME NEW k \in Nat, Found = 0..(k - 1)
  PROVE  /\ Chat!Cardinal = k
         /\ Chat!LastCalls(k) \in [1..k -> Found]
         /\ Found = {Chat!LastCalls(k)[i] : i \in 1..k}
<1> DEFINE found == {t \in Tools : t < k /\ chCalls[t] # None}
           Enumerates(order) == /\ found = {order[i] : i \in DOMAIN order}
                                /\ \A i, j \in DOMAIN order : i < j => order[i] < order[j]
<1>1. Found \subseteq Tools /\ found = Found
  <2>1. \A t \in Found : t \in Tools /\ t < k /\ chCalls[t] # None
    BY DEF Found
  <2>2. \A t \in found : t \in Found
    BY DEF Found
  <2> QED
    BY <2>1, <2>2
<1>2. Cardinality(Found) = k
  <2>1. 0 \in Int /\ k - 1 \in Int
    OBVIOUS
  <2>2. Cardinality(0..(k - 1)) = IF 0 > k - 1 THEN 0 ELSE (k - 1) - 0 + 1
    BY <2>1, FS_Interval
  <2>3. (IF 0 > k - 1 THEN 0 ELSE (k - 1) - 0 + 1) = k
    OBVIOUS
  <2> QED
    BY <2>2, <2>3
<1>3. Chat!Cardinal = k
  BY <1>2, SameSize DEF Chat!Cardinal, Found
<1>4. Chat!LastCalls(k) = CHOOSE order \in [1..k -> found] : Enumerates(order)
  <2>1. Chat!Cardinality(found) = k
    BY <1>1, <1>2, SameSize
  <2> QED
    BY <2>1 DEF Chat!LastCalls
<1>5. \E order \in [1..k -> found] : Enumerates(order)
  <2> DEFINE order == [i \in 1..k |-> i - 1]
  <2>1. order \in [1..k -> found] /\ DOMAIN order = 1..k
    BY <1>1
  <2>2. \A t \in found : t + 1 \in 1..k /\ order[t + 1] = t
    BY <1>1
  <2>3. \A i \in 1..k : order[i] \in found
    BY <2>1
  <2>4. found = {order[i] : i \in DOMAIN order}
    <3>1. ASSUME NEW t \in found PROVE t \in {order[i] : i \in DOMAIN order}
      BY <2>1, <2>2
    <3>2. ASSUME NEW t \in {order[i] : i \in DOMAIN order} PROVE t \in found
      <4>1. PICK i \in DOMAIN order : t = order[i]
        OBVIOUS
      <4> QED
        BY <2>1, <2>3, <4>1
    <3> QED
      BY <3>1, <3>2
  <2>5. \A i, j \in DOMAIN order : i < j => order[i] < order[j]
    OBVIOUS
  <2>6. Enumerates(order)
    BY <2>4, <2>5
  <2> QED
    BY <2>1, <2>6
<1> HIDE DEF found, Enumerates
<1>6. Chat!LastCalls(k) \in [1..k -> found] /\ Enumerates(Chat!LastCalls(k))
  BY <1>4, <1>5
<1>7. DOMAIN Chat!LastCalls(k) = 1..k
  BY <1>6
<1> QED
  BY <1>1, <1>3, <1>6, <1>7 DEF Enumerates

LEMMA CloseKeeps ==
  ASSUME HInv, Chat!CloseResponses \/ Chat!CloseMessages
  PROVE  HInv'
<1>0. ChatTyped /\ Items /\ chPhase = "closing" /\ chPending = <<>>
  BY DEF HInv, ChatTyped, Chat!CloseResponses, Chat!CloseMessages
<1>1. /\ chPhase' = "done" /\ Chat!CloseItems
      /\ chOutcome' \in {"complete", "incomplete", "tool_use"}
      /\ chFinish = "length" => chOutcome' \in {"incomplete", "tool_use"}
      /\ UNCHANGED <<chProtocol, chChunks, chPending, chNext, chTextAt, chCalls, chFinish,
                     chOpened, chTold, chGiven, chSaid, chTogether>>
  BY DEF Chat!CloseResponses, Chat!CloseMessages, Chat!answer, Chat!ghosts
<1>2. PICK k \in Nat : /\ Found = 0..(k - 1)
                       /\ chNext = IF chTextAt = None THEN k ELSE k + 1
  BY <1>0 DEF Items
<1> DEFINE order == Chat!LastCalls(k)
           first == IF chTextAt = None THEN <<>> ELSE <<chTextAt>>
           ats == [i \in 1..k |-> chCalls[order[i]].at]
<1>3. /\ Chat!Cardinal = k /\ order \in [1..k -> Found]
      /\ Found = {order[i] : i \in 1..k}
  BY <1>2, AllCalls
<1>4. chClosed' = first \o ats
  <2>1. DOMAIN order = 1..k
    BY <1>3
  <2>2. chClosed' = first \o [i \in DOMAIN order |-> chCalls[order[i]].at]
    BY <1>1, <1>3 DEF Chat!CloseItems
  <2> QED
    BY <2>1, <2>2
<1>5. \A t \in Found : chCalls[t].at \in Nat
  BY <1>0 DEF Found, ChatTyped, CallEntries
<1> HIDE DEF order
<1>6. ats \in Seq(Nat) /\ Len(ats) = k /\ \A i \in 1..k : ats[i] = chCalls[order[i]].at
  <2>1. ats \in [1..k -> Nat]
    BY <1>3, <1>5
  <2> QED
    BY <2>1
<1>7. /\ first \in Seq(Nat)
      /\ chTextAt = None => first = <<>> /\ Len(first) = 0
      /\ chTextAt # None => Len(first) = 1 /\ first[1] = chTextAt
  BY <1>0 DEF ChatTyped
<1> HIDE DEF ats, first
<1>8. /\ chClosed' \in Seq(Nat) /\ Len(chClosed') = Len(first) + k
      /\ DOMAIN chClosed' = 1..(Len(first) + k)
      /\ \A i \in 1..Len(first) : chClosed'[i] = first[i]
      /\ \A i \in 1..k : chClosed'[Len(first) + i] = ats[i]
  <2>1. ats \in Seq(Nat) /\ Len(ats) = k /\ first \in Seq(Nat) /\ Len(first) \in Nat
    BY <1>6, <1>7
  <2>2. /\ chClosed' \in Seq(Nat) /\ Len(chClosed') = Len(first) + Len(ats)
        /\ \A i \in 1..(Len(first) + Len(ats)) :
             chClosed'[i] = IF i <= Len(first) THEN first[i] ELSE ats[i - Len(first)]
    BY <1>4, <2>1, ConcatProperties
  <2>3. \A i \in 1..Len(first) : i \in 1..(Len(first) + k) /\ i <= Len(first)
    BY <2>1
  <2>4. \A i \in 1..k : /\ Len(first) + i \in 1..(Len(first) + k)
                       /\ ~(Len(first) + i <= Len(first))
                       /\ (Len(first) + i) - Len(first) = i
    BY <2>1
  <2>5. DOMAIN chClosed' = 1..(Len(first) + k)
    BY <2>1, <2>2
  <2> QED
    BY <2>1, <2>2, <2>3, <2>4, <2>5
<1>9. Len(chClosed') = chNext
  <2>1. CASE chTextAt = None
    BY <1>2, <1>7, <1>8, <2>1
  <2>2. CASE chTextAt # None
    <3>1. Len(first) = 1 /\ k \in Nat /\ chNext = k + 1
      BY <1>2, <1>7, <2>2
    <3>2. Len(chClosed') = Len(first) + k
      BY <1>8
    <3> QED
      BY <3>1, <3>2
  <2> QED
    BY <2>1, <2>2
<1>10. {chClosed'[i] : i \in DOMAIN chClosed'} = 0..(chNext - 1)
  <2>1. ASSUME NEW i \in DOMAIN chClosed' PROVE chClosed'[i] \in 0..(chNext - 1)
    <3>1. CASE i <= Len(first)
      <4>1. chTextAt # None /\ i = 1 /\ chClosed'[i] = chTextAt
        BY <1>7, <1>8, <2>1, <3>1
      <4> QED
        BY <1>0, <4>1 DEF Items, ChatTyped
    <3>2. CASE i > Len(first)
      <4>1. i - Len(first) \in 1..k /\ Len(first) + (i - Len(first)) = i
        <5>1. Len(first) \in Nat /\ i \in 1..(Len(first) + k)
          BY <1>7, <1>8, <2>1
        <5> QED
          BY <3>2, <5>1
      <4>2. chClosed'[i] = chCalls[order[i - Len(first)]].at
        BY <1>6, <1>8, <4>1
      <4>3. order[i - Len(first)] \in Found
        BY <1>3, <4>1
      <4> QED
        BY <1>0, <1>5, <4>2, <4>3 DEF Items, ChatTyped
    <3> QED
      BY <1>7, <1>8, <2>1, <3>1, <3>2
  <2>2. ASSUME NEW j \in 0..(chNext - 1)
        PROVE \E i \in DOMAIN chClosed' : chClosed'[i] = j
    <3>1. CASE j = chTextAt
      <4>1. chTextAt # None
        <5>1. j \in Nat
          BY <1>0, <2>2 DEF ChatTyped
        <5> QED
          BY <3>1, <5>1, NoneIsApart
      <4>2. 1 \in 1..Len(first) /\ 1 \in DOMAIN chClosed'
        <5>1. Len(first) = 1 /\ k \in Nat
          BY <1>2, <1>7, <4>1
        <5>2. DOMAIN chClosed' = 1..(Len(first) + k)
          BY <1>8
        <5> QED
          BY <5>1, <5>2
      <4> QED
        BY <1>7, <1>8, <3>1, <4>1, <4>2
    <3>2. CASE j # chTextAt
      <4>1. PICK t \in Found : chCalls[t].at = j
        BY <1>0, <2>2, <3>2 DEF Items
      <4>2. PICK i \in 1..k : order[i] = t
        BY <1>3
      <4>3. Len(first) + i \in DOMAIN chClosed'
        BY <1>7, <1>8
      <4>4. chClosed'[Len(first) + i] = j
        BY <1>6, <1>8, <4>1, <4>2
      <4> QED
        BY <4>3, <4>4
    <3> QED
      BY <3>1, <3>2
  <2> QED
    BY <2>1, <2>2
<1>11. chOpened' = [i \in 1..chNext |-> i - 1] /\ chNext \in Nat
  BY <1>0, <1>1 DEF ChatTyped
<1>12. /\ {chOpened'[i] : i \in DOMAIN chOpened'} = 0..(chNext - 1)
       /\ Len(chOpened') = chNext
  <2>1. DOMAIN chOpened' = 1..chNext /\ \A i \in 1..chNext : chOpened'[i] = i - 1
    BY <1>11
  <2>2. \A j \in 0..(chNext - 1) : j + 1 \in 1..chNext /\ chOpened'[j + 1] = j
    BY <1>11, <2>1
  <2>3. chOpened' \in [1..chNext -> Int]
    BY <1>11
  <2>4. Len(chOpened') = chNext
    BY <1>11, <2>3
  <2>5. \A i \in 1..chNext : chOpened'[i] \in 0..(chNext - 1)
    BY <1>11, <2>1
  <2> QED
    BY <2>1, <2>2, <2>4, <2>5
<1>13. Chat!ItemsClosed'
  BY <1>9, <1>10, <1>12 DEF Chat!ItemsClosed
<1>14. Chat!LengthReported'
  <2>1. chSaid = "length" /\ ~chTogether => chFinish = "length"
    BY <1>0 DEF HInv, Reason
  <2> QED
    BY <1>1, <2>1 DEF Chat!LengthReported
<1>15. Ending'
  BY <1>1, <1>9, <1>13, <1>14 DEF Ending
<1>16. ChatTyped' /\ Room'
  BY <1>0, <1>1 DEF ChatTyped, HInv, Room, Answering
<1>17. Items' /\ Arguments' /\ CountedOn' /\ Reason'
  BY <1>1 DEF HInv, Items, Arguments, CountedOn, Reason, Found
<1> QED
  BY <1>15, <1>16, <1>17 DEF HInv

LEMMA HStep == HInv /\ [Chat!Next]_(Chat!vars) => HInv'
<1> SUFFICES ASSUME HInv, [Chat!Next]_(Chat!vars) PROVE HInv'
  OBVIOUS
<1>1. ASSUME Chat!StreamEnds \/ Chat!StreamBreaks \/ Chat!ClientLeaves PROVE HInv'
  <2>1. /\ chPhase = "streaming" /\ chPhase' \in {"closing", "failed", "gone"}
        /\ chPending = <<>> \/ chPhase' = "gone"
        /\ UNCHANGED <<chProtocol, chChunks, chPending, chNext, chTextAt, chCalls, chFinish,
                       chOutcome, chOpened, chClosed, chTold, chGiven, chSaid, chTogether>>
    BY <1>1 DEF Chat!StreamEnds, Chat!StreamBreaks, Chat!ClientLeaves, Chat!answer,
       Chat!client, Chat!ghosts
  <2>2. ChatTyped' /\ Room'
    BY <2>1 DEF HInv, ChatTyped, Room, Answering
  <2>3. Items' /\ Arguments' /\ CountedOn' /\ Reason' /\ Ending'
    BY <2>1 DEF HInv, Items, Arguments, CountedOn, Reason, Ending, Found
  <2> QED
    BY <2>2, <2>3 DEF HInv
<1>2. ASSUME Chat!Again PROVE HInv'
  <2>1. PICK p \in Protocols : Chat!Fresh(p)
    BY <1>2 DEF Chat!Again
  <2>2. DOMAIN chTold = 0..MaxChunks
    BY DEF HInv, ChatTyped
  <2> QED
    BY <2>1, <2>2, FreshIsEmptyNext DEF Chat!Fresh, EmptyAnswer
<1>3. ASSUME UNCHANGED Chat!vars PROVE HInv'
  <2>1. /\ UNCHANGED <<chProtocol, chPhase, chChunks, chPending, chNext, chTextAt, chCalls>>
        /\ UNCHANGED <<chFinish, chOutcome, chOpened, chClosed, chTold, chGiven, chSaid>>
        /\ UNCHANGED chTogether
    BY <1>3 DEF Chat!vars, Chat!answer, Chat!client, Chat!ghosts
  <2>2. ChatTyped' /\ Room'
    BY <2>1 DEF HInv, ChatTyped, Room
  <2>3. Items' /\ Arguments' /\ CountedOn' /\ Reason'
    BY <2>1 DEF HInv, Items, Arguments, CountedOn, Reason, Found
  <2>4. Ending'
    BY <2>1 DEF HInv, Ending, Chat!ItemsClosed, Chat!LengthReported
  <2> QED
    BY <2>2, <2>3, <2>4 DEF HInv
<1> QED
  BY <1>1, <1>2, <1>3, ChunkKeeps, TextKeeps, ToolKeeps, OtherKeeps, CloseKeeps
  DEF Chat!Next

LEMMA ChatInvariant == Chat!Spec => []HInv
  BY HInit, HStep, PTL DEF Chat!Spec

LEMMA ChatTypes == Chat!Spec => []Chat!TypeOK
<1> SUFFICES ASSUME HInv PROVE Chat!TypeOK
  BY ChatInvariant, PTL
<1>1. ChatTyped /\ Room /\ Items /\ Ending
  BY DEF HInv
<1>2. chNext \in 0..MaxChunks
  BY <1>1, ChunksAreBounded, NoneIsApart DEF ChatTyped, Room
<1>3. Len(chOpened) = chNext
  <2>1. chOpened \in [1..chNext -> Int]
    BY <1>1 DEF ChatTyped
  <2> QED
    BY <1>2, <2>1
<1>4. Len(chClosed) <= MaxChunks
  BY <1>1, <1>2, ChunksAreBounded, NoneIsApart DEF Ending
<1>5. chTextAt \in 0..MaxChunks \cup {None}
  BY <1>1, <1>2, ChunksAreBounded, NoneIsApart DEF ChatTyped, Items
<1>6. \A t \in Tools : chCalls[t] # None => chCalls[t].at \in 0..(chNext - 1)
  BY <1>1 DEF ChatTyped, Items, Found, CallEntries
<1>7. chOutcome \in {"none", "complete", "incomplete", "tool_use"}
  BY <1>1 DEF Ending
<1> QED
  BY <1>1, <1>2, <1>3, <1>4, <1>5, <1>6, <1>7 DEF ChatTyped, Chat!TypeOK, Answering

LEMMA ChatBehaves == SpecPeriphery => Chat!Spec
<1>1. InitPeriphery => Chat!Init
  BY DEF InitPeriphery
<1>2. [NextPeriphery]_allVars => [Chat!Next]_(Chat!vars)
  <2>1. UNCHANGED chatVars => UNCHANGED Chat!vars
    BY DEF chatVars, Chat!vars, Chat!answer, Chat!client, Chat!ghosts
  <2> QED
    BY <2>1 DEF NextPeriphery, allVars
<1> QED
  BY <1>1, <1>2, PTL DEF SpecPeriphery, Chat!Spec

\* Items, arguments and reason reach the client as the runtime has sent them,
\* however text and calls alternate, whatever a chunk brings together and
\* however many calls there are (streamResponses, streamAnthropic).
THEOREM ArrivesAsSent == SpecPeriphery => []FaithfullyTranslated
<1>1. HInv => Chat!ItemsClosed /\ Chat!LengthReported
  BY DEF HInv, Ending, Chat!ItemsClosed, Chat!LengthReported
<1>2. HInv => Chat!ArgumentsWhole
  BY DEF HInv, Arguments, Found, Chat!ArgumentsWhole
<1>3. HInv => FaithfullyTranslated
  BY <1>1, <1>2 DEF FaithfullyTranslated, Chat!FaithfullyTranslated
<1> QED
  BY ChatInvariant, ChatBehaves, <1>3, PTL
=============================================================================
