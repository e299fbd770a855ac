------------------------------ MODULE AgentRuns ------------------------------
(***************************************************************************)
(* `backpack run' and the sessions it uses (internal/cli, apps.go; the     *)
(* session handlers and chatCompletions of internal/server).  A command    *)
(* loads a session of its own for a local model, runs a tool or configures *)
(* a desktop app, and stops the session when it leaves; a chat request     *)
(* names a model only, is given any session that serves it and has one     *)
(* loaded if there is none.  The daemon's sessions are those of            *)
(* SessionContract, which Sessions implements.  What a command refuses     *)
(* before it asks for a session changes nothing and is no action; for what *)
(* --restore and Configure write see CodexApp and ClaudeApp.               *)
(***************************************************************************)
EXTENDS FiniteSets, Naturals

CONSTANTS
  Commands,     \* processes of `backpack run', one run each
  Requests,     \* handlers of chat requests
  Ids,          \* bound: sessions that are ever published
  LocalModels, CloudModels,
  None          \* no session, no model, nobody

VARIABLES
  life,         \* of each session, as its clients see it (SessionContract)
  model,        \* ModelID of each session
  creating,     \* commands and requests whose Create runs in the daemon
  pc,           \* what each command is doing
  app,          \* what it runs: a tool, codex-app or claude-app
  wants,        \* its model
  keep,         \* commands given --keep-alive
  own,          \* the session a command has been told of
  req,          \* what each handler is doing, for which model and session
  maker,        \* observation: the command whose Create published a session
  gone          \* observation: sessions over which a request was refused

daemonVars  == <<life, model, creating>>
commandVars == <<pc, app, wants, keep, own>>
observed    == <<maker, gone>>
vars        == <<daemonVars, commandVars, req, observed>>

Daemon == INSTANCE SessionContract WITH ids <- Ids

Idle    == [at |-> "idle", model |-> None, session |-> None]
Made(c) == {s \in Ids : maker[s] = c}

-----------------------------------------------------------------------------
(* `backpack run', up to its request for a session *)

\* A cloud model needs no session.
Run(c, what, m) ==
  /\ pc[c] = "idle"
  /\ pc' = [pc EXCEPT ![c] = IF m \in LocalModels THEN "loading" ELSE "setup"]
  /\ creating' = IF m \in LocalModels THEN creating \cup {c} ELSE creating
  /\ app' = [app EXCEPT ![c] = what]
  /\ wants' = [wants EXCEPT ![c] = m]
  /\ UNCHANGED <<life, model, own, req, observed>>

\* runCommand
RunTool(c, m, alive) ==
  /\ m \in LocalModels
  /\ Run(c, "tool", m)
  /\ keep' = IF alive THEN keep \cup {c} ELSE keep

\* runCloudApp refuses --keep-alive.
RunCloudTool(c, m) == m \in CloudModels /\ Run(c, "tool", m) /\ UNCHANGED keep

RunClaudeApp(c, m) == Run(c, "claude-app", m) /\ UNCHANGED keep

RunCodexApp(c, m) == Run(c, "codex-app", m) /\ UNCHANGED keep

-----------------------------------------------------------------------------
(* Manager.Create, for createSession and for Ensure.  The end of the request *)
(* does not end it: Execute and the health checks ignore its context.  The   *)
(* identifier is a fresh one; no one can tell more of it.                    *)

Publish(who, s, m) ==
  /\ who \in creating
  /\ Daemon!Publish(s)
  /\ s = CHOOSE t \in Ids : life[t] = "new"
  /\ model' = [model EXCEPT ![s] = m]
  /\ maker' = [maker EXCEPT ![s] = IF who \in Commands THEN who ELSE None]
  /\ creating' = creating \ {who}
  /\ UNCHANGED <<commandVars, gone>>

Created(c, s) == Publish(c, s, wants[c]) /\ UNCHANGED req

CreateFails(who) ==
  /\ who \in creating
  /\ creating' = creating \ {who}
  /\ req' = IF who \in Requests THEN [req EXCEPT ![who] = Idle] ELSE req
  /\ UNCHANGED <<life, model, commandVars, observed>>

\* The answer to CreateSession reaches the command ...
Told(c, s) ==
  /\ pc[c] = "loading"
  /\ s \in Made(c)
  /\ own' = [own EXCEPT ![c] = s]
  /\ pc' = [pc EXCEPT ![c] = "setup"]
  /\ UNCHANGED <<daemonVars, app, wants, keep, req, observed>>

\* ... or is an error, or is lost with the daemon.
Refused(c) ==
  /\ pc[c] = "loading" /\ c \notin creating
  /\ \A s \in Made(c) : life[s] \in {"ended", "forgotten"}
  /\ pc' = [pc EXCEPT ![c] = "ended"]
  /\ UNCHANGED <<daemonVars, app, wants, keep, own, req, observed>>

-----------------------------------------------------------------------------
(* `backpack run', with its session *)

Goto(c, place) ==
  /\ pc' = [pc EXCEPT ![c] = place]
  /\ UNCHANGED <<daemonVars, app, wants, keep, own, req, observed>>

\* The deferred stop of runCommand, and of runCodexApp while nothing is
\* configured.  runClaudeApp has none.
StopsOwn(c) == own[c] # None /\ app[c] # "claude-app" /\ c \notin keep

\* Fault: the stop is deferred after the last error only.
LeaveAtOnce(c) == Goto(c, "ended")

Leave(c) == Goto(c, IF StopsOwn(c) THEN "stopping" ELSE "ended")

\* The directory of the tool, its catalog, its invocation; integrations.Run.
StartTool(c) ==
  pc[c] = "setup" /\ app[c] = "tool" /\ wants[c] \in LocalModels /\ Goto(c, "running")

StartCloudTool(c) ==
  pc[c] = "setup" /\ app[c] = "tool" /\ wants[c] \in CloudModels /\ Goto(c, "running")

ConfigureClaude(c) ==
  pc[c] = "setup" /\ app[c] = "claude-app" /\ Goto(c, "configured")

ConfigureCodex(c) ==
  pc[c] = "setup" /\ app[c] = "codex-app" /\ Goto(c, "configured")

SetupFails(c) == pc[c] = "setup" /\ Leave(c)

ToolExits(c) == pc[c] = "running" /\ Leave(c)

\* Stop takes any session of a living daemon, whatever its status; one that an
\* earlier daemon has ended is refused.
Stop(s) ==
  \/ Daemon!BeginEnd(s)
  \/ life[s] \in {"ending", "ended", "forgotten"} /\ UNCHANGED life

\* The command waits for eight seconds at most, and leaves.
StopOwn(c) ==
  /\ pc[c] = "stopping"
  /\ Stop(own[c])
  /\ pc' = [pc EXCEPT ![c] = "ended"]
  /\ UNCHANGED <<model, creating, app, wants, keep, own, req, observed>>

\* Or the request fails, and nobody hears of it.
StopLost(c) == pc[c] = "stopping" /\ Goto(c, "unheard")

\* An interrupt or a closed terminal ends the process without its deferred
\* calls: only `serve' asks for signals.
Kill(c) == pc[c] \in {"loading", "setup", "running", "stopping"} /\ Goto(c, "killed")

-----------------------------------------------------------------------------
(* chatCompletions *)

Serving(m) == {s \in Ids : life[s] = "serving" /\ model[s] = m}

\* Faults: Ensure does not look for a session, or not at its status.
EnsureCreates(r, m) ==
  /\ req[r].at = "idle"
  /\ req' = [req EXCEPT ![r] = [at |-> "loading", model |-> m, session |-> None]]
  /\ creating' = creating \cup {r}
  /\ UNCHANGED <<life, model, commandVars, observed>>

EnsureTakesAny(r, m) ==
  /\ req[r].at = "idle"
  /\ \E s \in {t \in Ids : model[t] = m} :
       req' = [req EXCEPT ![r] = [at |-> "given", model |-> m, session |-> s]]
  /\ UNCHANGED <<daemonVars, commandVars, observed>>

\* Ensure: whichever session of the model the iteration meets first, or Create.
Ensure(r, m) ==
  /\ req[r].at = "idle"
  /\ \/ /\ \E s \in Serving(m) :
             req' = [req EXCEPT ![r] = [at |-> "given", model |-> m, session |-> s]]
        /\ UNCHANGED creating
     \/ /\ Serving(m) = {}
        /\ req' = [req EXCEPT ![r] = [at |-> "loading", model |-> m, session |-> None]]
        /\ creating' = creating \cup {r}
  /\ UNCHANGED <<life, model, commandVars, observed>>

Ensured(r, s) ==
  /\ Publish(r, s, req[r].model)
  /\ req' = [req EXCEPT ![r].at = "given", ![r].session = s]

\* Endpoint: 503 unless the session is ready still.  What the answer of
\* llama-server becomes, or 502 without one, is ChatStream's.
Endpoint(r) ==
  LET s == req[r].session IN
  /\ req[r].at = "given"
  /\ req' = [req EXCEPT ![r] = Idle]
  /\ gone' = IF life[s] = "serving" THEN gone ELSE gone \cup {s}
  /\ UNCHANGED <<daemonVars, commandVars, maker>>

-----------------------------------------------------------------------------
(* The rest of the daemon *)

\* `backpack stop'
UserStops(s) ==
  /\ Daemon!BeginEnd(s)
  /\ UNCHANGED <<model, creating, commandVars, req, observed>>

\* monitor, or the end of Manager.Stop.
SessionEnds(s) ==
  /\ Daemon!End(s)
  /\ UNCHANGED <<model, creating, commandVars, req, observed>>

\* The daemon goes down with its calls; another one finds what it has left, and
\* does not find what could not be saved (Daemon!NextDaemon).
DaemonRestarts ==
  /\ \E found \in SUBSET {s \in Ids : life[s] # "new"} :
       life' = [s \in Ids |-> IF life[s] = "new" THEN "new"
                              ELSE IF s \in found THEN "ended" ELSE "forgotten"]
  /\ creating' = {}
  /\ req' = [r \in Requests |-> Idle]
  /\ UNCHANGED <<model, commandVars, observed>>

Init ==
  /\ Daemon!Init
  /\ model = [s \in Ids |-> None] /\ maker = [s \in Ids |-> None]
  /\ creating = {} /\ keep = {} /\ gone = {}
  /\ pc = [c \in Commands |-> "idle"] /\ app = [c \in Commands |-> "tool"]
  /\ wants = [c \in Commands |-> None] /\ own = [c \in Commands |-> None]
  /\ req = [r \in Requests |-> Idle]

Command(c) ==
  \/ \E m \in LocalModels, alive \in BOOLEAN : RunTool(c, m, alive)
  \/ \E m \in CloudModels : RunCloudTool(c, m)
  \/ \E m \in LocalModels \cup CloudModels : RunClaudeApp(c, m) \/ RunCodexApp(c, m)
  \/ \E s \in Ids : Told(c, s)
  \/ Refused(c)
  \/ StartTool(c) \/ StartCloudTool(c) \/ ConfigureClaude(c) \/ ConfigureCodex(c)
  \/ SetupFails(c) \/ ToolExits(c) \/ StopOwn(c) \/ StopLost(c) \/ Kill(c)

Request(r) ==
  \/ \E m \in LocalModels : Ensure(r, m)
  \/ \E s \in Ids : Ensured(r, s)
  \/ Endpoint(r)

Next ==
  \/ \E c \in Commands : Command(c) \/ \E s \in Ids : Created(c, s)
  \/ \E r \in Requests : Request(r)
  \/ \E who \in Commands \cup Requests : CreateFails(who)
  \/ \E s \in Ids : UserStops(s) \/ SessionEnds(s)
  \/ DaemonRestarts

Spec == Init /\ [][Next]_vars

-----------------------------------------------------------------------------
(* Properties *)

\* The type invariant of commands, requests and their sessions.
TypeOK ==
  /\ life \in [Ids -> Daemon!Stages]
  /\ model \in [Ids -> LocalModels \cup CloudModels \cup {None}]
  /\ maker \in [Ids -> Commands \cup {None}]
  /\ gone \subseteq Ids /\ keep \subseteq Commands
  /\ creating \subseteq Commands \cup Requests
  /\ pc \in [Commands -> {"idle", "loading", "setup", "running", "stopping",
                          "configured", "ended", "unheard", "killed"}]
  /\ app \in [Commands -> {"tool", "codex-app", "claude-app"}]
  /\ wants \in [Commands -> LocalModels \cup CloudModels \cup {None}]
  /\ own \in [Commands -> Ids \cup {None}]
  /\ req \in [Requests ->
       [at : {"idle", "loading"}, model : LocalModels \cup {None}, session : {None}]
         \cup [at : {"given"}, model : LocalModels \cup {None}, session : Ids]]

\* A session that still serves after the command that has loaded it is there
\* because it was to be kept, because it serves a desktop app, because the
\* command was killed or its request to stop it failed, which it does not tell,
\* or because of runClaudeApp, which does not stop it when the configuration
\* fails (runCommand, runCodexApp: the deferred stops).
SessionsAccounted ==
  \A c \in Commands, s \in Ids :
    /\ pc[c] = "ended" /\ maker[s] = c /\ life[s] = "serving"
    => c \in keep \/ app[c] = "claude-app"

\* Requests that find no session at the same time load a model more than once,
\* but there are never more such sessions than requests at one time (Ensure
\* unlocks between its look at the sessions and Create).
LoadsBounded ==
  \A m \in LocalModels :
    Cardinality({s \in Serving(m) : maker[s] = None})
      + Cardinality({r \in Requests : req[r].at = "loading" /\ req[r].model = m})
    <= Cardinality(Requests)

\* A session that was no longer ready when the request it had been given to
\* asked for its endpoint is given to no request that comes later, so that
\* asking again helps (chatCompletions: Ensure, then Endpoint).
RefusedForGood ==
  [][\A r \in Requests : req[r].at = "idle" /\ req'[r].at = "given"
       => req'[r].session \notin gone]_vars
=============================================================================
