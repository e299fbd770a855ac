------------------------------ MODULE Periphery -----------------------------
(***************************************************************************)
(* The components around models, runtimes and sessions: what Backpack      *)
(* keeps in files of the user (targets, the configurations of desktop      *)
(* apps, the cloud account, its own executable) and what the server passes *)
(* on (cloud answers, local answers, events); and the runs of tools and    *)
(* apps over the daemon's sessions.  They share no state, so a behaviour   *)
(* is one of the component it has chosen.                                  *)
(***************************************************************************)
EXTENDS TargetStore, Integers, Sequences, FiniteSets

CONSTANTS
  Agents,               \* setups, routes, commands, requests or updates
  MaxEdits, MaxMishaps,                        \* of CodexApp
  Modes, Profiles, MaxChanges, MaxTroubles,    \* of ClaudeApp
  MaxLogins, MaxBreaks,                        \* of CloudSession
  Releases, MaxAccidents,                      \* of Updater
  Paths, MaxRead, MaxFrames,                   \* of CloudStream
  Protocols, Tools, MaxChunks,                 \* of ChatStream
  Capacity, MaxEvents, MaxClients,             \* of EventBroker
  Commands, SessionIds, LocalModels, CloudModels  \* of AgentRuns

\* Where a file, a setup or a program may be missing, None is none of them.
\* Claude App's files are numbered, those of its modes first.
CodexContents  == [keys : Agents \cup {"user", "none"}, rest : 0..MaxEdits]
ClaudeContents ==
  [fields : Agents \cup {"user", "none", "managed"}, rest : 0..MaxChanges]

ASSUME CodexAssumption ==
  /\ MaxEdits \in Nat /\ MaxMishaps \in Nat
  /\ Agents \cap {"user", "none"} = {}
  /\ None \notin CodexContents
  /\ None \notin [existed : BOOLEAN, original : CodexContents, managed : CodexContents]
ASSUME ClaudeAssumption ==
  /\ MaxChanges \in Nat /\ MaxTroubles \in Nat
  /\ IsFiniteSet(Modes \cup Profiles) /\ Modes \cup Profiles # {}
  /\ Modes \cup Profiles = 1..Cardinality(Modes \cup Profiles)
  /\ Agents \cap {"user", "none", "managed"} = {}
  /\ None \notin Agents /\ None \notin ClaudeContents
  /\ None \notin [Modes \cup Profiles ->
       [before : ClaudeContents \cup {None}, managed : ClaudeContents]]
ASSUME AccountAssumption == MaxLogins \in Nat /\ MaxBreaks \in Nat
ASSUME UpdateAssumption ==
  None \notin [version : Releases, good : BOOLEAN] /\ MaxAccidents \in Nat
\* Tool calls are counted from 0.
ASSUME StreamsAssumption ==
  /\ MaxRead \in Nat /\ MaxFrames \in Nat /\ MaxChunks \in Nat
  /\ IsFiniteSet(Tools) /\ Tools = 0..(Cardinality(Tools) - 1)
  /\ None \notin Nat /\ None \notin [at : Nat, args : Seq(Nat)]
ASSUME EventsAssumption == Capacity \in Nat /\ MaxEvents \in Nat /\ MaxClients \in Nat
ASSUME AgentsAssumption ==
  /\ Commands \cap Agents = {}
  /\ None \notin Commands /\ None \notin SessionIds /\ None \notin LocalModels
  /\ LocalModels \cap CloudModels = {}
  /\ IsFiniteSet(SessionIds) /\ IsFiniteSet(Agents)

VARIABLES
  component,
  cxConfig, cxBackup, cxState, cxStep, cxNew, cxEdits, cxMishaps,
  cxDisturbed,
  clText, clSaved, clDoing, clAt, clRoute, clRecord, clChanges, clTroubles,
  clUpset,
  acKey, acMeta, acRevoked, acPc, acId, acSecret, acToken, acFresh,
  acLogins, acBreaks, acSeen, acMixed,
  upPublished, upFile, upPc, upRunning, upRequest, upTarget, upStaged,
  upAside, upAccidents, upStranded, upOvertaken,
  csPath, csStatus, csAt, csFrames, csTail, csTerminal, csAnswer, csWhole,
  csQuoted,
  chProtocol, chPhase, chChunks, chPending, chNext, chTextAt, chCalls,
  chFinish, chOutcome, chOpened, chClosed, chTold, chGiven, chSaid,
  chTogether,
  evEvents, evNext, evSubscribers, evChannel, evIsClosed, evSeen,
  evOverflowed,
  arLife, arModel, arCreating, arPc, arApp, arWants, arKeep, arOwn, arReq,
  arMaker, arGone

codexVars == <<cxConfig, cxBackup, cxState, cxStep, cxNew, cxEdits, cxMishaps,
               cxDisturbed>>
Codex == INSTANCE CodexApp WITH
  Setups <- Agents, NoFile <- None, config <- cxConfig, backup <- cxBackup,
  state <- cxState, step <- cxStep, new <- cxNew, edits <- cxEdits,
  mishaps <- cxMishaps, disturbed <- cxDisturbed

claudeVars == <<clText, clSaved, clDoing, clAt, clRoute, clRecord, clChanges,
                clTroubles, clUpset>>
Claude == INSTANCE ClaudeApp WITH
  Routes <- Agents, NoText <- None, text <- clText, saved <- clSaved,
  doing <- clDoing, at <- clAt, route <- clRoute, record <- clRecord,
  changes <- clChanges, troubles <- clTroubles, upset <- clUpset

accountVars == <<acKey, acMeta, acRevoked, acPc, acId, acSecret, acToken,
                 acFresh, acLogins, acBreaks, acSeen, acMixed>>
Account == INSTANCE CloudSession WITH
  Clis <- Agents, Server <- None,
  key <- acKey, meta <- acMeta, revoked <- acRevoked, pc <- acPc, id <- acId,
  secret <- acSecret, token <- acToken, fresh <- acFresh, logins <- acLogins,
  breaks <- acBreaks, seen <- acSeen, mixed <- acMixed

updateVars == <<upPublished, upFile, upPc, upRunning, upRequest, upTarget,
                upStaged, upAside, upAccidents, upStranded, upOvertaken>>
Update == INSTANCE Updater WITH
  Updaters <- Agents, Missing <- None, published <- upPublished, file <- upFile, pc <- upPc,
  running <- upRunning, request <- upRequest, target <- upTarget,
  staged <- upStaged, aside <- upAside, accidents <- upAccidents,
  stranded <- upStranded, overtaken <- upOvertaken

cloudVars == <<csPath, csStatus, csAt, csFrames, csTail, csTerminal, csAnswer,
               csWhole, csQuoted>>
Cloud == INSTANCE CloudStream WITH
  path <- csPath, status <- csStatus, at <- csAt, frames <- csFrames, tail <- csTail,
  terminal <- csTerminal, answer <- csAnswer, whole <- csWhole,
  quoted <- csQuoted

chatVars == <<chProtocol, chPhase, chChunks, chPending, chNext, chTextAt,
              chCalls, chFinish, chOutcome, chOpened, chClosed, chTold,
              chGiven, chSaid, chTogether>>
Chat == INSTANCE ChatStream WITH
  protocol <- chProtocol, phase <- chPhase,
  chunks <- chChunks, pending <- chPending, next <- chNext,
  textAt <- chTextAt, calls <- chCalls, finish <- chFinish,
  outcome <- chOutcome, opened <- chOpened, closed <- chClosed,
  told <- chTold, given <- chGiven, said <- chSaid, together <- chTogether

eventsVars == <<evEvents, evNext, evSubscribers, evChannel, evIsClosed, evSeen,
                evOverflowed>>
Events == INSTANCE EventBroker WITH
  events <- evEvents, next <- evNext, subscribers <- evSubscribers, channel <- evChannel,
  isClosed <- evIsClosed, seen <- evSeen, overflowed <- evOverflowed

runsVars == <<arLife, arModel, arCreating, arPc, arApp, arWants, arKeep, arOwn,
              arReq, arMaker, arGone>>
Runs == INSTANCE AgentRuns WITH
  Requests <- Agents, Ids <- SessionIds, life <- arLife, model <- arModel,
  creating <- arCreating, pc <- arPc, app <- arApp, wants <- arWants,
  keep <- arKeep, own <- arOwn, req <- arReq, maker <- arMaker, gone <- arGone

\* Only the component that is chosen may begin in several ways.
InitPeriphery ==
  /\ component \in {"targets", "Codex App", "Claude App", "account",
                    "updater", "cloud stream", "local stream", "events",
                    "agents"}
  /\ Init /\ Codex!Init /\ Claude!Init /\ Account!Init /\ Update!Init
  /\ Cloud!Init /\ Chat!Init /\ Events!Init /\ Runs!Init
  /\ component = "targets" \/ file = None
  /\ component = "Codex App" \/ cxConfig = None
  /\ component = "Claude App" \/ \A f \in Claude!Files : clText[f] = None
  /\ component = "updater" \/ upFile.version = CHOOSE r \in Releases : TRUE
  /\ component = "cloud stream" \/ csPath = CHOOSE p \in Paths : TRUE
  /\ component = "local stream" \/ chProtocol = CHOOSE p \in Protocols : TRUE

NextPeriphery ==
  \/ /\ component = "targets" /\ Next
     /\ UNCHANGED <<component, codexVars, claudeVars, accountVars,
                    updateVars, cloudVars, chatVars, eventsVars, runsVars>>
  \/ /\ component = "Codex App" /\ Codex!Next
     /\ UNCHANGED <<component, vars, claudeVars, accountVars, updateVars,
                    cloudVars, chatVars, eventsVars, runsVars>>
  \/ /\ component = "Claude App" /\ Claude!Next
     /\ UNCHANGED <<component, vars, codexVars, accountVars, updateVars,
                    cloudVars, chatVars, eventsVars, runsVars>>
  \/ /\ component = "account" /\ Account!Next
     /\ UNCHANGED <<component, vars, codexVars, claudeVars, updateVars,
                    cloudVars, chatVars, eventsVars, runsVars>>
  \/ /\ component = "updater" /\ Update!Next
     /\ UNCHANGED <<component, vars, codexVars, claudeVars, accountVars,
                    cloudVars, chatVars, eventsVars, runsVars>>
  \/ /\ component = "cloud stream" /\ Cloud!Next
     /\ UNCHANGED <<component, vars, codexVars, claudeVars, accountVars,
                    updateVars, chatVars, eventsVars, runsVars>>
  \/ /\ component = "local stream" /\ Chat!Next
     /\ UNCHANGED <<component, vars, codexVars, claudeVars, accountVars,
                    updateVars, cloudVars, eventsVars, runsVars>>
  \/ /\ component = "events" /\ Events!Next
     /\ UNCHANGED <<component, vars, codexVars, claudeVars, accountVars,
                    updateVars, cloudVars, chatVars, runsVars>>
  \/ /\ component = "agents" /\ Runs!Next
     /\ UNCHANGED <<component, vars, codexVars, claudeVars, accountVars,
                    updateVars, cloudVars, chatVars, eventsVars>>

allVars == <<component, vars, codexVars, claudeVars, accountVars, updateVars,
              cloudVars, chatVars, eventsVars, runsVars>>

SpecPeriphery == InitPeriphery /\ [][NextPeriphery]_allVars

-----------------------------------------------------------------------------
(* The properties of the components; each module says what they mean. *)

\* The type invariants of the modules.
TypesOK ==
  /\ TypeOK /\ Codex!TypeOK /\ Claude!TypeOK /\ Account!TypeOK /\ Update!TypeOK
  /\ Cloud!TypeOK /\ Chat!TypeOK /\ Events!TypeOK /\ Runs!TypeOK

\* A Codex configuration restored undisturbed has the user's latest changes and
\* none of Backpack's (ConfigureCodexApp, RestoreCodexApp).
CodexRestored == Codex!CodexRestored

\* The same of Claude App's four files (RestoreClaudeApp).
ClaudeRestored == Claude!ClaudeRestored

\* device.key and device.json do not name two devices after saves and deletes
\* that were alone and not cut off (CredentialStore).
CredentialWhole == Account!CredentialWhole

\* A request signs with a credential that is stored meanwhile (token).
SignedFromStore == Account!SignedFromStore

\* A verified program is at its place (Install, replaceWithRollback).
ProgramInPlace == Update!ProgramInPlace

\* A channel that nothing has overtaken never leads back to an older version
\* (Check).
NoSilentDowngrade == Update!NoSilentDowngrade

\* A cloud stream that ends between frames and quotes no marker ends with its
\* own end or a failure, never with both (proxyResponsesStream).
OneOutcome == Cloud!OneOutcome

\* Items, arguments and finish reason of a local answer arrive as they were
\* sent (streamResponses, streamAnthropic).
FaithfullyTranslated == Chat!FaithfullyTranslated

\* A client that keeps up gets every event in order (Broker).
EventsComplete == Events!EventsComplete

\* A command leaves no session serving without a reason (runCommand).
SessionsAccounted == Runs!SessionsAccounted

\* Requests load a model at most once each (Ensure).
LoadsBounded == Runs!LoadsBounded

\* A refused request is not given the same session again (chatCompletions).
RefusedForGood == Runs!RefusedForGood
=============================================================================
