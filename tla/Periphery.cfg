SPECIFICATION SpecPeriphery
CONSTANTS
  Procs = {p1, p2}
  Ids = {a, b}
  None = None
  MaxCrashes = 1
  MaxFailures = 1
  Agents = {p1, p2}
  MaxEdits = 3
  MaxMishaps = 2
  Modes = {1}
  Profiles = {2, 3}
  MaxChanges = 2
  MaxTroubles = 1
  MaxLogins = 2
  MaxBreaks = 1
  Releases <- MCReleases
  MaxAccidents = 2
  Paths = {"/v1/responses", "/v1/messages", "/v1/chat/completions"}
  MaxRead = 3
  MaxFrames = 4
  Protocols = {"responses", "messages"}
  Tools = {0, 1}
  MaxChunks = 5
  Capacity = 2
  MaxEvents = 4
  MaxClients = 2
  Commands = {"run"}
  SessionIds = {1, 2, 3}
  LocalModels = {1}
  CloudModels = {2}
SYMMETRY Symmetry
INVARIANTS
  TypesOK LegacyKept TargetsRecoverable CredentialWhole SignedFromStore
  ProgramInPlace OneOutcome FaithfullyTranslated EventsComplete
  SessionsAccounted LoadsBounded
PROPERTIES CodexRestored ClaudeRestored NoSilentDowngrade RefusedForGood
