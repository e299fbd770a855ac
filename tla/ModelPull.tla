------------------------------ MODULE ModelPull ------------------------------
(***************************************************************************)
(* Installation of a model package (internal/models, Manager.Pull): its    *)
(* artifacts are downloaded into <name>.part, resumed where an earlier     *)
(* attempt left off, verified and renamed; then the package manifest and   *)
(* the installed-model record are written.                                 *)
(*                                                                         *)
(* Pullers share the directory: handlers of one daemon, or commands.  An   *)
(* open file keeps its inode when the name moves on, so names map to       *)
(* inodes and inodes to contents.  A content is a sequence of chunks; a    *)
(* chunk is good when it is what the manifest's SHA-256 was made from.     *)
(***************************************************************************)
EXTENDS Naturals, Sequences, FiniteSets

CONSTANTS
  Pullers,         \* concurrent calls of Pull for one package
  Files,           \* number of its artifacts, pulled in this order
  Chunks,          \* SizeBytes of each, in chunks
  Inodes,          \* files the disk can hold
  None,            \* no file
  FaultyOrigin,    \* the origin may send wrong data or too much of it
  MaxDamages,      \* bound: artifacts that rot after their installation
  MaxCrashes       \* bound: pulls whose process dies

ASSUME SizesAssumption == Files \in Nat \ {0} /\ Chunks \in Nat \ {0}
ASSUME NoneAssumption == None \notin Inodes
ASSUME EnvironmentAssumption ==
  FaultyOrigin \in BOOLEAN /\ MaxDamages \in Nat /\ MaxCrashes \in Nat

VARIABLES
  part, dest,      \* <file>.part and <file>: inode or None
  data,            \* content of each inode
  yamlTmp, yaml,   \* backpack-model.yaml.tmp and backpack-model.yaml exist
  record,          \* the installed-model record exists
  pc, file,        \* what each call is about to do, and for which artifact
  fd, pos, intact, \* its open file, its offset, all it hashed was good
  honest,          \* observation: the origin has served this call correctly
  strikes,         \* observation: failures in a row of calls served correctly
  damages, crashes \* used budgets

disk   == <<part, dest, data>>
meta   == <<yamlTmp, yaml, record>>
stream == <<fd, pos, intact>>
notes  == <<honest, strikes, damages, crashes>>
vars   == <<disk, meta, pc, file, stream, notes>>

Good(content) == content = [i \in 1..Chunks |-> "good"]
Intact(inode) == inode # None /\ Good(data[inode])

\* WriteAt beyond the end of the file leaves a hole.
WriteAt(content, k, chunk) ==
  [i \in 1..(IF k > Len(content) THEN k ELSE Len(content)) |->
     IF i = k THEN chunk ELSE IF i <= Len(content) THEN content[i] ELSE "hole"]

Goto(p, step) == pc' = [pc EXCEPT ![p] = step]

Closed(p) ==
  /\ fd' = [fd EXCEPT ![p] = None]
  /\ pos' = [pos EXCEPT ![p] = 0]
  /\ intact' = [intact EXCEPT ![p] = FALSE]

\* Pull returns; what it has written stays for the next attempt.
Leave(p) ==
  /\ Goto(p, "idle")
  /\ file' = [file EXCEPT ![p] = 1]
  /\ Closed(p)

\* It gives up on what it found, which counts unless the origin is to blame.
Fail(p) ==
  /\ Leave(p)
  /\ strikes' = IF ~honest[p] THEN 0 ELSE IF strikes > Files THEN strikes ELSE strikes + 1

\* It is cut short.
Abort(p) == Leave(p) /\ strikes' = 0

\* Fault: the loop runs over the end of the list.
NextFileOffByOne(p) ==
  /\ Goto(p, IF file[p] <= Files THEN "verify" ELSE "yamlTmp")
  /\ file' = [file EXCEPT ![p] = @ + 1]
  /\ Closed(p)

\* On to the next artifact, or to the package manifest.
NextFile(p) ==
  /\ Goto(p, IF file[p] < Files THEN "verify" ELSE "yamlTmp")
  /\ file' = [file EXCEPT ![p] = IF @ < Files THEN @ + 1 ELSE 1]
  /\ Closed(p)

-----------------------------------------------------------------------------
(* Pull, up to the download *)

Begin(p) ==
  /\ pc[p] = "idle"
  /\ Goto(p, "resolve")
  /\ honest' = [honest EXCEPT ![p] = TRUE]
  /\ UNCHANGED <<disk, meta, file, stream, strikes, damages, crashes>>

\* resolvePackage: the origin's manifest, which has to be readable, to name
\* this model and to offer a package, is not kept before everything is there.
Resolve(p, ok) ==
  /\ pc[p] = "resolve"
  /\ IF ok THEN Goto(p, "verify") /\ UNCHANGED <<file, stream>> ELSE Leave(p)
  /\ UNCHANGED <<disk, meta, notes>>

\* Fault: what is installed already is fetched again.
VerifySkipped(p) ==
  /\ pc[p] = "verify"
  /\ Goto(p, "stat")
  /\ UNCHANGED <<disk, meta, file, stream, notes>>

VerifyCached(p) ==
  /\ pc[p] = "verify"
  /\ IF Intact(dest[file[p]]) THEN NextFile(p)
     ELSE Goto(p, "stat") /\ UNCHANGED <<file, stream>>
  /\ UNCHANGED <<disk, meta, notes>>

\* downloadVerified: how much an earlier attempt has left.
StatPart(p) ==
  LET kept == part[file[p]]
      size == IF kept = None THEN 0 ELSE Len(data[kept])
  IN /\ pc[p] = "stat"
     /\ Goto(p, IF size > Chunks THEN "discard"
                ELSE IF size = Chunks THEN "finalize" ELSE "request")
     /\ pos' = [pos EXCEPT ![p] = IF size > Chunks THEN 0 ELSE size]
     /\ UNCHANGED <<disk, meta, file, fd, intact, notes>>

Discard(p) ==
  /\ pc[p] = "discard"
  /\ IF part[file[p]] = None
       THEN Fail(p) /\ UNCHANGED part
       ELSE /\ part' = [part EXCEPT ![file[p]] = None]
            /\ Goto(p, "request")
            /\ UNCHANGED <<file, stream, strikes>>
  /\ UNCHANGED <<dest, data, meta, honest, damages, crashes>>

\* finalizeDownload: a complete partial is hashed instead of fetched again.
Finalize(p) ==
  /\ pc[p] = "finalize"
  /\ IF part[file[p]] = None
       THEN Fail(p)
       ELSE /\ Goto(p, IF Intact(part[file[p]]) THEN "install" ELSE "reject")
            /\ UNCHANGED <<file, stream, strikes>>
  /\ UNCHANGED <<disk, meta, honest, damages, crashes>>

-----------------------------------------------------------------------------
(* The transfer *)

\* The origin honours the Range (206 with the exact start) or ignores it (200).
Answer(p) ==
  /\ pc[p] = "request"
  /\ \E offset \in {0, pos[p]} : pos' = [pos EXCEPT ![p] = offset]
  /\ Goto(p, "open")
  /\ UNCHANGED <<disk, meta, file, fd, intact, notes>>

\* No answer, another status, or a range that starts elsewhere.
Refuse(p) ==
  /\ pc[p] = "request"
  /\ Abort(p)
  /\ UNCHANGED <<disk, meta, honest, damages, crashes>>

\* O_CREATE, and O_TRUNC when the transfer starts at 0.
Open(p) ==
  /\ pc[p] = "open"
  /\ \E i \in Inodes :
       /\ IF part[file[p]] # None THEN i = part[file[p]]
          ELSE /\ \A f \in 1..Files : i \notin {part[f], dest[f]}
               /\ \A q \in Pullers : i # fd[q]
       /\ part' = [part EXCEPT ![file[p]] = i]
       /\ fd' = [fd EXCEPT ![p] = i]
       /\ data' = [data EXCEPT ![i] = IF pos[p] = 0 \/ part[file[p]] = None THEN <<>> ELSE @]
  /\ intact' = [intact EXCEPT ![p] = TRUE]
  /\ Goto(p, IF pos[p] = 0 THEN "body" ELSE "prefix")
  /\ UNCHANGED <<dest, meta, file, pos, notes>>

\* Fault: what an earlier attempt received is not hashed.
PrefixTrusted(p) ==
  /\ pc[p] = "prefix"
  /\ Goto(p, "body")
  /\ UNCHANGED <<disk, meta, file, stream, notes>>

\* The resumed prefix is hashed through a second Open of the name.
HashPrefix(p) ==
  LET kept == part[file[p]] IN
  /\ pc[p] = "prefix"
  /\ IF kept = None \/ Len(data[kept]) < pos[p]
       THEN Fail(p)
       ELSE /\ intact' = [intact EXCEPT ![p] = \A i \in 1..pos[p] : data[kept][i] = "good"]
            /\ Goto(p, "body")
            /\ UNCHANGED <<file, fd, pos, strikes>>
  /\ UNCHANGED <<disk, meta, honest, damages, crashes>>

\* io.Copy: a chunk of the body is written and hashed.
Receive(p, chunk) ==
  /\ pc[p] = "body"
  /\ pos[p] <= Chunks
  /\ pos[p] = Chunks => chunk = "bad"
  /\ chunk = "bad" => FaultyOrigin
  /\ data' = [data EXCEPT ![fd[p]] = WriteAt(@, pos[p] + 1, chunk)]
  /\ pos' = [pos EXCEPT ![p] = @ + 1]
  /\ intact' = [intact EXCEPT ![p] = @ /\ chunk = "good"]
  /\ honest' = [honest EXCEPT ![p] = @ /\ chunk = "good"]
  /\ UNCHANGED <<part, dest, meta, pc, file, fd, strikes, damages, crashes>>

\* The body ends without an error, in full or not.
BodyEnds(p) ==
  /\ pc[p] = "body"
  /\ honest' = [honest EXCEPT ![p] = @ /\ pos[p] = Chunks]
  /\ Goto(p, "check")
  /\ UNCHANGED <<disk, meta, file, stream, strikes, damages, crashes>>

\* The connection breaks, or the caller's context is cancelled.
BodyBreaks(p) ==
  /\ pc[p] = "body"
  /\ Abort(p)
  /\ UNCHANGED <<disk, meta, honest, damages, crashes>>

\* Fault: only the size is checked.
CheckSizeOnly(p) ==
  LET kept == part[file[p]] IN
  /\ pc[p] = "check"
  /\ IF kept = None \/ Len(data[kept]) # Chunks
       THEN Fail(p)
       ELSE /\ Goto(p, "install")
            /\ fd' = [fd EXCEPT ![p] = None]
            /\ UNCHANGED <<file, pos, intact, strikes>>
  /\ UNCHANGED <<disk, meta, honest, damages, crashes>>

\* The size is the one the name has now, the hash that of what was received.
CheckDownload(p) ==
  LET kept == part[file[p]] IN
  /\ pc[p] = "check"
  /\ IF kept = None \/ Len(data[kept]) # Chunks
       THEN Fail(p)
       ELSE /\ Goto(p, IF intact[p] /\ pos[p] = Chunks THEN "install" ELSE "reject")
            /\ fd' = [fd EXCEPT ![p] = None]
            /\ UNCHANGED <<file, pos, intact, strikes>>
  /\ UNCHANGED <<disk, meta, honest, damages, crashes>>

\* Fault: the partial that does not match is kept.
RejectKeeps(p) ==
  /\ pc[p] = "reject"
  /\ Fail(p)
  /\ UNCHANGED <<disk, meta, honest, damages, crashes>>

\* Checksum mismatch: the partial is removed.
Reject(p) ==
  /\ pc[p] = "reject"
  /\ part' = [part EXCEPT ![file[p]] = None]
  /\ Fail(p)
  /\ UNCHANGED <<dest, data, meta, honest, damages, crashes>>

-----------------------------------------------------------------------------
(* Installation *)

\* installPartial
RemoveOld(p) ==
  /\ pc[p] = "install"
  /\ dest' = [dest EXCEPT ![file[p]] = None]
  /\ Goto(p, "rename")
  /\ UNCHANGED <<part, data, meta, file, stream, notes>>

RenamePart(p) ==
  LET f == file[p] IN
  /\ pc[p] = "rename"
  /\ IF part[f] = None
       THEN Fail(p) /\ UNCHANGED <<part, dest>>
       ELSE /\ dest' = [dest EXCEPT ![f] = part[f]]
            /\ part' = [part EXCEPT ![f] = None]
            /\ NextFile(p)
            /\ UNCHANGED strikes
  /\ UNCHANGED <<data, meta, honest, damages, crashes>>

\* atomicWrite of backpack-model.yaml; its content is the same for everyone.
WriteYamlTmp(p) ==
  /\ pc[p] = "yamlTmp"
  /\ yamlTmp' = TRUE
  /\ Goto(p, "yamlRemove")
  /\ UNCHANGED <<disk, yaml, record, file, stream, notes>>

RemoveYaml(p) ==
  /\ pc[p] = "yamlRemove"
  /\ yaml' = FALSE
  /\ Goto(p, "yamlRename")
  /\ UNCHANGED <<disk, yamlTmp, record, file, stream, notes>>

RenameYaml(p) ==
  /\ pc[p] = "yamlRename"
  /\ IF yamlTmp
       THEN /\ yaml' = TRUE /\ yamlTmp' = FALSE
            /\ Goto(p, "record")
            /\ UNCHANGED <<file, stream, strikes>>
       ELSE Fail(p) /\ UNCHANGED <<yaml, yamlTmp>>
  /\ UNCHANGED <<disk, record, honest, damages, crashes>>

\* WriteRecord, the commit point: Pull succeeds.
WriteRecord(p) ==
  /\ pc[p] = "record"
  /\ record' = TRUE
  /\ strikes' = 0
  /\ Goto(p, "idle")
  /\ UNCHANGED <<disk, yaml, yamlTmp, file, stream, honest, damages, crashes>>
-----------------------------------------------------------------------------
(* Environment *)

Crash(p) ==
  /\ pc[p] # "idle"
  /\ crashes < MaxCrashes
  /\ crashes' = crashes + 1
  /\ Abort(p)
  /\ UNCHANGED <<disk, meta, honest, damages>>

\* An installed artifact rots, between two pulls.
Damage(f) ==
  /\ \A p \in Pullers : pc[p] = "idle"
  /\ dest[f] # None
  /\ damages < MaxDamages
  /\ damages' = damages + 1
  /\ data' = [data EXCEPT ![dest[f]] = WriteAt(@, 1, "bad")]
  /\ UNCHANGED <<part, dest, meta, pc, file, stream, honest, strikes, crashes>>

-----------------------------------------------------------------------------
Init ==
  /\ part = [f \in 1..Files |-> None] /\ dest = [f \in 1..Files |-> None]
  /\ data = [i \in Inodes |-> <<>>]
  /\ yamlTmp = FALSE /\ yaml = FALSE /\ record = FALSE
  /\ pc = [p \in Pullers |-> "idle"]
  /\ file = [p \in Pullers |-> 1]
  /\ fd = [p \in Pullers |-> None]
  /\ pos = [p \in Pullers |-> 0]
  /\ intact = [p \in Pullers |-> FALSE]
  /\ honest = [p \in Pullers |-> TRUE]
  /\ strikes = 0 /\ damages = 0 /\ crashes = 0

downloadVerified(p) ==
  \/ StatPart(p) \/ Discard(p) \/ Finalize(p)
  \/ Answer(p) \/ Refuse(p) \/ Open(p) \/ HashPrefix(p)
  \/ \E chunk \in {"good", "bad"} : Receive(p, chunk)
  \/ BodyEnds(p) \/ BodyBreaks(p) \/ CheckDownload(p) \/ Reject(p)
  \/ RemoveOld(p) \/ RenamePart(p)

Pull(p) ==
  \/ Begin(p) \/ (\E ok \in BOOLEAN : Resolve(p, ok)) \/ VerifyCached(p) \/ downloadVerified(p)
  \/ WriteYamlTmp(p) \/ RemoveYaml(p) \/ RenameYaml(p) \/ WriteRecord(p)

Next ==
  \/ \E p \in Pullers : Pull(p) \/ Crash(p)
  \/ \E f \in 1..Files : Damage(f)

Spec == Init /\ [][Next]_vars

-----------------------------------------------------------------------------
(* Properties *)

Content == UNION {[1..n -> {"good", "bad", "hole"}] : n \in 0..(Chunks + 1)}

\* The type invariant of the files and the calls.
TypeOK ==
  /\ part \in [1..Files -> Inodes \cup {None}]
  /\ dest \in [1..Files -> Inodes \cup {None}]
  /\ data \in [Inodes -> Content]
  /\ yamlTmp \in BOOLEAN /\ yaml \in BOOLEAN /\ record \in BOOLEAN
  /\ pc \in [Pullers -> {"idle", "resolve", "verify", "stat", "discard", "finalize",
                         "request", "open", "prefix", "body", "check", "reject", "install",
                         "rename", "yamlTmp", "yamlRemove", "yamlRename", "record"}]
  /\ file \in [Pullers -> 1..Files]
  /\ fd \in [Pullers -> Inodes \cup {None}]
  /\ pos \in [Pullers -> 0..(Chunks + 1)]
  /\ intact \in [Pullers -> BOOLEAN] /\ honest \in [Pullers -> BOOLEAN]
  /\ strikes \in 0..(Files + 1)
  /\ damages \in 0..MaxDamages /\ crashes \in 0..MaxCrashes

\* docs/model-packages.md: "Declared size and SHA-256 are verified before
\* atomic installation."  What takes the name of an artifact is good, although
\* the hash is that of the bytes received, over several attempts, and not that
\* of the file (downloadVerified, installPartial).
InstallVerified ==
  [][\A f \in 1..Files : dest'[f] \notin {None, dest[f]} => Good(data[dest'[f]])]_vars

\* A good artifact keeps its name: neither a repair of the package nor a pull
\* that fails takes it away (Pull, installPartial).
GoodKept ==
  [][\A f \in 1..Files : Intact(dest[f]) => dest'[f] = dest[f]]_vars

\* When Pull succeeds the whole package is there: every artifact, whichever
\* attempt brought it, and the manifest the record leads to.
SuccessIsComplete ==
  [][\A p \in Pullers : WriteRecord(p) =>
       yaml /\ \A f \in 1..Files : Intact(dest[f])]_vars

\* What earlier attempts left behind is used up: against an origin that serves
\* correctly, Pull fails at most once for each artifact before it succeeds,
\* however a partial was cut, overrun or corrupted.
RetriesSucceed == strikes <= Files
=============================================================================
