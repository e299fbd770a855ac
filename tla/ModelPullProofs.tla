---------------------------- MODULE ModelPullProofs ----------------------------
(***************************************************************************)
(* Proofs about ModelPull for any number of artifacts, chunks, inodes and  *)
(* failures: type correctness, whatever calls overlap; and, for calls that *)
(* do not, that only verified artifacts are installed, that good ones are  *)
(* kept, that a call that succeeds has brought the whole package, and that *)
(* retries use up what failed attempts have left.                          *)
(***************************************************************************)
EXTENDS ModelPull, FiniteSetTheorems, TLAPS

-----------------------------------------------------------------------------
(* The inductive invariant behind InstallVerified, GoodKept and            *)
(* SuccessIsComplete, for calls that do not overlap.                       *)

OneCall == \A p, q \in Pullers : p = q

Fetching == {"stat", "discard", "finalize", "request", "open", "prefix", "body",
             "check", "reject", "install", "rename"}
Finishing == {"yamlTmp", "yamlRemove", "yamlRename", "record"}

\* No two names lead to the same partial file.
OwnInodes ==
  \A f, g \in 1..Files : part[f] # None =>
    part[f] # dest[g] /\ (part[f] = part[g] => f = g)

\* A call at rest begins with the first artifact, and so does its end.
AtFirst == \A p \in Pullers : pc[p] \in {"idle", "resolve"} \cup Finishing => file[p] = 1

\* The open file is the one under the name.
SameFile ==
  \A p \in Pullers : pc[p] \in {"prefix", "body", "check"} =>
    fd[p] # None /\ fd[p] = part[file[p]]

\* What was hashed is what the file has up to the offset.
Hashed ==
  \A p \in Pullers : pc[p] \in {"body", "check"} =>
    /\ pos[p] <= Len(data[fd[p]])
    /\ intact[p] => \A i \in 1..pos[p] : data[fd[p]][i] = "good"

\* What is about to be installed is good.
Verified ==
  \A p \in Pullers : pc[p] \in {"install", "rename"} => Intact(part[file[p]])

\* What is being fetched is not there yet, all before it is, and in the end all.
Missing ==
  \A p \in Pullers :
    /\ pc[p] \in Fetching => ~Intact(dest[file[p]])
    /\ pc[p] = "rename" => dest[file[p]] = None
Fetched ==
  \A p \in Pullers :
    /\ \A f \in 1..(file[p] - 1) : Intact(dest[f])
    /\ pc[p] \in Finishing => \A f \in 1..Files : Intact(dest[f])
    /\ pc[p] = "record" => yaml

PInv ==
  /\ TypeOK /\ OwnInodes /\ AtFirst /\ SameFile /\ Hashed /\ Verified
  /\ Missing /\ Fetched

(* That behind RetriesSucceed, likewise.                                   *)

\* The artifacts whose partial will be found bad.
Spoilt ==
  {f \in 1..Files : part[f] # None
     /\ \E i \in 1..Len(data[part[f]]) : data[part[f]][i] # "good"}

\* A call finds what it has left: the partial, of the size it has found or
\* made it, and the file that it has written for the manifest.
Resumed ==
  \A p \in Pullers :
    /\ pc[p] = "resolve" => honest[p]
    /\ pc[p] \in {"discard", "finalize"} => part[file[p]] # None
    /\ pc[p] = "discard" => pos[p] = 0
    /\ pc[p] = "finalize" => Len(data[part[file[p]]]) = Chunks
    /\ pc[p] \in {"request", "open"} =>
         pos[p] = 0 \/ (part[file[p]] # None /\ pos[p] = Len(data[part[file[p]]]))
    /\ pc[p] \in {"prefix", "body", "check"} => pos[p] = Len(data[fd[p]])
    /\ pc[p] \in {"yamlRemove", "yamlRename"} => yamlTmp

\* A call that is served correctly fails over an earlier attempt only.
Inherited ==
  \A p \in Pullers : honest[p] =>
    /\ pc[p] = "check" => pos[p] = Chunks
    /\ pc[p] \in {"body", "check"} /\ ~intact[p] => file[p] \in Spoilt
    /\ pc[p] = "reject" => file[p] \in Spoilt

\* Each failure uses up one of them; a call that is not served correctly adds
\* to them, but begins the count anew.
UsedUp ==
  /\ strikes <= Files
  /\ \A p \in Pullers : pc[p] = "idle" \/ honest[p] =>
       strikes + Cardinality(Spoilt) <= Files

QInv == PInv /\ Resumed /\ Inherited /\ UsedUp

-----------------------------------------------------------------------------
(* Contents of files *)

\* A content is a sequence of chunks, one longer than the artifact at most.
LEMMA ContentSeq ==
  ASSUME NEW c \in Content
  PROVE  /\ c \in Seq({"good", "bad", "hole"})
         /\ Len(c) \in 0..(Chunks + 1)
         /\ DOMAIN c = 1..Len(c)
         /\ c \in [1..Len(c) -> {"good", "bad", "hole"}]
<1>1. PICK n \in 0..(Chunks + 1) : c \in [1..n -> {"good", "bad", "hole"}]
  BY DEF Content
<1>2. n \in Nat
  BY SizesAssumption
<1>3. c \in Seq({"good", "bad", "hole"}) /\ Len(c) = n
  BY <1>1, <1>2
<1> QED
  BY <1>1, <1>3

\* So is what the origin's truncation leaves, nothing.
LEMMA EmptyContent == <<>> \in Content /\ Len(<<>>) = 0
<1>1. 0 \in 0..(Chunks + 1)
  BY SizesAssumption
<1>2. <<>> \in [1..0 -> {"good", "bad", "hole"}]
  OBVIOUS
<1> QED
  BY <1>1, <1>2 DEF Content

\* WriteAt changes one chunk and extends the file up to it.
LEMMA WriteAtContent ==
  ASSUME NEW c \in Content, NEW k \in 1..(Chunks + 1), NEW chunk \in {"good", "bad"}
  PROVE  /\ WriteAt(c, k, chunk) \in Content
         /\ Len(WriteAt(c, k, chunk)) >= k
         /\ WriteAt(c, k, chunk)[k] = chunk
         /\ \A i \in 1..Len(c) : i # k => WriteAt(c, k, chunk)[i] = c[i]
<1> DEFINE n == IF k > Len(c) THEN k ELSE Len(c)
           w == WriteAt(c, k, chunk)
<1>1. n \in 0..(Chunks + 1) /\ n \in Nat /\ k \in 1..n /\ Len(c) \in 0..n
  BY ContentSeq, SizesAssumption
<1>2. w = [i \in 1..n |-> IF i = k THEN chunk ELSE IF i <= Len(c) THEN c[i] ELSE "hole"]
  BY DEF WriteAt
<1>3. \A i \in 1..Len(c) : c[i] \in {"good", "bad", "hole"}
  BY ContentSeq
<1>4. \A i \in 1..n : i <= Len(c) => i \in 1..Len(c)
  BY <1>1
<1> HIDE DEF n, w
<1>5. w \in [1..n -> {"good", "bad", "hole"}]
  BY <1>2, <1>3, <1>4
<1>6. w \in Content
  BY <1>1, <1>5 DEF Content
<1>7. Len(w) = n
  BY <1>1, <1>5
<1>8. w[k] = chunk /\ \A i \in 1..Len(c) : i # k => w[i] = c[i]
  BY <1>1, <1>2
<1> QED
  BY <1>1, <1>6, <1>7, <1>8 DEF w

\* A file of the right size whose chunks are all good is good.
LEMMA AllGood ==
  ASSUME NEW c \in Content, Len(c) = Chunks, \A i \in 1..Chunks : c[i] = "good"
  PROVE  Good(c)
BY ContentSeq DEF Good

-----------------------------------------------------------------------------
(* Types *)

PCs == {"idle", "resolve", "verify", "stat", "discard", "finalize",
        "request", "open", "prefix", "body", "check", "reject", "install",
        "rename", "yamlTmp", "yamlRemove", "yamlRename", "record"}

\* No file, nobody at work.
LEMMA TypeInit == Init => TypeOK
<1> SUFFICES ASSUME Init PROVE TypeOK
  OBVIOUS
<1>1. data \in [Inodes -> Content]
  BY EmptyContent DEF Init
<1>2. 1 \in 1..Files /\ 0 \in 0..(Chunks + 1) /\ 0 \in 0..(Files + 1)
  BY SizesAssumption
<1>3. 0 \in 0..MaxDamages /\ 0 \in 0..MaxCrashes
  BY EnvironmentAssumption
<1> QED
  BY <1>1, <1>2, <1>3 DEF Init, TypeOK

\* A call that returns, whichever way, rests at the first artifact.
LEMMA LeaveType ==
  ASSUME TypeOK, NEW p \in Pullers, Leave(p)
  PROVE  /\ pc' \in [Pullers -> PCs] /\ file' \in [Pullers -> 1..Files]
         /\ fd' \in [Pullers -> Inodes \cup {None}]
         /\ pos' \in [Pullers -> 0..(Chunks + 1)]
         /\ intact' \in [Pullers -> BOOLEAN]
         /\ pc'[p] = "idle" /\ file'[p] = 1
BY SizesAssumption DEF TypeOK, Leave, Closed, Goto, PCs

\* So does the count of failures it adds to.
LEMMA FailType ==
  ASSUME TypeOK, NEW p \in Pullers, Fail(p)
  PROVE  Leave(p) /\ strikes' \in 0..(Files + 1)
BY SizesAssumption DEF TypeOK, Fail

\* The next artifact is one of the package.
LEMMA NextFileType ==
  ASSUME TypeOK, NEW p \in Pullers, NextFile(p)
  PROVE  /\ pc' \in [Pullers -> PCs] /\ file' \in [Pullers -> 1..Files]
         /\ fd' \in [Pullers -> Inodes \cup {None}]
         /\ pos' \in [Pullers -> 0..(Chunks + 1)]
         /\ intact' \in [Pullers -> BOOLEAN]
         /\ pc'[p] \in {"verify", "yamlTmp"}
         /\ file[p] < Files => pc'[p] = "verify" /\ file'[p] = file[p] + 1
         /\ file[p] >= Files => pc'[p] = "yamlTmp" /\ file'[p] = 1 /\ file[p] = Files
BY SizesAssumption DEF TypeOK, NextFile, Closed, Goto, PCs

\* Every step of a call, a crash and a rotten artifact keep the types.
LEMMA TypeStep == TypeOK /\ [Next]_vars => TypeOK'
<1> SUFFICES ASSUME TypeOK, [Next]_vars PROVE TypeOK'
  OBVIOUS
<1> USE SizesAssumption, EnvironmentAssumption
<1> USE DEF disk, meta, stream, notes, Goto, PCs
<1>1. ASSUME NEW p \in Pullers, Begin(p) PROVE TypeOK'
  BY <1>1 DEF Begin, TypeOK
<1>2. ASSUME NEW p \in Pullers, NEW ok \in BOOLEAN, Resolve(p, ok) PROVE TypeOK'
  BY <1>2, LeaveType DEF Resolve, TypeOK
<1>3. ASSUME NEW p \in Pullers, VerifyCached(p) PROVE TypeOK'
  BY <1>3, NextFileType DEF VerifyCached, TypeOK
<1>4. ASSUME NEW p \in Pullers, StatPart(p) PROVE TypeOK'
  <2>1. part[file[p]] # None => Len(data[part[file[p]]]) \in 0..(Chunks + 1)
    BY ContentSeq DEF TypeOK
  <2> QED
    BY <1>4, <2>1 DEF StatPart, TypeOK
<1>5. ASSUME NEW p \in Pullers, Discard(p) PROVE TypeOK'
  <2>1. CASE part[file[p]] = None
    BY <1>5, <2>1, LeaveType, FailType DEF Discard, TypeOK
  <2>2. CASE part[file[p]] # None
    <3>1. part' \in [1..Files -> Inodes \cup {None}]
      BY <1>5, <2>2 DEF Discard, TypeOK
    <3> QED
      BY <1>5, <2>2, <3>1 DEF Discard, TypeOK
  <2> QED
    BY <2>1, <2>2
<1>6. ASSUME NEW p \in Pullers, Finalize(p) PROVE TypeOK'
  <2>1. CASE Fail(p)
    BY <1>6, <2>1, LeaveType, FailType DEF Finalize, TypeOK
  <2>2. CASE part[file[p]] # None
    BY <1>6, <2>2 DEF Finalize, TypeOK
  <2> QED
    BY <1>6, <2>1, <2>2 DEF Finalize
<1>7. ASSUME NEW p \in Pullers, Answer(p) PROVE TypeOK'
  BY <1>7 DEF Answer, TypeOK
<1>8. ASSUME NEW p \in Pullers, Refuse(p) PROVE TypeOK'
  BY <1>8, LeaveType DEF Refuse, Abort, TypeOK
<1>9. ASSUME NEW p \in Pullers, Open(p) PROVE TypeOK'
  BY <1>9, EmptyContent DEF Open, TypeOK
<1>10. ASSUME NEW p \in Pullers, HashPrefix(p) PROVE TypeOK'
  <2>1. CASE Fail(p)
    BY <1>10, <2>1, LeaveType, FailType DEF HashPrefix, TypeOK
  <2>2. CASE ~Fail(p)
    <3>1. /\ \E whole \in BOOLEAN : intact' = [intact EXCEPT ![p] = whole]
          /\ pc' = [pc EXCEPT ![p] = "body"]
          /\ UNCHANGED <<file, fd, pos, strikes, part, dest, data, meta, honest, damages, crashes>>
      BY <1>10, <2>2 DEF HashPrefix
    <3> QED
      BY <3>1 DEF TypeOK
  <2> QED
    BY <2>1, <2>2
<1>11. ASSUME NEW p \in Pullers, NEW chunk \in {"good", "bad"}, Receive(p, chunk) PROVE TypeOK'
  <2>1. pos[p] + 1 \in 1..(Chunks + 1)
    BY <1>11 DEF Receive, TypeOK
  <2>2. ASSUME fd[p] \in Inodes PROVE WriteAt(data[fd[p]], pos[p] + 1, chunk) \in Content
    BY <2>1, <2>2, WriteAtContent DEF TypeOK
  <2>3. data' \in [Inodes -> Content]
    BY <1>11, <2>2 DEF Receive, TypeOK
  <2> QED
    BY <1>11, <2>1, <2>3 DEF Receive, TypeOK
<1>12. ASSUME NEW p \in Pullers, BodyEnds(p) PROVE TypeOK'
  BY <1>12 DEF BodyEnds, TypeOK
<1>13. ASSUME NEW p \in Pullers, BodyBreaks(p) PROVE TypeOK'
  BY <1>13, LeaveType DEF BodyBreaks, Abort, TypeOK
<1>14. ASSUME NEW p \in Pullers, CheckDownload(p) PROVE TypeOK'
  <2>1. CASE Fail(p)
    BY <1>14, <2>1, LeaveType, FailType DEF CheckDownload, TypeOK
  <2>2. CASE ~Fail(p)
    <3>1. /\ \E step \in {"install", "reject"} : pc' = [pc EXCEPT ![p] = step]
          /\ fd' = [fd EXCEPT ![p] = None]
          /\ UNCHANGED <<file, pos, intact, strikes, part, dest, data, meta, honest, damages, crashes>>
      BY <1>14, <2>2 DEF CheckDownload
    <3> QED
      BY <3>1 DEF TypeOK
  <2> QED
    BY <2>1, <2>2
<1>15. ASSUME NEW p \in Pullers, Reject(p) PROVE TypeOK'
  BY <1>15, LeaveType, FailType DEF Reject, TypeOK
<1>16. ASSUME NEW p \in Pullers, RemoveOld(p) PROVE TypeOK'
  BY <1>16 DEF RemoveOld, TypeOK
<1>17. ASSUME NEW p \in Pullers, RenamePart(p) PROVE TypeOK'
  <2>1. CASE part[file[p]] = None
    BY <1>17, <2>1, LeaveType, FailType DEF RenamePart, TypeOK
  <2>2. CASE part[file[p]] # None
    <3>1. /\ NextFile(p) /\ dest' = [dest EXCEPT ![file[p]] = part[file[p]]]
          /\ part' = [part EXCEPT ![file[p]] = None]
          /\ UNCHANGED <<strikes, data, yamlTmp, yaml, record, honest, damages, crashes>>
      BY <1>17, <2>2 DEF RenamePart
    <3>2. part' \in [1..Files -> Inodes \cup {None}] /\ dest' \in [1..Files -> Inodes \cup {None}]
      BY <3>1 DEF TypeOK
    <3> QED
      BY <3>1, <3>2, NextFileType DEF TypeOK
  <2> QED
    BY <2>1, <2>2
<1>18. ASSUME NEW p \in Pullers, WriteYamlTmp(p) PROVE TypeOK'
  BY <1>18 DEF WriteYamlTmp, TypeOK
<1>19. ASSUME NEW p \in Pullers, RemoveYaml(p) PROVE TypeOK'
  BY <1>19 DEF RemoveYaml, TypeOK
<1>20. ASSUME NEW p \in Pullers, RenameYaml(p) PROVE TypeOK'
  BY <1>20, LeaveType, FailType DEF RenameYaml, TypeOK
<1>21. ASSUME NEW p \in Pullers, WriteRecord(p) PROVE TypeOK'
  BY <1>21 DEF WriteRecord, TypeOK
<1>22. ASSUME NEW p \in Pullers, Crash(p) PROVE TypeOK'
  BY <1>22, LeaveType DEF Crash, Abort, TypeOK
<1>23. ASSUME NEW f \in 1..Files, Damage(f) PROVE TypeOK'
  <2>1. dest[f] \in Inodes
    BY <1>23 DEF Damage, TypeOK
  <2>2. WriteAt(data[dest[f]], 1, "bad") \in Content
    BY <2>1, WriteAtContent DEF TypeOK
  <2>3. data' \in [Inodes -> Content]
    BY <1>23, <2>2 DEF Damage, TypeOK
  <2> QED
    BY <1>23, <2>3 DEF Damage, TypeOK
<1>24. ASSUME UNCHANGED vars PROVE TypeOK'
  BY <1>24 DEF vars, TypeOK
<1> QED
  BY <1>1, <1>2, <1>3, <1>4, <1>5, <1>6, <1>7, <1>8, <1>9, <1>10, <1>11, <1>12,
     <1>13, <1>14, <1>15, <1>16, <1>17, <1>18, <1>19, <1>20, <1>21, <1>22, <1>23,
     <1>24 DEF Next, Pull, downloadVerified

\* Files, names and calls are what their types say, however calls overlap.
THEOREM TypeCorrect == Spec => []TypeOK
BY TypeInit, TypeStep, PTL DEF Spec
-----------------------------------------------------------------------------
(* Calls that do not overlap *)

\* Nothing is there at the beginning.
LEMMA PullInit == Init => PInv
BY TypeInit, SizesAssumption DEF Init, PInv, OwnInodes, AtFirst, SameFile, Hashed,
  Verified, Missing, Fetched, Fetching, Finishing, Intact

\* A call that returns without touching a file or an installed name; a partial
\* may have been removed.
LEMMA LeaveKeeps ==
  ASSUME OneCall, PInv, TypeOK', NEW p \in Pullers, Leave(p),
         UNCHANGED <<dest, data>>,
         \A f \in 1..Files : part'[f] \in {None, part[f]}
  PROVE  PInv'
<1>1. pc'[p] = "idle" /\ file'[p] = 1
  BY LeaveType DEF PInv
<1>2. \A q \in Pullers : q = p
  BY DEF OneCall
<1>3. OwnInodes'
  BY DEF PInv, OwnInodes
<1> QED
  BY <1>1, <1>2, <1>3 DEF PInv, AtFirst, SameFile, Hashed, Verified, Missing, Fetched,
    Fetching, Finishing

\* A step from one artifact to the next, which is installed by now.
LEMMA NextFileKeeps ==
  ASSUME OneCall, PInv, TypeOK', OwnInodes', NEW p \in Pullers, NextFile(p),
         data' = data,
         \A f \in 1..file[p] : dest'[f] # None /\ Good(data[dest'[f]])
  PROVE  PInv'
<1>1. /\ pc'[p] \in {"verify", "yamlTmp"}
      /\ file[p] < Files => pc'[p] = "verify" /\ file'[p] = file[p] + 1
      /\ file[p] >= Files => pc'[p] = "yamlTmp" /\ file'[p] = 1 /\ file[p] = Files
  BY NextFileType DEF PInv
<1>2. \A q \in Pullers : q = p
  BY DEF OneCall
<1>3. file[p] \in 1..Files
  BY DEF PInv, TypeOK
<1>4. AtFirst' /\ SameFile' /\ Hashed' /\ Verified' /\ Missing'
  BY <1>1, <1>2, <1>3, SizesAssumption DEF AtFirst, SameFile, Hashed, Verified, Missing,
    Fetching, Finishing
<1>5. \A f \in 1..file[p] : Intact(dest[f])'
  BY DEF Intact
<1>6. \A f \in 1..(file'[p] - 1) : Intact(dest[f])'
  BY <1>1, <1>3, <1>5, SizesAssumption
<1>7. pc'[p] \in Finishing => \A f \in 1..Files : Intact(dest[f])'
  BY <1>1, <1>3, <1>5, SizesAssumption DEF Finishing
<1>8. Fetched'
  BY <1>1, <1>2, <1>6, <1>7 DEF Fetched
<1> QED
  BY <1>4, <1>8 DEF PInv

\* A step of a call within one artifact that changes no file.
LEMMA StepKeeps ==
  ASSUME OneCall, PInv, TypeOK', NEW p \in Pullers,
         UNCHANGED <<part, dest, data, file, yaml>>,
         pc[p] \in Fetching, pc'[p] \in Fetching \ {"rename"},
         pc'[p] \in {"prefix", "body", "check"} => fd'[p] # None /\ fd'[p] = part[file[p]],
         pc'[p] \in {"body", "check"} =>
           /\ pos'[p] <= Len(data[fd'[p]])
           /\ intact'[p] => \A i \in 1..pos'[p] : data[fd'[p]][i] = "good",
         pc'[p] = "install" => Intact(part[file[p]])
  PROVE  PInv'
<1>1. \A q \in Pullers : q = p
  BY DEF OneCall
<1>2. OwnInodes' /\ AtFirst' /\ SameFile' /\ Hashed'
  BY <1>1 DEF PInv, OwnInodes, AtFirst, SameFile, Hashed, Fetching, Finishing
<1>3. Verified' /\ Missing' /\ Fetched'
  BY <1>1 DEF PInv, Verified, Missing, Fetched, Fetching, Finishing, Intact
<1> QED
  BY <1>2, <1>3 DEF PInv

\* A step of a call at the end of it that changes no artifact.
LEMMA FinishKeeps ==
  ASSUME OneCall, PInv, TypeOK', NEW p \in Pullers,
         UNCHANGED <<part, dest, data, file>>,
         pc[p] \in Finishing, pc'[p] \in Finishing \cup {"idle"},
         pc'[p] = "record" => yaml'
  PROVE  PInv'
<1>1. \A q \in Pullers : q = p
  BY DEF OneCall
<1>2. OwnInodes' /\ AtFirst' /\ SameFile' /\ Hashed'
  BY <1>1 DEF PInv, OwnInodes, AtFirst, SameFile, Hashed, Finishing
<1>3. Verified' /\ Missing' /\ Fetched'
  BY <1>1 DEF PInv, Verified, Missing, Fetched, Fetching, Finishing, Intact
<1> QED
  BY <1>2, <1>3 DEF PInv

\* The invariant survives every step, since nobody else writes the partial the
\* call has open, or moves a name of its artifacts.
LEMMA PullStep == OneCall /\ PInv /\ [Next]_vars => PInv'
<1> SUFFICES ASSUME OneCall, PInv, [Next]_vars PROVE PInv'
  OBVIOUS
<1>0. TypeOK /\ TypeOK'
  BY TypeStep DEF PInv
<1> USE <1>0, SizesAssumption, NoneAssumption
<1> USE DEF disk, meta, stream, notes, Goto
<1>1. ASSUME NEW p \in Pullers, Begin(p) PROVE PInv'
  <2>1. \A q \in Pullers : q = p
    BY DEF OneCall
  <2>2. pc[p] = "idle" /\ pc'[p] = "resolve"
        /\ UNCHANGED <<part, dest, data, file, fd, pos, intact>>
    BY <1>1 DEF Begin, TypeOK
  <2> QED
    BY <2>1, <2>2 DEF PInv, OwnInodes, AtFirst, SameFile, Hashed, Verified, Missing,
      Fetched, Fetching, Finishing, Intact
<1>2. ASSUME NEW p \in Pullers, NEW ok \in BOOLEAN, Resolve(p, ok) PROVE PInv'
  <2>1. CASE ~ok
    BY <1>2, <2>1, LeaveKeeps DEF Resolve
  <2>2. CASE ok
    <3>1. \A q \in Pullers : q = p
      BY DEF OneCall
    <3>2. pc[p] = "resolve" /\ pc'[p] = "verify"
          /\ UNCHANGED <<part, dest, data, file, fd, pos, intact>>
      BY <1>2, <2>2 DEF Resolve, TypeOK
    <3> QED
      BY <3>1, <3>2 DEF PInv, OwnInodes, AtFirst, SameFile, Hashed, Verified, Missing,
        Fetched, Fetching, Finishing, Intact
  <2> QED
    BY <2>1, <2>2
<1>3. ASSUME NEW p \in Pullers, VerifyCached(p) PROVE PInv'
  <2>1. CASE Intact(dest[file[p]])
    <3>1. NextFile(p) /\ UNCHANGED <<part, dest, data>>
      BY <1>3, <2>1 DEF VerifyCached
    <3>2. ASSUME NEW f \in 1..file[p] PROVE dest'[f] # None /\ Good(data[dest'[f]])
      <4>1. f = file[p] \/ f \in 1..(file[p] - 1)
        BY SizesAssumption DEF PInv, TypeOK
      <4> QED
        BY <2>1, <3>1, <4>1 DEF PInv, Fetched, Intact
    <3>3. OwnInodes'
      BY <3>1 DEF PInv, OwnInodes
    <3> QED
      BY <3>1, <3>2, <3>3, NextFileKeeps
  <2>2. CASE ~Intact(dest[file[p]])
    <3>1. \A q \in Pullers : q = p
      BY DEF OneCall
    <3>2. pc[p] = "verify" /\ pc'[p] = "stat"
          /\ UNCHANGED <<part, dest, data, file, fd, pos, intact>>
      BY <1>3, <2>2 DEF VerifyCached, TypeOK
    <3> QED
      BY <2>2, <3>1, <3>2 DEF PInv, OwnInodes, AtFirst, SameFile, Hashed, Verified,
        Missing, Fetched, Fetching, Finishing, Intact
  <2> QED
    BY <2>1, <2>2
<1>4. ASSUME NEW p \in Pullers, StatPart(p) PROVE PInv'
  <2>1. /\ pc[p] = "stat" /\ pc'[p] \in {"discard", "finalize", "request"}
        /\ UNCHANGED <<part, dest, data, file, yaml>>
    BY <1>4 DEF StatPart, TypeOK
  <2> QED
    BY <2>1, StepKeeps DEF Fetching
<1>5. ASSUME NEW p \in Pullers, Discard(p) PROVE PInv'
  <2>1. CASE Fail(p) /\ UNCHANGED part
    BY <1>5, <2>1, FailType, LeaveKeeps DEF Discard
  <2>2. CASE ~(Fail(p) /\ UNCHANGED part)
    <3>1. \A q \in Pullers : q = p
      BY DEF OneCall
    <3>2. /\ pc[p] = "discard" /\ pc'[p] = "request"
          /\ UNCHANGED <<dest, data, yaml, file, fd, pos, intact>>
          /\ \A f \in 1..Files : part'[f] \in {None, part[f]}
      BY <1>5, <2>2 DEF Discard, TypeOK
    <3> QED
      BY <3>1, <3>2 DEF PInv, OwnInodes, AtFirst, SameFile, Hashed, Verified, Missing,
        Fetched, Fetching, Finishing, Intact
  <2> QED
    BY <2>1, <2>2
<1>6. ASSUME NEW p \in Pullers, Finalize(p) PROVE PInv'
  <2>1. CASE Fail(p)
    BY <1>6, <2>1, FailType, LeaveKeeps DEF Finalize
  <2>2. CASE ~Fail(p)
    <3>1. /\ pc[p] = "finalize" /\ pc'[p] \in {"install", "reject"}
          /\ pc'[p] = "install" => Intact(part[file[p]])
          /\ UNCHANGED <<part, dest, data, file, yaml>>
      BY <1>6, <2>2 DEF Finalize, TypeOK
    <3> QED
      BY <3>1, StepKeeps DEF Fetching
  <2> QED
    BY <2>1, <2>2
<1>7. ASSUME NEW p \in Pullers, Answer(p) PROVE PInv'
  <2>1. pc[p] = "request" /\ pc'[p] = "open" /\ UNCHANGED <<part, dest, data, file, yaml>>
    BY <1>7 DEF Answer, TypeOK
  <2> QED
    BY <2>1, StepKeeps DEF Fetching
<1>8. ASSUME NEW p \in Pullers, Refuse(p) PROVE PInv'
  BY <1>8, LeaveKeeps DEF Refuse, Abort
<1>9. ASSUME NEW p \in Pullers, Open(p) PROVE PInv'
  <2>1. PICK i \in Inodes :
          /\ IF part[file[p]] # None THEN i = part[file[p]]
             ELSE \A f \in 1..Files : i \notin {part[f], dest[f]}
          /\ part' = [part EXCEPT ![file[p]] = i]
          /\ fd' = [fd EXCEPT ![p] = i]
          /\ data' = [data EXCEPT ![i] =
               IF pos[p] = 0 \/ part[file[p]] = None THEN <<>> ELSE @]
    BY <1>9 DEF Open
  <2>2. /\ pc[p] = "open" /\ pc'[p] = IF pos[p] = 0 THEN "body" ELSE "prefix"
        /\ UNCHANGED <<dest, file, pos, yaml>>
    BY <1>9 DEF Open, TypeOK
  <2>3. \A q \in Pullers : q = p
    BY DEF OneCall
  <2>4. file[p] \in 1..Files /\ fd'[p] = i /\ part'[file[p]] = i /\ i # None
    BY <2>1 DEF TypeOK
  <2>5. \A f \in 1..Files : dest[f] # i
    BY <2>1, <2>4 DEF PInv, OwnInodes
  <2>6. \A f \in 1..Files : dest[f] # None => data'[dest[f]] = data[dest[f]]
    BY <2>1, <2>5 DEF TypeOK
  <2>7. OwnInodes'
    BY <2>1, <2>2, <2>4, <2>5 DEF PInv, OwnInodes, TypeOK
  <2>8. AtFirst' /\ SameFile' /\ Verified'
    BY <2>2, <2>3, <2>4 DEF AtFirst, SameFile, Verified, Finishing
  <2>9. Hashed'
    <3>1. pos[p] = 0 => Len(data'[i]) = 0
      BY <2>1, EmptyContent DEF TypeOK
    <3> QED
      BY <2>2, <2>3, <2>4, <3>1 DEF Hashed
  <2>10. Missing' /\ Fetched'
    <3>1. \A f \in 1..Files : Intact(dest[f])' <=> Intact(dest[f])
      BY <2>2, <2>6 DEF Intact
    <3>2. \A f \in 1..(file[p] - 1) : f \in 1..Files
      BY <2>4
    <3>3. Missing'
      BY <2>2, <2>3, <2>4, <3>1 DEF PInv, Missing, Fetching
    <3>4. Fetched'
      BY <2>2, <2>3, <2>4, <3>1, <3>2 DEF PInv, Fetched, Finishing
    <3> QED
      BY <3>3, <3>4
  <2> QED
    BY <2>7, <2>8, <2>9, <2>10 DEF PInv
<1>10. ASSUME NEW p \in Pullers, HashPrefix(p) PROVE PInv'
  <2>1. CASE Fail(p)
    BY <1>10, <2>1, FailType, LeaveKeeps DEF HashPrefix
  <2>2. CASE ~Fail(p)
    <3> DEFINE kept == part[file[p]]
               clean == \A i \in 1..pos[p] : data[kept][i] = "good"
    <3>1. /\ pc[p] = "prefix" /\ kept # None /\ ~(Len(data[kept]) < pos[p])
          /\ UNCHANGED <<part, dest, data, file, yaml, fd, pos>>
          /\ pc' = [pc EXCEPT ![p] = "body"] /\ intact' = [intact EXCEPT ![p] = clean]
      BY <1>10, <2>2 DEF HashPrefix
    <3>2. fd[p] # None /\ fd[p] = kept
      BY <3>1 DEF PInv, SameFile
    <3>3. kept \in Inodes
      BY <3>1 DEF TypeOK
    <3>4. Len(data[kept]) \in Nat /\ pos[p] \in Nat
      BY <3>3, ContentSeq DEF TypeOK
    <3>5. pos[p] <= Len(data[kept])
      BY <3>1, <3>4
    <3>6. pc'[p] = "body" /\ (intact'[p] => clean)
      BY <3>1 DEF TypeOK
    <3> HIDE DEF clean
    <3>7. intact'[p] => \A i \in 1..pos'[p] : data[fd'[p]][i] = "good"
      BY <3>1, <3>2, <3>6 DEF clean
    <3> QED
      BY <3>1, <3>2, <3>5, <3>6, <3>7, StepKeeps DEF Fetching
  <2> QED
    BY <2>1, <2>2
<1>11. ASSUME NEW p \in Pullers, NEW chunk \in {"good", "bad"}, Receive(p, chunk) PROVE PInv'
  <2>1. /\ pc[p] = "body" /\ pos[p] <= Chunks
        /\ data' = [data EXCEPT ![fd[p]] = WriteAt(@, pos[p] + 1, chunk)]
        /\ pos' = [pos EXCEPT ![p] = @ + 1]
        /\ intact' = [intact EXCEPT ![p] = @ /\ chunk = "good"]
        /\ UNCHANGED <<part, dest, yaml, pc, file, fd>>
    BY <1>11 DEF Receive
  <2>2. \A q \in Pullers : q = p
    BY DEF OneCall
  <2>3. fd[p] \in Inodes /\ fd[p] = part[file[p]] /\ file[p] \in 1..Files
        /\ pos[p] <= Len(data[fd[p]]) /\ pos[p] \in 0..Chunks
        /\ (intact[p] => \A i \in 1..pos[p] : data[fd[p]][i] = "good")
    BY <2>1 DEF PInv, SameFile, Hashed, TypeOK
  <2> DEFINE old == data[fd[p]]
             new == WriteAt(old, pos[p] + 1, chunk)
  <2>0. data \in [Inodes -> Content]
    BY DEF TypeOK
  <2>4. old \in Content /\ pos[p] + 1 \in 1..(Chunks + 1)
    BY <2>0, <2>3
  <2>5. Len(old) \in Nat
    BY <2>4, ContentSeq
  <2>6. /\ Len(new) >= pos[p] + 1 /\ new[pos[p] + 1] = chunk
        /\ \A i \in 1..Len(old) : i # pos[p] + 1 => new[i] = old[i]
    <3> DEFINE k == pos[p] + 1
    <3>1. old \in Content /\ k \in 1..(Chunks + 1) /\ new = WriteAt(old, k, chunk)
      BY <2>4
    <3> HIDE DEF old, new, k
    <3>2. /\ Len(new) >= k /\ new[k] = chunk
          /\ \A i \in 1..Len(old) : i # k => new[i] = old[i]
      BY <3>1, WriteAtContent
    <3> QED
      BY <3>2 DEF k
  <2>7. data'[fd[p]] = new /\ pos'[p] = pos[p] + 1 /\ (intact'[p] => intact[p] /\ chunk = "good")
    BY <2>1, <2>3 DEF TypeOK
  <2>8. \A f \in 1..Files : dest[f] # None => data'[dest[f]] = data[dest[f]]
    <3>1. \A f \in 1..Files : dest[f] # fd[p]
      BY <2>3 DEF PInv, OwnInodes
    <3>2. \A f \in 1..Files : dest[f] \in Inodes \cup {None}
      BY DEF TypeOK
    <3> QED
      BY <2>0, <2>1, <3>1, <3>2
  <2> HIDE DEF old, new
  <2>9. intact'[p] => \A i \in 1..pos'[p] : new[i] = "good"
    <3> SUFFICES ASSUME intact'[p], NEW i \in 1..pos'[p] PROVE new[i] = "good"
      OBVIOUS
    <3>1. CASE i = pos[p] + 1
      BY <2>6, <2>7, <3>1
    <3>2. CASE i # pos[p] + 1
      <4>1. i \in 1..pos[p] /\ i \in 1..Len(old)
        BY <2>3, <2>5, <2>7, <3>2 DEF old
      <4> QED
        BY <2>3, <2>6, <2>7, <3>2, <4>1 DEF old
    <3> QED
      BY <3>1, <3>2
  <2>10. Hashed'
    BY <2>1, <2>2, <2>6, <2>7, <2>9 DEF Hashed
  <2>11. OwnInodes' /\ AtFirst' /\ SameFile' /\ Verified'
    BY <2>1, <2>2 DEF PInv, OwnInodes, AtFirst, SameFile, Verified
  <2>12. Missing' /\ Fetched'
    <3>1. \A f \in 1..Files : Intact(dest[f])' <=> Intact(dest[f])
      BY <2>1, <2>8 DEF Intact
    <3>0. file \in [Pullers -> 1..Files]
      BY DEF TypeOK
    <3>2. \A q \in Pullers : file[q] \in 1..Files /\ \A f \in 1..(file[q] - 1) : f \in 1..Files
      BY <3>0, SizesAssumption
    <3>3. Missing'
      BY <2>1, <3>1, <3>2 DEF PInv, Missing
    <3>4. Fetched'
      BY <2>1, <3>1, <3>2 DEF PInv, Fetched
    <3> QED
      BY <3>3, <3>4
  <2> QED
    BY <2>10, <2>11, <2>12 DEF PInv
<1>12. ASSUME NEW p \in Pullers, BodyEnds(p) PROVE PInv'
  <2>1. /\ pc[p] = "body" /\ pc'[p] = "check"
        /\ UNCHANGED <<part, dest, data, file, yaml, fd, pos, intact>>
    BY <1>12 DEF BodyEnds, TypeOK
  <2>2. /\ fd[p] # None /\ fd[p] = part[file[p]]
        /\ pos[p] <= Len(data[fd[p]])
        /\ intact[p] => \A i \in 1..pos[p] : data[fd[p]][i] = "good"
    BY <2>1 DEF PInv, SameFile, Hashed
  <2> QED
    BY <2>1, <2>2, StepKeeps DEF Fetching
<1>13. ASSUME NEW p \in Pullers, BodyBreaks(p) PROVE PInv'
  BY <1>13, LeaveKeeps DEF BodyBreaks, Abort
<1>14. ASSUME NEW p \in Pullers, CheckDownload(p) PROVE PInv'
  <2>1. CASE Fail(p)
    BY <1>14, <2>1, FailType, LeaveKeeps DEF CheckDownload
  <2>2. CASE ~Fail(p)
    <3>1. /\ pc[p] = "check" /\ pc'[p] \in {"install", "reject"}
          /\ pc'[p] = "install" => intact[p] /\ pos[p] = Chunks
          /\ part[file[p]] # None /\ Len(data[part[file[p]]]) = Chunks
          /\ UNCHANGED <<part, dest, data, file, yaml>>
      BY <1>14, <2>2 DEF CheckDownload, TypeOK
    <3>2. /\ fd[p] = part[file[p]]
          /\ intact[p] => \A i \in 1..pos[p] : data[fd[p]][i] = "good"
      BY <3>1 DEF PInv, SameFile, Hashed
    <3>3. part[file[p]] \in Inodes /\ data[part[file[p]]] \in Content
      BY <3>1 DEF TypeOK
    <3>4. pc'[p] = "install" => Intact(part[file[p]])
      BY <3>1, <3>2, <3>3, AllGood DEF Intact
    <3> QED
      BY <3>1, <3>4, StepKeeps DEF Fetching
  <2> QED
    BY <2>1, <2>2
<1>15. ASSUME NEW p \in Pullers, Reject(p) PROVE PInv'
  <2>1. \A f \in 1..Files : part'[f] \in {None, part[f]}
    BY <1>15 DEF Reject, TypeOK
  <2> QED
    BY <1>15, <2>1, FailType, LeaveKeeps DEF Reject
<1>16. ASSUME NEW p \in Pullers, RemoveOld(p) PROVE PInv'
  <2>1. /\ pc[p] = "install" /\ pc'[p] = "rename"
        /\ dest' = [dest EXCEPT ![file[p]] = None]
        /\ UNCHANGED <<part, data, file, yaml>>
    BY <1>16 DEF RemoveOld, TypeOK
  <2>2. \A q \in Pullers : q = p
    BY DEF OneCall
  <2>3. OwnInodes' /\ AtFirst' /\ SameFile' /\ Hashed'
    BY <2>1, <2>2 DEF PInv, OwnInodes, AtFirst, SameFile, Hashed, Finishing, TypeOK
  <2>4. Verified' /\ Missing' /\ Fetched'
    <3>0. file \in [Pullers -> 1..Files] /\ dest \in [1..Files -> Inodes \cup {None}]
      BY DEF TypeOK
    <3>1. /\ dest'[file[p]] = None
          /\ \A f \in 1..Files : f # file[p] => dest'[f] = dest[f]
      BY <2>1, <3>0
    <3>2. \A f \in 1..(file[p] - 1) : f \in 1..Files /\ f # file[p]
      BY <3>0, SizesAssumption
    <3>3. Verified'
      BY <2>1, <2>2 DEF PInv, Verified, Intact
    <3>4. Missing'
      BY <2>1, <2>2, <3>1 DEF Missing, Fetching, Intact
    <3>5. Fetched'
      BY <2>1, <2>2, <3>1, <3>2 DEF PInv, Fetched, Finishing, Intact
    <3> QED
      BY <3>3, <3>4, <3>5
  <2> QED
    BY <2>3, <2>4 DEF PInv
<1>17. ASSUME NEW p \in Pullers, RenamePart(p) PROVE PInv'
  <2>1. CASE Fail(p) /\ UNCHANGED <<part, dest>>
    BY <1>17, <2>1, FailType, LeaveKeeps DEF RenamePart
  <2>2. CASE ~(Fail(p) /\ UNCHANGED <<part, dest>>)
    <3>1. /\ pc[p] = "rename"
          /\ dest' = [dest EXCEPT ![file[p]] = part[file[p]]]
          /\ part' = [part EXCEPT ![file[p]] = None]
          /\ NextFile(p) /\ data' = data
      BY <1>17, <2>2 DEF RenamePart
    <3>2. Intact(part[file[p]]) /\ file[p] \in 1..Files
      BY <3>1 DEF PInv, Verified, TypeOK
    <3>3. \A f \in 1..file[p] : dest'[f] # None /\ Good(data[dest'[f]])
      <4>1. \A f \in 1..(file[p] - 1) : f \in 1..Files /\ f # file[p]
        BY SizesAssumption DEF TypeOK
      <4>2. \A f \in 1..Files : f # file[p] => dest'[f] = dest[f]
        BY <3>1 DEF TypeOK
      <4>3. dest'[file[p]] = part[file[p]]
        BY <3>1, <3>2 DEF TypeOK
      <4>4. ASSUME NEW f \in 1..(file[p] - 1) PROVE dest'[f] # None /\ Good(data[dest'[f]])
        BY <4>1, <4>2, <4>4 DEF PInv, Fetched, Intact
      <4>5. \A f \in 1..file[p] : f = file[p] \/ f \in 1..(file[p] - 1)
        BY <3>2
      <4> QED
        BY <3>2, <4>3, <4>4, <4>5 DEF Intact
    <3>4. OwnInodes'
      BY <3>1, <3>2 DEF PInv, OwnInodes, TypeOK
    <3> QED
      BY <3>1, <3>3, <3>4, NextFileKeeps
  <2> QED
    BY <2>1, <2>2
<1>18. ASSUME NEW p \in Pullers, WriteYamlTmp(p) PROVE PInv'
  <2>1. /\ pc[p] = "yamlTmp" /\ pc'[p] = "yamlRemove"
        /\ UNCHANGED <<part, dest, data, file>>
    BY <1>18 DEF WriteYamlTmp, TypeOK
  <2> QED
    BY <2>1, FinishKeeps DEF Finishing
<1>19. ASSUME NEW p \in Pullers, RemoveYaml(p) PROVE PInv'
  <2>1. /\ pc[p] = "yamlRemove" /\ pc'[p] = "yamlRename"
        /\ UNCHANGED <<part, dest, data, file>>
    BY <1>19 DEF RemoveYaml, TypeOK
  <2> QED
    BY <2>1, FinishKeeps DEF Finishing
<1>20. ASSUME NEW p \in Pullers, RenameYaml(p) PROVE PInv'
  <2>1. CASE Fail(p)
    BY <1>20, <2>1, FailType, LeaveKeeps DEF RenameYaml
  <2>2. CASE ~Fail(p)
    <3>1. /\ pc[p] = "yamlRename" /\ pc'[p] = "record" /\ yaml'
          /\ UNCHANGED <<part, dest, data, file>>
      BY <1>20, <2>2 DEF RenameYaml, TypeOK
    <3> QED
      BY <3>1, FinishKeeps DEF Finishing
  <2> QED
    BY <2>1, <2>2
<1>21. ASSUME NEW p \in Pullers, WriteRecord(p) PROVE PInv'
  <2>1. pc[p] = "record" /\ pc'[p] = "idle" /\ UNCHANGED <<part, dest, data, file>>
    BY <1>21 DEF WriteRecord, TypeOK
  <2> QED
    BY <2>1, FinishKeeps DEF Finishing
<1>22. ASSUME NEW p \in Pullers, Crash(p) PROVE PInv'
  BY <1>22, LeaveKeeps DEF Crash, Abort
<1>23. ASSUME NEW f \in 1..Files, Damage(f) PROVE PInv'
  <2>1. \A p \in Pullers : pc[p] = "idle" /\ pc'[p] = "idle" /\ file[p] = 1
    BY <1>23 DEF Damage, PInv, AtFirst
  <2>2. UNCHANGED <<part, dest, file>>
    BY <1>23 DEF Damage
  <2> QED
    BY <2>1, <2>2 DEF PInv, OwnInodes, AtFirst, SameFile, Hashed, Verified, Missing,
      Fetched, Fetching, Finishing
<1>24. ASSUME UNCHANGED vars PROVE PInv'
  <2>1. UNCHANGED <<part, dest, data, yaml, pc, file, fd, pos, intact>>
    BY <1>24 DEF vars
  <2> QED
    BY <2>1 DEF PInv, OwnInodes, AtFirst, SameFile, Hashed, Verified, Missing, Fetched,
      Intact
<1> QED
  BY <1>1, <1>2, <1>3, <1>4, <1>5, <1>6, <1>7, <1>8, <1>9, <1>10, <1>11, <1>12,
     <1>13, <1>14, <1>15, <1>16, <1>17, <1>18, <1>19, <1>20, <1>21, <1>22, <1>23,
     <1>24 DEF Next, Pull, downloadVerified

\* PInv holds of every behaviour in which calls do not overlap.
THEOREM Invariance ==
  ASSUME OneCall
  PROVE  Spec => []PInv
<1>1. PInv /\ [Next]_vars => PInv'
  BY PullStep
<1> QED
  BY PullInit, <1>1, PTL DEF Spec

-----------------------------------------------------------------------------
(* What a step may do to the package *)

\* Only two steps move the name of an artifact: one takes it off something that
\* is not good, the other gives it to something that is.
LEMMA NamesMove ==
  ASSUME OneCall, PInv, [Next]_vars
  PROVE  \/ dest' = dest
         \/ \E p \in Pullers :
              /\ ~Intact(dest[file[p]]) /\ file[p] \in 1..Files
              /\ \E to \in {None, part[file[p]]} :
                   /\ to # None => Good(data[to])
                   /\ dest' = [dest EXCEPT ![file[p]] = to]
<1> USE DEF disk
<1>1. ASSUME NEW p \in Pullers, RemoveOld(p)
      PROVE  /\ ~Intact(dest[file[p]]) /\ file[p] \in 1..Files
             /\ dest' = [dest EXCEPT ![file[p]] = None]
  BY <1>1 DEF RemoveOld, PInv, Missing, Fetching, TypeOK
<1>2. ASSUME NEW p \in Pullers, RenamePart(p), dest' # dest
      PROVE  /\ ~Intact(dest[file[p]]) /\ file[p] \in 1..Files
             /\ Good(data[part[file[p]]])
             /\ dest' = [dest EXCEPT ![file[p]] = part[file[p]]]
  BY <1>2 DEF RenamePart, PInv, Missing, Fetching, Verified, Intact, TypeOK
<1>3. ASSUME NEW p \in Pullers, Pull(p) \/ Crash(p), ~RemoveOld(p), ~RenamePart(p)
      PROVE  dest' = dest
  BY <1>3 DEF Pull, downloadVerified, Begin, Resolve, VerifyCached, StatPart, Discard,
    Finalize, Answer, Refuse, Open, HashPrefix, Receive, BodyEnds, BodyBreaks,
    CheckDownload, Reject, WriteYamlTmp, RemoveYaml, RenameYaml, WriteRecord, Crash
<1>4. ASSUME NEW f \in 1..Files, Damage(f) PROVE dest' = dest
  BY <1>4 DEF Damage
<1>5. CASE UNCHANGED vars
  BY <1>5 DEF vars
<1> QED
  BY <1>1, <1>2, <1>3, <1>4, <1>5 DEF Next

\* What takes the name of an artifact has been verified (installPartial), for
\* any sizes, and however the origin, the disk and the processes fail.
THEOREM InstallsVerified ==
  ASSUME OneCall
  PROVE  Spec => InstallVerified
<1>1. ASSUME PInv, [Next]_vars, NEW f \in 1..Files, dest'[f] \notin {None, dest[f]}
      PROVE  Good(data[dest'[f]])
  BY <1>1, NamesMove DEF PInv, TypeOK
<1>2. PInv /\ [Next]_vars =>
        [\A f \in 1..Files : dest'[f] \notin {None, dest[f]} => Good(data[dest'[f]])]_vars
  BY <1>1
<1> QED
  BY Invariance, <1>2, PTL DEF Spec, InstallVerified

\* A good artifact keeps its name whatever becomes of the calls (Pull).
THEOREM KeepsGood ==
  ASSUME OneCall
  PROVE  Spec => GoodKept
<1>1. ASSUME PInv, [Next]_vars, NEW f \in 1..Files, Intact(dest[f])
      PROVE  dest'[f] = dest[f]
  BY <1>1, NamesMove DEF PInv, TypeOK
<1>2. PInv /\ [Next]_vars => [\A f \in 1..Files : Intact(dest[f]) => dest'[f] = dest[f]]_vars
  BY <1>1
<1> QED
  BY Invariance, <1>2, PTL DEF Spec, GoodKept

\* A call that writes the record has all artifacts and the manifest in place.
THEOREM Completes ==
  ASSUME OneCall
  PROVE  Spec => SuccessIsComplete
<1>1. PInv /\ [Next]_vars =>
        [\A p \in Pullers : WriteRecord(p) => yaml /\ \A f \in 1..Files : Intact(dest[f])]_vars
  BY DEF PInv, Fetched, Finishing, WriteRecord
<1> QED
  BY Invariance, <1>1, PTL DEF Spec, SuccessIsComplete

-----------------------------------------------------------------------------
(* What failed attempts leave behind is used up *)

LEMMA SpoiltAre ==
  ASSUME TypeOK
  PROVE  /\ Spoilt \subseteq 1..Files /\ IsFiniteSet(Spoilt)
         /\ Cardinality(Spoilt) \in Nat /\ Cardinality(Spoilt) <= Files
<1>1. Files \in Nat /\ Spoilt \subseteq 1..Files
  BY SizesAssumption DEF Spoilt
<1>2. IsFiniteSet(1..Files) /\ Cardinality(1..Files) = Files
  BY <1>1, FS_Interval
<1> QED
  BY <1>1, <1>2, FS_Subset, FS_CardinalityType

\* TypeOK is kept, so this holds after a step as well.
LEMMA SpoiltAreNext ==
  ASSUME TypeOK'
  PROVE  /\ Spoilt' \subseteq 1..Files /\ IsFiniteSet(Spoilt')
         /\ Cardinality(Spoilt') \in Nat /\ Cardinality(Spoilt') <= Files
<1>1. Files \in Nat /\ Spoilt' \subseteq 1..Files
  BY SizesAssumption DEF Spoilt
<1>2. IsFiniteSet(1..Files) /\ Cardinality(1..Files) = Files
  BY <1>1, FS_Interval
<1> QED
  BY <1>1, <1>2, FS_Subset, FS_CardinalityType

\* Partials that only go away spoil nothing.
LEMMA FewerSpoilt ==
  ASSUME UNCHANGED data, \A f \in 1..Files : part'[f] \in {None, part[f]}
  PROVE  Spoilt' \subseteq Spoilt
  BY DEF Spoilt

\* A step of a call that is not over adds nothing, or the origin is to blame.
LEMMA CountKeeps ==
  ASSUME OneCall, QInv, TypeOK', NEW p \in Pullers, strikes' = strikes,
         pc'[p] = "idle" \/ honest'[p] =>
           /\ pc[p] = "idle" \/ honest[p]
           /\ Spoilt' \subseteq Spoilt
  PROVE  UsedUp'
<1>1. \A q \in Pullers : q = p
  BY DEF OneCall
<1>2. Cardinality(Spoilt) \in Nat /\ Cardinality(Spoilt') \in Nat /\ Files \in Nat
        /\ IsFiniteSet(Spoilt)
  BY SpoiltAre, SpoiltAreNext, SizesAssumption DEF QInv, PInv
<1>3. strikes \in Nat
  BY SizesAssumption DEF QInv, PInv, TypeOK
<1>4. Spoilt' \subseteq Spoilt => Cardinality(Spoilt') <= Cardinality(Spoilt)
  BY <1>2, FS_Subset
<1>5. strikes <= Files /\ (pc[p] = "idle" \/ honest[p] => strikes + Cardinality(Spoilt) <= Files)
  BY DEF QInv, UsedUp
<1>6. pc'[p] = "idle" \/ honest'[p] => strikes' + Cardinality(Spoilt') <= Files
  BY <1>2, <1>3, <1>4, <1>5
<1> QED
  BY <1>1, <1>5, <1>6 DEF UsedUp

\* A call that returns rests; the count must have room for what is left.
LEMMA LeaveUses ==
  ASSUME OneCall, QInv, TypeOK', NEW p \in Pullers, Leave(p),
         strikes' = 0 \/ strikes' + Cardinality(Spoilt') <= Files
  PROVE  Resumed' /\ Inherited' /\ UsedUp'
<1>1. \A q \in Pullers : q = p
  BY DEF OneCall
<1>2. pc'[p] = "idle"
  BY LeaveType DEF QInv, PInv
<1>3. Resumed' /\ Inherited'
  BY <1>1, <1>2 DEF Resumed, Inherited
<1>4. /\ Cardinality(Spoilt') \in Nat /\ Cardinality(Spoilt') <= Files
      /\ strikes' \in Nat /\ Files \in Nat
  BY SpoiltAreNext, SizesAssumption DEF TypeOK
<1>5. strikes' + Cardinality(Spoilt') <= Files /\ strikes' <= Files
  BY <1>4
<1> QED
  BY <1>3, <1>5 DEF UsedUp

\* A call that is cut short, or whose origin is to blame, begins the count anew.
LEMMA AbortUses ==
  ASSUME OneCall, QInv, TypeOK', NEW p \in Pullers,
         Abort(p) \/ (Fail(p) /\ ~honest[p])
  PROVE  Resumed' /\ Inherited' /\ UsedUp'
<1>1. Leave(p) /\ strikes' = 0
  BY DEF Abort, Fail
<1> QED
  BY <1>1, LeaveUses

\* A step within a call, or from its beginning, that changes no partial.
LEMMA QuietUses ==
  ASSUME OneCall, QInv, TypeOK', NEW p \in Pullers, strikes' = strikes,
         pc'[p] # "idle", honest'[p] => pc[p] = "idle" \/ honest[p],
         \A f \in 1..Files : part'[f] \in {None, part[f]}, UNCHANGED data
  PROVE  UsedUp'
  BY FewerSpoilt, CountKeeps

\* The end of a file that is written on is where it was, one chunk further.
LEMMA WriteAtEnd ==
  ASSUME NEW c \in Content, Len(c) <= Chunks, NEW chunk \in {"good", "bad"}
  PROVE  Len(WriteAt(c, Len(c) + 1, chunk)) = Len(c) + 1
<1> DEFINE k == Len(c) + 1
           w == WriteAt(c, k, chunk)
<1>1. Len(c) \in Nat /\ k \in 1..(Chunks + 1) /\ k > Len(c) /\ k \in Nat
  BY ContentSeq, SizesAssumption
<1>2. w = [i \in 1..k |-> IF i = k THEN chunk ELSE IF i <= Len(c) THEN c[i] ELSE "hole"]
  BY <1>1 DEF WriteAt
<1> HIDE DEF k, w
<1>3. DOMAIN w = 1..k /\ w \in Content
  <2>1. w \in Content
    BY <1>1, WriteAtContent DEF w
  <2> QED
    BY <1>2, <2>1
<1>4. Len(w) = k
  BY <1>1, <1>3, ContentSeq
<1> QED
  BY <1>4 DEF w, k

LEMMA UsesInit == Init => QInv
<1> SUFFICES ASSUME Init PROVE QInv
  OBVIOUS
<1>1. PInv /\ Resumed /\ Inherited
  BY PullInit DEF Init, Resumed, Inherited
<1>2. Spoilt = {}
  BY DEF Init, Spoilt
<1>3. UsedUp
  BY <1>2, FS_EmptySet, SizesAssumption DEF Init, UsedUp
<1> QED
  BY <1>1, <1>3 DEF QInv

\* What failed attempts have left is used up: each action of a call, in turn.
LEMMA UsesStep == OneCall /\ QInv /\ [Next]_vars => QInv'
<1> SUFFICES ASSUME OneCall, QInv, [Next]_vars PROVE Resumed' /\ Inherited' /\ UsedUp'
  BY PullStep DEF QInv
<1>0. TypeOK /\ TypeOK' /\ PInv
  BY TypeStep DEF QInv, PInv
<1>00. ASSUME NEW p \in Pullers PROVE \A q \in Pullers : q = p
  BY DEF OneCall
<1> USE <1>0, SizesAssumption, NoneAssumption
<1> USE DEF disk, meta, stream, notes, Goto
<1>1. ASSUME NEW p \in Pullers, Begin(p) PROVE Resumed' /\ Inherited' /\ UsedUp'
  <2>1. /\ pc[p] = "idle" /\ pc'[p] = "resolve" /\ honest'[p]
        /\ strikes' = strikes /\ UNCHANGED <<part, data>>
    BY <1>1 DEF Begin, TypeOK
  <2>2. Resumed' /\ Inherited'
    BY <1>00, <2>1 DEF Resumed, Inherited
  <2> QED
    BY <2>1, <2>2, QuietUses
<1>2. ASSUME NEW p \in Pullers, NEW ok \in BOOLEAN, Resolve(p, ok)
      PROVE  Resumed' /\ Inherited' /\ UsedUp'
  <2>1. pc[p] = "resolve" /\ UNCHANGED <<part, data, strikes, honest>>
    BY <1>2 DEF Resolve
  <2>2. honest[p]
    BY <2>1 DEF QInv, Resumed
  <2>3. CASE ~ok
    <3>1. Leave(p)
      BY <1>2, <2>3 DEF Resolve
    <3>2. Spoilt' = Spoilt
      BY <2>1 DEF Spoilt
    <3> QED
      BY <2>1, <2>2, <3>1, <3>2, LeaveUses DEF QInv, UsedUp
  <2>4. CASE ok
    <3>1. pc'[p] = "verify"
      BY <1>2, <2>4 DEF Resolve, TypeOK
    <3>2. Resumed' /\ Inherited'
      BY <1>00, <3>1 DEF Resumed, Inherited
    <3> QED
      BY <2>1, <2>2, <3>1, <3>2, QuietUses
  <2> QED
    BY <2>3, <2>4
<1>3. ASSUME NEW p \in Pullers, VerifyCached(p) PROVE Resumed' /\ Inherited' /\ UsedUp'
  <2>1. UNCHANGED <<part, data, strikes, honest>> /\ pc'[p] \in {"verify", "yamlTmp", "stat"}
    BY <1>3, NextFileType DEF VerifyCached, TypeOK
  <2>2. Resumed' /\ Inherited'
    BY <1>00, <2>1 DEF Resumed, Inherited
  <2> QED
    BY <2>1, <2>2, QuietUses
<1>4. ASSUME NEW p \in Pullers, StatPart(p) PROVE Resumed' /\ Inherited' /\ UsedUp'
  <2> DEFINE kept == part[file[p]]
             size == IF kept = None THEN 0 ELSE Len(data[kept])
  <2>1. /\ UNCHANGED <<part, data, file, strikes, honest>> /\ pc[p] = "stat"
        /\ pc'[p] = IF size > Chunks THEN "discard"
                    ELSE IF size = Chunks THEN "finalize" ELSE "request"
        /\ pos'[p] = IF size > Chunks THEN 0 ELSE size
    BY <1>4 DEF StatPart, TypeOK
  <2>2. kept = None => size = 0
    OBVIOUS
  <2>3. kept # None => size = Len(data[kept])
    OBVIOUS
  <2> HIDE DEF size
  <2>4. Resumed'
    BY <1>00, <2>1, <2>2, <2>3 DEF Resumed
  <2>5. Inherited'
    BY <1>00, <2>1 DEF Inherited
  <2> QED
    BY <2>1, <2>4, <2>5, QuietUses
<1>5. ASSUME NEW p \in Pullers, Discard(p) PROVE Resumed' /\ Inherited' /\ UsedUp'
  <2>1. pc[p] = "discard" /\ part[file[p]] # None /\ pos[p] = 0
    BY <1>5 DEF Discard, QInv, Resumed
  <2>2. /\ UNCHANGED <<data, strikes, honest, pos>> /\ pc'[p] = "request"
        /\ \A f \in 1..Files : part'[f] \in {None, part[f]}
    BY <1>5, <2>1 DEF Discard, TypeOK
  <2>3. Resumed' /\ Inherited'
    BY <1>00, <2>1, <2>2 DEF Resumed, Inherited
  <2> QED
    BY <2>2, <2>3, QuietUses
<1>6. ASSUME NEW p \in Pullers, Finalize(p) PROVE Resumed' /\ Inherited' /\ UsedUp'
  <2> DEFINE kept == part[file[p]]
  <2>1. pc[p] = "finalize" /\ kept # None /\ Len(data[kept]) = Chunks
    BY <1>6 DEF Finalize, QInv, Resumed
  <2>2. /\ UNCHANGED <<part, data, file, strikes, honest>>
        /\ pc'[p] = IF Intact(kept) THEN "install" ELSE "reject"
    BY <1>6, <2>1 DEF Finalize, TypeOK
  <2>3. kept \in Inodes /\ data[kept] \in Content /\ file[p] \in 1..Files
    BY <2>1 DEF TypeOK
  <2>4. ~Intact(kept) => \E i \in 1..Len(data[kept]) : data[kept][i] # "good"
    BY <2>1, <2>3, AllGood DEF Intact
  <2>5. ~Intact(kept) => file[p] \in Spoilt'
    BY <2>1, <2>2, <2>3, <2>4 DEF Spoilt
  <2>6. Resumed'
    BY <1>00, <2>2 DEF Resumed
  <2>7. Inherited'
    BY <1>00, <2>2, <2>5 DEF Inherited
  <2> QED
    BY <2>2, <2>6, <2>7, QuietUses
<1>7. ASSUME NEW p \in Pullers, Answer(p) PROVE Resumed' /\ Inherited' /\ UsedUp'
  <2>1. /\ pc[p] = "request" /\ pc'[p] = "open" /\ pos'[p] \in {0, pos[p]}
        /\ UNCHANGED <<part, data, file, strikes, honest>>
    BY <1>7 DEF Answer, TypeOK
  <2>2. pos[p] = 0 \/ (part[file[p]] # None /\ pos[p] = Len(data[part[file[p]]]))
    BY <2>1 DEF QInv, Resumed
  <2>3. Resumed' /\ Inherited'
    BY <1>00, <2>1, <2>2 DEF Resumed, Inherited
  <2> QED
    BY <2>1, <2>3, QuietUses
<1>8. ASSUME NEW p \in Pullers, Refuse(p) \/ BodyBreaks(p) \/ Crash(p)
      PROVE  Resumed' /\ Inherited' /\ UsedUp'
  BY <1>8, AbortUses DEF Refuse, BodyBreaks, Crash
<1>9. ASSUME NEW p \in Pullers, Open(p) PROVE Resumed' /\ Inherited' /\ UsedUp'
  <2> DEFINE f == file[p]
  <2>1. PICK i \in Inodes :
          /\ IF part[f] # None THEN i = part[f]
             ELSE \A g \in 1..Files : i \notin {part[g], dest[g]}
          /\ part' = [part EXCEPT ![f] = i]
          /\ fd' = [fd EXCEPT ![p] = i]
          /\ data' = [data EXCEPT ![i] = IF pos[p] = 0 \/ part[f] = None THEN <<>> ELSE @]
    BY <1>9 DEF Open
  <2>2. /\ pc[p] = "open" /\ pc'[p] = IF pos[p] = 0 THEN "body" ELSE "prefix"
        /\ UNCHANGED <<file, pos, strikes, honest>> /\ intact'[p]
    BY <1>9 DEF Open, TypeOK
  <2>3. pos[p] = 0 \/ (part[f] # None /\ pos[p] = Len(data[part[f]]))
    BY <2>2 DEF QInv, Resumed
  <2>4. f \in 1..Files /\ part'[f] = i /\ fd'[p] = i /\ i # None
        /\ \A g \in 1..Files \ {f} : part'[g] = part[g] /\ part[g] # i
    BY <2>1 DEF TypeOK, PInv, OwnInodes
  <2>5. CASE pos[p] = 0
    <3>1. data'[i] = <<>> /\ Len(data'[i]) = 0
      BY <2>1, <2>5, EmptyContent DEF TypeOK
    <3>2. \A g \in 1..Files \ {f} : part[g] # None => data'[part[g]] = data[part[g]]
      BY <2>1, <2>4 DEF TypeOK
    <3>3. Spoilt' \subseteq Spoilt
      <4>1. f \notin Spoilt'
        BY <2>4, <3>1 DEF Spoilt
      <4> QED
        BY <2>4, <3>2, <4>1 DEF Spoilt
    <3>4. Resumed' /\ Inherited'
      BY <1>00, <2>2, <2>4, <2>5, <3>1 DEF Resumed, Inherited
    <3> QED
      BY <2>2, <3>3, <3>4, CountKeeps
  <2>6. CASE pos[p] # 0
    <3>1. i = part[f] /\ pos[p] = Len(data[i]) /\ data' = data /\ part' = part
      BY <2>1, <2>3, <2>4, <2>6 DEF TypeOK
    <3>2. pc'[p] = "prefix"
      BY <2>2, <2>6
    <3>3. Resumed' /\ Inherited'
      BY <1>00, <2>2, <2>4, <3>1, <3>2 DEF Resumed, Inherited
    <3> QED
      BY <2>2, <3>1, <3>2, <3>3, QuietUses
  <2> QED
    BY <2>5, <2>6
<1>10. ASSUME NEW p \in Pullers, HashPrefix(p) PROVE Resumed' /\ Inherited' /\ UsedUp'
  <2> DEFINE kept == part[file[p]]
             clean == \A i \in 1..pos[p] : data[kept][i] = "good"
  <2>1. pc[p] = "prefix"
    BY <1>10 DEF HashPrefix
  <2>2. fd[p] = kept /\ kept # None /\ pos[p] = Len(data[kept]) /\ kept \in Inodes
        /\ file[p] \in 1..Files
    BY <2>1 DEF QInv, PInv, SameFile, Resumed, TypeOK
  <2>3. pos[p] \in Nat /\ ~(kept = None \/ Len(data[kept]) < pos[p])
    BY <2>2 DEF TypeOK
  <2>4. /\ UNCHANGED <<part, data, file, fd, pos, strikes, honest>> /\ pc'[p] = "body"
        /\ intact' = [intact EXCEPT ![p] = clean]
    BY <1>10, <2>3 DEF HashPrefix, TypeOK
  <2>5. intact'[p] <=> clean
    BY <2>4 DEF TypeOK
  <2>6. ~clean => file[p] \in Spoilt
    BY <2>2 DEF Spoilt
  <2> HIDE DEF clean
  <2>7. Spoilt' = Spoilt
    BY <2>4 DEF Spoilt
  <2>8. Resumed' /\ Inherited'
    BY <1>00, <2>2, <2>4, <2>5, <2>6, <2>7 DEF Resumed, Inherited
  <2> QED
    BY <2>4, <2>8, QuietUses
<1>11. ASSUME NEW p \in Pullers, NEW chunk \in {"good", "bad"}, Receive(p, chunk)
       PROVE  Resumed' /\ Inherited' /\ UsedUp'
  <2> DEFINE f == file[p]
             old == data[fd[p]]
             new == WriteAt(old, pos[p] + 1, chunk)
  <2>1. /\ pc[p] = "body" /\ pos[p] <= Chunks
        /\ data' = [data EXCEPT ![fd[p]] = WriteAt(@, pos[p] + 1, chunk)]
        /\ pos' = [pos EXCEPT ![p] = @ + 1]
        /\ intact' = [intact EXCEPT ![p] = @ /\ chunk = "good"]
        /\ honest' = [honest EXCEPT ![p] = @ /\ chunk = "good"]
        /\ UNCHANGED <<part, pc, file, fd, strikes>>
    BY <1>11 DEF Receive
  <2>2. fd[p] \in Inodes /\ fd[p] = part[f] /\ f \in 1..Files /\ part[f] # None
        /\ pos[p] = Len(old) /\ pos[p] \in 0..Chunks /\ old \in Content
    BY <2>1 DEF QInv, PInv, SameFile, Resumed, TypeOK
  <2>3. Len(new) = pos[p] + 1 /\ new[pos[p] + 1] = chunk
        /\ \A i \in 1..pos[p] : new[i] = old[i]
    <3>1. Len(old) + 1 \in 1..(Chunks + 1) /\ Len(old) <= Chunks /\ Len(old) \in Nat
      BY <2>2
    <3>2. new = WriteAt(old, Len(old) + 1, chunk)
      BY <2>2
    <3> HIDE DEF old, new
    <3>3. \A i \in 1..Len(old) : i # Len(old) + 1
      BY <3>1
    <3> QED
      <4> DEFINE k == Len(old) + 1
      <4>1. old \in Content /\ k \in 1..(Chunks + 1) /\ new = WriteAt(old, k, chunk)
        BY <2>2, <3>1, <3>2
      <4>2. Len(new) = k
        BY <2>2, <3>1, <3>2, WriteAtEnd
      <4> HIDE DEF k
      <4>3. new[k] = chunk /\ \A i \in 1..Len(old) : i # k => new[i] = old[i]
        BY <4>1, WriteAtContent
      <4> QED
        BY <2>2, <3>3, <4>2, <4>3 DEF k
  <2>4. /\ data'[fd[p]] = new /\ pos'[p] = pos[p] + 1
        /\ intact'[p] <=> intact[p] /\ chunk = "good"
        /\ honest'[p] <=> honest[p] /\ chunk = "good"
    BY <2>1, <2>2 DEF TypeOK
  <2>5. \A g \in 1..Files \ {f} : part[g] # None => data'[part[g]] = data[part[g]]
    BY <2>1, <2>2 DEF PInv, OwnInodes, TypeOK
  <2> HIDE DEF old, new
  <2>6. (f \in Spoilt <=> \E i \in 1..pos[p] : old[i] # "good")
    BY <2>2 DEF Spoilt, old
  <2>7. (f \in Spoilt' <=> \E i \in 1..(pos[p] + 1) : new[i] # "good")
    BY <2>1, <2>2, <2>3, <2>4 DEF Spoilt
  <2>8. f \in Spoilt => f \in Spoilt'
    BY <2>2, <2>3, <2>6, <2>7
  <2>9. chunk = "good" => Spoilt' \subseteq Spoilt
    <3>1. ASSUME chunk = "good", f \in Spoilt' PROVE f \in Spoilt
      <4>1. PICK i \in 1..(pos[p] + 1) : new[i] # "good"
        BY <2>7, <3>1
      <4>2. i \in 1..pos[p]
        BY <2>2, <2>3, <3>1, <4>1
      <4> QED
        BY <2>3, <2>6, <4>1, <4>2
    <3>2. ASSUME NEW g \in 1..Files \ {f}, g \in Spoilt' PROVE g \in Spoilt
      BY <2>1, <2>5, <3>2 DEF Spoilt
    <3> QED
      BY <3>1, <3>2 DEF Spoilt
  <2>10. Resumed'
    BY <1>00, <2>1, <2>3, <2>4 DEF Resumed
  <2>11. Inherited'
    <3>1. honest'[p] /\ ~intact'[p] => f \in Spoilt'
      BY <2>1, <2>4, <2>8 DEF QInv, Inherited
    <3> QED
      BY <1>00, <2>1, <3>1 DEF Inherited
  <2>12. pc'[p] # "idle"
    BY <2>1
  <2> QED
    BY <2>1, <2>4, <2>9, <2>10, <2>11, <2>12, CountKeeps
<1>12. ASSUME NEW p \in Pullers, BodyEnds(p) PROVE Resumed' /\ Inherited' /\ UsedUp'
  <2>1. /\ pc[p] = "body" /\ pc'[p] = "check"
        /\ UNCHANGED <<part, data, file, fd, pos, intact, strikes>>
        /\ honest' = [honest EXCEPT ![p] = @ /\ pos[p] = Chunks]
    BY <1>12 DEF BodyEnds, TypeOK
  <2>2. honest'[p] <=> honest[p] /\ pos[p] = Chunks
    BY <2>1 DEF TypeOK
  <2>3. Spoilt' = Spoilt
    BY <2>1 DEF Spoilt
  <2>4. pos[p] = Len(data[fd[p]])
    BY <2>1 DEF QInv, Resumed
  <2>5. honest[p] /\ ~intact[p] => file[p] \in Spoilt
    BY <2>1 DEF QInv, Inherited
  <2>6. Resumed'
    BY <1>00, <2>1, <2>4 DEF Resumed
  <2>7. Inherited'
    BY <1>00, <2>1, <2>2, <2>3, <2>5 DEF Inherited
  <2> QED
    BY <2>1, <2>2, <2>6, <2>7, QuietUses
<1>14. ASSUME NEW p \in Pullers, CheckDownload(p) PROVE Resumed' /\ Inherited' /\ UsedUp'
  <2> DEFINE kept == part[file[p]]
  <2>1. pc[p] = "check"
    BY <1>14 DEF CheckDownload
  <2>2. kept = fd[p] /\ kept # None /\ pos[p] = Len(data[kept])
    BY <2>1 DEF QInv, PInv, SameFile, Resumed
  <2>3. honest[p] => pos[p] = Chunks /\ (~intact[p] => file[p] \in Spoilt)
    BY <2>1 DEF QInv, Inherited
  <2>4. CASE Len(data[kept]) # Chunks
    <3>1. Fail(p)
      BY <1>14, <2>4 DEF CheckDownload
    <3>2. ~honest[p]
      BY <2>2, <2>3, <2>4
    <3> QED
      BY <3>1, <3>2, AbortUses
  <2>5. CASE Len(data[kept]) = Chunks
    <3>1. /\ UNCHANGED <<part, data, file, strikes, honest>>
          /\ pc'[p] = IF intact[p] /\ pos[p] = Chunks THEN "install" ELSE "reject"
      BY <1>14, <2>2, <2>5 DEF CheckDownload, TypeOK
    <3>2. Spoilt' = Spoilt
      BY <3>1 DEF Spoilt
    <3>3. Resumed'
      BY <1>00, <3>1 DEF Resumed
    <3>4. Inherited'
      BY <1>00, <2>3, <3>1, <3>2 DEF Inherited
    <3> QED
      BY <3>1, <3>3, <3>4, QuietUses
  <2> QED
    BY <2>4, <2>5
<1>15. ASSUME NEW p \in Pullers, Reject(p) PROVE Resumed' /\ Inherited' /\ UsedUp'
  <2>1. /\ pc[p] = "reject" /\ part' = [part EXCEPT ![file[p]] = None] /\ Fail(p)
        /\ UNCHANGED data
    BY <1>15 DEF Reject
  <2>2. CASE ~honest[p]
    BY <2>1, <2>2, AbortUses
  <2>3. CASE honest[p]
    <3>1. file[p] \in Spoilt
      BY <2>1, <2>3 DEF QInv, Inherited
    <3>2. Spoilt' = Spoilt \ {file[p]}
      BY <2>1 DEF Spoilt, TypeOK
    <3>3. IsFiniteSet(Spoilt) /\ Cardinality(Spoilt) \in Nat
      BY SpoiltAre
    <3>4. Cardinality(Spoilt') = Cardinality(Spoilt) - 1
      BY <3>1, <3>2, <3>3, FS_RemoveElement
    <3>5. strikes <= Files /\ strikes + Cardinality(Spoilt) <= Files /\ strikes \in Nat
      BY <2>3 DEF QInv, UsedUp, TypeOK
    <3>6. strikes' = strikes + 1 /\ Leave(p)
      BY <2>1, <2>3, <3>5 DEF Fail
    <3>7. strikes' + Cardinality(Spoilt') <= Files
      BY <3>3, <3>4, <3>5, <3>6
    <3> QED
      BY <3>6, <3>7, LeaveUses
  <2> QED
    BY <2>2, <2>3
<1>16. ASSUME NEW p \in Pullers, RemoveOld(p) PROVE Resumed' /\ Inherited' /\ UsedUp'
  <2>1. UNCHANGED <<part, data, strikes, honest>> /\ pc[p] = "install" /\ pc'[p] = "rename"
    BY <1>16 DEF RemoveOld, TypeOK
  <2>2. Resumed' /\ Inherited'
    BY <1>00, <2>1 DEF Resumed, Inherited
  <2> QED
    BY <2>1, <2>2, QuietUses
<1>17. ASSUME NEW p \in Pullers, RenamePart(p) PROVE Resumed' /\ Inherited' /\ UsedUp'
  <2>1. pc[p] = "rename" /\ part[file[p]] # None
    BY <1>17 DEF RenamePart, PInv, Verified, Intact
  <2>2. /\ UNCHANGED <<data, strikes, honest>> /\ NextFile(p)
        /\ \A f \in 1..Files : part'[f] \in {None, part[f]}
    BY <1>17, <2>1 DEF RenamePart, TypeOK
  <2>3. pc'[p] \in {"verify", "yamlTmp"}
    BY <2>2, NextFileType
  <2>4. Resumed' /\ Inherited'
    BY <1>00, <2>3 DEF Resumed, Inherited
  <2> QED
    BY <2>1, <2>2, <2>3, <2>4, QuietUses
<1>18. ASSUME NEW p \in Pullers, WriteYamlTmp(p) PROVE Resumed' /\ Inherited' /\ UsedUp'
  <2>1. /\ UNCHANGED <<part, data, strikes, honest>> /\ yamlTmp'
        /\ pc[p] = "yamlTmp" /\ pc'[p] = "yamlRemove"
    BY <1>18 DEF WriteYamlTmp, TypeOK
  <2>2. Resumed' /\ Inherited'
    BY <1>00, <2>1 DEF Resumed, Inherited
  <2> QED
    BY <2>1, <2>2, QuietUses
<1>19. ASSUME NEW p \in Pullers, RemoveYaml(p) PROVE Resumed' /\ Inherited' /\ UsedUp'
  <2>1. /\ UNCHANGED <<part, data, strikes, honest, yamlTmp>>
        /\ pc[p] = "yamlRemove" /\ pc'[p] = "yamlRename"
    BY <1>19 DEF RemoveYaml, TypeOK
  <2>2. yamlTmp
    BY <2>1 DEF QInv, Resumed
  <2>3. Resumed' /\ Inherited'
    BY <1>00, <2>1, <2>2 DEF Resumed, Inherited
  <2> QED
    BY <2>1, <2>3, QuietUses
<1>20. ASSUME NEW p \in Pullers, RenameYaml(p) PROVE Resumed' /\ Inherited' /\ UsedUp'
  <2>1. pc[p] = "yamlRename" /\ yamlTmp
    BY <1>20 DEF RenameYaml, QInv, Resumed
  <2>2. UNCHANGED <<part, data, strikes, honest>> /\ pc'[p] = "record"
    BY <1>20, <2>1 DEF RenameYaml, TypeOK
  <2>3. Resumed' /\ Inherited'
    BY <1>00, <2>2 DEF Resumed, Inherited
  <2> QED
    BY <2>1, <2>2, <2>3, QuietUses
<1>21. ASSUME NEW p \in Pullers, WriteRecord(p) PROVE Resumed' /\ Inherited' /\ UsedUp'
  <2>1. strikes' = 0 /\ pc'[p] = "idle"
    BY <1>21 DEF WriteRecord, TypeOK
  <2>2. Resumed' /\ Inherited'
    BY <1>00, <2>1 DEF Resumed, Inherited
  <2>3. UsedUp'
    BY <2>1, SpoiltAreNext DEF UsedUp
  <2> QED
    BY <2>2, <2>3
<1>22. ASSUME NEW f \in 1..Files, Damage(f) PROVE Resumed' /\ Inherited' /\ UsedUp'
  <2>1. /\ \A p \in Pullers : pc[p] = "idle" /\ pc'[p] = "idle"
        /\ UNCHANGED <<part, strikes, honest>> /\ dest[f] # None
        /\ data' = [data EXCEPT ![dest[f]] = WriteAt(@, 1, "bad")]
    BY <1>22 DEF Damage
  <2>2. \A g \in 1..Files : part[g] # None => data'[part[g]] = data[part[g]]
    BY <2>1 DEF PInv, OwnInodes, TypeOK
  <2>3. Spoilt' = Spoilt
    BY <2>1, <2>2 DEF Spoilt
  <2>4. Resumed' /\ Inherited'
    BY <2>1 DEF Resumed, Inherited
  <2>5. UsedUp'
    BY <2>1, <2>3 DEF QInv, UsedUp
  <2> QED
    BY <2>4, <2>5
<1>23. ASSUME UNCHANGED vars PROVE Resumed' /\ Inherited' /\ UsedUp'
  <2>1. UNCHANGED <<part, data, yamlTmp, pc, file, fd, pos, intact, honest, strikes>>
    BY <1>23 DEF vars
  <2> QED
    BY <2>1 DEF QInv, Resumed, Inherited, UsedUp, Spoilt
<1> QED
  BY <1>1, <1>2, <1>3, <1>4, <1>5, <1>6, <1>7, <1>8, <1>9, <1>10, <1>11, <1>12,
     <1>14, <1>15, <1>16, <1>17, <1>18, <1>19, <1>20, <1>21, <1>22, <1>23
  DEF Next, Pull, downloadVerified

\* Against an origin that serves correctly, a call fails at most once for each
\* artifact before one succeeds, whatever earlier attempts, faulty origins,
\* crashes and damage have left: each failure has removed a bad partial, and no
\* such call makes one (downloadVerified, finalizeDownload).
THEOREM RetriesEnd ==
  ASSUME OneCall
  PROVE  Spec => []RetriesSucceed
<1>1. QInv /\ [Next]_vars => QInv'
  BY UsesStep
<1>2. QInv => RetriesSucceed
  BY DEF QInv, UsedUp, RetriesSucceed
<1> QED
  BY UsesInit, <1>1, <1>2, PTL DEF Spec
=============================================================================
