------------------------------ MODULE CloudStream ------------------------------
(***************************************************************************)
(* A streamed answer of Backpack Cloud on its way to the client (server.go: *)
(* proxyCloud, proxyResponsesStream, proxyLegacyInferenceStream).  The      *)
(* upstream sends frames and may break off anywhere; the proxy copies what  *)
(* each read brings, looks for the marker of a terminal frame, and appends  *)
(* a failure frame of its own when it has not seen one.                     *)
(***************************************************************************)
EXTENDS Naturals, Sequences, FiniteSets

CONSTANTS
  Paths,        \* "/v1/responses", "/v1/messages", "/v1/chat/completions"
  MaxRead,      \* bound: pieces in one read
  MaxFrames     \* bound: frames the upstream sends

VARIABLES
  path, status, \* the request, "waiting", "copying", "ended" or "gone"
  at,           \* the piece at which the upstream's bytes now end
  frames,       \* frames begun so far
  tail,         \* the last 256 bytes: the last piece
  terminal,     \* the proxy has seen a marker
  answer,       \* the last thing appended: "none", "error" or "failure"
  whole,        \* observation: a terminal frame has arrived as a whole
  quoted        \* observation: text of the answer contains a marker

vars == <<path, status, at, frames, tail, terminal, answer, whole, quoted>>

\* Pieces of a frame.  "open", "close": the halves of an ordinary one; "quote":
\* its second half, with a marker in the text.  "mark", "er", "rest": a
\* terminal frame, the marker in two.
Starts    == {"open", "mark"}
Follow(p) == CASE p \in {"close", "quote", "rest"} -> Starts
               [] p = "open" -> {"close", "quote"}
               [] p = "mark" -> {"er"}
               [] p = "er"   -> {"rest"}

Boundary == {"close", "quote", "rest"}

\* What one read may bring after the piece p.
Chunks(p) ==
  {c \in UNION {[1..n -> Starts \cup Boundary \cup {"er"}] : n \in 1..MaxRead} :
     \A i \in DOMAIN c : c[i] \in Follow(IF i = 1 THEN p ELSE c[i - 1])}

\* strings.Contains(probe, marker): the three terminal events of a Responses
\* stream, message_stop of Messages, [DONE] of Chat Completions.
Contains(probe) ==
  \E i \in DOMAIN probe :
    probe[i] = "quote" \/ (i < Len(probe) /\ probe[i] = "mark" /\ probe[i + 1] = "er")

Has(c, p) == \E i \in DOMAIN c : c[i] = p

Begun(c) == Cardinality({i \in DOMAIN c : c[i] \in Starts})

-----------------------------------------------------------------------------
\* The upstream's own error, or that it is unavailable.
Error == answer' = "error"

\* Inference fails, or answers with a status that is no success: one error.
Refused ==
  /\ status = "waiting"
  /\ Error /\ status' = "ended"
  /\ UNCHANGED <<path, at, frames, tail, terminal, whole, quoted>>

Accepted ==
  /\ status = "waiting"
  /\ status' = "copying"
  /\ UNCHANGED <<path, at, frames, tail, terminal, answer, whole, quoted>>

\* Fault: only the read itself is searched.
ProbeForgets(c) == terminal \/ Contains(c)

Probe(c) == terminal \/ Contains(<<tail>> \o c)

\* One turn of the loop: probe, tail, Write, Flush; the loop of the legacy
\* paths is the same, with other markers.
Read(c) ==
  /\ status = "copying"
  /\ frames + Begun(c) <= MaxFrames
  /\ terminal' = Probe(c)
  /\ at' = c[Len(c)] /\ tail' = at'
  /\ frames' = frames + Begun(c)
  /\ whole' = (whole \/ Has(c, "rest"))
  /\ quoted' = (quoted \/ Has(c, "quote"))
  /\ UNCHANGED <<path, status, answer>>

Fail == answer' = "failure"

\* The read returns an error, be it the end of the stream or a broken
\* connection: the same failure for both.
EndResponses ==
  /\ path = "/v1/responses" /\ status = "copying"
  /\ status' = "ended"
  /\ IF terminal THEN UNCHANGED answer ELSE Fail
  /\ UNCHANGED <<path, at, frames, tail, terminal, whole, quoted>>

\* An error event for Messages, an error object for Chat Completions.
EndLegacy ==
  /\ path # "/v1/responses" /\ status = "copying"
  /\ status' = "ended"
  /\ IF terminal THEN UNCHANGED answer ELSE Fail
  /\ UNCHANGED <<path, at, frames, tail, terminal, whole, quoted>>

\* A write fails: the client has left.
ClientLeaves ==
  /\ status \in {"waiting", "copying"}
  /\ status' = "gone"
  /\ UNCHANGED <<path, at, frames, tail, terminal, answer, whole, quoted>>

\* The next request.
Again ==
  /\ status \in {"ended", "gone"}
  /\ path' \in Paths
  /\ status' = "waiting" /\ at' = "close" /\ tail' = "close" /\ frames' = 0
  /\ terminal' = FALSE /\ answer' = "none" /\ whole' = FALSE /\ quoted' = FALSE

Init ==
  /\ path \in Paths
  /\ status = "waiting" /\ at = "close" /\ tail = "close" /\ frames = 0
  /\ terminal = FALSE /\ answer = "none" /\ whole = FALSE /\ quoted = FALSE

Next ==
  \/ Refused \/ Accepted \/ EndResponses \/ EndLegacy \/ ClientLeaves \/ Again
  \/ \E c \in Chunks(at) : Read(c)

Spec == Init /\ [][Next]_vars

-----------------------------------------------------------------------------
(* Properties *)

\* The type invariant of the copy loop.
TypeOK ==
  /\ path \in Paths /\ status \in {"waiting", "copying", "ended", "gone"}
  /\ at \in Starts \cup Boundary \cup {"er"} /\ tail = at
  /\ frames \in 0..MaxFrames
  /\ answer \in {"none", "error", "failure"}
  /\ terminal \in BOOLEAN /\ whole \in BOOLEAN /\ quoted \in BOOLEAN

\* The client can read the failure frame as an event of its own.
ReportedFailure == answer = "error" \/ (answer = "failure" /\ at \in Boundary)

\* However reads cut the bytes up, a stream that ends between two frames ends
\* for the client with exactly one of: the terminal frame of the upstream, a
\* failure.  It is never both, which would fail a request that is complete
\* (terminal, tail); unless the text of the answer quotes a marker.
OneOutcome ==
  status = "ended" /\ at \in Boundary /\ ~quoted => (whole <=> ~ReportedFailure)

\* The comment of proxyResponsesStream: an unexpectedly terminated stream ends
\* with an explicit failure event.  A stream cut within a frame does not: the
\* appended frame continues a broken line, or is missing since the marker has
\* been seen of a terminal frame that is not whole.
InterruptionReported ==
  status = "ended" /\ ~whole => ReportedFailure
=============================================================================
