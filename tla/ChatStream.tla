------------------------------- MODULE ChatStream -------------------------------
(***************************************************************************)
(* A streamed answer of the local runtime, translated while it arrives      *)
(* (inference.go: readChatStream; responses.go: streamResponses;            *)
(* anthropic.go: streamAnthropic).  A chunk of the Chat Completions stream  *)
(* becomes deltas; text and each tool call become an item of the client's   *)
(* protocol, opened with its first delta and closed at the end.             *)
(***************************************************************************)
EXTENDS Naturals, Sequences, FiniteSets

CONSTANTS
  Protocols,    \* "responses", "messages"
  Tools,        \* the indices the upstream gives tool calls
  None,         \* no item
  MaxChunks     \* bound: chunks of one answer

VARIABLES
  protocol, phase,  \* the request; "streaming", "closing", "done", "failed", "gone"
  chunks,           \* chunks so far
  pending,          \* deltas of the current chunk not yet consumed
  next,             \* nextOutputIndex, nextIndex
  textAt,           \* the item of the text
  calls,            \* the item of each tool call, and the arguments collected
  finish, outcome,  \* the finish reason seen, the one reported
  opened, closed,   \* what the client was told: items added, items done
  told,             \* arguments it was sent, per item
  given, said,      \* observation: arguments and reason the upstream has sent
  together          \* observation: text and finish reason in one chunk

answer == <<protocol, chunks>>
client == <<opened, closed, told>>
ghosts == <<given, said, together>>
vars   == <<answer, phase, pending, next, textAt, calls, finish, outcome, client, ghosts>>

\* A delta, as a record of which part is set.
Text(reason)       == [kind |-> "text", reason |-> reason]
Finish(reason)     == [kind |-> "finish", reason |-> reason]
ToolCall(t, whole) == [kind |-> "tool", tool |-> t, args |-> whole]
Usage              == [kind |-> "usage"]

Reasons == {"stop", "length"}

\* DecodeChatChunk: the deltas that come alone, and those a reason comes with.
Alone ==
  {Text("none"), Usage} \cup {ToolCall(t, a) : t \in Tools, a \in BOOLEAN}
  \cup {Text(r) : r \in Reasons} \cup {Finish(r) : r \in Reasons}
Together ==
  {<<Finish("stop"), ToolCall(t, TRUE)>> : t \in Tools}
  \cup {<<Finish(r), Usage>> : r \in Reasons}
Chunks == {<<d>> : d \in Alone} \cup Together

\* Contiguous: a new call has the next index, as the upstream counts them.
Counted(c) ==
  \A i \in DOMAIN c : c[i].kind = "tool" =>
    \A t \in Tools : t < c[i].tool => calls[t] # None

SetTo(reason, old) == IF reason = "none" THEN old ELSE reason

-----------------------------------------------------------------------------
(* The upstream: readChatStream *)

Chunk(c) ==
  /\ phase = "streaming" /\ pending = <<>>
  /\ chunks < MaxChunks /\ chunks' = chunks + 1
  /\ said # "none" => \A i \in DOMAIN c : c[i].kind = "usage"
  /\ Counted(c)
  /\ pending' = c
  /\ said' = IF "reason" \in DOMAIN c[1] THEN SetTo(c[1].reason, said) ELSE said
  /\ together' = (together \/ \E r \in Reasons : c = <<Text(r)>>)
  /\ UNCHANGED <<protocol, phase, next, textAt, calls, finish, outcome, client, given>>

\* [DONE], or the end of the body, which is taken for it.
StreamEnds ==
  /\ phase = "streaming" /\ pending = <<>>
  /\ phase' = "closing"
  /\ UNCHANGED <<answer, pending, next, textAt, calls, finish, outcome, client, ghosts>>

\* A chunk that is not JSON, or a broken connection.
StreamBreaks ==
  /\ phase = "streaming" /\ pending = <<>>
  /\ phase' = "failed"
  /\ UNCHANGED <<answer, pending, next, textAt, calls, finish, outcome, client, ghosts>>

\* A write fails, and the callback stops the reading.
ClientLeaves ==
  /\ phase = "streaming" /\ pending # <<>>
  /\ phase' = "gone"
  /\ UNCHANGED <<answer, pending, next, textAt, calls, finish, outcome, client, ghosts>>

-----------------------------------------------------------------------------
(* The callback, delta by delta *)

Consume(kind) ==
  /\ phase = "streaming" /\ pending # <<>> /\ pending[1].kind = kind
  /\ pending' = Tail(pending)

\* It returns with the text: a reason in the same delta is not looked at.
TextDelta ==
  /\ Consume("text")
  /\ IF textAt = None
       THEN /\ textAt' = next /\ next' = next + 1
            /\ opened' = Append(opened, next)
       ELSE UNCHANGED <<textAt, next, opened>>
  /\ UNCHANGED <<answer, phase, calls, finish, outcome, closed, told, ghosts>>

\* Fault: arguments belong to the call opened last.
CallAtLast(t) ==
  IF calls[t] = None THEN t
  ELSE CHOOSE u \in Tools : calls[u] # None
         /\ \A v \in Tools : calls[v] # None => calls[v].at <= calls[u].at

\* toolCalls[delta.ToolIndex]
CallAt(t) == t

ToolDelta ==
  /\ Consume("tool")
  /\ LET d == pending[1]
         t == CallAt(d.tool)
         fresh == calls[t] = None
         at == IF fresh THEN next ELSE calls[t].at
         more == IF d.args THEN <<chunks>> ELSE <<>>
     IN /\ calls' = [calls EXCEPT ![t] =
                       [at |-> at, args |-> (IF fresh THEN <<>> ELSE @.args) \o more]]
        /\ next' = IF fresh THEN next + 1 ELSE next
        /\ opened' = IF fresh THEN Append(opened, at) ELSE opened
        /\ told' = [told EXCEPT ![at] = @ \o more]
        /\ given' = [given EXCEPT ![d.tool] = @ \o more]
  /\ UNCHANGED <<answer, phase, textAt, finish, outcome, closed, said, together>>

FinishAfter(d) == IF d.kind = "finish" THEN SetTo(d.reason, finish) ELSE finish

OtherDelta ==
  /\ Consume("usage") \/ Consume("finish")
  /\ finish' = FinishAfter(pending[1])
  /\ UNCHANGED <<answer, phase, next, textAt, calls, outcome, client, ghosts>>

-----------------------------------------------------------------------------
(* After the stream *)

\* The loop from 0 to len(toolCalls) - 1: the calls below n, in their order.
LastCalls(n) ==
  LET found == {t \in Tools : t < n /\ calls[t] # None} IN
  CHOOSE order \in [1..Cardinality(found) -> found] :
    /\ found = {order[i] : i \in DOMAIN order}
    /\ \A i, j \in DOMAIN order : i < j => order[i] < order[j]

\* len(toolCalls)
Cardinal == Cardinality({t \in Tools : calls[t] # None})

CloseItems ==
  LET order == LastCalls(Cardinal) IN
  closed' = (IF textAt = None THEN <<>> ELSE <<textAt>>)
            \o [i \in DOMAIN order |-> calls[order[i]].at]

\* response.completed, whose status says incomplete for a reason of length.
CloseResponses ==
  /\ protocol = "responses" /\ phase = "closing"
  /\ CloseItems
  /\ outcome' = IF finish = "length" THEN "incomplete" ELSE "complete"
  /\ phase' = "done"
  /\ UNCHANGED <<answer, pending, next, textAt, calls, finish, opened, told, ghosts>>

\* message_delta with the stop reason, message_stop.
CloseMessages ==
  /\ protocol = "messages" /\ phase = "closing"
  /\ CloseItems
  /\ outcome' = IF Cardinal > 0 THEN "tool_use"
                ELSE IF finish = "length" THEN "incomplete" ELSE "complete"
  /\ phase' = "done"
  /\ UNCHANGED <<answer, pending, next, textAt, calls, finish, opened, told, ghosts>>

Fresh(p) ==
  /\ protocol' = p
  /\ phase' = "streaming" /\ chunks' = 0 /\ pending' = <<>> /\ next' = 0
  /\ textAt' = None /\ calls' = [t \in Tools |-> None]
  /\ finish' = "none" /\ outcome' = "none"
  /\ opened' = <<>> /\ closed' = <<>> /\ told' = [i \in DOMAIN told |-> <<>>]
  /\ given' = [t \in Tools |-> <<>>] /\ said' = "none" /\ together' = FALSE

\* The next request.
Again == phase \in {"done", "failed", "gone"} /\ \E p \in Protocols : Fresh(p)

Init ==
  /\ protocol \in Protocols
  /\ phase = "streaming" /\ chunks = 0 /\ pending = <<>> /\ next = 0
  /\ textAt = None /\ calls = [t \in Tools |-> None]
  /\ finish = "none" /\ outcome = "none"
  /\ opened = <<>> /\ closed = <<>> /\ told = [i \in 0..MaxChunks |-> <<>>]
  /\ given = [t \in Tools |-> <<>>] /\ said = "none" /\ together = FALSE

Next ==
  \/ \E c \in Chunks : Chunk(c)
  \/ StreamEnds \/ StreamBreaks \/ ClientLeaves
  \/ TextDelta \/ ToolDelta \/ OtherDelta
  \/ CloseResponses \/ CloseMessages \/ Again

Spec == Init /\ [][Next]_vars

-----------------------------------------------------------------------------
(* Properties *)

\* The type invariant of the translation.
TypeOK ==
  /\ protocol \in Protocols
  /\ phase \in {"streaming", "closing", "done", "failed", "gone"}
  /\ chunks \in 0..MaxChunks /\ next \in 0..MaxChunks
  /\ pending = <<>> \/ phase \in {"streaming", "gone"}
  /\ textAt \in 0..MaxChunks \cup {None}
  /\ \A t \in Tools : calls[t] # None => calls[t].at \in 0..(next - 1)
  /\ finish \in Reasons \cup {"none"} /\ said \in Reasons \cup {"none"}
  /\ outcome \in {"none", "complete", "incomplete", "tool_use"}
  /\ Len(closed) <= MaxChunks /\ Len(opened) = next

\* An answer that ends has closed every item it has opened, each once, in
\* whatever order text and calls came (the maps by index in both functions).
ItemsClosed ==
  phase = "done" =>
    /\ {closed[i] : i \in DOMAIN closed} = {opened[i] : i \in DOMAIN opened}
    /\ Len(closed) = Len(opened)

\* The arguments of a call reach its own item, as a stream of deltas and as
\* the final value, all and in order, when calls are interleaved (toolCalls).
ArgumentsWhole ==
  pending = <<>> => \A t \in Tools : calls[t] # None =>
    given[t] = calls[t].args /\ given[t] = told[calls[t].at]

\* An answer that the runtime has cut off for its length is reported so,
\* unless calls are reported first, or the reason came in the delta of a text,
\* which is where it is lost (finish, finishReason).
LengthReported ==
  phase = "done" /\ said = "length" /\ ~together => outcome \in {"incomplete", "tool_use"}

\* What the client is told is what the runtime has said: items, arguments and
\* the reason of the end (streamResponses, streamAnthropic).
FaithfullyTranslated == ItemsClosed /\ ArgumentsWhole /\ LengthReported
=============================================================================
