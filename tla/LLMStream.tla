----------------------------- MODULE LLMStream ------------------------------
(***************************************************************************)
(* One call of an LLM: the provider's client (pkg/llm/providers) reads the *)
(* provider's events and, when streaming, hands chunks over a channel that *)
(* holds none; the agent (collectToolCalls) puts the answer together and   *)
(* leaves when it has seen the end or an error.                            *)
(*                                                                         *)
(* A tool call is an id and the number of fragments its arguments came in; *)
(* ids are distinct.  A text is the number of its tokens.  What the        *)
(* provider sends is open.                                                 *)
(***************************************************************************)
EXTENDS Naturals, Sequences, FiniteSets, SequencesExt

CONSTANTS Call,         \* ids of tool calls
          MaxText,      \* bound: tokens in an answer
          MaxFragments  \* bound: fragments of the arguments of a call

ASSUME StreamAssumption == MaxText \in Nat /\ MaxFragments \in Nat

VARIABLES
  provider, \* "openai", "anthropic" or "gemini"
  mode,     \* "chat" or "stream"
  source,   \* the client: "asking", "reading", "finishing" or "closed"
  out,      \* the chunks the client is about to send
  text,     \* tokens the provider has sent
  made,     \* the calls it has completed, in order
  open,     \* the call whose fragments are arriving, if any
  broken,   \* whether the provider failed, or the client refused
  reader,   \* the agent: "reading", "answered" or "failed"
  heard,    \* tokens it has seen
  built     \* the calls it has put together, in order

streamVars == <<provider, mode, source, out, text, made, open, broken, reader, heard, built>>

ToolCall == [id : Call, args : 0 .. MaxFragments]
NoCall == [id |-> "none", args |-> 0]

Chunk == [kind : {"text", "calls", "error", "done"}, calls : Seq(ToolCall)]
Text == [kind |-> "text", calls |-> <<>>]
Calls(s) == [kind |-> "calls", calls |-> s]
Error == [kind |-> "error", calls |-> <<>>]
Done == [kind |-> "done", calls |-> <<>>]

StreamTypeOK ==
  /\ provider \in {"openai", "anthropic", "gemini"}
  /\ mode \in {"chat", "stream"}
  /\ source \in {"asking", "reading", "finishing", "closed"}
  /\ out \in Seq(Chunk)
  /\ text \in 0 .. MaxText
  /\ made \in Seq(ToolCall)
  /\ open \in ToolCall \cup {NoCall}
  /\ broken \in BOOLEAN
  /\ reader \in {"reading", "answered", "failed"}
  /\ heard \in 0 .. MaxText
  /\ built \in Seq(ToolCall)

StreamInit ==
  /\ provider \in {"openai", "anthropic", "gemini"}
  /\ mode \in {"chat", "stream"}
  /\ source = "asking"
  /\ out = <<>>
  /\ text = 0
  /\ made = <<>>
  /\ open = NoCall
  /\ broken = FALSE
  /\ reader = "reading"
  /\ heard = 0
  /\ built = <<>>
-----------------------------------------------------------------------------
\* The client turns to the next event when its chunks are sent.
Ready == source = "reading" /\ out = <<>>

Ids(calls) == {calls[i].id : i \in DOMAIN calls}

Emit(chunks) == out' = IF mode = "stream" THEN chunks ELSE <<>>

\* The request is built and sent.
Connect ==
  /\ source = "asking"
  /\ source' = "reading"
  /\ UNCHANGED <<provider, mode, out, text, made, open, broken, reader, heard, built>>

\* The model cannot do what is asked, or a message cannot be converted.
Refuse ==
  /\ source = "asking"
  /\ source' = "finishing"
  /\ broken' = TRUE
  /\ Emit(<<Error>>)
  /\ UNCHANGED <<provider, mode, text, made, open, reader, heard, built>>

TextDelta ==
  /\ Ready
  /\ text < MaxText
  /\ text' = text + 1
  /\ Emit(<<Text>>)
  /\ UNCHANGED <<provider, mode, source, made, open, broken, reader, heard, built>>

\* OpenAI and Anthropic send a call in pieces.
handleContentBlockStart ==
  /\ Ready
  /\ provider # "gemini"
  /\ open = NoCall
  /\ \E c \in Call \ Ids(made) : open' = [id |-> c, args |-> 0]
  /\ UNCHANGED <<provider, mode, source, out, text, made, broken, reader, heard, built>>

handleContentBlockDelta ==
  /\ Ready
  /\ open # NoCall
  /\ open.args < MaxFragments
  /\ open' = [open EXCEPT !.args = @ + 1]
  /\ UNCHANGED <<provider, mode, source, out, text, made, broken, reader, heard, built>>

handleContentBlockStop ==
  /\ Ready
  /\ open # NoCall
  /\ made' = Append(made, open)
  /\ Emit(<<Calls(<<open>>)>>)
  /\ open' = NoCall
  /\ UNCHANGED <<provider, mode, source, text, broken, reader, heard, built>>

\* Gemini sends calls whole; the client keeps them until the end.
FunctionCallPart ==
  /\ Ready
  /\ provider = "gemini"
  /\ \E c \in Call \ Ids(made), n \in 0 .. MaxFragments :
       made' = Append(made, [id |-> c, args |-> n])
  /\ UNCHANGED <<provider, mode, source, out, text, open, broken, reader, heard, built>>

\* The provider's stream breaks.  Gemini's client sends the end as well.
Break ==
  /\ Ready
  /\ source' = "finishing"
  /\ broken' = TRUE
  /\ Emit(IF provider = "gemini" THEN <<Error, Done>> ELSE <<Error>>)
  /\ UNCHANGED <<provider, mode, text, made, open, reader, heard, built>>

\* Gemini's calls come from a map, in any order.
Orders(calls) == {s \in [1 .. Len(calls) -> ToSet(calls)] : ToSet(s) = ToSet(calls)}

LastChunks ==
  IF provider = "gemini" /\ made # <<>>
    THEN {<<Calls(s), Done>> : s \in Orders(made)}
    ELSE {<<Done>>}

EndOfStream ==
  /\ Ready
  /\ open = NoCall
  /\ source' = "finishing"
  /\ \E chunks \in LastChunks : Emit(chunks)
  /\ UNCHANGED <<provider, mode, text, made, open, broken, reader, heard, built>>
-----------------------------------------------------------------------------
\* Bug: fragments of a call that is known replace those there are.
AddReplacing(b, tc) ==
  IF tc.id \in Ids(b)
    THEN [i \in DOMAIN b |-> IF b[i].id = tc.id THEN tc ELSE b[i]]
    ELSE <<tc>> \o b

\* A call that is known gets more arguments, another one comes last.
AddCall(b, tc) ==
  IF tc.id \in Ids(b)
    THEN [i \in DOMAIN b |-> IF b[i].id = tc.id
                               THEN [b[i] EXCEPT !.args = @ + tc.args] ELSE b[i]]
    ELSE Append(b, tc)

\* The calls of a chunk, one after the other.
AddCalls(b, calls) ==
  LET After[n \in 0 .. Len(calls)] == IF n = 0 THEN b ELSE AddCall(After[n - 1], calls[n])
  IN After[Len(calls)]

\* One turn of the loop of collectToolCalls: it takes the chunk being sent.
collectToolCalls ==
  /\ reader = "reading"
  /\ out # <<>>
  /\ out' = Tail(out)
  /\ LET chunk == Head(out) IN
       /\ heard' = IF chunk.kind = "text" THEN heard + 1 ELSE heard
       /\ built' = AddCalls(built, chunk.calls)
       /\ reader' = CASE chunk.kind = "error" -> "failed"
                      [] chunk.kind = "done" -> "answered"
                      [] OTHER -> "reading"
  /\ UNCHANGED <<provider, mode, source, text, made, open, broken>>

\* Without streaming the client gathers the events itself: an answer ...
parseResponse ==
  /\ mode = "chat" /\ source = "finishing" /\ reader = "reading"
  /\ ~broken
  /\ reader' = "answered" /\ heard' = text /\ built' = made
  /\ UNCHANGED <<provider, mode, source, out, text, made, open, broken>>

\* ... or an error ...
ChatFails ==
  /\ mode = "chat" /\ source = "finishing" /\ reader = "reading"
  /\ broken
  /\ reader' = "failed"
  /\ UNCHANGED <<provider, mode, source, out, text, made, open, broken, heard, built>>

\* ... which an answer of Gemini's with no candidate is as well.
NoCandidates ==
  /\ mode = "chat" /\ source = "finishing" /\ reader = "reading"
  /\ provider = "gemini" /\ text = 0 /\ made = <<>>
  /\ reader' = "failed"
  /\ UNCHANGED <<provider, mode, source, out, text, made, open, broken, heard, built>>

\* The client's goroutine ends when all its chunks are taken.
CloseChannel ==
  /\ source = "finishing"
  /\ out = <<>>
  /\ mode = "chat" => reader # "reading"
  /\ source' = "closed"
  /\ UNCHANGED <<provider, mode, out, text, made, open, broken, reader, heard, built>>

Events ==
  \/ Connect \/ Refuse \/ TextDelta \/ FunctionCallPart
  \/ handleContentBlockStart \/ handleContentBlockDelta \/ handleContentBlockStop
  \/ Break \/ EndOfStream

Handover == collectToolCalls \/ parseResponse \/ ChatFails \/ NoCandidates \/ CloseChannel

StreamNext == Events \/ Handover

StreamSpec == StreamInit /\ [][StreamNext]_streamVars
-----------------------------------------------------------------------------
\* An answer the agent goes on with is the provider's whole answer: every
\* token, and every call with all its arguments, in the order of the provider
\* but for Gemini's streams; and an answer that broke off is never taken.
AnswerIsWhole ==
  reader = "answered" =>
    /\ ~broken
    /\ heard = text
    /\ ToSet(built) = ToSet(made)
    /\ Len(built) = Len(made)
    /\ (provider # "gemini" \/ mode = "chat") => built = made
==============================================================================
