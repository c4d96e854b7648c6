-------------------------- MODULE ProviderRequests --------------------------
(***************************************************************************)
(* What the clients of the providers (pkg/llm/providers) make of a         *)
(* request: the messages in the provider's form, and the limits.  A        *)
(* provider refuses a message that is empty, a tool call whose results do  *)
(* not come next, and limits that do not fit each other.                   *)
(*                                                                         *)
(* A message has a text or none, tool calls, or parts (files and text); a  *)
(* tool call is an id, and some have arguments that are no JSON.  On the   *)
(* wire a message is a role and a sequence of blocks.                      *)
(***************************************************************************)
EXTENDS Integers, Sequences, FiniteSets, SequencesExt

CONSTANTS CallId,        \* ids of tool calls in a request
          Malformed,     \* those whose arguments cannot be parsed
          MaxMessages,   \* bound: messages after the system prompt
          MinBudget,     \* anthropicThinkingMinBudget
          DefaultBudget, \* anthropicDefaultBudget
          MaxAsked,      \* the tokens a request may ask for, 0 for the client's own
          Limits         \* a model's default and limit, and what an agent's file says

\* The models' limits are their tables' (pkg/llm/providers/*/models.go), above
\* the budget for thinking; NewBaseClient refuses a file's above the model's.
ASSUME RequestsAssumption ==
  /\ Malformed \subseteq CallId /\ "none" \notin CallId
  /\ MaxMessages \in Nat
  /\ MinBudget \in Nat /\ DefaultBudget \in Nat
  /\ MinBudget < DefaultBudget
  /\ MaxAsked \subseteq Nat
  /\ \A l \in Limits :
       /\ l.limit \in Nat /\ DefaultBudget <= l.limit
       /\ l.default \in 1 .. l.limit /\ l.configured \in 0 .. l.limit

VARIABLES
  request,  \* the messages, the tokens asked for, and how it is to be answered
  model,    \* its provider and capabilities
  params    \* what is sent, none at first

requestVars == <<request, model, params>>

\* Two files with a user's words; the calls of an answer.
UserParts == {<<>>, <<"text", "image">>, <<"pdf", "binary">>, <<"odd image", "document">>}
AnswerCalls == {<<>>} \cup {<<c>> : c \in CallId} \cup {<<c, d>> : c, d \in CallId}

\* A user row, an answer, a result.
UserMessage == [role : {"user"}, text : {TRUE}, calls : {<<>>}, id : {"none"}, parts : UserParts]
AnswerMessage == [role : {"assistant"}, text : BOOLEAN, calls : AnswerCalls, id : {"none"}, parts : {<<>>}]
ResultMessage == [role : {"tool"}, text : {TRUE}, calls : {<<>>}, id : CallId, parts : {<<>>}]

Message == UserMessage \cup AnswerMessage \cup ResultMessage

Refused == [ok |-> FALSE, messages |-> <<>>, max |-> 0, thinking |-> 0, tools |-> FALSE]
Unsent == [Refused EXCEPT !.max = -1]

Plain(kind) == [kind |-> kind, id |-> "none"]
-----------------------------------------------------------------------------
(* The parts of a user's message.                                          *)

\* A file a model cannot take is named in words.  What all clients do alike:
Block(kind) ==
  CASE kind \in {"text", "document"} -> "text"
    [] kind = "pdf" -> "file"
    [] kind \in {"image", "odd image"} -> IF model.vision THEN "image" ELSE "note"
    [] OTHER -> "note"

\* Anthropic takes four formats of images.
toAnthropicContentBlocks(parts) ==
  [i \in DOMAIN parts |-> Plain(IF parts[i] = "odd image" THEN "note" ELSE Block(parts[i]))]

toOpenAIUserMultimodal(parts) == [i \in DOMAIN parts |-> Plain(Block(parts[i]))]

toGeminiUserMultimodal(parts) == [i \in DOMAIN parts |-> Plain(Block(parts[i]))]

UserBlocks(m, Convert(_)) == IF m.parts = <<>> THEN <<Plain("text")>> ELSE Convert(m.parts)

TextBlock(m) == IF m.text THEN <<Plain("text")>> ELSE <<>>

CallBlocks(m) == [i \in DOMAIN m.calls |-> [kind |-> "call", id |-> m.calls[i]]]

ResultBlock(m) == [kind |-> "result", id |-> m.id]

\* What a message of the history has of calls, or of results.
Own(m, kind) ==
  IF kind = "call" THEN CallBlocks(m) ELSE IF m.role = "tool" THEN <<ResultBlock(m)>> ELSE <<>>

WireMessage(role, blocks) == [role |-> role, blocks |-> blocks]

\* Sequences, one after the other.
Chain(ss) ==
  LET Upto[n \in 0 .. Len(ss)] == IF n = 0 THEN <<>> ELSE Upto[n - 1] \o ss[n]
  IN  Upto[Len(ss)]

Blocks(s) == Chain([i \in DOMAIN s |-> s[i].blocks])
-----------------------------------------------------------------------------
\* Anthropic: results wait until a message of another role comes, then go as
\* one message of the user; an answer with nothing in it is left out.
Unconverted == [sent |-> <<>>, pending |-> <<>>]

Flush(s) ==
  IF s.pending = <<>> THEN s
  ELSE [sent |-> Append(s.sent, WireMessage("user", s.pending)), pending |-> <<>>]

Say(s, role, blocks) ==
  IF blocks = <<>> THEN s
  ELSE [sent |-> Append(s.sent, WireMessage(role, blocks)), pending |-> s.pending]

\* Bug: a result is sent as it comes, in a message of its own.
ConvertAlone(s, m) ==
  CASE m.role = "user" -> Say(Flush(s), "user", UserBlocks(m, toAnthropicContentBlocks))
    [] m.role = "assistant" -> Say(Flush(s), "assistant", TextBlock(m) \o CallBlocks(m))
    [] m.role = "tool" -> Say(Flush(s), "user", <<ResultBlock(m)>>)

Convert(s, m) ==
  CASE m.role = "user" -> Say(Flush(s), "user", UserBlocks(m, toAnthropicContentBlocks))
    [] m.role = "assistant" -> Say(Flush(s), "assistant", TextBlock(m) \o CallBlocks(m))
    [] m.role = "tool" -> [sent |-> s.sent, pending |-> Append(s.pending, ResultBlock(m))]

toAnthropicMessages(messages) ==
  LET Upto[n \in 0 .. Len(messages)] ==
        IF n = 0 THEN Unconverted ELSE Convert(Upto[n - 1], messages[n])
  IN  Flush(Upto[Len(messages)]).sent

\* OpenAI: one message each; the text of an answer may be empty.
toOpenAIMessages(messages) ==
  [i \in DOMAIN messages |->
    LET m == messages[i] IN
    CASE m.role = "user" -> WireMessage("user", UserBlocks(m, toOpenAIUserMultimodal))
      [] m.role = "tool" -> WireMessage("tool", <<ResultBlock(m)>>)
      [] OTHER -> WireMessage("assistant", <<Plain("text")>> \o CallBlocks(m))]

\* Gemini: one content each, and an answer with nothing in it stays one.
toGeminiAssistantContent(m) == WireMessage("assistant", TextBlock(m) \o CallBlocks(m))
toGeminiFunctionResponseContent(m) == WireMessage("user", <<ResultBlock(m)>>)

toGeminiContents(messages) ==
  [i \in DOMAIN messages |->
    LET m == messages[i] IN
    CASE m.role = "user" -> WireMessage("user", UserBlocks(m, toGeminiUserMultimodal))
      [] m.role = "tool" -> toGeminiFunctionResponseContent(m)
      [] OTHER -> toGeminiAssistantContent(m)]

\* A stream of Gemini's starts a chat with all there is as one message.
contentsToPartsForChat(contents) ==
  <<WireMessage("user", Blocks(contents))>>

\* Only Gemini's client parses arguments and gives up when it cannot;
\* Anthropic's sends them as a string.
Unparsable(messages) ==
  \E i \in DOMAIN messages : ToSet(messages[i].calls) \cap Malformed # {}

-----------------------------------------------------------------------------
(* The limits.                                                             *)

\* NewBaseClient: the default of the model or what the agent's file says.
DefaultMax == IF model.tokens.configured > 0 THEN model.tokens.configured ELSE model.tokens.default

Clamped == LET max == IF request.max = 0 THEN DefaultMax ELSE request.max
           IN IF max > model.tokens.limit THEN model.tokens.limit ELSE max

calculateMaxTokens ==
  IF model.thinks /\ Clamped <= MinBudget THEN DefaultBudget ELSE Clamped

calculateThinkingBudget(max) ==
  LET budget == IF DefaultBudget >= max THEN max - 1 ELSE DefaultBudget
  IN IF max <= MinBudget \/ budget < MinBudget THEN 0 ELSE budget

getValidatedMaxTokens == IF Clamped <= 0 THEN model.tokens.default ELSE Clamped

\* A model must stream when asked to and call tools when there are some; all
\* clients check it (without streaming, the tools).
validateStreamingCapabilities ==
  /\ request.stream => model.streams
  /\ request.tools => model.tools
-----------------------------------------------------------------------------
\* Calls are answered next, in any order, and nothing else is a result; what
\* sanitizeToolCallSequence leaves (MessageHistory).
WellFormed(messages) ==
  /\ Len(messages) > 0
  /\ \A i \in DOMAIN messages :
       LET m == messages[i]
           n == Len(m.calls)
       IN /\ n > 0 => /\ i + n <= Len(messages)
                      /\ IsInjective(m.calls)
                      /\ ToSet(m.calls) = {messages[j].id : j \in (i + 1) .. (i + n)}
          /\ m.role = "tool" =>
               \E h \in 1 .. (i - 1) : i - h <= Len(messages[h].calls)

Histories == {s \in UNION {[1 .. n -> Message] : n \in 1 .. MaxMessages} : WellFormed(s)}

Hello == <<[role |-> "user", text |-> TRUE, calls |-> <<>>, id |-> "none", parts |-> <<>>]>>

Models ==
  [provider : {"anthropic", "openai", "gemini"}, vision : BOOLEAN, thinks : BOOLEAN,
   streams : BOOLEAN, tools : BOOLEAN, tokens : Limits]

Usual(m) == m.streams /\ m.tools /\ ~m.thinks /\ m.tokens.configured = 0

\* Bound: every history with the usual limits, or the shortest with all limits.
RequestInit ==
  /\ \/ /\ request \in [messages : Histories, max : {0}, stream : BOOLEAN, tools : {TRUE}]
        /\ model \in {m \in Models : Usual(m)}
     \/ /\ request \in [messages : {Hello}, max : MaxAsked,
                        stream : BOOLEAN, tools : BOOLEAN]
        /\ model \in Models
  /\ params = Unsent

Asked(provider) == params = Unsent /\ model.provider = provider

Built(messages, max, thinking) ==
  /\ params' = [ok |-> TRUE, messages |-> messages, max |-> max, thinking |-> thinking,
                tools |-> request.tools /\ model.tools]
  /\ UNCHANGED <<request, model>>

\* A model that cannot do what is asked; arguments Gemini's client cannot parse.
Reject ==
  /\ params = Unsent
  /\ ~validateStreamingCapabilities \/ (model.provider = "gemini" /\ Unparsable(request.messages))
  /\ params' = Refused
  /\ UNCHANGED <<request, model>>

buildMessageParams ==
  /\ Asked("anthropic") /\ validateStreamingCapabilities
  /\ Built(toAnthropicMessages(request.messages), calculateMaxTokens,
           IF model.thinks THEN calculateThinkingBudget(calculateMaxTokens) ELSE 0)

buildChatParams ==
  /\ Asked("openai") /\ validateStreamingCapabilities
  /\ Built(toOpenAIMessages(request.messages), Clamped, 0)

buildGenerateConfig ==
  /\ Asked("gemini") /\ validateStreamingCapabilities /\ ~Unparsable(request.messages)
  /\ LET contents == toGeminiContents(request.messages) IN
     Built(IF request.stream THEN contentsToPartsForChat(contents) ELSE contents,
           getValidatedMaxTokens, 0)

RequestNext == Reject \/ buildMessageParams \/ buildChatParams \/ buildGenerateConfig

RequestSpec == RequestInit /\ [][RequestNext]_requestVars
-----------------------------------------------------------------------------
RequestTypeOK ==
  /\ params.ok \in BOOLEAN
  /\ params.max \in Int
  /\ \A i \in DOMAIN params.messages : params.messages[i].role \in {"user", "assistant", "tool"}

\* The blocks of a kind, in order.
Only(blocks, kind) ==
  LET Upto[n \in 0 .. Len(blocks)] ==
        IF n = 0 THEN <<>>
        ELSE IF blocks[n].kind = kind THEN Append(Upto[n - 1], blocks[n]) ELSE Upto[n - 1]
  IN  Upto[Len(blocks)]

\* Ids of a message's blocks of a kind.
These(m, kind) == {m.blocks[i].id : i \in {j \in DOMAIN m.blocks : m.blocks[j].kind = kind}}

\* Anthropic takes a message with calls only if the next one has exactly their
\* results; OpenAI wants them in as many messages.
CallsAreFollowed(s, provider) ==
  \A i \in DOMAIN s : These(s[i], "call") # {} =>
    IF provider = "anthropic"
      THEN i < Len(s) /\ These(s[i + 1], "result") = These(s[i], "call")
      ELSE LET n == Cardinality(These(s[i], "call")) IN
           /\ i + n <= Len(s)
           /\ UNION {These(s[j], "result") : j \in (i + 1) .. (i + n)} = These(s[i], "call")

\* Of a request whose history is in order, every provider gets every call and
\* every result, in order, and nothing it refuses: no empty message, calls with
\* their results (Gemini is not asked for either), and limits within the
\* model's, with room for an answer beyond the thinking.
RequestsAreAcceptable ==
  (params.ok /\ params # Unsent) =>
    /\ \A i \in DOMAIN params.messages :
         params.messages[i].blocks # <<>> \/ model.provider = "gemini"
    /\ model.provider # "gemini" => CallsAreFollowed(params.messages, model.provider)
    /\ \A kind \in {"call", "result"} :
         Only(Blocks(params.messages), kind) =
           Chain([i \in DOMAIN request.messages |-> Own(request.messages[i], kind)])
    /\ params.max \in 1 .. model.tokens.limit
    /\ params.thinking < params.max
    /\ model.thinks /\ model.provider = "anthropic" => params.thinking >= MinBudget
==============================================================================
