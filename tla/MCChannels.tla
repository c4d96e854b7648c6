----------------------------- MODULE MCChannels -----------------------------
(***************************************************************************)
(* Around the kernel: its start and end, the web channel and the Telegram  *)
(* channel with their sessions, the files of a message, the login to the   *)
(* API server, and the clients of the LLM providers: the conversion of a   *)
(* request, the budget of a turn, one call, and the cache of Gemini's.     *)
(* They are checked side by side, one per behaviour, from all its initial  *)
(* states; the others stay at one of theirs.                               *)
(***************************************************************************)
EXTENDS Lifecycle, OAChannel, Telegram, Attachments, Access,
        LLMStream, GeminiCache, ProviderRequests, TokenBudget

CONSTANTS b1, b2, w1, k1, k2

VARIABLE part  \* the one that runs

kernelVars == <<sessionVars, webVars, telegramVars, attachmentVars, accessVars, lifeVars>>
llmVars == <<streamVars, cacheVars, requestVars, budgetVars>>
channelVars == <<part, kernelVars, llmVars>>

KindsOfFile == <<"photo", "document">>
OneHome == (b1 :> 1) @@ (b2 :> 1)
Priorities == (w1 :> 1)
SelfContained == [cli |-> FALSE, spec |-> FALSE, default |-> None, supported |-> {}]
WithConnector(c, others) == [cli |-> FALSE, spec |-> TRUE, default |-> c, supported |-> {c} \cup others]
SomeTemplates ==
  {SelfContained, [SelfContained EXCEPT !.cli = TRUE]}
    \cup {WithConnector(c, Local) : c \in Remote} \cup {WithConnector(c, Remote) : c \in Disabled}
SomeBindings ==
  {[skill |-> k1, connector |-> c] : c \in {None} \cup Disabled} \cup {[skill |-> k2, connector |-> c] : c \in Remote}
SomeLimits ==
  {[default |-> MinBudget + 1, limit |-> DefaultBudget + 2, configured |-> c] :
      c \in {0, 1, DefaultBudget + 1}}

\* One initial state of each part that has several.
KernelStays ==
  /\ bindings = [s \in Specialist |-> {}]
  /\ template = [k \in Skill |-> SelfContained]
  /\ ~headless /\ unusable = {}
FilesStay == message = [text |-> TRUE, files |-> {}]
StreamStays == provider = "openai" /\ mode = "chat"
RequestStays ==
  /\ request = [messages |-> <<>>, max |-> 0, stream |-> FALSE, tools |-> FALSE]
  /\ model = [provider |-> "openai", limit |-> 1]
  /\ params = Unsent
BudgetStays == window = MaxWindow /\ configured = [max |-> 0, result |-> 0] /\ reported /\ input = 1

ChannelsInit ==
  /\ part \in {"life", "web", "telegram", "files", "access", "stream", "cache", "request", "budget"}
  /\ SessionInit /\ WebInit /\ TelegramInit /\ AccessInit /\ CacheInit
  /\ LifeInit /\ (part = "life" \/ KernelStays)
  /\ AttachmentsInit /\ (part = "files" \/ FilesStay)
  /\ StreamInit /\ (part = "stream" \/ StreamStays)
  /\ IF part = "request" THEN RequestInit ELSE RequestStays
  /\ BudgetInit /\ (part = "budget" \/ BudgetStays)

ChannelsNext ==
  \/ /\ part = "life" /\ LifeNext
     /\ UNCHANGED <<part, sessionVars, webVars, telegramVars, attachmentVars, accessVars, llmVars>>
  \/ /\ part = "web" /\ WebNext
     /\ UNCHANGED <<part, telegramVars, attachmentVars, accessVars, lifeVars, llmVars>>
  \/ /\ part = "telegram" /\ TelegramNext
     /\ UNCHANGED <<part, webVars, attachmentVars, accessVars, lifeVars, llmVars>>
  \/ /\ part = "files" /\ AttachmentsNext
     /\ UNCHANGED <<part, sessionVars, webVars, telegramVars, accessVars, lifeVars, llmVars>>
  \/ /\ part = "access" /\ AccessNext
     /\ UNCHANGED <<part, sessionVars, webVars, telegramVars, attachmentVars, lifeVars, llmVars>>
  \/ /\ part = "stream" /\ StreamNext
     /\ UNCHANGED <<part, kernelVars, cacheVars, requestVars, budgetVars>>
  \/ /\ part = "cache" /\ CacheNext
     /\ UNCHANGED <<part, kernelVars, streamVars, requestVars, budgetVars>>
  \/ /\ part = "request" /\ RequestNext
     /\ UNCHANGED <<part, kernelVars, streamVars, cacheVars, budgetVars>>
  \/ /\ part = "budget" /\ BudgetNext
     /\ UNCHANGED <<part, kernelVars, streamVars, cacheVars, requestVars>>

ChannelsSpec == ChannelsInit /\ [][ChannelsNext]_channelVars
==============================================================================
