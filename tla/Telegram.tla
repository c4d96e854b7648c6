------------------------------ MODULE Telegram ------------------------------
(***************************************************************************)
(* The Telegram channel (pkg/channels/telegram): the handlers of incoming  *)
(* messages, which the bot library runs concurrently, and Send, which the  *)
(* router calls for each answer.  All chats share one session; a chat has  *)
(* one place for a placeholder and one for its typing indicator.           *)
(*                                                                         *)
(* What a user sees of a chat is the list of the bot's messages; a message *)
(* is its position in it.  Any call of the bot API may fail.               *)
(***************************************************************************)
EXTENDS Sessions

CONSTANTS Handler,   \* one for each incoming message
          Chat,
          MaxSends   \* bound: answers and notifications in a chat

ASSUME TelegramAssumption == Handler \subseteq Requester /\ MaxSends \in Nat

VARIABLES
  handler,       \* the handlers: chat, where they are, whether they ask for a new session
  current,       \* c.currentSessionID, 0 for none
  placeholders,  \* c.placeholders: by chat, a message, 0 for none
  thinkingCtx,   \* c.thinkingCtx: by chat, the handler to cancel, or Nobody
  typing,        \* handlers whose typing indicator runs
  shown,         \* by chat, what each message shows: the number of a send, or Thinking
  sends,         \* by chat, calls of Send
  owed,          \* by chat, messages the agents have not answered yet
  overlapped,    \* history: two requests for a session were out at once
  disturbed      \* history: chats where messages overlapped, one was lost, or an edit failed

telegramVars == <<handler, current, placeholders, thinkingCtx, typing, shown, sends, owed,
                  overlapped, disturbed>>

Thinking == 0

Step == {"none", "typing", "placed", "resolving", "asked", "resolved", "done"}

TelegramTypeOK ==
  /\ handler \in [Handler -> [chat : Chat, at : Step, new : BOOLEAN]]
  /\ current \in Id
  /\ \A c \in Chat : placeholders[c] \in 0 .. Len(shown[c])
  /\ thinkingCtx \in [Chat -> Handler \cup {Nobody}]
  /\ typing \subseteq Handler
  /\ \A c \in Chat : shown[c] \in Seq(0 .. sends[c])
  /\ sends \in [Chat -> 0 .. MaxSends] /\ owed \in [Chat -> Nat]
  /\ overlapped \in BOOLEAN /\ disturbed \subseteq Chat

TelegramInit ==
  /\ handler \in [Handler -> [chat : Chat, at : {"none"}, new : {FALSE}]]
  /\ current = 0
  /\ placeholders = [c \in Chat |-> 0]
  /\ thinkingCtx = [c \in Chat |-> Nobody]
  /\ typing = {}
  /\ shown = [c \in Chat |-> <<>>]
  /\ sends = [c \in Chat |-> 0]
  /\ owed = [c \in Chat |-> 0]
  /\ overlapped = FALSE /\ disturbed = {}

ChatOf(h) == handler[h].chat
HandlersIn(c) == {h \in Handler : ChatOf(h) = c /\ handler[h].at \notin {"none", "done"}}
Underway(c) ==
  \E i \in DOMAIN bus :
    bus[i].type = "message" /\ bus[i].channel = "telegram" /\ ChatOf(bus[i].from) = c
Quiet(c) == HandlersIn(c) = {} /\ owed[c] = 0 /\ ~Underway(c)

Stands(h, here) == handler[h].at = here
Move(h, there) == handler' = [handler EXCEPT ![h].at = there]
Disturb(c, if) == disturbed' = IF if THEN disturbed \cup {c} ELSE disturbed
-----------------------------------------------------------------------------
\* A message: the typing indicator of its chat starts; the cancel function of an
\* earlier one is overwritten.  A sender not on the allow list is left unanswered.
sendThinkingIndicator(h) ==
  /\ Stands(h, "none")
  /\ Disturb(ChatOf(h), ~Quiet(ChatOf(h)))
  /\ Move(h, "typing")
  /\ thinkingCtx' = [thinkingCtx EXCEPT ![ChatOf(h)] = h]
  /\ typing' = typing \cup {h}
  /\ UNCHANGED <<sessionVars, current, placeholders, shown, sends, owed, overlapped>>

isAllowed(h) ==
  /\ Stands(h, "none")
  /\ Move(h, "done")
  /\ UNCHANGED <<sessionVars, current, placeholders, thinkingCtx, typing, shown, sends, owed, overlapped, disturbed>>

\* A placeholder that is there is overwritten.
createPlaceholder(h) ==
  /\ Stands(h, "typing")
  /\ Move(h, "placed")
  /\ LET c == ChatOf(h)
     IN \/ /\ shown' = [shown EXCEPT ![c] = Append(@, Thinking)]
           /\ placeholders' = [placeholders EXCEPT ![c] = Len(shown[c]) + 1]
        \/ UNCHANGED <<shown, placeholders>>
  /\ UNCHANGED <<sessionVars, current, thinkingCtx, typing, sends, owed, overlapped, disturbed>>

\* Whichever indicator the chat has is stopped.
stopThinkingIndicator(h) ==
  /\ Stands(h, "placed")
  /\ Move(h, "resolving")
  /\ typing' = typing \ {thinkingCtx[ChatOf(h)]}
  /\ thinkingCtx' = [thinkingCtx EXCEPT ![ChatOf(h)] = Nobody]
  /\ UNCHANGED <<sessionVars, current, placeholders, shown, sends, owed, overlapped, disturbed>>

Ask(h, type) ==
  /\ Publish(Event(type, "telegram", "executive", 0, h))
  /\ overlapped' = (overlapped \/ \E g \in Handler : Stands(g, "asked"))

\* The session is resolved once for all chats, by check and then act.
resolveSessionID(h) ==
  /\ Stands(h, "resolving")
  /\ \/ current # 0 /\ Move(h, "resolved") /\ UNCHANGED <<bus, overlapped>>
     \/ current = 0 /\ Move(h, "asked") /\ Ask(h, "ensure")
  /\ UNCHANGED <<conversations, replies, storeFailed>>
  /\ UNCHANGED <<current, placeholders, thinkingCtx, typing, shown, sends, owed, disturbed>>

\* /new-session
handleNewSession(h) ==
  /\ Stands(h, "none")
  /\ handler' = [handler EXCEPT ![h].at = "asked", ![h].new = TRUE]
  /\ Ask(h, "new")
  /\ UNCHANGED <<conversations, replies, storeFailed>>
  /\ UNCHANGED <<current, placeholders, thinkingCtx, typing, shown, sends, owed, disturbed>>

\* Bug: the channel stays in the session it had.
KeepsSession(h) ==
  /\ Stands(h, "asked")
  /\ replies[h] # NoReply
  /\ Move(h, IF handler[h].new \/ replies[h] = 0 THEN "done" ELSE "resolved")
  /\ current' = IF current = 0 THEN replies[h] ELSE current
  /\ Disturb(ChatOf(h), replies[h] = 0)
  /\ replies' = [replies EXCEPT ![h] = NoReply]
  /\ UNCHANGED <<conversations, bus, storeFailed>>
  /\ UNCHANGED <<placeholders, thinkingCtx, typing, shown, sends, owed, overlapped>>

\* The reply: an empty id ends the handler with an error, and a message is lost with
\* its placeholder still there.
EnterSession(h) ==
  /\ Stands(h, "asked")
  /\ replies[h] # NoReply
  /\ Move(h, IF handler[h].new \/ replies[h] = 0 THEN "done" ELSE "resolved")
  /\ current' = IF replies[h] = 0 THEN current ELSE replies[h]
  /\ Disturb(ChatOf(h), replies[h] = 0)
  /\ replies' = [replies EXCEPT ![h] = NoReply]
  /\ UNCHANGED <<conversations, bus, storeFailed>>
  /\ UNCHANGED <<placeholders, thinkingCtx, typing, shown, sends, owed, overlapped>>

\* The last of handleMessage.
FireMessage(h) ==
  /\ Stands(h, "resolved")
  /\ Move(h, "done")
  /\ Publish(Event("message", "telegram", "executive", current, h))
  /\ UNCHANGED <<conversations, replies, storeFailed>>
  /\ UNCHANGED <<current, placeholders, thinkingCtx, typing, shown, sends, owed, overlapped, disturbed>>
-----------------------------------------------------------------------------
\* The router gives the message to the executive, or drops it.
handleMessageReceived ==
  /\ Take("message")
  /\ LET c == ChatOf(Head(bus).from)
     IN \/ owed' = [owed EXCEPT ![c] = @ + 1] /\ UNCHANGED disturbed
        \/ Disturb(c, TRUE) /\ UNCHANGED owed
  /\ UNCHANGED <<conversations, replies, storeFailed>>
  /\ UNCHANGED <<handler, current, placeholders, thinkingCtx, typing, shown, sends, overlapped>>

\* What the chat shows after the first message of a send: an edited placeholder,
\* which is taken from the map first, or a new message; or the call fails.
FirstMessages(c, n) ==
  LET p == placeholders[c]
      edited == IF p = 0 THEN {} ELSE {[shown[c] EXCEPT ![p] = n]}
  IN edited \cup {Append(shown[c], n), shown[c]}

LoadAndDelete(c) == placeholders' = [placeholders EXCEPT ![c] = 0]

\* The edit failed, or nothing was sent: a placeholder keeps showing its old text.
Stuck(c, after) == placeholders[c] # 0 /\ after[placeholders[c]] = shown[c][placeholders[c]]

sendSingle(c, n) ==
  /\ LoadAndDelete(c)
  /\ \E after \in FirstMessages(c, n) :
       shown' = [shown EXCEPT ![c] = after] /\ Disturb(c, Stuck(c, after))

\* One more chunk, unless a chunk fails.
sendChunked(c, n) ==
  /\ LoadAndDelete(c)
  /\ \E after \in FirstMessages(c, n) :
       /\ \/ after # shown[c] /\ shown' = [shown EXCEPT ![c] = Append(after, n)]
          \/ shown' = [shown EXCEPT ![c] = after]
       /\ Disturb(c, Stuck(c, after))

\* The placeholder becomes a notice, and the file is a message of its own.
sendAsFile(c, n) ==
  /\ LoadAndDelete(c)
  /\ \E after \in {shown[c]} \cup {[shown[c] EXCEPT ![p] = n] : p \in {placeholders[c]} \ {0}} :
       /\ \/ shown' = [shown EXCEPT ![c] = Append(after, n)]
          \/ shown' = [shown EXCEPT ![c] = after]
       /\ Disturb(c, Stuck(c, after))

\* Send, by the length of the text; an empty one is skipped.
SendMessage(c) ==
  /\ sends[c] < MaxSends
  /\ sends' = [sends EXCEPT ![c] = @ + 1]
  /\ \/ sendSingle(c, sends[c] + 1) \/ sendChunked(c, sends[c] + 1) \/ sendAsFile(c, sends[c] + 1)
     \/ Disturb(c, TRUE) /\ UNCHANGED <<placeholders, shown>>
  /\ UNCHANGED <<sessionVars, handler, current, thinkingCtx, typing, overlapped>>

\* The answer to a message, or a notification.
Answer(c) == owed[c] > 0 /\ owed' = [owed EXCEPT ![c] = @ - 1] /\ SendMessage(c)
Notify(c) == UNCHANGED owed /\ SendMessage(c)

TelegramNext ==
  \/ \E h \in Handler :
       \/ sendThinkingIndicator(h) \/ isAllowed(h) \/ createPlaceholder(h) \/ stopThinkingIndicator(h)
       \/ resolveSessionID(h) \/ handleNewSession(h) \/ EnterSession(h) \/ FireMessage(h)
  \/ handleMessageReceived
  \/ \E c \in Chat : Answer(c) \/ Notify(c)
  \/ (RouteSession \/ EndByAPI) /\ UNCHANGED telegramVars

TelegramSpec == SessionInit /\ TelegramInit /\ [][TelegramNext]_<<sessionVars, telegramVars>>
-----------------------------------------------------------------------------
\* Unless requests for a session overlap, the channel is in its latest session,
\* whatever fails: a command for a new one takes effect for every chat.  When they
\* overlap, the reply to a later request may be read first.
SessionIsLatest ==
  (current # 0 /\ ~overlapped /\ \A h \in Handler : ~Stands(h, "asked"))
    => \A i \in current + 1 .. Len(conversations) : conversations[i].channel # "telegram"

\* A chat that is quiet shows no placeholder and no typing, provided its messages
\* did not overlap, none was lost, and no edit failed.
ThinkingEnds ==
  \A c \in Chat \ disturbed : Quiet(c) =>
    (\A i \in DOMAIN shown[c] : shown[c][i] # Thinking) /\ (\A h \in typing : ChatOf(h) # c)

\* What a chat relies on: it is in the session it asked for, and is not left
\* waiting in appearance.
ChatsAreServed == SessionIsLatest /\ ThinkingEnds
==============================================================================
