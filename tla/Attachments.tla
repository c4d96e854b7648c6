---------------------------- MODULE Attachments -----------------------------
(***************************************************************************)
(* The way of files through a message: from the Telegram message to the    *)
(* prompt of every agent that works on it (telegram/media.go, pkg/media,   *)
(* agents.buildUserMessage), and from the tools that produced files back   *)
(* to the chat (agents.processToolCalls, routeResponse, telegram.Send).    *)
(*                                                                         *)
(* A message is answered by the executive; a tool call of its turn may be  *)
(* a delegation, during which the sub-agent has a turn of its own, with    *)
(* the same attachments. A file is known by its kind or by the tool call   *)
(* that wrote it; what it contains by the type it is taken for.            *)
(***************************************************************************)
EXTENDS Naturals, SequencesExt

CONSTANTS
    Kinds,     \* the kinds of file of a message, in the order they are looked for
    MaxCalls   \* bound on the tool calls of a turn

VARIABLES
    message,   \* the Telegram message: [text, files]
    content,   \* what the handler makes of its words
    specs,     \* files still to be downloaded
    attached,  \* payload.Attachments
    onDisk,    \* files that can be read
    turn,      \* the turns of the two agents
    chat       \* the files sent to the chat, and whether they arrived

attachmentVars == <<message, content, specs, attached, onDisk, turn, chat>>

Worker == {"executive", "sub"}
Type == {"image", "pdf", "text", "octet-stream"}
Words == <<"words">>

NoTurn == [at |-> "idle", parts |-> <<>>, calls |-> 0, written |-> {},
           produced |-> <<>>, direct |-> FALSE]

AttachmentsInit ==
    /\ message \in [text : BOOLEAN, files : SUBSET Range(Kinds)]
    /\ content = <<>>
    /\ specs = <<>>
    /\ attached = <<>>
    /\ onDisk = {}
    /\ turn = [a \in Worker |-> NoTurn]
    /\ chat = <<>>

(* ------------------------------ the message ---------------------------- *)

\* Only three kinds of file leave a trace in the words.
extractContent ==
    LET mark == [photo |-> "image attached", voice |-> "voice message",
                 document |-> "document"]
        marks == SelectSeq(<<"photo", "voice", "document">>,
                           LAMBDA k : k \in message.files)
    IN  (IF message.text THEN <<"text">> ELSE <<>>)
            \o [i \in DOMAIN marks |-> mark[marks[i]]]

collectFileSpecs == SelectSeq(Kinds, LAMBDA k : k \in message.files)

handleMessageWithFiles ==
    /\ content = <<>>
    /\ content' = IF extractContent = <<>> THEN <<"empty message">> ELSE extractContent
    /\ specs' = collectFileSpecs
    /\ UNCHANGED <<message, attached, onDisk, turn, chat>>

\* From the bytes if they tell, else from the name.
detectRaw(bytes, name) == IF bytes # "octet-stream" THEN bytes ELSE name

\* A photo is an image; of anything else the bytes decide.
DetectMIMEType(k) ==
    IF k = "photo" THEN {"image"}
    ELSE {detectRaw(bytes, name) : bytes \in Type, name \in Type}

File(name, type) == [name |-> name, type |-> type]

\* The file is resolved, fetched and written, and any of it may fail: the file
\* is then skipped.
downloadAndSave ==
    /\ specs # <<>>
    /\ specs' = Tail(specs)
    /\ \/ \E type \in DetectMIMEType(Head(specs)) :
              LET f == File(<<"message", Head(specs)>>, type)
              IN  attached' = Append(attached, f) /\ onDisk' = onDisk \cup {f}
       \/ UNCHANGED <<attached, onDisk>>
    /\ UNCHANGED <<message, content, turn, chat>>

\* A file on disk may be removed by whoever works there.
Vanishes(f) ==
    /\ onDisk' = onDisk \ {f}
    /\ UNCHANGED <<message, content, specs, attached, turn, chat>>

(* ------------------------------- the turns ----------------------------- *)

IsImage(type) == type = "image"
IsDocument(type) == type \in {"pdf", "text"}

IsSupportedByLLM(type) == IsImage(type) \/ IsDocument(type)

\* What the model gets of a file: the file, or a note about it. A document that
\* is neither a PDF nor valid UTF-8 becomes a note in the provider.
PromptPart(f) ==
    IF ~IsSupportedByLLM(f.type) \/ f \notin onDisk
    THEN <<[of |-> f.name, as |-> "note"]>>
    ELSE CASE IsImage(f.type) -> <<[of |-> f.name, as |-> "image"]>>
           [] IsDocument(f.type) -> <<[of |-> f.name, as |-> "document"]>>
           [] OTHER -> <<>>

buildUserMessage == <<[of |-> Words, as |-> "text"]>>
                        \o FlattenSeq([i \in DOMAIN attached |-> PromptPart(attached[i])])

Begins(a, direct) ==
    [NoTurn EXCEPT !.at = "working", !.direct = direct,
                   !.parts = IF attached = <<>> THEN <<[of |-> Words, as |-> "text"]>>
                             ELSE buildUserMessage]

prepareExecution ==
    /\ content # <<>> /\ specs = <<>>
    /\ turn["executive"].at = "idle"
    /\ turn' = [turn EXCEPT !["executive"] = Begins("executive", TRUE)]
    /\ UNCHANGED <<message, content, specs, attached, onDisk, chat>>

Busy(a) == turn[a].at = "working" /\ turn[a].calls < MaxCalls

\* The executive waits for the delegation it has made.
Free(a) == a = "executive" => turn["sub"].at \notin {"working"}

\* Bug: only the files of the last round.
ProducedLast(a, f) == <<f>>

Produced(a, f) == Append(turn[a].produced, f)

\* A tool call, which may have written a file.
processToolCalls(a) ==
    /\ Busy(a) /\ Free(a)
    /\ LET f == File(<<a, turn[a].calls + 1>>, "octet-stream")
       IN  \/ /\ turn' = [turn EXCEPT ![a].calls = @ + 1, ![a].written = @ \cup {f},
                                      ![a].produced = Produced(a, f)]
              /\ onDisk' = onDisk \cup {f}
           \/ /\ turn' = [turn EXCEPT ![a].calls = @ + 1]
              /\ UNCHANGED onDisk
    /\ UNCHANGED <<message, content, specs, attached, chat>>

\* The sub-agent gets the attachments of the message, and may be asked to answer
\* the user itself.
requestDelegation(direct) ==
    /\ Busy("executive") /\ turn["sub"].at = "idle"
    /\ turn' = [turn EXCEPT !["executive"].calls = @ + 1,
                            !["sub"] = Begins("sub", direct)]
    /\ UNCHANGED <<message, content, specs, attached, onDisk, chat>>

Ends(a, how) == turn' = [turn EXCEPT ![a].at = how]

sendAttachments(a, lost) ==
    LET files == turn[a].produced
    IN  [i \in DOMAIN files |->
            [file |-> files[i], arrived |-> files[i] \in onDisk \ lost]]

\* An answer with words is sent with the files, each on its own, which may fail;
\* one without words is skipped with its files.
routeResponse(a) ==
    /\ turn[a].at = "working" /\ Free(a)
    /\ IF turn[a].direct
       THEN \/ /\ \E lost \in SUBSET Range(turn[a].produced) :
                      chat' = chat \o sendAttachments(a, lost)
               /\ Ends(a, "answered")
            \/ Ends(a, "wordless") /\ UNCHANGED chat
       ELSE Ends(a, "reported") /\ UNCHANGED chat
    /\ UNCHANGED <<message, content, specs, attached, onDisk>>

\* The limit of iterations or calls: the answer of the synthesis has no files.
synthesizeFromContext(a) ==
    /\ turn[a].at = "working" /\ Free(a)
    /\ turn[a].calls = MaxCalls
    /\ Ends(a, "synthesized")
    /\ UNCHANGED <<message, content, specs, attached, onDisk, chat>>

Fails(a) ==
    /\ turn[a].at = "working" /\ Free(a)
    /\ Ends(a, "failed")
    /\ UNCHANGED <<message, content, specs, attached, onDisk, chat>>

AttachmentsNext ==
    \/ handleMessageWithFiles \/ downloadAndSave \/ prepareExecution
    \/ \E f \in onDisk : Vanishes(f)
    \/ \E direct \in BOOLEAN : requestDelegation(direct)
    \/ \E a \in Worker : \/ processToolCalls(a) \/ routeResponse(a)
                        \/ synthesizeFromContext(a) \/ Fails(a)

AttachmentsSpec == AttachmentsInit /\ [][AttachmentsNext]_attachmentVars

(* ------------------------------ properties ----------------------------- *)

\* No file falls through on the way (media.go: "one bad file does not kill the
\* message"): whatever could not be downloaded, typed or read, a model is given
\* the words first and then a part or a note for every attachment, in order and
\* once; and the chat is sent what the tools wrote in the turns that answered it
\* with words of their own, each file once and no other.
FilesAreHandedOn ==
    /\ \A a \in Worker : turn[a].at # "idle" =>
           /\ turn[a].parts[1].of = Words
           /\ [i \in DOMAIN attached |-> attached[i].name]
                 = [i \in 1 .. Len(turn[a].parts) - 1 |-> turn[a].parts[i + 1].of]
    /\ {chat[i].file : i \in DOMAIN chat}
          = UNION {turn[a].written : a \in {b \in Worker : turn[b].at = "answered"}}
    /\ \A i, j \in DOMAIN chat : chat[i].file = chat[j].file => i = j
=============================================================================
