----------------------------- MODULE Summaries ------------------------------
(***************************************************************************)
(* The summarize skill (pkg/skills/summarize): it gets a text from the     *)
(* caller, a page, a file or the captions of a video, and has it           *)
(* summarised by a language model, in parallel parts if it is long, whose  *)
(* partial summaries are merged in batches until one is left.              *)
(*                                                                         *)
(* A text is a sequence of positions, 0 standing for a line break; the     *)
(* summary of a text is the sequence of the positions it tells of, and the *)
(* length it was asked in. A call of the model answers so, or fails: it    *)
(* times out, is cancelled, or answers nothing.                            *)
(***************************************************************************)
EXTENDS Naturals, FiniteSets, SequencesExt

CONSTANTS
    Document,    \* the texts that can be asked about
    Length,      \* the lengths a caller may ask for, besides "medium"
    Status,      \* the HTTP errors a server may answer
    MaxChunk,    \* maxChunkChars
    MergeBatch,  \* mergeBatchSize
    MaxText,     \* maxTextChars
    MaxWebText   \* maxWebTextChars

ASSUME SummariesAssumption ==
    /\ Document \subseteq Seq(Nat)
    /\ MaxChunk \in Nat \ {0} /\ MergeBatch \in Nat \ {0}
    /\ MaxText \in Nat /\ MaxWebText \in Nat

VARIABLES
    stage,     \* where the call of the tool is
    asked,     \* its tool and the length it asks for
    text,      \* what is to be summarised
    page,      \* the error a page answered, before the archive was tried
    chunks,    \* the parts of the text
    partials,  \* their summaries, by index
    asking,    \* the parts whose call is under way
    partFailed, \* one of these calls failed
    next,      \* the merges of this pass
    answer

summaryVars == <<stage, asked, text, page, chunks, partials, asking, partFailed, next,
          answer>>

NoAnswer == [kind |-> "none"]
Failure == [kind |-> "error"]
Summary(chars, length) == [kind |-> "summary", chars |-> chars, length |-> length]

SummariesInit ==
    /\ stage = "idle"
    /\ asked = [tool |-> "none", length |-> "medium"]
    /\ text = <<>> /\ page = 0
    /\ chunks = <<>> /\ partials = <<>> /\ next = <<>>
    /\ asking = {} /\ partFailed = FALSE
    /\ answer = NoAnswer

(* ------------------------------ the texts ------------------------------ *)

truncate(t, max) == SubSeq(t, 1, IF Len(t) < max THEN Len(t) ELSE max)

Told(t) ==
    LET Upto[n \in 0 .. Len(t)] ==
            IF n = 0 THEN <<>>
            ELSE IF t[n] # 0 THEN Append(Upto[n - 1], t[n]) ELSE Upto[n - 1]
    IN  Upto[Len(t)]

TrimSpace(t) ==
    LET dark == {i \in DOMAIN t : t[i] # 0}
    IN  IF dark = {} THEN <<>> ELSE SubSeq(t, Min(dark), Max(dark))

\* Where a text that is too long is cut: after the last line that fits.
Cut(t, max) ==
    LET breaks == {i \in 2 .. max : t[i] = 0}
    IN  IF breaks = {} THEN max ELSE Max(breaks) - 1

\* One round: a part is cut off the rest, unless the rest is one.
CutOff(s, max) ==
    IF s.rest = <<>> THEN s
    ELSE IF Len(s.rest) <= max
    THEN [done |-> Append(s.done, s.rest), rest |-> <<>>]
    ELSE LET cut == Cut(s.rest, max)
         IN  [done |-> Append(s.done, TrimSpace(SubSeq(s.rest, 1, cut))),
              rest |-> TrimSpace(SubSeq(s.rest, cut + 1, Len(s.rest)))]

\* A round takes a place at least, so as many rounds as places are enough.
chunkText(t, max) ==
    LET Split[n \in 0 .. Len(t)] ==
            IF n = 0 THEN [done |-> <<>>, rest |-> t] ELSE CutOff(Split[n - 1], max)
    IN  Split[Len(t)].done

recoverableStatus(code) == code \in {403, 429, 451}

httpErrorType(code) ==
    CASE code = 403 -> "forbidden"
      [] code = 404 -> "not_found"
      [] code = 429 -> "rate_limited"
      [] code = 451 -> "legal_block"
      [] code >= 500 -> "server_error"
      [] OTHER -> "http_error"

Unreachable(type) == [kind |-> "unreachable", type |-> type]

(* --------------------------- getting the text -------------------------- *)

Rest == <<asked, page, chunks, partials, asking, partFailed, next>>

AnswerWith(a) ==
    /\ stage' = "done"
    /\ answer' = a
    /\ UNCHANGED <<text, Rest>>

\* A text with nothing in it is not summarised.
Got(t, nothing) ==
    IF Told(t) = <<>> THEN AnswerWith(nothing)
    ELSE /\ stage' = "summarize" /\ text' = t
         /\ UNCHANGED <<answer, Rest>>

ExecuteSummary(tool, length) ==
    /\ stage = "idle"
    /\ stage' = tool
    /\ asked' = [tool |-> tool, length |-> length]
    /\ UNCHANGED <<text, page, chunks, partials, asking, partFailed, next, answer>>

summarizeText ==
    /\ stage = "text"
    /\ \E t \in Document : Got(t, Failure)

readFile ==
    /\ stage = "file"
    /\ \/ \E t \in Document : Got(truncate(t, MaxText), Failure)
       \/ AnswerWith(Failure)

\* The page itself. An error the archive may know better than leads there.
fetchURLDirect ==
    /\ stage = "url"
    /\ \/ \E t \in Document :
              Got(truncate(TrimSpace(t), MaxText), Unreachable("no_content"))
       \/ AnswerWith(Unreachable("fetch_failed"))
       \/ \E code \in Status :
              IF recoverableStatus(code)
              THEN /\ stage' = "archive" /\ page' = code
                   /\ UNCHANGED <<asked, text, chunks, partials, asking, partFailed,
                                  next, answer>>
              ELSE AnswerWith(Unreachable(httpErrorType(code)))

\* A miss of the archive is not told: the error stays the one of the page.
fetchURLArchive ==
    /\ stage = "archive"
    /\ \/ \E t \in Document :
              Got(truncate(TrimSpace(t), MaxWebText), Unreachable("no_content"))
       \/ AnswerWith(Unreachable(httpErrorType(page)))

\* English captions by hand, then English ones, then the first.
selectTrack(tracks) ==
    LET Of(P(_)) == {i \in DOMAIN tracks : P(tracks[i])}
        manual == Of(LAMBDA t : t.lang = "en" /\ ~t.asr)
        english == Of(LAMBDA t : t.lang = "en")
    IN  IF manual # {} THEN Min(manual)
        ELSE IF english # {} THEN Min(english) ELSE 1

Track == [lang : {"en", "de"}, asr : BOOLEAN, captions : Document]

fetchYouTubeTranscript ==
    /\ stage = "youtube"
    /\ \/ \E first, second \in Track :
              Got(TrimSpace(LET tracks == <<first, second>>
                            IN  tracks[selectTrack(tracks)].captions),
                  [kind |-> "no transcript"])
       \/ AnswerWith([kind |-> "no transcript"])  \* no captions, or none parsed
       \/ AnswerWith(Failure)                     \* no such video, no network

(* ---------------------------- summarising it --------------------------- *)

summarize ==
    /\ stage = "summarize"
    /\ IF Len(text) <= MaxChunk
       THEN stage' = "single" /\ UNCHANGED <<chunks, asking>>
       ELSE /\ stage' = "chunks"
            /\ chunks' = chunkText(text, MaxChunk)
            /\ asking' = DOMAIN chunks'
    /\ UNCHANGED <<asked, text, page, partials, partFailed, next, answer>>

SingleAnswered ==
    /\ stage = "single"
    /\ AnswerWith(Summary(Told(text), asked.length))

Partial(i) == Summary(Told(chunks[i]), "medium")

\* Bug: a part's summary goes behind those that answered before it.
ChunkAppended(i) ==
    /\ stage = "chunks" /\ i \in asking
    /\ partials' = LET n == Cardinality(DOMAIN partials)
                   IN  [j \in 1 .. n + 1 |->
                            IF j <= n THEN partials[j] ELSE Partial(i)]
    /\ asking' = asking \ {i}
    /\ UNCHANGED <<stage, asked, text, page, chunks, partFailed, next, answer>>

\* A part's summary takes the part's place, whenever it comes.
ChunkAnswered(i) ==
    /\ stage = "chunks" /\ i \in asking
    /\ partials' = [j \in DOMAIN partials \cup {i} |->
                        IF j = i THEN Partial(i) ELSE partials[j]]
    /\ asking' = asking \ {i}
    /\ UNCHANGED <<stage, asked, text, page, chunks, partFailed, next, answer>>

\* The first failure cancels the other calls; one may still have answered.
ChunkFails(i) ==
    /\ stage = "chunks" /\ i \in asking
    /\ partFailed' = TRUE
    /\ asking' = asking \ {i}
    /\ UNCHANGED <<stage, asked, text, page, chunks, partials, next, answer>>

\* The group is waited for as a whole, failed or not.
ChunksDone ==
    /\ stage = "chunks" /\ asking = {}
    /\ IF partFailed
       THEN AnswerWith(Failure)
       ELSE /\ stage' = "merge"
            /\ UNCHANGED <<text, answer, Rest>>

\* The batch of partial summaries to be merged now.
BatchStart == Len(next) * MergeBatch + 1
BatchEnd == Min({BatchStart + MergeBatch - 1, Len(partials)})

\* Only the batch that is the whole pass gets the length that was asked for.
BatchLength ==
    IF BatchEnd = Len(partials) /\ next = <<>> THEN asked.length ELSE "medium"

\* What these parts tell of, one after the other.
Joined(parts) ==
    LET Upto[n \in 0 .. Len(parts)] ==
            IF n = 0 THEN <<>> ELSE Upto[n - 1] \o parts[n].chars
    IN  Upto[Len(parts)]

Merged == Summary(Joined(SubSeq(partials, BatchStart, BatchEnd)), BatchLength)

MergeAnswered ==
    /\ stage = "merge" /\ Len(partials) > 1
    /\ IF BatchEnd = Len(partials)
       THEN partials' = Append(next, Merged) /\ next' = <<>>
       ELSE next' = Append(next, Merged) /\ UNCHANGED partials
    /\ UNCHANGED <<stage, asked, text, page, chunks, asking, partFailed, answer>>

MergeDone ==
    /\ stage = "merge" /\ Len(partials) = 1
    /\ AnswerWith(partials[1])

CallFails ==
    /\ \/ stage = "single"
       \/ stage = "merge" /\ Len(partials) > 1
    /\ AnswerWith(Failure)

SummaryTool == {"text", "file", "url", "youtube"}

SummariesNext ==
    \/ \E tool \in SummaryTool, length \in Length : ExecuteSummary(tool, length)
    \/ summarizeText \/ readFile \/ fetchURLDirect \/ fetchURLArchive
    \/ fetchYouTubeTranscript
    \/ summarize \/ SingleAnswered
    \/ \E i \in asking : ChunkAnswered(i) \/ ChunkFails(i)
    \/ ChunksDone \/ MergeAnswered \/ MergeDone \/ CallFails

SummariesSpec == SummariesInit /\ [][SummariesNext]_summaryVars

(* ------------------------------ properties ----------------------------- *)

\* However the calls for the parts are answered, a summary that is returned
\* tells of the whole text, each place once and in its order; no call of the
\* model is still under way; no part is longer than a call takes; and a text
\* of several parts is told in the length that was asked for.
SummaryIsWhole ==
    answer.kind = "summary" =>
        /\ answer.chars = Told(text)
        /\ asking = {}
        /\ \A i \in DOMAIN chunks : Len(chunks[i]) <= MaxChunk
        /\ Len(chunks) # 1 => answer.length = asked.length
=============================================================================
