------------------------------- MODULE Recall -------------------------------
(***************************************************************************)
(* What the memory gives back (pkg/memory/recall.go, manager.go,           *)
(* sources_base.go).  An agent's recall asks every source at once and      *)
(* keeps the best of what they find.  The prompt of a turn holds the last  *)
(* day's sessions, from a text that is kept for an hour.                   *)
(***************************************************************************)
EXTENDS Integers, FiniteSets

CONSTANTS
  Memory,       \* rows: [source, about, score, embedded]
  MaxPerSource, \* how many rows a source is asked for
  MaxTotal,     \* how many rows a recall gives back
  Chat,         \* sessions whose prompts are built
  LastHour,     \* bound: when the clock stops
  KeptFor,      \* hours that a text is kept for
  RecentFor     \* hours that an episode is recent for

Source == {"episodes", "nexus", "praxis"}

ASSUME RecallAssumption ==
  /\ IsFiniteSet(Memory) /\ LastHour \in Nat
  /\ \A m \in Memory : m.source \in Source /\ m.score \in Nat /\ m.embedded \in BOOLEAN
  /\ MaxTotal \in Nat \ {0} /\ MaxPerSource \in Nat /\ MaxTotal <= MaxPerSource
  /\ KeptFor \in Nat \ {0} /\ RecentFor \in Nat /\ KeptFor < RecentFor

VARIABLES
  stock,      \* the rows there are
  vector,     \* whether the query has an embedding
  awaited,    \* sources that have not answered yet
  skipped,    \* sources that failed
  found,      \* what the others found
  recalled,   \* what the last recall gave back
  hour,       \* the clock
  summarized, \* the hours in which a session ended and got its episode
  recent,     \* the texts that are kept: when they were made, and the episodes in them
  shown       \* the text in the prompt that was built last

recallVars == <<stock, vector, awaited, skipped, found, recalled, hour, summarized, recent, shown>>

RecallHour == 0..LastHour
NoText == [made |-> -KeptFor, of |-> {}]
Text == [made : RecallHour \union {-KeptFor}, of : SUBSET RecallHour]

RecallTypeOK ==
  /\ stock \subseteq Memory /\ found \subseteq Memory /\ recalled \subseteq Memory
  /\ vector \in BOOLEAN /\ awaited \subseteq Source /\ skipped \subseteq Source
  /\ hour \in RecallHour /\ summarized \subseteq RecallHour
  /\ recent \in [Chat -> Text] /\ shown \in [text : Text, at : RecallHour]

RecallInit ==
  /\ stock \in SUBSET Memory /\ vector = FALSE
  /\ awaited = {} /\ skipped = {} /\ found = {} /\ recalled = {}
  /\ hour = 0 /\ summarized = {}
  /\ recent = [c \in Chat |-> NoText] /\ shown = [text |-> NoText, at |-> 0]

(******************************** The sources *******************************)

StoredRows(source) == {m \in stock : m.source = source}
AsMany(n, rows) == IF Cardinality(rows) < n THEN Cardinality(rows) ELSE n

\* n of the rows with the highest scores; which of equals is open.
Best(n, rows) ==
  {top \in SUBSET rows : Cardinality(top) = AsMany(n, rows) /\ \A t \in top, r \in rows \ top : r.score <= t.score}

\* The rows most like the query, of those with an embedding.  What a row is like
\* is not what it is ranked by afterwards: any of them may be the closest.
searchByVector(rows) ==
  LET embedded == {r \in rows : r.embedded}
  IN {top \in SUBSET embedded : Cardinality(top) = AsMany(MaxPerSource, embedded)}

searchEpisodesByFilter == Best(MaxPerSource, StoredRows("episodes"))
SearchEpisodes == IF vector THEN searchByVector(StoredRows("episodes")) ELSE searchEpisodesByFilter

\* Bug: one row less.
OnePatternLess == Best(MaxPerSource - 1, StoredRows("praxis"))
getAllPatternsCapped == Best(MaxPerSource, StoredRows("praxis"))
searchPatternsByVector == searchByVector(StoredRows("praxis"))
SearchPatterns == IF vector THEN searchPatternsByVector ELSE getAllPatternsCapped

\* All relations of the entities that match, until there are enough: those of the
\* last entity may be more.  An entity that cannot be read is left out.
SearchNexus ==
  {facts \in SUBSET StoredRows("nexus") :
     /\ \A f \in facts, g \in StoredRows("nexus") : g.about = f.about => g \in facts
     /\ \/ facts = {}
        \/ \E last \in facts : Cardinality({f \in facts : f.about # last.about}) < MaxPerSource}

Search(source) ==
  CASE source = "episodes" -> SearchEpisodes [] source = "praxis" -> SearchPatterns [] OTHER -> SearchNexus

(********************************** Recall **********************************)

AskSources ==
  /\ awaited = {} /\ awaited' = Source
  /\ vector' \in BOOLEAN
  /\ skipped' = {} /\ found' = {} /\ recalled' = {}
  /\ UNCHANGED <<stock, hour, summarized, recent, shown>>

\* Sources answer in any order; the recall ends with the last.
Answered(source, rows) ==
  /\ awaited' = awaited \ {source}
  /\ found' = found \union rows
  /\ recalled' \in IF awaited' = {} THEN Best(MaxTotal, found') ELSE {{}}
  /\ UNCHANGED <<stock, vector, hour, summarized, recent, shown>>

SourceAnswers == \E source \in awaited : \E rows \in Search(source) : Answered(source, rows) /\ UNCHANGED skipped
SourceFails == \E source \in awaited : Answered(source, {}) /\ skipped' = skipped \union {source}

(******************************** The prompt ********************************)

HourPasses ==
  /\ hour < LastHour /\ hour' = hour + 1
  /\ UNCHANGED <<stock, vector, awaited, skipped, found, recalled, summarized, recent, shown>>

SessionSummarized ==
  /\ summarized' = summarized \union {hour}
  /\ UNCHANGED <<stock, vector, awaited, skipped, found, recalled, hour, recent, shown>>

RecallRecent == {h \in summarized : hour - RecentFor <= h}

GetRecentMemoryForLLM(c) ==
  LET text == IF hour < recent[c].made + KeptFor THEN recent[c] ELSE [made |-> hour, of |-> RecallRecent]
  IN /\ recent' = [recent EXCEPT ![c] = text]
     /\ shown' = [text |-> text, at |-> hour]
     /\ UNCHANGED <<stock, vector, awaited, skipped, found, recalled, hour, summarized>>

PromptNext == HourPasses \/ SessionSummarized \/ \E c \in Chat : GetRecentMemoryForLLM(c)

RecallNext == AskSources \/ SourceAnswers \/ SourceFails

RecallSpec == RecallInit /\ [][RecallNext \/ PromptNext]_recallVars

(******************************** Properties ********************************)

\* A query without an embedding brings the best there is: no episode and no
\* pattern that is stored scores higher than what came back in its place, though
\* each source was cut to its own best before all were ranked together.  This
\* needs every source to be asked for as many rows as the recall gives back.
BestAreRecalled ==
  awaited = {} /\ ~vector /\ recalled # {} =>
    \A m \in stock \ recalled : m.source \notin skipped \union {"nexus"} => \A r \in recalled : m.score <= r.score

\* A prompt misses no session of the last day but for the time a text is kept,
\* and holds none that is older by more than that.
PromptsAreRecent ==
  /\ shown.text # NoText =>
       \A h \in summarized : shown.at - RecentFor <= h /\ h <= shown.at - KeptFor => h \in shown.text.of
  /\ \A h \in shown.text.of : shown.at - h < RecentFor + KeptFor

\* What an agent is reminded of: the best of what is stored, and the latest.
MemoriesAreRight == BestAreRecalled /\ PromptsAreRecent
=============================================================================
