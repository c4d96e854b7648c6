--------------------------- MODULE SessionMemory ---------------------------
(***************************************************************************)
(* From messages to session episodes (pkg/memory/summarize.go,             *)
(* summarize_session.go, sqlite/episode.go).  A job runs every quarter of  *)
(* an hour: it takes the messages since the last episode's end that are    *)
(* half an hour old, groups them into sessions, and stores one episode for *)
(* each after a call of the language model.  The scheduler does not wait   *)
(* for a run before it starts the next.  Time is in quarters of an hour.   *)
(***************************************************************************)
EXTENDS Integers, FiniteSets

CONSTANTS
  SummaryRun,  \* runs of the job that may be under way at once
  LastQuarter, \* bound: when the clock stops
  MaxFaults    \* bound: runs that fail, and restarts

ASSUME SessionMemoryAssumption == LastQuarter \in Nat /\ MaxFaults \in Nat

sessionGap == 2

VARIABLES
  quarter,     \* the clock
  due,         \* whether the job is to be started
  said,        \* when something was said, by the user or to them
  episodes,    \* the messages in the episode with a given start, if there is one
  left,        \* the sessions that a run has to summarize still
  overlapped,  \* history: a run started before another had ended
  faults

sessionVars == <<quarter, due, said, episodes, left, overlapped, faults>>

Quarter == 0..LastQuarter
LastOf(times) == CHOOSE t \in times : \A u \in times : u <= t
EarliestOf(times) == CHOOSE t \in times : \A u \in times : t <= u

SessionMemoryTypeOK ==
  /\ quarter \in Quarter /\ due \in BOOLEAN /\ said \subseteq Quarter
  /\ episodes \in [Quarter -> SUBSET Quarter]
  /\ left \in [SummaryRun -> SUBSET SUBSET Quarter]
  /\ overlapped \in BOOLEAN /\ faults \in 0..MaxFaults

SessionMemoryInit ==
  /\ quarter = 0 /\ due = TRUE /\ said = {}
  /\ episodes = [t \in Quarter |-> {}]
  /\ left = [r \in SummaryRun |-> {}]
  /\ overlapped = FALSE /\ faults = 0

UnderWay == {r \in SummaryRun : left[r] # {}}

\* The end of the episode that ends last; 1970 without one.
LastSessionEpisodeEndedAt ==
  LET stored == UNION {episodes[t] : t \in Quarter} IN IF stored = {} THEN -1 ELSE LastOf(stored)

LastMessageBefore(cutoff) == {m \in said : m < cutoff /\ \A n \in said : n < cutoff => n <= m}

GetMessagesBetween(from, to) == {m \in said : from <= m /\ m < to}

\* A message that follows the one before it within the gap belongs to its session.
groupIntoSessions(messages) ==
  LET starts == {m \in messages : \A n \in messages : n < m => m - n >= sessionGap}
  IN {{m \in messages : s <= m /\ \A t \in starts : t <= s \/ m < t} : s \in starts}

Say ==
  /\ said' = said \union {quarter}
  /\ UNCHANGED <<quarter, due, episodes, left, overlapped, faults>>

QuarterPasses ==
  /\ quarter < LastQuarter
  /\ quarter' = quarter + 1 /\ due' = TRUE
  /\ UNCHANGED <<said, episodes, left, overlapped, faults>>

\* The window is read at once: from the last end on, up to half an hour ago.
detectUnprocessedWindow(r) ==
  LET from == LastSessionEpisodeEndedAt
      cutoff == quarter - sessionGap
  IN /\ due /\ left[r] = {}
     /\ due' = FALSE
     /\ IF \E m \in LastMessageBefore(cutoff) : m > from
          THEN /\ left' = [left EXCEPT ![r] = groupIntoSessions(GetMessagesBetween(from, cutoff))]
               /\ overlapped' = (overlapped \/ UnderWay # {})
          ELSE UNCHANGED <<left, overlapped>>
     /\ UNCHANGED <<quarter, said, episodes, faults>>

NextSession(r) == CHOOSE s \in left[r] : \A t \in left[r] : EarliestOf(s) <= EarliestOf(t)

\* The model's answer is stored under the session's start, over what an earlier
\* run stored there.
SummarizeSession(r) ==
  /\ left[r] # {}
  /\ episodes' = [episodes EXCEPT ![EarliestOf(NextSession(r))] = NextSession(r)]
  /\ left' = [left EXCEPT ![r] = @ \ {NextSession(r)}]
  /\ UNCHANGED <<quarter, due, said, overlapped, faults>>

\* Bug: the run goes on with the next session.
SkipSession(r) ==
  /\ left[r] # {} /\ faults < MaxFaults
  /\ left' = [left EXCEPT ![r] = @ \ {NextSession(r)}]
  /\ faults' = faults + 1
  /\ UNCHANGED <<quarter, due, said, episodes, overlapped>>

\* No answer, or it could not be stored: the run ends.
SummarizeFails(r) ==
  /\ left[r] # {} /\ faults < MaxFaults
  /\ left' = [left EXCEPT ![r] = {}]
  /\ faults' = faults + 1
  /\ UNCHANGED <<quarter, due, said, episodes, overlapped>>

StopMemory ==
  /\ UnderWay # {} /\ faults < MaxFaults
  /\ left' = [r \in SummaryRun |-> {}]
  /\ faults' = faults + 1
  /\ UNCHANGED <<quarter, due, said, episodes, overlapped>>

SessionMemoryNext ==
  \/ Say \/ QuarterPasses \/ StopMemory
  \/ \E r \in SummaryRun : detectUnprocessedWindow(r) \/ SummarizeSession(r) \/ SummarizeFails(r)

SessionMemorySpec == SessionMemoryInit /\ [][SessionMemoryNext]_sessionVars

\* The window starts at the last end, so what lies before is never looked at
\* again: it is all in an episode, though runs fail and the process stops
\* between two episodes.  Runs that overlap void this: a slow one may store its
\* older, shorter session over a longer one that was stored since.
NothingIsForgotten ==
  overlapped \/ \A m \in said : m <= LastSessionEpisodeEndedAt => \E t \in Quarter : m \in episodes[t]
=============================================================================
