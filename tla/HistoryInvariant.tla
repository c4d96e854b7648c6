-------------------------- MODULE HistoryInvariant --------------------------
(***************************************************************************)
(* The inductive invariant of MessageHistory: what the turn lock and the   *)
(* order of the writes make of the rows, whatever else is written.         *)
(***************************************************************************)
EXTENDS MessageHistory

\* Only a response makes calls, and only a tool row has the id of one.
RowsAreProper ==
  \A i \in DOMAIN rows :
    /\ rows[i].calls # {} => rows[i].role = "assistant"
    /\ rows[i].role = "tool" <=> rows[i].id \in Call

\* An id that was given out is not given out again.
CallsAreUsed ==
  /\ lost \subseteq used
  /\ \A i \in DOMAIN rows : rows[i].calls \subseteq used
  /\ \A t \in Turn : turn[t].calls \subseteq used

OneResponsePerCall ==
  \A i, j \in DOMAIN rows : i # j => rows[i].calls \cap rows[j].calls = {}

OneTurnAtATime ==
  \A t, u \in Turn :
    turn[t].stage = "running" /\ turn[u].stage = "running"
      /\ turn[t].agent = turn[u].agent => t = u

OnlyRunningTurnsCall == \A t \in Turn : turn[t].calls # {} => turn[t].stage = "running"

\* The calls of a turn are of one response, which it has saved, if it was
\* saved, before anything else it wrote since.
TurnsFollowTheirResponse ==
  \A t \in Turn : \A c \in turn[t].calls :
    \/ c \in lost /\ \A i \in DOMAIN rows : c \notin rows[i].calls
    \/ \E i \in DOMAIN rows :
         /\ rows[i].agent = turn[t].agent
         /\ turn[t].calls \subseteq rows[i].calls
         /\ \A k \in DOMAIN rows : k > i /\ rows[k].agent = rows[i].agent =>
              /\ rows[k].calls = {}
              /\ rows[k].role = "tool" => rows[k].id \in rows[i].calls

\* A result is saved after its call, by the agent that made it.
ResultsFollowCalls ==
  \A j \in DOMAIN rows : rows[j].role = "tool" =>
    \/ rows[j].id \in lost /\ \A i \in DOMAIN rows : rows[j].id \notin rows[i].calls
    \/ \E i \in DOMAIN rows : /\ i < j
                              /\ rows[j].id \in rows[i].calls
                              /\ rows[j].agent = rows[i].agent

Inductive ==
  /\ TypeOK
  /\ RowsAreProper
  /\ CallsAreUsed
  /\ OneResponsePerCall
  /\ OneTurnAtATime
  /\ OnlyRunningTurnsCall
  /\ TurnsFollowTheirResponse
  /\ ResultsFollowCalls
  /\ ExchangesDoNotMix
==============================================================================
