--------------------------- MODULE HistoryProofs ---------------------------
(***************************************************************************)
(* Proofs about MessageHistory: what the LLM is shown is well formed,      *)
(* whatever is written, fails or is lost, and whoever writes in between.   *)
(***************************************************************************)
EXTENDS HistoryInvariant, TLAPS, FiniteSetTheorems

-----------------------------------------------------------------------------
(* The list a turn loads.                                                  *)

\* What the sanitizer leaves of any part of a table, it leaves answered.
LEMMA SanitizedIsAnswered ==
  ASSUME NEW r \in Seq(Row), NEW V \in SUBSET DOMAIN r,
         \A i \in DOMAIN r : r[i].calls # {} => r[i].role = "assistant",
         NEW i \in Sanitize(r, V), NEW c \in r[i].calls
  PROVE  \E j \in Sanitize(r, V) :
           /\ j > i
           /\ r[j].id = c
           /\ \A k \in Sanitize(r, V) : k \in (i + 1)..j => r[k].role = "tool"
<1>1. i \in V /\ r[i].role # "tool" /\ Complete(r, V, i)
  BY DEF Sanitize
<1>2. PICK j \in Following(r, V, i) : r[j].id = c
  BY <1>1 DEF Complete
<1>3. j \in V /\ j > i /\ \A k \in V : k \in (i + 1)..j => r[k].role = "tool"
  BY <1>2 DEF Following
<1>4. r[j].role = "tool"
  <2>1. DOMAIN r = 1..Len(r) /\ Len(r) \in Nat
    OBVIOUS
  <2>2. i \in Nat /\ j \in Nat
    BY <1>1, <1>3, <2>1
  <2> QED
    BY <1>3, <2>2
<1>5. j \in Sanitize(r, V)
  BY <1>1, <1>2, <1>3, <1>4 DEF Sanitize
<1> QED
  BY <1>2, <1>3, <1>5 DEF Sanitize

\* The window has no holes: what is visible after a row in it is in it.
LEMMA WindowIsUpwardClosed ==
  ASSUME NEW r \in Seq(Row), NEW V \in SUBSET DOMAIN r,
         NEW i \in Recent(r, V), NEW k \in V, i < k
  PROVE  k \in Recent(r, V)
<1> DEFINE After(n) == {j \in V : j > n /\ r[j].role = "user"}
<1>1. DOMAIN r = 1..Len(r) /\ Len(r) \in Nat
  OBVIOUS
<1>2. IsFiniteSet(V)
  <2>1. 1 \in Int /\ Len(r) \in Int
    BY <1>1
  <2>2. IsFiniteSet(1..Len(r))
    BY <2>1, FS_Interval
  <2>3. V \subseteq 1..Len(r)
    BY <1>1
  <2> QED
    BY <2>2, <2>3, FS_Subset
<1>3. IsFiniteSet(After(i))
  BY <1>2, FS_Subset
<1>4. i \in Nat /\ k \in Nat
  BY <1>1 DEF Recent
<1>5. After(k) \subseteq After(i)
  <2>1. ASSUME NEW j \in After(k) PROVE j \in After(i)
    <3>1. j \in Nat
      BY <1>1
    <3> QED
      BY <1>4, <3>1
  <2> QED
    BY <2>1
<1>6. Cardinality(After(k)) <= Cardinality(After(i))
  BY <1>3, <1>5, FS_Subset
<1>7. Cardinality(After(k)) \in Nat /\ Cardinality(After(i)) \in Nat
  BY <1>3, <1>5, FS_Subset, FS_CardinalityType
<1>8. Cardinality(After(i)) < HistoryTurns
  BY DEF Recent
<1>9. Cardinality(After(k)) < HistoryTurns
  BY <1>6, <1>7, <1>8, HistoryAssumption
<1> QED
  BY <1>9 DEF Recent

LEMMA HistoryIsPart ==
  ASSUME NEW r, NEW a
  PROVE  /\ History(r, a) \subseteq Recent(r, Visible(r, a))
         /\ Recent(r, Visible(r, a)) \subseteq Visible(r, a)
         /\ Visible(r, a) \subseteq DOMAIN r
BY DEF History, Sanitize, Recent, Visible

LEMMA Answered == TypeOK /\ RowsAreProper => CallsAreAnswered
<1> SUFFICES ASSUME TypeOK, RowsAreProper, NEW a \in Agent,
                    NEW i \in History(rows, a), NEW c \in rows[i].calls
             PROVE  \E j \in History(rows, a) :
                      /\ j > i
                      /\ rows[j].id = c
                      /\ \A k \in History(rows, a) :
                           k \in (i + 1)..j => rows[k].role = "tool"
  BY DEF CallsAreAnswered
<1> DEFINE V == Recent(rows, Visible(rows, a))
<1>1. V \in SUBSET DOMAIN rows
  BY HistoryIsPart
<1>2. rows \in Seq(Row)
  BY DEF TypeOK
<1>3. \A n \in DOMAIN rows : rows[n].calls # {} => rows[n].role = "assistant"
  BY DEF RowsAreProper
<1>4. History(rows, a) = Sanitize(rows, V)
  BY DEF History
<1> HIDE DEF V
<1> QED
  BY <1>1, <1>2, <1>3, <1>4, SanitizedIsAnswered

\* A result that is shown has its call: the one whose exchange it stayed with.
LEMMA ResultsBelong == Inductive => ResultsHaveCalls
<1> SUFFICES ASSUME Inductive, NEW a \in Agent, NEW j \in History(rows, a),
                    rows[j].role = "tool", rows[j].id \notin lost
             PROVE  \E i \in History(rows, a) :
                      /\ i < j
                      /\ rows[j].id \in rows[i].calls
                      /\ \A k \in History(rows, a) :
                           k \in (i + 1)..j => rows[k].role = "tool"
  BY DEF ResultsHaveCalls
<1> DEFINE U == Visible(rows, a)
           V == Recent(rows, U)
<1>1. /\ rows \in Seq(Row)
      /\ RowsAreProper /\ ResultsFollowCalls /\ ExchangesDoNotMix
  BY DEF Inductive, TypeOK
<1>2. DOMAIN rows = 1..Len(rows) /\ Len(rows) \in Nat
  BY <1>1
<1>3. V \subseteq U /\ U \subseteq DOMAIN rows
  BY HistoryIsPart
<1>4. j \in V
  BY HistoryIsPart
<1>5. PICK h \in V : /\ j \in Following(rows, V, h)
                     /\ rows[h].calls # {}
                     /\ Complete(rows, V, h)
  BY DEF History, Sanitize
<1>6. PICK c \in rows[h].calls : TRUE
  BY <1>5
<1>7. PICK l \in Following(rows, V, h) : rows[l].id = c
  BY <1>5, <1>6 DEF Complete
<1>8. l \in V /\ h < l /\ \A k \in V : k \in (h + 1)..l => rows[k].role = "tool"
  BY <1>7 DEF Following
<1>9. j > h /\ \A k \in V : k \in (h + 1)..j => rows[k].role = "tool"
  BY <1>5 DEF Following
<1>10. h \in Nat /\ j \in Nat /\ l \in Nat
  BY <1>2, <1>3, <1>4, <1>8
<1>11. rows[l].role = "tool" /\ rows[j].agent = a /\ rows[l].agent = a
  <2>1. rows[l].role = "tool"
    BY <1>8, <1>10
  <2> QED
    BY <1>3, <1>4, <1>8, <2>1 DEF Visible
<1>12. rows[h].agent = a
  BY <1>1, <1>3, <1>6, <1>7, <1>8, <1>11 DEF ExchangesDoNotMix
<1>13. PICK g \in DOMAIN rows : /\ g < j
                                /\ rows[j].id \in rows[g].calls
                                /\ rows[j].agent = rows[g].agent
  BY <1>1, <1>3, <1>4 DEF ResultsFollowCalls
<1>14. g \in Nat /\ g \in U
  BY <1>2, <1>11, <1>13 DEF Visible
<1>15. rows[g].role # "tool"
  BY <1>1, <1>13 DEF RowsAreProper
<1>16. ~(h < g)
  <2> SUFFICES ASSUME h < g PROVE FALSE
    OBVIOUS
  <2>1. g \in V
    BY <1>1, <1>3, <1>14, WindowIsUpwardClosed
  <2>2. g \in (h + 1)..j
    BY <1>10, <1>13, <1>14
  <2> QED
    BY <1>9, <1>15, <2>1, <2>2
<1>17. ~(g < h)
  <2> SUFFICES ASSUME g < h PROVE FALSE
    OBVIOUS
  <2>1. h \in (g + 1)..j
    BY <1>9, <1>10, <1>14
  <2> QED
    BY <1>1, <1>3, <1>4, <1>5, <1>11, <1>12, <1>13, <2>1 DEF ExchangesDoNotMix
<1>18. g = h
  BY <1>10, <1>14, <1>16, <1>17
<1>19. h \in History(rows, a)
  BY <1>5, <1>13, <1>15, <1>18 DEF History, Sanitize
<1>20. \A k \in History(rows, a) : k \in V
  BY HistoryIsPart
<1> QED
  BY <1>9, <1>13, <1>18, <1>19, <1>20
-----------------------------------------------------------------------------
(* The invariant.                                                          *)

LEMMA AppendRow ==
  ASSUME NEW r \in Seq(Row), NEW x \in Row, NEW s, s = Append(r, x)
  PROVE  /\ DOMAIN r = 1..Len(r) /\ Len(r) \in Nat
         /\ DOMAIN s = DOMAIN r \cup {Len(r) + 1}
         /\ s[Len(r) + 1] = x
         /\ \A i \in DOMAIN r : s[i] = r[i] /\ i < Len(r) + 1
<1>1. DOMAIN r = 1..Len(r) /\ Len(r) \in Nat
  OBVIOUS
<1>2. Len(s) = Len(r) + 1 /\ s \in Seq(Row)
  OBVIOUS
<1>3. DOMAIN s = 1..(Len(r) + 1)
  BY <1>2
<1>4. DOMAIN s = DOMAIN r \cup {Len(r) + 1}
  BY <1>1, <1>3
<1>5. s[Len(r) + 1] = x
  OBVIOUS
<1>6. \A i \in DOMAIN r : s[i] = r[i] /\ i < Len(r) + 1
  BY <1>1
<1> QED
  BY <1>1, <1>4, <1>5, <1>6

LEMMA TypeNext == TypeOK /\ [Next]_vars => TypeOK'
<1> SUFFICES ASSUME TypeOK, [Next]_vars PROVE TypeOK'
  OBVIOUS
<1> USE DEF TypeOK
<1>1. ASSUME NEW role \in {"user", "assistant", "notification", "tool"},
             NEW a \in Agent, NEW C \in SUBSET Call, NEW id \in Call \cup {NoCall},
             NEW saved \in BOOLEAN, SaveIf(saved, role, a, C, id)
      PROVE  rows' \in Seq(Row)
  <2>1. CASE saved
    <3> DEFINE x == [role |-> role, agent |-> a, calls |-> C, id |-> id]
    <3>1. x \in Row
      BY DEF Row
    <3>2. rows' = Append(rows, x)
      BY <1>1, <2>1 DEF SaveIf, Save
    <3>3. rows \in Seq(Row)
      OBVIOUS
    <3> HIDE DEF x
    <3> QED
      BY <3>1, <3>2, <3>3
  <2>2. CASE ~saved
    BY <1>1, <2>2 DEF SaveIf
  <2> QED
    BY <2>1, <2>2
<1>2. ASSUME NEW t \in Turn, NEW a \in Agent, Enqueue(t, a)
      PROVE  turn' \in [Turn -> Request]
  BY <1>2 DEF Enqueue, NoRequest, Request
<1>3. NoRequest \in Request
  BY HistoryAssumption DEF NoRequest, Request
<1>4. \A t \in Turn : turn[t].agent \in Agent /\ turn[t].calls \in SUBSET Call
  BY DEF Request
<1>5. ASSUME NEW t \in Turn, NEW a \in Agent, NEW saved \in BOOLEAN,
             UserMessage(t, a, saved)
      PROVE  TypeOK'
  BY <1>1, <1>2, <1>5 DEF UserMessage
<1>6. ASSUME NEW a \in Agent, DropMessage(a) PROVE TypeOK'
  BY <1>6 DEF DropMessage, Save, Row
<1>6a. CASE Notify
  BY <1>6a, HistoryAssumption DEF Notify, Save, Row
<1>7. ASSUME NEW t \in Turn, NEW a \in Agent, OtherRequest(t, a)
      PROVE  TypeOK'
  BY <1>2, <1>7 DEF OtherRequest
<1>8. ASSUME NEW t \in Turn, PrepareExecution(t) PROVE TypeOK'
  BY <1>8 DEF PrepareExecution, Request
<1>9. ASSUME NEW t \in Turn, NEW saved \in BOOLEAN, CallTools(t, saved)
      PROVE  TypeOK'
  <2>1. PICK C \in SUBSET (Call \ used) :
          /\ SaveIf(saved, "assistant", turn[t].agent, C, NoCall)
          /\ turn' = [turn EXCEPT ![t].calls = C]
          /\ used' = used \cup C
          /\ lost' = IF saved THEN lost ELSE lost \cup C
    BY <1>9 DEF CallTools
  <2>2. rows' \in Seq(Row)
    BY <1>1, <1>4, <2>1
  <2>3. turn' \in [Turn -> Request]
    BY <2>1 DEF Request
  <2> QED
    BY <2>1, <2>2, <2>3
<1>10. ASSUME NEW t \in Turn, NEW c \in Call, NEW saved \in BOOLEAN,
              ToolResult(t, c, saved)
       PROVE  TypeOK'
  <2>1. rows' \in Seq(Row)
    BY <1>1, <1>4, <1>10 DEF ToolResult
  <2>2. turn' \in [Turn -> Request]
    BY <1>10 DEF ToolResult, Request
  <2> QED
    BY <1>10, <2>1, <2>2 DEF ToolResult
<1>11. ASSUME NEW t \in Turn, Respond(t) PROVE TypeOK'
  <2>1. CASE turn' = [turn EXCEPT ![t].stage = "answering"]
    BY <1>11, <2>1 DEF Respond, Request
  <2>2. CASE turn' = [turn EXCEPT ![t] = NoRequest]
    BY <1>3, <1>11, <2>2 DEF Respond
  <2> QED
    BY <1>11, <2>1, <2>2 DEF Respond
<1>12. ASSUME NEW t \in Turn, Fail(t) PROVE TypeOK'
  BY <1>12 DEF Fail, Request
<1>13. ASSUME NEW t \in Turn, NEW saved \in BOOLEAN, SaveAnswer(t, saved)
       PROVE  TypeOK'
  <2>1. rows' \in Seq(Row)
    BY <1>1, <1>4, <1>13 DEF SaveAnswer
  <2> QED
    BY <1>3, <1>13, <2>1 DEF SaveAnswer
<1>14. CASE Restart
  BY <1>3, <1>14 DEF Restart
<1>15. CASE UNCHANGED vars
  BY <1>15 DEF vars
<1>16. CASE Reliable
  BY <1>5, <1>6, <1>7, <1>8, <1>9, <1>10, <1>11, <1>13, <1>16, <1>6a DEF Reliable
<1>17. CASE Fault
  BY <1>5, <1>9, <1>10, <1>12, <1>13, <1>14, <1>17 DEF Fault
<1> QED
  BY <1>15, <1>16, <1>17 DEF Next

\* The state's types are what the program's writes leave them.
THEOREM TypeCorrect == Spec => []TypeOK
<1>1. Init => TypeOK
  BY HistoryAssumption DEF Init, TypeOK, NoRequest, Request
<1> QED
  BY <1>1, TypeNext, PTL DEF Spec

\* A step that makes no call and saves no result keeps the invariant.
LEMMA PlainStep ==
  ASSUME Inductive, TypeOK', OneTurnAtATime', OnlyRunningTurnsCall',
         UNCHANGED <<used, lost>>,
         \A t \in Turn : /\ turn'[t].calls \subseteq turn[t].calls
                         /\ turn'[t].calls # {} => turn'[t].agent = turn[t].agent,
         \/ UNCHANGED rows
         \/ \E x \in Row : /\ x.role # "tool" /\ x.calls = {} /\ x.id = NoCall
                           /\ rows' = Append(rows, x)
  PROVE  Inductive'
<1>1. DOMAIN rows = 1..Len(rows) /\ Len(rows) \in Nat
  BY DEF Inductive, TypeOK
<1>2. /\ DOMAIN rows \subseteq DOMAIN rows'
      /\ \A i \in DOMAIN rows : rows'[i] = rows[i]
      /\ \A i \in DOMAIN rows' :
           i \notin DOMAIN rows =>
             /\ rows'[i].role # "tool" /\ rows'[i].calls = {} /\ rows'[i].id = NoCall
             /\ \A j \in DOMAIN rows : j < i
      /\ DOMAIN rows' \subseteq Nat
  <2>1. CASE UNCHANGED rows
    BY <1>1, <2>1
  <2>2. CASE \E x \in Row : /\ x.role # "tool" /\ x.calls = {} /\ x.id = NoCall
                            /\ rows' = Append(rows, x)
    <3>1. PICK x \in Row : /\ x.role # "tool" /\ x.calls = {} /\ x.id = NoCall
                           /\ rows' = Append(rows, x)
      BY <2>2
    <3>2. rows \in Seq(Row)
      BY DEF Inductive, TypeOK
    <3>3. /\ DOMAIN rows' = DOMAIN rows \cup {Len(rows) + 1}
          /\ rows'[Len(rows) + 1] = x
          /\ \A i \in DOMAIN rows : rows'[i] = rows[i] /\ i < Len(rows) + 1
      BY <3>1, <3>2, AppendRow
    <3>4. x.role # "tool" /\ x.calls = {} /\ x.id = NoCall
      BY <3>1
    <3>5. DOMAIN rows' \subseteq Nat
      BY <1>1, <3>3
    <3>6. \A i \in DOMAIN rows' : i \notin DOMAIN rows => i = Len(rows) + 1
      BY <3>3
    <3> QED
      BY <3>3, <3>4, <3>5, <3>6
  <2> QED
    BY <2>1, <2>2
<1>3. RowsAreProper'
  BY <1>2, HistoryAssumption DEF Inductive, RowsAreProper
<1>4. CallsAreUsed'
  BY <1>2 DEF Inductive, CallsAreUsed
<1>5. OneResponsePerCall'
  BY <1>2 DEF Inductive, OneResponsePerCall
<1>6. TurnsFollowTheirResponse'
  <2> SUFFICES ASSUME NEW t \in Turn, NEW c \in turn'[t].calls
               PROVE  \/ c \in lost' /\ \A i \in DOMAIN rows' : c \notin rows'[i].calls
                      \/ \E i \in DOMAIN rows' :
                           /\ rows'[i].agent = turn'[t].agent
                           /\ turn'[t].calls \subseteq rows'[i].calls
                           /\ \A k \in DOMAIN rows' :
                                k > i /\ rows'[k].agent = rows'[i].agent =>
                                  /\ rows'[k].calls = {}
                                  /\ rows'[k].role = "tool" => rows'[k].id \in rows'[i].calls
    BY DEF TurnsFollowTheirResponse
  <2>1. c \in turn[t].calls /\ turn'[t].agent = turn[t].agent
    OBVIOUS
  <2>2. CASE c \in lost /\ \A i \in DOMAIN rows : c \notin rows[i].calls
    BY <1>2, <2>2
  <2>3. CASE \E i \in DOMAIN rows :
               /\ rows[i].agent = turn[t].agent
               /\ turn[t].calls \subseteq rows[i].calls
               /\ \A k \in DOMAIN rows : k > i /\ rows[k].agent = rows[i].agent =>
                    /\ rows[k].calls = {}
                    /\ rows[k].role = "tool" => rows[k].id \in rows[i].calls
    BY <1>2, <2>1, <2>3
  <2> QED
    BY <2>1, <2>2, <2>3 DEF Inductive, TurnsFollowTheirResponse
<1>7. ResultsFollowCalls'
  BY <1>2 DEF Inductive, ResultsFollowCalls
<1>8. ExchangesDoNotMix'
  <2> SUFFICES ASSUME NEW i \in DOMAIN rows', NEW j \in DOMAIN rows',
                      i < j, rows'[j].role = "tool", rows'[j].id \in rows'[i].calls
               PROVE  /\ rows'[j].agent = rows'[i].agent
                      /\ \A k \in (i + 1)..j : rows'[k].agent = rows'[i].agent =>
                           /\ rows'[k].calls = {}
                           /\ rows'[k].role = "tool" => rows'[k].id \in rows'[i].calls
    BY DEF ExchangesDoNotMix
  <2>1. i \in DOMAIN rows /\ j \in DOMAIN rows
    BY <1>2
  <2>2. \A k \in (i + 1)..j : k \in DOMAIN rows
    BY <1>1, <2>1
  <2> QED
    BY <1>2, <2>1, <2>2 DEF Inductive, ExchangesDoNotMix
<1> QED
  BY <1>3, <1>4, <1>5, <1>6, <1>7, <1>8 DEF Inductive

\* A turn that runs keeps every other turn of its agent from running.
LEMMA RunningTurn ==
  ASSUME Inductive, NEW t \in Turn, turn[t].stage = "running",
         TypeOK', NEW C \in SUBSET Call, turn' = [turn EXCEPT ![t].calls = C]
  PROVE  /\ OneTurnAtATime' /\ OnlyRunningTurnsCall'
         /\ turn'[t].calls = C /\ turn'[t].agent = turn[t].agent
         /\ turn[t].agent \in Agent
         /\ \A u \in Turn : u # t =>
              /\ turn'[u] = turn[u]
              /\ turn[u].calls # {} => turn[u].agent # turn[t].agent
<1>1. turn \in [Turn -> Request]
  BY DEF Inductive, TypeOK
<1>2. /\ turn'[t].calls = C /\ turn'[t].agent = turn[t].agent
      /\ turn'[t].stage = turn[t].stage
      /\ turn[t].agent \in Agent
  BY <1>1 DEF Request
<1>3. \A u \in Turn : u # t => turn'[u] = turn[u]
  BY <1>1
<1>4. \A u \in Turn : u # t => (turn[u].calls # {} => turn[u].agent # turn[t].agent)
  BY DEF Inductive, OneTurnAtATime, OnlyRunningTurnsCall
<1>5. \A u \in Turn : turn'[u].stage = turn[u].stage /\ turn'[u].agent = turn[u].agent
  BY <1>2, <1>3
<1>6. OneTurnAtATime'
  BY <1>5 DEF Inductive, OneTurnAtATime
<1>7. OnlyRunningTurnsCall'
  BY <1>2, <1>3 DEF Inductive, OnlyRunningTurnsCall
<1> QED
  BY <1>2, <1>3, <1>4, <1>6, <1>7

LEMMA LostCallStep ==
  ASSUME Inductive, TypeOK', NEW t \in Turn, CallTools(t, FALSE)
  PROVE  Inductive'
<1>1. PICK C \in SUBSET (Call \ used) :
        /\ turn' = [turn EXCEPT ![t].calls = C]
        /\ used' = used \cup C /\ lost' = lost \cup C /\ rows' = rows
  BY DEF CallTools, SaveIf
<1>2. turn[t].stage = "running" /\ C \in SUBSET Call
  BY DEF CallTools
<1>3. /\ OneTurnAtATime' /\ OnlyRunningTurnsCall'
      /\ turn'[t].calls = C /\ turn'[t].agent = turn[t].agent
      /\ \A u \in Turn : u # t => turn'[u] = turn[u]
  BY <1>1, <1>2, RunningTurn
<1>4. \A i \in DOMAIN rows : rows[i].calls \cap C = {}
  BY <1>1 DEF Inductive, CallsAreUsed
<1>5. RowsAreProper' /\ OneResponsePerCall' /\ ExchangesDoNotMix'
  BY <1>1 DEF Inductive, RowsAreProper, OneResponsePerCall, ExchangesDoNotMix
<1>6. CallsAreUsed'
  BY <1>1, <1>3 DEF Inductive, CallsAreUsed
<1>7. TurnsFollowTheirResponse'
  <2> SUFFICES ASSUME NEW u \in Turn, NEW c \in turn'[u].calls
               PROVE  \/ c \in lost' /\ \A i \in DOMAIN rows : c \notin rows[i].calls
                      \/ \E i \in DOMAIN rows :
                           /\ rows[i].agent = turn'[u].agent
                           /\ turn'[u].calls \subseteq rows[i].calls
                           /\ \A k \in DOMAIN rows :
                                k > i /\ rows[k].agent = rows[i].agent =>
                                  /\ rows[k].calls = {}
                                  /\ rows[k].role = "tool" => rows[k].id \in rows[i].calls
    BY <1>1 DEF TurnsFollowTheirResponse
  <2>1. CASE u = t
    BY <1>1, <1>3, <1>4, <2>1
  <2>2. CASE u # t
    BY <1>1, <1>3, <2>2 DEF Inductive, TurnsFollowTheirResponse
  <2> QED
    BY <2>1, <2>2
<1>8. ResultsFollowCalls'
  BY <1>1 DEF Inductive, ResultsFollowCalls
<1> QED
  BY <1>3, <1>5, <1>6, <1>7, <1>8 DEF Inductive

LEMMA CallStep ==
  ASSUME Inductive, TypeOK', NEW t \in Turn, CallTools(t, TRUE)
  PROVE  Inductive'
<1> DEFINE n == Len(rows) + 1
           a == turn[t].agent
<1>1. PICK C \in SUBSET (Call \ used) :
        /\ turn' = [turn EXCEPT ![t].calls = C]
        /\ used' = used \cup C /\ lost' = lost
        /\ rows' = Append(rows, [role |-> "assistant", agent |-> a,
                                 calls |-> C, id |-> NoCall])
  BY DEF CallTools, SaveIf, Save
<1>2. turn[t].stage = "running" /\ C \in SUBSET Call
  BY DEF CallTools
<1>3. /\ OneTurnAtATime' /\ OnlyRunningTurnsCall'
      /\ turn'[t].calls = C /\ turn'[t].agent = a
      /\ a \in Agent
      /\ \A u \in Turn : u # t => /\ turn'[u] = turn[u]
                                  /\ turn[u].calls # {} => turn[u].agent # a
  BY <1>1, <1>2, RunningTurn
<1>4. [role |-> "assistant", agent |-> a, calls |-> C, id |-> NoCall] \in Row
  BY <1>2, <1>3 DEF Row
<1>5. rows \in Seq(Row)
  BY DEF Inductive, TypeOK
<1>6. /\ DOMAIN rows = 1..Len(rows) /\ Len(rows) \in Nat
      /\ DOMAIN rows' = DOMAIN rows \cup {n}
      /\ rows'[n] = [role |-> "assistant", agent |-> a, calls |-> C, id |-> NoCall]
      /\ \A i \in DOMAIN rows : rows'[i] = rows[i] /\ i < n
  BY <1>1, <1>4, <1>5, AppendRow
<1>7. /\ rows'[n].role = "assistant" /\ rows'[n].agent = a
      /\ rows'[n].calls = C /\ rows'[n].id = NoCall
  BY <1>6
<1>8. \A i \in DOMAIN rows : rows[i].calls \cap C = {}
  BY <1>1 DEF Inductive, CallsAreUsed
<1> HIDE DEF n, a
<1>9. RowsAreProper'
  BY <1>6, <1>7, HistoryAssumption DEF Inductive, RowsAreProper
<1>10. CallsAreUsed'
  BY <1>1, <1>3, <1>6, <1>7 DEF Inductive, CallsAreUsed
<1>11. OneResponsePerCall'
  BY <1>6, <1>7, <1>8 DEF Inductive, OneResponsePerCall
<1>12. TurnsFollowTheirResponse'
  <2> SUFFICES ASSUME NEW u \in Turn, NEW c \in turn'[u].calls
               PROVE  \/ c \in lost' /\ \A i \in DOMAIN rows' : c \notin rows'[i].calls
                      \/ \E i \in DOMAIN rows' :
                           /\ rows'[i].agent = turn'[u].agent
                           /\ turn'[u].calls \subseteq rows'[i].calls
                           /\ \A k \in DOMAIN rows' :
                                k > i /\ rows'[k].agent = rows'[i].agent =>
                                  /\ rows'[k].calls = {}
                                  /\ rows'[k].role = "tool" => rows'[k].id \in rows'[i].calls
    BY DEF TurnsFollowTheirResponse
  <2>1. CASE u = t
    <3>1. \A k \in DOMAIN rows' : ~(k > n)
      BY <1>6 DEF n
    <3> QED
      BY <1>3, <1>6, <1>7, <2>1, <3>1
  <2>2. CASE u # t
    <3>1. c \in turn[u].calls /\ turn'[u] = turn[u] /\ turn[u].agent # a
      BY <1>3, <2>2
    <3>2. CASE c \in lost /\ \A i \in DOMAIN rows : c \notin rows[i].calls
      <4>1. c \notin C
        BY <1>1, <3>1 DEF Inductive, CallsAreUsed
      <4> QED
        BY <1>1, <1>6, <1>7, <3>2, <4>1
    <3>3. CASE \E i \in DOMAIN rows :
                 /\ rows[i].agent = turn[u].agent
                 /\ turn[u].calls \subseteq rows[i].calls
                 /\ \A k \in DOMAIN rows : k > i /\ rows[k].agent = rows[i].agent =>
                      /\ rows[k].calls = {}
                      /\ rows[k].role = "tool" => rows[k].id \in rows[i].calls
      BY <1>6, <1>7, <3>1, <3>3
    <3> QED
      BY <3>1, <3>2, <3>3 DEF Inductive, TurnsFollowTheirResponse
  <2> QED
    BY <2>1, <2>2
<1>13. ResultsFollowCalls'
  <2> SUFFICES ASSUME NEW j \in DOMAIN rows', rows'[j].role = "tool"
               PROVE  \/ /\ rows'[j].id \in lost'
                         /\ \A i \in DOMAIN rows' : rows'[j].id \notin rows'[i].calls
                      \/ \E i \in DOMAIN rows' : /\ i < j
                                                 /\ rows'[j].id \in rows'[i].calls
                                                 /\ rows'[j].agent = rows'[i].agent
    BY DEF ResultsFollowCalls
  <2>1. j \in DOMAIN rows /\ rows[j].role = "tool" /\ rows'[j] = rows[j]
    BY <1>6, <1>7
  <2>2. rows[j].id \in lost => rows[j].id \notin C
    BY <1>1 DEF Inductive, CallsAreUsed
  <2> QED
    BY <1>1, <1>6, <1>7, <2>1, <2>2 DEF Inductive, ResultsFollowCalls
<1>14. ExchangesDoNotMix'
  <2> SUFFICES ASSUME NEW i \in DOMAIN rows', NEW j \in DOMAIN rows',
                      i < j, rows'[j].role = "tool", rows'[j].id \in rows'[i].calls
               PROVE  /\ rows'[j].agent = rows'[i].agent
                      /\ \A k \in (i + 1)..j : rows'[k].agent = rows'[i].agent =>
                           /\ rows'[k].calls = {}
                           /\ rows'[k].role = "tool" => rows'[k].id \in rows'[i].calls
    BY DEF ExchangesDoNotMix
  <2>1. j \in DOMAIN rows
    BY <1>6, <1>7
  <2>2. i \in DOMAIN rows
    BY <1>6, <2>1 DEF n
  <2>3. \A k \in (i + 1)..j : k \in DOMAIN rows
    BY <1>6, <2>1, <2>2
  <2> QED
    BY <1>6, <2>1, <2>2, <2>3 DEF Inductive, ExchangesDoNotMix
<1> QED
  BY <1>3, <1>9, <1>10, <1>11, <1>12, <1>13, <1>14 DEF Inductive

LEMMA ResultStep ==
  ASSUME Inductive, TypeOK', NEW t \in Turn, NEW c \in Call, ToolResult(t, c, TRUE)
  PROVE  Inductive'
<1> DEFINE n == Len(rows) + 1
           a == turn[t].agent
<1>1. /\ turn' = [turn EXCEPT ![t].calls = @ \ {c}]
      /\ used' = used /\ lost' = lost
      /\ rows' = Append(rows, [role |-> "tool", agent |-> a, calls |-> {}, id |-> c])
      /\ turn[t].stage = "running" /\ c \in turn[t].calls
  BY DEF ToolResult, SaveIf, Save
<1> DEFINE C == turn[t].calls \ {c}
<1>2. C \in SUBSET Call
  BY DEF Inductive, TypeOK, Request
<1>3. turn' = [turn EXCEPT ![t].calls = C]
  BY <1>1
<1> HIDE DEF C
<1>4. /\ OneTurnAtATime' /\ OnlyRunningTurnsCall'
      /\ turn'[t].calls = C /\ turn'[t].agent = a
      /\ a \in Agent
      /\ \A u \in Turn : u # t => /\ turn'[u] = turn[u]
                                  /\ turn[u].calls # {} => turn[u].agent # a
  BY <1>1, <1>2, <1>3, RunningTurn
<1>5. [role |-> "tool", agent |-> a, calls |-> {}, id |-> c] \in Row
  BY <1>4 DEF Row
<1>6. rows \in Seq(Row)
  BY DEF Inductive, TypeOK
<1>7. /\ DOMAIN rows = 1..Len(rows) /\ Len(rows) \in Nat
      /\ DOMAIN rows' = DOMAIN rows \cup {n}
      /\ rows'[n] = [role |-> "tool", agent |-> a, calls |-> {}, id |-> c]
      /\ \A i \in DOMAIN rows : rows'[i] = rows[i] /\ i < n
  BY <1>1, <1>5, <1>6, AppendRow
<1>8. /\ rows'[n].role = "tool" /\ rows'[n].agent = a
      /\ rows'[n].calls = {} /\ rows'[n].id = c
  BY <1>7
<1> HIDE DEF n, a
\* The call, if it could be saved, is in the agent's last response.
<1>9. \/ c \in lost /\ \A i \in DOMAIN rows : c \notin rows[i].calls
      \/ \E i \in DOMAIN rows :
           /\ rows[i].agent = a
           /\ turn[t].calls \subseteq rows[i].calls
           /\ \A k \in DOMAIN rows : k > i /\ rows[k].agent = rows[i].agent =>
                /\ rows[k].calls = {}
                /\ rows[k].role = "tool" => rows[k].id \in rows[i].calls
  BY <1>1 DEF Inductive, TurnsFollowTheirResponse, a
<1>10. RowsAreProper'
  BY <1>7, <1>8, HistoryAssumption DEF Inductive, RowsAreProper
<1>11. CallsAreUsed'
  BY <1>1, <1>4, <1>7, <1>8 DEF Inductive, CallsAreUsed, C
<1>12. OneResponsePerCall'
  BY <1>7, <1>8 DEF Inductive, OneResponsePerCall
<1>13. TurnsFollowTheirResponse'
  <2> SUFFICES ASSUME NEW u \in Turn, NEW d \in turn'[u].calls
               PROVE  \/ d \in lost' /\ \A i \in DOMAIN rows' : d \notin rows'[i].calls
                      \/ \E i \in DOMAIN rows' :
                           /\ rows'[i].agent = turn'[u].agent
                           /\ turn'[u].calls \subseteq rows'[i].calls
                           /\ \A k \in DOMAIN rows' :
                                k > i /\ rows'[k].agent = rows'[i].agent =>
                                  /\ rows'[k].calls = {}
                                  /\ rows'[k].role = "tool" => rows'[k].id \in rows'[i].calls
    BY DEF TurnsFollowTheirResponse
  <2>1. /\ d \in turn[u].calls /\ turn'[u].calls \subseteq turn[u].calls
        /\ turn'[u].agent = turn[u].agent
        /\ turn[u].agent = a => u = t
    BY <1>4 DEF C, a
  <2>2. CASE d \in lost /\ \A i \in DOMAIN rows : d \notin rows[i].calls
    BY <1>1, <1>7, <1>8, <2>2
  <2>3. CASE \E i \in DOMAIN rows :
               /\ rows[i].agent = turn[u].agent
               /\ turn[u].calls \subseteq rows[i].calls
               /\ \A k \in DOMAIN rows : k > i /\ rows[k].agent = rows[i].agent =>
                    /\ rows[k].calls = {}
                    /\ rows[k].role = "tool" => rows[k].id \in rows[i].calls
    BY <1>1, <1>7, <1>8, <2>1, <2>3
  <2> QED
    BY <2>1, <2>2, <2>3 DEF Inductive, TurnsFollowTheirResponse
<1>14. ResultsFollowCalls'
  <2> SUFFICES ASSUME NEW j \in DOMAIN rows', rows'[j].role = "tool"
               PROVE  \/ /\ rows'[j].id \in lost'
                         /\ \A i \in DOMAIN rows' : rows'[j].id \notin rows'[i].calls
                      \/ \E i \in DOMAIN rows' : /\ i < j
                                                 /\ rows'[j].id \in rows'[i].calls
                                                 /\ rows'[j].agent = rows'[i].agent
    BY DEF ResultsFollowCalls
  <2>1. CASE j = n
    BY <1>1, <1>7, <1>8, <1>9, <2>1
  <2>2. CASE j # n
    <3>1. j \in DOMAIN rows /\ rows'[j] = rows[j] /\ rows[j].role = "tool"
      BY <1>7, <2>2
    <3> QED
      BY <1>1, <1>7, <1>8, <3>1 DEF Inductive, ResultsFollowCalls
  <2> QED
    BY <2>1, <2>2
<1>15. ExchangesDoNotMix'
  <2> SUFFICES ASSUME NEW i \in DOMAIN rows', NEW j \in DOMAIN rows',
                      i < j, rows'[j].role = "tool", rows'[j].id \in rows'[i].calls
               PROVE  /\ rows'[j].agent = rows'[i].agent
                      /\ \A k \in (i + 1)..j : rows'[k].agent = rows'[i].agent =>
                           /\ rows'[k].calls = {}
                           /\ rows'[k].role = "tool" => rows'[k].id \in rows'[i].calls
    BY DEF ExchangesDoNotMix
  <2>1. i \in DOMAIN rows
    BY <1>7, <1>8
  <2>2. CASE j = n
    <3>1. c \in rows[i].calls /\ rows'[i] = rows[i]
      BY <1>7, <1>8, <2>1, <2>2
    <3>2. PICK h \in DOMAIN rows :
            /\ rows[h].agent = a
            /\ turn[t].calls \subseteq rows[h].calls
            /\ \A k \in DOMAIN rows : k > h /\ rows[k].agent = rows[h].agent =>
                 /\ rows[k].calls = {}
                 /\ rows[k].role = "tool" => rows[k].id \in rows[h].calls
      BY <1>9, <2>1, <3>1
    <3>3. h = i
      BY <1>1, <2>1, <3>1, <3>2 DEF Inductive, OneResponsePerCall
    <3>4. \A k \in (i + 1)..n : k = n \/ (k \in DOMAIN rows /\ k > i)
      BY <1>7, <2>1 DEF n
    <3> QED
      BY <1>7, <1>8, <2>2, <3>1, <3>2, <3>3, <3>4
  <2>3. CASE j # n
    <3>1. j \in DOMAIN rows
      BY <1>7, <2>3
    <3>2. \A k \in (i + 1)..j : k \in DOMAIN rows
      BY <1>7, <2>1, <3>1
    <3> QED
      BY <1>7, <2>1, <3>1, <3>2 DEF Inductive, ExchangesDoNotMix
  <2> QED
    BY <2>2, <2>3
<1> QED
  BY <1>4, <1>10, <1>11, <1>12, <1>13, <1>14, <1>15 DEF Inductive

LEMMA InductiveNext == Inductive /\ [Next]_vars => Inductive'
<1> SUFFICES ASSUME Inductive, [Next]_vars PROVE Inductive'
  OBVIOUS
<1>1. TypeOK /\ TypeOK' /\ turn \in [Turn -> Request]
  BY TypeNext DEF Inductive, TypeOK
<1>2. OneTurnAtATime /\ OnlyRunningTurnsCall
  BY DEF Inductive
<1> DEFINE Plain == \/ UNCHANGED rows
                    \/ \E x \in Row : /\ x.role # "tool" /\ x.calls = {} /\ x.id = NoCall
                                      /\ rows' = Append(rows, x)
\* A turn that stops running, or never ran, makes no calls.
<1>3. ASSUME NEW t \in Turn, NEW q \in Request, turn' = [turn EXCEPT ![t] = q],
             q.stage # "running", q.calls = {}, UNCHANGED <<used, lost>>, Plain
      PROVE  Inductive'
  <2>1. turn'[t] = q /\ \A u \in Turn : u # t => turn'[u] = turn[u]
    BY <1>1, <1>3
  <2>2. OneTurnAtATime' /\ OnlyRunningTurnsCall'
    BY <1>2, <1>3, <2>1 DEF OneTurnAtATime, OnlyRunningTurnsCall
  <2>3. \A u \in Turn : /\ turn'[u].calls \subseteq turn[u].calls
                        /\ turn'[u].calls # {} => turn'[u].agent = turn[u].agent
    BY <1>3, <2>1
  <2> QED
    BY <1>1, <1>3, <2>2, <2>3, PlainStep
<1>4. ASSUME NEW role \in {"user", "assistant", "notification"}, NEW a \in Agent,
             NEW saved \in BOOLEAN, SaveIf(saved, role, a, {}, NoCall)
      PROVE  Plain
  <2>1. CASE saved
    <3> DEFINE x == [role |-> role, agent |-> a, calls |-> {}, id |-> NoCall]
    <3>1. x \in Row /\ x.role # "tool" /\ x.calls = {} /\ x.id = NoCall
      BY DEF Row
    <3>2. rows' = Append(rows, x)
      BY <1>4, <2>1 DEF SaveIf, Save
    <3> QED
      BY <3>1, <3>2
  <2>2. CASE ~saved
    BY <1>4, <2>2 DEF SaveIf
  <2> QED
    BY <2>1, <2>2
<1>5. NoRequest \in Request /\ NoRequest.stage = "none" /\ NoRequest.calls = {}
  BY HistoryAssumption DEF NoRequest, Request
<1>6. \A t \in Turn : turn[t].agent \in Agent
  BY <1>1 DEF Request
<1> HIDE DEF Plain
<1>7. ASSUME NEW t \in Turn, NEW a \in Agent, Enqueue(t, a),
             UNCHANGED <<used, lost>>, Plain
      PROVE  Inductive'
  <2> DEFINE q == [NoRequest EXCEPT !.stage = "queued", !.agent = a]
  <2>1. q \in Request /\ q.stage # "running" /\ q.calls = {}
    BY DEF NoRequest, Request
  <2>2. turn' = [turn EXCEPT ![t] = q]
    BY <1>7 DEF Enqueue
  <2> HIDE DEF q
  <2> QED
    BY <1>3, <1>7, <2>1, <2>2
<1>8. ASSUME NEW t \in Turn, NEW a \in Agent, NEW saved \in BOOLEAN,
             UserMessage(t, a, saved)
      PROVE  Inductive'
  BY <1>4, <1>7, <1>8 DEF UserMessage
<1>9. ASSUME UNCHANGED <<turn, used, lost>>, Plain PROVE Inductive'
  <2>1. OneTurnAtATime' /\ OnlyRunningTurnsCall'
    BY <1>2, <1>9 DEF OneTurnAtATime, OnlyRunningTurnsCall
  <2> QED
    BY <1>1, <1>9, <2>1, PlainStep DEF Plain
<1>10. ASSUME NEW a \in Agent, DropMessage(a) PROVE Inductive'
  <2>1. SaveIf(TRUE, "user", a, {}, NoCall)
    BY <1>10 DEF DropMessage, SaveIf
  <2> QED
    BY <1>4, <1>9, <1>10, <2>1 DEF DropMessage
<1>10a. CASE Notify
  <2>1. SaveIf(TRUE, "notification", Executive, {}, NoCall)
    BY <1>10a DEF Notify, SaveIf
  <2> QED
    BY <1>4, <1>9, <1>10a, <2>1, HistoryAssumption DEF Notify
<1>11. ASSUME NEW t \in Turn, NEW a \in Agent, OtherRequest(t, a)
       PROVE  Inductive'
  BY <1>7, <1>11 DEF OtherRequest, Plain
<1>12. ASSUME NEW t \in Turn, PrepareExecution(t) PROVE Inductive'
  <2>1. /\ turn' = [turn EXCEPT ![t].stage = "running"]
        /\ \A u \in Turn : turn[u].agent = turn[t].agent => turn[u].stage # "running"
        /\ UNCHANGED <<rows, used, lost>>
    BY <1>12 DEF PrepareExecution, TurnLockFree
  <2>2. /\ turn'[t].stage = "running" /\ turn'[t].agent = turn[t].agent
        /\ turn'[t].calls = turn[t].calls
        /\ \A u \in Turn : u # t => turn'[u] = turn[u]
    BY <1>1, <2>1 DEF Request
  <2>3. OneTurnAtATime' /\ OnlyRunningTurnsCall'
    BY <1>2, <2>1, <2>2 DEF OneTurnAtATime, OnlyRunningTurnsCall
  <2>4. \A u \in Turn : /\ turn'[u].calls \subseteq turn[u].calls
                        /\ turn'[u].calls # {} => turn'[u].agent = turn[u].agent
    BY <2>2
  <2> QED
    BY <1>1, <2>1, <2>3, <2>4, PlainStep
<1>13. ASSUME NEW t \in Turn, NEW c \in Call, ToolResult(t, c, FALSE)
       PROVE  Inductive'
  <2> DEFINE C == turn[t].calls \ {c}
  <2>1. C \in SUBSET Call
    BY <1>1 DEF Request
  <2>2. /\ turn[t].stage = "running" /\ turn' = [turn EXCEPT ![t].calls = C]
        /\ UNCHANGED <<rows, used, lost>>
    BY <1>13 DEF ToolResult, SaveIf
  <2>3. C \subseteq turn[t].calls
    OBVIOUS
  <2> HIDE DEF C
  <2>4. /\ OneTurnAtATime' /\ OnlyRunningTurnsCall'
        /\ turn'[t].calls = C /\ turn'[t].agent = turn[t].agent
        /\ \A u \in Turn : u # t => turn'[u] = turn[u]
    BY <1>1, <2>1, <2>2, RunningTurn
  <2>5. \A u \in Turn : /\ turn'[u].calls \subseteq turn[u].calls
                        /\ turn'[u].calls # {} => turn'[u].agent = turn[u].agent
    BY <2>3, <2>4
  <2> QED
    BY <1>1, <2>2, <2>4, <2>5, PlainStep
<1>14. ASSUME NEW t \in Turn, Respond(t) PROVE Inductive'
  <2>1. UNCHANGED <<rows, used, lost>> /\ turn[t].calls = {}
    BY <1>14 DEF Respond
  <2>2. CASE turn' = [turn EXCEPT ![t].stage = "answering"]
    <3> DEFINE q == [turn[t] EXCEPT !.stage = "answering"]
    <3>1. q \in Request /\ q.stage # "running" /\ q.calls = {}
      BY <1>1, <2>1 DEF Request
    <3>2. turn' = [turn EXCEPT ![t] = q]
      BY <2>2
    <3> HIDE DEF q
    <3> QED
      BY <1>3, <2>1, <3>1, <3>2 DEF Plain
  <2>3. CASE turn' = [turn EXCEPT ![t] = NoRequest]
    BY <1>3, <1>5, <2>1, <2>3 DEF Plain
  <2> QED
    BY <1>14, <2>2, <2>3 DEF Respond
<1>15. ASSUME NEW t \in Turn, Fail(t) PROVE Inductive'
  <2> DEFINE q == [turn[t] EXCEPT !.stage = "answering", !.calls = {}]
  <2>1. q \in Request /\ q.stage # "running" /\ q.calls = {}
    BY <1>1 DEF Request
  <2>2. turn' = [turn EXCEPT ![t] = q] /\ UNCHANGED <<rows, used, lost>>
    BY <1>15 DEF Fail
  <2> HIDE DEF q
  <2> QED
    BY <1>3, <2>1, <2>2 DEF Plain
<1>16. ASSUME NEW t \in Turn, NEW saved \in BOOLEAN, SaveAnswer(t, saved)
       PROVE  Inductive'
  <2>1. Plain
    BY <1>4, <1>6, <1>16 DEF SaveAnswer
  <2> QED
    BY <1>3, <1>5, <1>16, <2>1 DEF SaveAnswer
<1>17. CASE Restart
  <2>1. \A t \in Turn : turn'[t] = NoRequest
    BY <1>17 DEF Restart
  <2>2. OneTurnAtATime' /\ OnlyRunningTurnsCall'
    BY <1>5, <2>1 DEF OneTurnAtATime, OnlyRunningTurnsCall
  <2>3. \A u \in Turn : /\ turn'[u].calls \subseteq turn[u].calls
                        /\ turn'[u].calls # {} => turn'[u].agent = turn[u].agent
    BY <1>5, <2>1
  <2> QED
    BY <1>1, <1>17, <2>2, <2>3, PlainStep DEF Restart
<1>18. CASE UNCHANGED vars
  BY <1>9, <1>18 DEF vars, Plain
<1>19. ASSUME NEW t \in Turn, NEW saved \in BOOLEAN, CallTools(t, saved)
       PROVE  Inductive'
  BY <1>1, <1>19, CallStep, LostCallStep
<1>20. ASSUME NEW t \in Turn, NEW c \in Call, NEW saved \in BOOLEAN,
              ToolResult(t, c, saved)
       PROVE  Inductive'
  BY <1>1, <1>13, <1>20, ResultStep
<1>21. CASE Reliable
  BY <1>8, <1>10, <1>11, <1>12, <1>14, <1>16, <1>19, <1>20, <1>21, <1>10a DEF Reliable
<1>22. CASE Fault
  BY <1>8, <1>15, <1>16, <1>17, <1>19, <1>20, <1>22 DEF Fault
<1> QED
  BY <1>18, <1>21, <1>22 DEF Next

\* The order of the writes under the turn lock, through every fault.
THEOREM InvariantHolds == Spec => []Inductive
<1>1. Init => Inductive
  <2> SUFFICES ASSUME Init PROVE Inductive
    OBVIOUS
  <2> USE DEF Init, NoRequest
  <2>1. TypeOK
    BY HistoryAssumption DEF TypeOK, Request
  <2>2. DOMAIN rows = {} /\ \A t \in Turn : turn[t].calls = {} /\ turn[t].stage = "none"
    OBVIOUS
  <2>3. RowsAreProper /\ OneResponsePerCall /\ ResultsFollowCalls /\ ExchangesDoNotMix
    BY <2>2 DEF RowsAreProper, OneResponsePerCall, ResultsFollowCalls, ExchangesDoNotMix
  <2>4. CallsAreUsed
    BY <2>2 DEF CallsAreUsed
  <2>5. OneTurnAtATime /\ OnlyRunningTurnsCall /\ TurnsFollowTheirResponse
    BY <2>2 DEF OneTurnAtATime, OnlyRunningTurnsCall, TurnsFollowTheirResponse
  <2> QED
    BY <2>1, <2>3, <2>4, <2>5 DEF Inductive
<1> QED
  BY <1>1, InductiveNext, PTL DEF Spec

\* Every tool call a request shows the LLM is answered right behind it.
THEOREM CallsStayAnswered == Spec => []CallsAreAnswered
<1>1. Inductive => CallsAreAnswered
  BY Answered DEF Inductive
<1> QED
  BY <1>1, InvariantHolds, PTL

\* Every result a request shows the LLM belongs to a call it shows.
THEOREM ResultsStayWithCalls == Spec => []ResultsHaveCalls
BY ResultsBelong, InvariantHolds, PTL

\* An agent's tool calls and their results are not mixed with other ones of it.
THEOREM ExchangesStayApart == Spec => []ExchangesDoNotMix
<1>1. Inductive => ExchangesDoNotMix
  BY DEF Inductive
<1> QED
  BY <1>1, InvariantHolds, PTL
-----------------------------------------------------------------------------
(* How the history of an agent changes.                                    *)

\* A row that the longer table's window has was in the shorter one's.
LEMMA WindowMovesOn ==
  ASSUME NEW r \in Seq(Row), NEW x \in Row, NEW s, s = Append(r, x), NEW a \in Agent,
         NEW k \in Recent(s, Visible(s, a)), k \in DOMAIN r
  PROVE  k \in Recent(r, Visible(r, a))
<1> DEFINE U == Visible(r, a)
           W == Visible(s, a)
           Old == {j \in U : j > k /\ r[j].role = "user"}
           New == {j \in W : j > k /\ s[j].role = "user"}
<1>1. /\ DOMAIN r = 1..Len(r) /\ Len(r) \in Nat
      /\ DOMAIN s = DOMAIN r \cup {Len(r) + 1}
      /\ \A i \in DOMAIN r : s[i] = r[i]
  BY AppendRow
<1>2. \A i \in DOMAIN r : i \in U <=> i \in W
  BY <1>1 DEF Visible
<1>3. U \subseteq DOMAIN r /\ W \subseteq DOMAIN s
  BY DEF Visible
<1>4. Old \subseteq New
  BY <1>1, <1>2, <1>3
<1>5. IsFiniteSet(DOMAIN r)
  <2>1. 1 \in Int /\ Len(r) \in Int
    BY <1>1
  <2> QED
    BY <1>1, <2>1, FS_Interval
<1>6. IsFiniteSet(DOMAIN s)
  BY <1>1, <1>5, FS_AddElement
<1>7. IsFiniteSet(New)
  <2>1. New \subseteq DOMAIN s
    BY <1>3
  <2> QED
    BY <1>6, <2>1, FS_Subset
<1>8. Cardinality(Old) <= Cardinality(New) /\ IsFiniteSet(Old)
  BY <1>4, <1>7, FS_Subset
<1>9. Cardinality(Old) \in Nat /\ Cardinality(New) \in Nat
  BY <1>7, <1>8, FS_CardinalityType
<1>10. k \in W /\ Cardinality(New) < HistoryTurns
  BY DEF Recent
<1>11. Cardinality(Old) < HistoryTurns
  <2> HIDE DEF Old, New
  <2> QED
    BY <1>8, <1>9, <1>10, HistoryAssumption
<1>12. k \in U
  BY <1>2, <1>10
<1> QED
  BY <1>11, <1>12 DEF Recent

\* What follows a row of both windows in the shorter one, follows it in both.
LEMMA ExchangesStay ==
  ASSUME NEW r \in Seq(Row), NEW x \in Row, NEW s, s = Append(r, x), NEW a \in Agent,
         NEW h \in Recent(r, Visible(r, a)), h \in Recent(s, Visible(s, a))
  PROVE  LET V == Recent(r, Visible(r, a))
             W == Recent(s, Visible(s, a))
         IN /\ Following(r, V, h) \subseteq Following(s, W, h)
            /\ Complete(r, V, h) => Complete(s, W, h)
<1> DEFINE V == Recent(r, Visible(r, a))
           W == Recent(s, Visible(s, a))
<1>1. /\ DOMAIN r = 1..Len(r) /\ Len(r) \in Nat
      /\ DOMAIN s = DOMAIN r \cup {Len(r) + 1}
      /\ \A i \in DOMAIN r : s[i] = r[i]
  BY AppendRow
<1>2. s \in Seq(Row)
  OBVIOUS
<1>3. V \subseteq DOMAIN r /\ Visible(s, a) \subseteq DOMAIN s /\ W \subseteq DOMAIN s
  BY HistoryIsPart
<1>4. \A i \in DOMAIN r : i \in W => i \in V
  BY WindowMovesOn
<1>5. \A i \in V : i \in Visible(s, a)
  <2>1. \A i \in V : i \in Visible(r, a)
    BY HistoryIsPart
  <2> QED
    BY <1>1, <2>1 DEF Visible
<1>6. \A i \in V : h < i => i \in W
  BY <1>2, <1>3, <1>5, WindowIsUpwardClosed
<1>7. Following(r, V, h) \subseteq Following(s, W, h)
  <2> SUFFICES ASSUME NEW j \in Following(r, V, h) PROVE j \in Following(s, W, h)
    OBVIOUS
  <2>1. j \in V /\ j > h /\ \A k \in V : k \in (h + 1)..j => r[k].role = "tool"
    BY DEF Following
  <2>2. h \in Nat /\ j \in DOMAIN r
    BY <1>1, <1>3, <2>1
  <2>3. j \in W /\ j > h
    BY <1>1, <1>6, <2>1, <2>2
  <2>4. ASSUME NEW k \in W, k \in (h + 1)..j PROVE s[k].role = "tool"
    <3>1. k \in DOMAIN r
      BY <1>1, <2>2, <2>4
    <3> QED
      BY <1>1, <1>4, <2>1, <2>4, <3>1
  <2> QED
    BY <2>3, <2>4 DEF Following
<1>8. ASSUME Complete(r, V, h) PROVE Complete(s, W, h)
  <2>1. \A j \in Following(r, V, h) : j \in DOMAIN r
    BY <1>3 DEF Following
  <2>2. s[h].calls = r[h].calls
    BY <1>1, <1>3
  <2> QED
    BY <1>1, <1>7, <1>8, <2>1, <2>2 DEF Complete
<1> QED
  BY <1>7, <1>8

LEMMA Slides ==
  ASSUME NEW r \in Seq(Row), NEW x \in Row, NEW s, s = Append(r, x), NEW a \in Agent,
         \A n \in DOMAIN r : r[n].calls # {} => r[n].role = "assistant",
         NEW i \in History(r, a), i \notin History(s, a), NEW k \in History(s, a)
  PROVE  i < k
<1> DEFINE V == Recent(r, Visible(r, a))
           W == Recent(s, Visible(s, a))
<1>1. /\ DOMAIN r = 1..Len(r) /\ Len(r) \in Nat
      /\ DOMAIN s = DOMAIN r \cup {Len(r) + 1}
      /\ \A n \in DOMAIN r : s[n] = r[n] /\ n < Len(r) + 1
  BY AppendRow
<1>2. s \in Seq(Row) /\ Visible(s, a) \in SUBSET DOMAIN s
  <2>1. s \in Seq(Row)
    OBVIOUS
  <2>2. Visible(s, a) \subseteq DOMAIN s
    BY HistoryIsPart
  <2> QED
    BY <2>1, <2>2
<1>3. V \subseteq DOMAIN r /\ W \subseteq Visible(s, a) /\ W \subseteq DOMAIN s
  BY HistoryIsPart
<1>4. i \in V /\ k \in W
  BY HistoryIsPart
<1>5. \A n \in DOMAIN r : n \in W => n \in V
  BY WindowMovesOn
<1>6. \A n \in V : n \in Visible(s, a)
  <2>1. \A n \in V : n \in Visible(r, a)
    BY HistoryIsPart
  <2> QED
    BY <1>1, <1>3, <2>1 DEF Visible
<1>7. \A m \in W, n \in V : m < n => n \in W
  BY <1>2, <1>6, WindowIsUpwardClosed
<1>8. History(r, a) = Sanitize(r, V) /\ History(s, a) = Sanitize(s, W)
  BY DEF History
<1>9. \A h \in V : h \in W =>
        /\ Following(r, V, h) \subseteq Following(s, W, h)
        /\ Complete(r, V, h) => Complete(s, W, h)
  BY ExchangesStay
<1> HIDE DEF V, W
<1>10. i \in DOMAIN r /\ k \in DOMAIN s /\ i \in Nat /\ k \in Nat
  BY <1>1, <1>3, <1>4
<1>11. s[i] = r[i]
  BY <1>1, <1>10
<1>12. CASE i \notin W
  BY <1>4, <1>7, <1>10, <1>12
<1>13. CASE i \in W /\ r[i].role # "tool"
  <2>1. Complete(r, V, i)
    BY <1>8, <1>13 DEF Sanitize
  <2>2. Complete(s, W, i)
    BY <1>4, <1>9, <1>13, <2>1
  <2> QED
    BY <1>8, <1>11, <1>13, <2>2 DEF Sanitize
<1>14. CASE i \in W /\ r[i].role = "tool"
  <2>1. PICK h \in V : i \in Following(r, V, h) /\ r[h].calls # {} /\ Complete(r, V, h)
    BY <1>8, <1>14 DEF Sanitize
  <2>2. h \in DOMAIN r /\ h \in Nat /\ s[h] = r[h]
    BY <1>1, <1>3
  <2>3. h < i /\ \A n \in V : n \in (h + 1)..i => r[n].role = "tool"
    BY <2>1, <2>2, <1>10 DEF Following
  <2>4. h \notin W
    <3> SUFFICES ASSUME h \in W PROVE FALSE
      OBVIOUS
    <3>1. i \in Following(s, W, h) /\ Complete(s, W, h) /\ s[h].calls # {}
      BY <1>9, <2>1, <2>2
    <3> QED
      BY <1>8, <1>11, <1>14, <3>1 DEF Sanitize
  <2> SUFFICES ASSUME ~(i < k) PROVE FALSE
    OBVIOUS
  <2>5. \A n \in W : n \in DOMAIN s /\ n \in Nat /\ h < n
    <3> SUFFICES ASSUME NEW n \in W PROVE n \in DOMAIN s /\ n \in Nat /\ h < n
      OBVIOUS
    <3>1. n \in DOMAIN s /\ n \in Nat
      BY <1>1, <1>3
    <3>2. n # h /\ ~(n < h)
      BY <1>7, <2>4
    <3> QED
      BY <2>2, <3>1, <3>2
  <2>6. k \in V /\ k \in (h + 1)..i /\ k \in DOMAIN r
    <3>1. k \in DOMAIN r
      BY <1>1, <1>10
    <3> QED
      BY <1>4, <1>5, <1>10, <2>2, <2>5, <3>1
  <2>7. s[k].role = "tool"
    BY <1>1, <2>3, <2>6
  <2>8. PICK g \in W : k \in Following(s, W, g) /\ s[g].calls # {}
    BY <1>8, <2>7 DEF Sanitize
  <2>9. g < k
    BY <1>10, <2>5, <2>8 DEF Following
  <2>10. g \in DOMAIN r /\ g \in (h + 1)..i
    <3>1. g \in Nat /\ h < g
      BY <2>5
    <3>2. g < i /\ g \in DOMAIN s
      BY <1>10, <2>5, <2>9, <3>1
    <3> QED
      BY <1>1, <1>10, <2>2, <3>1, <3>2
  <2>11. r[g].role = "tool"
    BY <1>5, <2>3, <2>8, <2>10
  <2> QED
    BY <1>1, <2>8, <2>10, <2>11
<1> QED
  BY <1>12, <1>13, <1>14

LEMMA RowsAreAppended ==
  ASSUME TypeOK, [Next]_vars
  PROVE  UNCHANGED rows \/ \E x \in Row : rows' = Append(rows, x)
<1>1. turn \in [Turn -> Request]
  BY DEF TypeOK
<1>2. \A t \in Turn : turn[t].agent \in Agent
  BY <1>1 DEF Request
<1>3. ASSUME NEW role \in {"user", "assistant", "notification", "tool"}, NEW a \in Agent,
             NEW C \in SUBSET Call, NEW id \in Call \cup {NoCall}, Save(role, a, C, id)
      PROVE  \E x \in Row : rows' = Append(rows, x)
  <2> DEFINE x == [role |-> role, agent |-> a, calls |-> C, id |-> id]
  <2>1. x \in Row
    BY DEF Row
  <2>2. rows' = Append(rows, x)
    BY <1>3 DEF Save
  <2> QED
    BY <2>1, <2>2
<1>4. ASSUME NEW t \in Turn, NEW a \in Agent, NEW saved \in BOOLEAN
      PROVE  UserMessage(t, a, saved) =>
               UNCHANGED rows \/ \E x \in Row : rows' = Append(rows, x)
  BY <1>3 DEF UserMessage, SaveIf
<1>5. ASSUME NEW t \in Turn, NEW saved \in BOOLEAN
      PROVE  CallTools(t, saved) \/ SaveAnswer(t, saved) =>
               UNCHANGED rows \/ \E x \in Row : rows' = Append(rows, x)
  BY <1>2, <1>3 DEF CallTools, SaveAnswer, SaveIf
<1>6. ASSUME NEW t \in Turn, NEW c \in Call, NEW saved \in BOOLEAN
      PROVE  ToolResult(t, c, saved) =>
               UNCHANGED rows \/ \E x \in Row : rows' = Append(rows, x)
  BY <1>2, <1>3 DEF ToolResult, SaveIf
<1>7. (\E a \in Agent : DropMessage(a)) \/ Notify => \E x \in Row : rows' = Append(rows, x)
  BY <1>3, HistoryAssumption DEF DropMessage, Notify
<1>8. Reliable => UNCHANGED rows \/ \E x \in Row : rows' = Append(rows, x)
  BY <1>4, <1>5, <1>6, <1>7 DEF Reliable, OtherRequest, PrepareExecution, Respond
<1>9. Fault => UNCHANGED rows \/ \E x \in Row : rows' = Append(rows, x)
  BY <1>4, <1>5, <1>6 DEF Fault, Fail, Restart
<1> QED
  BY <1>8, <1>9 DEF Next, vars

\* New rows move the window of an agent on, and change nothing within it.
THEOREM HistorySlides == Spec => HistoryOnlySlides
<1>1. ASSUME Inductive, [Next]_vars
      PROVE  [\A a \in Agent :
                LET old == History(rows, a)
                    new == History(rows', a)
                IN \A i \in old \ new : \A k \in new : i < k]_rows
  <2> SUFFICES ASSUME rows' # rows, NEW a \in Agent,
                      NEW i \in History(rows, a), i \notin History(rows', a),
                      NEW k \in History(rows', a)
               PROVE  i < k
    OBVIOUS
  <2>1. rows \in Seq(Row) /\ \A n \in DOMAIN rows : rows[n].calls # {} => rows[n].role = "assistant"
    BY <1>1 DEF Inductive, TypeOK, RowsAreProper
  <2>2. PICK x \in Row : rows' = Append(rows, x)
    BY <1>1, RowsAreAppended DEF Inductive
  <2> QED
    BY <2>1, <2>2, Slides
<1> QED
  BY <1>1, InvariantHolds, PTL DEF Spec, HistoryOnlySlides
==============================================================================
