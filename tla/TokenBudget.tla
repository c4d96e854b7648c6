---------------------------- MODULE TokenBudget -----------------------------
(***************************************************************************)
(* The budget of tokens of a turn (pkg/llm/budget.go), as the execution    *)
(* loop uses it: after each answer with tool calls it decides how long the *)
(* next answer may be and where each result is cut.                        *)
(*                                                                         *)
(* A turn is the tokens of its messages.  The agent knows them only from   *)
(* the usage the provider reports, and the clients' streams report none.   *)
(* What a result would be is open, up to MaxResult bytes; it is cut by     *)
(* bytes, of which a token has one or more.                                *)
(***************************************************************************)
EXTENDS Integers

CONSTANTS MaxWindow,  \* bound: context windows
          MaxResult,  \* bound: tokens of an answer, bytes of an uncut result
          MaxResults  \* bound: tool calls in an answer

ASSUME BudgetAssumption ==
  /\ MaxWindow \in Nat /\ MaxWindow >= 10
  /\ MaxResult \in Nat /\ MaxResults \in Nat

VARIABLES
  window,      \* the model's context window
  configured,  \* max_tokens and max_tool_result_tokens of the agent, 0 for none
  reported,    \* whether the provider's answers carry usage
  input,       \* tokens of the messages
  next,        \* nextMaxTokens, 0 for the client's own
  per,         \* the budget of a result
  calls,       \* calls of the last answer whose results are not there yet
  uncounted    \* history: tokens of the messages and of the next answer that no
               \* budget counted

budgetVars == <<window, configured, reported, input, next, per, calls, uncounted>>

SafetyMargin(w) == (w * 10) \div 100

ComputeOutputBudget(w, in, margin, max) ==
  LET room == w - in - margin
      available == IF room <= 0 THEN margin ELSE room
  IN IF max > 0 /\ max < available THEN max ELSE available

ComputeInputHeadroom(w, in, out, margin) ==
  IF w - in - out - margin < 0 THEN 0 ELSE w - in - out - margin

\* Bug: each result may take all there is.
WholeHeadroom(headroom, n, max) ==
  IF max > 0 /\ max < headroom THEN max ELSE headroom

PerResultBudget(headroom, n, max) ==
  LET each == IF n <= 0 THEN headroom ELSE headroom \div n
  IN IF n > 0 /\ max > 0 /\ max < each THEN max ELSE each

\* processToolCalls takes a budget of zero as no limit.
Cut(size, budget) == IF budget > 0 /\ size > budget THEN budget ELSE size

Excess(a, b) == IF a > b THEN a - b ELSE 0
-----------------------------------------------------------------------------
BudgetTypeOK ==
  /\ window \in 0 .. MaxWindow
  /\ input \in Nat /\ next \in Nat /\ per \in Nat
  /\ calls \in 0 .. MaxResults
  /\ reported \in BOOLEAN /\ uncounted \in Nat

BudgetInit ==
  /\ window \in {10, MaxWindow}
  /\ configured \in [max : {0, 2, MaxWindow}, result : {0, 1}]
  /\ reported \in BOOLEAN
  /\ input \in {1, MaxWindow \div 2}
  /\ next = 0
  /\ per = 0
  /\ calls = 0
  /\ uncounted = input

\* An answer with n tool calls, no longer than the budget it was asked with: it
\* joins the messages, and the budgets are computed from the usage of the call that
\* brought it.  They count neither messages that no usage is reported for, nor an
\* answer longer than the margin, nor a next answer for which there is no room.
ComputeIterationBudget ==
  /\ calls = 0
  /\ input <= window
  /\ \E n \in 1 .. MaxResults, answer \in 1 .. MaxResult :
       LET usage == IF reported THEN input ELSE 0
           margin == SafetyMargin(window)
           out == ComputeOutputBudget(window, usage, margin, configured.max)
       IN /\ next = 0 \/ answer <= next
          /\ next' = out
          /\ per' = PerResultBudget(ComputeInputHeadroom(window, usage, out, margin), n, configured.result)
          /\ calls' = n
          /\ input' = input + answer
          /\ uncounted' = (input - usage) + Excess(answer, margin) + Excess(out, window - usage - margin)
  /\ UNCHANGED <<window, configured, reported>>

\* A result joins the messages, cut where the budget says ...
AppendResult ==
  /\ calls > 0
  /\ \E size \in 1 .. MaxResult : \E tokens \in 1 .. Cut(size, per) :
       /\ input' = input + tokens
       /\ uncounted' = IF per > 0 THEN uncounted ELSE uncounted + tokens
  /\ calls' = calls - 1
  /\ UNCHANGED <<window, configured, reported, next, per>>

\* ... and an error or the word of a call that halts the turn is never cut.
AppendUncut ==
  /\ calls > 0
  /\ \E tokens \in 1 .. MaxResult : input' = input + tokens /\ uncounted' = uncounted + tokens
  /\ calls' = calls - 1
  /\ UNCHANGED <<window, configured, reported, next, per>>

BudgetNext == ComputeIterationBudget \/ AppendResult \/ AppendUncut

BudgetSpec == BudgetInit /\ [][BudgetNext]_budgetVars
-----------------------------------------------------------------------------
\* When the results of an answer are in, the messages and the longest next answer
\* fit the context window, but for what no budget counted: the messages when no
\* usage is reported, results without a budget (there is no headroom without
\* max_tokens, and a budget of zero is no limit), failed calls, and an answer beyond
\* the margin or the room that is left.
BudgetsFit == calls = 0 => input + next <= window + uncounted
==============================================================================
