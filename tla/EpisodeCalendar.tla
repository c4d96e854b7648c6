-------------------------- MODULE EpisodeCalendar --------------------------
(***************************************************************************)
(* The summaries above the session episodes (pkg/memory/summarize_*.go):   *)
(* jobs that store a daily, a weekly, a monthly and a yearly episode, and  *)
(* what a start of the process catches up on.  Days are cut in the user's  *)
(* zone, but jobs fire, and months and years are told, in the process's;   *)
(* and what the store gives back is in UTC.                                *)
(*                                                                         *)
(* The calendar is scaled down: weeks and months have few days, a year few *)
(* months, and each half of a day three times: its beginning, which stands *)
(* for all but its last minute, and 11:59:00 and 11:59:59.  Clocks do not  *)
(* change, so a zone is so much ahead of the user's.                       *)
(***************************************************************************)
EXTENDS Integers, Sequences, FiniteSets

CONSTANTS
  MaxSessions,   \* bound: sessions of the user with the agents, numbered as they are stored
  DaysPerWeek,   \* day 0 is a Sunday
  MonthStart,    \* the first days of the months, and of one month more
  MonthsPerYear, \* month 1 is the first of a year
  Zones,         \* how far the process's zone and UTC may be ahead of the user's
  MaxDelay,      \* bound: how long after its end a session's episode is stored
  MaxOutages     \* bound: stops, and runs that fail

ASSUME CalendarAssumption ==
  /\ Zones \subseteq [process : Int, utc : Int]
  /\ DaysPerWeek \in Nat \ {0} /\ MonthsPerYear \in Nat \ {0} /\ MaxDelay \in Nat /\ MaxOutages \in Nat
  /\ MaxSessions \in Nat
  /\ MonthStart \in Seq(Nat) /\ Len(MonthStart) > 1 /\ MonthStart[1] = 0
  /\ \A m \in 1..(Len(MonthStart) - 1) : MonthStart[m] < MonthStart[m + 1]

VARIABLES
  zone,
  now,       \* the time, as the user has it
  online,    \* whether the process runs
  pending,   \* jobs to run: <<"run", "catch up" or "give up", scope>>
  stored,    \* the episodes: scope, window and the sessions in them; and, as history, those
             \* that had theirs before the daily job of their day
  reviewed,  \* how often the weeks' sessions were looked through for patterns, up to twice
  missed,    \* history: days whose job failed, or after whose job the process started
  outages

calendarVars == <<zone, now, online, pending, stored, reviewed, missed, outages>>

Months == Len(MonthStart) - 1
LastTime == 6 * MonthStart[Months + 1] - 1
Instant == 0..LastTime
DayOf(t) == t \div 6
Midnight(day) == 6 * day
MonthOf(day) == Cardinality({m \in 1..Months + 1 : MonthStart[m] <= day})
YearOf(m) == (m - 1) \div MonthsPerYear
FirstMonth(year) == year * MonthsPerYear + 1

\* The time where the process is, and the daily job's time of the day for the user.
ProcessTime(t) == t + zone.process
JobTime == (4 - zone.process) % 6
JobOf(day) == Midnight(day) + JobTime

Scopes == <<"daily", "weekly", "monthly", "yearly">>
Scope == {Scopes[i] : i \in 1..4}

CalendarTypeOK ==
  /\ zone \in Zones /\ now \in Instant /\ online \in BOOLEAN /\ outages \in 0..MaxOutages
  /\ missed \subseteq 0..DayOf(LastTime)
  /\ pending \subseteq {"run", "catch up", "give up"} \X Scope
  /\ \A e \in stored : e.scope \in Scope \union {"session"} /\ e.start <= e.end /\ e.of \union e.had \subseteq 1..MaxSessions
  /\ reviewed \in [0..(MonthStart[Months + 1] \div DaysPerWeek) -> 0..2]

\* Before the first start.
CalendarInit ==
  /\ zone \in Zones /\ now = 1 /\ online = FALSE /\ pending = {} /\ stored = {}
  /\ reviewed = [w \in 0..(MonthStart[Months + 1] \div DaysPerWeek) |-> 0]
  /\ missed = {} /\ outages = 0

\* Episodes that lie in the window, both ends included.
GetEpisodesByScope(scope, from, to) == {e \in stored : e.scope = scope /\ from <= e.start /\ e.end <= to}

Sessions == {e \in stored : e.scope = "session"}

Covered(scope) == UNION {e.of : e \in {x \in stored : x.scope = scope}}

\* An episode of the same scope and start is replaced.
SaveEpisode(e) == {x \in stored : ~(x.scope = e.scope /\ x.start = e.start)} \union {e}

\* With nothing to summarize nothing is stored.
Summarize(scope, from, to, parts) ==
  stored' = IF parts = {} THEN stored
            ELSE SaveEpisode([scope |-> scope, start |-> from, end |-> to, of |-> UNION {e.of : e \in parts},
                              had |-> {}])

SummarizeDay(day) ==
  Summarize("daily", Midnight(day), Midnight(day + 1),
            GetEpisodesByScope("session", Midnight(day), Midnight(day + 1)))

extractPatterns(week) ==
  reviewed' = IF reviewed[week] = 2 THEN reviewed ELSE [reviewed EXCEPT ![week] = @ + 1]

\* The week is reviewed for patterns of behaviour after its summary is stored.
SummarizeWeek(weekEnd) ==
  LET weekStart == weekEnd - 6 * (DaysPerWeek - 1)
      sessions == GetEpisodesByScope("session", weekStart, weekEnd)
  IN /\ Summarize("weekly", weekStart, weekEnd, sessions)
     /\ IF sessions = {} THEN UNCHANGED reviewed ELSE extractPatterns((weekEnd + 1) \div (6 * DaysPerWeek))

\* From the first of the month to the beginning of its last day.
MonthWindow(m) == <<Midnight(MonthStart[m]), Midnight(MonthStart[m + 1] - 1)>>

SummarizeMonth(m) ==
  Summarize("monthly", MonthWindow(m)[1], MonthWindow(m)[2],
            GetEpisodesByScope("weekly", MonthWindow(m)[1], MonthWindow(m)[2]))

SummarizeYear(year) ==
  LET from == Midnight(MonthStart[FirstMonth(year)])
      to == Midnight(MonthStart[FirstMonth(year + 1)]) - 1
  IN Summarize("yearly", from, to, GetEpisodesByScope("monthly", from, to))

\* The last Sunday, today included.
lastSunday == Midnight(DayOf(now) - (DayOf(now) % DaysPerWeek))

\* The day, month and year where the process is.
Today == DayOf(ProcessTime(now))
ThisYear == YearOf(MonthOf(Today))

\* The same day a month ago; a day that the month does not have runs over into the next.
MonthAgo ==
  LET m == MonthOf(Today) IN
  IF m <= 1 THEN 0
  ELSE IF Today - MonthStart[m] < MonthStart[m] - MonthStart[m - 1] THEN m - 1 ELSE m

(*********************************** Jobs ***********************************)

\* What the scheduler starts at a time.
Due(t) ==
  {s \in Scope :
     \/ s = "daily" /\ ProcessTime(t) % 6 = 4
     \/ s = "weekly" /\ ProcessTime(t) % (6 * DaysPerWeek) = 0
     \/ s = "monthly" /\ \E m \in 1..Months : ProcessTime(t) = Midnight(MonthStart[m])
     \/ s = "yearly" /\ ProcessTime(t) % 6 = 4 /\ \E y \in 1..Months :
          FirstMonth(y) <= Months + 1 /\ DayOf(ProcessTime(t)) + 1 = MonthStart[FirstMonth(y)]}

\* Jobs take less time than there is to the next.
Pass ==
  /\ pending = {} /\ now < LastTime
  /\ now' = now + 1
  /\ pending' = IF online THEN {"run"} \X Due(now + 1) ELSE {}
  /\ UNCHANGED <<zone, online, stored, reviewed, missed, outages>>

Done(job) == pending' = pending \ {job}

\* At a start the jobs catch up one after the other.
CatchesUp(scope) ==
  /\ <<"catch up", scope>> \in pending
  /\ \A i, j \in 1..4 : Scopes[i] = scope /\ j < i => <<"catch up", Scopes[j]>> \notin pending

\* Bug: the day before is summarized, as at a start.
DailyRunLate ==
  /\ <<"run", "daily">> \in pending /\ Done(<<"run", "daily">>)
  /\ SummarizeDay(DayOf(now) - 1)
  /\ UNCHANGED <<zone, now, online, reviewed, missed, outages>>

DailyRun ==
  /\ <<"run", "daily">> \in pending /\ Done(<<"run", "daily">>)
  /\ SummarizeDay(DayOf(now))
  /\ UNCHANGED <<zone, now, online, reviewed, missed, outages>>

WeeklyRun ==
  /\ <<"run", "weekly">> \in pending /\ Done(<<"run", "weekly">>)
  /\ SummarizeWeek(Midnight(DayOf(now)) - 1)
  /\ UNCHANGED <<zone, now, online, missed, outages>>

MonthlyRun ==
  /\ <<"run", "monthly">> \in pending /\ Done(<<"run", "monthly">>)
  /\ SummarizeMonth(MonthAgo)
  /\ UNCHANGED <<zone, now, online, reviewed, missed, outages>>

YearlyRun ==
  /\ <<"run", "yearly">> \in pending /\ Done(<<"run", "yearly">>)
  /\ SummarizeYear(ThisYear)
  /\ UNCHANGED <<zone, now, online, reviewed, missed, outages>>

\* The model does not answer, or the store fails: the job is not run again.
JobFails ==
  /\ outages < MaxOutages /\ outages' = outages + 1
  /\ \E job \in pending :
       /\ job[1] = "run" \/ CatchesUp(job[2])
       /\ pending' = (pending \ {job}) \union (IF job[1] = "run" THEN {} ELSE {<<"give up", job[2]>>})
       /\ missed' = IF job = <<"run", "daily">> THEN missed \union {DayOf(now)} ELSE missed
  /\ UNCHANGED <<zone, now, online, stored, reviewed>>

(********************************* Starting *********************************)

GoOffline ==
  /\ online /\ outages < MaxOutages /\ outages' = outages + 1
  /\ online' = FALSE /\ pending' = {}
  /\ UNCHANGED <<zone, now, stored, reviewed, missed>>

GoOnline ==
  /\ ~online
  /\ online' = TRUE /\ pending' = {"catch up"} \X Scope
  /\ missed' = IF JobOf(DayOf(now)) <= now THEN missed \union {DayOf(now)} ELSE missed
  /\ UNCHANGED <<zone, now, stored, reviewed, outages>>

\* A start that could not catch up on something fails, when all has been tried.
GiveUp ==
  /\ \E scope \in Scope : <<"give up", scope>> \in pending
  /\ \A scope \in Scope : <<"catch up", scope>> \notin pending
  /\ online' = FALSE /\ pending' = {}
  /\ UNCHANGED <<zone, now, stored, reviewed, missed, outages>>

DailyCatchUp ==
  /\ CatchesUp("daily") /\ Done(<<"catch up", "daily">>)
  /\ LET yesterday == DayOf(now) - 1 IN
     IF yesterday < 0 \/ GetEpisodesByScope("daily", Midnight(yesterday), Midnight(yesterday + 1)) # {}
       THEN UNCHANGED stored
       ELSE SummarizeDay(yesterday)
  /\ UNCHANGED <<zone, now, online, reviewed, missed, outages>>

\* The window that is looked at begins a second after the weekly episode does.
WeeklyCatchUp ==
  /\ CatchesUp("weekly") /\ Done(<<"catch up", "weekly">>)
  /\ IF GetEpisodesByScope("weekly", lastSunday - 6 * (DaysPerWeek - 1), lastSunday) # {}
       THEN UNCHANGED <<stored, reviewed>>
       ELSE SummarizeWeek(lastSunday - 1)
  /\ UNCHANGED <<zone, now, online, missed, outages>>

MonthlyCatchUp ==
  /\ CatchesUp("monthly") /\ Done(<<"catch up", "monthly">>)
  /\ IF MonthAgo = 0 \/ GetEpisodesByScope("monthly", MonthWindow(MonthAgo)[1], MonthWindow(MonthAgo)[2]) # {}
       THEN UNCHANGED stored
       ELSE SummarizeMonth(MonthAgo)
  /\ UNCHANGED <<zone, now, online, reviewed, missed, outages>>

\* The episode of the year that began last is looked at, in UTC.
YearlyCatchUp ==
  /\ CatchesUp("yearly") /\ Done(<<"catch up", "yearly">>)
  /\ LET years == {e \in stored : e.scope = "yearly"}
         newest == {e \in years : \A f \in years : f.start <= e.start}
     IN IF ThisYear < 1 \/ \E e \in newest : YearOf(MonthOf(DayOf(e.start + zone.utc))) = ThisYear - 1
          THEN UNCHANGED stored
          ELSE SummarizeYear(ThisYear - 1)
  /\ UNCHANGED <<zone, now, online, reviewed, missed, outages>>

\* The episode of a session is stored half an hour after its end at the earliest
\* (see SessionMemory), and not in the last minute of a half day, as sessions are
\* looked for every quarter of an hour; from then on the session is over.
StoreSession ==
  /\ online /\ pending = {} /\ now % 3 = 0
  /\ LET s == Cardinality(Sessions) + 1 IN
     /\ s <= MaxSessions
     /\ \E end \in Instant \cap now - MaxDelay..now, long \in {0, 1} :
          /\ end >= long /\ \A e \in Sessions : e.start # end - long
          /\ stored' = SaveEpisode([scope |-> "session", start |-> end - long, end |-> end, of |-> {s},
                                    had |-> IF now < JobOf(DayOf(end)) THEN {s} ELSE {}])
  /\ UNCHANGED <<zone, now, online, pending, reviewed, missed, outages>>

CalendarNext ==
  \/ Pass \/ GoOffline \/ GoOnline \/ GiveUp \/ JobFails
  \/ DailyRun \/ WeeklyRun \/ MonthlyRun \/ YearlyRun
  \/ DailyCatchUp \/ WeeklyCatchUp \/ MonthlyCatchUp \/ YearlyCatchUp
  \/ StoreSession

CalendarSpec == CalendarInit /\ [][CalendarNext]_calendarVars

(******************************** Properties ********************************)

\* While the process runs, the user's sessions of yesterday that had their episode
\* before the daily job are in a daily episode, also when the process was down then
\* and started today; unless the job failed.  A start after the job is too late for
\* it and too early to catch up.  Where the process's zone is the user's the job comes
\* in the day's last minute; else sessions after it are in no daily episode.
DaysAreKept ==
  LET yesterday == DayOf(now) - 1 IN
  online /\ pending = {} /\ yesterday \notin missed =>
    \A e \in Sessions :
      DayOf(e.start) = yesterday /\ DayOf(e.end) = yesterday /\ e.had = e.of
        => e.of \subseteq Covered("daily")
=============================================================================
