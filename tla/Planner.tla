------------------------------ MODULE Planner ------------------------------
(***************************************************************************)
(* The calendar and the notes, as the agents use them: the tools of the   *)
(* calendar and notes skills (pkg/skills/calendar, pkg/skills/notes), the *)
(* local connectors behind them (pkg/connectors/local) and their tables   *)
(* (internal/storage/sqlite/productivity.go).                             *)
(*                                                                         *)
(* The tools that change a row read it, change the copy and write all of  *)
(* it back; nothing holds the row in between, and the tool calls of       *)
(* several agents - or of one turn - run at the same time.                *)
(***************************************************************************)
EXTENDS Naturals, Sequences, FiniteSets, SequencesExt

CONSTANTS Caller,     \* tool calls that run at the same time
          EventId, NoteId,
          Latest,     \* the last time on the calendar
          DefaultMinutes, \* the shortest slot looked for when none is asked for
          Absent      \* no row

Hour == 0..Latest
Event == [start : Hour, end : Hour]
Note == [text : {"new", "edited"}, pinned : BOOLEAN]
RowId == EventId \union NoteId

ASSUME PlannerAssumption ==
    /\ Latest \in Nat /\ DefaultMinutes \in Nat \ {0}
    /\ EventId \intersect NoteId = {}

NoDraft == [id |-> Absent, row |-> Absent]

VARIABLES
    table,   \* the rows of calendar_events and notes
    draft,   \* per call: the copy of a row it read and will write back
    gone     \* history: the ids that were deleted

plannerVars == <<table, draft, gone>>

PlannerInit ==
    /\ table = [i \in RowId |-> Absent]
    /\ draft = [c \in Caller |-> NoDraft]
    /\ gone = {}

Fresh(i) == table[i] = Absent /\ i \notin gone
Present == {i \in RowId : table[i] # Absent}

------------------------------------------------------------------------------
(* Creating and deleting.                                                  *)

\* An event may not end before it starts, but may end when it starts.
createOne(e) == e.start <= e.end

\* calendar_create_events: each event of the batch on its own, the ones
\* that are refused are reported and the rest is kept.
CreateEvents(i, j, e, f) ==
    /\ Fresh(i) /\ Fresh(j) /\ i # j
    /\ table' = [k \in RowId |-> IF k = i /\ createOne(e) THEN e
                              ELSE IF k = j /\ createOne(f) THEN f ELSE table[k]]
    /\ UNCHANGED <<draft, gone>>

CreateNotes(i) ==
    /\ Fresh(i)
    /\ \E pin \in BOOLEAN : table' = [table EXCEPT ![i] = [text |-> "new", pinned |-> pin]]
    /\ UNCHANGED <<draft, gone>>

DeleteRow(i) ==
    /\ i \in Present
    /\ table' = [table EXCEPT ![i] = Absent]
    /\ gone' = gone \union {i}
    /\ UNCHANGED draft

------------------------------------------------------------------------------
(* Changing a row: read, change the copy, write back.                      *)

\* GetEvent, GetNote: an unknown id is an error.
ReadRow(c, i, row) ==
    /\ draft[c] = NoDraft
    /\ i \in Present
    /\ draft' = [draft EXCEPT ![c] = [id |-> i, row |-> row]]
    /\ UNCHANGED <<table, gone>>

\* calendar_update_event: the times that are given replace the old ones, and
\* nobody checks their order any more.
updateEvent(c, i) ==
    /\ i \in EventId \intersect Present
    /\ \E t \in Hour : \/ ReadRow(c, i, [table[i] EXCEPT !.start = t])
                       \/ ReadRow(c, i, [table[i] EXCEPT !.end = t])

updateNote(c, i) ==
    /\ i \in NoteId \intersect Present
    /\ ReadRow(c, i, [table[i] EXCEPT !.text = "edited"])

\* notes_pin is a read and a write of the whole row as well.
PinNote(c, i) ==
    /\ i \in NoteId \intersect Present
    /\ \E pin \in BOOLEAN : ReadRow(c, i, [table[i] EXCEPT !.pinned = pin])

\* UPDATE ... WHERE id = :id: a row that is gone is not an error, and stays
\* gone.
UpdateRow(i, row) == IF i \in Present THEN [table EXCEPT ![i] = row] ELSE table

WriteBack(c) ==
    /\ draft[c] # NoDraft
    /\ table' = UpdateRow(draft[c].id, draft[c].row)
    /\ draft' = [draft EXCEPT ![c] = NoDraft]
    /\ UNCHANGED gone

------------------------------------------------------------------------------
(* Looking for free time.                                                  *)

\* The events that start between the two times, by their start; those that
\* start together come in any order.
ListEvents(from, to) ==
    LET read == {i \in EventId \intersect Present : table[i].start \in from..to}
    IN  {ids \in [1..Cardinality(read) -> read] :
            /\ ToSet(ids) = read
            /\ \A j, k \in DOMAIN ids : j < k => table[ids[j]].start <= table[ids[k]].start}

SlotOf(a, b, min) == IF b > a /\ b - a >= min THEN <<[start |-> a, end |-> b]>> ELSE <<>>

\* Bug: the cursor follows every event.
Follows(cursor, e) == e.end
\* The cursor only moves forward: an event inside a longer one is passed over.
Moves(cursor, e) == IF e.end > cursor THEN e.end ELSE cursor

\* A slot goes up to each event, as far as the cursor is behind its start.
FindAvailableSlots(ids, from, to, min) ==
    LET Cursor[k \in 0..Len(ids)] ==
            IF k = 0 THEN from ELSE Moves(Cursor[k - 1], table[ids[k]])
        Free[k \in 0..Len(ids)] ==
            IF k = 0 THEN <<>>
            ELSE Free[k - 1] \o SlotOf(Cursor[k - 1], table[ids[k]].start, min)
    IN Free[Len(ids)] \o SlotOf(Cursor[Len(ids)], to, min)

\* calendar_find_slots: a length of zero or less asks for the default.
minutes(wanted) == IF wanted = 0 THEN DefaultMinutes ELSE wanted

findSlots(ids, from, to, wanted) == FindAvailableSlots(ids, from, to, minutes(wanted))

------------------------------------------------------------------------------

PlannerNext ==
    \/ \E i, j \in EventId, e, f \in Event : CreateEvents(i, j, e, f)
    \/ \E i \in NoteId : CreateNotes(i)
    \/ \E i \in RowId : DeleteRow(i)
    \/ \E c \in Caller, i \in RowId : updateEvent(c, i) \/ updateNote(c, i) \/ PinNote(c, i)
    \/ \E c \in Caller : WriteBack(c)

PlannerSpec == PlannerInit /\ [][PlannerNext]_plannerVars

PlannerTypeOK ==
    /\ \A i \in Present : table[i] \in IF i \in EventId THEN Event ELSE Note
    /\ \A c \in Caller : draft[c].id \in RowId \union {Absent}
    /\ gone \subseteq RowId

(***************************************************************************)
(* The free slots are the free time: they are the stretches of the window, *)
(* of the length asked for, that no event covers - of the events that      *)
(* start in the window, the only ones that are read.  This holds for       *)
(* events inside one another, for empty ones (which still part the time    *)
(* around them), and for the ones an update left ending before they start. *)
(***************************************************************************)
InWindow(from, to) == {table[i] : i \in {k \in EventId \intersect Present :
                                             table[k].start \in from..to}}
Busy(events, a, b) == \E e \in events, h \in a..(b - 1) : e.start <= h /\ h < e.end

\* Each slot is in the window, long enough, and no event is in it.
OnlyFreeTime(free, events, from, to, min) ==
    \A k \in DOMAIN free :
        /\ from <= free[k].start /\ free[k].end <= to
        /\ free[k].end - free[k].start >= min
        /\ ~Busy(events, free[k].start, free[k].end)

\* Each stretch that is long enough and no event is in, or parts, is in a slot.
AllFreeTime(free, events, from, to, min) ==
    \A a, b \in from..to :
        /\ b - a >= min /\ ~Busy(events, a, b)
        /\ \A e \in events : ~(a < e.start /\ e.start < b)
        => \E k \in DOMAIN free : free[k].start <= a /\ b <= free[k].end

SlotsAreFree ==
    \A from, to \in Hour, wanted \in 0..DefaultMinutes + 1 :
        \A ids \in ListEvents(from, to) :
            LET free   == findSlots(ids, from, to, wanted)
                events == InWindow(from, to)
            IN  /\ OnlyFreeTime(free, events, from, to, minutes(wanted))
                /\ AllFreeTime(free, events, from, to, minutes(wanted))

(***************************************************************************)
(* What was deleted stays deleted: a call that read a row before it was    *)
(* deleted, and writes its copy back after, does not bring the row back.   *)
(***************************************************************************)
DeletedStaysGone == \A i \in gone : table[i] = Absent

\* What the planner tells of the rows, and what concurrent calls leave of them.
PlannerIsSound == SlotsAreFree /\ DeletedStaysGone

\* The planner is sound, on every calendar there was something on.
PlannerStaysSound == Present \union gone # {} => PlannerIsSound
============================================================================
