------------------------------- MODULE Tasks -------------------------------
(***************************************************************************)
(* Projects and tasks: the skill that agents call, the local connector     *)
(* under it and the tables (pkg/skills/tasks, pkg/connectors/local/tasks,  *)
(* sqlite/productivity.go).  Agents run at the same time and the store     *)
(* takes one statement at a time, so a tool that reads a row and writes it *)
(* back, or that creates several rows, interleaves with every other.       *)
(***************************************************************************)
EXTENDS Naturals, Sequences, FiniteSets

CONSTANTS
  Agent,     \* agents that call the skill
  TaskId,    \* ids of tasks, each given once
  Project,   \* ids of projects, each given once
  NoRow,     \* what a table holds under an id without a row
  Unassigned \* the empty project id

VARIABLES
  projects,   \* rows of projects
  madeProjects, \* ids of projects that were given
  tasks,      \* rows of tasks
  madeTasks,  \* ids of tasks that were given
  toolCall    \* what an agent is in the middle of, or was told last

taskVars == <<projects, madeProjects, tasks, madeTasks, toolCall>>

TaskStatus == {"todo", "done"}
TaskRow == [project : Project \union {Unassigned}, status : TaskStatus, completed : BOOLEAN]

ASSUME TaskAssumption == NoRow \notin TaskRow /\ Unassigned \notin Project

Item == [title : BOOLEAN, project : Project \union {Unassigned}]  \* what a task is asked for
Batch == {<<x>> : x \in Item} \union (Item \X Item)               \* bound: two items

Free == [op |-> "free"]
Refused == [op |-> "refused"]  \* a project was not deleted
Creating == [op : {"create", "insert", "counted"}, todo : Batch \union {<<>>}, created : SUBSET TaskId,
             failed : 0..2, asked : 1..2]
Changing == [op : {"find project", "write"}, id : TaskId, row : TaskRow]

TaskTypeOK ==
  /\ projects \subseteq madeProjects /\ madeProjects \subseteq Project
  /\ madeTasks \subseteq TaskId
  /\ tasks \in [TaskId -> TaskRow \union {NoRow}]
  /\ \A a \in Agent : toolCall[a] \in {Free, Refused} \union Creating \union Changing

TaskInit ==
  /\ projects = {} /\ madeProjects = {}
  /\ tasks = [i \in TaskId |-> NoRow] /\ madeTasks = {}
  /\ toolCall = [a \in Agent |-> Free]

TaskRows == {i \in TaskId : tasks[i] # NoRow}
NoToolCall(a) == toolCall[a].op \in {"free", "refused", "counted"}
Becomes(a, what) == toolCall' = [toolCall EXCEPT ![a] = what]

(********************************** Tables **********************************)

\* Bug: the pragma is not set.
NotEnforced(row) == TRUE

\* Foreign keys are on, and a task's project is not null: it must be a row, and
\* there is no row with the empty id.
ForeignKeyHolds(row) == row.project \in projects

\* An update of no row is no error; the connector then fails to read it back.
UpdateTask(i, row) ==
  IF i \in TaskRows /\ ForeignKeyHolds(row) THEN tasks' = [tasks EXCEPT ![i] = row] ELSE UNCHANGED tasks

\* One statement: a status and the time of completion.
CompleteTask(i) ==
  tasks' = [j \in TaskId |-> IF j = i /\ i \in TaskRows
                               THEN [tasks[i] EXCEPT !.status = "done", !.completed = TRUE]
                               ELSE tasks[j]]

\* ON DELETE SET DEFAULT would leave the tasks of the project with the empty
\* id, which is no project: the statement fails while there is such a task.
ProjectCanGo(p) == \A i \in TaskRows : tasks[i].project # p

(********************************* Projects *********************************)

createProject(a) ==
  /\ NoToolCall(a)
  /\ \E p \in Project \ madeProjects :
       projects' = projects \union {p} /\ madeProjects' = madeProjects \union {p}
  /\ Becomes(a, Free)
  /\ UNCHANGED <<tasks, madeTasks>>

deleteProject(a) ==
  /\ NoToolCall(a)
  /\ \E p \in madeProjects :
       \/ ProjectCanGo(p) /\ projects' = projects \ {p} /\ Becomes(a, Free)
       \/ ~ProjectCanGo(p) /\ UNCHANGED projects /\ Becomes(a, Refused)
  /\ UNCHANGED <<madeProjects, tasks, madeTasks>>

(****************************** Creating tasks ******************************)

\* The whole batch is parsed before the first task is created.
createTasks(a) ==
  /\ NoToolCall(a)
  /\ \E batch \in Batch :
       Becomes(a, [op |-> "create", todo |-> batch, created |-> {}, failed |-> 0, asked |-> Len(batch)])
  /\ UNCHANGED <<projects, madeProjects, tasks, madeTasks>>

\* A title, and a project that is there, unless it is empty.
Accepts(item) == item.title /\ (item.project # Unassigned => item.project \in projects)

\* The batch goes on after a task that could not be created.
AfterOne(a, c) ==
  Becomes(a, [c EXCEPT !.todo = Tail(@), !.op = IF Len(c.todo) > 1 THEN "create" ELSE "counted"])

\* The project is looked for, and the row is inserted by a later statement.
createTask(a) ==
  LET c == toolCall[a] IN
  /\ c.op = "create"
  /\ IF Accepts(Head(c.todo)) THEN Becomes(a, [c EXCEPT !.op = "insert"])
     ELSE AfterOne(a, [c EXCEPT !.failed = @ + 1])
  /\ UNCHANGED <<projects, madeProjects, tasks, madeTasks>>

InsertTask(a) ==
  LET c == toolCall[a]
      row == [project |-> Head(c.todo).project, status |-> "todo", completed |-> FALSE]
  IN /\ c.op = "insert"
     /\ IF ForeignKeyHolds(row)
          THEN \E i \in TaskId \ madeTasks :
                 /\ tasks' = [tasks EXCEPT ![i] = row] /\ madeTasks' = madeTasks \union {i}
                 /\ AfterOne(a, [c EXCEPT !.created = @ \union {i}])
          ELSE /\ UNCHANGED <<tasks, madeTasks>>
               /\ AfterOne(a, [c EXCEPT !.failed = @ + 1])
     /\ UNCHANGED <<projects, madeProjects>>

(****************************** Changing tasks ******************************)

\* A row is read, changed in memory, and written in a later statement.
ReadTask(a, i, op, changed) ==
  /\ NoToolCall(a)
  /\ Becomes(a, IF i \in TaskRows THEN [op |-> op, id |-> i, row |-> changed] ELSE Free)
  /\ UNCHANGED <<projects, madeProjects, tasks, madeTasks>>

\* The status and the project are written as they are given.
updateTask(a) ==
  \E i \in madeTasks, s \in TaskStatus, p \in madeProjects :
    ReadTask(a, i, "write", [tasks[i] EXCEPT !.status = s, !.project = p])

setPriority(a) == \E i \in madeTasks : ReadTask(a, i, "write", tasks[i])

\* A move looks for its project, unless it is empty.
MoveToProject(a) ==
  \E i \in madeTasks, p \in madeProjects \union {Unassigned} :
    ReadTask(a, i, "find project", [tasks[i] EXCEPT !.project = p])

FindProject(a) ==
  LET c == toolCall[a] IN
  /\ c.op = "find project"
  /\ Becomes(a, IF c.row.project \in projects \union {Unassigned} THEN [c EXCEPT !.op = "write"] ELSE Free)
  /\ UNCHANGED <<projects, madeProjects, tasks, madeTasks>>

WriteTask(a) ==
  /\ toolCall[a].op = "write"
  /\ UpdateTask(toolCall[a].id, toolCall[a].row)
  /\ Becomes(a, Free)
  /\ UNCHANGED <<projects, madeProjects, madeTasks>>

completeTask(a) ==
  /\ NoToolCall(a)
  /\ \E i \in madeTasks : CompleteTask(i)
  /\ Becomes(a, Free)
  /\ UNCHANGED <<projects, madeProjects, madeTasks>>

deleteTask(a) ==
  /\ NoToolCall(a)
  /\ \E i \in madeTasks : tasks' = [tasks EXCEPT ![i] = NoRow]
  /\ Becomes(a, Free)
  /\ UNCHANGED <<projects, madeProjects, madeTasks>>

TaskNext ==
  \E a \in Agent :
    \/ createProject(a) \/ deleteProject(a)
    \/ createTasks(a) \/ createTask(a) \/ InsertTask(a)
    \/ updateTask(a) \/ setPriority(a) \/ MoveToProject(a) \/ FindProject(a) \/ WriteTask(a)
    \/ completeTask(a) \/ deleteTask(a)

TaskSpec == TaskInit /\ [][TaskNext]_taskVars

(******************************** Properties ********************************)

\* The project of a task is there, though a task is created or moved after its
\* project was looked for and while other agents delete projects: it is the
\* foreign key, not the checks of the connector, that keeps it so.
TasksHaveTheirProject == \A i \in TaskRows : tasks[i].project \in projects

\* The answer of a batch accounts for every item: what was created and what
\* failed make up what was asked for, and what it names was created.
BatchesAreAccounted ==
  \A a \in Agent :
    LET c == toolCall[a] IN
    c.op = "counted" => c.asked = c.failed + Cardinality(c.created) /\ c.created \subseteq madeTasks

\* What the tables and the answers of the tools promise an agent together.
TasksAreSound == TasksHaveTheirProject /\ BatchesAreAccounted
=============================================================================
