----------------------------- MODULE HermesImport ------------------------------
(* A board of Hermes is imported while its agents work on it                   *)
(* (hermes_import.py).  The importer reads the five tables one after another,  *)
(* each as it is at that moment; what it makes of them replaces the rows of    *)
(* the same ids.  Runs are numbered by the board, so two boards have the same  *)
(* numbers.                                                                    *)
EXTENDS Naturals, FiniteSets

CONSTANTS None, Board, Task, Agent, Outcome, MaxRows, MaxImports

Table == <<"tasks", "runs", "events", "links", "comments">>
Unknown == "unknown"

VARIABLES
  board,      \* [Board -> its tables]
  seen,       \* what the import has read: its board, how many tables, their rows
  kyoko,      \* the stored rows, by id
  imports,    \* imports so far
  began,      \* history: the board as it was when the import began
  last        \* history: the board imported last, and began of it

vars == <<board, seen, kyoko, imports, began, last>>

Empty == [tasks |-> {}, runs |-> {}, events |-> {}, links |-> {}, comments |-> {}]

Init ==
  /\ board = [b \in Board |-> Empty] /\ seen = None
  /\ kyoko = [tasks |-> {}, runs |-> {}, handoffs |-> {}, events |-> {}, agents |-> {}]
  /\ imports = 0 /\ began = None /\ last = None

--------------------------------------------------------------------------------
(* Hermes at work: a task, a run that claims one and ends, a dependency        *)

TaskOf(b, t) == {row \in board[b].tasks : row.id = t}
Rows(b) == Cardinality(board[b].tasks) + Cardinality(board[b].runs)
           + Cardinality(board[b].links) + Cardinality(board[b].comments)

Put(b, table, row) ==
  /\ Rows(b) < MaxRows
  /\ board' = [board EXCEPT ![b][table] = @ \cup {row}]
  /\ UNCHANGED <<seen, kyoko, imports, began, last>>

NewTask(b, t, agent) ==
  TaskOf(b, t) = {} /\ Put(b, "tasks", [id |-> t, agent |-> agent, status |-> "ready"])

Claim(b, t, agent) ==
  /\ \E row \in TaskOf(b, t) :
       /\ row.status = "ready" /\ Rows(b) < MaxRows
       /\ board' = [board EXCEPT
            ![b].tasks = (@ \ {row}) \cup {[row EXCEPT !.status = "running"]},
            ![b].runs = @ \cup {[id |-> Cardinality(@) + 1, task |-> t, agent |-> agent, status |-> "running", outcome |-> None]}]
  /\ UNCHANGED <<seen, kyoko, imports, began, last>>

\* The run ends and its task is done, or ready again; who says so is an event.
End(b, outcome) == \E run \in board[b].runs :
  /\ run.status = "running"
  /\ board' = [board EXCEPT
       ![b].tasks = {IF row.id = run.task THEN [row EXCEPT !.status = IF outcome = "completed" THEN "done" ELSE "ready"] ELSE row : row \in @},
       ![b].runs = (@ \ {run}) \cup {[run EXCEPT !.status = "done", !.outcome = outcome]},
       ![b].events = @ \cup {[id |-> run.id, task |-> run.task, agent |-> run.agent]}]
  /\ UNCHANGED <<seen, kyoko, imports, began, last>>

Link(b, from, to) ==
  from # to /\ TaskOf(b, from) # {} /\ TaskOf(b, to) # {} /\ Put(b, "links", [from |-> from, to |-> to])

Comment(b, t, agent) == TaskOf(b, t) # {} /\ Put(b, "comments", [task |-> t, agent |-> agent])

--------------------------------------------------------------------------------
(* The import                                                                  *)

Begin(b) ==
  /\ seen = None /\ imports < MaxImports
  /\ seen' = [board |-> b, read |-> 0, rows |-> Empty]
  /\ imports' = imports + 1 /\ began' = board[b]
  /\ UNCHANGED <<board, kyoko, last>>

\* One SELECT, outside any transaction.
SelectAll ==
  /\ seen # None /\ seen.read < 5
  /\ LET table == Table[seen.read + 1]
     IN  seen' = [seen EXCEPT !.read = @ + 1, !.rows[table] = board[seen.board][table]]
  /\ UNCHANGED <<board, kyoko, imports, began, last>>

\* The agent of a task stands for its assignee and for who created it.
AgentNames(rows) ==
  {Unknown} \cup ({r.agent : r \in rows.tasks \cup rows.runs \cup rows.comments} \ {None})
AgentId(rows, name) == IF name \in AgentNames(rows) THEN name ELSE Unknown

Known(rows, t) == \E row \in rows.tasks : row.id = t

\* The outcome decides, if there is one.
Selected(run) == IF run.outcome # None THEN run.outcome ELSE run.status
RunStatus(run) ==
  CASE Selected(run) \in {"completed", "done"} -> "succeeded"
    [] Selected(run) \in {"running", "timed_out"} -> Selected(run)
    [] Selected(run) \in {"blocked", "crashed", "failed", "spawn_failed", "gave_up"} -> "failed"
    [] Selected(run) \in {"released", "reclaimed"} -> "cancelled"
    [] OTHER -> Unknown
AttemptStatus(run) ==
  CASE Selected(run) = "completed" -> "done"
    [] Selected(run) \in {"running", "done", "blocked", "crashed", "timed_out", "failed", "released"} -> Selected(run)
    [] OTHER -> IF run.status = "done" THEN "done" ELSE Unknown

\* Variant: the runs of tasks that were not read, too.
RunsOfAny(rows) == rows.runs

\* A run whose task came after the tasks were read is left out.
RunsOf(rows) == {run \in rows.runs : Known(rows, run.task)}

\* Attempt, run and root span are one row here.
RunRow(rows, b, run) ==
  LET task == CHOOSE row \in rows.tasks \cup {[id |-> run.task, agent |-> None]} : row.id = run.task
      name == IF run.agent # None THEN run.agent ELSE task.agent
  IN  [id |-> run.id, board |-> b, task |-> run.task, agent |-> AgentId(rows, name),
       status |-> RunStatus(run), attempt |-> AttemptStatus(run)]

LatestRunId(rows, t) ==
  LET ids == {run.id : run \in {r \in rows.runs : r.task = t}}
  IN  IF ids = {} THEN None ELSE CHOOSE i \in ids : \A j \in ids : j <= i

Handoffs(rows) ==
  {[from |-> l.from, to |-> l.to, run |-> LatestRunId(rows, l.from)] :
     l \in {l \in rows.links : Known(rows, l.from) /\ Known(rows, l.to)}}

\* An author that no task, run or comment names is nobody.
Timeline(rows) ==
  {[kind |-> "event", task |-> e.task, agent |-> IF e.agent \in AgentNames(rows) THEN e.agent ELSE None] :
     e \in {e \in rows.events : Known(rows, e.task)}}
  \cup {[kind |-> "commented", task |-> c.task, agent |-> AgentId(rows, c.agent)] :
     c \in {c \in rows.comments : Known(rows, c.task)}}

Normalized(b, rows) ==
  [tasks |-> {[id |-> t.id, board |-> b, agent |-> AgentId(rows, t.agent), status |-> t.status] : t \in rows.tasks},
   runs |-> {RunRow(rows, b, run) : run \in RunsOf(rows)}, handoffs |-> Handoffs(rows),
   events |-> Timeline(rows), agents |-> AgentNames(rows)]

\* Rows of the same id are replaced, whatever board they came from.
Replacing(old, new) == {row \in old : \A n \in new : n.id # row.id} \cup new

Ingest ==
  /\ seen # None /\ seen.read = 5
  /\ LET new == Normalized(seen.board, seen.rows)
     IN  kyoko' = [tasks |-> Replacing(kyoko.tasks, new.tasks), runs |-> Replacing(kyoko.runs, new.runs),
                   handoffs |-> {h \in kyoko.handoffs : \A n \in new.handoffs : <<n.from, n.to>> # <<h.from, h.to>>} \cup new.handoffs,
                   events |-> kyoko.events \cup new.events, agents |-> kyoko.agents \cup new.agents]
  /\ seen' = None /\ last' = [board |-> seen.board, was |-> began]
  /\ UNCHANGED <<board, imports, began>>

Next ==
  \/ \E b \in Board, t \in Task, agent \in Agent \cup {None} : NewTask(b, t, agent)
  \/ \E b \in Board, t \in Task, agent \in Agent : Claim(b, t, agent)
  \/ \E b \in Board, outcome \in Outcome : End(b, outcome)
  \/ \E b \in Board, from, to \in Task : Link(b, from, to)
  \/ \E b \in Board, t \in Task, agent \in Agent : Comment(b, t, agent)
  \/ \E b \in Board : Begin(b)
  \/ SelectAll \/ Ingest

--------------------------------------------------------------------------------
(* Properties                                                                  *)

(* However the agents worked while their board was read, its import is whole:  *)
(* all it stores refers to what is stored, and what was on the board when it   *)
(* began is there, with the outcome of each run that had ended                 *)
(* (docs/specs/0001-canonical-model.md:299).                              *)
BoardIsMirrored ==
  /\ \A run \in kyoko.runs : (\E t \in kyoko.tasks : t.id = run.task) /\ run.agent \in kyoko.agents
  /\ \A h \in kyoko.handoffs :
       /\ {h.from, h.to} \subseteq {t.id : t \in kyoko.tasks}
       /\ h.run # None => h.run \in {run.id : run \in kyoko.runs}
  /\ last # None =>
       /\ {t.id : t \in last.was.tasks} \subseteq {t.id : t \in {t \in kyoko.tasks : t.board = last.board}}
       /\ \A was \in last.was.runs : \E run \in kyoko.runs :
            /\ run.id = was.id /\ run.board = last.board /\ run.task = was.task
            /\ was.outcome # None => run.status = RunStatus(was)
       /\ \A l \in last.was.links : \E h \in kyoko.handoffs : h.from = l.from /\ h.to = l.to
       /\ \A c \in last.was.comments : [kind |-> "commented", task |-> c.task, agent |-> c.agent] \in kyoko.events

(* The runs of one board are not taken for those of another: they are.         *)
BoardsAreKeptApart ==
  [][\A row \in kyoko.runs : \E new \in kyoko'.runs : new.id = row.id /\ new.board = row.board]_vars

(* A task that runs has no run that has ended well: read before its run ended, *)
(* it does.                                                                    *)
TaskAgreesWithRuns ==
  \A t \in kyoko.tasks : t.status = "running" =>
    ~\E run \in kyoko.runs : run.board = t.board /\ run.task = t.id /\ run.status = "succeeded"
================================================================================
