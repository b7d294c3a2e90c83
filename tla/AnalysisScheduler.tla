--------------------------- MODULE AnalysisScheduler ---------------------------
(***************************************************************************)
(* Analysis of new traces: schedules, the scheduler thread, the single       *)
(* worker of `kyoko serve`, jobs run by the CLI, the watermarks that say what *)
(* was analyzed, and cancellation (kyoko/analysis_runner.py, cancellation.py, *)
(* and the schedule rows of storage.py).                                      *)
(*                                                                         *)
(* Time is abstract: a schedule is unarmed, armed for later, or due, and a    *)
(* trace has a start second. Traces are ingested at any moment, in any order. *)
(***************************************************************************)
EXTENDS Naturals, Sequences, FiniteSets, SequencesExt, FiniteSetsExt

CONSTANTS
  Traces,       \* runs of the agent
  MaxTime,      \* start seconds are 1..MaxTime, 0 stands for NULL
  Schedules,
  Judges,       \* the schedules whose analyzer is llm_judge
  Profile,      \* owner of the cursor of jobs that have no schedule
  Server,       \* the process of kyoko serve
  Processes,    \* Server and the CLI processes that may run jobs
  Requests,     \* jobs a human may ask for: [scope, since, trace]
  CorpusLimit,  \* DEFAULT_CORPUS_LIMIT
  MaxQueue,     \* bound on the queue when a human adds to it
  MaxTrouble,   \* bound on failures, cancels and crashes together
  None

Owners == Schedules \cup {Profile}
Seconds == 0..MaxTime

Request == [scope : {"new", "all", "run", "issue"}, since : Seconds,
            trace : Traces \cup {None}]

ASSUME SchedulerAssumption ==
  /\ IsFiniteSet(Schedules) /\ Judges \subseteq Schedules /\ Profile \notin Schedules
  /\ Server \in Processes
  /\ Requests \subseteq Request
  /\ \A r \in Requests : r.scope = "run" <=> r.trace # None
  /\ MaxTime \in Nat /\ CorpusLimit \in Nat /\ MaxQueue \in Nat /\ MaxTrouble \in Nat

VARIABLES
  started,    \* second each trace started, 0 until it is ingested
  schedule,   \* rows of analysis_schedules
  watermark,  \* analysis_schedules.watermark and profiles.analysis_watermark
  tick,       \* the scheduler thread: snapshots still to handle, job to submit
  queue,      \* AnalysisRunner._queue
  worker,     \* the job each process is running
  canceller,  \* a request to cancel the job of the server
  up,         \* whether kyoko serve runs
  trouble,    \* failures, cancels and crashes so far
  settled,    \* history: traces covered by successful jobs of each cursor
  missed,     \* history: traces whose turn failed in a job that succeeded
  late        \* history: traces ingested behind a scan, a cursor or a cutoff in use

env == <<up, trouble>>
history == <<settled, missed, late>>
vars == <<started, schedule, watermark, tick, queue, worker, canceller, up,
          trouble, settled, missed, late>>

Job == [owner : Owners, scope : {"new", "all", "run", "issue"}, since : Seconds,
        trace : Traces \cup {None}]

\* A worker resolves a scope, then runs turns of an operator process.
Worker == [pc : {"idle", "begun", "resolved", "ready", "spawned", "registered",
                 "running", "done"},
           job : Job \cup {None},
           since : Seconds, after : Seconds,
           visible : SUBSET Traces,   \* what the scan could see
           todo : SUBSET (SUBSET Traces), turn : SUBSET Traces,
           sweep : BOOLEAN,           \* one turn for each of several traces
           authoring : BOOLEAN,       \* the turn authors a proposal
           got : SUBSET Traces, failed : SUBSET Traces,
           flagged : BOOLEAN,         \* CancelToken._event
           known : BOOLEAN,           \* the process is in CancelToken._procs
           alive : BOOLEAN,           \* the operator process
           status : {"running", "succeeded", "skipped", "failed", "cancelled"}]

Idle == [pc |-> "idle", job |-> None, since |-> 0, after |-> 0, visible |-> {},
         todo |-> {}, turn |-> {}, sweep |-> FALSE, authoring |-> FALSE, got |-> {},
         failed |-> {}, flagged |-> FALSE, known |-> FALSE, alive |-> FALSE,
         status |-> "running"]

Snapshot == [id : Schedules, next : {"unarmed", "due"}, since : Seconds]

TypeOK ==
  /\ started \in [Traces -> Seconds]
  /\ schedule \in [Schedules -> [exists : BOOLEAN, enabled : BOOLEAN,
                                 next : {"unarmed", "later", "due"}]]
  /\ watermark \in [Owners -> Seconds]
  /\ tick \in [todo : Seq(Snapshot), armed : Job \cup {None}]
  /\ queue \in Seq(Job)
  /\ worker \in [Processes -> Worker]
  /\ canceller \in {"idle", "found", "flagged"}
  /\ up \in BOOLEAN /\ trouble \in 0..MaxTrouble
  /\ settled \in [Owners -> SUBSET Traces]
  /\ missed \in [Owners -> SUBSET Traces]
  /\ late \in [Owners -> SUBSET Traces]

Init ==
  /\ started = [t \in Traces |-> 0]
  /\ schedule \in [Schedules -> [exists : BOOLEAN, enabled : {TRUE},
                                 next : {"unarmed", "later"}]]
  /\ watermark = [o \in Owners |-> 0]
  /\ tick = [todo |-> <<>>, armed |-> None]
  /\ queue = <<>>
  /\ worker = [p \in Processes |-> Idle]
  /\ canceller = "idle" /\ up = TRUE /\ trouble = 0
  /\ settled = [o \in Owners |-> {}]
  /\ missed = settled /\ late = settled

--------------------------------------------------------------------------------
(* Queries *)

Ingested == {t \in Traces : started[t] # 0}

\* runs_newer_than: strictly newer, and all of them when there is no cutoff.
NewerThan(since) == {t \in Ingested : started[t] > since}

\* _profile_run_ids and resolve_corpus: at or after the cutoff.
FromOn(since) == {t \in Ingested : started[t] >= since}

Latest(traces) == Max({started[t] : t \in traces} \cup {0})

\* resolve_corpus: ordered by start, then id, and cut at the limit; which of the
\* traces of one second come first is left open.
Capped(traces) ==
  {kept \in SUBSET traces :
    /\ Cardinality(kept) = IF Cardinality(traces) > CorpusLimit
                           THEN CorpusLimit ELSE Cardinality(traces)
    /\ \A t \in kept, u \in traces \ kept : started[t] <= started[u]}

IsJudge(job) == job.owner \in Judges

JobOf(s, since) == [owner |-> s, scope |-> "new", since |-> since, trace |-> None]

--------------------------------------------------------------------------------
(* Outside: traces arrive, time passes, humans edit schedules, the server dies *)

\* Jobs that carry the cutoff of the moment they were made, and the cutoffs after
\* which an owner has been, or is about to be, asked for new traces.
Waiting == ToSet(queue) \cup ({tick.armed} \ {None})
           \cup {worker[p].job : p \in {q \in Processes : worker[q].pc = "begun"}}
Cutoffs(o) ==
  {watermark[o]} \cup {job.since : job \in {j \in Waiting : j.owner = o}}
  \cup {row.since : row \in {r \in ToSet(tick.todo) : r.id = o}}

\* Ingestion of a trace that started at any second.
Ingest(t, second) ==
  /\ started[t] = 0
  /\ started' = [started EXCEPT ![t] = second]
  /\ late' = [o \in Owners |-> IF \E cutoff \in Cutoffs(o) : second <= cutoff
                               THEN late[o] \cup {t} ELSE late[o]]
  /\ UNCHANGED <<schedule, watermark, tick, queue, worker, canceller, env, settled, missed>>

\* The next run time of a schedule comes. Bound: one of its jobs waits at most,
\* while another one may run.
TimePasses(s) ==
  /\ schedule[s].next = "later"
  /\ \A i \in 1..Len(queue) : queue[i].owner # s
  /\ schedule' = [schedule EXCEPT ![s].next = "due"]
  /\ UNCHANGED <<started, watermark, tick, queue, worker, canceller, env, history>>

SetEnabled(s, on) ==
  /\ schedule[s].exists /\ schedule[s].enabled # on
  /\ schedule' = [schedule EXCEPT ![s].enabled = on]
  /\ UNCHANGED <<started, watermark, tick, queue, worker, canceller, env, history>>

Delete(s) ==
  /\ schedule[s].exists
  /\ schedule' = [schedule EXCEPT ![s].exists = FALSE]
  /\ UNCHANGED <<started, watermark, tick, queue, worker, canceller, env, history>>

\* What a human may ask for: a request of the dashboard or the CLI, or a schedule
\* run now.
AdHoc(r) == [owner |-> Profile, scope |-> r.scope, since |-> r.since, trace |-> r.trace]

Asked == {AdHoc(r) : r \in Requests}
         \cup {JobOf(s, watermark[s]) : s \in {q \in Schedules : schedule[q].exists}}

\* AnalysisRunner.submit from the dashboard.
Submit(job) ==
  /\ up /\ Len(queue) < MaxQueue /\ job \in Asked
  /\ queue' = Append(queue, job)
  /\ UNCHANGED <<started, schedule, watermark, tick, worker, canceller, env, history>>

\* The server stops or dies: its threads are daemons and its queue is memory.
Crash ==
  /\ up /\ trouble < MaxTrouble
  /\ up' = FALSE /\ trouble' = trouble + 1
  /\ tick' = [todo |-> <<>>, armed |-> None] /\ queue' = <<>>
  /\ worker' = [worker EXCEPT ![Server] = Idle] /\ canceller' = "idle"
  /\ UNCHANGED <<started, schedule, watermark, history>>

Restart ==
  /\ ~up /\ up' = TRUE
  /\ UNCHANGED <<started, schedule, watermark, tick, queue, worker, canceller, trouble, history>>

--------------------------------------------------------------------------------
(* The scheduler thread *)

\* Variant: only due schedules are looked at.
TickListDue ==
  LET wanted == {s \in Schedules : /\ schedule[s].exists /\ schedule[s].enabled
                                   /\ schedule[s].next = "due"}
      Snap(s) == [id |-> s, next |-> schedule[s].next, since |-> watermark[s]]
  IN /\ up /\ tick.todo = <<>> /\ tick.armed = None /\ wanted # {}
     /\ tick' = [tick EXCEPT !.todo = [i \in 1..Cardinality(wanted) |->
                                         Snap(SetToSeq(wanted)[i])]]
     /\ UNCHANGED <<started, schedule, watermark, queue, worker, canceller, env, history>>

\* tick reads all enabled rows at once; those that are not due yet need nothing.
TickList ==
  LET wanted == {s \in Schedules : /\ schedule[s].exists /\ schedule[s].enabled
                                   /\ schedule[s].next # "later"}
      Snap(s) == [id |-> s, next |-> schedule[s].next, since |-> watermark[s]]
  IN /\ up /\ tick.todo = <<>> /\ tick.armed = None /\ wanted # {}
     /\ tick' = [tick EXCEPT !.todo = [i \in 1..Cardinality(wanted) |->
                                         Snap(SetToSeq(wanted)[i])]]
     /\ UNCHANGED <<started, schedule, watermark, queue, worker, canceller, env, history>>

\* An unarmed schedule is armed and does not fire; a due one is armed again
\* before its job is submitted. A deleted row raises, which ends the tick.
TickArm ==
  LET row == Head(tick.todo)
  IN /\ tick.todo # <<>> /\ tick.armed = None
     /\ IF schedule[row.id].exists
        THEN /\ tick' = [todo |-> Tail(tick.todo),
                         armed |-> IF row.next = "due" THEN JobOf(row.id, row.since) ELSE None]
             /\ schedule' = [schedule EXCEPT ![row.id].next = "later"]
        ELSE /\ tick' = [todo |-> <<>>, armed |-> None]
             /\ UNCHANGED schedule
     /\ UNCHANGED <<started, watermark, queue, worker, canceller, env, history>>

TickSubmit ==
  /\ tick.armed # None
  /\ queue' = Append(queue, tick.armed)
  /\ tick' = [tick EXCEPT !.armed = None]
  /\ UNCHANGED <<started, schedule, watermark, worker, canceller, env, history>>

--------------------------------------------------------------------------------
(* A job: execute_analysis_job, in the worker of the server or in a CLI process *)

ToWorker(p, w) ==
  /\ worker' = [worker EXCEPT ![p] = w]
  /\ UNCHANGED <<started, schedule, tick, queue>>

Begun(job) == [Idle EXCEPT !.pc = "begun", !.job = job]

\* cancellation.begin registers the token of a job that has started: a job that
\* is still queued cannot be found.
Take ==
  /\ up /\ worker[Server].pc = "idle" /\ queue # <<>>
  /\ worker' = [worker EXCEPT ![Server] = Begun(Head(queue))]
  /\ queue' = Tail(queue)
  /\ UNCHANGED <<started, schedule, watermark, tick, canceller, env, history>>

\* kyoko analysis-run and analysis-schedule-run run a job in their own process.
CliRun(p, job) ==
  /\ worker[p].pc = "idle" /\ job \in Asked
  /\ ToWorker(p, Begun(job))
  /\ UNCHANGED <<watermark, canceller, env, history>>

\* What the handlers of execute_analysis_job report of an exception.
Broken(w) == [Begun(w.job) EXCEPT !.pc = "done", !.visible = w.visible, !.after = w.after,
                                  !.flagged = w.flagged,
                                  !.status = IF w.flagged THEN "cancelled" ELSE "failed"]

Fails(p, w) ==
  /\ ToWorker(p, w)
  /\ trouble < MaxTrouble /\ trouble' = trouble + 1
  /\ UNCHANGED <<watermark, canceller, up, history>>

\* _resolve_scope: the cutoff, the cursor to record, and whether there is
\* anything to do. A job without a cutoff and a schedule reads the profile's.
CutoffOf(job) ==
  CASE job.scope # "new" -> 0
    [] job.scope = "new" /\ job.since = 0 /\ job.owner = Profile -> watermark[Profile]
    [] OTHER -> job.since

NewestOf(job, since) ==
  IF job.scope \in {"run", "issue"} THEN 0
  ELSE IF NewerThan(since) = {} THEN since ELSE Latest(NewerThan(since))

Resolved(w, since) ==
  LET skip == w.job.scope = "new" /\ NewerThan(since) = {}
  IN [w EXCEPT !.pc = IF skip THEN "done" ELSE "resolved",
               !.status = IF skip THEN "skipped" ELSE @,
               !.since = since, !.after = NewestOf(w.job, since), !.visible = Ingested]

Resolve(p) ==
  LET w == worker[p]
  IN /\ w.pc = "begun"
     /\ ToWorker(p, IF w.flagged THEN Broken(w) ELSE Resolved(w, CutoffOf(w.job)))
     /\ UNCHANGED <<watermark, canceller, env, history>>

\* The refresh import, or anything else before the first turn, raises.
ImportFails(p) == worker[p].pc = "begun" /\ Fails(p, Broken(worker[p]))

\* _dispatch: a sweep is one turn for each trace of its list, one by one unless
\* there is at most one of them; a judge scores what is left under the limit.
\* (The ace analyzer hands the database to a program of its own: module AceBridge.)
Turns(w) ==
  LET list == FromOn(w.since)
  IN CASE w.job.scope = "issue" -> {{}}
       [] w.job.scope = "run" -> {{{w.job.trace} \cap Ingested}}
       [] IsJudge(w.job) -> {{{t} : t \in kept} : kept \in Capped(list)}
       [] Cardinality(list) > 1 -> {{{t} : t \in list}}
       [] OTHER -> {{NewerThan(w.since)}}

Dispatch(p) ==
  LET w == worker[p]
  IN /\ w.pc = "resolved"
     /\ \/ w.flagged /\ ToWorker(p, Broken(w))
        \/ /\ ~ w.flagged
           /\ \E turns \in Turns(w) :
                ToWorker(p, [w EXCEPT !.pc = "ready", !.todo = turns,
                                      !.sweep = Cardinality(turns) > 1 /\ ~IsJudge(w.job)])
     /\ UNCHANGED <<watermark, canceller, env, history>>

\* Popen: the process runs before the token knows of it.
Spawn(p, turn) ==
  LET w == worker[p]
  IN /\ w.pc = "ready" /\ turn \in w.todo
     /\ ToWorker(p, [w EXCEPT !.pc = IF IsJudge(w.job) THEN "running" ELSE "spawned",
                              !.turn = turn, !.todo = @ \ {turn}, !.alive = TRUE])
     /\ UNCHANGED <<watermark, canceller, env, history>>

\* After the sweep, a turn may author a proposal for an issue it surfaced.
SpawnAuthor(p) ==
  LET w == worker[p]
  IN /\ w.pc = "ready" /\ w.todo = {} /\ ~IsJudge(w.job)
     /\ w.sweep => w.got # {}
     /\ ToWorker(p, [w EXCEPT !.pc = "spawned", !.turn = {}, !.authoring = TRUE,
                              !.alive = TRUE])
     /\ UNCHANGED <<watermark, canceller, env, history>>

\* register_proc: the process is added to the token, ...
Register(p) ==
  /\ worker[p].pc = "spawned"
  /\ ToWorker(p, [worker[p] EXCEPT !.pc = "registered", !.known = TRUE])
  /\ UNCHANGED <<watermark, canceller, env, history>>

\* Variant: the flag is not looked at again.
RegisterUnchecked(p) ==
  /\ worker[p].pc = "registered"
  /\ ToWorker(p, [worker[p] EXCEPT !.pc = "running"])
  /\ UNCHANGED <<watermark, canceller, env, history>>

\* ... and killed if a cancel came first: a process counts as dead once its group
\* has been sent SIGTERM, which an operator process does not outlive for long.
RegisterCheck(p) ==
  LET w == worker[p]
  IN /\ w.pc = "registered"
     /\ ToWorker(p, [w EXCEPT !.pc = "running", !.alive = @ /\ ~w.flagged])
     /\ UNCHANGED <<watermark, canceller, env, history>>

\* The process exits and its output is persisted. A cancelled one raises; the
\* judge's process belongs to no token.
TurnSucceeds(p) ==
  LET w == worker[p]
  IN /\ w.pc = "running"
     /\ IF w.flagged /\ ~IsJudge(w.job)
        THEN ToWorker(p, Broken(w))
        ELSE ToWorker(p, [w EXCEPT !.pc = IF w.authoring THEN "done" ELSE "ready",
                                   !.status = IF w.authoring THEN "succeeded" ELSE @,
                                   !.got = @ \cup w.turn, !.turn = {},
                                   !.alive = FALSE, !.known = FALSE])
     /\ UNCHANGED <<watermark, canceller, env, history>>

\* The process fails or times out: a sweep moves on to its next trace, anything
\* else ends the job.
TurnFails(p) ==
  LET w == worker[p]
  IN /\ w.pc = "running"
     /\ Fails(p, IF w.sweep /\ ~w.authoring
                 THEN [w EXCEPT !.pc = "ready", !.failed = @ \cup w.turn,
                                !.turn = {}, !.alive = FALSE, !.known = FALSE]
                 ELSE Broken(w))

\* No turn is left: nothing analyzed at all is a failure (no_traces_analyzed).
Finish(p) ==
  LET w == worker[p]
  IN /\ w.pc = "ready" /\ w.todo = {} /\ w.job.scope # "issue"
     /\ ToWorker(p, IF w.sweep /\ w.got = {} THEN Broken(w)
                    ELSE [w EXCEPT !.pc = "done", !.status = "succeeded"])
     /\ UNCHANGED <<watermark, canceller, env, history>>

CleanRun(w) == w.status \in {"succeeded", "skipped"}

\* Variant: the cursor moves to the newest trace there is by now.
RecordedNow(w) == IF CleanRun(w) /\ w.after # 0 THEN Latest(Ingested) ELSE watermark[w.job.owner]

\* Where _record_schedule leaves the cursor of the job's owner: a clean run
\* of a corpus moves it, anything else keeps it.
Recorded(w) ==
  LET o == w.job.owner
  IN IF /\ CleanRun(w) /\ w.after # 0
        /\ o = Profile \/ schedule[o].exists
     THEN w.after ELSE watermark[o]

\* The result is recorded and the token dropped, whatever a cancel still does.
Record(p) ==
  LET w == worker[p]
      o == w.job.owner
  IN /\ w.pc = "done"
     /\ ToWorker(p, Idle)
     /\ watermark' = [watermark EXCEPT ![o] = Recorded(w)]
     /\ canceller' = IF p = Server THEN "idle" ELSE canceller
     /\ settled' = [settled EXCEPT ![o] = IF CleanRun(w) THEN @ \cup w.got ELSE @]
     /\ missed' = [missed EXCEPT ![o] = IF CleanRun(w) THEN @ \cup w.failed ELSE @]
     /\ late' = [late EXCEPT ![o] =
                   @ \cup {t \in Ingested \ w.visible : CleanRun(w) /\ started[t] <= w.after}]
     /\ UNCHANGED env

--------------------------------------------------------------------------------
(* Cancellation: request_cancel, in a thread of the server *)

\* The registry holds the job that runs; asking again changes nothing.
CancelFind ==
  /\ up /\ canceller = "idle" /\ trouble < MaxTrouble
  /\ worker[Server].pc # "idle" /\ ~worker[Server].flagged
  /\ canceller' = "found" /\ trouble' = trouble + 1
  /\ UNCHANGED <<started, schedule, watermark, tick, queue, worker, up, history>>

\* CancelToken.request: the flag first, ...
CancelFlag ==
  /\ canceller = "found"
  /\ canceller' = "flagged"
  /\ ToWorker(Server, [worker[Server] EXCEPT !.flagged = TRUE])
  /\ UNCHANGED <<watermark, env, history>>

\* ... then every process the token knows is terminated.
CancelKill ==
  /\ canceller = "flagged"
  /\ canceller' = "idle"
  /\ ToWorker(Server, [worker[Server] EXCEPT !.alive = @ /\ ~worker[Server].known])
  /\ UNCHANGED <<watermark, env, history>>

--------------------------------------------------------------------------------
Scheduler == TickList \/ TickArm \/ TickSubmit

Run(p) ==
  \/ Resolve(p) \/ ImportFails(p) \/ Dispatch(p)
  \/ \E turn \in SUBSET Traces : Spawn(p, turn)
  \/ SpawnAuthor(p) \/ Register(p) \/ RegisterCheck(p)
  \/ TurnSucceeds(p) \/ TurnFails(p) \/ Finish(p) \/ Record(p)

Cancel == CancelFind \/ CancelFlag \/ CancelKill

Arrive == \E t \in Traces, second \in 1..MaxTime : Ingest(t, second)

Ask == \E job \in Job : Submit(job) \/ \E p \in Processes \ {Server} : CliRun(p, job)

Edit == \E s \in Schedules : TimePasses(s) \/ Delete(s) \/ \E on \in BOOLEAN : SetEnabled(s, on)

Next ==
  \/ Scheduler \/ Take \/ (\E p \in Processes : Run(p)) \/ Cancel
  \/ Arrive \/ Edit \/ Ask \/ Crash \/ Restart

Spec == Init /\ [][Next]_vars

\* The threads of a running server make progress, an operator process exits or
\* is killed at its timeout, time passes, and a server that stopped is started
\* again. Failures, cancels and crashes are finitely many (MaxTrouble).
Fairness ==
  /\ \A s \in Schedules : WF_vars(TimePasses(s))
  /\ WF_vars(Scheduler) /\ WF_vars(Take) /\ WF_vars(Restart)
  /\ \A p \in Processes : WF_vars(Run(p))
  /\ WF_vars(CancelFlag \/ CancelKill)

FairSpec == Spec /\ Fairness

--------------------------------------------------------------------------------
(* Properties *)

\* A trace that the cursor has passed without a successful job covering it.
Lost(o) == {t \in Ingested \ settled[o] : started[t] <= watermark[o]}

\* The cursor of an analysis schedule, or of the profile, passes a trace that was
\* in the database when the job looked only after a successful job covered it, or
\* because the turn of that trace failed in a sweep that went on: failed,
\* cancelled, interrupted, concurrent and outdated jobs lose nothing else.  (A
\* human's own cutoff, and the limit of a judge, may: see the last section.)
LossIsExplained ==
  /\ TypeOK
  /\ (\A r \in Requests : r.since = 0) =>
       \A o \in Owners \ Judges : Lost(o) \subseteq missed[o] \cup late[o]

\* Once a request to cancel has gone through and the operator process is
\* registered, the process is dead, in whatever order the two came.
CancelStopsTheOperator ==
  LET w == worker[Server]
  IN w.pc = "running" /\ ~IsJudge(w.job) /\ w.flagged /\ canceller = "idle"
       => ~w.alive

\* An ingested trace is, for every analysis schedule, eventually covered by a job that
\* succeeds, unless it was late or its turn failed, or the schedule is switched
\* off: crashes between arming and submitting, and lost queues, only delay it.
TraceIsAnalyzed ==
  \A s \in Schedules \ Judges, t \in Traces :
    started[t] # 0 ~> \/ t \in settled[s] \cup missed[s] \cup late[s]
                      \/ ~schedule[s].exists \/ ~schedule[s].enabled

--------------------------------------------------------------------------------
(* What the comments say and the code does not do *)

\* kyoko/analysis_runner.py:390: "each tick judges only new runs", none that a
\* job of the schedule has scored before.
JudgesOnlyNewRuns ==
  \A p \in Processes :
    worker[p].pc = "running" /\ IsJudge(worker[p].job)
      => worker[p].turn \cap settled[worker[p].job.owner] = {}

\* kyoko/analysis_runner.py:391: the catch-up job of a judge, which has no
\* cutoff, "judges the whole corpus once" (the corpus is cut at a limit).
CatchUpJudgesAll ==
  \A p \in Processes :
    LET w == worker[p]
    IN w.pc = "done" /\ w.status = "succeeded" /\ IsJudge(w.job) /\ w.since = 0
         => w.visible \subseteq w.got

\* kyoko/cancellation.py:5: "cancel" must "actually terminate that subprocess",
\* the one of a judge too (it is registered with no token).
CancelStopsTheJudge ==
  LET w == worker[Server]
  IN w.pc = "running" /\ IsJudge(w.job) /\ w.flagged /\ canceller = "idle"
       => ~w.alive

\* kyoko/analysis_runner.py:475: an ad-hoc sweep "marks those traces as seen",
\* the ones it looked at and no other (a cutoff of the human's choice may be
\* later than the cursor).
CursorMarksTheSeen == Lost(Profile) \subseteq missed[Profile] \cup late[Profile]

\* kyoko/improve.py:519: a transient error of one trace "must not abort the
\* sweep - record it and move on": the trace is kept for a later job.
FailedTraceIsRecorded == \A o \in Owners : Lost(o) \cap missed[o] = {}

\* tests/test_llm_evals.py:437: a schedule "judges new traces", whenever they
\* arrived.
NewTraceIsAnalyzed == \A s \in Schedules : Lost(s) \cap late[s] = {}

\* kyoko/storage.py:2218: a job is to "Advance (or seed/clear)" the ad-hoc
\* cursor, and never moves it back.
CursorAdvances == [][watermark'[Profile] >= watermark[Profile]]_vars
================================================================================
