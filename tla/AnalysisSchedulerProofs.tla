------------------------ MODULE AnalysisSchedulerProofs ------------------------
(* Proofs about module AnalysisScheduler, for any traces, schedules, judges,   *)
(* processes and requests: an accepted cancel kills the operator process, and  *)
(* every trace that a cursor has passed is accounted for.  The invariant       *)
(* follows a cutoff from the cursor it is read from, through the snapshot of a *)
(* tick and the job that carries it, to the scan of a worker and back.         *)
EXTENDS AnalysisScheduler, FiniteSetTheorems, WellFoundedInduction, TLAPS

Covered(o) == settled[o] \cup missed[o] \cup late[o]

\* Of the traces seen, those up to a second are accounted for.
Level(o, seen, second) == \A t \in seen \cap Ingested : started[t] <= second => t \in Covered(o)

\* What a worker does not know yet, it still has to do.
WorkAccounted(w) ==
  LET o == w.job.owner
  IN /\ w.visible \subseteq Ingested
     /\ w.pc = "begun" => Level(o, Traces, w.job.since)
     /\ w.pc \in {"resolved", "ready", "spawned", "registered", "running"} =>
          /\ Level(o, w.visible, w.since)
          /\ w.after # 0 => w.job.scope \in {"new", "all"}
     /\ w.pc \in {"ready", "spawned", "registered", "running"} /\ w.after # 0 =>
          \A t \in w.visible : started[t] > w.since =>
            t \in w.got \cup w.failed \cup w.turn \cup UNION w.todo
     /\ w.pc \in {"begun", "resolved", "ready"} => w.turn = {} /\ ~ w.authoring
     /\ w.authoring => w.turn = {} /\ w.todo = {}
     /\ w.pc = "done" /\ CleanRun(w) /\ w.after # 0 =>
          \A t \in w.visible : started[t] <= w.after =>
            t \in Covered(o) \cup w.got \cup w.failed

CursorsAccounted == \A o \in Owners \ Judges : Level(o, Traces, watermark[o])

CutoffsAccounted ==
  /\ \A i \in 1..Len(tick.todo) :
       tick.todo[i].id \notin Judges => Level(tick.todo[i].id, Traces, tick.todo[i].since)
  /\ tick.armed # None /\ tick.armed.owner \notin Judges =>
       Level(tick.armed.owner, Traces, tick.armed.since)
  /\ \A i \in 1..Len(queue) :
       queue[i].owner \notin Judges => Level(queue[i].owner, Traces, queue[i].since)

WorkersAccounted ==
  \A p \in Processes :
    worker[p].pc # "idle" /\ worker[p].job.owner \notin Judges => WorkAccounted(worker[p])

\* A process that runs is known to the token, unless a judge started it.
KnownToToken ==
  \A p \in Processes :
    /\ worker[p].pc = "registered" => worker[p].known
    /\ worker[p].pc = "running" /\ ~ IsJudge(worker[p].job) => worker[p].known

JobOK == \A p \in Processes : worker[p].pc # "idle" => worker[p].job \in Job

Accounted == CursorsAccounted /\ CutoffsAccounted /\ WorkersAccounted

OwnCutoffs == \A r \in Requests : r.since = 0

Inv ==
  /\ TypeOK /\ JobOK
  /\ KnownToToken /\ CancelStopsTheOperator
  /\ OwnCutoffs => Accounted

--------------------------------------------------------------------------------
(* Operators                                                                   *)

\* A set of seconds that is not empty has a latest one (Max, from FiniteSetsExt).
LEMMA MaxOfSeconds ==
  ASSUME NEW N \in Nat, NEW S \in SUBSET (0..N), S # {}
  PROVE  Max(S) \in S /\ \A y \in S : y <= Max(S)
<1> DEFINE R == {ss \in Nat \X Nat : ss[1] < ss[2]}
           Bounds == {n \in Nat : \A y \in S : y <= n}
<1>1. IsWellFoundedOn(R, Nat)
  BY NatLessThanWellFounded, Zenon DEF OpToRel
<1>2. Bounds \subseteq Nat /\ N \in Bounds
  OBVIOUS
<1>3. PICK m \in Bounds : \A n \in Bounds : ~ (<<n, m>> \in R)
  <2> HIDE DEF Bounds, R
  <2> QED
    BY <1>1, <1>2, WFMin
<1>4. m \in Nat /\ \A y \in S : y \in Nat /\ y <= m
  OBVIOUS
<1>5. ASSUME NEW n \in Nat, n < m
      PROVE  \E y \in S : ~ (y <= n)
  BY <1>3, <1>5
<1> HIDE DEF Bounds, R
<1>6. m \in S
  <2>1. CASE m = 0
    <3>1. PICK y \in S : TRUE
      OBVIOUS
    <3>2. y = 0
      BY <1>4, <2>1, <3>1
    <3> QED
      BY <2>1, <3>2
  <2>2. CASE m # 0
    <3>1. m - 1 \in Nat /\ m - 1 < m
      BY <1>4, <2>2
    <3>2. PICK y \in S : ~ (y <= m - 1)
      BY <1>5, <3>1
    <3>3. y \in Nat /\ y <= m
      BY <1>4, <3>2
    <3>4. y = m
      BY <1>4, <3>2, <3>3
    <3> QED
      BY <3>4
  <2> QED
    BY <2>1, <2>2
<1> QED
  BY <1>4, <1>6 DEF Max

\* A finite set can be listed without repetition (SetToSeq, from SequencesExt).
LEMMA ListOfSet ==
  ASSUME NEW S, IsFiniteSet(S)
  PROVE  Cardinality(S) \in Nat /\ SetToSeq(S) \in [1..Cardinality(S) -> S]
<1>1. Cardinality(S) \in Nat /\ ExistsBijection(1..Cardinality(S), S)
  BY FS_CardinalityType
<1>2. PICK f : f \in Bijection(1..Cardinality(S), S)
  BY <1>1 DEF ExistsBijection
<1>3. f \in [1..Cardinality(S) -> S] /\ IsInjective(f)
  BY <1>2 DEF Bijection, Injection, Surjection, IsInjective
<1> QED
  BY <1>1, <1>3 DEF SetToSeq

\* The latest start of some traces.
LEMMA LatestStart ==
  ASSUME TypeOK, NEW traces \in SUBSET Traces
  PROVE  /\ Latest(traces) \in Seconds
         /\ \A t \in traces : started[t] <= Latest(traces)
<1> DEFINE S == {started[t] : t \in traces} \cup {0}
<1>1. S \in SUBSET (0..MaxTime) /\ S # {} /\ MaxTime \in Nat
  BY SchedulerAssumption DEF TypeOK, Seconds
<1>2. \A t \in traces : started[t] \in S
  OBVIOUS
<1> HIDE DEF S
<1>3. Max(S) \in S /\ \A y \in S : y <= Max(S)
  BY <1>1, MaxOfSeconds
<1> QED
  BY <1>1, <1>2, <1>3 DEF Latest, S, Seconds

--------------------------------------------------------------------------------
(* Steps of one worker                                                         *)

\* What a worker must be like for the invariant to hold of it.
Fits(p, w) ==
  /\ w.pc # "idle" => w.job \in Job
  /\ w.pc = "registered" => w.known
  /\ w.pc = "running" /\ ~ IsJudge(w.job) => w.known

\* One worker moves while traces and the accounts stay.
LEMMA WorkStep ==
  ASSUME Inv, NEW p \in Processes, NEW w \in Worker,
         worker' = [worker EXCEPT ![p] = w], UNCHANGED <<started, history>>,
         p # Server => canceller' = canceller,
         Fits(p, w),
         p = Server /\ w.pc = "running" /\ ~ IsJudge(w.job) /\ w.flagged /\ canceller' = "idle"
           => ~ w.alive,
         OwnCutoffs /\ Accounted /\ w.pc # "idle" /\ w.job.owner \notin Judges => WorkAccounted(w)
  PROVE  /\ worker' \in [Processes -> Worker]
         /\ JobOK' /\ KnownToToken' /\ CancelStopsTheOperator'
         /\ OwnCutoffs /\ Accounted => WorkersAccounted'
<1>1. worker \in [Processes -> Worker]
  BY DEF Inv, TypeOK
<1>2. worker'[p] = w /\ \A q \in Processes : q # p => worker'[q] = worker[q]
  BY <1>1
<1>3. worker' \in [Processes -> Worker]
  BY <1>1
<1>4. JobOK'
  BY <1>2 DEF Inv, JobOK, Fits
<1>5. KnownToToken'
  BY <1>2 DEF Inv, KnownToToken, IsJudge, Fits
<1>6. CancelStopsTheOperator'
  <2>1. CASE p = Server
    BY <1>2, <2>1 DEF CancelStopsTheOperator, IsJudge
  <2>2. CASE p # Server
    <3>1. worker'[Server] = worker[Server] /\ canceller' = canceller
      BY <1>2, <2>2, SchedulerAssumption
    <3> QED
      BY <3>1 DEF Inv, CancelStopsTheOperator, IsJudge
  <2> QED
    BY <2>1, <2>2
<1>7. ASSUME OwnCutoffs, Accounted
      PROVE  WorkersAccounted'
  <2> SUFFICES ASSUME NEW q \in Processes,
                      worker'[q].pc # "idle", worker'[q].job.owner \notin Judges
               PROVE  WorkAccounted(worker[q])'
    BY DEF WorkersAccounted
  <2>1. PICK v \in Worker : v = worker'[q]
    BY <1>3
  <2>2. WorkAccounted(v)
    BY <1>2, <1>7, <2>1 DEF Accounted, WorkersAccounted
  <2>3. v.visible \subseteq Ingested' /\ Ingested' = Ingested
    BY <2>2 DEF WorkAccounted, Ingested
  <2> QED
    BY <2>1, <2>2, <2>3 DEF WorkAccounted, Level, Covered, CleanRun, Ingested, history
<1> QED
  BY <1>3, <1>4, <1>5, <1>6, <1>7

\* ... and so do the cursors, the cutoffs that wait, and the schedules.
LEMMA QuietStep ==
  ASSUME Inv, NEW p \in Processes, NEW w \in Worker,
         ToWorker(p, w), UNCHANGED <<watermark, up, history>>,
         trouble' \in 0..MaxTrouble, canceller' \in {"idle", "found", "flagged"},
         p # Server => canceller' = canceller,
         Fits(p, w),
         p = Server /\ w.pc = "running" /\ ~ IsJudge(w.job) /\ w.flagged /\ canceller' = "idle"
           => ~ w.alive,
         OwnCutoffs /\ Accounted /\ w.pc # "idle" /\ w.job.owner \notin Judges => WorkAccounted(w)
  PROVE  Inv'
<1>1. /\ worker' \in [Processes -> Worker]
      /\ JobOK' /\ KnownToToken' /\ CancelStopsTheOperator'
      /\ OwnCutoffs /\ Accounted => WorkersAccounted'
  BY WorkStep DEF ToWorker
<1>2. TypeOK'
  BY <1>1 DEF Inv, TypeOK, ToWorker, history
<1>3. ASSUME OwnCutoffs, Accounted
      PROVE  CursorsAccounted' /\ CutoffsAccounted'
  BY <1>3 DEF Accounted, CursorsAccounted, CutoffsAccounted, Level, Covered, Ingested,
              ToWorker, history
<1>4. OwnCutoffs' <=> OwnCutoffs
  BY DEF OwnCutoffs
<1> QED
  BY <1>1, <1>2, <1>3, <1>4 DEF Inv, Accounted

--------------------------------------------------------------------------------
(* Workers as records                                                          *)

(* A worker without a job.                                                   *)
LEMMA IdleType == Idle \in Worker /\ Idle.pc = "idle" /\ 0 \in Seconds
  BY SchedulerAssumption DEF Idle, Worker, Seconds

(* A worker that has just taken a job.                                       *)
LEMMA BegunType ==
  ASSUME NEW job \in Job
  PROVE  /\ Begun(job) \in Worker
         /\ Begun(job).pc = "begun" /\ Begun(job).job = job
         /\ Begun(job).turn = {} /\ Begun(job).todo = {} /\ Begun(job).visible = {}
         /\ ~ Begun(job).authoring
  BY IdleType DEF Begun, Idle, Worker

(* A worker whose job has failed as a whole.                                 *)
LEMMA BrokenType ==
  ASSUME NEW w \in Worker, w.job \in Job
  PROVE  /\ Broken(w) \in Worker
         /\ Broken(w).pc = "done" /\ Broken(w).job = w.job
         /\ Broken(w).visible = w.visible
         /\ Broken(w).turn = {} /\ Broken(w).todo = {} /\ ~ Broken(w).authoring
         /\ ~ CleanRun(Broken(w))
<1>1. w.visible \in SUBSET Traces /\ w.after \in Seconds /\ w.flagged \in BOOLEAN
  BY DEF Worker
<1>2. PICK b \in Worker : b = Begun(w.job)
  BY BegunType
<1>3. b.job = w.job /\ b.turn = {} /\ b.todo = {} /\ ~ b.authoring
  BY <1>2, BegunType
<1>4. Broken(w) = [b EXCEPT !.pc = "done", !.visible = w.visible, !.after = w.after,
                           !.flagged = w.flagged,
                           !.status = IF w.flagged THEN "cancelled" ELSE "failed"]
  BY <1>2 DEF Broken
<1>5. PICK status \in {"cancelled", "failed"} : status = IF w.flagged THEN "cancelled" ELSE "failed"
  OBVIOUS
<1>6. PICK row : row = [b EXCEPT !.pc = "done", !.visible = w.visible, !.after = w.after,
                                !.flagged = w.flagged, !.status = status]
  OBVIOUS
<1>7. row \in Worker
  BY <1>1, <1>6 DEF Worker
<1>8. /\ row.pc = "done" /\ row.job = b.job /\ row.visible = w.visible /\ row.turn = b.turn
      /\ row.todo = b.todo /\ row.authoring = b.authoring /\ row.status = status
  BY <1>6 DEF Worker
<1> QED
  BY <1>3, <1>4, <1>5, <1>6, <1>7, <1>8 DEF CleanRun

\* A job that begins knows its cutoff and nothing else.
LEMMA BegunAccounted ==
  ASSUME NEW job \in Job, Level(job.owner, Traces, job.since)
  PROVE  WorkAccounted(Begun(job))
<1> DEFINE w == Begun(job)
<1> SUFFICES WorkAccounted(w)
  OBVIOUS
<1>1. /\ w.pc = "begun" /\ w.job = job /\ w.turn = {} /\ w.todo = {} /\ w.visible = {}
      /\ ~ w.authoring
  BY BegunType
<1> HIDE DEF w
<1> QED
  BY <1>1 DEF WorkAccounted

\* A job that broke moves no cursor.
LEMMA BrokenAccounted ==
  ASSUME NEW w \in Worker, w.job \in Job, WorkAccounted(w)
  PROVE  WorkAccounted(Broken(w))
<1> DEFINE b == Broken(w)
<1> SUFFICES WorkAccounted(b)
  OBVIOUS
<1>1. /\ b.pc = "done" /\ b.job = w.job /\ b.visible = w.visible
      /\ b.turn = {} /\ b.todo = {} /\ ~ b.authoring /\ ~ CleanRun(b)
  BY BrokenType
<1>2. w.visible \subseteq Ingested
  BY DEF WorkAccounted
<1> HIDE DEF b
<1> QED
  BY <1>1, <1>2 DEF WorkAccounted

\* What is known of the worker that moves.
LEMMA WorkerNow ==
  ASSUME Inv, NEW p \in Processes
  PROVE  /\ worker[p] \in Worker
         /\ worker[p].pc # "idle" => worker[p].job \in Job
         /\ worker[p].pc = "registered" => worker[p].known
         /\ worker[p].pc = "running" /\ ~ IsJudge(worker[p].job) => worker[p].known
         /\ trouble \in 0..MaxTrouble /\ canceller \in {"idle", "found", "flagged"}
         /\ OwnCutoffs /\ Accounted /\ worker[p].pc # "idle" /\ worker[p].job.owner \notin Judges =>
              WorkAccounted(worker[p])
  BY DEF Inv, TypeOK, JobOK, KnownToToken, Accounted, WorkersAccounted

\* A worker that has left the operator process keeps the invariant when its job
\* breaks, for a failure or for a cancel.
LEMMA BreakStep ==
  ASSUME Inv, NEW p \in Processes, worker[p].pc # "idle", ToWorker(p, Broken(worker[p])),
         UNCHANGED <<watermark, canceller, up, history>>, trouble' \in 0..MaxTrouble
  PROVE  Inv'
<1>1. PICK w \in Worker : w = worker[p]
  BY WorkerNow
<1>2. w.job \in Job
  BY <1>1, WorkerNow
<1>3. Broken(w) \in Worker /\ Broken(w).pc = "done" /\ Broken(w).job = w.job
  BY <1>2, BrokenType
<1>4. ASSUME OwnCutoffs, Accounted, w.job.owner \notin Judges
      PROVE  WorkAccounted(Broken(w))
  BY <1>1, <1>2, <1>4, WorkerNow, BrokenAccounted
<1> DEFINE b == Broken(w)
<1>5. ToWorker(p, b) /\ canceller' = canceller /\ canceller \in {"idle", "found", "flagged"}
  BY <1>1, WorkerNow
<1>6. b \in Worker /\ Fits(p, b) /\ b.pc # "running" /\ b.job = w.job
  BY <1>2, <1>3 DEF Fits
<1>7. OwnCutoffs /\ Accounted /\ b.job.owner \notin Judges => WorkAccounted(b)
  BY <1>4, <1>6
<1> HIDE DEF b
<1> QED
  BY <1>5, <1>6, <1>7, QuietStep

--------------------------------------------------------------------------------
(* What a worker does                                                          *)

\* No trace that is ingested started in second 0.
LEMMA NothingAtZero ==
  ASSUME TypeOK, NEW o, NEW seen \in SUBSET Traces
  PROVE  Level(o, seen, 0)
  BY SchedulerAssumption DEF TypeOK, Level, Ingested, Seconds

(* A resolved scope: below its cutoff nothing is unaccounted for, and above it*)
(* everything visible is in hand (_resolve_scope).                           *)
LEMMA ResolveStep ==
  ASSUME Inv, NEW p \in Processes, Resolve(p)
  PROVE  Inv'
<1>1. PICK w \in Worker : w = worker[p]
  BY WorkerNow
<1>2. w.pc = "begun" /\ w.job \in Job /\ UNCHANGED <<watermark, canceller, up, trouble, history>>
  BY <1>1, WorkerNow DEF Resolve, env
<1>3. trouble' \in 0..MaxTrouble /\ canceller' \in {"idle", "found", "flagged"}
  BY <1>2, WorkerNow
<1>4. CASE w.flagged
  BY <1>1, <1>2, <1>3, <1>4, BreakStep DEF Resolve
<1>5. CASE ~ w.flagged
  <2>1. PICK job \in Job : job = w.job
    BY <1>2
  <2>2. PICK since : since = CutoffOf(job)
    OBVIOUS
  <2>3. since \in Seconds
    <3>1. job.since \in Seconds /\ watermark[Profile] \in Seconds /\ 0 \in Seconds
      BY IdleType DEF Inv, TypeOK, Job, Owners
    <3> QED
      BY <2>2, <3>1 DEF CutoffOf
  <2> DEFINE newer == NewerThan(since)
             skip == job.scope = "new" /\ newer = {}
  <2>4. PICK after : after = NewestOf(job, since)
    OBVIOUS
  <2>5. after \in Seconds
    <3>1. newer \in SUBSET Traces
      BY DEF NewerThan, Ingested
    <3>2. Latest(newer) \in Seconds
      BY <3>1, LatestStart DEF Inv
    <3> QED
      BY <2>3, <2>4, <3>2, IdleType DEF NewestOf
  <2>6. PICK u : u = Resolved(w, since)
    OBVIOUS
  <2>7. ToWorker(p, u)
    BY <1>1, <1>5, <2>1, <2>2, <2>6 DEF Resolve
  <2>8. Ingested \in SUBSET Traces
    BY DEF Ingested
  <2>9. /\ u \in Worker /\ u.job = job /\ u.since = since /\ u.after = after
        /\ u.visible = Ingested /\ u.turn = w.turn /\ u.authoring = w.authoring
        /\ u.pc = IF skip THEN "done" ELSE "resolved"
    <3>1. u = [w EXCEPT !.pc = IF skip THEN "done" ELSE "resolved",
                        !.status = IF skip THEN "skipped" ELSE @,
                        !.since = since, !.after = after, !.visible = Ingested]
      BY <2>1, <2>4, <2>6 DEF Resolved
    <3> HIDE DEF skip
    <3> QED
      BY <2>1, <2>3, <2>5, <2>8, <3>1 DEF Worker
  <2>10. ASSUME OwnCutoffs, Accounted, job.owner \notin Judges
         PROVE  WorkAccounted(u)
    <3>1. WorkAccounted(w)
      BY <1>1, <1>2, <2>1, <2>10, WorkerNow
    <3>2. Level(job.owner, Ingested, since)
      <4>1. CASE job.scope # "new"
        <5>1. since = 0
          BY <2>2, <4>1 DEF CutoffOf
        <5> QED
          BY <2>8, <5>1, NothingAtZero DEF Inv
      <4>2. CASE job.scope = "new" /\ job.since = 0 /\ job.owner = Profile
        <5>1. Profile \in Owners \ Judges
          BY SchedulerAssumption DEF Owners
        <5>2. since = watermark[Profile]
          BY <2>2, <4>2 DEF CutoffOf
        <5>3. Level(Profile, Traces, since)
          BY <2>10, <5>1, <5>2 DEF Accounted, CursorsAccounted, Level
        <5> QED
          BY <4>2, <5>3 DEF Level, Ingested
      <4>3. CASE job.scope = "new" /\ ~ (job.since = 0 /\ job.owner = Profile)
        <5>1. since = job.since
          BY <2>2, <4>3 DEF CutoffOf
        <5>2. Level(job.owner, Traces, since)
          BY <1>2, <2>1, <3>1, <5>1 DEF WorkAccounted
        <5> QED
          BY <5>2 DEF Level, Ingested
      <4> QED
        BY <4>1, <4>2, <4>3
    <3>3. w.turn = {} /\ ~ w.authoring
      BY <1>2, <3>1 DEF WorkAccounted
    <3>4. CASE skip
      <4>1. after = since /\ u.pc = "done"
        BY <2>4, <2>9, <3>4 DEF NewestOf
      <4>2. \A t \in Ingested : started[t] <= after => t \in Covered(job.owner)
        BY <3>2, <4>1 DEF Level, Ingested
      <4> QED
        BY <2>9, <3>3, <4>1, <4>2 DEF WorkAccounted
    <3>5. CASE ~ skip
      <4>1. u.pc = "resolved"
        BY <2>9, <3>5
      <4>2. after # 0 => job.scope \in {"new", "all"}
        BY <2>4 DEF NewestOf, Job
      <4> QED
        BY <2>9, <3>2, <3>3, <4>1, <4>2 DEF WorkAccounted
    <3> QED
      BY <3>4, <3>5
  <2>11. Fits(p, u) /\ u.pc # "running"
    BY <2>9 DEF Fits
  <2> QED
    BY <1>2, <1>3, <2>7, <2>9, <2>10, <2>11, QuietStep
<1> QED
  BY <1>4, <1>5

(* A job that fails before its first turn records no cursor.                 *)
LEMMA ImportFailsStep ==
  ASSUME Inv, NEW p \in Processes, ImportFails(p)
  PROVE  Inv'
<1>1. worker[p].pc # "idle" /\ ToWorker(p, Broken(worker[p]))
  BY DEF ImportFails, Fails
<1>2. trouble' \in 0..MaxTrouble
  BY WorkerNow, SchedulerAssumption DEF ImportFails, Fails
<1> QED
  BY <1>1, <1>2, BreakStep DEF ImportFails, Fails

\* The turns of a sweep are traces, and those of a corpus are all that is newer.
LEMMA TurnsCover ==
  ASSUME TypeOK, NEW w \in Worker, w.job \in Job, NEW turns \in Turns(w)
  PROVE  /\ turns \in SUBSET (SUBSET Traces)
         /\ w.job.scope \in {"new", "all"} /\ ~ IsJudge(w.job) =>
              \A t \in Ingested : started[t] > w.since => t \in UNION turns
<1> DEFINE list == FromOn(w.since)
<1>1. list \in SUBSET Traces /\ NewerThan(w.since) \in SUBSET Traces /\ Ingested \in SUBSET Traces
  BY DEF FromOn, NewerThan, Ingested
<1>2. NewerThan(w.since) \subseteq list
  <2>1. w.since \in Nat /\ \A t \in Traces : started[t] \in Nat
    BY SchedulerAssumption DEF TypeOK, Worker, Seconds
  <2> QED
    BY <2>1 DEF FromOn, NewerThan, Ingested
<1>3. \A t \in Ingested : started[t] > w.since => t \in NewerThan(w.since)
  BY DEF NewerThan
<1> HIDE DEF list
<1>4. \/ /\ w.job.scope \in {"issue", "run"}
         /\ turns \in {{}, {{w.job.trace} \cap Ingested}}
      \/ IsJudge(w.job) /\ \E kept \in Capped(list) : turns = {{t} : t \in kept}
      \/ turns = {{t} : t \in list}
      \/ turns = {NewerThan(w.since)}
  BY DEF Turns, list
<1>5. CASE /\ w.job.scope \in {"issue", "run"}
           /\ turns \in {{}, {{w.job.trace} \cap Ingested}}
  BY <1>1, <1>5
<1>6. CASE IsJudge(w.job) /\ \E kept \in Capped(list) : turns = {{t} : t \in kept}
  <2>1. PICK kept \in Capped(list) : turns = {{t} : t \in kept}
    BY <1>6
  <2>2. kept \in SUBSET Traces
    BY <1>1, <2>1 DEF Capped
  <2> QED
    BY <1>6, <2>1, <2>2
<1>7. CASE turns = {{t} : t \in list}
  BY <1>1, <1>2, <1>3, <1>7
<1>8. CASE turns = {NewerThan(w.since)}
  BY <1>1, <1>3, <1>8
<1> QED
  BY <1>4, <1>5, <1>6, <1>7, <1>8

(* The turns of a sweep hold every visible trace above the cutoff (_dispatch).*)
LEMMA DispatchStep ==
  ASSUME Inv, NEW p \in Processes, Dispatch(p)
  PROVE  Inv'
<1>1. PICK w \in Worker : w = worker[p]
  BY WorkerNow
<1>2. w.pc = "resolved" /\ w.job \in Job /\ UNCHANGED <<watermark, canceller, up, trouble, history>>
  BY <1>1, WorkerNow DEF Dispatch, env
<1>3. trouble' \in 0..MaxTrouble /\ canceller' \in {"idle", "found", "flagged"}
  BY <1>2, WorkerNow
<1>4. CASE w.flagged
  BY <1>1, <1>2, <1>3, <1>4, BreakStep DEF Dispatch
<1>5. CASE ~ w.flagged
  <2>1. PICK turns \in Turns(w) :
          ToWorker(p, [w EXCEPT !.pc = "ready", !.todo = turns,
                                !.sweep = Cardinality(turns) > 1 /\ ~ IsJudge(w.job)])
    BY <1>1, <1>5 DEF Dispatch
  <2>2. PICK sweep \in BOOLEAN : sweep = (Cardinality(turns) > 1 /\ ~ IsJudge(w.job))
    BY Zenon
  <2>3. PICK u : u = [w EXCEPT !.pc = "ready", !.todo = turns, !.sweep = sweep]
    OBVIOUS
  <2>4. ToWorker(p, u)
    BY <2>1, <2>2, <2>3
  <2>5. /\ turns \in SUBSET (SUBSET Traces)
        /\ w.job.scope \in {"new", "all"} /\ ~ IsJudge(w.job) =>
             \A t \in Ingested : started[t] > w.since => t \in UNION turns
    BY <1>2, TurnsCover DEF Inv
  <2>6. /\ u \in Worker /\ u.pc = "ready" /\ u.job = w.job /\ u.since = w.since
        /\ u.after = w.after /\ u.visible = w.visible /\ u.todo = turns /\ u.turn = w.turn
        /\ u.authoring = w.authoring
    BY <2>3, <2>5 DEF Worker
  <2>7. ASSUME OwnCutoffs, Accounted, w.job.owner \notin Judges
        PROVE  WorkAccounted(u)
    <3>1. WorkAccounted(w)
      BY <1>1, <1>2, <2>7, WorkerNow
    <3>2. /\ w.visible \subseteq Ingested /\ Level(w.job.owner, w.visible, w.since)
          /\ w.after # 0 => w.job.scope \in {"new", "all"}
          /\ w.turn = {} /\ ~ w.authoring
      BY <1>2, <3>1 DEF WorkAccounted
    <3>3. w.after # 0 => \A t \in w.visible : started[t] > w.since => t \in UNION turns
      BY <2>5, <2>7, <3>2 DEF IsJudge
    <3> QED
      BY <2>6, <3>2, <3>3 DEF WorkAccounted
  <2>8. Fits(p, u) /\ u.pc # "running"
    BY <1>2, <2>6 DEF Fits
  <2> QED
    BY <1>2, <1>3, <2>4, <2>6, <2>7, <2>8, QuietStep
<1> QED
  BY <1>4, <1>5

(* A spawned turn holds one of the sets of traces left to do.                *)
LEMMA SpawnStep ==
  ASSUME Inv, NEW p \in Processes, NEW turn \in SUBSET Traces, Spawn(p, turn)
  PROVE  Inv'
<1>1. PICK w \in Worker : w = worker[p]
  BY WorkerNow
<1>2. /\ w.pc = "ready" /\ w.job \in Job /\ turn \in w.todo
      /\ UNCHANGED <<watermark, canceller, up, trouble, history>>
  BY <1>1, WorkerNow DEF Spawn, env
<1>3. trouble' \in 0..MaxTrouble /\ canceller' \in {"idle", "found", "flagged"}
  BY <1>2, WorkerNow
<1>4. PICK pc \in {"running", "spawned"} : pc = IF IsJudge(w.job) THEN "running" ELSE "spawned"
  OBVIOUS
<1>5. PICK u : u = [w EXCEPT !.pc = pc, !.turn = turn, !.todo = w.todo \ {turn}, !.alive = TRUE]
  OBVIOUS
<1>6. ToWorker(p, u)
  BY <1>1, <1>4, <1>5 DEF Spawn
<1>7. /\ u \in Worker /\ u.pc = pc /\ u.job = w.job /\ u.since = w.since
      /\ u.after = w.after /\ u.visible = w.visible /\ u.todo = w.todo \ {turn}
      /\ u.turn = turn /\ u.authoring = w.authoring /\ u.got = w.got /\ u.failed = w.failed
  BY <1>5 DEF Worker
<1>8. ASSUME OwnCutoffs, Accounted, w.job.owner \notin Judges
      PROVE  WorkAccounted(u)
  <2>1. WorkAccounted(w)
    BY <1>1, <1>2, <1>8, WorkerNow
  <2>2. UNION w.todo \subseteq turn \cup UNION (w.todo \ {turn})
    BY <1>2
  <2> QED
    BY <1>2, <1>7, <2>1, <2>2 DEF WorkAccounted
<1>9. Fits(p, u) /\ (u.pc = "running" => IsJudge(u.job))
  BY <1>2, <1>4, <1>7 DEF Fits
<1> QED
  BY <1>2, <1>3, <1>6, <1>7, <1>8, <1>9, QuietStep

(* An authoring turn holds no trace.                                         *)
LEMMA SpawnAuthorStep ==
  ASSUME Inv, NEW p \in Processes, SpawnAuthor(p)
  PROVE  Inv'
<1>1. PICK w \in Worker : w = worker[p]
  BY WorkerNow
<1>2. /\ w.pc = "ready" /\ w.job \in Job /\ w.todo = {}
      /\ UNCHANGED <<watermark, canceller, up, trouble, history>>
  BY <1>1, WorkerNow DEF SpawnAuthor, env
<1>3. trouble' \in 0..MaxTrouble /\ canceller' \in {"idle", "found", "flagged"}
  BY <1>2, WorkerNow
<1>5. PICK u : u = [w EXCEPT !.pc = "spawned", !.turn = {}, !.authoring = TRUE, !.alive = TRUE]
  OBVIOUS
<1>6. ToWorker(p, u)
  BY <1>1, <1>5 DEF SpawnAuthor
<1>7. /\ u \in Worker /\ u.pc = "spawned" /\ u.job = w.job /\ u.since = w.since
      /\ u.after = w.after /\ u.visible = w.visible /\ u.todo = w.todo
      /\ u.turn = {} /\ u.got = w.got /\ u.failed = w.failed
  BY <1>5 DEF Worker
<1>8. ASSUME OwnCutoffs, Accounted, w.job.owner \notin Judges
      PROVE  WorkAccounted(u)
  <2>1. WorkAccounted(w)
    BY <1>1, <1>2, <1>8, WorkerNow
  <2>2. w.turn = {}
    BY <1>2, <2>1 DEF WorkAccounted
  <2> QED
    BY <1>2, <1>7, <2>1, <2>2 DEF WorkAccounted
<1>9. Fits(p, u) /\ u.pc # "running"
  BY <1>2, <1>7 DEF Fits
<1> QED
  BY <1>2, <1>3, <1>6, <1>7, <1>8, <1>9, QuietStep

\* What a worker accounts for does not change with its process and its flag.
SameWork(u, w) ==
  /\ u.job = w.job /\ u.since = w.since /\ u.after = w.after /\ u.visible = w.visible
  /\ u.todo = w.todo /\ u.turn = w.turn /\ u.got = w.got /\ u.failed = w.failed
  /\ u.authoring = w.authoring /\ u.status = w.status

(* What is accounted for depends on the work of a worker, not on its process.*)
LEMMA SameWorkAccounted ==
  ASSUME NEW u, NEW w, SameWork(u, w), WorkAccounted(w),
         \/ u.pc = w.pc
         \/ /\ u.pc \in {"spawned", "registered", "running"}
            /\ w.pc \in {"spawned", "registered", "running"}
  PROVE  WorkAccounted(u)
  BY DEF SameWork, WorkAccounted, CleanRun

(* A registered process is known to the token, and its work is the same.     *)
LEMMA RegisterStep ==
  ASSUME Inv, NEW p \in Processes, Register(p)
  PROVE  Inv'
<1>1. PICK w \in Worker : w = worker[p]
  BY WorkerNow
<1>2. /\ w.pc = "spawned" /\ w.job \in Job
      /\ UNCHANGED <<watermark, canceller, up, trouble, history>>
  BY <1>1, WorkerNow DEF Register, env
<1>3. trouble' \in 0..MaxTrouble /\ canceller' \in {"idle", "found", "flagged"}
  BY <1>2, WorkerNow
<1>4. PICK u : u = [w EXCEPT !.pc = "registered", !.known = TRUE]
  OBVIOUS
<1>5. ToWorker(p, u)
  BY <1>1, <1>4 DEF Register
<1>6. u \in Worker /\ u.pc = "registered" /\ u.known /\ SameWork(u, w)
  BY <1>4 DEF Worker, SameWork
<1>7. ASSUME OwnCutoffs, Accounted, w.job.owner \notin Judges
      PROVE  WorkAccounted(u)
  BY <1>1, <1>2, <1>6, <1>7, WorkerNow, SameWorkAccounted
<1>8. Fits(p, u) /\ u.pc # "running" /\ u.job = w.job
  BY <1>2, <1>6 DEF Fits, SameWork
<1> QED
  BY <1>2, <1>3, <1>5, <1>6, <1>7, <1>8, QuietStep

(* A process whose token was flagged first is killed here (register_proc).   *)
LEMMA RegisterCheckStep ==
  ASSUME Inv, NEW p \in Processes, RegisterCheck(p)
  PROVE  Inv'
<1>1. PICK w \in Worker : w = worker[p]
  BY WorkerNow
<1>2. /\ w.pc = "registered" /\ w.job \in Job /\ w.known
      /\ UNCHANGED <<watermark, canceller, up, trouble, history>>
  BY <1>1, WorkerNow DEF RegisterCheck, env
<1>3. trouble' \in 0..MaxTrouble /\ canceller' \in {"idle", "found", "flagged"}
  BY <1>2, WorkerNow
<1>4. PICK alive \in BOOLEAN : alive = (w.alive /\ ~ w.flagged)
  BY Zenon
<1>5. PICK u : u = [w EXCEPT !.pc = "running", !.alive = alive]
  OBVIOUS
<1>6. ToWorker(p, u)
  BY <1>1, <1>4, <1>5 DEF RegisterCheck
<1>7. /\ u \in Worker /\ u.pc = "running" /\ u.known = w.known /\ SameWork(u, w)
      /\ u.alive = alive /\ u.flagged = w.flagged
  BY <1>5 DEF Worker, SameWork
<1>8. ASSUME OwnCutoffs, Accounted, w.job.owner \notin Judges
      PROVE  WorkAccounted(u)
  BY <1>1, <1>2, <1>7, <1>8, WorkerNow, SameWorkAccounted
<1>9. Fits(p, u) /\ u.job = w.job /\ (u.flagged => ~ u.alive)
  BY <1>2, <1>4, <1>7 DEF Fits, SameWork
<1> QED
  BY <1>2, <1>3, <1>6, <1>7, <1>8, <1>9, QuietStep

(* The traces of a turn that succeeds move from the turn to what the job got.*)
LEMMA TurnSucceedsStep ==
  ASSUME Inv, NEW p \in Processes, TurnSucceeds(p)
  PROVE  Inv'
<1>1. PICK w \in Worker : w = worker[p]
  BY WorkerNow
<1>2. /\ w.pc = "running" /\ w.job \in Job
      /\ UNCHANGED <<watermark, canceller, up, trouble, history>>
  BY <1>1, WorkerNow DEF TurnSucceeds, env
<1>3. trouble' \in 0..MaxTrouble /\ canceller' \in {"idle", "found", "flagged"}
  BY <1>2, WorkerNow
<1>4. CASE w.flagged /\ ~ IsJudge(w.job)
  BY <1>1, <1>2, <1>3, <1>4, BreakStep DEF TurnSucceeds
<1>5. CASE ~ (w.flagged /\ ~ IsJudge(w.job))
  <2>1. PICK pc : pc = IF w.authoring THEN "done" ELSE "ready"
    OBVIOUS
  <2>2. PICK status : status = IF w.authoring THEN "succeeded" ELSE w.status
    OBVIOUS
  <2>3. PICK u : u = [w EXCEPT !.pc = pc, !.status = status, !.got = w.got \cup w.turn, !.turn = {},
                               !.alive = FALSE, !.known = FALSE]
    OBVIOUS
  <2>4. ToWorker(p, u)
    BY <1>1, <1>5, <2>1, <2>2, <2>3 DEF TurnSucceeds
  <2>5. /\ u \in Worker /\ u.pc = pc /\ u.job = w.job /\ u.since = w.since
        /\ u.after = w.after /\ u.visible = w.visible /\ u.todo = w.todo
        /\ u.turn = {} /\ u.got = w.got \cup w.turn /\ u.failed = w.failed
        /\ u.authoring = w.authoring
    BY <2>1, <2>2, <2>3 DEF Worker
  <2>6. ASSUME OwnCutoffs, Accounted, w.job.owner \notin Judges
        PROVE  WorkAccounted(u)
    <3>1. WorkAccounted(w)
      BY <1>1, <1>2, <2>6, WorkerNow
    <3>2. /\ w.visible \subseteq Ingested /\ Level(w.job.owner, w.visible, w.since)
          /\ w.after # 0 =>
               /\ w.job.scope \in {"new", "all"}
               /\ \A t \in w.visible : started[t] > w.since =>
                    t \in w.got \cup w.failed \cup w.turn \cup UNION w.todo
          /\ w.authoring => w.turn = {} /\ w.todo = {}
      BY <1>2, <3>1 DEF WorkAccounted
    <3>3. CASE ~ w.authoring
      <4>1. u.pc = "ready"
        BY <2>1, <2>5, <3>3
      <4> QED
        BY <2>5, <3>2, <3>3, <4>1 DEF WorkAccounted
    <3>4. CASE w.authoring
      <4>1. u.pc = "done"
        BY <2>1, <2>5, <3>4
      <4>2. \A t \in w.visible : started[t] <= w.since \/ started[t] > w.since
        BY <3>2, SchedulerAssumption DEF Inv, TypeOK, Worker, Seconds, Ingested
      <4>3. w.after # 0 => \A t \in w.visible : t \in Covered(w.job.owner) \cup w.got \cup w.failed
        BY <3>2, <3>4, <4>2 DEF Level
      <4> QED
        BY <2>5, <3>2, <3>4, <4>1, <4>3 DEF WorkAccounted
    <3> QED
      BY <3>3, <3>4
  <2>7. Fits(p, u) /\ u.pc \in {"ready", "done"}
    BY <1>2, <2>1, <2>5 DEF Fits
  <2> QED
    BY <1>2, <1>3, <2>4, <2>5, <2>6, <2>7, QuietStep
<1> QED
  BY <1>4, <1>5

(* The trace of a turn that fails is remembered as failed, or the job fails. *)
LEMMA TurnFailsStep ==
  ASSUME Inv, NEW p \in Processes, TurnFails(p)
  PROVE  Inv'
<1>1. PICK w \in Worker : w = worker[p]
  BY WorkerNow
<1>2. /\ w.pc = "running" /\ w.job \in Job /\ UNCHANGED <<watermark, canceller, up, history>>
  BY <1>1, WorkerNow DEF TurnFails, Fails
<1>3. trouble' \in 0..MaxTrouble /\ canceller' \in {"idle", "found", "flagged"}
  BY <1>2, WorkerNow, SchedulerAssumption DEF TurnFails, Fails
<1>4. CASE ~ (w.sweep /\ ~ w.authoring)
  BY <1>1, <1>2, <1>3, <1>4, BreakStep DEF TurnFails, Fails
<1>5. CASE w.sweep /\ ~ w.authoring
  <2>1. PICK u : u = [w EXCEPT !.pc = "ready", !.failed = w.failed \cup w.turn, !.turn = {},
                               !.alive = FALSE, !.known = FALSE]
    OBVIOUS
  <2>2. ToWorker(p, u)
    BY <1>1, <1>5, <2>1 DEF TurnFails, Fails
  <2>3. /\ u \in Worker /\ u.pc = "ready" /\ u.job = w.job /\ u.since = w.since
        /\ u.after = w.after /\ u.visible = w.visible /\ u.todo = w.todo
        /\ u.turn = {} /\ u.got = w.got /\ u.failed = w.failed \cup w.turn
        /\ u.authoring = w.authoring
    BY <2>1 DEF Worker
  <2>4. ASSUME OwnCutoffs, Accounted, w.job.owner \notin Judges
        PROVE  WorkAccounted(u)
    <3>1. WorkAccounted(w)
      BY <1>1, <1>2, <2>4, WorkerNow
    <3> QED
      BY <1>2, <1>5, <2>3, <3>1 DEF WorkAccounted
  <2>5. Fits(p, u) /\ u.pc # "running"
    BY <1>2, <2>3 DEF Fits
  <2> QED
    BY <1>2, <1>3, <2>2, <2>3, <2>4, <2>5, QuietStep
<1> QED
  BY <1>4, <1>5

(* A job without turns left got, or failed on, every trace up to its new cursor.*)
LEMMA FinishStep ==
  ASSUME Inv, NEW p \in Processes, Finish(p)
  PROVE  Inv'
<1>1. PICK w \in Worker : w = worker[p]
  BY WorkerNow
<1>2. /\ w.pc = "ready" /\ w.todo = {} /\ w.job \in Job
      /\ UNCHANGED <<watermark, canceller, up, trouble, history>>
  BY <1>1, WorkerNow DEF Finish, env
<1>3. trouble' \in 0..MaxTrouble /\ canceller' \in {"idle", "found", "flagged"}
  BY <1>2, WorkerNow
<1>4. CASE w.sweep /\ w.got = {}
  BY <1>1, <1>2, <1>3, <1>4, BreakStep DEF Finish
<1>5. CASE ~ (w.sweep /\ w.got = {})
  <2>1. PICK u : u = [w EXCEPT !.pc = "done", !.status = "succeeded"]
    OBVIOUS
  <2>2. ToWorker(p, u)
    BY <1>1, <1>5, <2>1 DEF Finish
  <2>3. /\ u \in Worker /\ u.pc = "done" /\ u.job = w.job
        /\ u.after = w.after /\ u.visible = w.visible /\ u.todo = w.todo
        /\ u.turn = w.turn /\ u.got = w.got /\ u.failed = w.failed /\ u.authoring = w.authoring
    BY <2>1 DEF Worker
  <2>4. ASSUME OwnCutoffs, Accounted, w.job.owner \notin Judges
        PROVE  WorkAccounted(u)
    <3>1. WorkAccounted(w)
      BY <1>1, <1>2, <2>4, WorkerNow
    <3>2. /\ w.visible \subseteq Ingested /\ Level(w.job.owner, w.visible, w.since)
          /\ w.turn = {} /\ ~ w.authoring
          /\ w.after # 0 => \A t \in w.visible : started[t] > w.since => t \in w.got \cup w.failed
      BY <1>2, <3>1 DEF WorkAccounted
    <3>3. \A t \in w.visible : started[t] <= w.since \/ started[t] > w.since
      BY <3>2, SchedulerAssumption DEF Inv, TypeOK, Worker, Seconds, Ingested
    <3>4. w.after # 0 => \A t \in w.visible : t \in Covered(w.job.owner) \cup w.got \cup w.failed
      BY <3>2, <3>3 DEF Level
    <3> QED
      BY <2>3, <3>2, <3>4 DEF WorkAccounted
  <2>5. Fits(p, u) /\ u.pc # "running"
    BY <1>2, <2>3 DEF Fits
  <2> QED
    BY <1>2, <1>3, <2>2, <2>3, <2>4, <2>5, QuietStep
<1> QED
  BY <1>4, <1>5

\* The jobs and snapshots that wait are jobs and snapshots.
LEMMA WaitingTypes ==
  ASSUME TypeOK
  PROVE  /\ \A i \in 1..Len(queue) : queue[i] \in Job /\ queue[i].owner \in Owners
         /\ \A i \in 1..Len(tick.todo) :
              tick.todo[i] \in Snapshot /\ tick.todo[i].id \in Owners
         /\ tick.armed # None => tick.armed \in Job /\ tick.armed.owner \in Owners
<1>1. queue \in Seq(Job) /\ tick.todo \in Seq(Snapshot) /\ tick.armed \in Job \cup {None}
  BY DEF TypeOK
<1>2. /\ \A i \in 1..Len(queue) : queue[i] \in Job
      /\ \A i \in 1..Len(tick.todo) : tick.todo[i] \in Snapshot
  BY <1>1
<1>3. /\ \A job \in Job : job.owner \in Owners
      /\ \A row \in Snapshot : row.id \in Owners
  BY DEF Job, Snapshot, Owners
<1> QED
  BY <1>1, <1>2, <1>3

\* Accounts that only grow account for what they did.
LEMMA WorkGrows ==
  ASSUME NEW w, WorkAccounted(w),
         \A t \in Ingested : t \in Ingested' /\ started'[t] = started[t],
         Covered(w.job.owner) \subseteq Covered(w.job.owner)',
         w.pc = "begun" => Level(w.job.owner, Traces, w.job.since)'
  PROVE  WorkAccounted(w)'
<1>1. w.visible \subseteq Ingested /\ w.visible \subseteq Ingested'
  BY DEF WorkAccounted
<1>2. Level(w.job.owner, w.visible, w.since) => Level(w.job.owner, w.visible, w.since)'
  BY <1>1 DEF Level
<1>3. \A t \in w.visible : started'[t] = started[t]
  BY <1>1
<1>4. CleanRun(w)' <=> CleanRun(w)
  BY DEF CleanRun
<1> QED
  BY <1>1, <1>2, <1>3, <1>4 DEF WorkAccounted

(* A recorded cursor has nothing unaccounted for below it: what the job got  *)
(* is settled, what it failed on is missed, what came in behind its scan is  *)
(* late (_record_schedule).                                                  *)
LEMMA RecordStep ==
  ASSUME Inv, NEW p \in Processes, Record(p)
  PROVE  Inv'
<1>1. PICK w \in Worker : w = worker[p]
  BY WorkerNow
<1>2. w.pc = "done" /\ w.job \in Job /\ UNCHANGED <<started, schedule, tick, queue, up, trouble>>
  BY <1>1, WorkerNow DEF Record, ToWorker, env
<1>3. PICK o \in Owners : o = w.job.owner
  BY <1>2 DEF Job
<1>4. PICK after : after = Recorded(w)
  OBVIOUS
<1>5. /\ worker' = [worker EXCEPT ![p] = Idle]
      /\ watermark' = [watermark EXCEPT ![o] = after]
      /\ canceller' = IF p = Server THEN "idle" ELSE canceller
      /\ settled' = [settled EXCEPT ![o] = IF CleanRun(w) THEN @ \cup w.got ELSE @]
      /\ missed' = [missed EXCEPT ![o] = IF CleanRun(w) THEN @ \cup w.failed ELSE @]
      /\ late' = [late EXCEPT ![o] =
                   @ \cup {t \in Ingested \ w.visible : CleanRun(w) /\ started[t] <= w.after}]
  BY <1>1, <1>3, <1>4 DEF Record, ToWorker
<1>6. after \in Seconds
  BY <1>3, <1>4 DEF Recorded, Inv, TypeOK, Worker
<1>7. /\ w.got \in SUBSET Traces /\ w.failed \in SUBSET Traces
      /\ {t \in Ingested \ w.visible : CleanRun(w) /\ started[t] <= w.after} \in SUBSET Traces
  BY DEF Worker, Ingested
<1>8. /\ settled \in [Owners -> SUBSET Traces] /\ missed \in [Owners -> SUBSET Traces]
      /\ late \in [Owners -> SUBSET Traces] /\ watermark \in [Owners -> Seconds]
      /\ worker \in [Processes -> Worker] /\ canceller \in {"idle", "found", "flagged"}
  BY DEF Inv, TypeOK
<1>9. /\ settled' \in [Owners -> SUBSET Traces] /\ missed' \in [Owners -> SUBSET Traces]
      /\ late' \in [Owners -> SUBSET Traces] /\ watermark' \in [Owners -> Seconds]
      /\ worker' \in [Processes -> Worker] /\ canceller' \in {"idle", "found", "flagged"}
  BY <1>5, <1>6, <1>7, <1>8, IdleType
<1>10. TypeOK'
  BY <1>2, <1>9 DEF Inv, TypeOK
<1>11. worker'[p].pc = "idle" /\ \A q \in Processes : q # p => worker'[q] = worker[q]
  BY <1>5, <1>8, IdleType
<1>12. JobOK' /\ KnownToToken'
  BY <1>11 DEF Inv, JobOK, KnownToToken, IsJudge
<1>13. CancelStopsTheOperator'
  BY <1>5, <1>11, SchedulerAssumption DEF Inv, CancelStopsTheOperator, IsJudge
<1>14. \A s \in Owners : Covered(s) \subseteq Covered(s)'
  BY <1>5, <1>8 DEF Covered
<1>15. Ingested' = Ingested
  BY <1>2 DEF Ingested
<1>16. ASSUME OwnCutoffs, Accounted
       PROVE  Accounted'
  <2>1. ASSUME NEW s \in Owners, NEW second, Level(s, Traces, second)
        PROVE  Level(s, Traces, second)'
    BY <1>2, <1>14, <1>15, <2>1 DEF Level
  <2>2. CursorsAccounted'
    <3> SUFFICES ASSUME NEW s \in Owners \ Judges
                 PROVE  Level(s, Traces, watermark[s])'
      BY DEF CursorsAccounted
    <3>1. PICK second : second = watermark'[s]
      OBVIOUS
    <3>2. CASE second = watermark[s]
      <4>1. Level(s, Traces, second)
        BY <1>16, <3>2 DEF Accounted, CursorsAccounted, Level
      <4> QED
        BY <2>1, <3>1, <4>1 DEF Level
    <3>3. CASE second # watermark[s]
      <4>1. s = o /\ second = w.after /\ CleanRun(w) /\ w.after # 0
        BY <1>3, <1>4, <1>5, <1>8, <3>1, <3>3 DEF Recorded
      <4>2. \A t \in w.visible : started[t] <= w.after => t \in Covered(o) \cup w.got \cup w.failed
        BY <1>1, <1>2, <1>3, <1>16, <4>1, WorkerNow DEF WorkAccounted
      <4>3. ASSUME NEW t \in Ingested, started[t] <= w.after
            PROVE  t \in Covered(o)'
        <5>1. CASE t \in w.visible
          BY <1>5, <1>8, <1>14, <4>1, <4>2, <4>3, <5>1 DEF Covered
        <5>2. CASE t \notin w.visible
          <6>1. t \in late'[o]
            BY <1>5, <1>8, <4>1, <4>3, <5>2
          <6> QED
            BY <6>1 DEF Covered
        <5> QED
          BY <5>1, <5>2
      <4> QED
        BY <1>2, <1>15, <3>1, <4>1, <4>3 DEF Level
    <3> QED
      BY <3>2, <3>3
  <2>3. CutoffsAccounted'
    <3>1. /\ \A i \in 1..Len(tick.todo) : tick.todo[i].id \in Owners
          /\ tick.armed # None => tick.armed.owner \in Owners
          /\ \A i \in 1..Len(queue) : queue[i].owner \in Owners
      BY WaitingTypes DEF Inv
    <3> QED
      BY <1>2, <1>14, <1>15, <1>16, <3>1 DEF Accounted, CutoffsAccounted, Level
  <2>4. WorkersAccounted'
    <3> SUFFICES ASSUME NEW q \in Processes,
                        worker'[q].pc # "idle", worker'[q].job.owner \notin Judges
                 PROVE  WorkAccounted(worker[q])'
      BY DEF WorkersAccounted
    <3>1. q # p /\ worker'[q] = worker[q]
      BY <1>11
    <3>2. PICK v \in Worker : v = worker[q]
      BY WorkerNow
    <3>3. WorkAccounted(v) /\ v.job \in Job
      BY <1>16, <3>1, <3>2, WorkerNow
    <3>4. v.job.owner \in Owners
      BY <3>3 DEF Job
    <3>5. v.pc = "begun" => Level(v.job.owner, Traces, v.job.since)'
      BY <2>1, <3>3, <3>4 DEF WorkAccounted
    <3>6. WorkAccounted(v)'
      BY <1>2, <1>14, <1>15, <3>3, <3>4, <3>5, WorkGrows
    <3> QED
      BY <3>1, <3>2, <3>6 DEF WorkAccounted, Level, Covered, CleanRun, Ingested
  <2> QED
    BY <2>2, <2>3, <2>4 DEF Accounted
<1>17. OwnCutoffs' <=> OwnCutoffs
  BY DEF OwnCutoffs
<1> QED
  BY <1>10, <1>12, <1>13, <1>16, <1>17 DEF Inv

--------------------------------------------------------------------------------
(* What does not move a worker                                                 *)

(* Steps that change only what waits: schedules, snapshots and the queue.    *)
LEMMA CutoffStep ==
  ASSUME Inv, UNCHANGED <<started, watermark, worker, history>>,
         canceller' = canceller \/ canceller' = "found",
         TypeOK', OwnCutoffs /\ Accounted => CutoffsAccounted'
  PROVE  Inv'
<1>1. JobOK' /\ KnownToToken'
  BY DEF Inv, JobOK, KnownToToken, IsJudge
<1>2. CancelStopsTheOperator'
  BY DEF Inv, CancelStopsTheOperator, IsJudge
<1>3. ASSUME OwnCutoffs, Accounted
      PROVE  CursorsAccounted' /\ WorkersAccounted'
  BY <1>3 DEF Accounted, CursorsAccounted, WorkersAccounted, WorkAccounted, Level, Covered,
              CleanRun, Ingested, history
<1>4. OwnCutoffs' <=> OwnCutoffs
  BY DEF OwnCutoffs
<1> QED
  BY <1>1, <1>2, <1>3, <1>4 DEF Inv, Accounted

\* The same when nothing that waits moves either.
LEMMA OutsideStep ==
  ASSUME Inv, UNCHANGED <<started, watermark, worker, history, tick, queue>>,
         canceller' = canceller \/ canceller' = "found", TypeOK'
  PROVE  Inv'
<1>1. OwnCutoffs /\ Accounted => CutoffsAccounted'
  BY DEF Accounted, CutoffsAccounted, Level, Covered, Ingested, history
<1> QED
  BY <1>1, CutoffStep

(* Time, a human's switch and a deletion carry no cutoff.                    *)
LEMMA ScheduleStep ==
  ASSUME Inv, NEW s \in Schedules, TimePasses(s) \/ Delete(s) \/ \E on \in BOOLEAN : SetEnabled(s, on)
  PROVE  Inv'
<1>1. /\ UNCHANGED <<started, watermark, worker, history, tick, queue, canceller, env>>
      /\ \/ schedule' = [schedule EXCEPT ![s].next = "due"]
         \/ schedule' = [schedule EXCEPT ![s].exists = FALSE]
         \/ \E on \in BOOLEAN : schedule' = [schedule EXCEPT ![s].enabled = on]
  BY DEF TimePasses, Delete, SetEnabled
<1>2. schedule' \in [Schedules -> [exists : BOOLEAN, enabled : BOOLEAN,
                                   next : {"unarmed", "later", "due"}]]
  <2> DEFINE Row == [exists : BOOLEAN, enabled : BOOLEAN, next : {"unarmed", "later", "due"}]
  <2>1. schedule \in [Schedules -> Row] /\ schedule[s] \in Row
    BY DEF Inv, TypeOK
  <2>2. \E row \in Row : schedule' = [schedule EXCEPT ![s] = row]
    <3>1. /\ [schedule[s] EXCEPT !.next = "due"] \in Row
          /\ [schedule[s] EXCEPT !.exists = FALSE] \in Row
          /\ \A on \in BOOLEAN : [schedule[s] EXCEPT !.enabled = on] \in Row
      BY <2>1
    <3> HIDE DEF Row
    <3> QED
      BY <1>1, <3>1
  <2> HIDE DEF Row
  <2>3. schedule' \in [Schedules -> Row]
    BY <2>1, <2>2
  <2> QED
    BY <2>3 DEF Row
<1>3. TypeOK'
  BY <1>1, <1>2 DEF Inv, TypeOK, env, history
<1> QED
  BY <1>1, <1>3, OutsideStep

(* A request that has only found the job has changed nothing.                *)
LEMMA CancelFindStep ==
  ASSUME Inv, CancelFind
  PROVE  Inv'
<1>1. trouble' \in 0..MaxTrouble
  BY SchedulerAssumption DEF CancelFind, Inv, TypeOK
<1>2. TypeOK'
  BY <1>1 DEF CancelFind, Inv, TypeOK, history
<1> QED
  BY <1>2, OutsideStep DEF CancelFind

(* The flag is up and the request not through: nothing is promised yet.      *)
LEMMA CancelFlagStep ==
  ASSUME Inv, CancelFlag
  PROVE  Inv'
<1>1. Server \in Processes
  BY SchedulerAssumption
<1>2. PICK w \in Worker : w = worker[Server]
  BY <1>1, WorkerNow
<1>3. PICK u : u = [w EXCEPT !.flagged = TRUE]
  OBVIOUS
<1>4. /\ ToWorker(Server, u) /\ canceller' = "flagged"
      /\ UNCHANGED <<watermark, up, trouble, history>>
  BY <1>2, <1>3 DEF CancelFlag, env
<1>5. u \in Worker /\ u.pc = w.pc /\ u.known = w.known /\ SameWork(u, w)
  BY <1>3 DEF Worker, SameWork
<1>6. Fits(Server, u) /\ u.job = w.job
  BY <1>1, <1>2, <1>5, WorkerNow DEF Fits, SameWork, IsJudge
<1>7. ASSUME OwnCutoffs, Accounted, u.pc # "idle", u.job.owner \notin Judges
      PROVE  WorkAccounted(u)
  BY <1>1, <1>2, <1>5, <1>6, <1>7, WorkerNow, SameWorkAccounted
<1>8. trouble' \in 0..MaxTrouble
  BY <1>1, <1>4, WorkerNow
<1> QED
  BY <1>1, <1>4, <1>5, <1>6, <1>7, <1>8, QuietStep

(* The request goes through, and every process the token knows is dead.      *)
LEMMA CancelKillStep ==
  ASSUME Inv, CancelKill
  PROVE  Inv'
<1>1. Server \in Processes
  BY SchedulerAssumption
<1>2. PICK w \in Worker : w = worker[Server]
  BY <1>1, WorkerNow
<1>3. PICK alive \in BOOLEAN : alive = (w.alive /\ ~ w.known)
  BY Zenon
<1>4. PICK u : u = [w EXCEPT !.alive = alive]
  OBVIOUS
<1>5. /\ ToWorker(Server, u) /\ canceller' = "idle"
      /\ UNCHANGED <<watermark, up, trouble, history>>
  BY <1>2, <1>3, <1>4 DEF CancelKill, env
<1>6. u \in Worker /\ u.pc = w.pc /\ u.known = w.known /\ u.alive = alive /\ SameWork(u, w)
  BY <1>4 DEF Worker, SameWork
<1>7. Fits(Server, u) /\ u.job = w.job
  BY <1>1, <1>2, <1>6, WorkerNow DEF Fits, SameWork, IsJudge
<1>8. u.pc = "running" /\ ~ IsJudge(u.job) => ~ u.alive
  BY <1>3, <1>6, <1>7 DEF Fits
<1>9. ASSUME OwnCutoffs, Accounted, u.pc # "idle", u.job.owner \notin Judges
      PROVE  WorkAccounted(u)
  BY <1>1, <1>2, <1>6, <1>7, <1>9, WorkerNow, SameWorkAccounted
<1>10. trouble' \in 0..MaxTrouble
  BY <1>1, <1>5, WorkerNow
<1> QED
  BY <1>1, <1>5, <1>6, <1>7, <1>8, <1>9, <1>10, QuietStep

\* A job that is asked for carries a cursor, or no cutoff.
LEMMA AskedAccounted ==
  ASSUME TypeOK, OwnCutoffs, CursorsAccounted, NEW job \in Asked, job.owner \notin Judges
  PROVE  Level(job.owner, Traces, job.since)
<1>1. \/ \E r \in Requests : job = AdHoc(r)
      \/ \E s \in Schedules : job = JobOf(s, watermark[s])
  BY DEF Asked
<1>2. CASE \E r \in Requests : job = AdHoc(r)
  <2>1. job.since = 0
    BY <1>2 DEF AdHoc, OwnCutoffs
  <2> QED
    BY <2>1, NothingAtZero
<1>3. CASE \E s \in Schedules : job = JobOf(s, watermark[s])
  <2>1. PICK s \in Schedules : job = JobOf(s, watermark[s])
    BY <1>3
  <2>2. job.owner = s /\ job.since = watermark[s] /\ s \in Owners \ Judges
    BY <2>1 DEF JobOf, Owners
  <2> QED
    BY <2>2 DEF CursorsAccounted, Level
<1> QED
  BY <1>1, <1>2, <1>3

(* A CLI process begins a job with the cutoff it was asked for.              *)
LEMMA CliRunStep ==
  ASSUME Inv, NEW p \in Processes \ {Server}, NEW job \in Job, CliRun(p, job)
  PROVE  Inv'
<1>1. PICK u : u = Begun(job)
  OBVIOUS
<1>2. /\ ToWorker(p, u) /\ job \in Asked
      /\ UNCHANGED <<watermark, canceller, up, trouble, history>>
  BY <1>1 DEF CliRun, env
<1>3. u \in Worker /\ u.pc = "begun" /\ u.job = job
  BY <1>1, BegunType
<1>4. ASSUME OwnCutoffs, Accounted, job.owner \notin Judges
      PROVE  WorkAccounted(u)
  BY <1>1, <1>2, <1>4, AskedAccounted, BegunAccounted DEF Inv, Accounted
<1>5. trouble' \in 0..MaxTrouble /\ canceller' \in {"idle", "found", "flagged"}
  BY <1>2, WorkerNow
<1>6. Fits(p, u)
  BY <1>3 DEF Fits
<1> QED
  BY <1>2, <1>3, <1>4, <1>5, <1>6, QuietStep

(* A queued job carries the cutoff it was asked for.                         *)
LEMMA SubmitStep ==
  ASSUME Inv, NEW job \in Job, Submit(job)
  PROVE  Inv'
<1>1. /\ queue' = Append(queue, job) /\ job \in Asked
      /\ UNCHANGED <<started, schedule, watermark, tick, worker, canceller, up, trouble, history>>
  BY DEF Submit, env
<1>2. queue \in Seq(Job)
  BY DEF Inv, TypeOK
<1>3. queue' \in Seq(Job)
  BY <1>1, <1>2
<1>4. TypeOK'
  BY <1>1, <1>3 DEF Inv, TypeOK, history
<1>5. ASSUME OwnCutoffs, Accounted
      PROVE  CutoffsAccounted'
  <2>1. job.owner \notin Judges => Level(job.owner, Traces, job.since)
    BY <1>1, <1>5, AskedAccounted DEF Inv, Accounted
  <2>2. ASSUME NEW i \in 1..Len(queue')
        PROVE  queue'[i] = job \/ \E j \in 1..Len(queue) : queue'[i] = queue[j]
    BY <1>1, <1>2
  <2> QED
    BY <1>1, <1>5, <2>1, <2>2 DEF Accounted, CutoffsAccounted, Level, Covered, Ingested, history
<1> QED
  BY <1>1, <1>4, <1>5, CutoffStep

(* A worker that takes a job takes its cutoff over from the queue.           *)
LEMMA TakeStep ==
  ASSUME Inv, Take
  PROVE  Inv'
<1>1. queue \in Seq(Job) /\ queue # <<>> /\ Server \in Processes
  BY SchedulerAssumption DEF Take, Inv, TypeOK
<1>2. PICK job \in Job : job = Head(queue)
  BY <1>1
<1>3. PICK u : u = Begun(job)
  OBVIOUS
<1>4. /\ worker' = [worker EXCEPT ![Server] = u] /\ queue' = Tail(queue)
      /\ UNCHANGED <<started, schedule, watermark, tick, canceller, up, trouble, history>>
  BY <1>2, <1>3 DEF Take, env
<1>5. u \in Worker /\ u.pc = "begun" /\ u.job = job
  BY <1>3, BegunType
<1>6. 1 \in 1..Len(queue) /\ queue[1] = job
  BY <1>1, <1>2
<1>7. ASSUME OwnCutoffs, Accounted, job.owner \notin Judges
      PROVE  WorkAccounted(u)
  <2>1. Level(job.owner, Traces, job.since)
    BY <1>6, <1>7 DEF Accounted, CutoffsAccounted, Level
  <2> QED
    BY <1>3, <2>1, BegunAccounted
<1>8. Fits(Server, u)
  BY <1>5 DEF Fits
<1>9. /\ worker' \in [Processes -> Worker]
      /\ JobOK' /\ KnownToToken' /\ CancelStopsTheOperator'
      /\ OwnCutoffs /\ Accounted => WorkersAccounted'
  BY <1>1, <1>4, <1>5, <1>7, <1>8, WorkStep
<1>10. queue' \in Seq(Job) /\ \A i \in 1..Len(queue') : \E j \in 1..Len(queue) : queue'[i] = queue[j]
  BY <1>1, <1>4
<1>11. TypeOK'
  BY <1>4, <1>9, <1>10 DEF Inv, TypeOK, history
<1>12. ASSUME OwnCutoffs, Accounted
       PROVE  CursorsAccounted' /\ CutoffsAccounted'
  BY <1>4, <1>10, <1>12 DEF Accounted, CursorsAccounted, CutoffsAccounted, Level, Covered, Ingested,
                            history
<1>13. OwnCutoffs' <=> OwnCutoffs
  BY DEF OwnCutoffs
<1> QED
  BY <1>9, <1>11, <1>12, <1>13 DEF Inv, Accounted

\* The snapshots of a tick carry the cursors of their schedules.
LEMMA TickListStep ==
  ASSUME Inv, TickList
  PROVE  Inv'
<1> DEFINE wanted == {s \in Schedules : /\ schedule[s].exists /\ schedule[s].enabled
                                        /\ schedule[s].next # "later"}
           Snap(s) == [id |-> s, next |-> schedule[s].next, since |-> watermark[s]]
           rows == [i \in 1..Cardinality(wanted) |-> Snap(SetToSeq(wanted)[i])]
<1>1. /\ tick' = [tick EXCEPT !.todo = rows]
      /\ UNCHANGED <<started, schedule, watermark, queue, worker, canceller, up, trouble, history>>
  BY DEF TickList, env
<1>2. \A s \in wanted : Snap(s) \in Snapshot /\ s \in Schedules
  <2>1. \A s \in Schedules : watermark[s] \in Seconds /\ schedule[s].next \in {"unarmed", "later", "due"}
    BY DEF Inv, TypeOK, Owners
  <2> QED
    BY <2>1 DEF Snapshot
<1>3. IsFiniteSet(wanted)
  BY SchedulerAssumption, FS_Subset
<1> HIDE DEF wanted
<1>4. Cardinality(wanted) \in Nat /\ SetToSeq(wanted) \in [1..Cardinality(wanted) -> wanted]
  BY <1>3, ListOfSet
<1>5. rows \in Seq(Snapshot) /\ Len(rows) = Cardinality(wanted)
  BY <1>2, <1>4
<1>6. \A i \in 1..Len(rows) : rows[i].id \in Schedules /\ rows[i].since = watermark[rows[i].id]
  BY <1>2, <1>4, <1>5
<1> HIDE DEF rows
<1>7. tick \in [todo : Seq(Snapshot), armed : Job \cup {None}]
  BY DEF Inv, TypeOK
<1>8. /\ tick' \in [todo : Seq(Snapshot), armed : Job \cup {None}]
      /\ tick'.todo = rows /\ tick'.armed = tick.armed
  BY <1>1, <1>5, <1>7
<1>9. TypeOK'
  BY <1>1, <1>8 DEF Inv, TypeOK, history
<1>10. ASSUME OwnCutoffs, Accounted
       PROVE  CutoffsAccounted'
  <2>1. \A i \in 1..Len(rows) : rows[i].id \notin Judges =>
          \A t \in Traces \cap Ingested : started[t] <= rows[i].since => t \in Covered(rows[i].id)
    BY <1>6, <1>10 DEF Accounted, CursorsAccounted, Level, Owners
  <2> QED
    BY <1>1, <1>8, <1>10, <2>1 DEF Accounted, CutoffsAccounted, Level, Covered, Ingested, history
<1> QED
  BY <1>1, <1>9, <1>10, CutoffStep

(* The armed job takes its cutoff over from the snapshot of the tick.        *)
LEMMA TickArmStep ==
  ASSUME Inv, TickArm
  PROVE  Inv'
<1>1. tick \in [todo : Seq(Snapshot), armed : Job \cup {None}] /\ tick.todo \in Seq(Snapshot)
      /\ tick.todo # <<>>
  BY DEF Inv, TypeOK, TickArm
<1>2. PICK row \in Snapshot : row = Head(tick.todo)
  BY <1>1
<1>3. 1 \in 1..Len(tick.todo) /\ tick.todo[1] = row
  BY <1>1, <1>2
<1>4. PICK rest \in Seq(Snapshot) : rest = Tail(tick.todo)
  <2>1. PICK todo \in Seq(Snapshot) : todo = tick.todo
    BY <1>1
  <2>2. Tail(todo) \in Seq(Snapshot)
    BY <1>1, <2>1
  <2> QED
    BY <2>1, <2>2
<1>5. \A i \in 1..Len(rest) : \E j \in 1..Len(tick.todo) : rest[i] = tick.todo[j]
  BY <1>1, <1>4
<1>6. UNCHANGED <<started, watermark, queue, worker, canceller, up, trouble, history>>
  BY DEF TickArm, env
<1>7. PICK job : job = IF row.next = "due" THEN JobOf(row.id, row.since) ELSE None
  OBVIOUS
<1>8. JobOf(row.id, row.since) \in Job
  BY DEF JobOf, Job, Snapshot, Owners
<1>9. \/ /\ tick' = [todo |-> rest, armed |-> job]
         /\ schedule' = [schedule EXCEPT ![row.id].next = "later"]
      \/ tick' = [todo |-> <<>>, armed |-> None] /\ schedule' = schedule
  BY <1>2, <1>4, <1>7 DEF TickArm
<1>10. schedule' \in [Schedules -> [exists : BOOLEAN, enabled : BOOLEAN,
                                    next : {"unarmed", "later", "due"}]]
  <2> DEFINE Row == [exists : BOOLEAN, enabled : BOOLEAN, next : {"unarmed", "later", "due"}]
  <2>1. schedule \in [Schedules -> Row] /\ row.id \in Schedules /\ schedule[row.id] \in Row
    BY DEF Inv, TypeOK, Snapshot
  <2>2. [schedule[row.id] EXCEPT !.next = "later"] \in Row
    BY <2>1
  <2> HIDE DEF Row
  <2>3. schedule' \in [Schedules -> Row]
    BY <1>9, <2>1, <2>2
  <2> QED
    BY <2>3 DEF Row
<1>11. <<>> \in Seq(Snapshot) /\ Len(<<>>) = 0
  OBVIOUS
<1>12. job \in Job \cup {None}
  BY <1>7, <1>8
<1>13. tick' \in [todo : Seq(Snapshot), armed : Job \cup {None}]
  <2> DEFINE Jobs == Job \cup {None}
             Rows == Seq(Snapshot)
  <2>1. job \in Jobs /\ None \in Jobs /\ rest \in Rows
    BY <1>12
  <2>2. PICK empty \in Rows : empty = <<>>
    BY <1>11
  <2> HIDE DEF Jobs, Rows
  <2>3. [todo |-> rest, armed |-> job] \in [todo : Rows, armed : Jobs]
    BY <2>1
  <2>4. [todo |-> empty, armed |-> None] \in [todo : Rows, armed : Jobs]
    BY <2>1
  <2>5. tick' \in [todo : Rows, armed : Jobs]
    BY <1>9, <2>2, <2>3, <2>4
  <2> QED
    BY <2>5 DEF Jobs, Rows
<1>14. TypeOK'
  BY <1>6, <1>10, <1>13 DEF Inv, TypeOK, history
<1>15. ASSUME OwnCutoffs, Accounted
       PROVE  CutoffsAccounted'
  <2>1. row.id \notin Judges => Level(row.id, Traces, row.since)
    BY <1>3, <1>15 DEF Accounted, CutoffsAccounted, Level
  <2>2. job # None => job.owner = row.id /\ job.since = row.since
    BY <1>7 DEF JobOf
  <2>3. \A i \in 1..Len(rest) : rest[i].id \notin Judges =>
          \A t \in Traces \cap Ingested : started[t] <= rest[i].since => t \in Covered(rest[i].id)
    BY <1>5, <1>15 DEF Accounted, CutoffsAccounted, Level
  <2>4. CASE tick' = [todo |-> rest, armed |-> job]
    <3>1. tick'.todo = rest /\ tick'.armed = job
      BY <2>4
    <3> QED
      BY <1>6, <1>15, <2>1, <2>2, <2>3, <3>1
      DEF Accounted, CutoffsAccounted, Level, Covered, Ingested, history
  <2>5. CASE tick' = [todo |-> <<>>, armed |-> None]
    <3>1. tick'.todo = <<>> /\ tick'.armed = None
      BY <2>5
    <3> QED
      BY <1>6, <1>11, <1>15, <3>1
      DEF Accounted, CutoffsAccounted, Level, Covered, Ingested, history
  <2> QED
    BY <1>9, <2>4, <2>5
<1> QED
  BY <1>6, <1>14, <1>15, CutoffStep

(* The submitted job takes its cutoff over from the armed one.               *)
LEMMA TickSubmitStep ==
  ASSUME Inv, TickSubmit
  PROVE  Inv'
<1>1. tick \in [todo : Seq(Snapshot), armed : Job \cup {None}] /\ queue \in Seq(Job)
      /\ tick.armed # None
  BY DEF Inv, TypeOK, TickSubmit
<1>2. PICK job \in Job : job = tick.armed
  BY <1>1
<1>3. /\ queue' = Append(queue, job) /\ tick' = [tick EXCEPT !.armed = None]
      /\ UNCHANGED <<started, schedule, watermark, worker, canceller, up, trouble, history>>
  BY <1>2 DEF TickSubmit, env
<1>4. /\ tick' \in [todo : Seq(Snapshot), armed : Job \cup {None}]
      /\ tick'.todo = tick.todo /\ tick'.armed = None
  BY <1>1, <1>3
<1>5. /\ queue' \in Seq(Job)
      /\ \A i \in 1..Len(queue') : queue'[i] = job \/ \E j \in 1..Len(queue) : queue'[i] = queue[j]
  BY <1>1, <1>3
<1>6. TypeOK'
  BY <1>3, <1>4, <1>5 DEF Inv, TypeOK, history
<1>7. ASSUME OwnCutoffs, Accounted
      PROVE  CutoffsAccounted'
  <2>1. job.owner \notin Judges => Level(job.owner, Traces, job.since)
    BY <1>1, <1>2, <1>7 DEF Accounted, CutoffsAccounted, Level
  <2> QED
    BY <1>3, <1>4, <1>5, <1>7, <2>1
    DEF Accounted, CutoffsAccounted, Level, Covered, Ingested, history
<1> QED
  BY <1>3, <1>6, <1>7, CutoffStep

\* A trace that comes in behind a cutoff which a cursor, a snapshot or a job has
\* is late from the start.
LEMMA IngestStep ==
  ASSUME Inv, NEW t \in Traces, NEW second \in 1..MaxTime, Ingest(t, second)
  PROVE  Inv'
<1>1. /\ started[t] = 0 /\ started' = [started EXCEPT ![t] = second]
      /\ late' = [o \in Owners |-> IF \E cutoff \in Cutoffs(o) : second <= cutoff
                                   THEN late[o] \cup {t} ELSE late[o]]
      /\ UNCHANGED <<schedule, watermark, tick, queue, worker, canceller, up, trouble,
                     settled, missed>>
  BY DEF Ingest, env
<1>2. started \in [Traces -> Seconds] /\ late \in [Owners -> SUBSET Traces] /\ second \in Seconds
  BY SchedulerAssumption DEF Inv, TypeOK, Seconds
<1>3. started' \in [Traces -> Seconds] /\ late' \in [Owners -> SUBSET Traces]
  BY <1>1, <1>2
<1>4. TypeOK'
  BY <1>1, <1>3 DEF Inv, TypeOK
<1>5. JobOK' /\ KnownToToken' /\ CancelStopsTheOperator'
  BY <1>1 DEF Inv, JobOK, KnownToToken, CancelStopsTheOperator, IsJudge
<1>6. /\ \A u \in Ingested : u # t /\ u \in Ingested' /\ started'[u] = started[u]
      /\ Ingested' = Ingested \cup {t} /\ started'[t] = second
  <2>1. second # 0
    BY SchedulerAssumption
  <2> QED
    BY <1>1, <1>2, <2>1 DEF Ingested
<1>7. \A o \in Owners : Covered(o) \subseteq Covered(o)'
  BY <1>1, <1>2 DEF Covered
<1>8. ASSUME NEW o \in Owners, NEW cutoff \in Cutoffs(o), Level(o, Traces, cutoff)
      PROVE  Level(o, Traces, cutoff)'
  <2>1. second <= cutoff => t \in Covered(o)'
    BY <1>1, <1>2, <1>8 DEF Covered
  <2> QED
    BY <1>6, <1>7, <1>8, <2>1 DEF Level
<1>9. ASSUME OwnCutoffs, Accounted
      PROVE  Accounted'
  <2>1. CursorsAccounted'
    <3> SUFFICES ASSUME NEW o \in Owners \ Judges
                 PROVE  Level(o, Traces, watermark[o])'
      BY DEF CursorsAccounted
    <3>1. PICK cutoff : cutoff = watermark[o]
      OBVIOUS
    <3>2. cutoff \in Cutoffs(o) /\ Level(o, Traces, cutoff)
      BY <1>9, <3>1 DEF Cutoffs, Accounted, CursorsAccounted, Level
    <3>3. Level(o, Traces, cutoff)'
      BY <1>8, <3>2
    <3> QED
      BY <1>1, <3>1, <3>3 DEF Level
  <2>2. ASSUME NEW i \in 1..Len(tick.todo), tick.todo[i].id \notin Judges
        PROVE  Level(tick.todo[i].id, Traces, tick.todo[i].since)'
    <3>1. PICK row \in Snapshot : row = tick.todo[i] /\ row.id \in Owners
      BY WaitingTypes DEF Inv
    <3>2. row \in ToSet(tick.todo)
      BY <2>2, <3>1, <1>2 DEF ToSet, Inv, TypeOK
    <3>3. row.since \in Cutoffs(row.id)
      BY <3>2 DEF Cutoffs
    <3>4. Level(row.id, Traces, row.since)
      BY <1>9, <2>2, <3>1 DEF Accounted, CutoffsAccounted, Level
    <3>5. Level(row.id, Traces, row.since)'
      BY <1>8, <3>1, <3>3, <3>4
    <3> QED
      BY <1>1, <3>1, <3>5 DEF Level
  <2>3. ASSUME tick.armed # None, tick.armed.owner \notin Judges
        PROVE  Level(tick.armed.owner, Traces, tick.armed.since)'
    <3>1. PICK job \in Job : job = tick.armed /\ job.owner \in Owners
      BY <2>3, WaitingTypes DEF Inv
    <3>2. job \in Waiting
      BY <2>3, <3>1 DEF Waiting
    <3>3. job.since \in Cutoffs(job.owner)
      BY <3>2 DEF Cutoffs
    <3>4. Level(job.owner, Traces, job.since)
      BY <1>9, <2>3, <3>1 DEF Accounted, CutoffsAccounted, Level
    <3>5. Level(job.owner, Traces, job.since)'
      BY <1>8, <3>1, <3>3, <3>4
    <3> QED
      BY <1>1, <3>1, <3>5 DEF Level
  <2>4. ASSUME NEW i \in 1..Len(queue), queue[i].owner \notin Judges
        PROVE  Level(queue[i].owner, Traces, queue[i].since)'
    <3>1. PICK job \in Job : job = queue[i] /\ job.owner \in Owners
      BY WaitingTypes DEF Inv
    <3>2. job \in Waiting
      BY <2>4, <3>1 DEF Waiting, ToSet, Inv, TypeOK
    <3>3. job.since \in Cutoffs(job.owner)
      BY <3>2 DEF Cutoffs
    <3>4. Level(job.owner, Traces, job.since)
      BY <1>9, <2>4, <3>1 DEF Accounted, CutoffsAccounted, Level
    <3>5. Level(job.owner, Traces, job.since)'
      BY <1>8, <3>1, <3>3, <3>4
    <3> QED
      BY <1>1, <3>1, <3>5 DEF Level
  <2>5. CutoffsAccounted'
    BY <1>1, <2>2, <2>3, <2>4 DEF CutoffsAccounted, Level
  <2>6. WorkersAccounted'
    <3> SUFFICES ASSUME NEW q \in Processes,
                        worker'[q].pc # "idle", worker'[q].job.owner \notin Judges
                 PROVE  WorkAccounted(worker[q])'
      BY DEF WorkersAccounted
    <3>1. PICK v \in Worker : v = worker[q]
      BY WorkerNow
    <3>2. WorkAccounted(v) /\ v.job \in Job
      BY <1>1, <1>9, <3>1, WorkerNow
    <3>3. v.job.owner \in Owners
      BY <3>2 DEF Job
    <3>4. ASSUME v.pc = "begun"
          PROVE  Level(v.job.owner, Traces, v.job.since)'
      <4>1. v.job \in Waiting
        BY <3>1, <3>4 DEF Waiting
      <4>2. v.job.since \in Cutoffs(v.job.owner)
        BY <4>1 DEF Cutoffs
      <4>3. Level(v.job.owner, Traces, v.job.since)
        BY <3>2, <3>4 DEF WorkAccounted
      <4> QED
        BY <1>8, <3>3, <4>2, <4>3
    <3>5. WorkAccounted(v)'
      BY <1>6, <1>7, <3>2, <3>3, <3>4, WorkGrows
    <3> QED
      BY <1>1, <3>1, <3>5 DEF WorkAccounted, Level, Covered, CleanRun, Ingested
  <2> QED
    BY <2>1, <2>5, <2>6 DEF Accounted
<1>10. OwnCutoffs' <=> OwnCutoffs
  BY DEF OwnCutoffs
<1> QED
  BY <1>4, <1>5, <1>9, <1>10 DEF Inv

(* A crash drops cutoffs and moves no cursor.                                *)
LEMMA CrashStep ==
  ASSUME Inv, Crash
  PROVE  Inv'
<1>1. PICK u : u = Idle
  OBVIOUS
<1>2. /\ worker' = [worker EXCEPT ![Server] = u] /\ up' = FALSE /\ canceller' = "idle"
      /\ tick' = [todo |-> <<>>, armed |-> None] /\ queue' = <<>>
      /\ UNCHANGED <<started, schedule, watermark, history>>
  BY <1>1 DEF Crash
<1>3. u \in Worker /\ u.pc = "idle" /\ Server \in Processes
  BY <1>1, IdleType, SchedulerAssumption
<1>4. Fits(Server, u)
  BY <1>3 DEF Fits
<1>5. /\ worker' \in [Processes -> Worker]
      /\ JobOK' /\ KnownToToken' /\ CancelStopsTheOperator'
      /\ OwnCutoffs /\ Accounted => WorkersAccounted'
  BY <1>2, <1>3, <1>4, WorkStep
<1>6. trouble' \in 0..MaxTrouble
  BY SchedulerAssumption DEF Crash, Inv, TypeOK
<1>7. /\ <<>> \in Seq(Snapshot) /\ <<>> \in Seq(Job) /\ Len(<<>>) = 0
  OBVIOUS
<1>8. tick' \in [todo : Seq(Snapshot), armed : Job \cup {None}] /\ tick'.todo = <<>> /\ tick'.armed = None
  <2> DEFINE Jobs == Job \cup {None}
             Rows == Seq(Snapshot)
  <2>1. PICK empty \in Rows : empty = <<>>
    BY <1>7
  <2>2. None \in Jobs
    OBVIOUS
  <2> HIDE DEF Jobs, Rows
  <2>3. tick' \in [todo : Rows, armed : Jobs] /\ tick'.todo = empty /\ tick'.armed = None
    BY <1>2, <2>1, <2>2
  <2> QED
    BY <2>1, <2>3 DEF Jobs, Rows
<1>9. TypeOK'
  BY <1>2, <1>5, <1>6, <1>7, <1>8 DEF Inv, TypeOK, history
<1>10. ASSUME OwnCutoffs, Accounted
       PROVE  CursorsAccounted' /\ CutoffsAccounted'
  BY <1>2, <1>7, <1>8, <1>10 DEF Accounted, CursorsAccounted, CutoffsAccounted, Level, Covered,
                                 Ingested, history
<1>11. OwnCutoffs' <=> OwnCutoffs
  BY DEF OwnCutoffs
<1> QED
  BY <1>5, <1>9, <1>10, <1>11 DEF Inv, Accounted

(* A restarted server starts with nothing in memory.                         *)
LEMMA RestartStep ==
  ASSUME Inv, Restart
  PROVE  Inv'
<1>1. TypeOK'
  BY DEF Restart, Inv, TypeOK, history
<1> QED
  BY <1>1, OutsideStep DEF Restart

--------------------------------------------------------------------------------
(* The invariant and what follows                                              *)

(* Nothing is ingested at first.                                             *)
LEMMA InvInit == Init => Inv
<1> SUFFICES ASSUME Init
             PROVE  Inv
  OBVIOUS
<1>1. /\ started = [t \in Traces |-> 0]
      /\ watermark = [o \in Owners |-> 0]
      /\ tick = [todo |-> <<>>, armed |-> None] /\ queue = <<>>
      /\ worker = [p \in Processes |-> Idle]
      /\ canceller = "idle" /\ up = TRUE /\ trouble = 0
      /\ settled = [o \in Owners |-> {}] /\ missed = settled /\ late = settled
      /\ schedule \in [Schedules -> [exists : BOOLEAN, enabled : {TRUE}, next : {"unarmed", "later"}]]
  BY DEF Init
<1>2. /\ <<>> \in Seq(Snapshot) /\ <<>> \in Seq(Job) /\ Len(<<>>) = 0
  OBVIOUS
<1>3. tick \in [todo : Seq(Snapshot), armed : Job \cup {None}] /\ tick.todo = <<>> /\ tick.armed = None
  <2> DEFINE Jobs == Job \cup {None}
             Rows == Seq(Snapshot)
  <2>1. PICK empty \in Rows : empty = <<>>
    BY <1>2
  <2>2. None \in Jobs
    OBVIOUS
  <2> HIDE DEF Jobs, Rows
  <2>3. tick \in [todo : Rows, armed : Jobs] /\ tick.todo = empty /\ tick.armed = None
    BY <1>1, <2>1, <2>2
  <2> QED
    BY <2>1, <2>3 DEF Jobs, Rows
<1>4. worker \in [Processes -> Worker] /\ \A p \in Processes : worker[p].pc = "idle"
  BY <1>1, IdleType
<1>5. started \in [Traces -> Seconds] /\ watermark \in [Owners -> Seconds] /\ trouble \in 0..MaxTrouble
  BY <1>1, IdleType, SchedulerAssumption
<1>6. schedule \in [Schedules -> [exists : BOOLEAN, enabled : BOOLEAN,
                                  next : {"unarmed", "later", "due"}]]
  BY <1>1
<1>7. /\ settled \in [Owners -> SUBSET Traces] /\ missed \in [Owners -> SUBSET Traces]
      /\ late \in [Owners -> SUBSET Traces]
  BY <1>1
<1>8. TypeOK
  BY <1>1, <1>2, <1>3, <1>4, <1>5, <1>6, <1>7 DEF TypeOK
<1>9. JobOK /\ KnownToToken /\ CancelStopsTheOperator
  BY <1>4, SchedulerAssumption DEF JobOK, KnownToToken, CancelStopsTheOperator
<1>10. Ingested = {}
  BY <1>1 DEF Ingested
<1>11. Accounted
  BY <1>1, <1>2, <1>3, <1>4, <1>10
  DEF Accounted, CursorsAccounted, CutoffsAccounted, WorkersAccounted, Level
<1> QED
  BY <1>8, <1>9, <1>11 DEF Inv

(* The invariant is inductive.                                               *)
LEMMA InvNext == Inv /\ [Next]_vars => Inv'
<1> SUFFICES ASSUME Inv, [Next]_vars
             PROVE  Inv'
  OBVIOUS
<1>1. CASE Scheduler
  BY <1>1, TickListStep, TickArmStep, TickSubmitStep DEF Scheduler
<1>2. CASE Take
  BY <1>2, TakeStep
<1>3. ASSUME NEW p \in Processes, Run(p)
      PROVE  Inv'
  BY <1>3, ResolveStep, ImportFailsStep, DispatchStep, SpawnStep, SpawnAuthorStep, RegisterStep,
     RegisterCheckStep, TurnSucceedsStep, TurnFailsStep, FinishStep, RecordStep DEF Run
<1>4. CASE Cancel
  BY <1>4, CancelFindStep, CancelFlagStep, CancelKillStep DEF Cancel
<1>5. CASE Arrive
  BY <1>5, IngestStep DEF Arrive
<1>6. CASE Edit
  BY <1>6, ScheduleStep DEF Edit
<1>7. CASE Ask
  BY <1>7, SubmitStep, CliRunStep DEF Ask
<1>8. CASE Crash
  BY <1>8, CrashStep
<1>9. CASE Restart
  BY <1>9, RestartStep
<1>10. CASE UNCHANGED vars
  <2>1. UNCHANGED <<started, watermark, worker, history, tick, queue, canceller, schedule, up, trouble>>
    BY <1>10 DEF vars, history
  <2>2. TypeOK'
    BY <2>1 DEF Inv, TypeOK, history
  <2> QED
    BY <2>1, <2>2, OutsideStep
<1> QED
  BY <1>1, <1>2, <1>3, <1>4, <1>5, <1>6, <1>7, <1>8, <1>9, <1>10 DEF Next

(* The invariant holds of every behaviour.                                     *)
THEOREM InvAlways == Spec => []Inv
<1> QED
  BY InvInit, InvNext, PTL DEF Spec

(* Whatever the order in which a cancel, the start of a process and its         *)
(* registration come, a cancel that has gone through has killed the operator.   *)
THEOREM CancelStopsTheOperatorAlways == Spec => []CancelStopsTheOperator
<1>1. Inv => CancelStopsTheOperator
  BY DEF Inv
<1> QED
  BY <1>1, InvAlways, PTL

(* Every trace that the cursor of an analysis schedule or of the profile has    *)
(* passed was covered by a job that succeeded, failed in a sweep that went on,  *)
(* or came in behind a scan, a cursor or a cutoff in use; for any number of     *)
(* schedules and processes, which write the same cursors in any order.          *)
THEOREM LossIsExplainedAlways == Spec => []LossIsExplained
<1>1. Inv => LossIsExplained
  <2> SUFFICES ASSUME Inv, OwnCutoffs, NEW o \in Owners \ Judges, NEW t \in Lost(o)
               PROVE  t \in missed[o] \cup late[o]
    BY DEF Inv, LossIsExplained, OwnCutoffs
  <2>1. t \in Ingested /\ t \notin settled[o] /\ started[t] <= watermark[o] /\ t \in Traces
    BY DEF Lost, Ingested
  <2> QED
    BY <2>1 DEF Inv, Accounted, CursorsAccounted, Level, Covered
<1> QED
  BY <1>1, InvAlways, PTL
================================================================================
