--------------------------------- MODULE Checks --------------------------------
(* Check specs, replay runs and check runs (checks.py), the callers that race  *)
(* on them and the pruning of their rows (retention.py).                       *)
(*                                                                             *)
(* Every operation reads the spec's row in autocommit and takes the write lock *)
(* only afterwards (_ensure_kyoko_source), so what a check run and an approval *)
(* know of the trust level and of the lock is from before their transaction:   *)
(* CheckRead and ApproveRead are steps of their own.  A replay is a row that   *)
(* says "passed" from the start, an external process, the ingest of what it    *)
(* produced and a second transaction that completes the row.                   *)
(*                                                                             *)
(* Rows are numbered by counting those of the spec (_next_numbered_id); `at'   *)
(* stands for created_at, which the pruning and the order of the check runs    *)
(* are decided by.                                                             *)
EXTENDS CheckEvaluation, FiniteSetsExt

CONSTANTS
  Callers,        \* processes that run checks, replays, judges and prunings
  Specs,          \* the check specs of one proposal
  Definitions,    \* what a spec may say (see CheckEvaluation), and its trust_level
  Modes,          \* the side-effect modes a replay is requested with
  BaseRuns,       \* the runs that are in the store from the start
  RunData,        \* what each run looks like once it is in the store
  Answers,        \* what the replay commands and servers may answer
  MaxRows,        \* bound on the rows ever inserted
  MaxLocks        \* bound on the times a human locks or unlocks a spec

Levels == <<"L0_generated", "L1_repeated", "L2_regression", "L3_human_approved">>
L0 == Levels[1]
L1 == Levels[2]
L2 == Levels[3]
L3 == Levels[4]
Rank(level) == CHOOSE i \in 1..4 : Levels[i] = level
Verdicts == {"passed", "failed"}
CompletionStatuses == {"passed", "failed", "errored", "cancelled"}

ASSUME ChecksAssumption ==
  /\ MaxRows \in Nat /\ MaxLocks \in Nat
  /\ \A d \in Definitions : d.trust_level \in {L0, L1, L2, L3}
  /\ Modes \subseteq SafeModes /\ BaseRuns \subseteq Run /\ DOMAIN RunData = Run
  /\ \A a \in Answers : a.trace \in Run /\ a.mapped \in Run \cup {None}
  /\ None \notin Run /\ None \notin Specs /\ None \notin Answers /\ None \notin FailureStatuses

VARIABLES
  definition, \* what each spec says, as the proposal has it
  made,       \* the specs generated so far
  trust,      \* check_specs.trust_level
  locked,     \* check_locks.human_locked
  recorded,   \* the verdict in check_specs.definition_json, if a judge left one
  replays,    \* replay_runs
  checks,     \* check_runs
  runs,       \* the ids in the runs table
  clock,      \* rows inserted so far
  locks,      \* times a lock was set
  pruned,     \* whether rows were ever deleted
  pc          \* what each caller is doing

vars == <<definition, made, trust, locked, recorded, replays, checks, runs, clock, locks, pruned, pc>>
specVars == <<definition, made, trust, locked, recorded>>
rowVars == <<replays, checks, clock, pruned>>

Comparisons ==
  {"single_target_status", "fail_before_pass_after", "before_after_not_improved", "assertions_passed",
   "assertions_failed", "replay_required", "replay_not_passed", "judge_verdict_missing",
   "judge_verdict", "smoke_run", "unsupported_check_type"}

ReplayRow == [spec : Specs, n : 1..MaxRows, at : 1..MaxRows, want : Modes,
              status : CompletionStatuses, answered : BOOLEAN,
              actual : SafeModes, out : Run \cup {None}, mapped : Run \cup {None}]
CheckRow == [spec : Specs, n : 1..MaxRows, at : 1..MaxRows, replay : 0..MaxRows,
             status : {"passed", "failed", "errored"}, comparison : Comparisons]

Idle == [at |-> "idle"]

Init ==
  /\ definition \in [Specs -> Definitions]
  /\ made = {} /\ trust = [s \in Specs |-> definition[s].trust_level]
  /\ locked = [s \in Specs |-> FALSE] /\ recorded = [s \in Specs |-> None]
  /\ replays = {} /\ checks = {} /\ runs = BaseRuns
  /\ clock = 0 /\ locks = 0 /\ pruned = FALSE
  /\ pc = [c \in Callers |-> Idle]

Store == [r \in runs |-> RunData[r]]
Of(rows, s) == {r \in rows : r.spec = s}
\* Variant: only the rows that passed are counted.
NextNumberOfPassed(rows, s) == Cardinality({r \in Of(rows, s) : r.status = "passed"}) + 1
NextNumber(rows, s) == Cardinality(Of(rows, s)) + 1
\* The primary key is taken: the INSERT fails, and not with a CheckError.
Collides(rows, s) == \E r \in Of(rows, s) : r.n = NextNumber(rows, s)
Replay(s, n) == CHOOSE r \in replays : r.spec = s /\ r.n = n
HasReplay(s, n) == \E r \in replays : r.spec = s /\ r.n = n
Seen(s, n) == IF n = 0 THEN None ELSE Replay(s, n)

Goto(c, next) == pc' = [pc EXCEPT ![c] = next]

--------------------------------------------------------------------------------
(* Specs: generation, locks, approval                                          *)

Generate(s) ==
  /\ s \notin made
  /\ made' = made \cup {s}
  /\ UNCHANGED <<definition, trust, locked, recorded, rowVars, runs, locks, pc>>

SetLock(s, on) ==
  /\ s \in made /\ locked[s] # on /\ locks < MaxLocks
  /\ locked' = [locked EXCEPT ![s] = on]
  /\ locks' = locks + 1
  /\ UNCHANGED <<definition, made, trust, recorded, rowVars, runs, pc>>

ApproveRead(c, s) ==
  /\ pc[c] = Idle /\ s \in made /\ ~ locked[s]
  /\ Goto(c, [at |-> "approve", spec |-> s])
  /\ UNCHANGED <<specVars, rowVars, runs, locks>>

ApproveWrite(c) ==
  /\ pc[c].at = "approve"
  /\ trust' = [trust EXCEPT ![pc[c].spec] = L3]
  /\ Goto(c, Idle)
  /\ UNCHANGED <<definition, made, locked, recorded, rowVars, runs, locks>>

--------------------------------------------------------------------------------
(* Check runs                                                                  *)

\* "n" is the replay the check is asked to look at, 0 for none.
CheckRead(c, s, n) ==
  /\ s \in made
  /\ \/ pc[c] = Idle /\ (n = 0 \/ HasReplay(s, n))
     \/ pc[c].at = "run_check" /\ pc[c].spec = s /\ pc[c].n = n
  /\ Goto(c, [at |-> "check", spec |-> s, n |-> n, trust |-> trust[s],
              recorded |-> recorded[s], marks |-> pc[c] # Idle /\ n # 0])
  /\ UNCHANGED <<specVars, rowVars, runs, locks>>

\* The last two check runs, this one included, have the same status.
Repeated(rows, s) ==
  LET last == Max({r.at : r \in Of(rows, s)})
      before == {r \in Of(rows, s) : r.at # last}
  IN  /\ before # {}
      /\ \A r, p \in Of(rows, s) :
           (r.at = last /\ p.at = Max({q.at : q \in before})) =>
             (r.status = p.status /\ r.status \in {"passed", "failed"})

\* Variant: the lock is not looked at.
PromotedThoughLocked(rows, s, read, outcome, replay) ==
  IF definition[s].type \notin GateableTypes THEN trust[s]
  ELSE IF /\ outcome.status = "passed" /\ outcome.comparison = "fail_before_pass_after"
          /\ replay # None /\ replay.actual \in SafeModes /\ read \notin {L2, L3} THEN L2
  ELSE IF /\ definition[s].type = "deterministic_assertion" /\ read = L0
          /\ Repeated(rows, s) THEN L1
  ELSE trust[s]

\* Decided on the trust level read before the transaction, and on the lock as it
\* is now.
Promoted(rows, s, read, outcome, replay) ==
  IF definition[s].type \notin GateableTypes \/ locked[s] THEN trust[s]
  ELSE IF /\ outcome.status = "passed" /\ outcome.comparison = "fail_before_pass_after"
          /\ replay # None /\ replay.actual \in SafeModes /\ read \notin {L2, L3} THEN L2
  ELSE IF /\ definition[s].type = "deterministic_assertion" /\ read = L0
          /\ Repeated(rows, s) THEN L1
  ELSE trust[s]

CheckCommit(c) ==
  LET s == pc[c].spec
      replay == Seen(s, pc[c].n)
      outcome == Evaluate(definition[s], pc[c].recorded, replay, Store)
      row == [spec |-> s, n |-> NextNumber(checks, s), at |-> clock + 1, replay |-> pc[c].n,
              status |-> outcome.status, comparison |-> outcome.comparison]
  IN  /\ pc[c].at = "check" /\ clock < MaxRows
      /\ (pc[c].n = 0 \/ HasReplay(s, pc[c].n))
      /\ ~ Collides(checks, s)
      /\ checks' = checks \cup {row}
      /\ trust' = [trust EXCEPT ![s] =
           Promoted(checks', s, pc[c].trust, outcome, replay)]
      /\ clock' = clock + 1
      /\ Goto(c, Idle)
      /\ UNCHANGED <<definition, made, locked, recorded, replays, pruned, runs, locks>>

\* The replay was pruned: a CheckError, which the runner of a replay answers by
\* marking it.  The number is taken: an error nobody catches.
CheckFails(c) ==
  LET s == pc[c].spec
      gone == pc[c].n # 0 /\ ~ HasReplay(s, pc[c].n)
  IN  /\ pc[c].at = "check"
      /\ (gone \/ Collides(checks, s))
      /\ Goto(c, IF gone /\ pc[c].marks
                 THEN [at |-> "mark", spec |-> s, n |-> pc[c].n] ELSE Idle)
      /\ UNCHANGED <<specVars, rowVars, runs, locks>>

--------------------------------------------------------------------------------
(* Replays                                                                     *)

\* A row that says "passed" before anything ran; "then" asks for a check run of it.
CreateReplay(c, s, want, then) ==
  /\ pc[c] = Idle /\ s \in made /\ clock < MaxRows
  /\ ~ Collides(replays, s)
  /\ replays' = replays \cup
       {[spec |-> s, n |-> NextNumber(replays, s), at |-> clock + 1, want |-> want,
         status |-> "passed", answered |-> FALSE, actual |-> "none",
         out |-> None, mapped |-> None]}
  /\ clock' = clock + 1
  /\ Goto(c, [at |-> "running", spec |-> s, n |-> NextNumber(replays, s),
              then |-> then, marks |-> TRUE])
  /\ UNCHANGED <<specVars, checks, pruned, runs, locks>>

\* The human brings the answer to any replay row, in a file.
ReadFixture(c, s, n) ==
  /\ pc[c] = Idle /\ HasReplay(s, n)
  /\ Goto(c, [at |-> "running", spec |-> s, n |-> n, then |-> FALSE, marks |-> FALSE])
  /\ UNCHANGED <<specVars, rowVars, runs, locks>>

Failed(c) == IF pc[c].marks THEN [at |-> "mark", spec |-> pc[c].spec, n |-> pc[c].n] ELSE Idle

\* The program is missing, times out, exits with an error or answers nothing that
\* can be read; the server is down, cannot replay or not with this mode.
ReplayFails(c) ==
  /\ pc[c].at = "running"
  /\ Goto(c, Failed(c))
  /\ UNCHANGED <<specVars, rowVars, runs, locks>>

\* Variant: the server may do more than it was asked to.
AcceptedBeyondRequest(answer, row) ==
  /\ answer.identified /\ answer.actual \in SafeModes
  /\ answer.carries \/ (answer.status = "passed" /\ answer.out \in runs)

\* What is accepted of an answer before anything is written.
Accepted(answer, row) ==
  /\ answer.identified
  /\ answer.actual \in SafeModes
  /\ answer.actual \in AllowedActual[row.want]
  /\ answer.carries \/ (answer.status = "passed" /\ answer.out \in runs)

\* An answer that carries its trace is ingested, in transactions of its own; any
\* other names a run that must already be here.  An ingest that is rejected
\* raises a StorageError, which no runner of a replay catches.
Answer(c, answer) ==
  LET s == pc[c].spec
      n == pc[c].n
      ok == HasReplay(s, n) /\ Accepted(answer, Replay(s, n))
  IN  /\ pc[c].at = "running"
      /\ \/ /\ ~ ok
            /\ Goto(c, Failed(c)) /\ UNCHANGED runs
         \/ /\ ok
            /\ answer.carries => ~ answer.rejected
            /\ runs' = IF answer.carries THEN runs \cup {answer.trace} ELSE runs
            /\ Goto(c, [at |-> "complete", spec |-> s, n |-> n, then |-> pc[c].then,
                        marks |-> pc[c].marks, answer |-> answer])
         \/ /\ ok /\ answer.carries /\ answer.rejected
            /\ Goto(c, Idle) /\ UNCHANGED runs
      /\ UNCHANGED <<specVars, rowVars, locks>>

Fits(answer) == answer.out \in runs /\ answer.status \in CompletionStatuses

Complete(c) ==
  LET s == pc[c].spec
      n == pc[c].n
      answer == pc[c].answer
  IN  /\ pc[c].at = "complete"
      /\ \/ /\ HasReplay(s, n) /\ Fits(answer)
            /\ replays' = (replays \ {Replay(s, n)}) \cup
                 {[Replay(s, n) EXCEPT !.status = answer.status, !.answered = TRUE,
                                       !.actual = answer.actual, !.out = answer.out,
                                       !.mapped = answer.mapped]}
            /\ Goto(c, IF pc[c].then THEN [at |-> "run_check", spec |-> s, n |-> n] ELSE Idle)
         \/ /\ ~ (HasReplay(s, n) /\ Fits(answer))
            /\ Goto(c, Failed(c)) /\ UNCHANGED replays
      /\ UNCHANGED <<specVars, checks, clock, pruned, runs, locks>>

\* The row keeps what a completion has written of its output.  (The code reads
\* result_json before it has the write lock: a completion that lands in between
\* loses its result.  Here the two are one step.)
MarkErrored(c) ==
  LET s == pc[c].spec
      n == pc[c].n
  IN  /\ pc[c].at = "mark"
      /\ replays' = IF HasReplay(s, n)
                    THEN (replays \ {Replay(s, n)}) \cup {[Replay(s, n) EXCEPT !.status = "errored"]}
                    ELSE replays
      /\ Goto(c, Idle)
      /\ UNCHANGED <<specVars, checks, clock, pruned, runs, locks>>

--------------------------------------------------------------------------------
(* Judges, crashes, pruning                                                    *)

\* A judge command works on a request built from the rows as they are; what it
\* does not answer properly changes nothing.
JudgeStart(c, s) ==
  /\ pc[c] = Idle /\ s \in made /\ definition[s].type = "judge"
  /\ Goto(c, [at |-> "judging", spec |-> s])
  /\ UNCHANGED <<specVars, rowVars, runs, locks>>

\* Its verdict goes into the spec; the check run that follows reads it from there.
JudgeRecord(c, verdict) ==
  /\ pc[c].at = "judging"
  /\ recorded' = [recorded EXCEPT ![pc[c].spec] = verdict]
  /\ Goto(c, [at |-> "run_check", spec |-> pc[c].spec, n |-> 0])
  /\ UNCHANGED <<definition, made, trust, locked, rowVars, runs, locks>>

Crash(c) ==
  /\ pc[c] # Idle
  /\ Goto(c, Idle)
  /\ UNCHANGED <<specVars, rowVars, runs, locks>>

\* The rows up to the cutoff, and the check runs of the replays among them, are
\* collected before the transaction that deletes them.
PruneRead(c, cutoff) ==
  LET old == {r \in replays : r.at <= cutoff}
  IN  /\ pc[c] = Idle /\ cutoff <= clock
      /\ Goto(c, [at |-> "prune", replays |-> {r.at : r \in old},
                  checks |-> {k.at : k \in {k \in checks :
                    k.at <= cutoff \/ \E r \in old : k.spec = r.spec /\ k.replay = r.n}}])
      /\ UNCHANGED <<specVars, rowVars, runs, locks>>

\* A check run that came in between and refers to a replay to be deleted makes
\* the foreign key fail: nothing is deleted.
PruneApply(c) ==
  LET kept == {k \in checks : k.at \notin pc[c].checks}
      gone == {r \in replays : r.at \in pc[c].replays}
      dangling == \E k \in kept, r \in gone : k.spec = r.spec /\ k.replay = r.n
  IN  /\ pc[c].at = "prune"
      /\ \/ /\ ~ dangling
            /\ replays' = replays \ gone /\ checks' = kept
            /\ pruned' = (pruned \/ gone # {} \/ kept # checks)
         \/ /\ dangling
            /\ UNCHANGED <<replays, checks, pruned>>
      /\ Goto(c, Idle)
      /\ UNCHANGED <<specVars, clock, runs, locks>>

Next ==
  \/ \E s \in Specs : Generate(s) \/ \E on \in BOOLEAN : SetLock(s, on)
  \/ \E c \in Callers :
       \/ \E s \in Specs :
            \/ ApproveRead(c, s)
            \/ \E n \in 0..MaxRows : CheckRead(c, s, n)
            \/ \E want \in Modes, then \in BOOLEAN : CreateReplay(c, s, want, then)
            \/ \E n \in 1..MaxRows : ReadFixture(c, s, n)
            \/ JudgeStart(c, s)
       \/ ApproveWrite(c) \/ CheckCommit(c) \/ CheckFails(c)
       \/ ReplayFails(c) \/ Complete(c) \/ MarkErrored(c) \/ Crash(c) \/ PruneApply(c)
       \/ \E verdict \in Verdicts : JudgeRecord(c, verdict)
       \/ \E answer \in Answers : Answer(c, answer)
       \/ \E cutoff \in 1..MaxRows : PruneRead(c, cutoff)

Spec == Init /\ [][Next]_vars

--------------------------------------------------------------------------------
(* Properties                                                                  *)

InFlight == {"running", "complete", "mark", "run_check", "check"}

(* Rows, specs and callers are what their tables and code allow.               *)
TypeOK ==
  /\ definition \in [Specs -> Definitions] /\ made \subseteq Specs /\ runs \subseteq Run /\ BaseRuns \subseteq runs
  /\ trust \in [Specs -> {L0, L1, L2, L3}] /\ locked \in [Specs -> BOOLEAN]
  /\ recorded \in [Specs -> Verdicts \cup {None}]
  /\ replays \subseteq ReplayRow /\ checks \subseteq CheckRow
  /\ clock \in 0..MaxRows /\ locks \in 0..MaxLocks /\ pruned \in BOOLEAN
  /\ \A c \in Callers : pc[c].at \in InFlight \cup {"idle", "approve", "judging", "prune"}

(* A spec becomes L2_regression only by a check run of a replay that answered, *)
(* passed, improved on a failing target and, as long as no row was pruned, did *)
(* no more than it was asked to (_maybe_promote_trust_level, against the rows  *)
(* completions, marks, crashes and prunings leave).  Once rows were pruned a   *)
(* replay may get the number of an older one, whose answer was judged by what  *)
(* that one was asked to do and lands in the new row.                          *)
RegressionIsProven ==
  [][\A s \in Specs : (trust[s] # L2 /\ trust'[s] = L2) =>
       \E k \in checks' \ checks, r \in replays' :
         /\ k.spec = s /\ r.spec = s /\ k.replay = r.n /\ k.status = "passed"
         /\ r.answered /\ r.status = "passed" /\ (pruned \/ r.actual \in AllowedActual[r.want])
         /\ Failing(RunData[definition[s].target].status)
         /\ Acceptable(StatusOf(r.mapped, Store'))]_vars

(* Trust falls only by a check run that had read the spec before it was raised *)
(* (run_check reads trust_level before its transaction), and that of a locked  *)
(* spec changes only by an approval that had read it unlocked                  *)
(* (approve_check_spec checks the lock before its transaction).                *)
TrustIsKept ==
  [][\A s \in Specs :
       /\ Rank(trust'[s]) < Rank(trust[s]) =>
            \E c \in Callers : /\ pc[c].at = "check" /\ pc[c].spec = s
                               /\ Rank(pc[c].trust) < Rank(trust[s])
       /\ (locked[s] /\ trust'[s] # trust[s]) =>
            /\ trust'[s] = L3
            /\ \E c \in Callers : pc[c].at = "approve" /\ pc[c].spec = s]_vars

(* As long as nothing was pruned the next number of a spec is free, and the    *)
(* number a caller holds is that of the row it was given                       *)
(* (_next_numbered_id counts rows).                                            *)
NumbersIdentify ==
  /\ TypeOK
  /\ ~ pruned =>
    /\ \A s \in Specs : ~ Collides(replays, s) /\ ~ Collides(checks, s)
    /\ \A r, p \in replays : (r.spec = p.spec /\ r.n = p.n) => r = p
    /\ \A c \in Callers : (pc[c].at \in InFlight /\ pc[c].n # 0) => HasReplay(pc[c].spec, pc[c].n)

================================================================================
