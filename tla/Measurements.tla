------------------------------ MODULE Measurements -----------------------------
(* Judges (llm_evals.py, evals_measure.py, eval_issues.py): a call measures    *)
(* the units of a corpus one by one, keeps a result and counters for each in a *)
(* transaction of its own, then completes its run and raises an issue when the *)
(* aggregate is bad.  Calls, archiving and the arrival of traces interleave.   *)
(* A score is a number of steps out of Top, which stands for 1.0; that of a    *)
(* boolean judge is Top when the answer is notable, and 0 when it is not.      *)
EXTENDS Integers, Sequences, SequencesExt

CONSTANTS
  None,
  Profile,
  Asset,       \* bundled judges: their output and direction
  Unit,        \* numbers, in the order the units started
  Limit,       \* units a corpus holds
  Top, Threshold,
  Worst,       \* units an issue cites; 5 in the code
  Call         \* the calls, numbered as they are made

VARIABLES
  asset,       \* the judge the calls run
  definition,  \* its row: who owns it and its status; None before it is seeded
  units,       \* the units that have arrived
  call,        \* [Call -> None or what the call keeps in memory]
  run,         \* [Call -> the row of its measurement run or None]
  results,     \* [Call -> the rows of its results]
  issue,       \* [Call -> the units its issue cites or None]
  wanted       \* history: the status that was last set

vars == <<asset, definition, units, call, run, results, issue, wanted>>

Init ==
  /\ asset \in Asset /\ definition = None /\ units = {}
  /\ call = [c \in Call |-> None] /\ run = [c \in Call |-> None]
  /\ results = [c \in Call |-> <<>>] /\ issue = [c \in Call |-> None]
  /\ wanted = "active"

LowerIsBetter == asset.direction # "higher_is_better"

(* Bundled definitions are upserted by id at every use; a conflict leaves the  *)
(* profile and the status.                                                     *)
Seed(p) == IF definition = None THEN [owner |-> p, status |-> "active"] ELSE definition

SetStatus(p, status) ==
  /\ definition' = IF Seed(p).owner = p THEN [Seed(p) EXCEPT !.status = status] ELSE Seed(p)
  /\ wanted' = IF Seed(p).owner = p THEN status ELSE wanted
  /\ UNCHANGED <<asset, units, call, run, results, issue>>

Arrive(u) ==
  /\ units' = units \cup {u} /\ u \notin units
  /\ UNCHANGED <<asset, definition, call, run, results, issue, wanted>>

(* The oldest units, up to the limit.                                          *)
Corpus ==
  LET refs == SetToSortSeq(units, <) IN SubSeq(refs, 1, Min({Limit, Len(refs)}))

OpenedRun == [status |-> "running", total |-> 0, scored |-> 0, skipped |-> 0, aggregate |-> None]
NoTally == [sum |-> 0, scored |-> 0]

(* run_llm_eval up to its first unit: archived or not, whoever owns it.        *)
Start(c, p) ==
  /\ call[c] = None /\ \A before \in Call : before < c => call[before] # None
  /\ definition' = Seed(p)
  /\ call' = [call EXCEPT ![c] = [at |-> "measuring", corpus |-> Corpus, todo |-> Corpus,
                                  tally |-> NoTally]]
  /\ run' = [run EXCEPT ![c] = OpenedRun]
  /\ UNCHANGED <<asset, units, results, issue, wanted>>

(* A result and the counters of its run, in one transaction.                   *)
Record(c, unit, score) ==
  /\ results' = [results EXCEPT ![c] = Append(@, [unit |-> unit, score |-> score])]
  /\ run' = [run EXCEPT ![c].total = @ + 1, ![c].scored = @ + (IF score = None THEN 0 ELSE 1),
                        ![c].skipped = @ + (IF score = None THEN 1 ELSE 0)]

Tally(tally, score) ==
  IF score = None THEN tally ELSE [sum |-> tally.sum + score, scored |-> tally.scored + 1]

Scores == IF asset.output = "numeric" THEN 0..Top ELSE {0, Top}

(* One unit: bound, judged and recorded; None when a variable is missing.      *)
Measure(c, score) ==
  /\ call[c] # None /\ call[c].at = "measuring" /\ call[c].todo # <<>>
  /\ score \in Scores \cup {None}
  /\ Record(c, Head(call[c].todo), score)
  /\ call' = [call EXCEPT ![c].todo = Tail(@), ![c].tally = Tally(@, score)]
  /\ UNCHANGED <<asset, definition, units, issue, wanted>>

(* The judge fails or times out, or the process dies: nothing marks the run.   *)
(* A call that asks for no issue ends like one that was lost once completed.   *)
Lost(c) ==
  /\ call[c] # None /\ call[c].at \in {"measuring", "completed"}
  /\ call' = [call EXCEPT ![c].at = "lost"]
  /\ UNCHANGED <<asset, definition, units, run, results, issue, wanted>>

Complete(c) ==
  /\ call[c] # None /\ call[c].at = "measuring" /\ call[c].todo = <<>>
  /\ run' = [run EXCEPT ![c].status = "complete", ![c].aggregate = call[c].tally]
  /\ call' = [call EXCEPT ![c].at = "completed"]
  /\ UNCHANGED <<asset, definition, units, results, issue, wanted>>

(* value >= Threshold, or 1 - value; the value of nothing is 0.                *)
IsProblem(aggregate) ==
  LET of == IF aggregate.scored = 0 THEN 1 ELSE aggregate.scored
      worse == IF LowerIsBetter THEN aggregate.sum ELSE (of * Top) - aggregate.sum
  IN  worse >= Threshold * of

Badness(score) == IF LowerIsBetter THEN score ELSE Top - score
Scored(c) == SelectSeq(results[c], LAMBDA r : r.score # None)
WorstUnits(c) ==
  LET rows == IF asset.output = "numeric"
              THEN SortSeq(Scored(c), LAMBDA r, s : Badness(r.score) > Badness(s.score)
                                                    \/ (Badness(r.score) = Badness(s.score) /\ r.unit < s.unit))
              ELSE SelectSeq(Scored(c), LAMBDA r : Badness(r.score) = Top)
  IN  {rows[i].unit : i \in DOMAIN SubSeq(rows, 1, Min({Worst, Len(rows)}))}

RaiseIssue(c) ==
  /\ call[c] # None /\ call[c].at = "completed"
  /\ issue' = [issue EXCEPT ![c] = IF IsProblem(run[c].aggregate) THEN WorstUnits(c) ELSE None]
  /\ call' = [call EXCEPT ![c].at = "done"]
  /\ UNCHANGED <<asset, definition, units, run, results, wanted>>

Next ==
  \/ \E p \in Profile, status \in {"active", "archived"} : SetStatus(p, status)
  \/ \E u \in Unit : Arrive(u)
  \/ \E c \in Call, p \in Profile : Start(c, p)
  \/ \E c \in Call, score \in 0..Top \cup {None} : Measure(c, score)
  \/ \E c \in Call : Lost(c) \/ Complete(c) \/ RaiseIssue(c)

--------------------------------------------------------------------------------

(* compare_eval_runs: the difference of two values, oriented, when it is at    *)
(* least 0.02.                                                                 *)
Of(aggregate) == IF aggregate.scored = 0 THEN 1 ELSE aggregate.scored
Verdict(base, comp) ==
  LET delta == (comp.sum * Of(base)) - (base.sum * Of(comp))
      small == 50 * delta < Of(base) * Of(comp) * Top /\ -50 * delta < Of(base) * Of(comp) * Top
  IN  IF small THEN "unchanged" ELSE IF (delta < 0) = LowerIsBetter THEN "improved" ELSE "regressed"

Compared(b, c) ==
  \A d \in {b, c} : run[d] # None /\ run[d].status = "complete" /\ run[d].scored > 0

TotalBadness(c) == FoldLeft(LAMBDA sum, r : sum + Badness(r.score), 0, Scored(c))
SumOf(rows) == FoldLeft(LAMBDA sum, r : sum + r.score, 0, rows)

(* A run that is complete holds one result for each unit of its corpus, as the *)
(* corpus was when it began, and its aggregate and counters are those of the   *)
(* results; an issue is raised for it when one was asked for and the scored    *)
(* units are bad enough, and cites none that is better than one it leaves out. *)
(* A judge that was archived stays so until it is set active.                  *)
MeasuredAddsUp ==
  /\ \A c \in Call : run[c] # None =>
       /\ run[c].total = Len(results[c]) /\ run[c].scored = Len(Scored(c))
       /\ run[c].skipped = run[c].total - run[c].scored
       /\ run[c].status = "complete" =>
            /\ [i \in DOMAIN results[c] |-> results[c][i].unit] = call[c].corpus
            /\ run[c].aggregate = [sum |-> SumOf(Scored(c)), scored |-> Len(Scored(c))]
       /\ issue[c] # None <=> call[c].at = "done" /\ IsProblem(run[c].aggregate)
       /\ issue[c] # None =>
            /\ run[c].status = "complete"
            /\ \A i, j \in DOMAIN Scored(c) :
                 Scored(c)[i].unit \in issue[c] /\ Scored(c)[j].unit \notin issue[c] =>
                   Badness(Scored(c)[i].score) >= Badness(Scored(c)[j].score)
       /\ \A b \in Call : Compared(b, c) /\ Verdict(run[b].aggregate, run[c].aggregate) = "improved" =>
            TotalBadness(c) * run[b].scored < TotalBadness(b) * run[c].scored
  /\ definition # None => definition.status = wanted

(* metric_bindings.py:15-17, a unit whose variable is missing is skipped,      *)
(* "never silently scored": a corpus that is skipped as a whole has value 0.   *)
IssuesAreScored == \A c \in Call : issue[c] # None => run[c].scored > 0
================================================================================
