-------------------------------- MODULE Recorder -------------------------------
(* The recorder inside an instrumented agent (sdk.py): runs and spans that are *)
(* opened, ended by hand or by leaving their block, in any order, as tasks of  *)
(* one event loop do; and the snapshot of what has ended, which the agent may  *)
(* send at any time.  The root span of a run goes by the name of the run.      *)
EXTENDS Naturals, Sequences, SequencesExt

CONSTANTS
  None,
  Run,       \* numbered as they begin
  Handle,    \* spans other than the roots, other numbers, as they are made
  MaxSends,  \* bound on the snapshots sent
  ParentsFirst(_, _),      \* the order in which a list of spans is sent, and
  ReferencesHold(_, _, _)  \* what the server refuses (both in Traces)

Id == Run \cup Handle
Outcome == {"succeeded", "failed"}

VARIABLES
  run,       \* [Run -> [entered, outcome, stack]], the stack of open spans
  span,      \* [Id -> None or the handle: its run, parent, place, outcome]
  spans,     \* payloads of ended spans, in the order they ended
  runs,      \* payloads of ended runs
  stored,    \* [Id -> outcome of the stored span or None]
  sends      \* snapshots that reached the server

vars == <<run, span, spans, runs, stored, sends>>

NewRun == [entered |-> FALSE, outcome |-> None, stack |-> <<>>]
NewSpan(r, parent) == [run |-> r, parent |-> parent, at |-> "made", outcome |-> None]

Init ==
  /\ run = [r \in Run |-> NewRun] /\ span = [i \in Id |-> None]
  /\ spans = <<>> /\ runs = {}
  /\ stored = [i \in Id |-> None] /\ sends = 0

Unsent == UNCHANGED <<stored, sends>>

(* with recorder.run(...): the root span is entered too.  An agent makes the   *)
(* spans of a run from its block on; one that was never entered may be ended.  *)
EnterRun(r) ==
  /\ ~run[r].entered /\ \A before \in Run : before < r => run[before].entered
  /\ run' = [run EXCEPT ![r].entered = TRUE, ![r].stack = Append(@, r)]
  /\ span' = [span EXCEPT ![r] = [NewSpan(r, None) EXCEPT !.at = "in"]]
  /\ UNCHANGED <<spans, runs>> /\ Unsent

ParentFor(r) == IF run[r].stack # <<>> THEN Last(run[r].stack) ELSE r

MakeSpan(r, h) ==
  /\ span[h] = None /\ run[r].entered
  /\ \A before \in Handle : before < h => span[before] # None
  /\ span' = [span EXCEPT ![h] = NewSpan(r, ParentFor(r))]
  /\ UNCHANGED <<run, spans, runs>> /\ Unsent

EnterSpan(h) ==
  /\ span[h] # None /\ span[h].at = "made"
  /\ span' = [span EXCEPT ![h].at = "in"]
  /\ run' = [run EXCEPT ![span[h].run].stack = Append(@, h)]
  /\ UNCHANGED <<spans, runs>> /\ Unsent

(* finish and fail of a span: the first of them is recorded.                   *)
Recorded(i, outcome, place) ==
  IF span[i].outcome # None THEN span' = [span EXCEPT ![i].at = place] /\ UNCHANGED spans
  ELSE /\ span' = [span EXCEPT ![i].outcome = outcome, ![i].at = place]
       /\ spans' = Append(spans, [id |-> i, outcome |-> outcome])

EndSpan(h, outcome) ==
  /\ span[h] # None /\ span[h].at \in {"made", "in"} /\ span[h].outcome = None
  /\ Recorded(h, outcome, span[h].at)
  /\ UNCHANGED <<run, runs>> /\ Unsent

(* A block is left once, and takes its span off the stack only from the top:   *)
(* one that is left earlier than those above it stays there.                   *)
LeaveSpan(h, outcome) ==
  /\ span[h] # None /\ span[h].at = "in"
  /\ Recorded(h, outcome, "left")
  /\ run' = [run EXCEPT ![span[h].run].stack = IF @ # <<>> /\ Last(@) = h THEN Front(@) ELSE @]
  /\ UNCHANGED runs /\ Unsent

(* finish and fail of a run end its root span with it.                         *)
EndedRun(r, outcome, stack) ==
  IF run[r].outcome # None
  THEN run' = [run EXCEPT ![r].stack = stack] /\ UNCHANGED <<span, spans, runs>>
  ELSE /\ run' = [run EXCEPT ![r].outcome = outcome, ![r].stack = stack]
       /\ Recorded(r, outcome, "in")
       /\ runs' = runs \cup {r}

EndRun(r, outcome) ==
  /\ run[r].entered /\ run[r].outcome = None
  /\ EndedRun(r, outcome, run[r].stack) /\ Unsent

LeaveRun(r, outcome) ==
  /\ run[r].stack # <<>> /\ Head(run[r].stack) = r
  /\ EndedRun(r, outcome, <<>>) /\ Unsent

(* The snapshot: a span that was recorded twice is sent as it was last.        *)
Sent == [i \in {s.id : s \in ToSet(spans)} |->
           SelectLastInSeq(spans, LAMBDA s : s.id = i)]
Snapshot ==
  LET ids == SelectSeq([n \in DOMAIN spans |-> IF Sent[spans[n].id] = n THEN spans[n].id ELSE None],
                       LAMBDA i : i # None)
  IN  ParentsFirst(ids, [i \in DOMAIN Sent |-> span[i].parent])

Stored == {i \in Id : stored[i] # None}
Accepted ==
  /\ \A i \in DOMAIN Sent : span[i].run \in runs
  /\ ReferencesHold(Snapshot, [i \in Id |-> IF span[i] = None THEN None ELSE span[i].parent], Stored \cup {None})

(* The server stores a snapshot as a whole, or rolls it back and breaks the    *)
(* connection.  A server that is down changes nothing.                         *)
Send ==
  /\ sends < MaxSends
  /\ sends' = sends + 1
  /\ stored' = IF Accepted
               THEN [i \in Id |-> IF i \in DOMAIN Sent THEN spans[Sent[i]].outcome ELSE stored[i]]
               ELSE stored
  /\ UNCHANGED <<run, span, spans, runs>>

Next ==
  \/ \E r \in Run : EnterRun(r)
  \/ \E r \in Run, h \in Handle : MakeSpan(r, h)
  \/ \E h \in Handle : EnterSpan(h)
  \/ \E h \in Handle, o \in Outcome : EndSpan(h, o)
  \/ \E h \in Handle, o \in Outcome : LeaveSpan(h, o)
  \/ \E r \in Run, o \in Outcome : EndRun(r, o)
  \/ \E r \in Run, o \in Outcome : LeaveRun(r, o)
  \/ Send

--------------------------------------------------------------------------------

(* Nothing is open: every span that was entered and every run that has a span  *)
(* has ended.                                                                  *)
AtRest ==
  \A i \in Id : span[i] # None =>
    /\ span[i].at # "made" => span[i].outcome # None
    /\ run[span[i].run].outcome # None

(* When nothing is open, the snapshot is accepted whatever order the blocks    *)
(* were left in: it holds each ended span once and a parent before its         *)
(* children, and the run has the outcome of its root.  At any time, what is    *)
(* stored is what was first recorded, with every parent it names.              *)
RecordingIsAccepted ==
  /\ AtRest => Accepted
  /\ \A i \in Id : Len(SelectSeq(spans, LAMBDA s : s.id = i)) =
                   (IF span[i] # None /\ span[i].outcome # None THEN 1 ELSE 0)
  /\ \A r \in runs : span[r].outcome = run[r].outcome
  /\ \A i \in Stored : /\ stored[i] = span[i].outcome
                       /\ span[i].parent \in Stored \cup {None} /\ span[i].run \in runs

(* sdk.py:427, delivery is best-effort "so telemetry never crashes the         *)
(* workflow it is observing": what is sent while something is open does.       *)
SnapshotsAreAccepted == [][sends' # sends => Accepted]_vars
================================================================================
