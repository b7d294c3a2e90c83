-------------------------------- MODULE Traces ---------------------------------
(* Telemetry on its way in (otlp.py, storage.py 1216-1275): the spans of one   *)
(* trace arrive in the batches of an exporter, in any order, and again when an *)
(* answer was lost.  Each batch is taken for a whole trace: it is normalized   *)
(* by itself and its rows replace those that are stored under the same ids.    *)
(*                                                                             *)
(* Spans are numbered as they sort, by start and id: times are kept to the     *)
(* second, so a child may come before its parent.                              *)
EXTENDS Naturals, Sequences, SequencesExt

CONSTANTS
  None,
  LastSpan,   \* spans are 1..LastSpan
  End,        \* [span -> when it ended]
  Agents,     \* agents that spans name
  Service,    \* service.name of the resource, the agent of spans that name none
  Batches,
  MaxPosts    \* bound on the deliveries

Span == 1..LastSpan

VARIABLES
  trace,      \* what was traced: per span its parent, agent, failure and batch
  rows,       \* [span -> row or None]
  run,        \* the row of the run, or None
  failures,   \* timeline events span_failed
  index,      \* [span -> number of its documents in spans_fts]
  posts,      \* deliveries so far
  delivered   \* history: batches that were posted

vars == <<trace, rows, run, failures, index, posts, delivered>>

Parent(s) == trace[s].parent
Acyclic(t) == \A S \in (SUBSET Span) \ {{}} : \E s \in S : t[s].parent \notin S

(* The spans of a batch as _extract_spans sorts them.                          *)
Sent(b) == {s \in Span : trace[s].batch = b}
Sorted(S) == SetToSortSeq(S, <)

(* A trace is what an instrumented agent did: any forest of spans.             *)
Init ==
  /\ trace \in [Span -> [parent : Span \cup {None}, agent : Agents \cup {None},
                         failed : BOOLEAN, batch : Batches]]
  /\ Acyclic(trace)
  /\ rows = [s \in Span |-> None] /\ run = None
  /\ failures = {} /\ index = [s \in Span |-> 0]
  /\ posts = 0 /\ delivered = {}

(* The first span whose parent is not in the batch.                            *)
RootSpan(S) == Sorted({s \in S : Parent(s) \notin S})[1]

(* A span that names no agent has that of its parent, when the parent was      *)
(* looked at before it.                                                        *)
ExplicitAgent(s) == trace[s].agent
AgentKey(s) == IF ExplicitAgent(s) # None THEN ExplicitAgent(s) ELSE Service
AgentKeys(S) ==
  LET Known == [s \in Span |-> IF s = RootSpan(S) THEN AgentKey(s) ELSE None]
      Inherits(keys, s) == ExplicitAgent(s) = None /\ Parent(s) \in S /\ keys[Parent(s)] # None
  IN  FoldLeft(LAMBDA keys, s : [keys EXCEPT ![s] = IF Inherits(keys, s) THEN keys[Parent(s)]
                                                    ELSE AgentKey(s)],
               Known, Sorted(S))

SpanRow(S, s) ==
  [parent |-> IF Parent(s) \in S THEN Parent(s) ELSE None,
   agent |-> AgentKeys(S)[s], failed |-> trace[s].failed]
RunRow(S) ==
  [root |-> RootSpan(S), failed |-> trace[RootSpan(S)].failed,
   ended |-> Max({End[s] : s \in S}), failures |-> Cardinality({s \in S : trace[s].failed})]

Rows(S) == [s \in S |-> SpanRow(S, s)]
Links(S) == [s \in S |-> Rows(S)[s].parent]
Stored == {s \in Span : rows[s] # None}

(* The order in which spans are inserted (_order_span_rows), and what SQLite   *)
(* makes of it: a span refers to its parent by a foreign key that is enforced  *)
(* at every insert (storage.py 181-208, 1046).                                 *)
Outstanding(list, done) == ToSet(list) \ ToSet(done)

(* One pass over what is outstanding places each span whose parent is not.     *)
Pass(list, parent, done) ==
  FoldLeft(LAMBDA placed, s : IF s \in ToSet(placed) \/ parent[s] \in Outstanding(list, placed)
                              THEN placed ELSE Append(placed, s),
           done, list)

ParentsFirst(list, parent) ==
  LET done == FoldLeft(LAMBDA placed, pass : Pass(list, parent, placed), <<>>, list)
  IN  done \o SelectSeq(list, LAMBDA s : s \notin ToSet(done))

(* Every row refers to a row that is stored or was inserted before it.         *)
ReferencesHold(list, parent, stored) ==
  \A i \in DOMAIN list : parent[list[i]] \in stored \cup ToSet(SubSeq(list, 1, i - 1))

(* All rows of a batch are stored, or a broken reference rolls back all.       *)
Upsert(S) == rows' = [s \in Span |-> IF s \in S THEN Rows(S)[s] ELSE rows[s]]

\* Variant: the documents of before stay.
IndexAgain(S) == index' = [s \in Span |-> IF s \in S THEN index[s] + 1 ELSE index[s]]
Index(S) == index' = [s \in Span |-> IF s \in S THEN 1 ELSE index[s]]

Ingest(S) ==
  /\ Upsert(S) /\ Index(S)
  /\ run' = RunRow(S)
  /\ failures' = failures \cup {s \in S : trace[s].failed}

Accepted(S) == ReferencesHold(ParentsFirst(Sorted(S), Links(S)), Links(S), Stored \cup {None})

(* The exporter posts a batch, for the first time or once more.                *)
Post(b) ==
  /\ Sent(b) # {} /\ posts < MaxPosts
  /\ posts' = posts + 1 /\ delivered' = delivered \cup {b}
  /\ IF Accepted(Sent(b)) THEN Ingest(Sent(b)) ELSE UNCHANGED <<rows, index, run, failures>>
  /\ UNCHANGED trace

Next == \E b \in Batches : Post(b)

--------------------------------------------------------------------------------

(* What was sent together is stored as it was traced, however batches are      *)
(* ordered and repeated: each span once, with its outcome, its parent and one  *)
(* document, and a failure on the timeline for each that failed.               *)
SpansAreKept ==
  \A b \in delivered : \A s \in Sent(b) :
    /\ rows[s] # None /\ rows[s].failed = trace[s].failed
    /\ Parent(s) \in Sent(b) => rows[s].parent = Parent(s)
    /\ index[s] = 1
    /\ s \in failures <=> trace[s].failed

(* A trace that came in one batch is told right: the run has the outcome of a  *)
(* span that has no parent and the end of the last, and a span that names no   *)
(* agent has that of its parent, unless it sorts before a parent that is not   *)
(* the root.                                                                   *)
WholeTraceIsTold ==
  \A b \in delivered : Sent(b) = Span =>
    /\ Parent(run.root) \notin Span /\ run.failed = trace[run.root].failed
    /\ \A s \in Span : End[s] <= run.ended
    /\ run.failures = Cardinality(failures)
    /\ \A s \in Span :
         LET p == Parent(s) IN
         /\ trace[s].agent # None => rows[s].agent = trace[s].agent
         /\ trace[s].agent = None /\ p \notin Span => rows[s].agent = Service
         /\ trace[s].agent = None /\ p \in Span /\ (p < s \/ p = run.root) => rows[s].agent = rows[p].agent

(* Both.                                                                       *)
TraceIsKept == SpansAreKept /\ WholeTraceIsTold

(* docs/specs/0013-event-envelope.md:178, "spanId / parentSpanId build the     *)
(* span tree": not across the batches of a trace.                              *)
SpanTreeIsBuilt ==
  \A s \in Span : rows[s] # None /\ Parent(s) \in Stored => rows[s].parent = Parent(s)
================================================================================
