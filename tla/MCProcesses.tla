------------------------------ MODULE MCProcesses ------------------------------
(* Kyoko and the processes it starts, in parts that share no state; part says  *)
(* which one a behaviour is about, and the variables of the others stay as     *)
(* they begin.                                                                 *)
(*   servers: a thread of the dashboard and a CLI process over one managed     *)
(*     replay server;  routing: the next step of a profile with two proposals; *)
(*   turns: two turns of an operator over two spans and three entries;         *)
(*   blobs: two callers that put and prune two payloads.                       *)
EXTENDS ReplayServers, FiniteSets, Sequences, TLC

MCFinding(op, target, signature, cited) ==
  [op |-> op, target |-> target, signature |-> signature, spans |-> cited]
MCOutput(how, found, proposal) == [how |-> how, findings |-> found, proposal |-> proposal]

MCOutputs ==
  {MCOutput(how, <<>>, None) : how \in {"timeout", "garbage"}}
  \cup {MCOutput("findings", found, None) :
          found \in {<<MCFinding("add", None, 1, {1}), MCFinding("merge", 1, 2, {2})>>,
                     <<MCFinding("update", 1, 1, {1, 2})>>}}
  \cup {MCOutput("proposal", <<>>, [id |-> id, spans |-> {1}]) : id \in {None, 7}}

CONSTANTS Answers, Caller, Proposal, Section, RunStatus, Turn, Span, FailedSpan, Signature, Entries, MaxRetries
CONSTANTS Blob, Client, MaxCrashes
VARIABLES part
VARIABLES evidence, proposals, patch, specified, outcomes, policy, rooted, step, granted
VARIABLES adapter, spans, entries, submitted, turns, process
VARIABLES payload, registered, client, lock, crashes, listed, disturbed

routing == <<evidence, proposals, patch, specified, outcomes, policy, rooted, step, granted>>
turning == <<adapter, spans, entries, submitted, turns, process>>
storing == <<payload, registered, client, lock, crashes, listed, disturbed>>

R == INSTANCE Routing WITH pc <- step
O == INSTANCE OperatorTurn WITH proposals <- submitted, pc <- process
B == INSTANCE Blobs WITH Caller <- Client, file <- payload, row <- registered, pc <- client

\* Proposals and entries are numbered in the order of their creation.
Numbered(S) == IsFiniteSet(S) /\ S = 1..Cardinality(S)
ASSUME ProcessesAssumption == Numbered(Proposal) /\ Numbered(Entries)

\* What a process may answer, and what the store keeps of it.
Finding == [op : {"add", "update", "merge"}, target : Entries \cup {None},
            signature : Signature, spans : SUBSET Span]
Entry == [signature : Signature, spans : SUBSET Span, active : BOOLEAN,
          dismissed : BOOLEAN, by : SUBSET Turn]
ASSUME AnswersAssumption ==
  /\ \A answer \in Answers : answer.findings \in Seq(Finding)
  /\ FailedSpan \subseteq Signature /\ MaxRetries \in Nat
  /\ None \notin Entries /\ None \notin Entry

MCInit ==
  /\ part \in {"servers", "routing", "turns", "blobs"}
  /\ Init /\ R!Init /\ O!Init /\ B!Init
  /\ part # "routing" => rooted = FALSE

MCNext ==
  /\ UNCHANGED part
  /\ \/ part = "servers" /\ Next /\ UNCHANGED <<routing, turning, storing>>
     \/ part = "routing" /\ R!Next /\ UNCHANGED <<vars, turning, storing>>
     \/ part = "turns" /\ O!Next /\ UNCHANGED <<vars, routing, storing>>
     \/ part = "blobs" /\ B!Next /\ UNCHANGED <<vars, routing, turning>>
     \/ part # "servers" /\ UNCHANGED <<vars, routing, turning, storing>>   \* nobody needs to act

MCSpec ==
  /\ MCInit /\ [][MCNext]_<<vars, part, routing, turning, storing>>
  /\ \A c \in Callers : WF_vars(Step(c))

ReviewIsNotReplaced == R!ReviewIsNotReplaced
TurnsAreAccountedFor == O!TurnsAreAccountedFor
RowsHaveFiles == B!RowsHaveFiles
================================================================================
