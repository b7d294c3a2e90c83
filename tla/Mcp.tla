--------------------------------- MODULE Mcp ----------------------------------
(* The MCP servers that coding agents talk to (mcp.py), one process for each   *)
(* client over stdio, the log of what they said (mcp_log.py), and the issues   *)
(* and proposals an agent leaves behind.  A line is a message, a batch of      *)
(* them or not JSON.  Each message is recorded in a transaction of its own,    *)
(* handled, and its response recorded in another; the responses of a batch are *)
(* written together.  A tool that does not submit anything is one step here:   *)
(* what it does is in the module of its component.                             *)
EXTENDS Naturals, Sequences, SequencesExt, FiniteSets

CONSTANTS None, Server,
  Failure,    \* what a failure is recognised by: its signature
  Lines,      \* what a client may write: sequences of messages
  MaxLines,   \* lines each client writes
  MaxFaults   \* times a process dies or finds the database busy

VARIABLES
  server,     \* what each process is doing
  said,       \* the messages each took up
  log,        \* the rows of mcp_log of each, in the order of their seq
  heard,      \* what each client read: a sequence of lines of responses
  issues,     \* the rows of skills, as they were created
  submitted,  \* the rows of learning_proposals, as they were created
  faults

mcpVars == <<server, said, log, heard, issues, submitted, faults>>
stored == <<issues, submitted>>

\* kind: the method, or for tools/call the tool's; valid and named are about a
\* proposal: whether its validation succeeds, and whether it names its issue;
\* cause: whether it says what the cause is.
Message(kind, id, failure, valid, named, cause) ==
  [kind |-> kind, id |-> id, failure |-> failure, valid |-> valid, named |-> named, cause |-> cause]
Line(messages, batch) == [messages |-> messages, batch |-> batch]

Reading == [at |-> "reading", lines |-> 0, queue |-> <<>>, answers |-> <<>>]

McpInit ==
  /\ server = [s \in Server |-> Reading]
  /\ said = [s \in Server |-> <<>>]
  /\ log = [s \in Server |-> <<>>]
  /\ heard = [s \in Server |-> <<>>]
  /\ issues = <<>> /\ submitted = <<>> /\ faults = 0

Become(s, state) == server' = [server EXCEPT ![s] = state]
Message_(s) == server[s].queue[1]

--------------------------------------------------------------------------------
(* serve_stdio                                                                 *)

\* A line that is no JSON is answered and not logged, an empty batch is neither.
ReadLine(s, line) ==
  /\ server[s].at = "reading" /\ server[s].lines < MaxLines
  /\ LET next == [Reading EXCEPT !.lines = server[s].lines + 1]
     IN  IF line = None \/ line.messages = <<>>
         THEN /\ Become(s, next)
              /\ heard' = IF line = None THEN [heard EXCEPT ![s] = Append(@, <<None>>)] ELSE heard
         ELSE /\ Become(s, [next EXCEPT !.at = "record", !.queue = line.messages] )
              /\ UNCHANGED heard
  /\ UNCHANGED <<said, log, stored, faults>>

\* A process that dies, or whose client hangs up, takes what it did not write.
Die(s) ==
  /\ server[s].at # "dead" /\ faults < MaxFaults
  /\ faults' = faults + 1
  /\ Become(s, [Reading EXCEPT !.at = "dead", !.lines = MaxLines])
  /\ UNCHANGED <<said, log, heard, stored>>

--------------------------------------------------------------------------------
(* McpLogger.wrap                                                              *)

Row(direction, kind, error, seq) == [direction |-> direction, kind |-> kind, error |-> error, seq |-> seq]

\* A row that cannot be written raises through the handler: the process is gone.
Recorded(s, row, state) ==
  \/ /\ log' = [log EXCEPT ![s] = Append(@, row)]
     /\ Become(s, state)
     /\ UNCHANGED faults
  \/ /\ faults < MaxFaults /\ faults' = faults + 1
     /\ Become(s, [Reading EXCEPT !.at = "dead", !.lines = MaxLines])
     /\ UNCHANGED log

RecordRequest(s) ==
  /\ server[s].at = "record"
  /\ LET message == Message_(s)
         notification == ~message.id /\ message.kind # "scalar"
     IN  Recorded(s, Row(IF notification THEN "notification" ELSE "request", message.kind, FALSE, Len(log[s]) + 1),
                  [server[s] EXCEPT !.at = "handle"])
  /\ said' = [said EXCEPT ![s] = Append(@, Message_(s))]
  /\ UNCHANGED <<heard, stored>>

\* An error, or the result of a tool that says isError.
IsError(answer) == answer \in {"error", "isError"}

\* What follows a message: the next one, or the responses of the line.
Followed(s, answers) ==
  IF Len(server[s].queue) > 1
  THEN [at |-> "record", lines |-> server[s].lines, queue |-> Tail(server[s].queue), answers |-> answers]
  ELSE [at |-> "write", lines |-> server[s].lines, queue |-> <<>>, answers |-> answers]

\* answer is None where there is no response.
RecordResponse(s) ==
  /\ server[s].at = "respond"
  /\ LET answer == server[s].answer
         row == Row("response", Message_(s).kind, IsError(answer), Len(log[s]) + 1)
     IN  IF answer = None
         THEN Become(s, Followed(s, server[s].answers)) /\ UNCHANGED <<log, faults>>
         ELSE Recorded(s, row, Followed(s, Append(server[s].answers, answer)))
  /\ UNCHANGED <<said, heard, stored>>

\* The responses of a line, when there are any.
Write(s) ==
  /\ server[s].at = "write"
  /\ heard' = IF server[s].answers = <<>> THEN heard ELSE [heard EXCEPT ![s] = Append(@, server[s].answers)]
  /\ Become(s, [Reading EXCEPT !.lines = server[s].lines])
  /\ UNCHANGED <<said, log, stored, faults>>

--------------------------------------------------------------------------------
(* _handle_message_inner, _call_tool                                           *)

Respond(s, answer) ==
  Become(s, [at |-> "respond", lines |-> server[s].lines, queue |-> server[s].queue,
             answers |-> server[s].answers, answer |-> answer])

\* Notifications are answered too, but for unknown methods and what raises.
Answered(message) ==
  CASE message.kind \in {"scalar", "nomethod", "noparams"} -> "error"
    [] message.kind \in {"initialize", "ping", "list", "read"} -> "result"
    [] message.kind = "initialized" -> None
    [] message.kind = "raises" -> "isError"   \* a tool refused its arguments, or failed
    [] message.kind \in {"other", "notool"} -> IF message.id THEN "error" ELSE None

Handle(s) ==
  /\ server[s].at = "handle" /\ Message_(s).kind \notin {"issue", "propose"}
  /\ Respond(s, Answered(Message_(s)))
  /\ UNCHANGED <<said, log, heard, stored, faults>>

\* A tool that finds the database busy answers so.
Busy(s) ==
  /\ server[s].at \in {"handle", "bundle", "count", "create", "submit", "link", "linked"}
  /\ Message_(s).kind \in {"issue", "propose"} /\ faults < MaxFaults
  /\ faults' = faults + 1
  /\ Respond(s, "isError")
  /\ UNCHANGED <<said, log, heard, stored>>

--------------------------------------------------------------------------------
(* surface_issue: the search, and then a new row or, from a read of its own,   *)
(* one more on the count of the newest that is not dismissed.                  *)

Alike(f) == {i \in DOMAIN issues : issues[i].failure = f /\ issues[i].status # "dismissed"}

Working(s, at, issue, read) ==
  Become(s, [at |-> at, lines |-> server[s].lines, queue |-> server[s].queue,
             answers |-> server[s].answers, issue |-> issue, read |-> read])

Find(s) ==
  LET alike == Alike(Message_(s).failure)
      newest == CHOOSE i \in alike : \A j \in alike : j <= i
  IN  IF alike = {} THEN Working(s, "create", None, None) ELSE Working(s, "bundle", newest, None)

\* kyoko_submit_issue; what a validation finds does not change.
SubmitIssue(s) ==
  /\ server[s].at = "handle" /\ Message_(s).kind = "issue"
  /\ IF Message_(s).valid THEN Find(s) ELSE Respond(s, "isError")
  /\ UNCHANGED <<said, log, heard, stored, faults>>

\* kyoko_submit_proposal without an issue of its own, valid or not.
SurfaceForProposal(s) ==
  /\ server[s].at = "handle" /\ Message_(s).kind = "propose" /\ ~Message_(s).named
  /\ Find(s)
  /\ UNCHANGED <<said, log, heard, stored, faults>>

\* One that names an issue names the newest, or one that there is not.
Name(s) ==
  /\ server[s].at = "handle" /\ Message_(s).kind = "propose" /\ Message_(s).named
  /\ Working(s, "submit", IF issues = <<>> THEN None ELSE Len(issues), None)
  /\ UNCHANGED <<said, log, heard, stored, faults>>

Surfaced(s, issue) ==
  IF Message_(s).kind = "issue" THEN Respond(s, "result") ELSE Working(s, "submit", issue, None)

CreateIssue(s) ==
  /\ server[s].at = "create"
  /\ issues' = Append(issues, [failure |-> Message_(s).failure, count |-> 1, proposals |-> {},
                                status |-> IF Message_(s).cause THEN "diagnosed" ELSE "open"])
  /\ Surfaced(s, Len(issues'))
  /\ UNCHANGED <<said, log, heard, submitted, faults>>

BundleRead(s) ==
  /\ server[s].at = "bundle"
  /\ Working(s, "count", server[s].issue, issues[server[s].issue])
  /\ UNCHANGED <<said, log, heard, stored, faults>>

\* A recurrence of what was resolved or guarded opens the issue anew.
BundleWrite(s) ==
  LET i == server[s].issue
      read == server[s].read
  IN  /\ server[s].at = "count"
      /\ issues' = [issues EXCEPT ![i].count = read.count + 1,
                                  ![i].status = IF read.status \in {"resolved", "guarded"} THEN "open" ELSE @]
      /\ Surfaced(s, i)
      /\ UNCHANGED <<said, log, heard, submitted, faults>>

--------------------------------------------------------------------------------
(* _submit_proposal                                                            *)

\* Variant: what cannot be validated is linked all the same.
SubmitUnchecked(s) ==
  LET i == server[s].issue
      message == Message_(s)
  IN  /\ server[s].at = "submit"
      /\ IF message.valid /\ i # None
         THEN submitted' = Append(submitted, [issue |-> i, failure |-> message.failure, by |-> s])
         ELSE UNCHANGED submitted
      /\ IF i = None THEN Respond(s, "isError") ELSE Working(s, "link", i, Len(submitted) + 1)
      /\ UNCHANGED <<said, log, heard, issues, faults>>

\* validate_learning_proposal and the row; read is then the proposal's.  One
\* that names its issue is not linked to it.
Submit(s) ==
  LET i == server[s].issue
      message == Message_(s)
  IN  /\ server[s].at = "submit"
      /\ IF message.valid /\ i # None
         THEN /\ submitted' = Append(submitted, [issue |-> i, failure |-> message.failure, by |-> s])
              /\ IF message.named THEN Respond(s, "result") ELSE Working(s, "link", i, Len(submitted'))
         ELSE Respond(s, "isError") /\ UNCHANGED submitted
      /\ UNCHANGED <<said, log, heard, issues, faults>>

\* link_proposal_to_issue: the list is read, and written by another statement.
LinkRead(s) ==
  LET i == server[s].issue
  IN  /\ server[s].at = "link"
      /\ Working(s, "linked", i, issues[i].proposals \cup {server[s].read})
      /\ UNCHANGED <<said, log, heard, stored, faults>>

LinkWrite(s) ==
  LET i == server[s].issue
  IN  /\ server[s].at = "linked"
      /\ issues' = [issues EXCEPT ![i].proposals = server[s].read, ![i].status = "proposed"]
      /\ Respond(s, "result")
      /\ UNCHANGED <<said, log, heard, submitted, faults>>

\* A human, or the guard monitor, says what becomes of an issue.
Decide(i, status) ==
  /\ i \in DOMAIN issues /\ issues[i].status # status
  /\ issues' = [issues EXCEPT ![i].status = status]
  /\ UNCHANGED <<server, said, log, heard, submitted, faults>>

McpNext ==
  \/ \E s \in Server :
       \/ \E line \in Lines : ReadLine(s, line)
       \/ Die(s) \/ RecordRequest(s) \/ RecordResponse(s) \/ Write(s)
       \/ Handle(s) \/ Busy(s)
       \/ SubmitIssue(s) \/ SurfaceForProposal(s) \/ Name(s) \/ CreateIssue(s)
       \/ BundleRead(s) \/ BundleWrite(s) \/ Submit(s) \/ LinkRead(s) \/ LinkWrite(s)
  \/ \E i \in 1..(2 * MaxLines * Cardinality(Server)), status \in {"resolved", "guarded", "dismissed"} : Decide(i, status)

McpSpec == McpInit /\ [][McpNext]_mcpVars

--------------------------------------------------------------------------------
(* Properties                                                                  *)

IsAnswer(row) == row.direction = "response"
Told(s) == FlattenSeq(SelectSeq(heard[s], LAMBDA line : line # <<None>>))
Responses(s) == SelectSeq(log[s], IsAnswer)

(* The log tells each conversation as it was: the messages the server took up, *)
(* in their order, each with at most one response right behind it; the         *)
(* response is an error exactly if the client heard one; and what the client   *)
(* heard is all in the log, though not all of the log was heard: a process may *)
(* die between its row and its line.  A message with no response is the last   *)
(* one, or one that needs none.                                                *)
ConversationIsLogged ==
  \A s \in Server :
    LET requests == SelectSeq(log[s], LAMBDA row : ~IsAnswer(row))
    IN  /\ Len(requests) \in {Len(said[s]), Len(said[s]) - 1}
        /\ \A n \in DOMAIN requests : requests[n].kind = said[s][n].kind
        /\ \A n \in DOMAIN log[s] : IsAnswer(log[s][n]) =>
             n > 1 /\ ~IsAnswer(log[s][n - 1]) /\ log[s][n - 1].kind = log[s][n].kind
        /\ \A n \in DOMAIN log[s] : n < Len(log[s]) /\ ~IsAnswer(log[s][n]) /\ ~IsAnswer(log[s][n + 1]) =>
             log[s][n].kind \in {"initialized", "other", "notool"}
        /\ Len(Told(s)) <= Len(Responses(s))
        /\ \A n \in DOMAIN Told(s) : Responses(s)[n].error = (Told(s)[n] # "result")

(* A proposal an agent submits comes from an issue: the one it names or one of *)
(* its own failure.  An issue lists only proposals there are, which name it.   *)
(* A submission that was refused leaves no proposal, and one of which the      *)
(* client heard is stored: whatever fails on the way, and whoever else is at   *)
(* it.  (mcp.py: "a proposal can never exist without an origin".)              *)
ProposalsHaveOrigins ==
  /\ \A p \in DOMAIN submitted : submitted[p].issue \in DOMAIN issues
  /\ \A i \in DOMAIN issues : \A p \in issues[i].proposals :
       p \in DOMAIN submitted /\ submitted[p].issue = i /\ submitted[p].failure = issues[i].failure
  /\ \A s \in Server :
       LET stored_ == Cardinality({p \in DOMAIN submitted : submitted[p].by = s})
           valid == {n \in DOMAIN said[s] : said[s][n].kind = "propose" /\ said[s][n].valid}
           rows == {n \in DOMAIN log[s] : n > 1 /\ log[s][n].kind = "propose" /\ IsAnswer(log[s][n])
                                          /\ ~log[s][n].error}
       IN  Cardinality(rows) <= stored_ /\ stored_ <= Cardinality(valid)

(* Claims that the code does not keep.                                         *)

\* A proposal that named no issue is listed by the one it was given.
BacklinksAreKept ==
  \A s \in Server : server[s].at = "reading" /\ faults = 0 =>
    \A p \in DOMAIN submitted : submitted[p].by = s => p \in issues[submitted[p].issue].proposals

\* Each submission of a failure is counted.
CountsAddUp ==
  faults = 0 /\ (\A s \in Server : server[s].at = "reading") =>
    \A i, j \in DOMAIN issues : i # j /\ issues[i].status # "dismissed" /\ issues[j].status # "dismissed" =>
      issues[i].failure # issues[j].failure

\* What was dismissed stays so.
DismissedStays ==
  [][\A i \in DOMAIN issues : issues[i].status = "dismissed" => issues'[i].status = "dismissed"]_mcpVars
================================================================================
