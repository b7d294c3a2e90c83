-------------------------- MODULE MCAnalysisScheduler --------------------------
(* part says what a behaviour is about: the server alone, which humans and     *)
(* failures interrupt, or two CLI processes that run jobs of every scope on    *)
(* the cursor they share, each from its own scan.                              *)
EXTENDS AnalysisScheduler, TLC

CONSTANTS t1, t2, s1, s2

VARIABLE part

\* The jobs a human may ask for.
MCRequest(scope, since, trace) == [scope |-> scope, since |-> since, trace |-> trace]

\* New since last, everything, either trace, and one issue to author for.
MCRequests == {MCRequest("new", 0, None), MCRequest("all", 0, None),
               MCRequest("run", 0, t1), MCRequest("run", 0, t2),
               MCRequest("issue", 0, None)}
MCNone == {}

\* The same with a cutoff of the human's choice.
MCSince == {MCRequest("new", 0, None), MCRequest("new", 1, None)}

TracesAlike == Permutations(Traces)

BothAlike == TracesAlike \cup Permutations(Processes \ {Server})

MCInit ==
  /\ Init
  /\ \/ part = "server" /\ \A s \in Schedules : schedule[s].exists
     \/ part = "cli" /\ \A s \in Schedules : ~ schedule[s].exists /\ schedule[s].next = "unarmed"

MCNext ==
  /\ UNCHANGED part
  /\ \/ /\ part = "server"
        /\ Scheduler \/ Take \/ Run(Server) \/ Cancel \/ Arrive \/ Edit \/ Crash \/ Restart
     \/ /\ part = "cli"
        /\ (\E p \in Processes \ {Server} : Run(p)) \/ Ask \/ Arrive
        /\ UNCHANGED trouble

MCSpec == MCInit /\ [][MCNext]_<<vars, part>>

MCFairSpec == MCSpec /\ Fairness
================================================================================
