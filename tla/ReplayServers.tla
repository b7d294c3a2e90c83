----------------------------- MODULE ReplayServers -----------------------------
(* The replay servers Kyoko starts, finds again by a state file and stops      *)
(* (replay_servers.py), for one adapter: one URL, one output directory.        *)
(*                                                                             *)
(* Callers are threads of the dashboard's server (Web) or processes of their   *)
(* own (the CLI).  The state file names a pid and is read and written without  *)
(* a lock; whether "the server" is healthy is asked of the URL, that is of     *)
(* whoever listens there.  A process that died stays a zombie, and looks       *)
(* alive to everyone else, until its parent waits for it or ends.              *)
EXTENDS Naturals

CONSTANTS
  Callers, Web,   \* Web: the callers that are threads of the dashboard's server
  Pid,            \* process numbers
  None,
  MaxForeign,     \* bound on the unrelated processes that take over a free pid
  MaxTrouble      \* bound on the servers that hang and the callers that die

ASSUME ReplayServersAssumption ==
  Web \subseteq Callers /\ None \notin Pid /\ MaxForeign \in Nat /\ MaxTrouble \in Nat

VARIABLES
  proc,      \* what each process number is: see States
  parent,    \* who must wait for it: "web", a CLI caller, or "init"
  port,      \* the process that listens at the URL
  file,      \* the pid in replay-server-state.json
  pc,        \* what each caller is doing
  foreign,   \* unrelated processes so far
  trouble,   \* servers that hung and callers that died so far
  raced      \* whether two calls ever overlapped

vars == <<proc, parent, port, file, pc, foreign, trouble, raced>>

Live == {"starting", "up", "hung"}
States == Live \cup {"free", "zombie", "foreign"}
Idle == [at |-> "idle"]
Home(c) == IF c \in Web THEN "web" ELSE c
Homes == {Home(c) : c \in Callers} \cup {"init"}

Init ==
  /\ proc = [p \in Pid |-> "free"] /\ parent = [p \in Pid |-> "init"]
  /\ port = None /\ file = None /\ pc = [c \in Callers |-> Idle]
  /\ foreign = 0 /\ trouble = 0 /\ raced = FALSE

Healthy == port # None /\ proc[port] = "up"
Exists(p) == proc[p] # "free"

(* os.waitpid reaps a dead child of one's own; kill(pid, 0) finds any other    *)
(* process, zombies included.                                                  *)
Reaped(c, p) == proc[p] = "zombie" /\ parent[p] = Home(c)
PidRunning(c, p) == p # None /\ Exists(p) /\ ~ Reaped(c, p)
Reap(c, p) == IF p # None /\ Reaped(c, p) THEN [proc EXCEPT ![p] = "free"] ELSE proc

Died(p) == [proc EXCEPT ![p] = IF parent[p] = "init" THEN "free" ELSE "zombie"]
PortWithout(p) == IF port = p THEN None ELSE port

Goto(c, next) == pc' = [pc EXCEPT ![c] = next]
Begin(c, next) ==
  /\ Goto(c, next)
  /\ raced' = (raced \/ \E d \in Callers \ {c} : pc[d] # Idle)

(* A CLI process that ends leaves its children to init, which reaps them.      *)
Orphaned(c) == [p \in Pid |-> IF c \notin Web /\ parent[p] = c THEN "init" ELSE parent[p]]
Swept(c, now) == [p \in Pid |-> IF c \notin Web /\ parent[p] = c /\ now[p] = "zombie"
                                THEN "free" ELSE now[p]]
Return(c, now) ==
  /\ Goto(c, Idle)
  /\ proc' = Swept(c, now) /\ parent' = Orphaned(c)

--------------------------------------------------------------------------------
(* Start                                                                       *)

(* A server that runs and answers is kept; one that runs and does not answer   *)
(* is not stopped: another one is started.                                     *)
StartRead(c) ==
  /\ pc[c] = Idle
  /\ IF PidRunning(c, file) /\ Healthy
     THEN /\ raced' = (raced \/ \E d \in Callers \ {c} : pc[d] # Idle)
          /\ UNCHANGED <<pc, proc>>
     ELSE /\ Begin(c, [at |-> "popen", managed |-> FALSE])
          /\ proc' = Reap(c, file)
  /\ UNCHANGED <<parent, port, file, foreign, trouble>>

(* A replay of a managed adapter uses the server that runs, or one of its own, *)
(* which no state file knows.                                                  *)
ManagedRead(c) ==
  /\ pc[c] = Idle
  /\ Begin(c, IF PidRunning(c, file) /\ Healthy THEN [at |-> "borrow"]
                                                ELSE [at |-> "popen", managed |-> TRUE])
  /\ proc' = Reap(c, file)
  /\ UNCHANGED <<parent, port, file, foreign, trouble>>

Popen(c, p) ==
  /\ pc[c].at = "popen" /\ proc[p] = "free"
  /\ proc' = [proc EXCEPT ![p] = "starting"] /\ parent' = [parent EXCEPT ![p] = Home(c)]
  /\ Goto(c, [at |-> IF pc[c].managed THEN "wait" ELSE "write", pid |-> p,
              managed |-> pc[c].managed])
  /\ UNCHANGED <<port, file, foreign, trouble, raced>>

(* The command is not found, or no process can be made.                        *)
PopenFails(c) ==
  /\ pc[c].at = "popen"
  /\ Return(c, proc)
  /\ UNCHANGED <<port, file, foreign, trouble, raced>>

WriteState(c) ==
  /\ pc[c].at = "write"
  /\ file' = pc[c].pid
  /\ Goto(c, [pc[c] EXCEPT !.at = "wait"])
  /\ UNCHANGED <<proc, parent, port, foreign, trouble, raced>>

(* The URL answers, whoever does: the server is left to itself, or used.       *)
WaitHealthy(c) ==
  /\ pc[c].at = "wait" /\ Healthy /\ proc[pc[c].pid] \in Live
  /\ IF pc[c].managed
     THEN Goto(c, [pc[c] EXCEPT !.at = "use"]) /\ UNCHANGED <<proc, parent>>
     ELSE Return(c, proc)
  /\ UNCHANGED <<port, file, foreign, trouble, raced>>

(* It exited, or did not answer in time.                                       *)
WaitFails(c) ==
  /\ pc[c].at = "wait"
  /\ Goto(c, [pc[c] EXCEPT !.at = "stop_own"])
  /\ UNCHANGED <<proc, parent, port, file, foreign, trouble, raced>>

UseDone(c) ==
  /\ pc[c].at \in {"use", "borrow"}
  /\ IF pc[c].at = "use" THEN Goto(c, [pc[c] EXCEPT !.at = "stop_own"]) ELSE Goto(c, Idle)
  /\ UNCHANGED <<proc, parent, port, file, foreign, trouble, raced>>

\* Variant: a start that failed leaves its process alone.
StopOwnNot(c) ==
  /\ pc[c].at = "stop_own"
  /\ Goto(c, [pc[c] EXCEPT !.at = "write_failed"])
  /\ UNCHANGED <<proc, parent, port, file, foreign, trouble, raced>>

(* Terminated, or killed after five seconds, and waited for.                   *)
StopOwn(c) ==
  LET p == pc[c].pid
  IN  /\ pc[c].at = "stop_own"
      /\ port' = PortWithout(p)
      /\ IF pc[c].managed
         THEN Return(c, [proc EXCEPT ![p] = "free"])
         ELSE /\ proc' = [proc EXCEPT ![p] = "free"]
              /\ Goto(c, [pc[c] EXCEPT !.at = "write_failed"]) /\ UNCHANGED parent
      /\ UNCHANGED <<file, foreign, trouble, raced>>

WriteFailed(c) ==
  /\ pc[c].at = "write_failed"
  /\ file' = pc[c].pid
  /\ Return(c, proc)
  /\ UNCHANGED <<port, foreign, trouble, raced>>

--------------------------------------------------------------------------------
(* Status and stop                                                             *)

Status(c) ==
  /\ pc[c] = Idle
  /\ proc' = Reap(c, file)
  /\ UNCHANGED <<parent, port, file, pc, foreign, trouble, raced>>

StopRead(c) ==
  /\ pc[c] = Idle
  /\ IF PidRunning(c, file) THEN Begin(c, [at |-> "term", pid |-> file])
                            ELSE UNCHANGED <<pc, raced>>
  /\ proc' = Reap(c, file)
  /\ UNCHANGED <<parent, port, file, foreign, trouble>>

(* The signal goes to whatever process has the number by now.  A server that   *)
(* gets it may end or carry on.                                                *)
Terminate(c) ==
  LET p == pc[c].pid
  IN  /\ pc[c].at = "term"
      /\ \/ /\ ~ Exists(p)
            /\ Goto(c, Idle) /\ UNCHANGED <<proc, port>>
         \/ /\ Exists(p)
            /\ Goto(c, [pc[c] EXCEPT !.at = "poll"])
            /\ \/ UNCHANGED <<proc, port>>
               \/ /\ proc[p] \in Live \cup {"foreign"}
                  /\ proc' = Died(p) /\ port' = PortWithout(p)
      /\ UNCHANGED <<parent, file, foreign, trouble, raced>>

(* Gone: the file is written back as it was read, with a time of stopping.     *)
StopPoll(c) ==
  /\ pc[c].at \in {"poll", "killed"} /\ ~ PidRunning(c, pc[c].pid)
  /\ proc' = Reap(c, pc[c].pid)
  /\ file' = pc[c].pid
  /\ Goto(c, Idle)
  /\ UNCHANGED <<parent, port, foreign, trouble, raced>>

\* Variant: it waits without a deadline.
StopKillNever(c) ==
  /\ pc[c].at = "poll" /\ ~ Exists(pc[c].pid)
  /\ Goto(c, Idle)
  /\ UNCHANGED <<proc, parent, port, file, foreign, trouble, raced>>

(* Five seconds are over.  A process that ended in the last moment makes       *)
(* os.kill raise; a zombie takes the signal and stays.                         *)
StopKill(c) ==
  LET p == pc[c].pid
  IN  /\ pc[c].at = "poll"
      /\ \/ /\ ~ Exists(p)
            /\ Goto(c, Idle) /\ UNCHANGED <<proc, port>>
         \/ /\ Exists(p)
            /\ Goto(c, [pc[c] EXCEPT !.at = "killed"])
            /\ proc' = IF proc[p] = "zombie" THEN proc ELSE Died(p)
            /\ port' = PortWithout(p)
      /\ UNCHANGED <<parent, file, foreign, trouble, raced>>

--------------------------------------------------------------------------------
(* The processes themselves, and the world                                     *)

(* Only one process can listen; a server that cannot exits.                    *)
Bind(p) ==
  /\ proc[p] = "starting"
  /\ \/ /\ port = None
        /\ port' = p /\ proc' = [proc EXCEPT ![p] = "up"]
     \/ /\ port # None
        /\ proc' = Died(p) /\ UNCHANGED port
  /\ UNCHANGED <<parent, file, pc, foreign, trouble, raced>>

Exit(p) ==
  /\ proc[p] \in Live \cup {"foreign"}
  /\ proc' = Died(p) /\ port' = PortWithout(p)
  /\ UNCHANGED <<parent, file, pc, foreign, trouble, raced>>

(* It keeps the port and answers no more.                                      *)
Hang(p) ==
  /\ proc[p] = "up" /\ trouble < MaxTrouble
  /\ proc' = [proc EXCEPT ![p] = "hung"] /\ trouble' = trouble + 1
  /\ UNCHANGED <<parent, port, file, pc, foreign, raced>>

Reuse(p) ==
  /\ proc[p] = "free" /\ foreign < MaxForeign
  /\ proc' = [proc EXCEPT ![p] = "foreign"] /\ parent' = [parent EXCEPT ![p] = "init"]
  /\ foreign' = foreign + 1
  /\ UNCHANGED <<port, file, pc, trouble, raced>>

(* A process dies with all its callers; its children go to init.               *)
Crash(h) ==
  LET dead == {c \in Callers : Home(c) = h}
  IN  /\ trouble < MaxTrouble /\ \E c \in dead : pc[c] # Idle
      /\ pc' = [c \in Callers |-> IF c \in dead THEN Idle ELSE pc[c]]
      /\ proc' = [p \in Pid |-> IF parent[p] = h /\ proc[p] = "zombie" THEN "free" ELSE proc[p]]
      /\ parent' = [p \in Pid |-> IF parent[p] = h THEN "init" ELSE parent[p]]
      /\ trouble' = trouble + 1
      /\ UNCHANGED <<port, file, foreign, raced>>

Step(c) ==
  \/ \E p \in Pid : Popen(c, p)
  \/ PopenFails(c) \/ WriteState(c) \/ WaitHealthy(c) \/ WaitFails(c) \/ UseDone(c) \/ StopOwn(c)
  \/ WriteFailed(c) \/ Terminate(c) \/ StopPoll(c) \/ StopKill(c)

Next ==
  \/ \E c \in Callers : \/ StartRead(c) \/ ManagedRead(c) \/ Status(c) \/ StopRead(c)
                        \/ Step(c)
  \/ \E p \in Pid : Bind(p) \/ Exit(p) \/ Hang(p) \/ Reuse(p)
  \/ \E h \in Homes : Crash(h)

Spec == Init /\ [][Next]_vars

(* A caller that can take a step takes it: its loops end by a deadline.        *)
FairSpec == Spec /\ \A c \in Callers : WF_vars(Step(c))

--------------------------------------------------------------------------------
(* Properties                                                                  *)

Stopping == {"term", "poll", "killed"}

(* Processes, parents and callers are what they can be; who listens is alive.  *)
TypeOK ==
  /\ proc \in [Pid -> States] /\ parent \in [Pid -> Homes]
  /\ file \in Pid \cup {None} /\ port \in {p \in Pid : proc[p] \in {"up", "hung"}} \cup {None}
  /\ \A c \in Callers : pc[c].at \in Stopping \cup
       {"idle", "popen", "write", "wait", "use", "borrow", "stop_own", "write_failed"}
  /\ foreign \in 0..MaxForeign /\ trouble \in 0..MaxTrouble

(* Where no two calls overlapped, no server hung and no caller died, a server  *)
(* that is alive between calls is the one in the state file, so that stop can  *)
(* reach it: whatever starts failed, replays ran and servers exited.           *)
StateFileKnowsTheServer ==
  /\ TypeOK
  /\ (~ raced /\ trouble = 0 /\ \A c \in Callers : pc[c] = Idle) =>
       \A p \in Pid : proc[p] \in Live => file = p

\* After the kill the number is still taken: by a zombie its parent has not waited
\* for, or by a process that got it next.
NumberTaken(c) ==
  /\ pc[c].at = "killed"
  /\ \/ proc[pc[c].pid] = "zombie" /\ parent[pc[c].pid] # Home(c)
     \/ proc[pc[c].pid] = "foreign"
     \/ proc[pc[c].pid] \in Live /\ raced

(* A stop returns, unless the number it killed stays taken: the loop after     *)
(* SIGKILL has no deadline.                                                    *)
StopReturns ==
  \A c \in Callers : pc[c].at \in Stopping ~> (pc[c].at \notin Stopping \/ NumberTaken(c))

(* A stop returns.                                                             *)
StopAlwaysReturns == \A c \in Callers : pc[c].at \in Stopping ~> pc[c].at \notin Stopping
================================================================================
