---------------------------- MODULE ProcessesProofs ----------------------------
(* What is proved of the parts of MCProcesses, for any constants:              *)
(* of ReplayServers the types, and that stop can reach the server that runs    *)
(* between calls; of Routing, that a step never replaces human review; of      *)
(* OperatorTurn, that the row of a turn tells what it left behind; of Blobs,   *)
(* that a payload has a file if it has a row, and a row if it has a file.      *)
(*                                                                             *)
(* Servers: as long as no call overlaps another, nothing hangs and no     *)
(* caller dies, the place of the one caller at work says which processes may   *)
(* be alive (Phase): none before it starts one, only its own until it is done, *)
(* and between calls only one that answers at the URL and is in the file.  It  *)
(* has to answer: a server that is alive and silent is not found again, and a  *)
(* second one would be started beside it.                                      *)
EXTENDS MCProcesses, FiniteSetTheorems, SequenceTheorems, NaturalsInduction, WellFoundedInduction, TLAPS

Call ==
  {Idle} \cup [at : {"borrow"}] \cup [at : {"popen"}, managed : BOOLEAN]
  \cup [at : {"write", "wait", "use", "stop_own", "write_failed"}, pid : Pid, managed : BOOLEAN]
  \cup [at : Stopping, pid : Pid]

Types ==
  /\ proc \in [Pid -> States] /\ parent \in [Pid -> Homes] /\ file \in Pid \cup {None}
  /\ foreign \in 0..MaxForeign /\ trouble \in 0..MaxTrouble /\ raced \in BOOLEAN
  /\ pc \in [Callers -> Call]

(* Who listens is alive.                                                       *)
PortOK == port # None => port \in Pid /\ proc[port] \in {"up", "hung"}

(* Between calls: a server that is alive answers and is in the file.           *)
Settled == \A p \in Pid : proc[p] \in Live => file = p /\ port = p /\ proc[p] = "up"

OnlyAlive(q) == \A p \in Pid : proc[p] \in Live => p = q

(* What may be alive while the caller at work has k in hand.                   *)
Phase(k) ==
  /\ k.at \in {"idle", "borrow"} \cup Stopping => Settled
  /\ k.at \in Stopping => file = k.pid
  /\ k.at \in {"popen", "write_failed"} => \A p \in Pid : proc[p] \notin Live
  /\ k.at \in {"write", "wait", "use", "stop_own"} => OnlyAlive(k.pid)
  /\ k.at = "wait" /\ ~ k.managed => file = k.pid
  /\ k.at = "write" => ~ k.managed

(* One caller is at work, or none.                                             *)
Orderly == ~ raced /\ trouble = 0
Alone == \A c, d \in Callers : c # d => (pc[c] = Idle \/ pc[d] = Idle)

Phases ==
  Orderly => /\ Alone
             /\ (\A c \in Callers : pc[c] = Idle) => Settled
             /\ \A c \in Callers : pc[c] # Idle => Phase(pc[c])

Inv == Types /\ PortOK /\ Phases

--------------------------------------------------------------------------------
(* Helpers                                                                     *)

(* What a wait does to the process table (os.waitpid).                         *)
LEMMA ReapFacts ==
  ASSUME Types, NEW c \in Callers, NEW p \in Pid \cup {None}
  PROVE  /\ Reap(c, p) \in [Pid -> States]
         /\ \A q \in Pid : \/ Reap(c, p)[q] = proc[q]
                           \/ proc[q] = "zombie" /\ Reap(c, p)[q] = "free"
BY ReplayServersAssumption DEF Types, Reap, Reaped, States

(* A process that ends is a zombie, or gone.                                   *)
LEMMA DiedFacts ==
  ASSUME Types, NEW p \in Pid
  PROVE  /\ Died(p) \in [Pid -> States] /\ Died(p)[p] \in {"free", "zombie"}
         /\ \A q \in Pid : q # p => Died(p)[q] = proc[q]
<1>1. (IF parent[p] = "init" THEN "free" ELSE "zombie") \in {"free", "zombie"}  OBVIOUS
<1>2. QED  BY <1>1 DEF Types, Died, States

(* A CLI process that ends leaves no zombie of its own.                        *)
LEMMA SweptFacts ==
  ASSUME Types, NEW c \in Callers, NEW now \in [Pid -> States]
  PROVE  /\ Swept(c, now) \in [Pid -> States] /\ Orphaned(c) \in [Pid -> Homes]
         /\ \A q \in Pid : \/ Swept(c, now)[q] = now[q]
                           \/ now[q] = "zombie" /\ Swept(c, now)[q] = "free"
BY DEF Types, Swept, Orphaned, States, Homes

(* A step after which no more is alive than before, and nothing else listens.  *)
Quiet ==
  /\ file' = file
  /\ \A p \in Pid : proc'[p] \in Live => proc'[p] = proc[p] /\ (port = p => port' = p)

(* ... leaves the caller at work where it may be.                              *)
LEMMA QuietPhase ==
  ASSUME NEW k, Quiet
  PROVE  /\ Settled => Settled'
         /\ Phase(k) => Phase(k)'
<1>1. Settled => Settled'  BY DEF Quiet, Settled
<1>2. \A q : OnlyAlive(q) => OnlyAlive(q)'  BY DEF Quiet, OnlyAlive
<1>3. (\A p \in Pid : proc[p] \notin Live) => (\A p \in Pid : proc'[p] \notin Live)
  BY DEF Quiet
<1>4. Phase(k) => Phase(k)'
  <2>1. SUFFICES ASSUME Phase(k)  PROVE Phase(k)'
    OBVIOUS
  <2>2. file' = file  BY DEF Quiet
  <2>3. QED  BY <1>1, <1>2, <1>3, <2>1, <2>2 DEF Phase
<1>5. QED  BY <1>1, <1>4

(* The port is lost or stays with the same server.                             *)
LEMMA PortStays ==
  ASSUME PortOK, \/ port' = None
                 \/ port' = port /\ (port \in Pid => proc'[port] = proc[port] \/ proc'[port] = "hung")
  PROVE  PortOK'
BY DEF PortOK

(* A caller at work is alone, as long as calls are orderly.                    *)
LEMMA AtWork ==
  ASSUME Inv, NEW c \in Callers, pc[c] # Idle, Orderly
  PROVE  Phase(pc[c]) /\ \A d \in Callers : d # c => pc[d] = Idle
BY DEF Inv, Phases, Alone

(* Nobody at work: the server that lives is the one in the file.               *)
LEMMA AtRest ==
  ASSUME Inv, Orderly, \A c \in Callers : pc[c] = Idle
  PROVE  Settled
BY DEF Inv, Phases

(* A step of one caller, which goes on to k.                                   *)
LEMMA CallerStep ==
  ASSUME Inv, NEW c \in Callers, NEW k \in Call, Goto(c, k),
         Orderly' => (\A d \in Callers : d # c => pc[d] = Idle),
         Orderly' => Phase(k)'
  PROVE  pc' \in [Callers -> Call] /\ Phases'
<1>1. pc \in [Callers -> Call] /\ pc' = [pc EXCEPT ![c] = k]  BY DEF Inv, Types, Goto
<1>2. pc' \in [Callers -> Call] /\ pc'[c] = k  BY <1>1
<1>3. ASSUME Orderly'  PROVE \A d \in Callers : d # c => pc'[d] = Idle
  BY <1>1, <1>3
<1>4. ASSUME Orderly'  PROVE Alone'  BY <1>3, <1>4 DEF Alone
<1>5. ASSUME Orderly', \A d \in Callers : pc'[d] = Idle  PROVE Settled'
  <2>1. k = Idle  BY <1>2, <1>5
  <2>2. k.at = "idle"  BY <2>1 DEF Idle
  <2>3. QED  BY <1>5, <2>2 DEF Phase
<1>6. ASSUME Orderly', NEW d \in Callers, pc'[d] # Idle  PROVE Phase(pc[d])'
  <2>1. d = c /\ pc'[d] = k  BY <1>2, <1>3, <1>6
  <2>2. Phase(k)'  BY <1>6
  <2>3. QED  BY <2>1, <2>2 DEF Phase
<1>7. Phases'  BY <1>4, <1>5, <1>6 DEF Phases
<1>8. QED  BY <1>2, <1>7

(* A step of no caller, which leaves the caller at work where it may be.       *)
LEMMA WorldStep ==
  ASSUME Inv, UNCHANGED pc, Orderly' => Orderly,
         Orderly' => (Settled => Settled') /\ \A k : Phase(k) => Phase(k)'
  PROVE  Phases'
<1>1. SUFFICES ASSUME Orderly'  PROVE /\ Alone'
                                      /\ (\A c \in Callers : pc'[c] = Idle) => Settled'
                                      /\ \A c \in Callers : pc'[c] # Idle => Phase(pc[c])'
  BY DEF Phases
<1>2. Orderly  BY <1>1
<1>3. Alone'  BY <1>2 DEF Inv, Phases, Alone
<1>4. (\A c \in Callers : pc'[c] = Idle) => Settled'  BY <1>1, <1>2, AtRest
<1>5. ASSUME NEW c \in Callers, pc'[c] # Idle  PROVE Phase(pc[c])'
  <2>1. PICK k : k = pc[c]  OBVIOUS
  <2>2. Phase(k)  BY <1>2, <1>5, <2>1, AtWork
  <2>3. Phase(k)' /\ pc'[c] = k  BY <1>1, <2>1, <2>2
  <2>4. QED  BY <2>3 DEF Phase
<1>6. QED  BY <1>3, <1>4, <1>5

(* What a caller has in hand at each place.                                    *)
LEMMA CallFields ==
  ASSUME Inv, NEW c \in Callers
  PROVE  /\ pc[c] \in Call
         /\ pc[c].at = "popen" => pc[c].managed \in BOOLEAN
         /\ pc[c].at \in {"write", "wait", "use", "stop_own", "write_failed"} =>
              pc[c].pid \in Pid /\ pc[c].managed \in BOOLEAN
         /\ pc[c].at \in Stopping => pc[c].pid \in Pid
         /\ pc[c].at # "idle" => pc[c] # Idle
BY DEF Inv, Types, Call, Idle, Stopping

(* The places that keep what they have in hand.                                *)
LEMMA NextPlace ==
  ASSUME NEW r \in Call
  PROVE  /\ r.at \in {"write", "wait", "use", "stop_own", "write_failed"} =>
              \A place \in {"write", "wait", "use", "stop_own", "write_failed"} :
                /\ [r EXCEPT !.at = place] \in Call /\ [r EXCEPT !.at = place].at = place
                /\ [r EXCEPT !.at = place].pid = r.pid
                /\ [r EXCEPT !.at = place].managed = r.managed
         /\ r.at \in Stopping =>
              \A place \in Stopping :
                /\ [r EXCEPT !.at = place] \in Call /\ [r EXCEPT !.at = place].at = place
                /\ [r EXCEPT !.at = place].pid = r.pid
<1>1. ASSUME r.at \in {"write", "wait", "use", "stop_own", "write_failed"}
      PROVE  r \in [at : {"write", "wait", "use", "stop_own", "write_failed"}, pid : Pid, managed : BOOLEAN]
  BY <1>1 DEF Call, Idle, Stopping
<1>2. ASSUME r.at \in Stopping  PROVE r \in [at : Stopping, pid : Pid]
  BY <1>2 DEF Call, Idle, Stopping
<1>3. QED  BY <1>1, <1>2 DEF Call

--------------------------------------------------------------------------------
(* The steps                                                                   *)

(* An empty machine (no state file yet).                                       *)
LEMMA InitInv == Init => Inv
<1> SUFFICES ASSUME Init  PROVE Inv
  OBVIOUS
<1>1. Types
  <2>1. proc \in [Pid -> States] /\ parent \in [Pid -> Homes]  BY DEF Init, States, Homes
  <2>2. pc \in [Callers -> Call]  BY DEF Init, Call
  <2>3. foreign \in 0..MaxForeign /\ trouble \in 0..MaxTrouble
    BY ReplayServersAssumption DEF Init
  <2>4. raced \in BOOLEAN /\ file \in Pid \cup {None}  BY DEF Init
  <2>5. QED  BY <2>1, <2>2, <2>3, <2>4 DEF Types
<1>2. PortOK  BY DEF Init, PortOK
<1>3. Phases  BY DEF Init, Phases, Alone, Settled, Live
<1>4. QED  BY <1>1, <1>2, <1>3 DEF Inv

(* Whoever begins a call while nobody else is at work finds things settled.    *)
LEMMA BeginFacts ==
  ASSUME Inv, NEW c \in Callers, pc[c] = Idle, UNCHANGED trouble,
         raced' = (raced \/ \E d \in Callers \ {c} : pc[d] # Idle)
  PROVE  /\ raced' \in BOOLEAN
         /\ Orderly' => Orderly /\ Settled /\ \A d \in Callers : d # c => pc[d] = Idle
<1>1. raced \in BOOLEAN  BY DEF Inv, Types
<1>2. raced' \in BOOLEAN
  <2>1. PICK b \in BOOLEAN : b = (raced \/ \E d \in Callers \ {c} : pc[d] # Idle)  BY Zenon
  <2>2. QED  BY <2>1
<1>3. ASSUME Orderly'  PROVE Orderly /\ \A d \in Callers : d # c => pc[d] = Idle
  BY <1>3 DEF Orderly
<1>4. ASSUME Orderly'  PROVE Settled
  <2>1. \A d \in Callers : pc[d] = Idle  BY <1>3, <1>4
  <2>2. QED  BY <1>3, <1>4, <2>1, AtRest
<1>5. QED  BY <1>2, <1>3, <1>4

(* A wait for a child disturbs nobody.                                         *)
LEMMA ReapIsQuiet ==
  ASSUME Inv, NEW c \in Callers, NEW p \in Pid \cup {None}, proc' = Reap(c, p),
         UNCHANGED <<port, file>>
  PROVE  proc' \in [Pid -> States] /\ Quiet /\ PortOK'
<1>1. Types /\ PortOK  BY DEF Inv
<1>2. /\ proc' \in [Pid -> States]
      /\ \A q \in Pid : proc'[q] = proc[q] \/ (proc[q] = "zombie" /\ proc'[q] = "free")
  BY <1>1, ReapFacts
<1>3. Quiet  BY <1>2 DEF Quiet, Live
<1>4. PortOK'  BY <1>1, <1>2 DEF PortOK
<1>5. QED  BY <1>2, <1>3, <1>4

(* A server is looked for, and found or not.                                   *)
LEMMA StartReadInv == ASSUME Inv, NEW c \in Callers, StartRead(c)  PROVE Inv'
<1> DEFINE k == [at |-> "popen", managed |-> FALSE]
<1>1. /\ pc[c] = Idle /\ UNCHANGED <<parent, port, file, foreign, trouble>>
      /\ raced' = (raced \/ \E d \in Callers \ {c} : pc[d] # Idle)
  BY DEF StartRead, Begin
<1>2. Types /\ PortOK  BY DEF Inv
<1>3. /\ raced' \in BOOLEAN
      /\ Orderly' => Orderly /\ Settled /\ \A d \in Callers : d # c => pc[d] = Idle
  BY <1>1, BeginFacts
<1>4. CASE PidRunning(c, file) /\ Healthy
  <2>1. UNCHANGED <<pc, proc>>  BY <1>4 DEF StartRead
  <2>2. Quiet  BY <1>1, <2>1 DEF Quiet
  <2>3. Phases'  BY <1>3, <2>1, <2>2, QuietPhase, WorldStep
  <2>4. Types' /\ PortOK'  BY <1>1, <1>2, <1>3, <2>1 DEF Types, PortOK
  <2>5. QED  BY <2>3, <2>4 DEF Inv
<1>5. CASE ~ (PidRunning(c, file) /\ Healthy)
  <2>1. Goto(c, k) /\ proc' = Reap(c, file)  BY <1>5 DEF StartRead, Begin
  <2>2. file \in Pid \cup {None}  BY <1>2 DEF Types
  <2>3. proc' \in [Pid -> States] /\ Quiet /\ PortOK'  BY <1>1, <2>1, <2>2, ReapIsQuiet
  <2>4. k \in Call  BY DEF Call
  <2>5. ASSUME Settled  PROVE \A p \in Pid : proc[p] \notin Live
    <3>1. SUFFICES ASSUME NEW p \in Pid, proc[p] \in Live  PROVE FALSE
      OBVIOUS
    <3>2. file = p /\ port = p /\ proc[p] = "up"  BY <2>5, <3>1 DEF Settled
    <3>3. PidRunning(c, file) /\ Healthy
      BY <3>2, ReplayServersAssumption DEF PidRunning, Healthy, Exists, Reaped
    <3>4. QED  BY <1>5, <3>3
  <2>6. Orderly' => Phase(k)'
    <3>1. \A p \in Pid : proc[p] \notin Live => proc'[p] \notin Live  BY <2>3 DEF Quiet
    <3>2. QED  BY <1>3, <2>5, <3>1 DEF Phase, Stopping
  <2>7. pc' \in [Callers -> Call] /\ Phases'  BY <1>3, <2>1, <2>4, <2>6, CallerStep
  <2>8. Types'  BY <1>1, <1>2, <1>3, <2>3, <2>7 DEF Types
  <2>9. QED  BY <2>3, <2>7, <2>8 DEF Inv
<1>6. QED  BY <1>4, <1>5

(* A replay looks for a server it may use.                                     *)
LEMMA ManagedReadInv == ASSUME Inv, NEW c \in Callers, ManagedRead(c)  PROVE Inv'
<1> DEFINE borrow == [at |-> "borrow"]
           popen == [at |-> "popen", managed |-> TRUE]
           found == PidRunning(c, file) /\ Healthy
<1>1. /\ pc[c] = Idle /\ UNCHANGED <<parent, port, file, foreign, trouble>>
      /\ raced' = (raced \/ \E d \in Callers \ {c} : pc[d] # Idle)
      /\ proc' = Reap(c, file) /\ Goto(c, IF found THEN borrow ELSE popen)
  BY DEF ManagedRead, Begin
<1>2. Types /\ PortOK  BY DEF Inv
<1>3. /\ raced' \in BOOLEAN
      /\ Orderly' => Orderly /\ Settled /\ \A d \in Callers : d # c => pc[d] = Idle
  BY <1>1, BeginFacts
<1>4. file \in Pid \cup {None}  BY <1>2 DEF Types
<1>5. proc' \in [Pid -> States] /\ Quiet /\ PortOK'  BY <1>1, <1>4, ReapIsQuiet
<1>6. CASE found
  <2>1. borrow \in Call /\ Goto(c, borrow)  BY <1>1, <1>6 DEF Call
  <2>2. Settled => Settled'  BY <1>5, QuietPhase
  <2>3. Orderly' => Phase(borrow)'  BY <1>3, <2>2 DEF Phase, Stopping
  <2>4. pc' \in [Callers -> Call] /\ Phases'  BY <1>3, <2>1, <2>3, CallerStep
  <2>5. Types'  BY <1>1, <1>2, <1>3, <1>5, <2>4 DEF Types
  <2>6. QED  BY <1>5, <2>4, <2>5 DEF Inv
<1>7. CASE ~ found
  <2>1. popen \in Call /\ Goto(c, popen)  BY <1>1, <1>7 DEF Call
  <2>2. ASSUME Settled  PROVE \A p \in Pid : proc[p] \notin Live
    <3>1. SUFFICES ASSUME NEW p \in Pid, proc[p] \in Live  PROVE FALSE
      OBVIOUS
    <3>2. file = p /\ port = p /\ proc[p] = "up"  BY <2>2, <3>1 DEF Settled
    <3>3. found
      BY <3>2, ReplayServersAssumption DEF PidRunning, Healthy, Exists, Reaped
    <3>4. QED  BY <1>7, <3>3
  <2>3. Orderly' => Phase(popen)'
    <3>1. \A p \in Pid : proc[p] \notin Live => proc'[p] \notin Live  BY <1>5 DEF Quiet
    <3>2. QED  BY <1>3, <2>2, <3>1 DEF Phase, Stopping
  <2>4. pc' \in [Callers -> Call] /\ Phases'  BY <1>3, <2>1, <2>3, CallerStep
  <2>5. Types'  BY <1>1, <1>2, <1>3, <1>5, <2>4 DEF Types
  <2>6. QED  BY <1>5, <2>4, <2>5 DEF Inv
<1>8. QED  BY <1>6, <1>7

(* A server starts.                                                            *)
LEMMA PopenInv == ASSUME Inv, NEW c \in Callers, NEW p \in Pid, Popen(c, p)  PROVE Inv'
<1> DEFINE k == [at |-> IF pc[c].managed THEN "wait" ELSE "write", pid |-> p,
                 managed |-> pc[c].managed]
<1>1. /\ pc[c].at = "popen" /\ proc[p] = "free" /\ Goto(c, k)
      /\ proc' = [proc EXCEPT ![p] = "starting"] /\ parent' = [parent EXCEPT ![p] = Home(c)]
      /\ UNCHANGED <<port, file, foreign, trouble, raced>>
  BY DEF Popen
<1>2. Types /\ PortOK /\ pc[c].managed \in BOOLEAN /\ pc[c] # Idle  BY <1>1, CallFields DEF Inv
<1>3. proc' \in [Pid -> States] /\ parent' \in [Pid -> Homes] /\ proc'[p] = "starting"
      /\ \A q \in Pid : q # p => proc'[q] = proc[q]
  BY <1>1, <1>2 DEF Types, States, Live, Homes
<1>4. PortOK'  BY <1>1, <1>2, <1>3 DEF PortOK
<1>5. PICK j \in Call : j = k
  <2>1. CASE pc[c].managed = TRUE  BY <2>1 DEF Call
  <2>2. CASE pc[c].managed = FALSE  BY <2>2 DEF Call
  <2>3. QED  BY <1>2, <2>1, <2>2
<1>6. /\ j.pid = p /\ j.managed = pc[c].managed
      /\ (j.managed /\ j.at = "wait") \/ (~ j.managed /\ j.at = "write")
  BY <1>2, <1>5
<1>7. ASSUME Orderly'  PROVE Orderly /\ \A q \in Pid : proc[q] \notin Live
  <2>1. Orderly  BY <1>1, <1>7 DEF Orderly
  <2>2. Phase(pc[c])  BY <1>2, <2>1, AtWork
  <2>3. QED  BY <1>1, <2>1, <2>2 DEF Phase
<1>8. ASSUME Orderly'  PROVE Phase(j)'
  <2>1. OnlyAlive(j.pid)'  BY <1>3, <1>6, <1>7, <1>8 DEF OnlyAlive
  <2>2. QED  BY <1>6, <2>1 DEF Phase, Stopping
<1>9. pc' \in [Callers -> Call] /\ Phases'
  <2>1. Orderly' => \A d \in Callers : d # c => pc[d] = Idle  BY <1>2, <1>7, AtWork
  <2>2. Goto(c, j)  BY <1>1, <1>5
  <2>3. QED  BY <1>8, <2>1, <2>2, CallerStep
<1>10. Types'  BY <1>1, <1>2, <1>3, <1>9 DEF Types
<1>11. QED  BY <1>4, <1>9, <1>10 DEF Inv

(* A caller at work goes on to k.                                              *)
LEMMA WorkStep ==
  ASSUME Inv, NEW c \in Callers, pc[c] # Idle, NEW k \in Call, Goto(c, k),
         UNCHANGED <<raced, trouble, foreign>>, proc' \in [Pid -> States],
         parent' \in [Pid -> Homes], file' \in Pid \cup {None}, PortOK',
         Orderly /\ Phase(pc[c]) => Phase(k)'
  PROVE  Inv'
<1>1. Orderly' => Orderly  BY DEF Orderly
<1>2. Orderly' => (\A d \in Callers : d # c => pc[d] = Idle)  BY <1>1, AtWork
<1>3. Orderly' => Phase(k)'  BY <1>1, AtWork
<1>4. pc' \in [Callers -> Call] /\ Phases'  BY <1>2, <1>3, CallerStep
<1>5. Types'  BY <1>4 DEF Inv, Types
<1>6. QED  BY <1>4, <1>5 DEF Inv

(* A caller at work goes on, and only zombies are reaped.                      *)
LEMMA ReturnStep ==
  ASSUME Inv, NEW c \in Callers, pc[c] # Idle, Return(c, proc), UNCHANGED <<raced, trouble, foreign, port>>,
         file' \in Pid \cup {None},
         Orderly /\ Phase(pc[c]) => Settled \/ (\A p \in Pid : proc[p] \notin Live),
         file' = file \/ (Orderly /\ Phase(pc[c]) => \A p \in Pid : proc[p] \notin Live)
  PROVE  Inv'
<1>1. Types /\ PortOK  BY DEF Inv
<1>2. Goto(c, Idle) /\ proc' = Swept(c, proc) /\ parent' = Orphaned(c)  BY DEF Return
<1>3. /\ proc' \in [Pid -> States] /\ parent' \in [Pid -> Homes]
      /\ \A q \in Pid : proc'[q] = proc[q] \/ (proc[q] = "zombie" /\ proc'[q] = "free")
  BY <1>1, <1>2, SweptFacts DEF Types
<1>4. PortOK'  BY <1>1, <1>3 DEF PortOK
<1>5. Idle \in Call /\ Idle.at = "idle"  BY DEF Call, Idle
<1>6. \A p \in Pid : proc'[p] \in Live => proc'[p] = proc[p]  BY <1>3 DEF Live
<1>7. ASSUME Orderly, Phase(pc[c])  PROVE Settled'
  <2>1. CASE \A p \in Pid : proc[p] \notin Live  BY <2>1, <1>6 DEF Settled
  <2>2. CASE Settled /\ file' = file  BY <2>2, <1>6 DEF Settled
  <2>3. QED  BY <1>7, <2>1, <2>2
<1>8. Orderly /\ Phase(pc[c]) => Phase(Idle)'
  <2>1. PICK k : k = Idle  OBVIOUS
  <2>2. Orderly /\ Phase(pc[c]) => Phase(k)'  BY <1>5, <1>7, <2>1 DEF Phase, Stopping
  <2>3. QED  BY <2>1, <2>2 DEF Phase, Idle
<1>9. QED  BY <1>2, <1>3, <1>4, <1>5, <1>8, WorkStep

(* The command is not found.                                                   *)
LEMMA PopenFailsInv == ASSUME Inv, NEW c \in Callers, PopenFails(c)  PROVE Inv'
<1>1. /\ pc[c].at = "popen" /\ Return(c, proc)
      /\ UNCHANGED <<port, file, foreign, trouble, raced>>
  BY DEF PopenFails
<1>2. pc[c] # Idle  BY <1>1, CallFields
<1>3. Phase(pc[c]) => \A p \in Pid : proc[p] \notin Live  BY <1>1 DEF Phase
<1>4. file' \in Pid \cup {None}  BY <1>1 DEF Inv, Types
<1>5. QED  BY <1>1, <1>2, <1>3, <1>4, ReturnStep

(* The state file gets the number of the new server.                           *)
LEMMA WriteStateInv == ASSUME Inv, NEW c \in Callers, WriteState(c)  PROVE Inv'
<1>1. /\ pc[c].at = "write" /\ file' = pc[c].pid /\ Goto(c, [pc[c] EXCEPT !.at = "wait"])
      /\ UNCHANGED <<proc, parent, port, foreign, trouble, raced>>
  BY DEF WriteState
<1>2. Types /\ PortOK /\ pc[c] # Idle /\ pc[c] \in Call /\ pc[c].pid \in Pid
  BY <1>1, CallFields DEF Inv
<1>3. PICK k \in Call : /\ k = [pc[c] EXCEPT !.at = "wait"] /\ k.at = "wait" /\ k.pid = pc[c].pid
                        /\ k.managed = pc[c].managed
  BY <1>1, <1>2, NextPlace
<1>4. Phase(pc[c]) => Phase(k)'
  BY <1>1, <1>3 DEF Phase, OnlyAlive, Stopping
<1>5. PortOK'  BY <1>1, <1>2 DEF PortOK
<1>6. Goto(c, k)  BY <1>1, <1>3
<1>7. proc' \in [Pid -> States] /\ parent' \in [Pid -> Homes] /\ file' \in Pid \cup {None}
  BY <1>1, <1>2 DEF Types
<1>8. QED  BY <1>1, <1>2, <1>4, <1>5, <1>6, <1>7, WorkStep

(* A caller that leaves all but its place as it was.                           *)
LEMMA PlaceStep ==
  ASSUME Inv, NEW c \in Callers, pc[c] # Idle, NEW k \in Call, Goto(c, k),
         UNCHANGED <<proc, parent, port, file, foreign, trouble, raced>>,
         Orderly /\ Phase(pc[c]) => Phase(k)
  PROVE  Inv'
<1>1. Types /\ PortOK  BY DEF Inv
<1>2. PortOK'  BY <1>1 DEF PortOK
<1>3. Phase(k) => Phase(k)'  BY DEF Phase, Settled, OnlyAlive
<1>4. proc' \in [Pid -> States] /\ parent' \in [Pid -> Homes] /\ file' \in Pid \cup {None}
  BY <1>1 DEF Types
<1>5. QED  BY <1>2, <1>3, <1>4, WorkStep

(* The URL answers while the caller's own server is alive: it is that server.  *)
LEMMA WaitHealthyInv == ASSUME Inv, NEW c \in Callers, WaitHealthy(c)  PROVE Inv'
<1>1. /\ pc[c].at = "wait" /\ Healthy /\ UNCHANGED <<port, file, foreign, trouble, raced>>
  BY DEF WaitHealthy
<1>2. Types /\ PortOK /\ pc[c] # Idle /\ pc[c] \in Call /\ pc[c].pid \in Pid
      /\ pc[c].managed \in BOOLEAN
  BY <1>1, CallFields DEF Inv
<1>3. CASE pc[c].managed
  <2>1. Goto(c, [pc[c] EXCEPT !.at = "use"]) /\ UNCHANGED <<proc, parent>>
    BY <1>3 DEF WaitHealthy
  <2>2. PICK k \in Call : k = [pc[c] EXCEPT !.at = "use"] /\ k.at = "use" /\ k.pid = pc[c].pid
    BY <1>1, <1>2, NextPlace
  <2>3. Phase(pc[c]) => Phase(k)  BY <1>1, <2>2 DEF Phase, Stopping
  <2>4. QED  BY <1>1, <1>2, <2>1, <2>2, <2>3, PlaceStep
<1>4. CASE ~ pc[c].managed
  <2>1. Return(c, proc)  BY <1>4 DEF WaitHealthy
  <2>2. ASSUME Phase(pc[c])  PROVE Settled
    <3>1. OnlyAlive(pc[c].pid) /\ file = pc[c].pid  BY <1>1, <1>4, <2>2 DEF Phase
    <3>2. port \in Pid /\ proc[port] = "up"  BY <1>1, <1>2 DEF Healthy, PortOK
    <3>3. port = pc[c].pid  BY <3>1, <3>2 DEF OnlyAlive, Live
    <3>4. QED  BY <3>1, <3>2, <3>3 DEF OnlyAlive, Settled
  <2>3. file' \in Pid \cup {None}  BY <1>1, <1>2 DEF Types
  <2>4. QED  BY <1>1, <1>2, <2>1, <2>2, <2>3, ReturnStep
<1>5. QED  BY <1>3, <1>4

(* The wait fails.                                                             *)
LEMMA WaitFailsInv == ASSUME Inv, NEW c \in Callers, WaitFails(c)  PROVE Inv'
<1>1. /\ pc[c].at = "wait" /\ Goto(c, [pc[c] EXCEPT !.at = "stop_own"])
      /\ UNCHANGED <<proc, parent, port, file, foreign, trouble, raced>>
  BY DEF WaitFails
<1>2. pc[c] # Idle /\ pc[c] \in Call  BY <1>1, CallFields
<1>3. PICK k \in Call : k = [pc[c] EXCEPT !.at = "stop_own"] /\ k.at = "stop_own" /\ k.pid = pc[c].pid
  BY <1>1, <1>2, NextPlace
<1>4. Phase(pc[c]) => Phase(k)  BY <1>1, <1>3 DEF Phase, Stopping
<1>5. QED  BY <1>1, <1>2, <1>3, <1>4, PlaceStep

(* A replay is done with a server of its own, or with the one that ran.        *)
LEMMA UseDoneInv == ASSUME Inv, NEW c \in Callers, UseDone(c)  PROVE Inv'
<1>1. /\ pc[c].at \in {"use", "borrow"}
      /\ UNCHANGED <<proc, parent, port, file, foreign, trouble, raced>>
  BY DEF UseDone
<1>2. pc[c] # Idle /\ pc[c] \in Call  BY <1>1, CallFields
<1>3. CASE pc[c].at = "use"
  <2>1. Goto(c, [pc[c] EXCEPT !.at = "stop_own"])  BY <1>3 DEF UseDone
  <2>2. PICK k \in Call : k = [pc[c] EXCEPT !.at = "stop_own"] /\ k.at = "stop_own" /\ k.pid = pc[c].pid
    BY <1>2, <1>3, NextPlace
  <2>3. Phase(pc[c]) => Phase(k)  BY <1>3, <2>2 DEF Phase, Stopping
  <2>4. QED  BY <1>1, <1>2, <2>1, <2>2, <2>3, PlaceStep
<1>4. CASE pc[c].at = "borrow"
  <2>1. Goto(c, Idle)  BY <1>4 DEF UseDone
  <2>2. Idle \in Call  BY DEF Call
  <2>3. Phase(pc[c]) => Phase(Idle)  BY <1>4 DEF Phase, Stopping, Idle
  <2>4. QED  BY <1>1, <1>2, <2>1, <2>2, <2>3, PlaceStep
<1>5. QED  BY <1>1, <1>3, <1>4

(* A caller stops the server it started.                                       *)
LEMMA StopOwnInv == ASSUME Inv, NEW c \in Callers, StopOwn(c)  PROVE Inv'
<1> DEFINE p == pc[c].pid
           now == [proc EXCEPT ![p] = "free"]
<1>1. /\ pc[c].at = "stop_own" /\ port' = PortWithout(p)
      /\ UNCHANGED <<file, foreign, trouble, raced>>
  BY DEF StopOwn
<1>2. Types /\ PortOK /\ pc[c] # Idle /\ pc[c] \in Call /\ p \in Pid /\ pc[c].managed \in BOOLEAN
  BY <1>1, CallFields DEF Inv
<1>3. /\ now \in [Pid -> States] /\ now[p] = "free" /\ \A q \in Pid : q # p => now[q] = proc[q]
  BY <1>2 DEF Types, States
<1>4. Phase(pc[c]) => \A q \in Pid : now[q] \notin Live
  BY <1>1, <1>3 DEF Phase, OnlyAlive, Live
<1>5. file' \in Pid \cup {None}  BY <1>1, <1>2 DEF Types
<1> HIDE DEF now
<1>6. CASE pc[c].managed
  <2>1. Return(c, now)  BY <1>6 DEF StopOwn, now
  <2>2. Goto(c, Idle) /\ proc' = Swept(c, now) /\ parent' = Orphaned(c)  BY <2>1 DEF Return
  <2>3. /\ proc' \in [Pid -> States] /\ parent' \in [Pid -> Homes]
        /\ \A q \in Pid : proc'[q] = now[q] \/ (now[q] = "zombie" /\ proc'[q] = "free")
    BY <1>2, <1>3, <2>2, SweptFacts
  <2>4. PortOK'  BY <1>1, <1>2, <1>3, <2>3 DEF PortOK, PortWithout
  <2>5. PICK k \in Call : k = Idle  BY DEF Call
  <2>6. Phase(pc[c]) => Phase(k)'
    <3>1. \A q \in Pid : proc'[q] \in Live => now[q] \in Live  BY <2>3 DEF Live
    <3>2. k.at = "idle"  BY <2>5 DEF Idle
    <3>3. QED  BY <1>4, <3>1, <3>2 DEF Phase, Settled, Stopping
  <2>7. Goto(c, k)  BY <2>2, <2>5
  <2>8. QED  BY <1>1, <1>2, <1>5, <2>3, <2>4, <2>6, <2>7, WorkStep
<1>7. CASE ~ pc[c].managed
  <2>1. proc' = now /\ UNCHANGED parent /\ Goto(c, [pc[c] EXCEPT !.at = "write_failed"])
    BY <1>7 DEF StopOwn, now
  <2>2. PICK k \in Call : k = [pc[c] EXCEPT !.at = "write_failed"] /\ k.at = "write_failed"
    BY <1>1, <1>2, NextPlace
  <2>3. PortOK'  BY <1>1, <1>2, <1>3, <2>1 DEF PortOK, PortWithout
  <2>4. Phase(pc[c]) => Phase(k)'  BY <1>4, <2>1, <2>2 DEF Phase, Stopping
  <2>5. proc' \in [Pid -> States] /\ parent' \in [Pid -> Homes]  BY <1>2, <1>3, <2>1 DEF Types
  <2>6. Goto(c, k)  BY <2>1, <2>2
  <2>7. QED  BY <1>1, <1>2, <1>5, <2>3, <2>4, <2>5, <2>6, WorkStep
<1>8. QED  BY <1>2, <1>6, <1>7

(* The failed start is recorded, with the number of the server that is gone.   *)
LEMMA WriteFailedInv == ASSUME Inv, NEW c \in Callers, WriteFailed(c)  PROVE Inv'
<1>1. /\ pc[c].at = "write_failed" /\ file' = pc[c].pid /\ Return(c, proc)
      /\ UNCHANGED <<port, foreign, trouble, raced>>
  BY DEF WriteFailed
<1>2. pc[c] # Idle /\ pc[c].pid \in Pid  BY <1>1, CallFields
<1>3. Phase(pc[c]) => \A p \in Pid : proc[p] \notin Live  BY <1>1 DEF Phase
<1>4. QED  BY <1>1, <1>2, <1>3, ReturnStep

(* A status reaps a child that ended.                                          *)
LEMMA StatusInv == ASSUME Inv, NEW c \in Callers, Status(c)  PROVE Inv'
<1>1. proc' = Reap(c, file) /\ UNCHANGED <<parent, port, file, pc, foreign, trouble, raced>>
  BY DEF Status
<1>2. file \in Pid \cup {None}  BY DEF Inv, Types
<1>3. proc' \in [Pid -> States] /\ Quiet /\ PortOK'  BY <1>1, <1>2, ReapIsQuiet
<1>4. Orderly' => Orderly  BY <1>1 DEF Orderly
<1>5. Phases'  BY <1>1, <1>3, <1>4, QuietPhase, WorldStep
<1>6. Types'  BY <1>1, <1>3 DEF Inv, Types
<1>7. QED  BY <1>3, <1>5, <1>6 DEF Inv

(* A stop finds a process under the number of the file, or nothing.            *)
LEMMA StopReadInv == ASSUME Inv, NEW c \in Callers, StopRead(c)  PROVE Inv'
<1> DEFINE k == [at |-> "term", pid |-> file]
<1>1. /\ pc[c] = Idle /\ proc' = Reap(c, file) /\ UNCHANGED <<parent, port, file, foreign, trouble>>
  BY DEF StopRead
<1>2. Types /\ file \in Pid \cup {None}  BY DEF Inv, Types
<1>3. proc' \in [Pid -> States] /\ Quiet /\ PortOK'  BY <1>1, <1>2, ReapIsQuiet
<1>4. CASE UNCHANGED <<pc, raced>>
  <2>1. Orderly' => Orderly  BY <1>1, <1>4 DEF Orderly
  <2>2. Phases'  BY <1>3, <1>4, <2>1, QuietPhase, WorldStep
  <2>3. Types'  BY <1>1, <1>2, <1>3, <1>4 DEF Types
  <2>4. QED  BY <1>3, <2>2, <2>3 DEF Inv
<1>5. CASE PidRunning(c, file) /\ Begin(c, k)
  <2>1. Goto(c, k) /\ raced' = (raced \/ \E d \in Callers \ {c} : pc[d] # Idle)
    BY <1>5 DEF Begin
  <2>2. file \in Pid  BY <1>2, <1>5 DEF PidRunning
  <2>3. k \in Call  BY <2>2 DEF Call, Stopping
  <2>4. /\ raced' \in BOOLEAN
        /\ Orderly' => Orderly /\ Settled /\ \A d \in Callers : d # c => pc[d] = Idle
    BY <1>1, <2>1, BeginFacts
  <2>5. PICK j \in Call : j = k  BY <2>3
  <2>6. j.at = "term" /\ j.pid = file /\ file' = file  BY <1>1, <2>5
  <2>7. Orderly' => Phase(j)'
    <3>1. Settled => Settled'  BY <1>3, QuietPhase
    <3>2. QED  BY <2>4, <2>6, <3>1 DEF Phase, Stopping
  <2>8. Goto(c, j)  BY <2>1, <2>5
  <2>9. pc' \in [Callers -> Call] /\ Phases'  BY <2>4, <2>7, <2>8, CallerStep
  <2>10. Types'  BY <1>1, <1>2, <1>3, <2>4, <2>9 DEF Types
  <2>11. QED  BY <1>3, <2>9, <2>10 DEF Inv
<1>6. QED  BY <1>4, <1>5 DEF StopRead

(* A process ends: nothing else is alive, or listens, that was not before.     *)
LEMMA DiedIsQuiet ==
  ASSUME Inv, NEW p \in Pid, proc' = Died(p), port' = PortWithout(p), UNCHANGED file
  PROVE  proc' \in [Pid -> States] /\ Quiet /\ PortOK'
<1>1. Types /\ PortOK  BY DEF Inv
<1>2. /\ proc' \in [Pid -> States] /\ proc'[p] \in {"free", "zombie"}
      /\ \A q \in Pid : q # p => proc'[q] = proc[q]
  BY <1>1, DiedFacts
<1>3. Quiet  BY <1>2 DEF Quiet, Live, PortWithout
<1>4. PortOK'  BY <1>1, <1>2 DEF PortOK, PortWithout
<1>5. QED  BY <1>2, <1>3, <1>4

(* A caller in a stop goes to another place of it, or ends, quietly.           *)
LEMMA StopStep ==
  ASSUME Inv, NEW c \in Callers, pc[c].at \in Stopping, NEW k \in Call, Goto(c, k),
         k = Idle \/ (k.at \in Stopping /\ k.pid = pc[c].pid),
         Quiet, PortOK', proc' \in [Pid -> States], UNCHANGED <<parent, foreign, trouble, raced>>
  PROVE  Inv'
<1>1. pc[c] # Idle  BY CallFields DEF Stopping
<1>2. parent' \in [Pid -> Homes] /\ file' \in Pid \cup {None}  BY DEF Inv, Types, Quiet
<1>3. Phase(pc[c]) => Settled /\ file = pc[c].pid  BY DEF Phase
<1>4. Settled => Settled'  BY QuietPhase
<1>5. Phase(pc[c]) => Phase(k)'
  <2>1. CASE k = Idle
    <3>1. k.at = "idle"  BY <2>1 DEF Idle
    <3>2. QED  BY <1>3, <1>4, <3>1 DEF Phase, Stopping
  <2>2. CASE k.at \in Stopping /\ k.pid = pc[c].pid
    BY <1>3, <1>4, <2>2 DEF Phase, Quiet, Stopping
  <2>3. QED  BY <2>1, <2>2
<1>6. QED  BY <1>1, <1>2, <1>5, WorkStep

(* The signal, which may end the process.                                      *)
LEMMA TerminateInv == ASSUME Inv, NEW c \in Callers, Terminate(c)  PROVE Inv'
<1> DEFINE p == pc[c].pid
<1>1. pc[c].at = "term" /\ UNCHANGED <<parent, file, foreign, trouble, raced>>
  BY DEF Terminate
<1>2. Types /\ PortOK /\ pc[c] \in Call /\ p \in Pid /\ pc[c].at \in Stopping
  BY <1>1, CallFields DEF Inv, Stopping
<1>3. Idle \in Call  BY DEF Call
<1>4. PICK k \in Call : k = [pc[c] EXCEPT !.at = "poll"] /\ k.at = "poll" /\ k.pid = p
  BY <1>2, NextPlace DEF Stopping
<1>5. PICK j \in {k, Idle} : Goto(c, j)  BY <1>4 DEF Terminate
<1>6. j \in Call /\ (j = Idle \/ (j.at \in Stopping /\ j.pid = p))
  BY <1>3, <1>4, <1>5 DEF Stopping
<1>7. CASE UNCHANGED <<proc, port>>
  <2>1. Quiet /\ PortOK' /\ proc' \in [Pid -> States]
    BY <1>1, <1>2, <1>7 DEF Quiet, PortOK, Types
  <2>2. QED  BY <1>1, <1>2, <1>5, <1>6, <2>1, StopStep
<1>8. CASE proc' = Died(p) /\ port' = PortWithout(p)
  <2>1. Quiet /\ PortOK' /\ proc' \in [Pid -> States]  BY <1>1, <1>2, <1>8, DiedIsQuiet
  <2>2. QED  BY <1>1, <1>2, <1>5, <1>6, <2>1, StopStep
<1>9. QED  BY <1>7, <1>8 DEF Terminate

(* The number is gone; the file keeps it.                                      *)
LEMMA StopPollInv == ASSUME Inv, NEW c \in Callers, StopPoll(c)  PROVE Inv'
<1>1. /\ pc[c].at \in Stopping /\ proc' = Reap(c, pc[c].pid) /\ file' = pc[c].pid /\ Goto(c, Idle)
      /\ UNCHANGED <<parent, port, foreign, trouble, raced>>
  BY DEF StopPoll, Stopping
<1>2. Types /\ PortOK /\ pc[c] # Idle /\ pc[c].pid \in Pid
  BY <1>1, CallFields DEF Inv, Stopping
<1>3. /\ proc' \in [Pid -> States]
      /\ \A q \in Pid : proc'[q] = proc[q] \/ (proc[q] = "zombie" /\ proc'[q] = "free")
  BY <1>1, <1>2, ReapFacts
<1>4. PortOK'  BY <1>1, <1>2, <1>3 DEF PortOK
<1>5. PICK k \in Call : k = Idle  BY DEF Call
<1>6. Phase(pc[c]) => Phase(k)'
  <2>1. Phase(pc[c]) => Settled /\ file' = file  BY <1>1 DEF Phase
  <2>2. Settled /\ file' = file => Settled'  BY <1>1, <1>3 DEF Settled, Live
  <2>3. k.at = "idle"  BY <1>5 DEF Idle
  <2>4. QED  BY <2>1, <2>2, <2>3 DEF Phase, Stopping
<1>7. Goto(c, k) /\ parent' \in [Pid -> Homes] /\ file' \in Pid \cup {None}
  BY <1>1, <1>2, <1>5 DEF Types
<1>8. QED  BY <1>1, <1>2, <1>3, <1>4, <1>6, <1>7, WorkStep

(* The kill, which no server survives.                                         *)
LEMMA StopKillInv == ASSUME Inv, NEW c \in Callers, StopKill(c)  PROVE Inv'
<1> DEFINE p == pc[c].pid
<1>1. pc[c].at = "poll" /\ UNCHANGED <<parent, file, foreign, trouble, raced>>
  BY DEF StopKill
<1>2. Types /\ PortOK /\ pc[c] \in Call /\ p \in Pid /\ pc[c].at \in Stopping
  BY <1>1, CallFields DEF Inv, Stopping
<1>3. Idle \in Call  BY DEF Call
<1>4. PICK k \in Call : k = [pc[c] EXCEPT !.at = "killed"] /\ k.at = "killed" /\ k.pid = p
  BY <1>2, NextPlace DEF Stopping
<1>5. PICK j \in {k, Idle} : Goto(c, j)  BY <1>4 DEF StopKill
<1>6. j \in Call /\ (j = Idle \/ (j.at \in Stopping /\ j.pid = p))
  BY <1>3, <1>4, <1>5 DEF Stopping
<1>7. CASE UNCHANGED <<proc, port>>
  <2>1. Quiet /\ PortOK' /\ proc' \in [Pid -> States]
    BY <1>1, <1>2, <1>7 DEF Quiet, PortOK, Types
  <2>2. QED  BY <1>1, <1>2, <1>5, <1>6, <2>1, StopStep
<1>8. CASE proc' = Died(p) /\ port' = PortWithout(p)
  <2>1. Quiet /\ PortOK' /\ proc' \in [Pid -> States]  BY <1>1, <1>2, <1>8, DiedIsQuiet
  <2>2. QED  BY <1>1, <1>2, <1>5, <1>6, <2>1, StopStep
<1>9. CASE proc[p] = "zombie" /\ proc' = proc /\ port' = PortWithout(p)
  <2>1. Quiet /\ PortOK' /\ proc' \in [Pid -> States]
    BY <1>1, <1>2, <1>9 DEF Quiet, PortOK, PortWithout, Types, Live
  <2>2. QED  BY <1>1, <1>2, <1>5, <1>6, <2>1, StopStep
<1>10. QED  BY <1>7, <1>8, <1>9 DEF StopKill

(* A server binds the port, or exits because another has it.                   *)
LEMMA BindInv == ASSUME Inv, NEW p \in Pid, Bind(p)  PROVE Inv'
<1>1. proc[p] = "starting" /\ UNCHANGED <<parent, file, pc, foreign, trouble, raced>>  BY DEF Bind
<1>2. Types /\ PortOK  BY DEF Inv
<1>3. Orderly' => Orderly  BY <1>1 DEF Orderly
<1>4. CASE port = None /\ port' = p /\ proc' = [proc EXCEPT ![p] = "up"]
  <2>1. /\ proc' \in [Pid -> States] /\ proc'[p] = "up" /\ \A q \in Pid : q # p => proc'[q] = proc[q]
    BY <1>2, <1>4 DEF Types, States, Live
  <2>2. PortOK'  BY <1>4, <2>1 DEF PortOK
  <2>3. ~ Settled /\ ~ \A q \in Pid : proc[q] \notin Live  BY <1>1 DEF Settled, Live
  <2>4. \A q : OnlyAlive(q) => OnlyAlive(q)'  BY <1>1, <2>1 DEF OnlyAlive, Live
  <2>5. \A k : Phase(k) => Phase(k)'  BY <1>1, <2>3, <2>4 DEF Phase
  <2>6. Phases'  BY <1>1, <1>3, <2>3, <2>5, WorldStep
  <2>7. Types'  BY <1>1, <1>2, <2>1 DEF Types
  <2>8. QED  BY <2>2, <2>6, <2>7 DEF Inv
<1>5. CASE port # None /\ proc' = Died(p) /\ UNCHANGED port
  <2>1. port # p  BY <1>1, <1>2, <1>5 DEF PortOK
  <2>2. port' = PortWithout(p)  BY <1>5, <2>1 DEF PortWithout
  <2>3. proc' \in [Pid -> States] /\ Quiet /\ PortOK'  BY <1>1, <1>5, <2>2, DiedIsQuiet
  <2>4. Phases'  BY <1>1, <1>3, <2>3, QuietPhase, WorldStep
  <2>5. Types'  BY <1>1, <1>2, <2>3 DEF Types
  <2>6. QED  BY <2>3, <2>4, <2>5 DEF Inv
<1>6. QED  BY <1>4, <1>5 DEF Bind

(* A process ends by itself.                                                   *)
LEMMA ExitInv == ASSUME Inv, NEW p \in Pid, Exit(p)  PROVE Inv'
<1>1. /\ proc' = Died(p) /\ port' = PortWithout(p)
      /\ UNCHANGED <<parent, file, pc, foreign, trouble, raced>>
  BY DEF Exit
<1>2. proc' \in [Pid -> States] /\ Quiet /\ PortOK'  BY <1>1, DiedIsQuiet
<1>3. Orderly' => Orderly  BY <1>1 DEF Orderly
<1>4. Phases'  BY <1>1, <1>2, <1>3, QuietPhase, WorldStep
<1>5. Types'  BY <1>1, <1>2 DEF Inv, Types
<1>6. QED  BY <1>2, <1>4, <1>5 DEF Inv

(* A server hangs; nothing is said of what follows.                            *)
LEMMA HangInv == ASSUME Inv, NEW p \in Pid, Hang(p)  PROVE Inv'
<1>1. /\ proc[p] = "up" /\ trouble < MaxTrouble /\ proc' = [proc EXCEPT ![p] = "hung"]
      /\ trouble' = trouble + 1 /\ UNCHANGED <<parent, port, file, pc, foreign, raced>>
  BY DEF Hang
<1>2. Types /\ PortOK /\ trouble \in 0..MaxTrouble /\ MaxTrouble \in Nat
  BY ReplayServersAssumption DEF Inv, Types
<1>3. proc' \in [Pid -> States]  BY <1>1, <1>2 DEF Types, States, Live
<1>4. PortOK'  BY <1>1, <1>2 DEF PortOK, Types
<1>5. trouble' \in 0..MaxTrouble /\ trouble' # 0  BY <1>1, <1>2
<1>6. Phases'  BY <1>5 DEF Phases, Orderly
<1>7. Types'  BY <1>1, <1>2, <1>3, <1>5 DEF Types
<1>8. QED  BY <1>4, <1>6, <1>7 DEF Inv

(* An unrelated process gets a free number.                                    *)
LEMMA ReuseInv == ASSUME Inv, NEW p \in Pid, Reuse(p)  PROVE Inv'
<1>1. /\ proc[p] = "free" /\ foreign < MaxForeign /\ proc' = [proc EXCEPT ![p] = "foreign"]
      /\ parent' = [parent EXCEPT ![p] = "init"] /\ foreign' = foreign + 1
      /\ UNCHANGED <<port, file, pc, trouble, raced>>
  BY DEF Reuse
<1>2. Types /\ PortOK /\ foreign \in 0..MaxForeign /\ MaxForeign \in Nat
  BY ReplayServersAssumption DEF Inv, Types
<1>3. /\ proc' \in [Pid -> States] /\ proc'[p] = "foreign"
      /\ \A q \in Pid : q # p => proc'[q] = proc[q]
  BY <1>1, <1>2 DEF Types, States
<1>4. parent' \in [Pid -> Homes]  BY <1>1, <1>2 DEF Types, Homes
<1>5. PortOK'  BY <1>1, <1>2, <1>3 DEF PortOK
<1>6. Quiet  BY <1>1, <1>3 DEF Quiet, Live
<1>7. Orderly' => Orderly  BY <1>1 DEF Orderly
<1>8. Phases'  BY <1>1, <1>6, <1>7, QuietPhase, WorldStep
<1>9. foreign' \in 0..MaxForeign  BY <1>1, <1>2
<1>10. Types'  BY <1>1, <1>2, <1>3, <1>4, <1>9 DEF Types
<1>11. QED  BY <1>5, <1>8, <1>10 DEF Inv

(* A process dies with its callers; nothing is said of what follows.           *)
LEMMA CrashInv == ASSUME Inv, NEW h \in Homes, Crash(h)  PROVE Inv'
<1> DEFINE dead == {c \in Callers : Home(c) = h}
<1>1. /\ trouble < MaxTrouble /\ pc' = [c \in Callers |-> IF c \in dead THEN Idle ELSE pc[c]]
      /\ proc' = [p \in Pid |-> IF parent[p] = h /\ proc[p] = "zombie" THEN "free" ELSE proc[p]]
      /\ parent' = [p \in Pid |-> IF parent[p] = h THEN "init" ELSE parent[p]]
      /\ trouble' = trouble + 1 /\ UNCHANGED <<port, file, foreign, raced>>
  BY DEF Crash
<1>2. Types /\ PortOK /\ trouble \in 0..MaxTrouble /\ MaxTrouble \in Nat
  BY ReplayServersAssumption DEF Inv, Types
<1>3. proc' \in [Pid -> States] /\ parent' \in [Pid -> Homes]
  BY <1>1, <1>2 DEF Types, States, Homes
<1>4. PortOK'  BY <1>1, <1>2 DEF PortOK, Types
<1>5. Idle \in Call  BY DEF Call
<1>6. pc' \in [Callers -> Call]  BY <1>1, <1>2, <1>5 DEF Types
<1>7. trouble' \in 0..MaxTrouble /\ trouble' # 0  BY <1>1, <1>2
<1>8. Phases'  BY <1>7 DEF Phases, Orderly
<1>9. Types'  BY <1>1, <1>2, <1>3, <1>6, <1>7 DEF Types
<1>10. QED  BY <1>4, <1>8, <1>9 DEF Inv

--------------------------------------------------------------------------------
(* The theorems                                                                *)

(* Every step keeps the invariant.                                             *)
LEMMA NextInv == Inv /\ [Next]_vars => Inv'
<1> SUFFICES ASSUME Inv, [Next]_vars  PROVE Inv'
  OBVIOUS
<1>1. CASE UNCHANGED vars
  <2>1. Types' /\ PortOK'  BY <1>1 DEF Inv, vars, Types, PortOK
  <2>2. Quiet /\ UNCHANGED pc /\ (Orderly' => Orderly)  BY <1>1 DEF vars, Quiet, Orderly
  <2>3. Phases'  BY <2>2, QuietPhase, WorldStep
  <2>4. QED  BY <2>1, <2>3 DEF Inv
<1>2. ASSUME NEW c \in Callers, StartRead(c) \/ ManagedRead(c) \/ Status(c) \/ StopRead(c)  PROVE Inv'
  BY <1>2, StartReadInv, ManagedReadInv, StatusInv, StopReadInv, Zenon
<1>3. ASSUME NEW c \in Callers, Step(c)  PROVE Inv'
  BY <1>3, PopenInv, PopenFailsInv, WriteStateInv, WaitHealthyInv, WaitFailsInv, UseDoneInv, StopOwnInv,
     WriteFailedInv, TerminateInv, StopPollInv, StopKillInv, Zenon DEF Step
<1>4. ASSUME NEW p \in Pid, Bind(p) \/ Exit(p) \/ Hang(p) \/ Reuse(p)  PROVE Inv'
  BY <1>4, BindInv, ExitInv, HangInv, ReuseInv, Zenon
<1>5. ASSUME NEW h \in Homes, Crash(h)  PROVE Inv'
  BY <1>5, CrashInv
<1>6. QED  BY <1>1, <1>2, <1>3, <1>4, <1>5, Zenon DEF Next

(* The invariant of the specification (replay_servers.py's calls, in any       *)
(* order and beside each other).                                               *)
THEOREM InvAlways == Spec => []Inv
BY InitInv, NextInv, PTL DEF Spec

(* As long as calls do not overlap, nothing hangs and no caller dies, a server *)
(* that is alive between calls is the one in the state file                    *)
(* (start_replay_server, stop_replay_server), for any number of callers,       *)
(* processes and servers that fail.                                            *)
THEOREM StateFileKnowsTheServerAlways == Spec => []StateFileKnowsTheServer
<1>1. ASSUME Inv  PROVE StateFileKnowsTheServer
  <2>1. Types /\ PortOK  BY <1>1 DEF Inv
  <2>2. ASSUME NEW c \in Callers
        PROVE  pc[c].at \in Stopping \cup
                 {"idle", "popen", "write", "wait", "use", "borrow", "stop_own", "write_failed"}
    <3>1. pc[c] \in Call  BY <2>1 DEF Types
    <3>2. QED  BY <3>1 DEF Call, Idle
  <2>3. TypeOK  BY <2>1, <2>2 DEF TypeOK, Types, PortOK
  <2>4. ASSUME Orderly, \A c \in Callers : pc[c] = Idle, NEW p \in Pid, proc[p] \in Live
        PROVE  file = p
    BY <1>1, <2>4, AtRest DEF Settled
  <2>5. QED  BY <2>3, <2>4 DEF StateFileKnowsTheServer, Orderly
<1>2. QED  BY <1>1, InvAlways, PTL

--------------------------------------------------------------------------------
(* Routing: a caller never has in hand, as ready for autonomy, a proposal that *)
(* passed no check; check runs are not deleted, so what was read stays true    *)
(* however late it is used.  The policy may change: what holds is that it was  *)
(* as it was read at some moment since (granted).  And what is to be marked    *)
(* has a patch that is past being ready, to which none returns.                *)

(* Of some that are numbered in their order, one is the latest (Max).          *)
LEMMA LatestOfSome ==
  ASSUME NEW N, Numbered(N), NEW S \in SUBSET N, S # {}
  PROVE  (CHOOSE x \in S : \A y \in S : x >= y) \in S
<1> DEFINE Less == {ss \in Nat \X Nat : ss[1] < ss[2]}
           Bounds == {n \in Nat : \A y \in S : y <= n}
<1>0. Cardinality(N) \in Nat /\ S \subseteq 1..Cardinality(N)
  BY FS_CardinalityType DEF Numbered
<1>1. IsWellFoundedOn(Less, Nat)
  BY NatLessThanWellFounded, Zenon DEF OpToRel
<1>2. Bounds \subseteq Nat /\ Cardinality(N) \in Bounds
  BY <1>0
<1>3. PICK m \in Bounds : \A n \in Bounds : ~ (<<n, m>> \in Less)
  <2> HIDE DEF Bounds, Less
  <2> QED
    BY <1>1, <1>2, WFMin
<1>4. m \in Nat /\ \A y \in S : y \in Nat /\ y <= m
  BY <1>0
<1>5. m \in S
  <2>1. CASE m = 0
    <3>1. PICK y \in S : TRUE  OBVIOUS
    <3>2. y = 0  BY <1>4, <2>1, <3>1
    <3>3. QED  BY <2>1, <3>2
  <2>2. CASE m # 0
    <3>1. m - 1 \in Nat /\ <<m - 1, m>> \in Less  BY <2>2, <1>4
    <3>2. m - 1 \notin Bounds  BY <3>1, <1>3
    <3>3. PICK y \in S : ~ (y <= m - 1)  BY <3>1, <3>2
    <3>4. y = m  BY <1>4, <3>3
    <3>5. QED  BY <3>4
  <2>3. QED  BY <2>1, <2>2
<1>6. QED
  BY <1>4, <1>5

Past == {"applied", "rolled_back"}
Prepared == Past \cup {"ready"}

\* What a caller has in hand (s) names a proposal, one that passed a check when
\* it is to be applied, and where it is at it says what it has found: of checks
\* (outs), of patches (pat), of the root and of the policy (repo), which granted
\* it (gr) at some moment.
Fit(s, outs, pat, gr, repo, root) ==
  /\ s.at = "weigh" => s.proposal \in Proposal
  /\ (s.at = "step" /\ s.state \in {"needs_check_generation", "needs_replay_or_check"}) =>
       s.proposal \in Proposal
  /\ (s.at = "step" /\ s.state = "ready_for_autonomy") =>
       s.proposal \in Proposal /\ "passed" \in outs[s.proposal]
  /\ s.at \notin {"idle", "weigh", "step"} =>
       /\ s.proposal \in Proposal /\ "passed" \in outs[s.proposal]
       /\ s.mode = "autonomous" => "autonomy" \in gr
       /\ s.at \notin {"list", "next"} => s.mode = "autonomous"
       /\ s.at \in {"status", "permission", "write"} => root
       /\ (s.at = "write" \/ (s.at = "permission" /\ repo)) => "repo" \in gr
       /\ (s.at = "ready" /\ R!Min(s.todo) \in Proposal) => pat[R!Min(s.todo)] \in Prepared
       /\ (s.at = "mark" /\ R!Min(s.todo) \in Proposal) => pat[R!Min(s.todo)] \in Past

Reviewed(c) == Fit(step[c], outcomes, patch, granted[c], policy.repo, rooted)

Tables ==
  /\ step = [c \in Caller |-> step[c]] /\ granted = [c \in Caller |-> granted[c]]
  /\ outcomes = [p \in Proposal |-> outcomes[p]]
  /\ proposals = [p \in Proposal |-> proposals[p]] /\ patch \in [Proposal -> Prepared \cup {"none"}]

RoutingInv == Tables /\ \A c \in Caller : Reviewed(c)

\* Check runs are never deleted here, patches never ready again.
Grown ==
  /\ outcomes' = [p \in Proposal |-> outcomes'[p]]
  /\ proposals' = [p \in Proposal |-> proposals'[p]] /\ patch' \in [Proposal -> Prepared \cup {"none"}]
  /\ \A p \in Proposal : outcomes[p] \subseteq outcomes'[p]
  /\ \A p \in Proposal : patch[p] \in Past => patch'[p] \in Past
  /\ \A p \in Proposal : patch[p] \in Prepared => patch'[p] \in Prepared
  /\ rooted' = rooted

\* So what a caller has found stays true, of the policy as granted.
LEMMA FitIsKept ==
  ASSUME NEW s, NEW outs, NEW outs2, NEW pat, NEW pat2, NEW gr, NEW gr2, NEW repo, NEW repo2, NEW root,
         Fit(s, outs, pat, gr, repo, root), gr \subseteq gr2,
         \A p \in Proposal : outs[p] \subseteq outs2[p],
         \A p \in Proposal : pat[p] \in Past => pat2[p] \in Past,
         \A p \in Proposal : pat[p] \in Prepared => pat2[p] \in Prepared,
         (s.at = "permission" /\ repo2) => repo \/ "repo" \in gr2
  PROVE  Fit(s, outs2, pat2, gr2, repo2, root)
BY DEF Fit

LEMMA FitStays ==
  ASSUME Grown, NEW s, NEW gr, Fit(s, outcomes, patch, gr, policy.repo, rooted)
  PROVE  Fit(s, outcomes', patch', gr, policy.repo, rooted)
<1> DEFINE outs == outcomes'  pat == patch'
<1>1. \A p \in Proposal : outcomes[p] \subseteq outs[p]
  BY DEF Grown
<1>2. \A p \in Proposal : patch[p] \in Past => pat[p] \in Past
  BY DEF Grown
<1>3. \A p \in Proposal : patch[p] \in Prepared => pat[p] \in Prepared
  BY DEF Grown
<1>4. Fit(s, outs, pat, gr, policy.repo, rooted)
  <2> HIDE DEF outs, pat
  <2> QED  BY <1>1, <1>2, <1>3, Zenon DEF Fit
<1>5. QED  BY <1>4

\* A caller's own step: the other callers keep what they have.
LEMMA RouteStep ==
  ASSUME RoutingInv, Grown, NEW c \in Caller, NEW next, R!Goto(c, next), policy' = policy,
         NEW gr, granted' = [granted EXCEPT ![c] = gr],
         Fit(next, outcomes', patch', gr, policy.repo, rooted)
  PROVE  RoutingInv'
<1>1. step' = [d \in Caller |-> step'[d]] /\ granted' = [d \in Caller |-> granted'[d]]
  BY DEF RoutingInv, Tables, R!Goto
<1>2. ASSUME NEW d \in Caller  PROVE Reviewed(d)'
  <2>1. CASE d = c
    <3>1. step'[c] = next /\ granted'[c] = gr  BY DEF RoutingInv, Tables, R!Goto
    <3>2. QED  BY <2>1, <3>1 DEF Reviewed, Grown
  <2>2. CASE d # c
    <3>1. step'[d] = step[d] /\ granted'[d] = granted[d]
      BY <2>2 DEF RoutingInv, Tables, R!Goto
    <3>2. Fit(step[d], outcomes, patch, granted[d], policy.repo, rooted)
      BY DEF RoutingInv, Reviewed
    <3>3. Fit(step[d], outcomes', patch', granted[d], policy.repo, rooted)
      BY <3>2, FitStays
    <3>4. QED  BY <3>1, <3>3 DEF Reviewed, Grown
  <2>3. QED  BY <2>1, <2>2
<1>3. QED  BY <1>1, <1>2 DEF RoutingInv, Tables, Grown

\* The same of a step that finds nothing anew in the policy.
LEMMA CallerGoes ==
  ASSUME RoutingInv, Grown, NEW c \in Caller, NEW next, R!Goto(c, next),
         UNCHANGED <<policy, granted>>, Fit(next, outcomes', patch', granted[c], policy.repo, rooted)
  PROVE  RoutingInv'
<1>1. granted' = [granted EXCEPT ![c] = granted[c]]
  BY DEF RoutingInv, Tables
<1>2. QED  BY <1>1, RouteStep

\* A step that ends leaves nothing in hand.
LEMMA ReturnInv ==
  ASSUME RoutingInv, Grown, NEW c \in Caller, R!Return(c), policy' = policy
  PROVE  RoutingInv'
<1>1. Fit(R!Idle, outcomes', patch', {}, policy.repo, rooted)
  BY DEF Fit, R!Idle
<1>2. QED  BY <1>1, RouteStep DEF R!Return

\* Rows that a step leaves alone have grown.
LEMMA RowsKept ==
  ASSUME RoutingInv, UNCHANGED <<proposals, patch, outcomes, rooted>>  PROVE Grown
BY DEF RoutingInv, Tables, Grown

(* A proposal that is pending is there to be weighed.                          *)
LEMMA LookInv ==
  ASSUME RoutingInv, NEW c \in Caller, R!Look(c)  PROVE RoutingInv'
<1>1. Grown /\ UNCHANGED <<policy, granted>>
  BY RowsKept DEF R!Look, R!rows
<1>2. CASE evidence # {} /\ R!LatestActive # None
  <2>1. R!Having("pending") # {} /\ R!LatestActive = R!Max(R!Having("pending"))
    BY <1>2 DEF R!LatestActive, R!Latest
  <2>2. R!LatestActive \in Proposal
    <3>1. R!Having("pending") \subseteq Proposal  BY DEF R!Having
    <3>2. QED  BY <2>1, <3>1, LatestOfSome, ProcessesAssumption DEF R!Max
  <2> DEFINE next == [at |-> "weigh", proposal |-> R!LatestActive]
  <2>3. R!Goto(c, next)  BY <1>2 DEF R!Look
  <2>4. Fit(next, outcomes', patch', granted[c], policy.repo, rooted)  BY <2>2 DEF Fit
  <2>5. QED  BY <1>1, <2>3, <2>4, CallerGoes
<1>3. CASE ~ (evidence # {} /\ R!LatestActive # None)
  <2>1. PICK s \in {"setup_sources", "loop_complete", "needs_analysis", "monitor"} :
          R!Goto(c, R!Routed(s, None, None, FALSE))
    BY <1>3 DEF R!Look, R!WithoutProposal
  <2>2. Fit(R!Routed(s, None, None, FALSE), outcomes', patch', granted[c], policy.repo, rooted)
    BY DEF Fit, R!Routed
  <2>3. QED  BY <1>1, <2>1, <2>2, CallerGoes
<1>4. QED  BY <1>2, <1>3

(* It is ready for autonomy when it has passed a check.                        *)
LEMMA WeighInv ==
  ASSUME RoutingInv, NEW c \in Caller, R!Weigh(c)  PROVE RoutingInv'
<1> DEFINE p    == step[c].proposal
           next == R!Routed(R!Weighed(p), p, policy.mode, policy.repo)
<1>1. Grown /\ UNCHANGED <<policy, granted, outcomes>>
  BY RowsKept DEF R!Weigh, R!rows
<1>2. p \in Proposal
  BY DEF R!Weigh, RoutingInv, Reviewed, Fit
<1>3. R!Goto(c, next)  BY DEF R!Weigh
<1>4. R!Weighed(p) = "ready_for_autonomy" => "passed" \in outcomes[p]
  BY DEF R!Weighed
<1>5. Fit(next, outcomes', patch', granted[c], policy.repo, rooted)
  BY <1>1, <1>2, <1>4 DEF Fit, R!Routed
<1>6. QED  BY <1>1, <1>3, <1>5, CallerGoes

(* A check run is of the proposal in hand, and none is lost.                   *)
LEMMA ReplayAndCheckInv ==
  ASSUME RoutingInv, NEW c \in Caller, NEW status, R!ReplayAndCheck(c, status)
  PROVE  RoutingInv'
<1>1. step[c].proposal \in Proposal
  BY DEF R!ReplayAndCheck, R!Doing, RoutingInv, Reviewed, Fit
<1>2. Grown
  BY <1>1 DEF R!ReplayAndCheck, RoutingInv, Tables, Grown
<1>3. QED  BY <1>2, ReturnInv DEF R!ReplayAndCheck

(* The policy is read anew, and is as granted; the check is not read again.    *)
LEMMA RunAutonomyInv ==
  ASSUME RoutingInv, NEW c \in Caller, R!RunAutonomy(c)  PROVE RoutingInv'
<1>1. Grown /\ UNCHANGED <<policy, outcomes>>
  BY RowsKept DEF R!RunAutonomy, R!rows
<1>2. CASE R!MayRunAutonomy(c)
  <2> DEFINE next == R!Job("list", step[c].proposal, policy.mode, {})
             gr   == R!Grants(policy.mode, policy.repo)
  <2>1. R!Goto(c, next) /\ granted' = [granted EXCEPT ![c] = gr]
    BY <1>2 DEF R!RunAutonomy
  <2>2. step[c].proposal \in Proposal /\ "passed" \in outcomes[step[c].proposal]
    BY DEF R!RunAutonomy, R!Doing, RoutingInv, Reviewed, Fit
  <2>3. policy.mode = "autonomous" => "autonomy" \in gr
    BY DEF R!Grants
  <2>4. Fit(next, outcomes', patch', gr, policy.repo, rooted)
    BY <1>1, <2>2, <2>3 DEF Fit, R!Job
  <2>5. QED  BY <1>1, <2>1, <2>4, RouteStep
<1>3. CASE ~ R!MayRunAutonomy(c)
  BY <1>1, <1>3, ReturnInv DEF R!RunAutonomy
<1>4. QED  BY <1>2, <1>3

\* A caller goes on with its list, or to the next proposal of it.
LEMMA TodoInv ==
  ASSUME RoutingInv, Grown, NEW c \in Caller, UNCHANGED <<policy, granted>>,
         step[c].at \notin {"idle", "weigh", "step"},
         NEW todo, R!Goto(c, R!Job("next", step[c].proposal, step[c].mode, todo))
  PROVE  RoutingInv'
<1> DEFINE next == R!Job("next", step[c].proposal, step[c].mode, todo)
<1>1. Fit(step[c], outcomes, patch, granted[c], policy.repo, rooted)
  BY DEF RoutingInv, Reviewed
<1>2. Fit(step[c], outcomes', patch', granted[c], policy.repo, rooted)
  BY <1>1, FitStays
<1>3. Fit(next, outcomes', patch', granted[c], policy.repo, rooted)
  BY <1>2 DEF Fit, R!Job
<1>4. QED  BY <1>3, CallerGoes

\* A caller at a proposal that it handles under autonomy enters its next stage,
\* with the root, the permission or the patch as that stage expects it.
LEMMA EnterInv ==
  ASSUME RoutingInv, Grown, NEW c \in Caller, policy' = policy,
         step[c].at \notin {"idle", "weigh", "step"}, step[c].mode = "autonomous",
         NEW gr, granted' = [granted EXCEPT ![c] = gr], granted[c] \ {"repo"} \subseteq gr,
         NEW place \in {"prepare", "ready", "status", "permission", "write", "mark"}, R!Enter(c, place),
         place \in {"status", "permission", "write"} => rooted,
         (place = "write" \/ (place = "permission" /\ policy.repo)) => "repo" \in gr,
         (place = "ready" /\ R!Current(c) \in Proposal) => patch'[R!Current(c)] \in Prepared,
         (place = "mark" /\ R!Current(c) \in Proposal) => patch'[R!Current(c)] \in Past
  PROVE  RoutingInv'
<1> DEFINE next == R!Job(place, step[c].proposal, step[c].mode, step[c].todo)
<1>1. /\ step[c].proposal \in Proposal /\ "passed" \in outcomes[step[c].proposal]
      /\ "autonomy" \in granted[c]
  BY DEF RoutingInv, Reviewed, Fit
<1>2. "passed" \in outcomes'[step[c].proposal] /\ "autonomy" \in gr
  BY <1>1 DEF Grown
<1>3. Fit(next, outcomes', patch', gr, policy.repo, rooted)
  BY <1>1, <1>2 DEF Fit, R!Job, R!Current
<1>4. R!Goto(c, next)  BY DEF R!Enter
<1>5. QED  BY <1>3, <1>4, RouteStep

LEMMA Autonomous ==
  ASSUME RoutingInv, NEW c \in Caller, step[c].at \notin {"idle", "weigh", "step", "list", "next"}
  PROVE  step[c].mode = "autonomous" /\ "autonomy" \in granted[c]
         /\ step[c].proposal \in Proposal /\ "passed" \in outcomes[step[c].proposal]
BY DEF RoutingInv, Reviewed, Fit

(* A patch is written with the root there and a permission that was there when *)
(* it was read, and is marked when there is none left to write.                *)
LEMMA HarnessInv ==
  ASSUME RoutingInv, NEW c \in Caller,
         \/ R!TakeUp(c) \/ R!Prepare(c) \/ R!FindReady(c) \/ R!ReadStatus(c)
         \/ R!ReadPermission(c) \/ R!WritePatch(c)
  PROVE  RoutingInv'
<1> DEFINE q == R!Current(c)
<1>0. granted = [granted EXCEPT ![c] = granted[c]]
  BY DEF RoutingInv, Tables
<1>1. CASE R!TakeUp(c)
  <2>1. Grown /\ UNCHANGED <<policy, granted, patch>> /\ step[c].at = "next" /\ step[c].mode = "autonomous"
    BY <1>1, RowsKept DEF R!TakeUp, R!At, R!rows
  <2>2. R!Enter(c, "prepare") \/ (R!Enter(c, "ready") /\ patch[q] # "none")
    BY <1>1 DEF R!TakeUp
  <2>3. (q \in Proposal /\ patch[q] # "none") => patch'[q] \in Prepared
    BY <2>1 DEF RoutingInv, Tables
  <2>4. QED  BY <1>0, <2>1, <2>2, <2>3, EnterInv
<1>2. CASE R!Prepare(c)
  <2>1. patch' = [patch EXCEPT ![q] = "ready"] /\ patch[q] = "none"
    BY <1>2 DEF R!Prepare
  <2>2. UNCHANGED <<policy, granted, outcomes, proposals, rooted>> /\ step[c].at = "prepare" /\ R!Enter(c, "ready")
    BY <1>2 DEF R!Prepare, R!At
  <2>3. Grown /\ (q \in Proposal => patch'[q] \in Prepared)
    BY <2>1, <2>2 DEF RoutingInv, Tables, Grown, Past, Prepared
  <2>4. QED  BY <1>0, <2>2, <2>3, Autonomous, EnterInv
<1>3. CASE R!FindReady(c)
  <2>1. Grown /\ UNCHANGED <<policy, granted, patch>> /\ step[c].at = "ready" /\ rooted
    BY <1>3, RowsKept DEF R!FindReady, R!At, R!rows
  <2>2. R!Enter(c, "status") \/ (R!Enter(c, "mark") /\ patch[q] # "ready")  BY <1>3 DEF R!FindReady
  <2>3. q \in Proposal => patch[q] \in Prepared
    BY <2>1 DEF RoutingInv, Reviewed, Fit, R!Current
  <2>4. (q \in Proposal /\ patch[q] # "ready") => patch'[q] \in Past
    BY <2>1, <2>3 DEF Prepared
  <2>5. QED  BY <1>0, <2>1, <2>2, <2>4, Autonomous, EnterInv
<1>4. CASE R!ReadStatus(c)
  <2> DEFINE gr == (granted[c] \ {"repo"}) \cup R!Grants("hitl", policy.repo)
  <2>1. Grown /\ UNCHANGED policy /\ step[c].at = "status" /\ R!Enter(c, "permission")
    BY <1>4, RowsKept DEF R!ReadStatus, R!At, R!rows
  <2>2. granted' = [granted EXCEPT ![c] = gr] /\ rooted
    BY <1>4, <2>1 DEF R!ReadStatus, RoutingInv, Reviewed, Fit
  <2>3. policy.repo => "repo" \in gr  BY DEF R!Grants
  <2>4. QED  BY <2>1, <2>2, <2>3, Autonomous, EnterInv
<1>5. CASE R!ReadPermission(c)
  <2>1. Grown /\ UNCHANGED <<policy, granted>> /\ step[c].at = "permission" /\ R!Enter(c, "write") /\ policy.repo
    BY <1>5, RowsKept DEF R!ReadPermission, R!At, R!rows
  <2>2. rooted /\ "repo" \in granted[c]
    BY <2>1 DEF RoutingInv, Reviewed, Fit
  <2>3. QED  BY <1>0, <2>1, <2>2, Autonomous, EnterInv
<1>6. CASE R!WritePatch(c)
  <2>1. patch' = [patch EXCEPT ![q] = "applied"]
    BY <1>6 DEF R!WritePatch
  <2>2. UNCHANGED <<policy, granted, outcomes, proposals, rooted>> /\ step[c].at = "write" /\ R!Enter(c, "mark")
    BY <1>6 DEF R!WritePatch, R!At
  <2>3. Grown /\ (q \in Proposal => patch'[q] \in Past)
    BY <2>1, <2>2 DEF RoutingInv, Tables, Grown, Past, Prepared
  <2>4. QED  BY <1>0, <2>2, <2>3, Autonomous, EnterInv
<1>7. QED  BY <1>1, <1>2, <1>3, <1>4, <1>5, <1>6

\* The other steps over the proposals: the next one is in hand, or none is.
LEMMA OnwardInv ==
  ASSUME RoutingInv, NEW c \in Caller,
         R!ListPending(c) \/ R!Skip(c) \/ R!ApplyContext(c) \/ R!MarkApplied(c)
  PROVE  RoutingInv'
<1>1. UNCHANGED <<policy, granted, outcomes, patch, rooted>>
  BY DEF R!ListPending, R!Skip, R!ApplyContext, R!MarkApplied, R!rows
<1>2. proposals' = [p \in Proposal |-> proposals'[p]]
  BY DEF R!ListPending, R!Skip, R!ApplyContext, R!MarkApplied, R!rows, RoutingInv, Tables
<1>3. Grown  BY <1>1, <1>2 DEF RoutingInv, Tables, Grown
<1>4. step[c].at \notin {"idle", "weigh", "step"}
  BY DEF R!ListPending, R!Skip, R!ApplyContext, R!MarkApplied, R!At
<1>5. PICK todo : R!Goto(c, R!Job("next", step[c].proposal, step[c].mode, todo))
  BY DEF R!ListPending, R!Skip, R!ApplyContext, R!MarkApplied, R!NextProposal
<1>6. QED  BY <1>1, <1>3, <1>4, <1>5, TodoInv

\* Whoever is not a caller leaves what callers have in hand.
LEMMA OthersInv ==
  ASSUME RoutingInv, Grown, UNCHANGED <<step, granted, policy>>  PROVE RoutingInv'
<1>1. ASSUME NEW c \in Caller  PROVE Reviewed(c)'
  <2>1. Fit(step[c], outcomes, patch, granted[c], policy.repo, rooted)
    BY DEF RoutingInv, Reviewed
  <2>2. Fit(step[c], outcomes', patch', granted[c], policy.repo, rooted)
    BY <2>1, FitStays
  <2>3. QED  BY <2>2 DEF Reviewed, Grown
<1>2. QED  BY <1>1 DEF RoutingInv, Tables, Grown

\* What the owner grants anew is granted to every caller that is under way.
LEMMA UpdatePolicyInv ==
  ASSUME RoutingInv, NEW mode, NEW repo, R!UpdatePolicy(mode, repo)  PROVE RoutingInv'
<1>1. Grown /\ UNCHANGED <<step, outcomes, patch, rooted>>
  BY RowsKept DEF R!UpdatePolicy
<1>2. granted' = [c \in Caller |->
        IF R!Running(c) THEN granted[c] \cup R!Grants(mode, repo) ELSE granted[c]]
  BY DEF R!UpdatePolicy
<1>3. policy'.repo = repo  BY DEF R!UpdatePolicy
<1>4. ASSUME NEW c \in Caller  PROVE Reviewed(c)'
  <2>1. Fit(step[c], outcomes, patch, granted[c], policy.repo, rooted)
    BY DEF RoutingInv, Reviewed
  <2>2. granted[c] \subseteq granted'[c]  BY <1>2
  <2>3. (step[c].at = "permission" /\ repo) => "repo" \in granted'[c]
    BY <1>2 DEF R!Running, R!Grants
  <2>4. Fit(step[c], outcomes, patch, granted'[c], repo, rooted)
    BY <2>1, <2>2, <2>3, FitIsKept
  <2>5. QED  BY <1>1, <1>3, <2>4 DEF Reviewed
<1>5. QED  BY <1>1, <1>2, <1>4 DEF RoutingInv, Tables, Grown

\* What humans do to patches and proposals keeps what was found of them.
LEMMA HumansInv ==
  ASSUME RoutingInv,
         \/ \E status \in RunStatus : R!Import(status)
         \/ \E p \in Proposal :
              \/ \E section \in Section : R!Submit(p, section)
              \/ R!Decide(p, "pending", "applied") \/ R!Decide(p, "applied", "rolled_back")
              \/ R!PrepareByHand(p) \/ R!PatchByHand(p) \/ R!RollBackPatch(p) \/ R!MarkByHand(p)
  PROVE  RoutingInv'
<1>1. UNCHANGED <<step, granted, policy, outcomes, rooted>>
  BY DEF R!Import, R!Submit, R!Decide, R!PrepareByHand, R!PatchByHand, R!RollBackPatch, R!MarkByHand
<1>2. proposals' = [p \in Proposal |-> proposals'[p]]
  BY DEF R!Import, R!Submit, R!Decide, R!PrepareByHand, R!PatchByHand, R!RollBackPatch, R!MarkByHand,
         RoutingInv, Tables
<1>3. \/ patch' = patch
      \/ \E p \in Proposal : \/ patch' = [patch EXCEPT ![p] = "ready"] /\ patch[p] = "none"
                             \/ patch' = [patch EXCEPT ![p] = "applied"]
                             \/ patch' = [patch EXCEPT ![p] = "rolled_back"]
  BY DEF R!Import, R!Submit, R!Decide, R!PrepareByHand, R!PatchByHand, R!RollBackPatch, R!MarkByHand
<1>4. Grown  BY <1>1, <1>2, <1>3 DEF RoutingInv, Tables, Grown, Past, Prepared
<1>5. QED  BY <1>1, <1>4, OthersInv

(* Every step of a caller, and of everybody else.                              *)
LEMMA RoutingNextInv ==
  ASSUME RoutingInv, [R!Next]_(R!vars)  PROVE RoutingInv'
<1>1. CASE UNCHANGED R!vars
  BY <1>1, RowsKept, OthersInv DEF R!vars
<1>2. ASSUME NEW c \in Caller,
             R!Nothing(c) \/ R!Analyze(c) \/ R!GenerateChecks(c) \/ R!AutonomyIsDone(c) \/ R!Die(c)
      PROVE  RoutingInv'
  <2>1. UNCHANGED <<proposals, patch, outcomes, policy, rooted>> /\ R!Return(c)
    BY <1>2 DEF R!Nothing, R!Analyze, R!GenerateChecks, R!AutonomyIsDone, R!Die, R!rows
  <2>2. QED  BY <2>1, RowsKept, ReturnInv
<1>3. QED
  BY <1>1, <1>2, HumansInv, UpdatePolicyInv, LookInv, WeighInv, ReplayAndCheckInv, RunAutonomyInv,
     OnwardInv, HarnessInv, Zenon DEF R!Next

\* Which steps of a caller change the rows of proposals and patches.
LEMMA StepIsReviewed ==
  ASSUME RoutingInv, R!Next, NEW c \in Caller, NEW p \in Proposal, step'[c] # step[c]
  PROVE  /\ (proposals'[p] # proposals[p] \/ patch'[p] # patch[p]) =>
              "autonomy" \in granted[c] /\ "passed" \in outcomes[step[c].proposal]
         /\ (patch'[p] # patch[p] /\ patch'[p] = "applied") => "repo" \in granted[c] /\ rooted
         /\ (proposals'[p] # proposals[p] /\ R!Of(p, "harness")) => patch[p] \in Past
<1>1. CASE UNCHANGED <<proposals, patch>>
  BY <1>1
<1>2. CASE ~ UNCHANGED <<proposals, patch>>
  <2>1. PICK d \in Caller : R!ApplyContext(d) \/ R!Prepare(d) \/ R!WritePatch(d) \/ R!MarkApplied(d)
    BY <1>2 DEF R!Next, R!Import, R!Submit, R!Decide, R!PrepareByHand, R!PatchByHand, R!RollBackPatch,
         R!MarkByHand, R!UpdatePolicy, R!Look, R!Weigh, R!Nothing, R!Analyze, R!GenerateChecks,
         R!ReplayAndCheck, R!RunAutonomy, R!ListPending, R!AutonomyIsDone, R!Skip, R!TakeUp,
         R!FindReady, R!ReadStatus, R!ReadPermission, R!Die, R!rows
  <2>2. d = c
    BY <2>1 DEF R!ApplyContext, R!Prepare, R!WritePatch, R!MarkApplied, R!NextProposal, R!Enter,
                R!Goto, RoutingInv, Tables
  <2>3. CASE R!ApplyContext(c)
    <3>1. /\ step[c].at = "next" /\ step[c].mode = "autonomous" /\ patch' = patch
          /\ proposals' = [proposals EXCEPT ![R!Current(c)].state = "applied"]
          /\ R!Of(R!Current(c), "context")
      BY <2>3 DEF R!ApplyContext, R!At
    <3>2. "autonomy" \in granted[c] /\ "passed" \in outcomes[step[c].proposal]
      BY <3>1 DEF RoutingInv, Reviewed, Fit
    <3>3. proposals'[p] # proposals[p] => p = R!Current(c)
      BY <3>1 DEF RoutingInv, Tables
    <3>4. QED  BY <3>1, <3>2, <3>3 DEF R!Of
  <2>4. CASE R!Prepare(c)
    <3>1. step[c].at = "prepare" /\ proposals' = proposals /\ patch' = [patch EXCEPT ![R!Current(c)] = "ready"]
      BY <2>4 DEF R!Prepare, R!At
    <3>2. patch'[p] # patch[p] => patch'[p] = "ready"
      BY <3>1 DEF RoutingInv, Tables
    <3>3. QED  BY <3>1, <3>2, Autonomous
  <2>5. CASE R!WritePatch(c)
    <3>1. step[c].at = "write" /\ proposals' = proposals
      BY <2>5 DEF R!WritePatch, R!At
    <3>2. "repo" \in granted[c] /\ rooted
      BY <3>1 DEF RoutingInv, Reviewed, Fit
    <3>3. QED  BY <3>1, <3>2, Autonomous
  <2>6. CASE R!MarkApplied(c)
    <3>1. step[c].at = "mark" /\ patch' = patch
          /\ proposals' = [proposals EXCEPT ![R!Current(c)].state = "applied"]
      BY <2>6 DEF R!MarkApplied, R!At
    <3>2. proposals'[p] # proposals[p] => p = R!Current(c)
      BY <3>1 DEF RoutingInv, Tables
    <3>3. p = R!Current(c) => patch[p] \in Past
      BY <3>1 DEF RoutingInv, Reviewed, Fit, R!Current
    <3>4. QED  BY <3>1, <3>2, <3>3, Autonomous
  <2>7. QED  BY <2>1, <2>2, <2>3, <2>4, <2>5, <2>6
<1>3. QED  BY <1>1, <1>2

(* What a step of a profile changes of a proposal, it changes under an autonomy *)
(* that was granted and after a check of the proposal it was routed to passed;  *)
(* it writes a patch under a permission that was there since it read its row,   *)
(* and marks no proposal whose patch is still to be written                     *)
(* (run_profile_next_step, run_autonomy, apply_patch_transaction), for any      *)
(* callers and proposals, whatever changed since the rows were read.            *)
THEOREM ReviewIsNotReplacedAlways ==
  R!Init /\ [][R!Next]_(R!vars) => ReviewIsNotReplaced
<1>1. R!Init => RoutingInv
  BY DEF R!Init, R!Idle, RoutingInv, Tables, Reviewed, Fit
<1>2. RoutingInv /\ [R!Next]_(R!vars) =>
        [\A c \in Caller, p \in Proposal :
           /\ (step'[c] # step[c] /\ (proposals'[p] # proposals[p] \/ patch'[p] # patch[p])) =>
                "autonomy" \in granted[c] /\ "passed" \in outcomes[step[c].proposal]
           /\ (step'[c] # step[c] /\ patch'[p] # patch[p] /\ patch'[p] = "applied") =>
                "repo" \in granted[c] /\ rooted
           /\ (step'[c] # step[c] /\ proposals'[p] # proposals[p] /\ R!Of(p, "harness")) =>
                patch[p] \in {"applied", "rolled_back"}]_(R!vars)
  BY StepIsReviewed DEF Past
<1>3. QED
  BY <1>1, <1>2, RoutingNextInv, PTL DEF ReviewIsNotReplaced, R!ReviewIsNotReplaced

--------------------------------------------------------------------------------
(* Turns: where a turn is says what it has written and what its row says:      *)
(* nothing and "running" while the process may still be asked again, exactly   *)
(* the entries it keeps in hand while it surfaces findings, one proposal       *)
(* between the insertion and the row.  Other turns can neither take an entry   *)
(* away nor write under its name.                                              *)

\* What a turn left in the skillbook and among the proposals.
WroteOf(t) == {e \in Entries : O!Exists(e) /\ t \in entries[e].by}
MadeOf(t) == {p \in submitted : p.by = t}

Sound(f) ==
  /\ f \in Finding /\ f.spans \subseteq spans
  /\ f.op # "add" => f.target \in Entries /\ entries[f.target] # None

Store ==
  /\ spans \subseteq Span /\ entries \in [Entries -> Entry \cup {None}]
  /\ \A e \in Entries : entries[e] # None => entries[e].spans \subseteq spans
  /\ turns = [t \in Turn |-> turns[t]] /\ process = [t \in Turn |-> process[t]]

Nothing(t) == WroteOf(t) = {} /\ MadeOf(t) = {}

Asks(t) ==
  LET h == process[t]
  IN  /\ h = [at |-> "run", kind |-> h.kind, entry |-> h.entry, attempt |-> h.attempt]
      /\ h.attempt \in 1..(MaxRetries + 1) /\ h.kind \in {"diagnosis", "proposal"}
      /\ h.kind = "proposal" => h.entry \in Entries
      /\ turns[t] = O!Row(h.kind) /\ Nothing(t)

Surfaces(t) ==
  LET h == process[t]
  IN  /\ turns[t] \in {O!Row("diagnosis"), O!Row("mock")}
      /\ WroteOf(t) = h.wrote /\ MadeOf(t) = {}
      /\ h.todo \in Seq(Finding) /\ \A i \in 1..Len(h.todo) : Sound(h.todo[i])

Writes(t) ==
  LET h == process[t]
  IN  /\ Surfaces(t) /\ h.todo # <<>> /\ h.read \subseteq spans
      /\ h.into # None => h.into \in Entries /\ entries[h.into] # None

Submits(t) ==
  LET h == process[t]
  IN  /\ h = [at |-> "submit", entry |-> h.entry, payload |-> h.payload]
      /\ turns[t] = O!Row("proposal") /\ Nothing(t)

Links(t) ==
  /\ turns[t] = O!Row("proposal") /\ WroteOf(t) = {}
  /\ \E p : MadeOf(t) = {p} /\ p.id = process[t].payload.id

Ends(t) ==
  turns[t] # None =>
    LET row == turns[t]
    IN  /\ row.status = "failed" =>
             /\ Nothing(t)
             /\ (row.kind = "diagnosis" /\ row.error = "invalid_output") => row.attempts = MaxRetries + 1
        /\ row.status = "succeeded" =>
             /\ WroteOf(t) = row.issues /\ \A p \in MadeOf(t) : p.id = row.proposal
             /\ row.kind = "proposal" <=> MadeOf(t) # {}
        /\ \E p : MadeOf(t) \subseteq {p}

InHand(t) ==
  LET at == process[t].at
  IN  /\ at \in {"idle", "run", "surface", "write", "submit", "link", "ended"}
      /\ at = "idle" => turns[t] = None /\ Nothing(t)
      /\ at = "run" => Asks(t)
      /\ at = "surface" => Surfaces(t)
      /\ at = "write" => Writes(t)
      /\ at = "submit" => Submits(t)
      /\ at = "link" => Links(t)
      /\ at = "ended" => Ends(t)

TurnInv == Store /\ \A t \in Turn : InHand(t)

\* A turn goes on: nothing is unlearned, and other turns keep what is theirs.
LEMMA TurnStep ==
  ASSUME TurnInv, NEW t \in Turn, Store', InHand(t)',
         spans \subseteq spans',
         \A e \in Entries : entries[e] # None => entries'[e] # None,
         \A u \in Turn \ {t} :
           /\ process'[u] = process[u] /\ turns'[u] = turns[u]
           /\ WroteOf(u)' = WroteOf(u) /\ MadeOf(u)' = MadeOf(u)
  PROVE  TurnInv'
<1> SUFFICES ASSUME NEW u \in Turn \ {t}  PROVE InHand(u)'
  BY DEF TurnInv
<1>1. InHand(u) /\ process'[u] = process[u] /\ turns'[u] = turns[u]
      /\ WroteOf(u)' = WroteOf(u) /\ MadeOf(u)' = MadeOf(u)
  BY DEF TurnInv
<1>2. \A f : Sound(f) => Sound(f)'
  BY DEF Sound
<1>3. Asks(u) => Asks(u)'  BY <1>1 DEF Asks, Nothing
<1>4. Surfaces(u) => Surfaces(u)'  BY <1>1, <1>2 DEF Surfaces
<1>5. Writes(u) => Writes(u)'
  <2> HAVE Writes(u)
  <2>1. Surfaces(u)'  BY <1>4 DEF Writes
  <2>2. QED  BY <2>1, <1>1 DEF Writes
<1>6. Submits(u) => Submits(u)'  BY <1>1 DEF Submits, Nothing
<1>7. Links(u) => Links(u)'  BY <1>1 DEF Links
<1>8. Ends(u) => Ends(u)'  BY <1>1 DEF Ends, Nothing
<1>9. QED
  BY <1>1, <1>3, <1>4, <1>5, <1>6, <1>7, <1>8 DEF InHand, Nothing

\* Everybody else only adds evidence, and changes no entry's spans or authors.
LEMMA OthersStep ==
  ASSUME TurnInv, Store', UNCHANGED <<turns, process, submitted>>, spans \subseteq spans',
         \A e \in Entries : entries[e] # None => entries'[e] # None,
         \A e \in Entries : entries'[e] # None => entries[e] # None /\ entries'[e].by = entries[e].by
  PROVE  TurnInv'
<1>1. \A u \in Turn : WroteOf(u)' = WroteOf(u) /\ MadeOf(u)' = MadeOf(u)
  BY DEF WroteOf, MadeOf, O!Exists
<1>2. \A f : Sound(f) => Sound(f)'
  BY DEF Sound
<1> SUFFICES ASSUME NEW u \in Turn  PROVE InHand(u)'
  BY DEF TurnInv
<1>3. Asks(u) => Asks(u)'  BY <1>1 DEF Asks, Nothing
<1>4. Surfaces(u) => Surfaces(u)'  BY <1>1, <1>2 DEF Surfaces
<1>5. Writes(u) => Writes(u)'
  <2> HAVE Writes(u)
  <2>1. Surfaces(u)'  BY <1>4 DEF Writes
  <2>2. QED  BY <2>1 DEF Writes
<1>6. Submits(u) => Submits(u)'  BY <1>1 DEF Submits, Nothing
<1>7. Links(u) => Links(u)'  BY <1>1 DEF Links
<1>8. Ends(u) => Ends(u)'  BY <1>1 DEF Ends, Nothing
<1>9. QED
  BY <1>1, <1>3, <1>4, <1>5, <1>6, <1>7, <1>8 DEF TurnInv, InHand, Nothing

\* The same entries, proposals and spans: a step of the turn alone.
LEMMA AloneStep ==
  ASSUME TurnInv, NEW t \in Turn, UNCHANGED <<spans, entries, submitted>>,
         NEW next, O!Goto(t, next),
         turns' = [u \in Turn |-> turns'[u]], \A u \in Turn \ {t} : turns'[u] = turns[u],
         InHand(t)'
  PROVE  TurnInv'
<1>1. Store' /\ \A u \in Turn \ {t} : process'[u] = process[u]
  BY DEF TurnInv, Store, O!Goto
<1>2. \A u \in Turn : WroteOf(u)' = WroteOf(u) /\ MadeOf(u)' = MadeOf(u)
  BY DEF WroteOf, MadeOf, O!Exists
<1>3. QED
  BY <1>1, <1>2, TurnStep

(* More evidence.                                                              *)
LEMMA IngestInv ==
  ASSUME TurnInv, NEW s \in Span, O!Ingest(s)  PROVE TurnInv'
<1>1. Store' /\ spans \subseteq spans'  BY DEF TurnInv, Store, O!Ingest
<1>2. QED  BY <1>1, OthersStep DEF O!Ingest

(* An entry that is dismissed, or becomes active, cites and is of what it was. *)
LEMMA DismissInv ==
  ASSUME TurnInv, NEW e \in Entries, O!Dismiss(e) \/ O!Activate(e)  PROVE TurnInv'
<1>1. entries[e] # None /\ entries[e] \in Entry
  BY DEF O!Dismiss, O!Activate, O!Exists, TurnInv, Store
<1>2. PICK row \in Entry : row.spans = entries[e].spans /\ row.by = entries[e].by
                           /\ entries' = [entries EXCEPT ![e] = row]
  <2>1. CASE O!Dismiss(e)
    <3> DEFINE row == [entries[e] EXCEPT !.dismissed = TRUE]
    <3>1. row \in Entry /\ row.spans = entries[e].spans /\ row.by = entries[e].by
      BY <1>1 DEF Entry
    <3>2. entries' = [entries EXCEPT ![e] = row]  BY <2>1 DEF O!Dismiss
    <3>3. QED  BY <3>1, <3>2
  <2>2. CASE O!Activate(e)
    <3> DEFINE row == [entries[e] EXCEPT !.active = TRUE]
    <3>1. row \in Entry /\ row.spans = entries[e].spans /\ row.by = entries[e].by
      BY <1>1 DEF Entry
    <3>2. entries' = [entries EXCEPT ![e] = row]  BY <2>2 DEF O!Activate
    <3>3. QED  BY <3>1, <3>2
  <2>3. QED  BY <2>1, <2>2
<1>3. UNCHANGED <<spans, submitted, turns, process>>
  BY DEF O!Dismiss, O!Activate
<1>4. row # None  BY <1>2, AnswersAssumption DEF Entry
<1>5. Store'  BY <1>1, <1>2, <1>3, <1>4 DEF TurnInv, Store
<1>6. \A d \in Entries : /\ entries[d] # None => entries'[d] # None
                         /\ entries'[d] # None => entries[d] # None /\ entries'[d].by = entries[d].by
  BY <1>1, <1>2, <1>4 DEF TurnInv, Store
<1>7. QED  BY <1>3, <1>5, <1>6, OthersStep

\* The rows of the turns are a table, and a row that is set is set.
LEMMA SetTurn ==
  ASSUME Store, NEW t \in Turn, NEW row, turns' = [turns EXCEPT ![t] = row]
  PROVE  /\ turns' = [u \in Turn |-> turns'[u]] /\ turns'[t] = row
         /\ \A u \in Turn \ {t} : turns'[u] = turns[u]
BY DEF Store

(* The process of a turn goes on.                                              *)
LEMMA SetProcess ==
  ASSUME Store, NEW t \in Turn, NEW next, O!Goto(t, next)
  PROVE  process'[t] = next
BY DEF Store, O!Goto

(* A turn begins with its row and nothing written.                             *)
LEMMA BeginInv ==
  ASSUME TurnInv, NEW t \in Turn, NEW kind \in {"diagnosis", "proposal"},
         NEW entry, kind = "proposal" => entry \in Entries, NEW adapted, O!Begin(t, kind, entry, adapted)
  PROVE  TurnInv'
<1> DEFINE next == [at |-> "run", kind |-> kind, entry |-> entry, attempt |-> 1]
<1>1. turns'[t] = O!Row(kind) /\ turns' = [u \in Turn |-> turns'[u]]
      /\ \A u \in Turn \ {t} : turns'[u] = turns[u]
  BY SetTurn DEF O!Begin, TurnInv
<1>2. O!Goto(t, next) /\ process'[t] = next /\ UNCHANGED <<spans, entries, submitted>>
  BY SetProcess DEF O!Begin, O!skillbook, TurnInv
<1>3. Nothing(t)  BY DEF O!Begin, O!Idle, TurnInv, InHand
<1>4. Nothing(t)'  BY <1>2, <1>3 DEF Nothing, WroteOf, MadeOf, O!Exists
<1>5. Asks(t)'  BY <1>1, <1>2, <1>4, AnswersAssumption DEF Asks
<1>6. InHand(t)'  BY <1>2, <1>5 DEF InHand
<1>7. QED  BY <1>1, <1>2, <1>6, AloneStep

(* The built-in operator finds the span that failed, or fails.                 *)
LEMMA BeginMockInv ==
  ASSUME TurnInv, NEW t \in Turn, O!BeginMock(t)  PROVE TurnInv'
<1>1. Nothing(t) /\ UNCHANGED <<spans, entries, submitted>>
  BY DEF O!BeginMock, O!Idle, O!skillbook, TurnInv, InHand
<1>2. WroteOf(t)' = {} /\ MadeOf(t)' = {}  BY <1>1 DEF Nothing, WroteOf, MadeOf, O!Exists
<1>3. CASE turns' = [turns EXCEPT ![t] = [O!Row("mock") EXCEPT !.status = "failed", !.error = "no_failed_span"]]
           /\ O!Goto(t, O!Ended)
  <2>1. turns'[t].status = "failed" /\ turns'[t].kind = "mock"
    BY <1>3, SetTurn DEF O!Row, TurnInv
  <2>2. process'[t].at = "ended"  BY <1>3, SetProcess DEF O!Ended, TurnInv
  <2>3. Ends(t)'  BY <1>2, <2>1 DEF Ends, Nothing
  <2>4. InHand(t)'  BY <2>2, <2>3 DEF InHand
  <2>5. QED  BY <1>1, <1>3, <2>4, SetTurn, AloneStep DEF TurnInv
<1>4. ASSUME NEW s \in spans \cap FailedSpan, turns' = [turns EXCEPT ![t] = O!Row("mock")],
             O!Goto(t, [at |-> "surface", attempt |-> 0, wrote |-> {},
                        todo |-> <<[op |-> "add", target |-> None, signature |-> s, spans |-> {s}]>>])
      PROVE  TurnInv'
  <2> DEFINE f == [op |-> "add", target |-> None, signature |-> s, spans |-> {s}]
  <2>1. f \in Finding /\ f.spans \subseteq spans /\ f.op = "add"
    BY AnswersAssumption DEF Finding, TurnInv, Store
  <2>2. Sound(f)'  BY <2>1, <1>1 DEF Sound
  <2>3. turns'[t] = O!Row("mock")  BY <1>4, SetTurn DEF TurnInv
  <2>4. process'[t] = [at |-> "surface", attempt |-> 0, wrote |-> {}, todo |-> <<f>>]
    BY <1>4, SetProcess DEF TurnInv
  <2> HIDE DEF f
  <2>5. <<f>> \in Seq(Finding) /\ Len(<<f>>) = 1 /\ <<f>>[1] = f  BY <2>1
  <2>6. Surfaces(t)'  BY <1>2, <2>2, <2>3, <2>4, <2>5 DEF Surfaces
  <2>7. InHand(t)'  BY <2>4, <2>6 DEF InHand
  <2>8. QED  BY <1>1, <1>4, <2>7, SetTurn, AloneStep DEF TurnInv
<1>5. QED  BY <1>3, <1>4 DEF O!BeginMock

(* A turn that has left nothing behind fails.                                  *)
LEMMA FailsInv ==
  ASSUME TurnInv, NEW t \in Turn, NEW kind, turns[t] = O!Row(kind), Nothing(t), NEW error, O!Fails(t, error),
         (kind = "diagnosis" /\ error = "invalid_output") => process[t].attempt = MaxRetries + 1
  PROVE  TurnInv'
<1> DEFINE n == IF turns[t].kind = "diagnosis" THEN process[t].attempt ELSE 0
           row == [turns[t] EXCEPT !.status = "failed", !.error = error, !.attempts = n]
<1>1. turns' = [turns EXCEPT ![t] = row]
  BY DEF O!Fails, O!Update, TurnInv, Store
<1>2. row.status = "failed" /\ row.error = error /\ row.attempts = n /\ row.kind = kind
  <2> HIDE DEF n
  <2>1. QED  BY DEF O!Row
<1>3. turns[t].kind = kind  BY DEF O!Row
<1>4. UNCHANGED <<spans, entries, submitted>> /\ O!Goto(t, O!Ended)
  BY DEF O!Fails, O!skillbook
<1>5. Nothing(t)'  BY <1>4 DEF Nothing, WroteOf, MadeOf, O!Exists
<1> HIDE DEF row
<1>6. turns'[t] = row  BY <1>1, SetTurn DEF TurnInv
<1>7. Ends(t)'  BY <1>2, <1>3, <1>5, <1>6 DEF Ends, Nothing
<1>8. process'[t].at = "ended"  BY <1>4, SetProcess DEF O!Ended, TurnInv
<1>9. InHand(t)'  BY <1>7, <1>8 DEF InHand
<1>10. QED  BY <1>1, <1>4, <1>9, SetTurn, AloneStep DEF TurnInv

(* What is no valid output is asked for again, or is the last of its retries.  *)
LEMMA RejectsInv ==
  ASSUME TurnInv, NEW t \in Turn, process[t].at = "run", NEW error, O!Rejects(t, error)
  PROVE  TurnInv'
<1>1. Asks(t)  BY DEF TurnInv, InHand
<1> DEFINE k == process[t].attempt
<1>2. k \in 1..(MaxRetries + 1) /\ MaxRetries \in Nat  BY <1>1, AnswersAssumption DEF Asks
<1>3. CASE k <= MaxRetries
  <2> DEFINE next == [process[t] EXCEPT !.attempt = @ + 1]
  <2>1. O!Goto(t, next) /\ UNCHANGED <<spans, entries, submitted, turns>>
    BY <1>3 DEF O!Rejects, O!skillbook
  <2>2. next = [at |-> "run", kind |-> process[t].kind, entry |-> process[t].entry, attempt |-> k + 1]
    BY <1>1 DEF Asks
  <2>3. process'[t] = next  BY <2>1, SetProcess DEF TurnInv
  <2>4. Nothing(t)'  BY <1>1, <2>1 DEF Asks, Nothing, WroteOf, MadeOf, O!Exists
  <2>5. k + 1 \in 1..(MaxRetries + 1)  BY <1>2, <1>3
  <2>6. Asks(t)'  BY <1>1, <2>1, <2>2, <2>3, <2>4, <2>5 DEF Asks
  <2>7. InHand(t)'  BY <2>2, <2>3, <2>6 DEF InHand
  <2>8. QED  BY <2>1, <2>7, AloneStep DEF TurnInv, Store
<1>4. CASE ~ (k <= MaxRetries)
  <2>1. O!Fails(t, error)  BY <1>4 DEF O!Rejects
  <2>2. k = MaxRetries + 1  BY <1>2, <1>4
  <2>3. QED  BY <1>1, <2>1, <2>2, FailsInv DEF Asks
<1>5. QED  BY <1>3, <1>4

(* The process failed.                                                         *)
LEMMA ProcessFailsInv ==
  ASSUME TurnInv, NEW t \in Turn, NEW answer \in Answers, O!ProcessFails(t, answer)
  PROVE  TurnInv'
<1>1. Asks(t) /\ O!Fails(t, answer.how) /\ answer.how # "invalid_output"
  BY DEF O!ProcessFails, TurnInv, InHand
<1>2. QED  BY <1>1, FailsInv DEF Asks

(* Its output is no block of JSON.                                             *)
LEMMA GarbageInv ==
  ASSUME TurnInv, NEW t \in Turn, NEW answer \in Answers, O!Garbage(t, answer)
  PROVE  TurnInv'
BY RejectsInv DEF O!Garbage

(* Findings are surfaced when all of them are sound.                           *)
LEMMA FindsInv ==
  ASSUME TurnInv, NEW t \in Turn, NEW answer \in Answers, O!Finds(t, answer)
  PROVE  TurnInv'
<1>1. Asks(t) /\ process[t].at = "run" /\ process[t].kind = "diagnosis"
  BY DEF O!Finds, O!Running, TurnInv, InHand
<1>2. CASE O!Accepts(answer.findings)
  <2> DEFINE todo == answer.findings
             next == [at |-> "surface", attempt |-> process[t].attempt, wrote |-> {}, todo |-> todo]
  <2>1. O!Goto(t, next) /\ UNCHANGED <<spans, entries, submitted, turns>>
    BY <1>2 DEF O!Finds, O!skillbook
  <2>2. process'[t] = next  BY <2>1, SetProcess DEF TurnInv
  <2>3. todo \in Seq(Finding)  BY AnswersAssumption
  <2>4. ASSUME NEW i \in 1..Len(todo)  PROVE Sound(todo[i])'
    <3>1. todo[i] \in Finding  BY <2>3
    <3>2. O!ValidFinding(todo[i])  BY <1>2, <2>3 DEF O!Accepts, O!ToSet
    <3>3. QED  BY <2>1, <3>1, <3>2 DEF Sound, O!ValidFinding, O!Exists, Finding
  <2>5. turns[t] = O!Row("diagnosis") /\ Nothing(t)  BY <1>1 DEF Asks
  <2>6. WroteOf(t)' = {} /\ MadeOf(t)' = {}
    BY <2>1, <2>5 DEF Nothing, WroteOf, MadeOf, O!Exists
  <2>7. Surfaces(t)'  BY <2>1, <2>2, <2>3, <2>4, <2>5, <2>6 DEF Surfaces
  <2>8. InHand(t)'  BY <2>2, <2>7 DEF InHand
  <2>9. QED  BY <2>1, <2>8, AloneStep DEF TurnInv, Store
<1>3. CASE ~ O!Accepts(answer.findings)
  BY <1>1, <1>3, RejectsInv DEF O!Finds
<1>4. QED  BY <1>2, <1>3

(* A turn that is abandoned keeps a row that says nothing of it.               *)
LEMMA AbandonInv ==
  ASSUME TurnInv, NEW t \in Turn, O!Abandon(t)  PROVE TurnInv'
<1>1. O!Goto(t, O!Ended) /\ UNCHANGED <<spans, entries, submitted, turns>>
  BY DEF O!Abandon, O!skillbook
<1>2. process'[t] = O!Ended /\ process'[t].at = "ended"  BY <1>1, SetProcess DEF O!Ended, TurnInv
<1>3. Ends(t)
  <2>1. turns[t].status = "running" /\ (\E p : MadeOf(t) \subseteq {p}) => Ends(t)
    BY DEF Ends
  <2>2. InHand(t) /\ process[t].at \notin {"idle", "ended"}
    BY DEF O!Abandon, O!Idle, O!Ended, TurnInv, InHand
  <2>3. Asks(t) => turns[t].status = "running" /\ MadeOf(t) = {}  BY DEF Asks, Nothing, O!Row
  <2>4. Surfaces(t) => turns[t].status = "running" /\ MadeOf(t) = {}  BY DEF Surfaces, O!Row
  <2>5. Submits(t) => turns[t].status = "running" /\ MadeOf(t) = {}  BY DEF Submits, Nothing, O!Row
  <2>6. Links(t) => turns[t].status = "running" /\ \E p : MadeOf(t) = {p}  BY DEF Links, O!Row
  <2>7. Writes(t) => Surfaces(t)  BY DEF Writes
  <2>8. QED  BY <2>1, <2>2, <2>3, <2>4, <2>5, <2>6, <2>7 DEF InHand
<1>4. Ends(t)'
  <2>1. WroteOf(t)' = WroteOf(t) /\ MadeOf(t)' = MadeOf(t)  BY <1>1 DEF WroteOf, MadeOf, O!Exists
  <2>2. QED  BY <1>1, <1>3, <2>1 DEF Ends, Nothing
<1>5. InHand(t)'  BY <1>2, <1>4 DEF InHand
<1>6. QED  BY <1>1, <1>5, AloneStep DEF TurnInv, Store

\* Every entry that matches is one that exists.
LEMMA IntoFacts ==
  ASSUME TurnInv, NEW f, Sound(f)
  PROVE  O!Into(f) # None => O!Into(f) \in Entries /\ entries[O!Into(f)] # None
<1>1. CASE f.op # "add" /\ ~ entries[f.target].active
  BY <1>1 DEF O!Into, Sound
<1>2. CASE ~ (f.op # "add" /\ ~ entries[f.target].active) /\ O!Matching(f) # {}
  <2>1. O!Into(f) = O!Max(O!Matching(f)) /\ O!Matching(f) \subseteq Entries
    BY <1>2 DEF O!Into, O!Matching
  <2>2. O!Max(O!Matching(f)) \in O!Matching(f)
    BY <1>2, <2>1, LatestOfSome, ProcessesAssumption DEF O!Max
  <2>3. QED  BY <2>1, <2>2 DEF O!Matching, O!Exists
<1>3. QED  BY <1>1, <1>2 DEF O!Into

(* The entry a finding lands in is chosen and its spans are read.              *)
LEMMA SurfaceReadInv ==
  ASSUME TurnInv, NEW t \in Turn, O!SurfaceRead(t)  PROVE TurnInv'
<1> DEFINE h == process[t]
           f == Head(h.todo)
           into == O!Into(f)
           read == IF into = None THEN {} ELSE entries[into].spans
           next == [at |-> "write", attempt |-> h.attempt, wrote |-> h.wrote, todo |-> h.todo,
                    into |-> into, read |-> read]
<1>1. Surfaces(t) /\ h.todo # <<>>
  BY DEF O!SurfaceRead, TurnInv, InHand
<1>2. Sound(f)
  <2>1. h.todo \in Seq(Finding) /\ Len(h.todo) \in Nat /\ Len(h.todo) >= 1 /\ f = h.todo[1]
    BY <1>1, SMT DEF Surfaces
  <2>2. QED  BY <1>1, <2>1 DEF Surfaces
<1>3. into # None => into \in Entries /\ entries[into] # None
  BY <1>2, IntoFacts
<1>4. O!Goto(t, next) /\ UNCHANGED <<spans, entries, submitted, turns>>
  BY DEF O!SurfaceRead, O!skillbook
<1> HIDE DEF into
<1>5. read \subseteq spans
  BY <1>3 DEF TurnInv, Store
<1> HIDE DEF read
<1>6. process'[t] = next  BY <1>4, SetProcess DEF TurnInv
<1>7. WroteOf(t)' = WroteOf(t) /\ MadeOf(t)' = MadeOf(t) /\ \A g : Sound(g) => Sound(g)'
  BY <1>4 DEF WroteOf, MadeOf, O!Exists, Sound
<1>8. Surfaces(t)'  BY <1>1, <1>4, <1>6, <1>7 DEF Surfaces
<1>9. Writes(t)'  BY <1>1, <1>3, <1>4, <1>5, <1>6, <1>8 DEF Writes
<1>10. InHand(t)'  BY <1>6, <1>9 DEF InHand
<1>11. QED  BY <1>4, <1>10, AloneStep DEF TurnInv, Store

\* A finding lands in one entry, which the turn is now an author of.
LEMMA WroteStep ==
  ASSUME TurnInv, NEW t \in Turn, process[t].at = "write", NEW e \in Entries, NEW row \in Entry,
         row.spans \subseteq spans, entries' = [entries EXCEPT ![e] = row],
         row.by = (IF entries[e] = None THEN {} ELSE entries[e].by) \cup {t},
         O!Wrote(t, e), UNCHANGED <<spans, submitted, turns>>
  PROVE  TurnInv'
<1> DEFINE h == process[t]
           next == [at |-> "surface", attempt |-> h.attempt, wrote |-> h.wrote \cup {e}, todo |-> Tail(h.todo)]
<1>1. Writes(t) /\ Surfaces(t)  BY DEF TurnInv, InHand, Writes
<1>2. O!Goto(t, next)  BY DEF O!Wrote
<1>3. process'[t] = next /\ process' = [u \in Turn |-> process'[u]]
      /\ \A u \in Turn \ {t} : process'[u] = process[u]
  BY <1>2 DEF O!Goto, TurnInv, Store
<1>4. row # None  BY AnswersAssumption
<1>5. Store'  BY <1>3, <1>4 DEF TurnInv, Store
<1>6. entries'[e] = row /\ \A d \in Entries \ {e} : entries'[d] = entries[d]
  BY DEF TurnInv, Store
<1>7. \A d \in Entries : entries[d] # None => entries'[d] # None
  BY <1>4, <1>6
<1>8. \A u \in Turn \ {t} : WroteOf(u)' = WroteOf(u) /\ MadeOf(u)' = MadeOf(u)
  <2> SUFFICES ASSUME NEW u \in Turn \ {t}  PROVE WroteOf(u)' = WroteOf(u)
    BY DEF MadeOf
  <2>1. ASSUME NEW d \in Entries  PROVE d \in WroteOf(u)' <=> d \in WroteOf(u)
    <3>1. CASE d = e
      BY <3>1, <1>4, <1>6, AnswersAssumption DEF WroteOf, O!Exists
    <3>2. CASE d # e  BY <3>2, <1>6 DEF WroteOf, O!Exists
    <3>3. QED  BY <3>1, <3>2
  <2>2. QED  BY <2>1 DEF WroteOf
<1>9. WroteOf(t)' = WroteOf(t) \cup {e} /\ MadeOf(t)' = MadeOf(t)
  <2>1. ASSUME NEW d \in Entries  PROVE d \in WroteOf(t)' <=> d \in WroteOf(t) \cup {e}
    <3>1. CASE d = e
      BY <3>1, <1>4, <1>6, AnswersAssumption DEF WroteOf, O!Exists
    <3>2. CASE d # e  BY <3>2, <1>6 DEF WroteOf, O!Exists
    <3>3. QED  BY <3>1, <3>2
  <2>2. QED  BY <2>1 DEF WroteOf, MadeOf
<1>10. h.todo \in Seq(Finding) /\ h.todo # <<>>  BY <1>1 DEF Surfaces, Writes
<1>11. /\ Tail(h.todo) \in Seq(Finding) /\ Len(Tail(h.todo)) = Len(h.todo) - 1
       /\ \A i \in 1..Len(Tail(h.todo)) : i + 1 \in 1..Len(h.todo) /\ Tail(h.todo)[i] = h.todo[i + 1]
  BY <1>10, SMT
<1>12. \A f : Sound(f) => Sound(f)'
  BY <1>7 DEF Sound
<1>13. \A i \in 1..Len(Tail(h.todo)) : Sound(Tail(h.todo)[i])
  BY <1>1, <1>11 DEF Surfaces
<1>14. Surfaces(t)'
  BY <1>1, <1>3, <1>9, <1>11, <1>12, <1>13 DEF Surfaces
<1>15. InHand(t)'  BY <1>3, <1>14 DEF InHand
<1>16. QED  BY <1>3, <1>5, <1>7, <1>8, <1>15, TurnStep

(* The finding that is written is a sound one.                                 *)
LEMMA HeadIsSound ==
  ASSUME TurnInv, NEW t \in Turn, process[t].at = "write"
  PROVE  Sound(Head(process[t].todo)) /\ Writes(t)
<1> DEFINE todo == process[t].todo
<1>1. Surfaces(t) /\ Writes(t)  BY DEF TurnInv, InHand, Writes
<1>2. todo \in Seq(Finding) /\ todo # <<>> /\ \A i \in 1..Len(todo) : Sound(todo[i])
  BY <1>1 DEF Surfaces, Writes
<1>3. 1 \in 1..Len(todo) /\ Head(todo) = todo[1]  BY <1>2, SMT
<1>4. QED  BY <1>1, <1>2, <1>3

(* A finding is merged into an entry, over what was read of it.                *)
LEMMA SurfaceIntoInv ==
  ASSUME TurnInv, NEW t \in Turn, O!SurfaceInto(t)  PROVE TurnInv'
<1> DEFINE f == Head(process[t].todo)
           e == process[t].into
           row == [entries[e] EXCEPT !.spans = process[t].read \cup f.spans, !.by = @ \cup {t}]
<1>1. process[t].at = "write"  BY DEF O!SurfaceInto
<1>2. Sound(f) /\ e \in Entries /\ entries[e] # None /\ process[t].read \subseteq spans
  BY <1>1, HeadIsSound DEF O!SurfaceInto, Writes
<1>3. entries[e] \in Entry /\ spans \subseteq Span /\ f.spans \subseteq spans
  BY <1>2 DEF TurnInv, Store, Sound
<1>4. entries' = [entries EXCEPT ![e] = row]
  BY <1>2 DEF O!SurfaceInto, TurnInv, Store
<1>5. row \in Entry /\ row.spans = process[t].read \cup f.spans /\ row.by = entries[e].by \cup {t}
  BY <1>2, <1>3 DEF Entry
<1>6. O!Wrote(t, e) /\ UNCHANGED <<spans, submitted, turns>>  BY DEF O!SurfaceInto
<1> HIDE DEF row
<1>7. QED  BY <1>1, <1>2, <1>3, <1>4, <1>5, <1>6, WroteStep

(* A finding becomes an entry of its own.                                      *)
LEMMA SurfaceNewInv ==
  ASSUME TurnInv, NEW t \in Turn, NEW e \in Entries, O!SurfaceNew(t, e)  PROVE TurnInv'
<1> DEFINE f == Head(process[t].todo)
           row == [signature |-> f.signature, spans |-> f.spans, active |-> FALSE,
                   dismissed |-> FALSE, by |-> {t}]
<1>1. process[t].at = "write" /\ entries[e] = None  BY DEF O!SurfaceNew
<1>2. f \in Finding /\ f.spans \subseteq spans  BY <1>1, HeadIsSound DEF Sound
<1>3. row \in Entry  BY <1>2 DEF Entry, Finding
<1>4. entries' = [entries EXCEPT ![e] = row]  BY DEF O!SurfaceNew
<1>5. O!Wrote(t, e) /\ UNCHANGED <<spans, submitted, turns>>  BY DEF O!SurfaceNew
<1>6. QED  BY <1>1, <1>2, <1>3, <1>4, <1>5, WroteStep

(* The row lists what was written.                                             *)
LEMMA SurfacedInv ==
  ASSUME TurnInv, NEW t \in Turn, O!Surfaced(t)  PROVE TurnInv'
<1> DEFINE h == process[t]
           row == [turns[t] EXCEPT !.status = "succeeded", !.attempts = h.attempt, !.issues = h.wrote]
<1>1. Surfaces(t)  BY DEF O!Surfaced, TurnInv, InHand
<1>2. turns' = [turns EXCEPT ![t] = row]  BY DEF O!Surfaced, TurnInv, Store
<1>3. row.status = "succeeded" /\ row.issues = h.wrote /\ row.kind # "proposal"
  BY <1>1 DEF Surfaces, O!Row
<1> HIDE DEF row
<1>4. turns'[t] = row  BY <1>2, SetTurn DEF TurnInv
<1>5. O!Goto(t, O!Ended) /\ UNCHANGED <<spans, entries, submitted>>  BY DEF O!Surfaced, O!skillbook
<1>6. WroteOf(t)' = h.wrote /\ MadeOf(t)' = {}
  BY <1>1, <1>5 DEF Surfaces, WroteOf, MadeOf, O!Exists
<1>7. Ends(t)'  BY <1>3, <1>4, <1>6 DEF Ends
<1>8. process'[t].at = "ended"  BY <1>5, SetProcess DEF O!Ended, TurnInv
<1>9. InHand(t)'  BY <1>7, <1>8 DEF InHand
<1>10. QED  BY <1>2, <1>5, <1>9, SetTurn, AloneStep DEF TurnInv

(* A block of JSON is taken for a proposal when it has an id.                  *)
LEMMA AuthorsInv ==
  ASSUME TurnInv, NEW t \in Turn, NEW answer \in Answers, O!Authors(t, answer)  PROVE TurnInv'
<1>1. Asks(t) /\ process[t].kind = "proposal" /\ turns[t] = O!Row("proposal") /\ Nothing(t)
  BY DEF O!Authors, O!Running, TurnInv, InHand, Asks
<1>2. UNCHANGED <<spans, entries, submitted, turns>>  BY DEF O!Authors, O!skillbook
<1>3. Nothing(t)'  BY <1>1, <1>2 DEF Nothing, WroteOf, MadeOf, O!Exists
<1>4. CASE answer.proposal.id = None
  <2>1. O!Goto(t, O!Ended)  BY <1>4 DEF O!Authors
  <2>2. process'[t].at = "ended"  BY <2>1, SetProcess DEF O!Ended, TurnInv
  <2>3. Ends(t)'  BY <1>1, <1>2, <1>3 DEF Ends, Nothing, O!Row
  <2>4. InHand(t)'  BY <2>2, <2>3 DEF InHand
  <2>5. QED  BY <1>2, <2>1, <2>4, AloneStep DEF TurnInv, Store
<1>5. CASE answer.proposal.id # None
  <2> DEFINE next == [at |-> "submit", entry |-> process[t].entry, payload |-> answer.proposal]
  <2>1. O!Goto(t, next)  BY <1>5 DEF O!Authors
  <2>2. process'[t] = next  BY <2>1, SetProcess DEF TurnInv
  <2>3. Submits(t)'  BY <1>1, <1>2, <1>3, <2>2 DEF Submits
  <2>4. InHand(t)'  BY <2>2, <2>3 DEF InHand
  <2>5. QED  BY <1>2, <2>1, <2>4, AloneStep DEF TurnInv, Store
<1>6. QED  BY <1>4, <1>5

(* The proposal is inserted, or the turn fails without one.                    *)
LEMMA SubmitInv ==
  ASSUME TurnInv, NEW t \in Turn, O!Submit(t)  PROVE TurnInv'
<1> DEFINE h == process[t]
           p == [id |-> h.payload.id, entry |-> h.entry, by |-> t]
<1>1. Submits(t) /\ turns[t] = O!Row("proposal") /\ Nothing(t)
  BY DEF O!Submit, TurnInv, InHand, Submits
<1>2. CASE O!ValidProposal(h.payload, h.entry)
  <2>1. submitted' = submitted \cup {p} /\ O!Goto(t, [h EXCEPT !.at = "link"])
        /\ UNCHANGED <<spans, entries, turns>>
    BY <1>2 DEF O!Submit
  <2>2. process'[t].at = "link" /\ process'[t].payload = h.payload
    BY <1>1, <2>1, SetProcess DEF Submits, TurnInv
  <2>3. MadeOf(t)' = {p} /\ WroteOf(t)' = {}
    BY <1>1, <2>1 DEF Nothing, WroteOf, MadeOf, O!Exists
  <2>4. Links(t)'
    <3>1. p.id = process'[t].payload.id /\ turns'[t] = O!Row("proposal")  BY <1>1, <2>1, <2>2
    <3> HIDE DEF p
    <3>2. QED  BY <2>3, <3>1 DEF Links
  <2>5. InHand(t)'  BY <2>2, <2>4 DEF InHand
  <2>6. \A u \in Turn \ {t} : /\ process'[u] = process[u] /\ turns'[u] = turns[u]
                              /\ WroteOf(u)' = WroteOf(u) /\ MadeOf(u)' = MadeOf(u)
    BY <2>1 DEF WroteOf, MadeOf, O!Exists, O!Goto, TurnInv, Store
  <2>7. Store'  BY <2>1 DEF O!Goto, TurnInv, Store
  <2>8. QED  BY <2>1, <2>5, <2>6, <2>7, TurnStep
<1>3. CASE ~ O!ValidProposal(h.payload, h.entry)
  <2>1. O!Fails(t, "invalid_proposal")  BY <1>3 DEF O!Submit
  <2>2. QED  BY <1>1, <2>1, FailsInv
<1>4. QED  BY <1>2, <1>3

(* The row names the proposal.                                                 *)
LEMMA LinkInv ==
  ASSUME TurnInv, NEW t \in Turn, O!Link(t)  PROVE TurnInv'
<1> DEFINE h == process[t]
           row == [turns[t] EXCEPT !.status = "succeeded", !.proposal = h.payload.id]
<1>1. Links(t)  BY DEF O!Link, TurnInv, InHand
<1>2. turns' = [turns EXCEPT ![t] = row]  BY DEF O!Link, TurnInv, Store
<1>3. row.status = "succeeded" /\ row.issues = {} /\ row.kind = "proposal" /\ row.proposal = h.payload.id
  BY <1>1 DEF Links, O!Row
<1> HIDE DEF row
<1>4. turns'[t] = row  BY <1>2, SetTurn DEF TurnInv
<1>5. O!Goto(t, O!Ended) /\ UNCHANGED <<spans, entries, submitted>>  BY DEF O!Link, O!skillbook
<1>6. WroteOf(t)' = {} /\ MadeOf(t)' = MadeOf(t)
  BY <1>1, <1>5 DEF Links, WroteOf, MadeOf, O!Exists
<1>7. Ends(t)'  BY <1>1, <1>3, <1>4, <1>6 DEF Ends, Links
<1>8. process'[t].at = "ended"  BY <1>5, SetProcess DEF O!Ended, TurnInv
<1>9. InHand(t)'  BY <1>7, <1>8 DEF InHand
<1>10. QED  BY <1>2, <1>5, <1>9, SetTurn, AloneStep DEF TurnInv

(* Every step of a turn, and of everybody else.                                *)
LEMMA TurnNextInv ==
  ASSUME TurnInv, [O!Next]_(O!vars)  PROVE TurnInv'
<1>1. CASE UNCHANGED O!vars
  <2>1. Store' /\ UNCHANGED <<turns, process, submitted, entries, spans>>
    BY <1>1 DEF O!vars, TurnInv, Store
  <2>2. QED  BY <2>1, OthersStep
<1>2. CASE O!RegisterAdapter
  <2>1. Store' /\ UNCHANGED <<turns, process, submitted, entries, spans>>
    BY <1>2 DEF O!RegisterAdapter, TurnInv, Store
  <2>2. QED  BY <2>1, OthersStep
<1>3. ASSUME NEW t \in Turn, NEW adapted \in BOOLEAN, O!Begin(t, "diagnosis", None, adapted)
      PROVE  TurnInv'
  BY <1>3, BeginInv
<1>4. ASSUME NEW t \in Turn, NEW e \in Entries, NEW adapted \in BOOLEAN, O!Begin(t, "proposal", e, adapted)
      PROVE  TurnInv'
  BY <1>4, BeginInv
<1>5. QED
  BY <1>1, <1>2, <1>3, <1>4, IngestInv, DismissInv, BeginMockInv, AbandonInv, ProcessFailsInv, GarbageInv,
     FindsInv, AuthorsInv, SurfaceReadInv, SurfaceIntoInv, SurfacedInv, SurfaceNewInv, SubmitInv, LinkInv,
     Zenon DEF O!Next

(* The row of every turn tells what the turn left behind, and no entry cites   *)
(* what is not stored (analyze_with_command_operator, propose_for_issue), for  *)
(* any turns, answers, spans and entries and any number of retries.            *)
THEOREM TurnsAreAccountedForAlways ==
  O!Init /\ [][O!Next]_(O!vars) => []TurnsAreAccountedFor
<1>1. O!Init => TurnInv
  BY DEF O!Init, O!Idle, TurnInv, Store, InHand, Nothing, WroteOf, MadeOf, O!Exists
<1>2. TurnInv => TurnsAreAccountedFor
  <2> SUFFICES ASSUME TurnInv  PROVE TurnsAreAccountedFor
    OBVIOUS
  <2>1. \A e \in Entries : O!Exists(e) => entries[e].spans \subseteq spans
    BY DEF TurnInv, Store, O!Exists
  <2>2. ASSUME NEW t \in Turn, turns[t] # None
        PROVE  LET row   == turns[t]
                   wrote == {e \in Entries : O!Exists(e) /\ t \in entries[e].by}
                   made  == {p \in submitted : p.by = t}
               IN  CASE row.status = "failed" ->
                          /\ wrote = {} /\ made = {}
                          /\ (row.kind = "diagnosis" /\ row.error = "invalid_output") =>
                                row.attempts = MaxRetries + 1
                     [] row.status = "succeeded" ->
                          /\ wrote = row.issues /\ \A p \in made : p.id = row.proposal
                          /\ row.kind = "proposal" <=> made # {}
                     [] OTHER -> O!Cardinality(made) <= 1
    <3>1. Ends(t)
      <4>1. InHand(t)  BY DEF TurnInv
      <4>2. turns[t].status = "running" /\ (\E p : MadeOf(t) \subseteq {p}) => Ends(t)
        BY DEF Ends
      <4>3. Asks(t) => turns[t].status = "running" /\ MadeOf(t) = {}  BY DEF Asks, Nothing, O!Row
      <4>4. Surfaces(t) => turns[t].status = "running" /\ MadeOf(t) = {}  BY DEF Surfaces, O!Row
      <4>5. Submits(t) => turns[t].status = "running" /\ MadeOf(t) = {}  BY DEF Submits, Nothing, O!Row
      <4>6. Links(t) => turns[t].status = "running" /\ \E p : MadeOf(t) = {p}  BY DEF Links, O!Row
      <4>7. Writes(t) => Surfaces(t)  BY DEF Writes
      <4>8. QED  BY <2>2, <4>1, <4>2, <4>3, <4>4, <4>5, <4>6, <4>7 DEF InHand
    <3>2. PICK p : MadeOf(t) \subseteq {p}  BY <2>2, <3>1 DEF Ends
    <3>3. O!Cardinality(MadeOf(t)) <= 1
      <4>1. MadeOf(t) = {} \/ MadeOf(t) = {p}  BY <3>2
      <4>2. Cardinality({}) = 0 /\ Cardinality({p}) = 1  BY FS_EmptySet, FS_Singleton
      <4>3. O!Cardinality(MadeOf(t)) = Cardinality(MadeOf(t))  BY DEF O!Cardinality, Cardinality
      <4>4. QED  BY <4>1, <4>2, <4>3
    <3>4. QED  BY <2>2, <3>1, <3>3, Zenon DEF Ends, Nothing, WroteOf, MadeOf
  <2>3. QED  BY <2>1, <2>2 DEF TurnsAreAccountedFor, O!TurnsAreAccountedFor
<1>3. QED  BY <1>1, <1>2, TurnNextInv, PTL

--------------------------------------------------------------------------------
(* Blobs: a payload that nobody prunes has a file if it has a row or is being  *)
(* written, and a file only then; one that is being pruned has its row until   *)
(* the commit, and its file until the prune takes it.  A client that comes     *)
(* upon another at the same payload, or dies with one in hand, leaves it       *)
(* disturbed, and of such a payload only this much is said: until a prune has  *)
(* listed it, its row is not without a file.                                   *)

Places == {"write", "writing", "register"}

(* What a client has in hand: a payload it puts, payloads it is to prune, and  *)
(* payloads whose file it took and whose row stays until its commit.           *)
Puts(c, b, at) == client[c] = B!Putter(at, b)
Ready(c, b) == client[c].at \in {"prune", "delete"} /\ b \in client[c].todo
Taken(c, b) == client[c].at \in {"prune", "delete"} /\ b \in client[c].now \cup client[c].gone
Prunes(c, b) == Ready(c, b) \/ Taken(c, b)

Hand(c) ==
  \/ client[c] = B!Idle
  \/ \E at \in Places, b \in Blob : client[c] = B!Putter(at, b)
  \/ \E todo, gone \in SUBSET listed :
       todo \cap gone = {} /\ client[c] = B!Pruner("prune", todo, {}, gone)
  \/ \E todo, gone \in SUBSET listed : \E b \in listed \ todo :
       todo \cap gone = {} /\ client[c] = B!Pruner("delete", todo, {b}, gone)

Payloads ==
  /\ payload \in [Blob -> {"none", "partial", "whole"}] /\ registered \in [Blob -> BOOLEAN]
  /\ listed \subseteq Blob /\ disturbed \subseteq Blob
  /\ client = [c \in Client |-> client[c]] /\ \A c \in Client : Hand(c)

Written(b) == \E c \in Client : Puts(c, b, "writing") \/ Puts(c, b, "register")
Kept(b) == registered[b] \/ Written(b) => payload[b] # "none"

(* While nobody prunes a payload.                                              *)
Steady(b) ==
  /\ Kept(b)
  /\ payload[b] = "partial" => \E c \in Client : Puts(c, b, "writing")
  /\ payload[b] # "none" => registered[b] \/ Written(b)

OneAtATime(b) ==
  \A c, d \in Client :
    Prunes(c, b) => /\ ~ Puts(d, b, "write") /\ ~ Puts(d, b, "writing") /\ ~ Puts(d, b, "register")
                    /\ Prunes(d, b) => d = c

Handled(b) ==
  /\ OneAtATime(b)
  /\ (\A c \in Client : ~ Prunes(c, b)) => Steady(b)
  /\ \A c \in Client : /\ Ready(c, b) => registered[b] /\ payload[b] = "whole" /\ ~ Taken(c, b)
                       /\ Taken(c, b) => registered[b] /\ payload[b] = "none"

BlobInv ==
  /\ Payloads
  /\ \A b \in Blob \ listed : Kept(b)
  /\ \A b \in Blob \ disturbed : Handled(b)

(* What a client has in hand is one thing.                                     *)
LEMMA RecordFacts ==
  /\ B!Idle.at = "idle"
  /\ \A at, b : B!Putter(at, b).at = at /\ B!Putter(at, b).blob = b
  /\ \A at, todo, now, gone :
       /\ B!Pruner(at, todo, now, gone).at = at /\ B!Pruner(at, todo, now, gone).todo = todo
       /\ B!Pruner(at, todo, now, gone).now = now /\ B!Pruner(at, todo, now, gone).gone = gone
BY DEF B!Idle, B!Putter, B!Pruner

(* An idle client has nothing in hand, before a step or after it.              *)
LEMMA IdleHand ==
  ASSUME NEW c \in Client
  PROVE  /\ client[c] = B!Idle =>
              \A x : /\ ~ Ready(c, x) /\ ~ Taken(c, x) /\ ~ Prunes(c, x) /\ x \notin B!Pruning(c) /\ x \notin B!Putting(c)
                     /\ \A y \in Places : ~ Puts(c, x, y)
         /\ client'[c] = B!Idle =>
              \A x : /\ ~ Ready(c, x)' /\ ~ Taken(c, x)' /\ ~ Prunes(c, x)'
                     /\ \A y \in Places : ~ Puts(c, x, y)'
BY RecordFacts DEF Ready, Taken, Prunes, Puts, B!Pruning, B!Putting, Places

(* One that puts has one payload in hand, at one place.                        *)
LEMMA PutterHand ==
  ASSUME NEW c \in Client, NEW at \in Places, NEW b
  PROVE  /\ client[c] = B!Putter(at, b) =>
              \A x : /\ ~ Ready(c, x) /\ ~ Taken(c, x) /\ ~ Prunes(c, x) /\ x \notin B!Pruning(c)
                     /\ x \in B!Putting(c) <=> x = b
                     /\ \A y \in Places : Puts(c, x, y) <=> x = b /\ y = at
         /\ client'[c] = B!Putter(at, b) =>
              \A x : /\ ~ Ready(c, x)' /\ ~ Taken(c, x)' /\ ~ Prunes(c, x)'
                     /\ \A y \in Places : Puts(c, x, y)' <=> x = b /\ y = at
<1>1. \A x, y : B!Putter(at, b) = B!Putter(y, x) <=> x = b /\ y = at  BY RecordFacts
<1>2. B!Putter(at, b).at \in {"write", "writing", "register"} /\ B!Putter(at, b).blob = b
  BY RecordFacts DEF Places
<1>3. QED  BY <1>1, <1>2 DEF Ready, Taken, Prunes, Puts, B!Pruning, B!Putting, Places

(* One that prunes has what is to go, what is going and what has gone.         *)
LEMMA PrunerHand ==
  ASSUME NEW c \in Client, NEW at \in {"prune", "delete"}, NEW todo, NEW now, NEW gone
  PROVE  /\ client[c] = B!Pruner(at, todo, now, gone) =>
              \A x : /\ Ready(c, x) <=> x \in todo
                     /\ Taken(c, x) <=> x \in now \cup gone
                     /\ Prunes(c, x) <=> x \in B!Pruning(c)
                     /\ x \notin B!Putting(c)
                     /\ \A y \in Places : ~ Puts(c, x, y)
         /\ client'[c] = B!Pruner(at, todo, now, gone) =>
              \A x : /\ Ready(c, x)' <=> x \in todo
                     /\ Taken(c, x)' <=> x \in now \cup gone
                     /\ \A y \in Places : ~ Puts(c, x, y)'
<1>1. /\ B!Pruner(at, todo, now, gone).at = at /\ B!Pruner(at, todo, now, gone).todo = todo
      /\ B!Pruner(at, todo, now, gone).now = now /\ B!Pruner(at, todo, now, gone).gone = gone
  BY RecordFacts
<1>2. \A x : \A y \in Places : B!Putter(y, x) # B!Pruner(at, todo, now, gone)
  BY <1>1, RecordFacts DEF Places
<1>3. QED  BY <1>1, <1>2 DEF Ready, Taken, Prunes, Puts, B!Pruning, B!Putting, Places

(* The hands there are, with their fields.                                     *)
LEMMA HandOfClient ==
  ASSUME NEW c \in Client, Hand(c)
  PROVE  \/ client[c] = B!Idle
         \/ \E at \in Places, b \in Blob :
              client[c] = B!Putter(at, b) /\ client[c].at = at /\ client[c].blob = b
         \/ \E todo, gone \in SUBSET listed :
              /\ client[c] = B!Pruner("prune", todo, {}, gone) /\ client[c].at = "prune"
              /\ client[c].todo = todo /\ client[c].gone = gone /\ todo \cap gone = {}
         \/ \E todo, gone \in SUBSET listed : \E b \in listed \ todo :
              /\ client[c] = B!Pruner("delete", todo, {b}, gone) /\ client[c].at = "delete"
              /\ client[c].todo = todo /\ client[c].now = {b} /\ client[c].gone = gone /\ todo \cap gone = {}
<1>1. CASE client[c] = B!Idle  BY <1>1
<1>2. ASSUME NEW at \in Places, NEW b \in Blob, client[c] = B!Putter(at, b)
      PROVE  client[c].at = at /\ client[c].blob = b
  BY <1>2, RecordFacts
<1>3. ASSUME NEW todo \in SUBSET listed, NEW gone \in SUBSET listed, todo \cap gone = {},
             client[c] = B!Pruner("prune", todo, {}, gone)
      PROVE  client[c].at = "prune" /\ client[c].todo = todo /\ client[c].gone = gone
  BY <1>3, RecordFacts
<1>4. ASSUME NEW todo \in SUBSET listed, NEW gone \in SUBSET listed, NEW b \in listed \ todo, todo \cap gone = {},
             client[c] = B!Pruner("delete", todo, {b}, gone)
      PROVE  /\ client[c].at = "delete" /\ client[c].todo = todo
             /\ client[c].now = {b} /\ client[c].gone = gone
  BY <1>4, RecordFacts
<1>5. CASE \E at \in Places, b \in Blob : client[c] = B!Putter(at, b)
  BY <1>2, <1>5
<1>6. CASE \E todo, gone \in SUBSET listed :
             todo \cap gone = {} /\ client[c] = B!Pruner("prune", todo, {}, gone)
  BY <1>3, <1>6
<1>7. CASE \E todo, gone \in SUBSET listed : \E b \in listed \ todo :
             todo \cap gone = {} /\ client[c] = B!Pruner("delete", todo, {b}, gone)
  BY <1>4, <1>7
<1>8. QED  BY <1>1, <1>5, <1>6, <1>7 DEF Hand

(* Who is at a place has in hand what belongs to it.                           *)
LEMMA PlaceFacts ==
  ASSUME Payloads, NEW c \in Client
  PROVE  /\ client[c].at \in {"write", "writing", "register"} =>
              client[c].blob \in Blob /\ client[c] = B!Putter(client[c].at, client[c].blob)
         /\ client[c].at = "prune" =>
              /\ client[c].todo \subseteq listed /\ client[c].gone \subseteq listed
              /\ client[c].todo \cap client[c].gone = {}
              /\ client[c] = B!Pruner("prune", client[c].todo, {}, client[c].gone)
         /\ client[c].at = "delete" =>
              /\ client[c].todo \subseteq listed /\ client[c].gone \subseteq listed
              /\ client[c].todo \cap client[c].gone = {}
              /\ \E b \in listed \ client[c].todo :
                   client[c] = B!Pruner("delete", client[c].todo, {b}, client[c].gone)
<1>1. Hand(c)  BY DEF Payloads
<1>2. CASE client[c] = B!Idle
  <2>1. client[c].at = "idle"  BY <1>2, RecordFacts
  <2>2. QED  BY <2>1
<1>3. CASE \E at \in Places, b \in Blob :
             client[c] = B!Putter(at, b) /\ client[c].at = at /\ client[c].blob = b
  BY <1>3 DEF Places
<1>4. CASE \E todo, gone \in SUBSET listed :
             /\ client[c] = B!Pruner("prune", todo, {}, gone) /\ client[c].at = "prune"
             /\ client[c].todo = todo /\ client[c].gone = gone /\ todo \cap gone = {}
  BY <1>4
<1>5. CASE \E todo, gone \in SUBSET listed : \E b \in listed \ todo :
             /\ client[c] = B!Pruner("delete", todo, {b}, gone) /\ client[c].at = "delete"
             /\ client[c].todo = todo /\ client[c].now = {b} /\ client[c].gone = gone /\ todo \cap gone = {}
  BY <1>5
<1>6. QED  BY <1>1, <1>2, <1>3, <1>4, <1>5, HandOfClient

(* Nothing changes in the hands of the others.                                 *)
OthersSame(c) ==
  \A d \in Client \ {c} :
    /\ client'[d] = client[d]
    /\ \A x, y : Puts(d, x, y)' <=> Puts(d, x, y)
    /\ \A x : (Ready(d, x)' <=> Ready(d, x)) /\ (Taken(d, x)' <=> Taken(d, x))
    /\ \A x : Prunes(d, x)' <=> Prunes(d, x)

(* A client that goes on leaves the hands of the others as they are.           *)
LEMMA GoesOn ==
  ASSUME Payloads, NEW c \in Client, NEW next, B!Goto(c, next)
  PROVE  client'[c] = next /\ client' = [d \in Client |-> client'[d]] /\ OthersSame(c)
<1>1. client' = [client EXCEPT ![c] = next] /\ client = [d \in Client |-> client[d]]
  BY DEF B!Goto, Payloads
<1>2. client'[c] = next /\ \A d \in Client \ {c} : client'[d] = client[d]  BY <1>1
<1>3. client' = [d \in Client |-> client'[d]]  BY <1>1
<1>4. QED  BY <1>2, <1>3 DEF Puts, Ready, Taken, Prunes, OthersSame

(* Only the hand of the client that goes on has to be looked at.               *)
LEMMA PayloadsStay ==
  ASSUME Payloads, NEW c \in Client, OthersSame(c), client' = [d \in Client |-> client'[d]], Hand(c)',
         listed \subseteq listed', listed' \subseteq Blob, disturbed' \subseteq Blob,
         payload' \in [Blob -> {"none", "partial", "whole"}], registered' \in [Blob -> BOOLEAN]
  PROVE  Payloads'
<1>1. ASSUME NEW d \in Client \ {c}  PROVE Hand(d)'
  <2>1. Hand(d) /\ client'[d] = client[d]  BY DEF Payloads, OthersSame
  <2>2. CASE \/ client[d] = B!Idle
             \/ \E at \in Places, b \in Blob : client[d] = B!Putter(at, b)
    BY <2>1, <2>2 DEF Hand
  <2>3. CASE \E todo, gone \in SUBSET listed :
               todo \cap gone = {} /\ client[d] = B!Pruner("prune", todo, {}, gone)
    <3>1. \E todo, gone \in SUBSET listed' :
            todo \cap gone = {} /\ client'[d] = B!Pruner("prune", todo, {}, gone)
      BY <2>1, <2>3
    <3>2. QED  BY <3>1 DEF Hand
  <2>4. CASE \E todo, gone \in SUBSET listed : \E b \in listed \ todo :
               todo \cap gone = {} /\ client[d] = B!Pruner("delete", todo, {b}, gone)
    <3>1. \E todo, gone \in SUBSET listed' : \E b \in listed' \ todo :
            todo \cap gone = {} /\ client'[d] = B!Pruner("delete", todo, {b}, gone)
      BY <2>1, <2>4
    <3>2. QED  BY <3>1 DEF Hand
  <2>5. QED  BY <2>1, <2>2, <2>3, <2>4 DEF Hand
<1>2. \A d \in Client : Hand(d)'  BY <1>1
<1>3. QED  BY <1>2 DEF Payloads

(* c does not touch x.                                                         *)
Untouched(c, x) ==
  /\ payload'[x] = payload[x] /\ registered'[x] = registered[x]
  /\ \A y \in Places : Puts(c, x, y)' <=> Puts(c, x, y)
  /\ Ready(c, x)' <=> Ready(c, x)
  /\ Taken(c, x)' <=> Taken(c, x)

(* What is not touched stays as well kept and handled as it was.               *)
LEMMA UntouchedStays ==
  ASSUME NEW c \in Client, NEW x, OthersSame(c), Untouched(c, x)
  PROVE  (Kept(x) => Kept(x)') /\ (Handled(x) => Handled(x)')
<1>1. /\ payload'[x] = payload[x] /\ registered'[x] = registered[x]
      /\ \A d \in Client :
           /\ Puts(d, x, "write")' <=> Puts(d, x, "write")
           /\ Puts(d, x, "writing")' <=> Puts(d, x, "writing")
           /\ Puts(d, x, "register")' <=> Puts(d, x, "register")
           /\ Ready(d, x)' <=> Ready(d, x)
           /\ Taken(d, x)' <=> Taken(d, x)
  BY DEF OthersSame, Untouched, Places
<1>2. \A d \in Client : Prunes(d, x)' <=> Prunes(d, x)  BY <1>1 DEF Prunes
<1>3. Written(x)' <=> Written(x)  BY <1>1 DEF Written
<1>4. Kept(x)' <=> Kept(x)  BY <1>1, <1>3 DEF Kept
<1>5. Steady(x) => Steady(x)'
  <2>1. (\E d \in Client : Puts(d, x, "writing")) => (\E d \in Client : Puts(d, x, "writing")')
    BY <1>1
  <2>2. QED  BY <1>1, <1>3, <1>4, <2>1 DEF Steady
<1>6. OneAtATime(x) => OneAtATime(x)'  BY <1>1, <1>2, Zenon DEF OneAtATime
<1>7. ((\A d \in Client : ~ Prunes(d, x)) => Steady(x)) => ((\A d \in Client : ~ Prunes(d, x)') => Steady(x)')
  BY <1>2, <1>5
<1>8. QED  BY <1>1, <1>4, <1>6, <1>7 DEF Handled

(* What a step has to show: the payloads it touches are kept and handled.      *)
LEMMA ClientStepInv ==
  ASSUME BlobInv, NEW c \in Client, NEW next, B!Goto(c, next), Hand(c)',
         listed \subseteq listed', listed' \subseteq Blob, disturbed \subseteq disturbed', disturbed' \subseteq Blob,
         payload' \in [Blob -> {"none", "partial", "whole"}], registered' \in [Blob -> BOOLEAN],
         \A x \in Blob \ listed' : Untouched(c, x) \/ Kept(x)',
         \A x \in Blob \ disturbed' : Untouched(c, x) \/ Handled(x)'
  PROVE  BlobInv'
<1>1. OthersSame(c) /\ client' = [d \in Client |-> client'[d]]  BY GoesOn DEF BlobInv
<1>2. Payloads'  BY <1>1, PayloadsStay DEF BlobInv
<1>3. \A x \in Blob \ listed' : Kept(x)'  BY <1>1, UntouchedStays DEF BlobInv
<1>4. \A x \in Blob \ disturbed' : Handled(x)'  BY <1>1, UntouchedStays DEF BlobInv
<1>5. QED  BY <1>2, <1>3, <1>4 DEF BlobInv

(* The put looks for the file.                                                 *)
LEMMA PutInv == ASSUME BlobInv, NEW c \in Client, NEW b \in Blob, B!Put(c, b)  PROVE BlobInv'
<1> DEFINE at == IF payload[b] = "none" THEN "write" ELSE "register"
<1>1. /\ client[c] = B!Idle /\ B!Goto(c, B!Putter(at, b)) /\ Payloads
      /\ UNCHANGED <<payload, registered, lock, crashes, listed>>
      /\ disturbed' = IF \E d \in Client : b \in B!Pruning(d) THEN disturbed \cup {b} ELSE disturbed
  BY DEF B!Put, BlobInv
<1>2. client'[c] = B!Putter(at, b) /\ OthersSame(c)  BY <1>1, GoesOn
<1>3. at \in Places /\ at # "writing"  BY DEF Places
<1> HIDE DEF at
<1>4. Hand(c)'  BY <1>2, <1>3 DEF Hand, Places
<1>5. /\ \A x : \A y \in Places : Puts(c, x, y)' <=> x = b /\ y = at
      /\ \A x : ~ Prunes(c, x)' /\ ~ Ready(c, x)' /\ ~ Taken(c, x)'
  BY <1>2, <1>3, PutterHand
<1>6. /\ \A x : \A y \in Places : ~ Puts(c, x, y)
      /\ \A x : ~ Prunes(c, x) /\ ~ Ready(c, x) /\ ~ Taken(c, x)
  BY <1>1, IdleHand
<1>7. ASSUME NEW x \in Blob, x # b  PROVE Untouched(c, x)
  BY <1>1, <1>5, <1>6, <1>7 DEF Untouched
<1>8. Kept(b) => Kept(b)'
  <2>1. Written(b)' => Written(b) \/ at = "register"
    <3>1. ASSUME NEW d \in Client, Puts(d, b, "writing")' \/ Puts(d, b, "register")'
          PROVE  Written(b) \/ at = "register"
      <4>1. CASE d = c  BY <1>3, <1>5, <3>1, <4>1 DEF Places
      <4>2. CASE d # c  BY <1>2, <3>1, <4>2 DEF OthersSame, Written
      <4>3. QED  BY <4>1, <4>2
    <3>2. QED  BY <3>1 DEF Written
  <2>2. at = "register" => payload[b] # "none"  BY DEF at
  <2>3. QED  BY <1>1, <2>1, <2>2 DEF Kept
<1>9. ASSUME b \notin disturbed'  PROVE Handled(b)'
  <2>1. b \notin disturbed /\ \A d \in Client : b \notin B!Pruning(d)  BY <1>1, <1>9
  <2>2. Handled(b)  BY <2>1 DEF BlobInv
  <2>3. \A d \in Client : ~ Prunes(d, b)  BY <2>1 DEF Prunes, Ready, Taken, B!Pruning
  <2>4. \A d \in Client : ~ Prunes(d, b)' /\ ~ Ready(d, b)' /\ ~ Taken(d, b)'
    BY <1>2, <1>5, <2>3 DEF OthersSame, Prunes
  <2>5. Steady(b)  BY <2>2, <2>3 DEF Handled
  <2>6. Written(b) => Written(b)'  BY <1>2, <1>6 DEF Written, OthersSame, Places
  <2>7. (\E d \in Client : Puts(d, b, "writing")) => (\E d \in Client : Puts(d, b, "writing")')
    BY <1>2, <1>6 DEF OthersSame, Places
  <2>8. Steady(b)'  BY <1>1, <1>8, <2>5, <2>6, <2>7 DEF Steady
  <2>9. QED  BY <2>4, <2>8 DEF Handled, OneAtATime
<1>10. disturbed \subseteq disturbed' /\ disturbed' \subseteq Blob /\ listed' = listed /\ listed \subseteq Blob
      /\ payload' \in [Blob -> {"none", "partial", "whole"}] /\ registered' \in [Blob -> BOOLEAN]
  BY <1>1 DEF Payloads
<1>11. \A x \in Blob \ listed' : Untouched(c, x) \/ Kept(x)'  BY <1>7, <1>8, <1>10 DEF BlobInv
<1>12. \A x \in Blob \ disturbed' : Untouched(c, x) \/ Handled(x)'  BY <1>7, <1>9
<1>13. QED  BY <1>1, <1>4, <1>10, <1>11, <1>12, ClientStepInv

(* The file is being written; what it held is lost.                            *)
LEMMA WriteInv == ASSUME BlobInv, NEW c \in Client, B!Write(c)  PROVE BlobInv'
<1>0. PICK b \in Blob : client[c] = B!Putter("write", b) /\ b = client[c].blob
  BY PlaceFacts DEF B!Write, BlobInv
<1>1. /\ client[c] = B!Putter("write", b) /\ B!Goto(c, B!Putter("writing", b)) /\ Payloads
      /\ payload' = [payload EXCEPT ![b] = "partial"]
      /\ UNCHANGED <<registered, listed, disturbed>>
  BY <1>0 DEF B!Write, BlobInv
<1>2. client'[c] = B!Putter("writing", b) /\ OthersSame(c)  BY <1>1, GoesOn
<1>3. {"write", "writing"} \subseteq Places  BY DEF Places
<1>4. Hand(c)'  BY <1>1, <1>2, <1>3 DEF Hand
<1>5. /\ \A x : \A y \in Places : Puts(c, x, y)' <=> x = b /\ y = "writing"
      /\ \A x : ~ Prunes(c, x)' /\ ~ Ready(c, x)' /\ ~ Taken(c, x)'
  BY <1>2, <1>3, PutterHand
<1>6. /\ \A x : \A y \in Places : Puts(c, x, y) <=> x = b /\ y = "write"
      /\ \A x : ~ Prunes(c, x) /\ ~ Ready(c, x) /\ ~ Taken(c, x)
  BY <1>1, <1>3, PutterHand
<1>7. ASSUME NEW x \in Blob, x # b  PROVE Untouched(c, x)
  BY <1>1, <1>5, <1>6, <1>7 DEF Untouched, Payloads
<1>8. payload'[b] = "partial"  BY <1>1 DEF Payloads
<1>9. Kept(b)'  BY <1>8 DEF Kept
<1>10. ASSUME b \notin disturbed'  PROVE Handled(b)'
  <2>1. Handled(b)  BY <1>1, <1>10 DEF BlobInv
  <2>2. \A d \in Client : ~ Prunes(d, b)  BY <1>3, <1>6, <2>1 DEF Handled, OneAtATime
  <2>3. \A d \in Client : ~ Prunes(d, b)' /\ ~ Ready(d, b)' /\ ~ Taken(d, b)'
    BY <1>2, <1>5, <2>2 DEF OthersSame, Prunes
  <2>4. Puts(c, b, "writing")'  BY <1>5 DEF Places
  <2>5. Steady(b)'  BY <1>8, <1>9, <2>4 DEF Steady, Written
  <2>6. QED  BY <2>3, <2>5 DEF Handled, OneAtATime
<1>11. disturbed' = disturbed /\ disturbed \subseteq Blob /\ listed' = listed /\ listed \subseteq Blob
       /\ payload' \in [Blob -> {"none", "partial", "whole"}] /\ registered' \in [Blob -> BOOLEAN]
  BY <1>1 DEF Payloads
<1>12. \A x \in Blob \ listed' : Untouched(c, x) \/ Kept(x)'  BY <1>7, <1>9
<1>13. \A x \in Blob \ disturbed' : Untouched(c, x) \/ Handled(x)'  BY <1>7, <1>10
<1>14. QED  BY <1>1, <1>4, <1>11, <1>12, <1>13, ClientStepInv

(* The file is whole, unless a prune took it meanwhile.                        *)
LEMMA WrittenInv == ASSUME BlobInv, NEW c \in Client, B!Written(c)  PROVE BlobInv'
<1>0. PICK b \in Blob : client[c] = B!Putter("writing", b) /\ b = client[c].blob
  BY PlaceFacts DEF B!Written, BlobInv
<1>1. /\ client[c] = B!Putter("writing", b) /\ B!Goto(c, B!Putter("register", b)) /\ Payloads
      /\ payload' = [payload EXCEPT ![b] = IF payload[b] = "none" THEN "none" ELSE "whole"]
      /\ UNCHANGED <<registered, listed, disturbed>>
  BY <1>0 DEF B!Written, BlobInv
<1>2. client'[c] = B!Putter("register", b) /\ OthersSame(c)  BY <1>1, GoesOn
<1>3. {"register", "writing"} \subseteq Places  BY DEF Places
<1>4. Hand(c)'  BY <1>1, <1>2, <1>3 DEF Hand
<1>5. /\ \A x : \A y \in Places : Puts(c, x, y)' <=> x = b /\ y = "register"
      /\ \A x : ~ Prunes(c, x)' /\ ~ Ready(c, x)' /\ ~ Taken(c, x)'
  BY <1>2, <1>3, PutterHand
<1>6. /\ \A x : \A y \in Places : Puts(c, x, y) <=> x = b /\ y = "writing"
      /\ \A x : ~ Prunes(c, x) /\ ~ Ready(c, x) /\ ~ Taken(c, x)
  BY <1>1, <1>3, PutterHand
<1>7. ASSUME NEW x \in Blob, x # b  PROVE Untouched(c, x)
  BY <1>1, <1>5, <1>6, <1>7 DEF Untouched, Payloads
<1>8. payload'[b] = IF payload[b] = "none" THEN "none" ELSE "whole"  BY <1>1 DEF Payloads
<1>9. Written(b)  BY <1>6 DEF Written, Places
<1>10. Kept(b) => payload'[b] = "whole"  BY <1>8, <1>9 DEF Kept
<1>11. ASSUME b \notin disturbed'  PROVE Handled(b)'
  <2>1. Handled(b)  BY <1>1, <1>11 DEF BlobInv
  <2>2. \A d \in Client : ~ Prunes(d, b)  BY <1>3, <1>6, <2>1 DEF Handled, OneAtATime
  <2>3. \A d \in Client : ~ Prunes(d, b)' /\ ~ Ready(d, b)' /\ ~ Taken(d, b)'
    BY <1>2, <1>5, <2>2 DEF OthersSame, Prunes
  <2>4. Puts(c, b, "register")'  BY <1>5 DEF Places
  <2>5. payload'[b] = "whole"  BY <1>10, <2>1, <2>2 DEF Handled, Steady
  <2>6. Steady(b)'  BY <2>4, <2>5 DEF Steady, Written, Kept
  <2>7. QED  BY <2>3, <2>6 DEF Handled, OneAtATime
<1>12. disturbed' = disturbed /\ disturbed \subseteq Blob /\ listed' = listed /\ listed \subseteq Blob
       /\ payload' \in [Blob -> {"none", "partial", "whole"}] /\ registered' \in [Blob -> BOOLEAN]
  BY <1>1 DEF Payloads
<1>13. \A x \in Blob \ listed' : Untouched(c, x) \/ Kept(x)'
  <2>1. b \notin listed' => Kept(b)'  BY <1>1, <1>10 DEF BlobInv, Kept
  <2>2. QED  BY <1>7, <2>1
<1>14. \A x \in Blob \ disturbed' : Untouched(c, x) \/ Handled(x)'  BY <1>7, <1>11
<1>15. QED  BY <1>1, <1>4, <1>12, <1>13, <1>14, ClientStepInv

(* The row of what was put.                                                    *)
LEMMA RegisterInv == ASSUME BlobInv, NEW c \in Client, B!Register(c)  PROVE BlobInv'
<1>0. PICK b \in Blob : client[c] = B!Putter("register", b) /\ b = client[c].blob
  BY PlaceFacts DEF B!Register, BlobInv
<1>1. /\ client[c] = B!Putter("register", b) /\ B!Goto(c, B!Idle) /\ Payloads
      /\ registered' = [registered EXCEPT ![b] = TRUE]
      /\ UNCHANGED <<payload, listed, disturbed>>
  BY <1>0 DEF B!Register, BlobInv
<1>2. client'[c] = B!Idle /\ OthersSame(c)  BY <1>1, GoesOn
<1>3. "register" \in Places  BY DEF Places
<1>4. Hand(c)'  BY <1>2 DEF Hand
<1>5. /\ \A x : \A y \in Places : ~ Puts(c, x, y)'
      /\ \A x : ~ Prunes(c, x)' /\ ~ Ready(c, x)' /\ ~ Taken(c, x)'
  BY <1>2, IdleHand
<1>6. /\ \A x : \A y \in Places : Puts(c, x, y) <=> x = b /\ y = "register"
      /\ \A x : ~ Prunes(c, x) /\ ~ Ready(c, x) /\ ~ Taken(c, x)
  BY <1>1, <1>3, PutterHand
<1>7. ASSUME NEW x \in Blob, x # b  PROVE Untouched(c, x)
  BY <1>1, <1>5, <1>6, <1>7 DEF Untouched, Payloads
<1>8. registered'[b] /\ payload'[b] = payload[b]  BY <1>1 DEF Payloads
<1>9. Written(b)  BY <1>6 DEF Written, Places
<1>10. Kept(b) => Kept(b)'  BY <1>8, <1>9 DEF Kept
<1>11. ASSUME b \notin disturbed'  PROVE Handled(b)'
  <2>1. Handled(b)  BY <1>1, <1>11 DEF BlobInv
  <2>2. \A d \in Client : ~ Prunes(d, b)  BY <1>3, <1>6, <2>1 DEF Handled, OneAtATime, Places
  <2>3. \A d \in Client : ~ Prunes(d, b)' /\ ~ Ready(d, b)' /\ ~ Taken(d, b)'
    BY <1>2, <1>5, <2>2 DEF OthersSame, Prunes
  <2>4. Steady(b)  BY <2>1, <2>2 DEF Handled
  <2>5. ASSUME NEW d \in Client, Puts(d, b, "writing")  PROVE Puts(d, b, "writing")'
    <3>1. d # c  BY <1>6, <2>5 DEF Places
    <3>2. QED  BY <1>2, <2>5, <3>1 DEF OthersSame
  <2>6. Steady(b)'  BY <1>8, <1>10, <2>4, <2>5 DEF Steady
  <2>7. QED  BY <2>3, <2>6 DEF Handled, OneAtATime
<1>12. disturbed' = disturbed /\ disturbed \subseteq Blob /\ listed' = listed /\ listed \subseteq Blob
       /\ payload' \in [Blob -> {"none", "partial", "whole"}] /\ registered' \in [Blob -> BOOLEAN]
  BY <1>1 DEF Payloads
<1>13. \A x \in Blob \ listed' : Untouched(c, x) \/ Kept(x)'  BY <1>1, <1>7, <1>10 DEF BlobInv
<1>14. \A x \in Blob \ disturbed' : Untouched(c, x) \/ Handled(x)'  BY <1>7, <1>11
<1>15. QED  BY <1>1, <1>4, <1>12, <1>13, <1>14, ClientStepInv

(* A prune lists rows, and has their payloads to itself unless somebody is     *)
(* there already.                                                              *)
LEMMA ListInv ==
  ASSUME BlobInv, NEW c \in Client, NEW bs \in SUBSET Blob, B!ListEligible(c, bs)
  PROVE  BlobInv'
<1>1. /\ client[c] = B!Idle /\ B!Goto(c, B!Pruner("prune", bs, {}, {})) /\ Payloads
      /\ \A b \in bs : registered[b]
      /\ listed' = listed \cup bs
      /\ disturbed' = disturbed \cup {b \in bs : \E d \in Client : b \in B!Putting(d) \cup B!Pruning(d)}
      /\ UNCHANGED <<payload, registered>>
  BY DEF B!ListEligible, BlobInv
<1>2. client'[c] = B!Pruner("prune", bs, {}, {}) /\ OthersSame(c)  BY <1>1, GoesOn
<1>3. Hand(c)'
  <2>1. bs \in SUBSET listed' /\ {} \in SUBSET listed' /\ bs \cap {} = {}  BY <1>1
  <2>2. QED  BY <1>2, <2>1 DEF Hand
<1>4. \A x : /\ Ready(c, x)' <=> x \in bs
             /\ ~ Taken(c, x)'
             /\ \A y \in Places : ~ Puts(c, x, y)'
  BY <1>2, PrunerHand
<1>5. \A x : /\ ~ Ready(c, x) /\ ~ Taken(c, x) /\ ~ Prunes(c, x)
             /\ \A y \in Places : ~ Puts(c, x, y)
  BY <1>1, IdleHand
<1>6. ASSUME NEW x \in Blob, x \notin bs  PROVE Untouched(c, x)
  BY <1>1, <1>4, <1>5, <1>6 DEF Untouched
<1>7. ASSUME NEW x \in bs, x \notin disturbed'  PROVE Handled(x)'
  <2>1. x \notin disturbed /\ \A d \in Client : x \notin B!Putting(d) /\ x \notin B!Pruning(d)
    BY <1>1, <1>7
  <2>2. ASSUME NEW d \in Client, NEW y \in Places  PROVE ~ Puts(d, x, y)
    <3>1. Puts(d, x, y) => x \in B!Putting(d)  BY PutterHand DEF Puts
    <3>2. QED  BY <2>1, <3>1
  <2>3. \A d \in Client : ~ Prunes(d, x)  BY <2>1 DEF Prunes, Ready, Taken, B!Pruning
  <2>4. Steady(x)  BY <1>7, <2>1, <2>3 DEF BlobInv, Handled
  <2>5. registered[x] /\ payload[x] = "whole"
    <3>1. registered[x] /\ payload[x] \in {"none", "partial", "whole"}  BY <1>1 DEF Payloads
    <3>2. payload[x] # "none"  BY <2>4, <3>1 DEF Steady, Kept
    <3>3. payload[x] # "partial"  BY <2>2, <2>4 DEF Steady, Places
    <3>4. QED  BY <3>1, <3>2, <3>3
  <2>6. \A d \in Client \ {c} : /\ ~ Ready(d, x)' /\ ~ Taken(d, x)' /\ ~ Prunes(d, x)'
                                /\ \A y \in Places : ~ Puts(d, x, y)'
    BY <1>2, <2>2, <2>3 DEF OthersSame, Prunes
  <2>7. Prunes(c, x)' /\ Ready(c, x)'  BY <1>4 DEF Prunes
  <2>8. OneAtATime(x)'  BY <1>4, <2>6, <2>7 DEF OneAtATime, Places
  <2>9. registered'[x] /\ payload'[x] = "whole"  BY <1>1, <2>5
  <2>10. \A d \in Client : /\ Ready(d, x)' => registered'[x] /\ payload'[x] = "whole" /\ ~ Taken(d, x)'
                           /\ ~ Taken(d, x)'
    BY <1>4, <2>6, <2>9
  <2>11. QED  BY <2>7, <2>8, <2>10 DEF Handled
<1>8. listed \subseteq listed' /\ disturbed \subseteq disturbed' /\ disturbed' \subseteq Blob /\ listed' \subseteq Blob
      /\ payload' \in [Blob -> {"none", "partial", "whole"}] /\ registered' \in [Blob -> BOOLEAN]
  BY <1>1 DEF Payloads
<1>9. \A x \in Blob \ listed' : Untouched(c, x) \/ Kept(x)'  BY <1>1, <1>6
<1>10. \A x \in Blob \ disturbed' : Untouched(c, x) \/ Handled(x)'  BY <1>6, <1>7
<1>11. QED  BY <1>1, <1>3, <1>8, <1>9, <1>10, ClientStepInv

(* A file goes, its row is still to go.                                        *)
LEMMA UnlinkInv == ASSUME BlobInv, NEW c \in Client, NEW b \in Blob, B!Unlink(c, b)  PROVE BlobInv'
<1>0. PICK todo \in SUBSET listed, gone \in SUBSET listed :
        /\ client[c] = B!Pruner("prune", todo, {}, gone) /\ todo \cap gone = {}
        /\ todo = client[c].todo /\ gone = client[c].gone
  BY PlaceFacts DEF B!Unlink, BlobInv
<1>1. /\ client[c] = B!Pruner("prune", todo, {}, gone) /\ b \in todo
      /\ todo \subseteq listed /\ gone \subseteq listed /\ todo \cap gone = {}
      /\ B!Goto(c, B!Pruner("delete", todo \ {b}, {b}, gone)) /\ Payloads
      /\ payload' = [payload EXCEPT ![b] = "none"]
      /\ UNCHANGED <<registered, listed, disturbed>>
  BY <1>0 DEF B!Unlink, BlobInv
<1>2. client'[c] = B!Pruner("delete", todo \ {b}, {b}, gone) /\ OthersSame(c)  BY <1>1, GoesOn
<1>3. \A x : /\ Ready(c, x)' <=> x \in todo \ {b}
             /\ Taken(c, x)' <=> x \in {b} \cup gone
             /\ \A y \in Places : ~ Puts(c, x, y)'
  <2>1. PICK rest, now : rest = todo \ {b} /\ now = {b}  OBVIOUS
  <2>2. client'[c] = B!Pruner("delete", rest, now, gone) /\ "delete" \in {"prune", "delete"}  BY <1>2, <2>1
  <2>3. \A x : /\ Ready(c, x)' <=> x \in rest
               /\ Taken(c, x)' <=> x \in now \cup gone
               /\ \A y \in Places : ~ Puts(c, x, y)'
    BY <2>2, PrunerHand, Zenon
  <2>4. QED  BY <2>1, <2>3
<1>4. \A x : /\ Ready(c, x) <=> x \in todo
             /\ Taken(c, x) <=> x \in gone
             /\ \A y \in Places : ~ Puts(c, x, y)
  BY <1>1, PrunerHand
<1>5. Hand(c)'
  <2>1. /\ todo \ {b} \in SUBSET listed' /\ gone \in SUBSET listed' /\ (todo \ {b}) \cap gone = {}
        /\ b \in listed' \ (todo \ {b})
    BY <1>1
  <2>2. \E t, g \in SUBSET listed' : \E x \in listed' \ t :
          t \cap g = {} /\ client'[c] = B!Pruner("delete", t, {x}, g)
    BY <1>2, <2>1
  <2>3. QED  BY <2>2 DEF Hand
<1>6. ASSUME NEW x \in Blob, x # b  PROVE Untouched(c, x)
  BY <1>1, <1>3, <1>4, <1>6 DEF Untouched, Payloads
<1>7. ASSUME b \notin disturbed'  PROVE Handled(b)'
  <2>1. Handled(b)  BY <1>1, <1>7 DEF BlobInv
  <2>2. Ready(c, b) /\ Prunes(c, b)  BY <1>1, <1>4 DEF Prunes
  <2>3. registered[b]  BY <2>1, <2>2 DEF Handled
  <2>4. /\ \A d \in Client \ {c} : ~ Prunes(d, b)
        /\ \A d \in Client : ~ Puts(d, b, "write") /\ ~ Puts(d, b, "writing") /\ ~ Puts(d, b, "register")
    BY <2>1, <2>2 DEF Handled, OneAtATime
  <2>5. \A d \in Client \ {c} : ~ Ready(d, b)' /\ ~ Taken(d, b)' /\ ~ Prunes(d, b)'
    BY <1>2, <2>4 DEF OthersSame, Prunes
  <2>6. \A d \in Client : ~ Puts(d, b, "write")' /\ ~ Puts(d, b, "writing")' /\ ~ Puts(d, b, "register")'
    BY <1>2, <1>3, <2>4 DEF OthersSame, Places
  <2>7. ~ Ready(c, b)' /\ Taken(c, b)' /\ Prunes(c, b)'  BY <1>3 DEF Prunes
  <2>8. OneAtATime(b)'  BY <2>5, <2>6 DEF OneAtATime
  <2>9. registered'[b] /\ payload'[b] = "none"  BY <1>1, <2>3 DEF Payloads
  <2>10. \A d \in Client : ~ Ready(d, b)'  BY <2>5, <2>7
  <2>11. QED  BY <2>7, <2>8, <2>9, <2>10 DEF Handled
<1>8. disturbed' = disturbed /\ disturbed \subseteq Blob /\ listed' = listed /\ listed \subseteq Blob
      /\ payload' \in [Blob -> {"none", "partial", "whole"}] /\ registered' \in [Blob -> BOOLEAN]
  BY <1>1 DEF Payloads
<1>9. b \in listed'  BY <1>1
<1>10. \A x \in Blob \ listed' : Untouched(c, x) \/ Kept(x)'  BY <1>6, <1>9
<1>11. \A x \in Blob \ disturbed' : Untouched(c, x) \/ Handled(x)'  BY <1>6, <1>7
<1>12. QED  BY <1>1, <1>5, <1>8, <1>10, <1>11, ClientStepInv

(* The row goes when the transaction commits.                                  *)
LEMMA DeleteInv == ASSUME BlobInv, NEW c \in Client, B!Delete(c)  PROVE BlobInv'
<1> DEFINE todo == client[c].todo  gone == client[c].gone
<1>1. Payloads  BY DEF BlobInv
<1>2. PICK b \in listed \ todo : client[c] = B!Pruner("delete", todo, {b}, gone)
  BY <1>1, PlaceFacts DEF B!Delete
<1>3. /\ todo \subseteq listed /\ gone \subseteq listed /\ todo \cap gone = {} /\ client[c].now = {b}
      /\ B!Goto(c, B!Pruner("prune", todo, {}, gone \cup {b}))
      /\ UNCHANGED <<payload, registered, listed, disturbed>>
  <2>1. client[c].now = {b}  BY <1>2, RecordFacts
  <2>2. QED  BY <1>1, <2>1, PlaceFacts DEF B!Delete
<1>4. client'[c] = B!Pruner("prune", todo, {}, gone \cup {b}) /\ OthersSame(c)  BY <1>1, <1>3, GoesOn
<1>5. \A x : /\ Ready(c, x)' <=> x \in todo
             /\ Taken(c, x)' <=> x \in gone \cup {b}
             /\ \A y \in Places : ~ Puts(c, x, y)'
  BY <1>4, PrunerHand
<1>6. \A x : /\ Ready(c, x) <=> x \in todo
             /\ Taken(c, x) <=> x \in {b} \cup gone
             /\ \A y \in Places : ~ Puts(c, x, y)
  BY <1>2, PrunerHand
<1>7. Hand(c)'
  <2>1. todo \in SUBSET listed' /\ gone \cup {b} \in SUBSET listed' /\ todo \cap (gone \cup {b}) = {}
    BY <1>2, <1>3
  <2>2. \E t, g \in SUBSET listed' : t \cap g = {} /\ client'[c] = B!Pruner("prune", t, {}, g)
    BY <1>4, <2>1
  <2>3. QED  BY <2>2 DEF Hand
<1>8. \A x : Untouched(c, x)  BY <1>3, <1>5, <1>6 DEF Untouched
<1>9. disturbed' = disturbed /\ disturbed \subseteq Blob /\ listed' = listed /\ listed \subseteq Blob
      /\ payload' \in [Blob -> {"none", "partial", "whole"}] /\ registered' \in [Blob -> BOOLEAN]
  BY <1>1, <1>3 DEF Payloads
<1>10. QED  BY <1>3, <1>7, <1>8, <1>9, ClientStepInv

(* Every row whose file was taken goes, and with it the last of the payload.   *)
LEMMA CommitInv == ASSUME BlobInv, NEW c \in Client, B!Commit(c)  PROVE BlobInv'
<1> DEFINE gone == client[c].gone
<1>1. /\ client[c] = B!Pruner("prune", {}, {}, gone) /\ gone \subseteq listed
      /\ B!Goto(c, B!Idle) /\ Payloads
      /\ registered' = [b \in Blob |-> registered[b] /\ b \notin gone]
      /\ UNCHANGED <<payload, listed, disturbed>>
  BY PlaceFacts DEF B!Commit, BlobInv
<1>2. client'[c] = B!Idle /\ OthersSame(c)  BY <1>1, GoesOn
<1>3. \A x : /\ ~ Ready(c, x)' /\ ~ Taken(c, x)' /\ ~ Prunes(c, x)'
             /\ \A y \in Places : ~ Puts(c, x, y)'
  BY <1>2, IdleHand
<1>4. \A x : /\ Ready(c, x) <=> x \in {}
             /\ Taken(c, x) <=> x \in {} \cup gone
             /\ \A y \in Places : ~ Puts(c, x, y)
  BY <1>1, PrunerHand
<1>5. Hand(c)'  BY <1>2 DEF Hand
<1>6. \A x \in Blob : registered'[x] \in BOOLEAN /\ (x \notin gone => registered'[x] = registered[x]) /\ (x \in gone => ~ registered'[x])
  BY <1>1 DEF Payloads
<1>7. ASSUME NEW x \in Blob, x \notin gone  PROVE Untouched(c, x)
  BY <1>1, <1>3, <1>4, <1>6, <1>7 DEF Untouched
<1>8. ASSUME NEW x \in gone, x \in Blob, x \notin disturbed'  PROVE Handled(x)'
  <2>1. Handled(x) /\ Taken(c, x) /\ Prunes(c, x)  BY <1>1, <1>4, <1>8 DEF BlobInv, Prunes
  <2>2. payload[x] = "none"  BY <2>1 DEF Handled
  <2>3. /\ \A d \in Client \ {c} : ~ Prunes(d, x)
        /\ \A d \in Client : ~ Puts(d, x, "write") /\ ~ Puts(d, x, "writing") /\ ~ Puts(d, x, "register")
    BY <2>1 DEF Handled, OneAtATime
  <2>4. \A d \in Client : ~ Ready(d, x)' /\ ~ Taken(d, x)' /\ ~ Prunes(d, x)'
    BY <1>2, <1>3, <2>3 DEF OthersSame, Prunes
  <2>5. \A d \in Client : ~ Puts(d, x, "write")' /\ ~ Puts(d, x, "writing")' /\ ~ Puts(d, x, "register")'
    BY <1>2, <1>3, <2>3 DEF OthersSame, Places
  <2>6. payload'[x] = "none" /\ ~ registered'[x]  BY <1>1, <1>6, <1>8, <2>2
  <2>7. Steady(x)'  BY <2>5, <2>6 DEF Steady, Kept, Written
  <2>8. QED  BY <2>4, <2>7 DEF Handled, OneAtATime
<1>9. disturbed' = disturbed /\ disturbed \subseteq Blob /\ listed' = listed /\ listed \subseteq Blob
      /\ payload' \in [Blob -> {"none", "partial", "whole"}] /\ registered' \in [Blob -> BOOLEAN]
  <2>1. registered' = [x \in Blob |-> registered'[x]]  BY <1>1
  <2>2. registered' \in [Blob -> BOOLEAN]  BY <1>6, <2>1
  <2>3. QED  BY <1>1, <2>2 DEF Payloads
<1>10. \A x \in Blob \ listed' : Untouched(c, x) \/ Kept(x)'  BY <1>1, <1>7
<1>11. \A x \in Blob \ disturbed' : Untouched(c, x) \/ Handled(x)'  BY <1>7, <1>8
<1>12. QED  BY <1>1, <1>5, <1>9, <1>10, <1>11, ClientStepInv

(* Whoever dies leaves the files; what it had in hand is disturbed.            *)
LEMMA ClientDiesInv == ASSUME BlobInv, NEW c \in Client, B!Crash(c)  PROVE BlobInv'
<1>1. /\ B!Goto(c, B!Idle) /\ Payloads
      /\ disturbed' = disturbed \cup B!Putting(c) \cup B!Pruning(c)
      /\ UNCHANGED <<payload, registered, listed>>
  BY DEF B!Crash, BlobInv
<1>2. client'[c] = B!Idle /\ OthersSame(c)  BY <1>1, GoesOn
<1>3. \A x : /\ ~ Ready(c, x)' /\ ~ Taken(c, x)' /\ ~ Prunes(c, x)'
             /\ \A y \in Places : ~ Puts(c, x, y)'
  BY <1>2, IdleHand
<1>4. Hand(c)'  BY <1>2 DEF Hand
<1>5. ASSUME NEW x \in Blob, x \notin disturbed'  PROVE Untouched(c, x)
  <2>1. x \notin B!Putting(c) /\ x \notin B!Pruning(c)  BY <1>1, <1>5
  <2>2. ~ Ready(c, x) /\ ~ Taken(c, x)  BY <2>1 DEF Ready, Taken, B!Pruning
  <2>3. ASSUME NEW y \in Places  PROVE ~ Puts(c, x, y)
    <3>1. Puts(c, x, y) => x \in B!Putting(c)  BY PutterHand DEF Puts
    <3>2. QED  BY <2>1, <3>1
  <2>4. QED  BY <1>1, <1>3, <2>2, <2>3 DEF Untouched
<1>6. ASSUME NEW x \in Blob \ listed'  PROVE Kept(x)'
  <2>1. Kept(x)  BY <1>1, <1>6 DEF BlobInv
  <2>2. Written(x)' => Written(x)
    <3>1. ASSUME NEW d \in Client, Puts(d, x, "writing")' \/ Puts(d, x, "register")'  PROVE Written(x)
      <4>1. d # c  BY <1>3, <3>1 DEF Places
      <4>2. QED  BY <1>2, <3>1, <4>1 DEF OthersSame, Written
    <3>2. QED  BY <3>1 DEF Written
  <2>3. QED  BY <1>1, <2>1, <2>2 DEF Kept
<1>7. B!Putting(c) \subseteq Blob /\ B!Pruning(c) \subseteq Blob
  <2>1. B!Putting(c) \subseteq Blob  BY <1>1, PlaceFacts DEF B!Putting
  <2>2. CASE client[c].at = "prune"
    <3>1. B!Pruning(c) = client[c].todo \cup client[c].gone
      BY <1>1, <2>2, PlaceFacts, RecordFacts DEF B!Pruning
    <3>2. QED  BY <1>1, <2>1, <2>2, <3>1, PlaceFacts DEF Payloads
  <2>3. CASE client[c].at = "delete"
    <3>1. PICK b \in listed : client[c] = B!Pruner("delete", client[c].todo, {b}, client[c].gone)
      BY <1>1, <2>3, PlaceFacts
    <3>2. B!Pruning(c) = client[c].todo \cup {b} \cup client[c].gone
      BY <2>3, <3>1, RecordFacts DEF B!Pruning
    <3>3. QED  BY <1>1, <2>1, <2>3, <3>2, PlaceFacts DEF Payloads
  <2>4. CASE client[c].at \notin {"prune", "delete"}  BY <2>1, <2>4 DEF B!Pruning
  <2>5. QED  BY <2>2, <2>3, <2>4
<1>8. disturbed \subseteq disturbed' /\ disturbed' \subseteq Blob /\ listed' = listed /\ listed \subseteq Blob
      /\ payload' \in [Blob -> {"none", "partial", "whole"}] /\ registered' \in [Blob -> BOOLEAN]
  BY <1>1, <1>7 DEF Payloads
<1>9. QED  BY <1>1, <1>4, <1>5, <1>6, <1>8, ClientStepInv

(* Each step keeps the payloads.                                               *)
LEMMA BlobNextInv == BlobInv /\ [B!Next]_(B!vars) => BlobInv'
<1> SUFFICES ASSUME BlobInv, [B!Next]_(B!vars)  PROVE BlobInv'
  OBVIOUS
<1>1. CASE UNCHANGED B!vars
  <2>1. UNCHANGED <<payload, registered, client, listed, disturbed>>  BY <1>1 DEF B!vars
  <2>2. \A c, x, y : Puts(c, x, y)' <=> Puts(c, x, y)  BY <2>1 DEF Puts
  <2>3. \A c, x : (Ready(c, x)' <=> Ready(c, x)) /\ (Taken(c, x)' <=> Taken(c, x))
    BY <2>1 DEF Ready, Taken
  <2>4. \A c, x : Untouched(c, x) /\ OthersSame(c)  BY <2>1, <2>2, <2>3 DEF Untouched, OthersSame, Prunes
  <2>5. \A c : Hand(c)' <=> Hand(c)  BY <2>1 DEF Hand
  <2>6. Payloads'  BY <2>1, <2>5 DEF BlobInv, Payloads
  <2>7. CASE Client = {}
    BY <2>1, <2>6, <2>7 DEF BlobInv, Handled, OneAtATime, Steady, Kept, Written
  <2>8. CASE \E c : c \in Client
    <3>1. \A x : (Kept(x) => Kept(x)') /\ (Handled(x) => Handled(x)')  BY <2>4, <2>8, UntouchedStays
    <3>2. QED  BY <2>1, <2>6, <3>1 DEF BlobInv
  <2>9. QED  BY <2>7, <2>8
<1>2. CASE B!Next
  BY <1>2, PutInv, WriteInv, WrittenInv, RegisterInv, ListInv, UnlinkInv, DeleteInv, CommitInv, ClientDiesInv,
     Zenon DEF B!Next
<1>3. QED  BY <1>1, <1>2

(* No row is without its file but by a prune, and what was neither put while   *)
(* it was pruned nor left by a crash has both or neither once all is quiet     *)
(* (put_blob, prune_payload_blobs), for any payloads and callers.              *)
THEOREM RowsHaveFilesAlways == B!Init /\ [][B!Next]_(B!vars) => []RowsHaveFiles
<1>1. B!Init => BlobInv
  <2> SUFFICES ASSUME B!Init  PROVE BlobInv
    OBVIOUS
  <2>1. \A c \in Client : client[c] = B!Idle  BY DEF B!Init
  <2>2. \A c \in Client : \A x : /\ ~ Ready(c, x) /\ ~ Taken(c, x) /\ ~ Prunes(c, x)
                                 /\ \A y \in Places : ~ Puts(c, x, y)
    BY <2>1, IdleHand
  <2>3. Payloads  BY <2>1 DEF B!Init, Payloads, Hand
  <2>4. \A x \in Blob : ~ registered[x] /\ payload[x] = "none" /\ ~ Written(x)
    BY <2>2 DEF B!Init, Written, Places
  <2>5. \A x \in Blob : Kept(x) /\ Steady(x)  BY <2>4 DEF Kept, Steady
  <2>6. \A x \in Blob : Handled(x)  BY <2>2, <2>5 DEF Handled, OneAtATime
  <2>7. QED  BY <2>3, <2>5, <2>6 DEF BlobInv
<1>2. BlobInv => RowsHaveFiles
  <2> SUFFICES ASSUME BlobInv  PROVE RowsHaveFiles
    OBVIOUS
  <2>1. \A b \in Blob \ listed : registered[b] => payload[b] # "none"  BY DEF BlobInv, Kept
  <2>2. ASSUME \A c \in Client : client[c] = B!Idle, NEW b \in Blob \ disturbed
        PROVE  IF registered[b] THEN payload[b] = "whole" ELSE payload[b] = "none"
    <3>1. \A c \in Client : ~ Prunes(c, b) /\ \A y \in Places : ~ Puts(c, b, y)  BY <2>2, IdleHand
    <3>2. Steady(b)  BY <2>2, <3>1 DEF BlobInv, Handled
    <3>3. ~ Written(b) /\ ~ \E c \in Client : Puts(c, b, "writing")  BY <3>1 DEF Written, Places
    <3>4. payload[b] \in {"none", "partial", "whole"}  BY <2>2 DEF BlobInv, Payloads
    <3>5. QED  BY <3>2, <3>3, <3>4 DEF Steady, Kept
  <2>3. QED  BY <2>1, <2>2 DEF RowsHaveFiles, B!RowsHaveFiles
<1>3. QED  BY <1>1, <1>2, BlobNextInv, PTL
================================================================================
