---------------------------- MODULE IssueLoopProofs ----------------------------
(***************************************************************************)
(* What the loop promises of an issue and its fixes, for any constants: a    *)
(* watermark follows an apply, no fix is authored by itself for a failure    *)
(* seen once, the monitor turns only on what was observed since, a monitor   *)
(* that runs alone gives up after the attempts of the policy, and a context  *)
(* fix goes through its life once (module ProposalLifecycle).                 *)
(*                                                                         *)
(* A caller carries a row it read across the steps of others, so the         *)
(* invariant says of every call how what it has in hand relates to the store *)
(* of now.  Rows and proposals only grow in the sense of Grows below, and     *)
(* what is known of a call survives every such growth: a step then owes only *)
(* the growth and what it says of its own caller.                             *)
(***************************************************************************)
EXTENDS IssueLoop, TLAPS

WentLive(i) == \E p \in Fixes(i) : proposals[p].state # "pending"

\* A row: it counts no more than was observed, and its watermark stands for an
\* apply and for counts that nothing but an observation has moved since.
RowOK(i, row) ==
  /\ row.recurrence <= row.observed
  /\ row.baseline # None =>
       /\ row.stamped # None
       /\ row.stamped.observed <= row.observed
       /\ row.stamped.observed = row.observed => row.recurrence = row.baseline
       /\ WentLive(i)

\* A row that was read earlier: what was counted then and is no longer was
\* followed by an observation.
Seen(i, row) ==
  /\ row \in Issue
  /\ row.recurrence <= row.observed
  /\ row.observed <= issues[i].observed
  /\ row.observed = issues[i].observed => row.recurrence = issues[i].recurrence

WithIssue == {"bundle", "bundling", "accept", "accepting", "author", "link",
              "marking", "resolve", "guard", "list", "rollback", "recording"}
WithApplied == {"apply", "mark", "marking", "resolve", "guard"}
RollingBack == {"list", "rollback", "recording"}

\* What a caller has in hand.
CallOK(k) ==
  /\ k.pc \in WithIssue => k.issue \in Issues /\ Exists(k.issue)
  /\ k.pc \in {"create", "bundle", "bundling"} => k.trace \in Traces
  /\ k.pc \in {"bundling", "marking"} => Seen(k.issue, k.row)
  /\ k.pc = "marking" => WentLive(k.issue)
  /\ k.pc \in RollingBack => k.row \in Issue
  /\ k.pc = "list" => k.row.stamped # None /\ k.row.observed > k.row.stamped.observed
  /\ /\ k.pc \in {"accept", "accepting"}
     /\ ~ k.human /\ k.mode = "autonomous" /\ RecurrenceThreshold > 1
     => issues[k.issue].observed >= 2
  /\ \A i \in k.todo : Exists(i)
  /\ \A p \in k.queue \cup k.done : proposals[p] # None
  /\ k.pc \in WithApplied => \A p \in k.done : proposals[p].state # "pending"
  /\ k.pc = "rollback" => \A p \in k.queue : /\ proposals[p].issue = k.issue
                                             /\ proposals[p].state # "pending"

\* What a monitor that runs alone has in hand: issues nobody has escalated, and
\* of the one it rolls back, the count of attempts as it stands.
LoneOK(k) ==
  /\ k.pc \in RollingBack \cup {"monitor"} =>
       \A i \in k.todo : Exists(i) /\ ~ issues[i].blocked
  /\ k.pc \in RollingBack =>
       /\ k.issue \notin k.todo
       /\ ~ issues[k.issue].blocked
       /\ k.row.attempts = issues[k.issue].attempts
  /\ k.pc = "recording" /\ k.row.attempts + 1 >= MaxAttempts => k.flag

LoneInv == Alone => AttemptsAreBounded /\ \A m \in Monitors : LoneOK(call[m])

StoreInv == /\ \A p \in Proposals : proposals[p] # None => Exists(proposals[p].issue)
            /\ \A i \in Issues : Exists(i) => RowOK(i, issues[i])

\* The inductive invariant.
Inv == TypeOK /\ StoreInv /\ (\A c \in Callers : CallOK(call[c])) /\ LoneInv

--------------------------------------------------------------------------------
(* What every step does to the store. *)

\* Rows are not lost and are counted up; proposals keep their issue and do not
\* become pending again.
Grows ==
  /\ \A i \in Issues : Exists(i) =>
       /\ issues'[i] # None
       /\ issues[i].observed <= issues'[i].observed
       /\ issues'[i].observed = issues[i].observed =>
            issues'[i].recurrence = issues[i].recurrence
  /\ \A p \in Proposals : proposals[p] # None =>
       /\ proposals'[p] # None
       /\ proposals'[p].issue = proposals[p].issue
       /\ proposals[p].state # "pending" => proposals'[p].state # "pending"

\* No attempt is counted, no issue escalated; new issues start from nothing.
Uncounted ==
  \A i \in Issues :
    /\ Exists(i) => /\ issues'[i].attempts = issues[i].attempts
                    /\ issues'[i].blocked = issues[i].blocked
    /\ ~ Exists(i) /\ issues'[i] # None => issues'[i].attempts = 0 /\ ~ issues'[i].blocked

\* No row is added and what the invariant reads of a row is left alone.
QuietIssues ==
  /\ issues' \in [Issues -> Issue \cup {None}]
  /\ \A i \in Issues :
       /\ ~ Exists(i) => issues'[i] = None
       /\ Exists(i) => /\ issues'[i] # None
                       /\ issues'[i].observed = issues[i].observed
                       /\ issues'[i].recurrence = issues[i].recurrence
                       /\ issues'[i].baseline = issues[i].baseline
                       /\ issues'[i].stamped = issues[i].stamped
                       /\ issues'[i].attempts = issues[i].attempts
                       /\ issues'[i].blocked = issues[i].blocked

\* Proposals are added for issues that exist, or move on.
ProposalsMoveOn ==
  /\ proposals' \in [Proposals -> Proposal \cup {None}]
  /\ \A p \in Proposals :
       /\ proposals[p] # None =>
            /\ proposals'[p] # None
            /\ proposals'[p].issue = proposals[p].issue
            /\ proposals[p].state # "pending" => proposals'[p].state # "pending"
       /\ proposals'[p] # None => Exists(proposals'[p].issue)

\* A row that exists is a record, and so is a proposal.
LEMMA Rows ==
  ASSUME TypeOK
  PROVE  /\ \A i \in Issues : Exists(i) => issues[i] \in Issue
         /\ \A p \in Proposals : proposals[p] # None => proposals[p] \in Proposal
         /\ \A c \in Callers : call[c] \in Call
         /\ None \notin Issue /\ None \notin Proposal /\ None \notin Stamp
         /\ RecurrenceThreshold \in Nat /\ RegressionThreshold \in Nat \ {0}
         /\ MaxAttempts \in Nat \ {0}
         /\ \A x \in Nat : x # None
  <1>1. None \notin Issue /\ None \notin Proposal /\ None \notin Stamp
    BY NoneAssumption
  <1> HIDE DEF Issue, Proposal, Stamp, Call
  <1> QED
    BY <1>1, LoopAssumption DEF TypeOK, Exists

\* What a proposal of the issue did stays done.
LEMMA LiveStays ==
  ASSUME Grows, NEW i, WentLive(i)
  PROVE  WentLive(i)'
  BY DEF Grows, WentLive, Fixes

\* A step of the store that moves proposals on and leaves the counts alone.
LEMMA QuietStep ==
  ASSUME TypeOK, StoreInv, QuietIssues, ProposalsMoveOn
  PROVE  Grows /\ Uncounted /\ StoreInv'
  <1>1. \A i \in Issues : Exists(i) => issues[i] \in Issue /\ issues'[i] \in Issue
    BY Rows DEF QuietIssues
  <1>2. \A i \in Issues : Exists(i) => issues[i].observed \in Nat
    BY <1>1 DEF Issue
  <1>3. Grows /\ Uncounted
    BY <1>2 DEF QuietIssues, ProposalsMoveOn, Grows, Uncounted, Exists
  <1>4. ASSUME NEW p \in Proposals, proposals'[p] # None
        PROVE  issues'[proposals'[p].issue] # None
    <2>1. proposals'[p] \in Proposal
      BY <1>4 DEF ProposalsMoveOn
    <2>2. proposals'[p].issue \in Issues
      BY <2>1 DEF Proposal
    <2> QED
      BY <1>4, <2>2 DEF ProposalsMoveOn, QuietIssues
  <1>5. ASSUME NEW i \in Issues, issues'[i] # None
        PROVE  RowOK(i, issues[i])'
    <2>1. Exists(i) /\ RowOK(i, issues[i])
      BY <1>5 DEF QuietIssues, StoreInv
    <2>2. WentLive(i) => WentLive(i)'
      BY <1>3, LiveStays
    <2> QED
      BY <2>1, <2>2 DEF RowOK, QuietIssues
  <1> QED
    BY <1>3, <1>4, <1>5 DEF StoreInv, Exists

\* Writing other columns of one row is such a step ...
LEMMA QuietRow ==
  ASSUME TypeOK, NEW i \in Issues, Exists(i), NEW row \in Issue, Assign(i, row),
         row.observed = issues[i].observed, row.recurrence = issues[i].recurrence,
         row.baseline = issues[i].baseline, row.stamped = issues[i].stamped,
         row.attempts = issues[i].attempts, row.blocked = issues[i].blocked
  PROVE  QuietIssues
  <1>1. row # None
    BY Rows
  <1>2. issues \in [Issues -> Issue \cup {None}]
    BY DEF TypeOK
  <1> HIDE DEF Issue
  <1> QED
    BY <1>1, <1>2 DEF QuietIssues, Assign, Exists

\* ... and so is leaving all of them alone.
LEMMA SameIssues ==
  ASSUME TypeOK, UNCHANGED issues
  PROVE  QuietIssues
  <1> HIDE DEF Issue
  <1> QED
    BY DEF TypeOK, QuietIssues, Exists

\* Proposals that are left alone have moved on.
LEMMA SameProposals ==
  ASSUME TypeOK, StoreInv, UNCHANGED proposals
  PROVE  ProposalsMoveOn
  <1> HIDE DEF Proposal
  <1> QED
    BY DEF TypeOK, StoreInv, ProposalsMoveOn

\* One proposal that is submitted, or moves on.
LEMMA OneProposal ==
  ASSUME TypeOK, StoreInv, NEW p \in Proposals, NEW q \in Proposal, Exists(q.issue),
         proposals' = [proposals EXCEPT ![p] = q],
         proposals[p] # None => /\ q.issue = proposals[p].issue
                                /\ proposals[p].state # "pending" => q.state # "pending"
  PROVE  ProposalsMoveOn
  <1>1. q # None
    BY Rows
  <1>2. proposals \in [Proposals -> Proposal \cup {None}]
    BY DEF TypeOK
  <1> HIDE DEF Proposal
  <1> QED
    BY <1>1, <1>2 DEF StoreInv, ProposalsMoveOn

--------------------------------------------------------------------------------
(* What every step keeps of the calls. *)

\* What a caller has in hand stays true while the store grows.
LEMMA CallKept ==
  ASSUME TypeOK, TypeOK', Grows, NEW k \in Call, CallOK(k)
  PROVE  CallOK(k)'
  <1>1. /\ k.queue \subseteq Proposals /\ k.done \subseteq Proposals
    BY DEF Call
  <1>2. k.pc \in WithIssue => k.issue \in Issues /\ Exists(k.issue) /\ Exists(k.issue)'
    BY DEF CallOK, Grows, Exists
  <1>3. ASSUME k.pc \in {"bundling", "marking"} PROVE Seen(k.issue, k.row)'
    <2>1. k.issue \in Issues /\ Exists(k.issue) /\ Seen(k.issue, k.row)
      BY <1>2, <1>3 DEF WithIssue, CallOK
    <2>2. issues[k.issue] \in Issue /\ issues'[k.issue] \in Issue /\ k.row \in Issue
      <3>1. issues'[k.issue] # None
        BY <2>1 DEF Grows
      <3> QED
        BY <2>1, <3>1, Rows DEF Seen, TypeOK
    <2>3. /\ issues[k.issue].observed \in Nat /\ issues'[k.issue].observed \in Nat
          /\ k.row.observed \in Nat
      BY <2>2 DEF Issue
    <2> HIDE DEF Issue
    <2> QED
      BY <2>1, <2>3 DEF Seen, Grows
  <1>4. k.pc = "marking" => WentLive(k.issue)'
    BY LiveStays DEF CallOK
  <1>5. /\ k.pc \in {"accept", "accepting"}
        /\ ~ k.human /\ k.mode = "autonomous" /\ RecurrenceThreshold > 1
        => issues'[k.issue].observed >= 2
    <2> SUFFICES ASSUME k.pc \in {"accept", "accepting"},
                        ~ k.human /\ k.mode = "autonomous" /\ RecurrenceThreshold > 1
                 PROVE  issues'[k.issue].observed >= 2
      OBVIOUS
    <2>1. k.issue \in Issues /\ Exists(k.issue) /\ issues[k.issue].observed >= 2
      BY <1>2 DEF WithIssue, CallOK
    <2>2. issues[k.issue] \in Issue /\ issues'[k.issue] \in Issue
      BY <2>1, Rows DEF Grows, TypeOK
    <2>3. issues[k.issue].observed \in Nat /\ issues'[k.issue].observed \in Nat
      BY <2>2 DEF Issue
    <2> QED
      BY <2>1, <2>3 DEF Grows
  <1>6. \A p \in k.queue \cup k.done : proposals'[p] # None
    BY <1>1 DEF CallOK, Grows
  <1>7. k.pc \in WithApplied => \A p \in k.done : proposals'[p].state # "pending"
    BY <1>1 DEF CallOK, Grows
  <1>8. k.pc = "rollback" => \A p \in k.queue : /\ proposals'[p].issue = k.issue
                                                /\ proposals'[p].state # "pending"
    BY <1>1 DEF CallOK, Grows
  <1>9. \A i \in k.todo : Exists(i)'
    <2>1. k.todo \subseteq Issues
      BY DEF Call
    <2> QED
      BY <2>1 DEF CallOK, Grows, Exists
  <1> QED
    BY <1>2, <1>3, <1>4, <1>5, <1>6, <1>7, <1>8, <1>9 DEF CallOK

\* And what a lone monitor has in hand while nothing is counted.
LEMMA LoneKept ==
  ASSUME TypeOK, Grows, Uncounted, NEW k \in Call, CallOK(k), LoneOK(k)
  PROVE  LoneOK(k)'
  <1>1. k.todo \subseteq Issues
    BY DEF Call
  <1>2. k.pc \in RollingBack => k.issue \in Issues /\ Exists(k.issue)
    BY DEF CallOK, RollingBack, WithIssue
  <1> QED
    BY <1>1, <1>2 DEF LoneOK, Uncounted, Grows, Exists

\* No attempt is counted while nothing is.
LEMMA BoundKept ==
  ASSUME TypeOK, Uncounted, AttemptsAreBounded
  PROVE  AttemptsAreBounded'
  BY Rows DEF Uncounted, AttemptsAreBounded, Exists

\* A step of one caller, and a step of none.
LEMMA OwnStep ==
  ASSUME Inv, NEW c \in Callers, NEW k \in Call, call' = [call EXCEPT ![c] = k],
         TypeOK', StoreInv', Grows, Uncounted, CallOK(k)',
         c \in Monitors /\ Alone => LoneOK(k)'
  PROVE  Inv'
  <1>1. call \in [Callers -> Call] /\ call'[c] = k
    BY DEF Inv, TypeOK
  <1>2. ASSUME NEW d \in Callers PROVE CallOK(call[d])'
    <2>1. CASE d = c
      BY <1>1, <2>1 DEF CallOK, Seen
    <2>2. CASE d # c
      <3>1. PICK l \in Call : l = call[d] /\ l = call'[d]
        BY <1>1, <2>2
      <3>2. CallOK(l)
        BY <3>1 DEF Inv
      <3>3. CallOK(l)'
        BY <3>2, CallKept DEF Inv
      <3> QED
        BY <3>1, <3>3 DEF CallOK, Seen
    <2> QED
      BY <2>1, <2>2
  <1>3. ASSUME Alone, NEW m \in Monitors PROVE LoneOK(call[m])'
    <2>1. CASE m = c
      BY <1>1, <1>3, <2>1 DEF LoneOK
    <2>2. CASE m # c
      <3>1. PICK l \in Call : l = call[m] /\ l = call'[m]
        BY <1>1, <2>2 DEF Callers
      <3>2. CallOK(l) /\ LoneOK(l)
        BY <1>3, <3>1 DEF Inv, LoneInv, Callers
      <3>3. LoneOK(l)'
        BY <3>2, LoneKept DEF Inv
      <3> QED
        BY <3>1, <3>3 DEF LoneOK
    <2> QED
      BY <2>1, <2>2
  <1>4. Alone => AttemptsAreBounded'
    BY BoundKept DEF Inv, LoneInv
  <1> QED
    BY <1>2, <1>3, <1>4 DEF Inv, LoneInv, Alone

\* A step of no caller owes only growth.
LEMMA RequestStep ==
  ASSUME Inv, UNCHANGED call, TypeOK', StoreInv', Grows, Uncounted
  PROVE  Inv'
  <1>1. call \in [Callers -> Call] /\ call' = call
    BY DEF Inv, TypeOK
  <1>2. ASSUME NEW d \in Callers PROVE CallOK(call[d])'
    <2>1. PICK l \in Call : l = call[d]
      BY <1>1
    <2>2. CallOK(l)'
      BY <2>1, CallKept DEF Inv
    <2> QED
      BY <1>1, <2>1, <2>2 DEF CallOK, Seen
  <1>3. ASSUME Alone, NEW m \in Monitors PROVE LoneOK(call[m])'
    <2>1. PICK l \in Call : l = call[m]
      BY <1>1 DEF Callers
    <2>2. CallOK(l) /\ LoneOK(l)
      BY <1>3, <2>1 DEF Inv, LoneInv, Callers
    <2>3. LoneOK(l)'
      BY <2>2, LoneKept DEF Inv
    <2> QED
      BY <1>1, <2>1, <2>3 DEF LoneOK
  <1>4. Alone => AttemptsAreBounded'
    BY BoundKept DEF Inv, LoneInv
  <1> QED
    BY <1>2, <1>3, <1>4 DEF Inv, LoneInv, Alone
--------------------------------------------------------------------------------
(* Steps that leave the counts alone. *)

\* A step of a caller that leaves the counts alone; what it has in hand may rest
\* on the step itself.
LEMMA QuietOwnStep ==
  ASSUME Inv, NEW c \in Callers, NEW k \in Call, call' = [call EXCEPT ![c] = k],
         QuietIssues, ProposalsMoveOn, UNCHANGED mode,
         CallOK(k) \/ CallOK(k)', c \in Workers \/ (Alone => LoneOK(k))
  PROVE  Inv'
  <1>1. TypeOK /\ StoreInv
    BY DEF Inv
  <1>2. Grows /\ Uncounted /\ StoreInv'
    BY <1>1, QuietStep
  <1>3. TypeOK'
    <2> HIDE DEF Issue, Proposal, Call
    <2> QED
      BY <1>1 DEF TypeOK, QuietIssues, ProposalsMoveOn
  <1>4. CallOK(k)'
    BY <1>1, <1>2, <1>3, CallKept
  <1>5. c \in Monitors /\ Alone => LoneOK(k)'
    <2>1. ASSUME LoneOK(k), c \in Monitors PROVE LoneOK(k)'
      <3>1. CASE CallOK(k)
        BY <1>1, <1>2, <2>1, <3>1, LoneKept
      <3>2. CASE CallOK(k)'
        <4>1. k.todo \subseteq Issues
          BY DEF Call
        <4>2. k.pc \in RollingBack => k.issue \in Issues
          BY <3>2 DEF CallOK, RollingBack, WithIssue
        <4>3. \A i \in Issues : Exists(i) <=> Exists(i)'
          BY DEF QuietIssues, Exists
        <4>4. k.pc \in RollingBack => Exists(k.issue)
          BY <3>2, <4>2, <4>3 DEF CallOK, RollingBack, WithIssue
        <4> QED
          BY <1>2, <2>1, <4>1, <4>2, <4>3, <4>4 DEF LoneOK, Uncounted
      <3> QED
        BY <1>4, <3>2
    <2> QED
      BY <2>1, LoopAssumption
  <1> QED
    BY <1>2, <1>3, <1>4, <1>5, OwnStep

\* A step of a caller that leaves the store alone.
LEMMA ControlStep ==
  ASSUME Inv, NEW c \in Callers, NEW k \in Call, call' = [call EXCEPT ![c] = k],
         UNCHANGED <<issues, proposals, mode>>,
         CallOK(k), c \in Workers \/ (Alone => LoneOK(k))
  PROVE  Inv'
  BY QuietOwnStep, SameIssues, SameProposals DEF Inv

\* A caller that has nothing in hand.
LEMMA IdleOK == Idle \in Call /\ CallOK(Idle) /\ CallOK(Idle)' /\ LoneOK(Idle)
  <1>1. Idle \in Call
    BY DEF Idle, Call
  <1>2. /\ Idle.pc = "idle" /\ Idle.queue = {} /\ Idle.done = {} /\ Idle.todo = {}
    BY DEF Idle
  <1> QED
    BY <1>1, <1>2 DEF CallOK, LoneOK, WithIssue, WithApplied, RollingBack

\* A call that ends, or dies, owes nothing.
LEMMA IdleStep ==
  ASSUME Inv, NEW c \in Callers, call' = [call EXCEPT ![c] = Idle],
         UNCHANGED <<issues, proposals, mode>>
  PROVE  Inv'
  BY IdleOK, ControlStep

\* A caller is a worker or a monitor.
LEMMA CallerSets == Workers \subseteq Callers /\ Monitors \subseteq Callers
                    /\ Workers \cap Monitors = {}
  BY LoopAssumption DEF Callers

\* What is known of a call that is unfolded once for every action below.
LEMMA Hand ==
  ASSUME Inv, NEW c \in Callers
  PROVE  call[c] \in Call /\ CallOK(call[c]) /\ call \in [Callers -> Call]
  BY DEF Inv, TypeOK

\* What was looked up may be stale, and is not relied upon.
LEMMA SurfaceFindStep ==
  ASSUME Inv, NEW w \in Workers, NEW s \in Signatures, NEW t \in Traces,
         SurfaceFind(w, s, t)
  PROVE  Inv'
  <1>1. w \in Callers /\ call[w] \in Call /\ CallOK(call[w]) /\ call \in [Callers -> Call]
    BY CallerSets, Hand
  <1>2. UNCHANGED <<issues, proposals, mode>>
    BY DEF SurfaceFind
  <1>3. CASE call' = [call EXCEPT ![w].pc = "create", ![w].signature = s, ![w].trace = t]
    <2>1. PICK k : k = [call[w] EXCEPT !.pc = "create", !.signature = s, !.trace = t]
      OBVIOUS
    <2>2. k \in Call /\ call' = [call EXCEPT ![w] = k]
      BY <1>1, <1>3, <2>1 DEF Call
    <2>3. CallOK(k)
      BY <1>1, <2>1 DEF CallOK, Call, WithIssue, WithApplied, RollingBack
    <2> QED
      BY <1>1, <1>2, <2>2, <2>3, ControlStep
  <1>4. ASSUME NEW i \in Matches(s),
               call' = [call EXCEPT ![w].pc = "bundle", ![w].issue = i, ![w].trace = t]
        PROVE  Inv'
    <2>1. PICK k : k = [call[w] EXCEPT !.pc = "bundle", !.issue = i, !.trace = t]
      OBVIOUS
    <2>2. i \in Issues /\ Exists(i)
      BY DEF Matches
    <2>3. k \in Call /\ call' = [call EXCEPT ![w] = k]
      BY <1>1, <1>4, <2>1, <2>2 DEF Call
    <2>4. CallOK(k)
      BY <1>1, <2>1, <2>2 DEF CallOK, Call, WithIssue, WithApplied, RollingBack
    <2> QED
      BY <1>1, <1>2, <2>3, <2>4, ControlStep
  <1> QED
    BY <1>3, <1>4 DEF SurfaceFind

\* An entry named by the agent exists.
LEMMA MergeCheckStep ==
  ASSUME Inv, NEW w \in Workers, NEW i \in Issues, NEW t \in Traces, MergeCheck(w, i, t)
  PROVE  Inv'
  <1>1. w \in Callers /\ call[w] \in Call /\ CallOK(call[w]) /\ call \in [Callers -> Call]
    BY CallerSets, Hand
  <1>2. PICK k : k = [call[w] EXCEPT !.pc = "bundle", !.issue = i, !.trace = t]
    OBVIOUS
  <1>3. k \in Call /\ call' = [call EXCEPT ![w] = k]
    BY <1>1, <1>2 DEF Call, MergeCheck
  <1>4. CallOK(k)
    BY <1>1, <1>2 DEF CallOK, Call, WithIssue, WithApplied, RollingBack, MergeCheck
  <1> QED
    BY <1>1, <1>3, <1>4, ControlStep DEF MergeCheck

\* The row a worker is about to count up is one it has seen.
LEMMA BundleReadStep ==
  ASSUME Inv, NEW w \in Workers, BundleRead(w)
  PROVE  Inv'
  <1>1. w \in Callers /\ call[w] \in Call /\ CallOK(call[w]) /\ call \in [Callers -> Call]
    BY CallerSets, Hand
  <1>2. PICK i : i = call[w].issue
    OBVIOUS
  <1>3. i \in Issues /\ Exists(i) /\ issues[i] \in Issue /\ RowOK(i, issues[i])
    BY <1>1, <1>2, Rows DEF BundleRead, CallOK, WithIssue, Inv, StoreInv
  <1>4. PICK row : row = issues[i]
    OBVIOUS
  <1>5. PICK k : k = [call[w] EXCEPT !.pc = "bundling", !.row = row]
    OBVIOUS
  <1>6. k \in Call /\ call' = [call EXCEPT ![w] = k]
    <2> HIDE DEF Issue
    <2> QED
      BY <1>1, <1>2, <1>3, <1>4, <1>5 DEF Call, BundleRead
  <1>7. Seen(i, row)
    <2>1. row.observed \in Nat
      BY <1>3, <1>4 DEF Issue
    <2> QED
      BY <1>3, <1>4, <2>1 DEF Seen, RowOK
  <1>8. CallOK(k)
    BY <1>1, <1>2, <1>3, <1>5, <1>7 DEF CallOK, Call, WithIssue, WithApplied, RollingBack, BundleRead
  <1> QED
    BY <1>1, <1>6, <1>8, ControlStep DEF BundleRead

\* The candidates that were listed exist.
LEMMA LoopStartStep ==
  ASSUME Inv, NEW w \in Workers, LoopStart(w)
  PROVE  Inv'
  <1>1. w \in Callers /\ call[w] \in Call /\ CallOK(call[w]) /\ call \in [Callers -> Call]
    BY CallerSets, Hand
  <1>2. PICK todo \in SUBSET Issues :
          todo = {i \in Issues : Exists(i) /\ issues[i].status \in Candidates}
    OBVIOUS
  <1>3. PICK k : k = [call[w] EXCEPT !.pc = "gate1", !.mode = mode, !.todo = todo]
    OBVIOUS
  <1>4. k \in Call /\ call' = [call EXCEPT ![w] = k]
    BY <1>1, <1>2, <1>3 DEF Call, LoopStart, Inv, TypeOK
  <1>5. CallOK(k)
    BY <1>1, <1>2, <1>3 DEF CallOK, Call, WithIssue, WithApplied, RollingBack, LoopStart
  <1> QED
    BY <1>1, <1>4, <1>5, ControlStep DEF LoopStart

\* Gate 1 lets an issue pass by itself only after two observations of it.
LEMMA GateAsksTwice ==
  ASSUME Inv, NEW i \in Issues, Exists(i), EvaluateGate1(issues[i], "autonomous"),
         RecurrenceThreshold > 1
  PROVE  issues[i].observed >= 2
  <1>1. issues[i] \in Issue /\ RowOK(i, issues[i]) /\ RecurrenceThreshold \in Nat
    BY Rows DEF Inv, StoreInv
  <1>2. issues[i].recurrence \in Nat /\ issues[i].observed \in Nat
    BY <1>1 DEF Issue
  <1>3. issues[i].recurrence >= 2
    BY <1>1, <1>2 DEF EvaluateGate1
  <1> QED
    BY <1>1, <1>2, <1>3 DEF RowOK

\* A candidate that passes gate 1 without a human was observed twice
\* (evaluate_gate1).
LEMMA Gate1Step ==
  ASSUME Inv, NEW w \in Workers, NEW i \in Issues, Gate1(w, i)
  PROVE  Inv'
  <1>1. w \in Callers /\ call[w] \in Call /\ CallOK(call[w]) /\ call \in [Callers -> Call]
    BY CallerSets, Hand
  <1>2. UNCHANGED <<issues, proposals, mode>> /\ call[w].pc = "gate1" /\ i \in call[w].todo
    BY DEF Gate1
  <1>3. CASE EvaluateGate1(issues[i], call[w].mode)
    <2>1. PICK k : k = [call[w] EXCEPT !.pc = "accept", !.issue = i, !.todo = @ \ {i}]
      OBVIOUS
    <2>2. k \in Call /\ call' = [call EXCEPT ![w] = k]
      BY <1>1, <1>3, <2>1 DEF Call, Gate1
    <2>3. Exists(i)
      BY <1>1, <1>2 DEF CallOK
    <2>4. CallOK(k)
      BY <1>1, <1>2, <1>3, <2>1, <2>3, GateAsksTwice
      DEF CallOK, Call, WithIssue, WithApplied, RollingBack
    <2> QED
      BY <1>1, <1>2, <2>2, <2>4, ControlStep
  <1>4. CASE ~ EvaluateGate1(issues[i], call[w].mode)
    <2>1. PICK k : k = [call[w] EXCEPT !.todo = @ \ {i}]
      OBVIOUS
    <2>2. k \in Call /\ call' = [call EXCEPT ![w] = k]
      BY <1>1, <1>4, <2>1 DEF Call, Gate1
    <2>3. CallOK(k)
      BY <1>1, <1>2, <2>1 DEF CallOK, Call, WithIssue, WithApplied, RollingBack
    <2> QED
      BY <1>1, <1>2, <2>2, <2>3, ControlStep
  <1> QED
    BY <1>3, <1>4

\* A run that authored nothing ends.
LEMMA Gate1EndStep ==
  ASSUME Inv, NEW w \in Workers, Gate1End(w)
  PROVE  Inv'
  <1>1. w \in Callers /\ call[w] \in Call /\ CallOK(call[w]) /\ call \in [Callers -> Call]
    BY CallerSets, Hand
  <1>2. CASE call[w].done = {}
    BY <1>1, <1>2, IdleStep DEF Gate1End
  <1>3. CASE call[w].done # {}
    <2>1. PICK k : k = [call[w] EXCEPT !.pc = "autonomy"]
      OBVIOUS
    <2>2. k \in Call /\ call' = [call EXCEPT ![w] = k]
      BY <1>1, <1>3, <2>1 DEF Call, Gate1End
    <2>3. CallOK(k)
      BY <1>1, <2>1 DEF CallOK, Call, WithIssue, WithApplied, RollingBack
    <2> QED
      BY <1>1, <2>2, <2>3, ControlStep DEF Gate1End
  <1> QED
    BY <1>2, <1>3

\* A human's approval is bound to no count.
LEMMA HumanApproveStep ==
  ASSUME Inv, NEW w \in Workers, NEW i \in Issues, HumanApprove(w, i)
  PROVE  Inv'
  <1>1. w \in Callers /\ call[w] \in Call /\ CallOK(call[w]) /\ call \in [Callers -> Call]
    BY CallerSets, Hand
  <1>2. PICK k : k = [call[w] EXCEPT !.pc = "accept", !.issue = i, !.human = TRUE]
    OBVIOUS
  <1>3. k \in Call /\ call' = [call EXCEPT ![w] = k]
    BY <1>1, <1>2 DEF Call, HumanApprove
  <1>4. CallOK(k)
    BY <1>1, <1>2 DEF CallOK, Call, WithIssue, WithApplied, RollingBack, HumanApprove
  <1> QED
    BY <1>1, <1>3, <1>4, ControlStep DEF HumanApprove

\* An issue is still there when it is about to be accepted.
LEMMA AcceptReadStep ==
  ASSUME Inv, NEW w \in Workers, AcceptRead(w)
  PROVE  Inv'
  <1>1. w \in Callers /\ call[w] \in Call /\ CallOK(call[w]) /\ call \in [Callers -> Call]
    BY CallerSets, Hand
  <1>2. CASE issues[call[w].issue].status = "dismissed"
    BY <1>1, <1>2, IdleStep DEF AcceptRead
  <1>3. CASE issues[call[w].issue].status # "dismissed"
    <2>1. PICK k : k = [call[w] EXCEPT !.pc = "accepting"]
      OBVIOUS
    <2>2. k \in Call /\ call' = [call EXCEPT ![w] = k]
      BY <1>1, <1>3, <2>1 DEF Call, AcceptRead
    <2>3. CallOK(k)
      BY <1>1, <2>1 DEF CallOK, Call, WithIssue, WithApplied, RollingBack, AcceptRead
    <2> QED
      BY <1>1, <2>2, <2>3, ControlStep DEF AcceptRead
  <1> QED
    BY <1>2, <1>3

\* A step that writes other columns of the row of its issue.
LEMMA ColumnStep ==
  ASSUME Inv, NEW w \in Workers, NEW i \in Issues, Exists(i), NEW row \in Issue,
         Assign(i, row),
         row.observed = issues[i].observed, row.recurrence = issues[i].recurrence,
         row.baseline = issues[i].baseline, row.stamped = issues[i].stamped,
         row.attempts = issues[i].attempts, row.blocked = issues[i].blocked,
         NEW k \in Call, call' = [call EXCEPT ![w] = k], CallOK(k),
         UNCHANGED <<proposals, mode>>
  PROVE  Inv'
  <1>1. QuietIssues
    BY QuietRow DEF Inv
  <1> QED
    BY <1>1, CallerSets, QuietOwnStep, SameProposals DEF Inv

\* Accepting an issue writes its status alone: no count and no watermark.
LEMMA AcceptWriteStep ==
  ASSUME Inv, NEW w \in Workers, AcceptWrite(w)
  PROVE  Inv'
  <1>1. w \in Callers /\ call[w] \in Call /\ CallOK(call[w]) /\ call \in [Callers -> Call]
    BY CallerSets, Hand
  <1>2. PICK i : i = call[w].issue
    OBVIOUS
  <1>3. i \in Issues /\ Exists(i) /\ issues[i] \in Issue
    BY <1>1, <1>2, Rows DEF AcceptWrite, CallOK, WithIssue, Inv
  <1>4. PICK human \in BOOLEAN : human = (issues[i].human \/ call[w].human)
    BY Zenon
  <1>5. PICK row : row = [issues[i] EXCEPT !.status = "accepted", !.human = human]
    OBVIOUS
  <1>6. /\ row \in Issue
        /\ row.observed = issues[i].observed /\ row.recurrence = issues[i].recurrence
        /\ row.baseline = issues[i].baseline /\ row.stamped = issues[i].stamped
        /\ row.attempts = issues[i].attempts /\ row.blocked = issues[i].blocked
    BY <1>3, <1>5 DEF Issue, Statuses
  <1>7. Assign(i, row)
    BY <1>2, <1>3, <1>4, <1>5 DEF AcceptWrite, Assign
  <1>8. PICK k : k = [call[w] EXCEPT !.pc = "author"]
    OBVIOUS
  <1>9. k \in Call /\ call' = [call EXCEPT ![w] = k]
    BY <1>1, <1>8 DEF Call, AcceptWrite
  <1>10. CallOK(k)
    BY <1>1, <1>8 DEF CallOK, Call, WithIssue, WithApplied, RollingBack, AcceptWrite
  <1> QED
    BY <1>1, <1>3, <1>6, <1>7, <1>9, <1>10, ColumnStep DEF AcceptWrite

\* A fix that was not authored leaves no trace.
LEMMA AuthorFailStep ==
  ASSUME Inv, NEW w \in Workers, AuthorFail(w)
  PROVE  Inv'
  <1>1. w \in Callers /\ call[w] \in Call /\ CallOK(call[w]) /\ call \in [Callers -> Call]
    BY CallerSets, Hand
  <1>2. CASE call' = [call EXCEPT ![w] = Idle]
    BY <1>1, <1>2, IdleStep DEF AuthorFail
  <1>3. CASE call' = [call EXCEPT ![w].pc = "gate1"]
    <2>1. PICK k : k = [call[w] EXCEPT !.pc = "gate1"]
      OBVIOUS
    <2>2. k \in Call /\ call' = [call EXCEPT ![w] = k]
      BY <1>1, <1>3, <2>1 DEF Call
    <2>3. CallOK(k)
      BY <1>1, <2>1 DEF CallOK, Call, WithIssue, WithApplied, RollingBack
    <2> QED
      BY <1>1, <2>2, <2>3, ControlStep DEF AuthorFail
  <1> QED
    BY <1>2, <1>3 DEF AuthorFail

\* A new proposal is pending and names an issue that exists.
LEMMA SubmitStep ==
  ASSUME Inv, NEW w \in Workers, NEW p \in Proposals, Submit(w, p)
  PROVE  Inv'
  <1>1. w \in Callers /\ call[w] \in Call /\ CallOK(call[w]) /\ call \in [Callers -> Call]
    BY CallerSets, Hand
  <1>2. PICK i : i = call[w].issue
    OBVIOUS
  <1>3. i \in Issues /\ Exists(i)
    BY <1>1, <1>2 DEF Submit, CallOK, WithIssue
  <1>4. PICK q : q = [issue |-> i, state |-> "pending"]
    OBVIOUS
  <1>5. q \in Proposal /\ q.issue = i
    BY <1>3, <1>4 DEF Proposal
  <1>6. proposals' = [proposals EXCEPT ![p] = q] /\ proposals[p] = None
    BY <1>2, <1>4 DEF Submit
  <1>7. ProposalsMoveOn
    BY <1>3, <1>5, <1>6, OneProposal DEF Inv
  <1>8. PICK only : only = IF call[w].human THEN p ELSE None
    OBVIOUS
  <1>9. PICK k : k = [call[w] EXCEPT !.pc = "link", !.done = @ \cup {p}, !.only = only]
    OBVIOUS
  <1>10. k \in Call /\ call' = [call EXCEPT ![w] = k]
    <2>1. k \in Call
      BY <1>1, <1>8, <1>9 DEF Call
    <2> QED
      BY <1>1, <1>8, <1>9, <2>1 DEF Submit
  <1>11. call[w].pc = "author" /\ QuietIssues
    BY SameIssues DEF Submit, Inv
  <1>12. CallOK(k)'
    <2>1. /\ k.pc = "link" /\ k.issue = i /\ k.queue = call[w].queue
          /\ k.done = call[w].done \cup {p} /\ k.todo = call[w].todo
      BY <1>1, <1>2, <1>9 DEF Call
    <2>2. \A j \in Issues : Exists(j) => Exists(j)'
      BY <1>11 DEF QuietIssues, Exists
    <2>3. k.todo \subseteq Issues /\ \A j \in k.todo : Exists(j)
      BY <1>1, <2>1 DEF CallOK, Call
    <2>4. \A r \in k.queue \cup k.done : proposals'[r] # None
      <3>1. \A r \in call[w].queue \cup call[w].done : r \in Proposals /\ proposals[r] # None
        BY <1>1 DEF CallOK, Call
      <3>2. proposals'[p] # None
        BY <1>5, <1>6, Rows DEF Inv, TypeOK
      <3> QED
        BY <2>1, <3>1, <3>2, <1>7 DEF ProposalsMoveOn
    <2> QED
      BY <1>3, <2>1, <2>2, <2>3, <2>4 DEF CallOK, WithIssue, WithApplied, RollingBack
  <1> QED
    BY <1>1, <1>7, <1>10, <1>11, <1>12, QuietOwnStep DEF Submit

\* Linking a proposal writes the columns no count depends on.
LEMMA LinkStep ==
  ASSUME Inv, NEW w \in Workers, Link(w)
  PROVE  Inv'
  <1>1. w \in Callers /\ call[w] \in Call /\ CallOK(call[w]) /\ call \in [Callers -> Call]
    BY CallerSets, Hand
  <1>2. PICK i : i = call[w].issue
    OBVIOUS
  <1>3. i \in Issues /\ Exists(i) /\ issues[i] \in Issue
    BY <1>1, <1>2, Rows DEF Link, CallOK, WithIssue, Inv
  <1>4. PICK row : row = [issues[i] EXCEPT !.status = "proposed"]
    OBVIOUS
  <1>5. /\ row \in Issue
        /\ row.observed = issues[i].observed /\ row.recurrence = issues[i].recurrence
        /\ row.baseline = issues[i].baseline /\ row.stamped = issues[i].stamped
        /\ row.attempts = issues[i].attempts /\ row.blocked = issues[i].blocked
    BY <1>3, <1>4 DEF Issue, Statuses
  <1>6. Assign(i, row)
    BY <1>2, <1>3, <1>4 DEF Link, Assign
  <1>7. PICK pc \in {"autonomy", "gate1"} :
          pc = IF call[w].human THEN "autonomy" ELSE "gate1"
    OBVIOUS
  <1>8. PICK k : k = [call[w] EXCEPT !.pc = pc, !.issue = None]
    OBVIOUS
  <1>9. k \in Call /\ call' = [call EXCEPT ![w] = k]
    <2>1. k \in Call
      BY <1>1, <1>7, <1>8 DEF Call
    <2> QED
      BY <1>1, <1>7, <1>8, <2>1 DEF Link
  <1>10. CallOK(k)
    BY <1>1, <1>7, <1>8 DEF CallOK, Call, WithIssue, WithApplied, RollingBack
  <1> QED
    BY <1>1, <1>3, <1>5, <1>6, <1>9, <1>10, ColumnStep DEF Link

\* Gate 2 by itself has one proposal in its list.
LEMMA DirectGate2Step ==
  ASSUME Inv, NEW w \in Workers, NEW p \in Proposals, DirectGate2(w, p)
  PROVE  Inv'
  <1>1. w \in Callers /\ call[w] \in Call /\ CallOK(call[w]) /\ call \in [Callers -> Call]
    BY CallerSets, Hand
  <1>2. PICK k : k = [call[w] EXCEPT !.pc = "autonomy", !.only = p]
    OBVIOUS
  <1>3. k \in Call /\ call' = [call EXCEPT ![w] = k]
    BY <1>1, <1>2 DEF Call, DirectGate2
  <1>4. CallOK(k)
    BY <1>1, <1>2 DEF CallOK, Call, WithIssue, WithApplied, RollingBack
  <1> QED
    BY <1>1, <1>3, <1>4, ControlStep DEF DirectGate2

\* The proposals that were listed exist, whatever becomes of them.
LEMMA AutonomyReadStep ==
  ASSUME Inv, NEW w \in Workers, AutonomyRead(w)
  PROVE  Inv'
  <1>1. w \in Callers /\ call[w] \in Call /\ call \in [Callers -> Call]
    BY CallerSets, Hand
  <1>2. CASE mode = "hitl"
    BY <1>1, <1>2, IdleStep DEF AutonomyRead
  <1>3. CASE mode # "hitl"
    <2>1. PICK queue \in SUBSET Proposals : queue = Pending
      BY DEF Pending
    <2>2. PICK k : k = [Idle EXCEPT !.pc = "apply", !.queue = queue, !.only = call[w].only]
      OBVIOUS
    <2>3. /\ k \in Call /\ k.pc = "apply" /\ k.queue = queue /\ k.done = {} /\ k.todo = {}
      BY <1>1, <2>1, <2>2 DEF Call, Idle
    <2>4. call' = [call EXCEPT ![w] = k]
      BY <1>3, <2>1, <2>2 DEF AutonomyRead
    <2>5. CallOK(k)
      BY <2>1, <2>3 DEF CallOK, WithIssue, WithApplied, RollingBack, Pending
    <2> QED
      BY <1>1, <2>3, <2>4, <2>5, ControlStep DEF AutonomyRead
  <1> QED
    BY <1>2, <1>3

\* What a caller in the apply loop has in hand, when it takes p from the queue.
LEMMA TakenFromQueue ==
  ASSUME Inv, NEW w \in Workers, NEW p \in Proposals, call[w].pc = "apply",
         p \in call[w].queue, QuietIssues, ProposalsMoveOn, UNCHANGED mode,
         call' = [call EXCEPT ![w].queue = @ \ {p},
           ![w].done = IF proposals'[p].state = "applied" THEN @ \cup {p} ELSE @]
  PROVE  Inv'
  <1>1. w \in Callers /\ call[w] \in Call /\ CallOK(call[w]) /\ call \in [Callers -> Call]
    BY CallerSets, Hand
  <1>2. PICK done : done = IF proposals'[p].state = "applied"
                           THEN call[w].done \cup {p} ELSE call[w].done
    OBVIOUS
  <1>3. /\ call[w].done \subseteq done /\ done \subseteq call[w].done \cup {p}
        /\ p \in done /\ p \notin call[w].done => proposals'[p].state = "applied"
    BY <1>2
  <1>4. PICK k : k = [call[w] EXCEPT !.queue = @ \ {p}, !.done = done]
    OBVIOUS
  <1>5. k \in Call
    BY <1>1, <1>3, <1>4 DEF Call
  <1>6. call' = [call EXCEPT ![w] = k]
    BY <1>1, <1>2, <1>4
  <1>7. /\ k.pc = "apply" /\ k.queue = call[w].queue \ {p} /\ k.done = done
        /\ k.todo = call[w].todo
    BY <1>1, <1>4 DEF Call
  <1>8. \A r \in call[w].queue \cup call[w].done :
          r \in Proposals /\ proposals[r] # None /\ proposals'[r] # None
    BY <1>1 DEF CallOK, Call, ProposalsMoveOn
  <1>9. \A r \in call[w].done : proposals'[r].state # "pending"
    BY <1>1, <1>8 DEF CallOK, WithApplied, ProposalsMoveOn
  <1>10. \A i \in k.todo : Exists(i)'
    BY <1>1, <1>7 DEF CallOK, Call, QuietIssues, Exists
  <1>11. CallOK(k)'
    <2>1. \A r \in k.queue \cup k.done : proposals'[r] # None
      BY <1>3, <1>7, <1>8
    <2>2. \A r \in k.done : proposals'[r].state # "pending"
      BY <1>3, <1>7, <1>9
    <2> QED
      BY <1>7, <1>10, <2>1, <2>2 DEF CallOK, WithIssue, WithApplied, RollingBack
  <1> QED
    BY <1>1, <1>5, <1>6, <1>11, QuietOwnStep

\* A proposal that exists moves on, and the row of its issue becomes active or not.
LEMMA ProposalAndRow ==
  ASSUME Inv, NEW p \in Proposals, proposals[p] # None,
         NEW state \in {"applied", "rolled_back"}, NEW active \in BOOLEAN,
         proposals' = [proposals EXCEPT ![p].state = state],
         Assign(proposals[p].issue, [issues[proposals[p].issue] EXCEPT !.active = active])
  PROVE  QuietIssues /\ ProposalsMoveOn
  <1>1. TypeOK /\ StoreInv /\ proposals[p] \in Proposal
    BY Rows DEF Inv
  <1>2. PICK i : i = proposals[p].issue
    OBVIOUS
  <1>3. i \in Issues /\ Exists(i) /\ issues[i] \in Issue
    BY <1>1, <1>2, Rows DEF Proposal, StoreInv
  <1>4. PICK q : q = [proposals[p] EXCEPT !.state = state]
    OBVIOUS
  <1>5. q \in Proposal /\ q.issue = i /\ q.state # "pending"
    BY <1>1, <1>2, <1>4 DEF Proposal
  <1>6. proposals' = [proposals EXCEPT ![p] = q]
    BY <1>4
  <1>7. PICK row : row = [issues[i] EXCEPT !.active = active]
    OBVIOUS
  <1>8. /\ row \in Issue
        /\ row.observed = issues[i].observed /\ row.recurrence = issues[i].recurrence
        /\ row.baseline = issues[i].baseline /\ row.stamped = issues[i].stamped
        /\ row.attempts = issues[i].attempts /\ row.blocked = issues[i].blocked
    BY <1>3, <1>7 DEF Issue
  <1>9. Assign(i, row)
    BY <1>2, <1>7
  <1>10. QuietIssues
    BY <1>1, <1>3, <1>8, <1>9, QuietRow
  <1>11. ProposalsMoveOn
    <2>1. Exists(q.issue) /\ q.issue = proposals[p].issue
      BY <1>2, <1>3, <1>5
    <2> QED
      BY <1>1, <1>5, <1>6, <2>1, OneProposal
  <1> QED
    BY <1>10, <1>11

\* What the loop notes as applied has left the pending state, whoever applied it.
LEMMA ApplyOneStep ==
  ASSUME Inv, NEW w \in Workers, NEW p \in Proposals, ApplyOne(w, p)
  PROVE  Inv'
  <1>1. /\ call[w].pc = "apply" /\ p \in call[w].queue /\ UNCHANGED mode
        /\ call' = [call EXCEPT ![w].queue = @ \ {p},
             ![w].done = IF proposals'[p].state = "applied" THEN @ \cup {p} ELSE @]
    BY DEF ApplyOne
  <1>2. QuietIssues /\ ProposalsMoveOn
    <2>1. CASE UNCHANGED <<issues, proposals>>
      BY <2>1, SameIssues, SameProposals DEF Inv
    <2>2. CASE /\ proposals' = [proposals EXCEPT ![p].state = "applied"]
               /\ Assign(proposals[p].issue, [issues[proposals[p].issue] EXCEPT
                           !.active = @ \/ Section[p] = "context"])
      <3>1. proposals[p] # None
        BY <1>1, CallerSets, Hand DEF CallOK
      <3>2. PICK active \in BOOLEAN :
              active = (issues[proposals[p].issue].active \/ Section[p] = "context")
        BY Zenon
      <3>3. Assign(proposals[p].issue, [issues[proposals[p].issue] EXCEPT !.active = active])
        BY <2>2, <3>2
      <3> QED
        BY <2>2, <3>1, <3>3, ProposalAndRow
    <2> QED
      BY <2>1, <2>2 DEF ApplyOne
  <1> QED
    BY <1>1, <1>2, TakenFromQueue

\* A list that is worked off leaves what was noted.
LEMMA ApplyEndStep ==
  ASSUME Inv, NEW w \in Workers, ApplyEnd(w)
  PROVE  Inv'
  <1>1. w \in Callers /\ call[w] \in Call /\ CallOK(call[w]) /\ call \in [Callers -> Call]
    BY CallerSets, Hand
  <1>2. PICK k : k = [call[w] EXCEPT !.pc = "mark", !.only = None]
    OBVIOUS
  <1>3. k \in Call /\ call' = [call EXCEPT ![w] = k]
    BY <1>1, <1>2 DEF Call, ApplyEnd
  <1>4. CallOK(k)
    BY <1>1, <1>2 DEF CallOK, Call, WithIssue, WithApplied, RollingBack, ApplyEnd
  <1> QED
    BY <1>1, <1>3, <1>4, ControlStep DEF ApplyEnd

\* The row whose count becomes the watermark is one the loop has seen, and a fix
\* of it went live.
LEMMA MarkReadStep ==
  ASSUME Inv, NEW w \in Workers, NEW p \in Proposals, MarkRead(w, p)
  PROVE  Inv'
  <1>1. w \in Callers /\ call[w] \in Call /\ CallOK(call[w]) /\ call \in [Callers -> Call]
    BY CallerSets, Hand
  <1>2. proposals[p] \in Proposal /\ proposals[p] # None /\ proposals[p].state # "pending"
    BY <1>1, Rows DEF MarkRead, CallOK, WithApplied, Inv
  <1>3. PICK i : i = proposals[p].issue
    OBVIOUS
  <1>4. /\ i \in Issues /\ Exists(i) /\ issues[i] \in Issue /\ RowOK(i, issues[i])
        /\ WentLive(i)
    BY <1>2, <1>3, Rows DEF Proposal, Inv, StoreInv, WentLive, Fixes
  <1>5. PICK row : row = issues[i]
    OBVIOUS
  <1>6. PICK k : k = [call[w] EXCEPT !.pc = "marking", !.done = @ \ {p}, !.issue = i,
                                     !.row = row]
    OBVIOUS
  <1>7. k \in Call
    <2> HIDE DEF Issue
    <2> QED
      BY <1>1, <1>4, <1>5, <1>6 DEF Call
  <1>8. call' = [call EXCEPT ![w] = k]
    BY <1>1, <1>3, <1>5, <1>6 DEF MarkRead
  <1>9. Seen(i, row)
    <2>1. row.observed \in Nat
      BY <1>4, <1>5 DEF Issue
    <2> QED
      BY <1>4, <1>5, <2>1 DEF Seen, RowOK
  <1>10. CallOK(k)
    BY <1>1, <1>4, <1>6, <1>9 DEF CallOK, Call, WithIssue, WithApplied, RollingBack, MarkRead
  <1> QED
    BY <1>1, <1>7, <1>8, <1>10, ControlStep DEF MarkRead

\* Resolving writes no count.
LEMMA ResolveStep ==
  ASSUME Inv, NEW w \in Workers, Resolve(w)
  PROVE  Inv'
  <1>1. w \in Callers /\ call[w] \in Call /\ CallOK(call[w]) /\ call \in [Callers -> Call]
    BY CallerSets, Hand
  <1>2. PICK i : i = call[w].issue
    OBVIOUS
  <1>3. i \in Issues /\ Exists(i) /\ issues[i] \in Issue
    BY <1>1, <1>2, Rows DEF Resolve, CallOK, WithIssue, Inv
  <1>4. PICK row : row = [issues[i] EXCEPT !.status = "resolved"]
    OBVIOUS
  <1>5. /\ row \in Issue
        /\ row.observed = issues[i].observed /\ row.recurrence = issues[i].recurrence
        /\ row.baseline = issues[i].baseline /\ row.stamped = issues[i].stamped
        /\ row.attempts = issues[i].attempts /\ row.blocked = issues[i].blocked
    BY <1>3, <1>4 DEF Issue, Statuses
  <1>6. Assign(i, row)
    BY <1>2, <1>3, <1>4 DEF Resolve, Assign
  <1>7. PICK k : k = [call[w] EXCEPT !.pc = "guard"]
    OBVIOUS
  <1>8. k \in Call /\ call' = [call EXCEPT ![w] = k]
    BY <1>1, <1>7 DEF Call, Resolve
  <1>9. CallOK(k)
    BY <1>1, <1>7 DEF CallOK, Call, WithIssue, WithApplied, RollingBack, Resolve
  <1> QED
    BY <1>1, <1>3, <1>5, <1>6, <1>8, <1>9, ColumnStep DEF Resolve

\* Registering a guard writes no count.
LEMMA MintGuardStep ==
  ASSUME Inv, NEW w \in Workers, MintGuard(w)
  PROVE  Inv'
  <1>1. w \in Callers /\ call[w] \in Call /\ CallOK(call[w]) /\ call \in [Callers -> Call]
    BY CallerSets, Hand
  <1>2. PICK i : i = call[w].issue
    OBVIOUS
  <1>3. i \in Issues /\ Exists(i) /\ issues[i] \in Issue
    BY <1>1, <1>2, Rows DEF MintGuard, CallOK, WithIssue, Inv
  <1>4. PICK row : row = [issues[i] EXCEPT !.status = "guarded", !.guard = TRUE]
    OBVIOUS
  <1>5. /\ row \in Issue
        /\ row.observed = issues[i].observed /\ row.recurrence = issues[i].recurrence
        /\ row.baseline = issues[i].baseline /\ row.stamped = issues[i].stamped
        /\ row.attempts = issues[i].attempts /\ row.blocked = issues[i].blocked
    BY <1>3, <1>4 DEF Issue, Statuses
  <1>6. PICK k : k = [call[w] EXCEPT !.pc = "mark", !.issue = None]
    OBVIOUS
  <1>7. k \in Call /\ call' = [call EXCEPT ![w] = k]
    BY <1>1, <1>6 DEF Call, MintGuard
  <1>8. CallOK(k)
    BY <1>1, <1>6 DEF CallOK, Call, WithIssue, WithApplied, RollingBack, MintGuard
  <1>9. CASE UNCHANGED issues
    BY <1>1, <1>7, <1>8, <1>9, ControlStep DEF MintGuard
  <1>10. CASE Assign(i, row)
    BY <1>1, <1>3, <1>5, <1>7, <1>8, <1>10, ColumnStep DEF MintGuard
  <1> QED
    BY <1>2, <1>3, <1>4, <1>9, <1>10 DEF MintGuard, Assign

\* A run of the loop ends.
LEMMA LoopEndStep ==
  ASSUME Inv, NEW w \in Workers, LoopEnd(w)
  PROVE  Inv'
  BY CallerSets, IdleStep DEF LoopEnd

--------------------------------------------------------------------------------
(* Steps that count. *)

\* One row is written, its counts go up or stay, and it is as a row should be.
LEMMA RowStep ==
  ASSUME TypeOK, StoreInv, NEW i \in Issues, Exists(i), NEW row \in Issue,
         Assign(i, row), RowOK(i, row), issues[i].observed <= row.observed,
         row.observed = issues[i].observed => row.recurrence = issues[i].recurrence,
         UNCHANGED proposals
  PROVE  /\ Grows /\ StoreInv'
         /\ issues' \in [Issues -> Issue \cup {None}]
         /\ row.attempts = issues[i].attempts /\ row.blocked = issues[i].blocked => Uncounted
  <1>1. row # None /\ \A j \in Issues : Exists(j) => issues[j].observed \in Nat
    <2>1. \A j \in Issues : Exists(j) => issues[j] \in Issue
      BY Rows
    <2>2. row # None
      BY Rows
    <2> QED
      BY <2>1, <2>2 DEF Issue
  <1>2. /\ issues \in [Issues -> Issue \cup {None}]
        /\ proposals \in [Proposals -> Proposal \cup {None}]
        /\ \A p \in Proposals : proposals[p] # None => proposals[p].issue \in Issues
    BY Rows DEF TypeOK, Proposal
  <1>3. /\ issues' \in [Issues -> Issue \cup {None}]
        /\ issues'[i] = row
        /\ \A j \in Issues : j # i => issues'[j] = issues[j]
    <2> HIDE DEF Issue
    <2> QED
      BY <1>2 DEF Assign
  <1>4. Grows
    BY <1>1, <1>3 DEF Grows, Exists
  <1>5. ASSUME NEW j \in Issues, issues'[j] # None
        PROVE  RowOK(j, issues[j])'
    <2>1. \A x \in Issues : WentLive(x) <=> WentLive(x)'
      BY DEF WentLive, Fixes
    <2>2. CASE j = i
      BY <1>3, <2>1, <2>2 DEF RowOK
    <2>3. CASE j # i
      BY <1>3, <1>5, <2>1, <2>3 DEF RowOK, StoreInv, Exists
    <2> QED
      BY <2>2, <2>3
  <1>6. StoreInv'
    BY <1>1, <1>2, <1>3, <1>5 DEF StoreInv, Exists
  <1>7. row.attempts = issues[i].attempts /\ row.blocked = issues[i].blocked => Uncounted
    BY <1>3 DEF Uncounted, Exists
  <1> QED
    BY <1>3, <1>4, <1>6, <1>7

\* A new row.
LEMMA CreateStep ==
  ASSUME Inv, NEW signature \in Signatures \cup {None}, NEW status \in Statuses,
         NEW severe \in BOOLEAN, NEW t \in Traces, NEW source \in Issues \cup {None},
         Create(NewIssue(signature, status, severe, {t}, source)), UNCHANGED proposals
  PROVE  Grows /\ Uncounted /\ StoreInv' /\ issues' \in [Issues -> Issue \cup {None}]
  <1>1. PICK row : row = NewIssue(signature, status, severe, {t}, source)
    OBVIOUS
  <1>2. /\ row \in Issue /\ row.recurrence = 1 /\ row.observed = 1 /\ row.baseline = None
        /\ row.attempts = 0 /\ row.blocked = FALSE
    <2>1. row.attempts \in Nat /\ 1 \in Nat
      BY <1>1 DEF NewIssue
    <2> QED
      BY <1>1, <2>1 DEF NewIssue, Issue
  <1>3. PICK i \in Issues : ~ Exists(i) /\ Assign(i, row)
    BY <1>1 DEF Create
  <1>4. /\ issues \in [Issues -> Issue \cup {None}]
        /\ proposals \in [Proposals -> Proposal \cup {None}]
        /\ \A p \in Proposals : proposals[p] # None => proposals[p].issue \in Issues
    BY Rows DEF TypeOK, Proposal, Inv
  <1>5. /\ issues' \in [Issues -> Issue \cup {None}]
        /\ issues'[i] = row
        /\ \A j \in Issues : j # i => issues'[j] = issues[j]
    <2> HIDE DEF Issue
    <2> QED
      BY <1>2, <1>3, <1>4 DEF Assign
  <1>6. \A j \in Issues : Exists(j) => issues[j].observed \in Nat
    <2>1. \A j \in Issues : Exists(j) => issues[j] \in Issue
      BY Rows DEF Inv
    <2> QED
      BY <2>1 DEF Issue
  <1>7. Grows /\ Uncounted
    BY <1>2, <1>3, <1>5, <1>6 DEF Grows, Uncounted, Exists
  <1>8. ASSUME NEW j \in Issues, issues'[j] # None
        PROVE  RowOK(j, issues[j])'
    <2>1. \A x \in Issues : WentLive(x) <=> WentLive(x)'
      BY DEF WentLive, Fixes
    <2>2. CASE j = i
      BY <1>2, <1>5, <2>1, <2>2 DEF RowOK
    <2>3. CASE j # i
      BY <1>5, <1>8, <2>1, <2>3 DEF RowOK, StoreInv, Exists, Inv
    <2> QED
      BY <2>2, <2>3
  <1>9. StoreInv'
    <2>1. row # None
      BY <1>2, Rows DEF Inv
    <2> QED
      BY <1>3, <1>4, <1>5, <1>8, <2>1 DEF StoreInv, Exists, Inv
  <1> QED
    BY <1>5, <1>7, <1>9

\* A step of a worker that counts nothing about attempts.
LEMMA CountStep ==
  ASSUME Inv, NEW w \in Workers, NEW k \in Call, call' = [call EXCEPT ![w] = k],
         CallOK(k), Grows, Uncounted, StoreInv',
         issues' \in [Issues -> Issue \cup {None}], UNCHANGED <<proposals, mode>>
  PROVE  Inv'
  <1>1. TypeOK'
    <2> HIDE DEF Issue, Proposal, Call
    <2> QED
      BY CallerSets DEF Inv, TypeOK
  <1>2. CallOK(k)'
    BY <1>1, CallKept DEF Inv
  <1> QED
    BY <1>1, <1>2, CallerSets, OwnStep

\* A new issue was observed once and has no watermark.
LEMMA SurfaceCreateStep ==
  ASSUME Inv, NEW w \in Workers, SurfaceCreate(w)
  PROVE  Inv'
  <1>1. w \in Callers /\ call[w] \in Call /\ CallOK(call[w])
    BY CallerSets, Hand
  <1>2. PICK status \in {"open", "diagnosed"}, severe \in Severities :
          Create(NewIssue(call[w].signature, status, severe, {call[w].trace}, None))
    BY DEF SurfaceCreate
  <1>3. PICK s \in Signatures \cup {None}, t \in Traces : s = call[w].signature /\ t = call[w].trace
    BY <1>1 DEF SurfaceCreate, CallOK, Call
  <1>4. severe \in BOOLEAN /\ status \in Statuses
    BY LoopAssumption DEF Statuses
  <1>5. Grows /\ Uncounted /\ StoreInv' /\ issues' \in [Issues -> Issue \cup {None}]
    BY <1>2, <1>3, <1>4, CreateStep DEF SurfaceCreate
  <1> QED
    BY <1>5, IdleOK, CountStep DEF SurfaceCreate

\* A worker that counts up over what another counted has still observed: the
\* count moves only together with the observations.
LEMMA BundleWriteStep ==
  ASSUME Inv, NEW w \in Workers, BundleWrite(w)
  PROVE  Inv'
  <1>1. w \in Callers /\ call[w] \in Call /\ CallOK(call[w])
    BY CallerSets, Hand
  <1>2. PICK i, read : i = call[w].issue /\ read = call[w].row
    OBVIOUS
  <1>3. PICK t \in Traces : t = call[w].trace
    BY <1>1 DEF BundleWrite, CallOK
  <1>4. /\ i \in Issues /\ Exists(i) /\ issues[i] \in Issue /\ RowOK(i, issues[i])
        /\ Seen(i, read)
    BY <1>1, <1>2, Rows DEF BundleWrite, CallOK, WithIssue, Inv, StoreInv
  <1>5. PICK status : status = IF read.status \in ReopenFrom THEN "open" ELSE issues[i].status
    OBVIOUS
  <1>6. PICK row : row = [issues[i] EXCEPT !.recurrence = read.recurrence + 1,
                            !.evidence = read.evidence \cup {t}, !.status = status,
                            !.observed = @ + 1]
    OBVIOUS
  <1>7. /\ read.recurrence \in Nat /\ read.observed \in Nat /\ read.evidence \subseteq Traces
        /\ issues[i].observed \in Nat /\ issues[i].status \in Statuses
    BY <1>4 DEF Seen, Issue
  <1>8. status \in Statuses
    BY <1>5, <1>7 DEF Statuses
  <1>9. /\ row \in Issue
        /\ row.observed = issues[i].observed + 1 /\ row.recurrence = read.recurrence + 1
        /\ row.baseline = issues[i].baseline /\ row.stamped = issues[i].stamped
        /\ row.attempts = issues[i].attempts /\ row.blocked = issues[i].blocked
    <2>1. read.recurrence + 1 \in Nat /\ issues[i].observed + 1 \in Nat
      BY <1>7
    <2> QED
      BY <1>4, <1>6, <1>7, <1>8, <2>1 DEF Issue
  <1>10. Assign(i, row)
    BY <1>2, <1>3, <1>5, <1>6 DEF BundleWrite, Assign
  <1>11. RowOK(i, row)
    <2>1. issues[i].baseline # None => issues[i].stamped.observed \in Nat
      BY <1>4 DEF RowOK, Issue, Stamp
    <2> QED
      BY <1>4, <1>7, <1>9, <2>1 DEF RowOK, Seen
  <1>12. Grows /\ Uncounted /\ StoreInv' /\ issues' \in [Issues -> Issue \cup {None}]
    BY <1>4, <1>7, <1>9, <1>10, <1>11, RowStep DEF BundleWrite, Inv
  <1> QED
    BY <1>12, IdleOK, CountStep DEF BundleWrite

\* A watermark that was read earlier is below what was observed since
\* (mark_issue_applied).
LEMMA MarkWriteStep ==
  ASSUME Inv, NEW w \in Workers, MarkWrite(w)
  PROVE  Inv'
  <1>1. w \in Callers /\ call[w] \in Call /\ CallOK(call[w]) /\ call \in [Callers -> Call]
    BY CallerSets, Hand
  <1>2. PICK i, read : i = call[w].issue /\ read = call[w].row
    OBVIOUS
  <1>3. /\ i \in Issues /\ Exists(i) /\ issues[i] \in Issue /\ RowOK(i, issues[i])
        /\ Seen(i, read) /\ WentLive(i)
    BY <1>1, <1>2, Rows DEF MarkWrite, CallOK, WithIssue, Inv, StoreInv
  <1>4. PICK stamp : stamp = [observed |-> read.observed, evidence |-> read.evidence]
    OBVIOUS
  <1>5. /\ read.recurrence \in Nat /\ read.observed \in Nat /\ read.evidence \subseteq Traces
        /\ issues[i].observed \in Nat /\ issues[i].recurrence \in Nat
    BY <1>3 DEF Seen, Issue
  <1>6. stamp \in Stamp /\ stamp.observed = read.observed /\ stamp # None
    BY <1>4, <1>5, NoneAssumption DEF Stamp
  <1>7. PICK row : row = [issues[i] EXCEPT !.baseline = read.recurrence, !.stamped = stamp]
    OBVIOUS
  <1>8. /\ row \in Issue
        /\ row.observed = issues[i].observed /\ row.recurrence = issues[i].recurrence
        /\ row.baseline = read.recurrence /\ row.stamped = stamp
        /\ row.attempts = issues[i].attempts /\ row.blocked = issues[i].blocked
    BY <1>3, <1>5, <1>6, <1>7 DEF Issue
  <1>9. Assign(i, row)
    BY <1>2, <1>4, <1>7 DEF MarkWrite, Assign
  <1>10. RowOK(i, row)
    BY <1>3, <1>5, <1>6, <1>8 DEF RowOK, Seen
  <1>11. Grows /\ Uncounted /\ StoreInv' /\ issues' \in [Issues -> Issue \cup {None}]
    BY <1>3, <1>5, <1>8, <1>9, <1>10, RowStep DEF MarkWrite, Inv
  <1>12. PICK k : k = [call[w] EXCEPT !.pc = "resolve", !.row = None]
    OBVIOUS
  <1>13. k \in Call /\ call' = [call EXCEPT ![w] = k]
    BY <1>1, <1>12 DEF Call, MarkWrite
  <1>14. CallOK(k)
    BY <1>1, <1>12 DEF CallOK, Call, WithIssue, WithApplied, RollingBack, MarkWrite
  <1> QED
    BY <1>11, <1>13, <1>14, CountStep DEF MarkWrite

--------------------------------------------------------------------------------
(* The guard monitor. *)

\* The issues a monitor lists are watched, and nobody has escalated them.
LEMMA MonitorStartStep ==
  ASSUME Inv, NEW m \in Monitors, MonitorStart(m)
  PROVE  Inv'
  <1>1. m \in Callers /\ call[m] \in Call /\ CallOK(call[m]) /\ call \in [Callers -> Call]
    BY CallerSets, Hand
  <1>2. PICK todo \in SUBSET Issues : todo = {i \in Issues : Watermarked(i)}
    OBVIOUS
  <1>3. PICK k : k = [call[m] EXCEPT !.pc = "monitor", !.mode = mode, !.todo = todo]
    OBVIOUS
  <1>4. k \in Call /\ call' = [call EXCEPT ![m] = k]
    BY <1>1, <1>2, <1>3 DEF Call, MonitorStart, Inv, TypeOK
  <1>5. CallOK(k) /\ LoneOK(k)
    BY <1>1, <1>2, <1>3
    DEF CallOK, LoneOK, Call, WithIssue, WithApplied, RollingBack, Watermarked
  <1> QED
    BY <1>1, <1>4, <1>5, ControlStep DEF MonitorStart

\* What a lone monitor knows of its own call.
LEMMA LoneHand ==
  ASSUME Inv, Alone, NEW m \in Monitors
  PROVE  LoneOK(call[m])
  BY DEF Inv, LoneInv

\* A confirmed regression was observed after the watermark.
LEMMA RegressedWasObserved ==
  ASSUME Inv, NEW i \in Issues, Exists(i), Regressed(issues[i])
  PROVE  issues[i].stamped # None /\ issues[i].observed > issues[i].stamped.observed
  <1>1. issues[i] \in Issue /\ RowOK(i, issues[i]) /\ RegressionThreshold \in Nat \ {0}
    BY Rows DEF Inv, StoreInv
  <1>2. issues[i].stamped \in Stamp /\ issues[i].baseline \in Nat
    BY <1>1 DEF Issue, RowOK, Regressed
  <1>3. issues[i].stamped.observed \in Nat /\ issues[i].observed \in Nat /\ issues[i].recurrence \in Nat
    BY <1>1, <1>2 DEF Issue, Stamp
  <1> QED
    BY <1>1, <1>2, <1>3 DEF RowOK, Regressed

\* A count above the watermark means an observation after it: the regression
\* is confirmed (Regressed).
LEMMA MonitorCheckStep ==
  ASSUME Inv, NEW m \in Monitors, NEW i \in Issues, MonitorCheck(m, i)
  PROVE  Inv'
  <1>1. m \in Callers /\ call[m] \in Call /\ CallOK(call[m]) /\ call \in [Callers -> Call]
    BY CallerSets, Hand
  <1>2. UNCHANGED <<issues, proposals, mode>> /\ call[m].pc = "monitor" /\ i \in call[m].todo
    BY DEF MonitorCheck
  <1>3. CASE Regressed(issues[i]) /\ call[m].mode = "autonomous"
    <2>1. PICK row : row = issues[i]
      OBVIOUS
    <2>2. PICK k : k = [call[m] EXCEPT !.pc = "list", !.issue = i, !.row = row, !.todo = @ \ {i}]
      OBVIOUS
    <2>3. Exists(i) /\ row \in Issue
      BY <1>1, <1>2, <2>1, Rows DEF CallOK, Inv
    <2>4. k \in Call /\ call' = [call EXCEPT ![m] = k]
      <3> HIDE DEF Issue
      <3>1. k \in Call
        BY <1>1, <2>2, <2>3 DEF Call
      <3> QED
        BY <1>1, <1>3, <2>1, <2>2, <3>1 DEF MonitorCheck
    <2>5. row.stamped # None /\ row.observed > row.stamped.observed
      BY <1>3, <2>1, <2>3, RegressedWasObserved
    <2>6. /\ k.pc = "list" /\ k.issue = i /\ k.row = row /\ k.todo = call[m].todo \ {i}
          /\ k.queue = call[m].queue /\ k.done = call[m].done
      BY <1>1, <2>2 DEF Call
    <2>7. CallOK(k)
      BY <1>1, <1>2, <2>3, <2>5, <2>6 DEF CallOK, WithIssue, WithApplied, RollingBack
    <2>8. Alone => LoneOK(k)
      BY <1>2, <2>1, <2>6, LoneHand DEF LoneOK, RollingBack
    <2> QED
      BY <1>1, <1>2, <2>4, <2>7, <2>8, ControlStep
  <1>4. CASE ~ (Regressed(issues[i]) /\ call[m].mode = "autonomous")
    <2>1. PICK k : k = [call[m] EXCEPT !.todo = @ \ {i}]
      OBVIOUS
    <2>2. k \in Call /\ call' = [call EXCEPT ![m] = k]
      BY <1>1, <1>4, <2>1 DEF Call, MonitorCheck
    <2>3. CallOK(k)
      BY <1>1, <1>2, <2>1 DEF CallOK, Call, WithIssue, WithApplied, RollingBack
    <2>4. Alone => LoneOK(k)
      BY <1>1, <1>2, <2>1, LoneHand DEF LoneOK, Call, RollingBack
    <2> QED
      BY <1>1, <1>2, <2>2, <2>3, <2>4, ControlStep
  <1> QED
    BY <1>3, <1>4

\* The proposals a monitor lists were applied, and are of its issue.
LEMMA RollbackListStep ==
  ASSUME Inv, NEW m \in Monitors, RollbackList(m)
  PROVE  Inv'
  <1>1. m \in Callers /\ call[m] \in Call /\ CallOK(call[m]) /\ call \in [Callers -> Call]
    BY CallerSets, Hand
  <1>2. PICK queue \in SUBSET Proposals :
          queue = {p \in Proposals : proposals[p] # None
                     /\ proposals[p].issue = call[m].issue /\ proposals[p].state = "applied"}
    OBVIOUS
  <1>3. PICK k : k = [call[m] EXCEPT !.pc = "rollback", !.flag = FALSE, !.queue = queue]
    OBVIOUS
  <1>4. k \in Call /\ call' = [call EXCEPT ![m] = k]
    BY <1>1, <1>2, <1>3 DEF Call, RollbackList
  <1>5. CallOK(k)
    BY <1>1, <1>2, <1>3 DEF CallOK, Call, WithIssue, WithApplied, RollingBack, RollbackList
  <1>6. Alone => LoneOK(k)
    BY <1>1, <1>3, LoneHand DEF LoneOK, Call, RollingBack, RollbackList
  <1> QED
    BY <1>1, <1>4, <1>5, <1>6, ControlStep DEF RollbackList

\* A proposal that is rolled back had left the pending state.
LEMMA RollbackOneStep ==
  ASSUME Inv, NEW m \in Monitors, NEW p \in Proposals, RollbackOne(m, p)
  PROVE  Inv'
  <1>1. m \in Callers /\ call[m] \in Call /\ CallOK(call[m]) /\ call \in [Callers -> Call]
    BY CallerSets, Hand
  <1>2. /\ call[m].pc = "rollback" /\ p \in call[m].queue /\ UNCHANGED mode
        /\ proposals[p] # None /\ proposals[p].issue = call[m].issue
    BY <1>1 DEF RollbackOne, CallOK
  <1>3. CASE /\ proposals' = [proposals EXCEPT ![p].state = "rolled_back"]
             /\ Assign(call[m].issue, [issues[call[m].issue] EXCEPT !.active = FALSE])
             /\ call' = [call EXCEPT ![m].queue = @ \ {p}]
    <2>1. PICK k : k = [call[m] EXCEPT !.queue = @ \ {p}]
      OBVIOUS
    <2>2. k \in Call /\ call' = [call EXCEPT ![m] = k]
      BY <1>1, <1>3, <2>1 DEF Call
    <2>3. CallOK(k)
      BY <1>1, <1>2, <2>1 DEF CallOK, Call, WithIssue, WithApplied, RollingBack
    <2>4. Alone => LoneOK(k)
      BY <1>1, <1>2, <2>1, LoneHand DEF LoneOK, Call, RollingBack
    <2>5. QuietIssues /\ ProposalsMoveOn
      BY <1>2, <1>3, ProposalAndRow
    <2> QED
      BY <1>1, <1>2, <2>2, <2>3, <2>4, <2>5, QuietOwnStep
  <1>4. CASE /\ UNCHANGED <<issues, proposals>>
             /\ call' = [call EXCEPT ![m].queue = @ \ {p}, ![m].flag = TRUE]
    <2>1. PICK k : k = [call[m] EXCEPT !.queue = @ \ {p}, !.flag = TRUE]
      OBVIOUS
    <2>2. k \in Call /\ call' = [call EXCEPT ![m] = k]
      BY <1>1, <1>4, <2>1 DEF Call
    <2>3. CallOK(k)
      BY <1>1, <1>2, <2>1 DEF CallOK, Call, WithIssue, WithApplied, RollingBack
    <2>4. Alone => LoneOK(k)
      BY <1>1, <1>2, <2>1, LoneHand DEF LoneOK, Call, RollingBack
    <2> QED
      BY <1>1, <1>2, <1>4, <2>2, <2>3, <2>4, ControlStep
  <1> QED
    BY <1>3, <1>4 DEF RollbackOne

\* What a monitor carries on with after an issue.
LEMMA OnToTheNext ==
  ASSUME Inv, NEW m \in Monitors, NEW k,
         k = [Idle EXCEPT !.pc = "monitor", !.mode = call[m].mode, !.todo = call[m].todo]
  PROVE  /\ k \in Call /\ k.pc = "monitor" /\ k.todo = call[m].todo /\ CallOK(k)
         /\ Alone /\ call[m].pc \in RollingBack => LoneOK(k)
  <1>1. m \in Callers /\ call[m] \in Call /\ CallOK(call[m])
    BY CallerSets, Hand
  <1>2. /\ k \in Call /\ k.pc = "monitor" /\ k.todo = call[m].todo
        /\ k.queue = {} /\ k.done = {}
    BY <1>1 DEF Idle, Call
  <1>3. CallOK(k)
    BY <1>1, <1>2 DEF CallOK, WithIssue, WithApplied, RollingBack
  <1>4. Alone /\ call[m].pc \in RollingBack => LoneOK(k)
    BY <1>2, LoneHand DEF LoneOK, RollingBack
  <1> QED
    BY <1>2, <1>3, <1>4

\* A rollback that raises leaves the issue as it was.
LEMMA RollbackFailStep ==
  ASSUME Inv, NEW m \in Monitors, RollbackFail(m)
  PROVE  Inv'
  <1>1. PICK k : k = [Idle EXCEPT !.pc = "monitor", !.mode = call[m].mode,
                                  !.todo = call[m].todo]
    OBVIOUS
  <1>2. k \in Call /\ CallOK(k) /\ (Alone => LoneOK(k))
    BY <1>1, OnToTheNext DEF RollbackFail, RollingBack
  <1>3. call' = [call EXCEPT ![m] = k]
    BY <1>1 DEF RollbackFail
  <1> QED
    BY <1>2, <1>3, CallerSets, ControlStep DEF RollbackFail

\* What a lone monitor counts up is the count as it stands, and the last attempt
\* raises the flag.
LEMMA RecordReadStep ==
  ASSUME Inv, NEW m \in Monitors, RecordRead(m)
  PROVE  Inv'
  <1>1. m \in Callers /\ call[m] \in Call /\ CallOK(call[m]) /\ call \in [Callers -> Call]
    BY CallerSets, Hand
  <1>2. PICK row : row = issues[call[m].issue]
    OBVIOUS
  <1>3. row \in Issue
    BY <1>1, <1>2, Rows DEF RecordRead, CallOK, WithIssue, Inv
  <1>4. PICK flag \in BOOLEAN :
          flag = (call[m].flag \/ call[m].row.attempts + 1 >= MaxAttempts)
    BY Zenon
  <1>5. PICK k : k = [call[m] EXCEPT !.pc = "recording", !.row = row, !.flag = flag]
    OBVIOUS
  <1>6. k \in Call
    <2>1. flag \in BOOLEAN
      OBVIOUS
    <2> HIDE DEF Issue
    <2> QED
      BY <1>1, <1>3, <1>5, <2>1 DEF Call
  <1>7. call' = [call EXCEPT ![m] = k]
    BY <1>1, <1>2, <1>4, <1>5 DEF RecordRead
  <1>8. /\ k.pc = "recording" /\ k.row = row /\ k.flag = flag /\ k.issue = call[m].issue
        /\ k.todo = call[m].todo /\ k.queue = call[m].queue /\ k.done = call[m].done
    BY <1>1, <1>5 DEF Call
  <1>9. CallOK(k)
    BY <1>1, <1>3, <1>8 DEF CallOK, WithIssue, WithApplied, RollingBack, RecordRead
  <1>10. Alone => LoneOK(k)
    <2> SUFFICES ASSUME Alone PROVE LoneOK(k)
      OBVIOUS
    <2>1. LoneOK(call[m]) /\ call[m].pc = "rollback"
      BY LoneHand DEF RecordRead
    <2>2. call[m].row.attempts = row.attempts
      BY <1>2, <2>1 DEF LoneOK, RollingBack
    <2>3. row.attempts + 1 >= MaxAttempts => flag
      BY <1>4, <2>2
    <2> QED
      BY <1>2, <1>8, <2>1, <2>3 DEF LoneOK, RollingBack
  <1> QED
    BY <1>1, <1>6, <1>7, <1>9, <1>10, ControlStep DEF RecordRead

\* The watermark goes; an attempt is counted once, and the last one escalates
\* (mark_issue_rolled_back).
LEMMA RecordWriteStep ==
  ASSUME Inv, NEW m \in Monitors, RecordWrite(m)
  PROVE  Inv'
  <1>1. m \in Callers /\ call[m] \in Call /\ CallOK(call[m]) /\ call \in [Callers -> Call]
    BY CallerSets, Hand
  <1>2. PICK i, read, flag : i = call[m].issue /\ read = call[m].row /\ flag = call[m].flag
    OBVIOUS
  <1>3. /\ i \in Issues /\ Exists(i) /\ issues[i] \in Issue /\ RowOK(i, issues[i])
        /\ read \in Issue /\ call[m].pc = "recording" /\ flag \in BOOLEAN
    BY <1>1, <1>2, Rows
    DEF RecordWrite, CallOK, WithIssue, RollingBack, Inv, StoreInv, Call
  <1>4. read.attempts \in Nat /\ read.attempts + 1 \in Nat /\ issues[i].observed \in Nat
        /\ issues[i].attempts \in Nat
    BY <1>3 DEF Issue
  <1>5. PICK blocked \in BOOLEAN : blocked = (issues[i].blocked \/ flag)
    BY Zenon
  <1>6. PICK row : row = [issues[i] EXCEPT !.status = "open", !.baseline = None,
                            !.stamped = None, !.attempts = read.attempts + 1,
                            !.blocked = blocked]
    OBVIOUS
  <1>7. /\ row \in Issue
        /\ row.observed = issues[i].observed /\ row.recurrence = issues[i].recurrence
        /\ row.baseline = None /\ row.attempts = read.attempts + 1 /\ row.blocked = blocked
    BY <1>3, <1>4, <1>6 DEF Issue, Statuses
  <1>8. Assign(i, row)
    BY <1>2, <1>3, <1>5, <1>6 DEF RecordWrite, Assign
  <1>9. RowOK(i, row)
    BY <1>3, <1>7 DEF RowOK
  <1>10. Grows /\ StoreInv' /\ issues' \in [Issues -> Issue \cup {None}]
    BY <1>3, <1>4, <1>7, <1>8, <1>9, RowStep DEF RecordWrite, Inv
  <1>11. PICK k : k = [Idle EXCEPT !.pc = "monitor", !.mode = call[m].mode,
                                   !.todo = call[m].todo]
    OBVIOUS
  <1>12. /\ k \in Call /\ k.pc = "monitor" /\ k.todo = call[m].todo /\ CallOK(k)
         /\ Alone => LoneOK(k)
    BY <1>3, <1>11, OnToTheNext DEF RollingBack
  <1>13. call' = [call EXCEPT ![m] = k] /\ UNCHANGED <<proposals, mode>>
    BY <1>11 DEF RecordWrite
  <1>14. TypeOK'
    <2> HIDE DEF Issue, Proposal, Call
    <2> QED
      BY <1>10, <1>12, <1>13 DEF Inv, TypeOK
  <1>15. ASSUME NEW d \in Callers PROVE CallOK(call[d])'
    <2>1. PICK l \in Call : l = call'[d] /\ CallOK(l)
      <3>1. CASE d = m
        BY <1>1, <1>12, <1>13, <3>1
      <3>2. CASE d # m
        BY <1>1, <1>13, <3>2, Hand
      <3> QED
        BY <3>1, <3>2
    <2>2. CallOK(l)'
      BY <1>10, <1>14, <2>1, CallKept DEF Inv
    <2> QED
      BY <2>1, <2>2 DEF CallOK, Seen
  <1>16. ASSUME Alone PROVE AttemptsAreBounded' /\ \A n \in Monitors : LoneOK(call[n])'
    <2>1. /\ i \notin call[m].todo /\ ~ issues[i].blocked
          /\ read.attempts = issues[i].attempts
          /\ read.attempts + 1 >= MaxAttempts => flag
      BY <1>2, <1>3, <1>16, LoneHand DEF LoneOK, RollingBack
    <2>2. MaxAttempts \in Nat /\ AttemptsAreBounded
      BY <1>16, LoopAssumption DEF Inv, LoneInv
    <2>3. row.attempts <= MaxAttempts /\ (row.attempts = MaxAttempts => row.blocked)
      <3>1. issues[i].attempts <= MaxAttempts /\ issues[i].attempts # MaxAttempts
        BY <1>3, <2>1, <2>2 DEF AttemptsAreBounded
      <3>2. row.attempts <= MaxAttempts
        BY <1>4, <1>7, <2>1, <2>2, <3>1
      <3>3. row.attempts = MaxAttempts => flag
        BY <1>4, <1>7, <2>1, <2>2
      <3>4. flag => row.blocked
        BY <1>5, <1>7, Zenon
      <3> QED
        BY <3>2, <3>3, <3>4
    <2>4. /\ issues'[i] = row
          /\ \A j \in Issues : j # i => issues'[j] = issues[j]
      BY <1>3, <1>8 DEF Assign, Inv, TypeOK
    <2>5. AttemptsAreBounded'
      BY <2>2, <2>3, <2>4 DEF AttemptsAreBounded, Exists
    <2>6. \A j \in k.todo : issues'[j] # None /\ ~ issues'[j].blocked
      <3>1. k.todo \subseteq Issues
        BY <1>12 DEF Call
      <3> QED
        BY <1>12, <1>16, <2>1, <2>4, <3>1 DEF LoneOK, Exists
    <2>7. LoneOK(k)'
      BY <1>12, <2>6 DEF LoneOK, RollingBack, Exists
    <2>8. call'[m] = k
      BY <1>1, <1>13
    <2>9. ASSUME NEW n \in Monitors PROVE LoneOK(call[n])'
      <3>1. n = m
        BY <1>16 DEF Alone
      <3> QED
        BY <2>7, <2>8, <3>1 DEF LoneOK
    <2> QED
      BY <2>5, <2>9
  <1> QED
    BY <1>10, <1>14, <1>15, <1>16 DEF Inv, LoneInv, Alone

\* A pass of the monitor ends.
LEMMA MonitorEndStep ==
  ASSUME Inv, NEW m \in Monitors, MonitorEnd(m)
  PROVE  Inv'
  BY CallerSets, IdleStep DEF MonitorEnd

--------------------------------------------------------------------------------
(* Humans, agents and detectors, and the whole. *)

\* A request that leaves the counts alone.
LEMMA QuietRequest ==
  ASSUME Inv, UNCHANGED <<mode, call>>, QuietIssues, ProposalsMoveOn
  PROVE  Inv'
  <1>1. Grows /\ Uncounted /\ StoreInv'
    BY QuietStep DEF Inv
  <1>2. TypeOK'
    <2> HIDE DEF Issue, Proposal, Call
    <2> QED
      BY DEF Inv, TypeOK, QuietIssues, ProposalsMoveOn
  <1> QED
    BY <1>1, <1>2, RequestStep

\* The policy is no part of what a caller has in hand.
LEMMA SetModeStep ==
  ASSUME Inv, NEW m \in {"hitl", "autonomous"}, SetMode(m)
  PROVE  Inv'
  <1>1. Grows /\ Uncounted /\ StoreInv'
    BY QuietStep, SameIssues, SameProposals DEF SetMode, Inv
  <1>2. TypeOK'
    <2> HIDE DEF Issue, Proposal, Call
    <2> QED
      BY DEF Inv, TypeOK, SetMode
  <1> QED
    BY <1>1, <1>2, RequestStep DEF SetMode

\* A human's status is no count.
LEMMA SetStatusStep ==
  ASSUME Inv, NEW i \in Issues, NEW status \in HandStatuses, SetStatus(i, status)
  PROVE  Inv'
  <1>1. Exists(i) /\ issues[i] \in Issue /\ status \in Statuses
    BY Rows, LoopAssumption DEF SetStatus, Inv
  <1>2. PICK row : row = [issues[i] EXCEPT !.status = status]
    OBVIOUS
  <1>3. /\ row \in Issue
        /\ row.observed = issues[i].observed /\ row.recurrence = issues[i].recurrence
        /\ row.baseline = issues[i].baseline /\ row.stamped = issues[i].stamped
        /\ row.attempts = issues[i].attempts /\ row.blocked = issues[i].blocked
    BY <1>1, <1>2 DEF Issue
  <1>4. Assign(i, row)
    BY <1>2 DEF SetStatus
  <1>5. QuietIssues
    BY <1>1, <1>3, <1>4, QuietRow DEF Inv
  <1> QED
    BY <1>5, SameProposals, QuietRequest DEF SetStatus, Inv

\* A human applies a pending proposal.
LEMMA HumanApplyStep ==
  ASSUME Inv, NEW p \in Proposals, HumanApply(p)
  PROVE  Inv'
  <1>1. proposals[p] # None
    BY DEF HumanApply, Pending
  <1>2. PICK active \in BOOLEAN :
          active = (issues[proposals[p].issue].active \/ Section[p] = "context")
    BY Zenon
  <1>3. Assign(proposals[p].issue, [issues[proposals[p].issue] EXCEPT !.active = active])
    BY <1>2 DEF HumanApply
  <1>4. QuietIssues /\ ProposalsMoveOn
    BY <1>1, <1>3, ProposalAndRow DEF HumanApply
  <1> QED
    BY <1>4, QuietRequest DEF HumanApply

\* An agent's proposal is pending and names an issue that exists.
LEMMA AgentSubmitStep ==
  ASSUME Inv, NEW p \in Proposals, NEW i \in Issues, AgentSubmit(p, i)
  PROVE  Inv'
  <1>1. PICK q : q = [issue |-> i, state |-> "pending"]
    OBVIOUS
  <1>2. q \in Proposal /\ q.issue = i
    BY <1>1 DEF Proposal
  <1>3. ProposalsMoveOn
    BY <1>1, <1>2, OneProposal DEF AgentSubmit, Inv
  <1> QED
    BY <1>3, SameIssues, QuietRequest DEF AgentSubmit, Inv

\* An issue that a guard raises was observed once.
LEMMA RaiseIssueStep ==
  ASSUME Inv, NEW source \in Issues \cup {None}, NEW t \in Traces,
         NEW severe \in Severities, RaiseIssue(source, t, severe)
  PROVE  Inv'
  <1>1. severe \in BOOLEAN /\ "open" \in Statuses
    BY LoopAssumption DEF Statuses
  <1>2. Grows /\ Uncounted /\ StoreInv' /\ issues' \in [Issues -> Issue \cup {None}]
    BY <1>1, CreateStep DEF RaiseIssue
  <1>3. TypeOK'
    <2> HIDE DEF Issue, Proposal, Call
    <2> QED
      BY <1>2 DEF Inv, TypeOK, RaiseIssue
  <1> QED
    BY <1>2, <1>3, RequestStep DEF RaiseIssue

\* No issue exists at first.
LEMMA InitOK == Init => Inv
  <1> SUFFICES ASSUME Init PROVE Inv
    OBVIOUS
  <1>1. TypeOK
    BY IdleOK DEF Init, TypeOK
  <1>2. \A c \in Callers : call[c] = Idle
    BY DEF Init
  <1>3. \A i \in Issues : ~ Exists(i)
    BY DEF Init, Exists
  <1>4. \A p \in Proposals : proposals[p] = None
    BY DEF Init
  <1>5. \A c \in Callers : CallOK(call[c]) /\ LoneOK(call[c])
    BY <1>2, IdleOK
  <1> QED
    BY <1>1, <1>3, <1>4, <1>5, CallerSets
    DEF Inv, StoreInv, LoneInv, AttemptsAreBounded

\* The invariant is inductive.
LEMMA StepKeepsInv == Inv /\ [Next]_vars => Inv'
  <1> SUFFICES ASSUME Inv, [Next]_vars PROVE Inv'
    OBVIOUS
  <1>1. CASE UNCHANGED vars
    BY <1>1, SameIssues, SameProposals, QuietRequest DEF vars, Inv
  <1>2. ASSUME NEW w \in Workers, WorkerStart(w) PROVE Inv'
    BY <1>2, SurfaceFindStep, MergeCheckStep, LoopStartStep, HumanApproveStep,
       DirectGate2Step, Zenon DEF WorkerStart
  <1>3. ASSUME NEW w \in Workers, WorkerStep(w) PROVE Inv'
    BY <1>3, SurfaceCreateStep, BundleReadStep, BundleWriteStep, Gate1EndStep,
       AcceptReadStep, AcceptWriteStep, AuthorFailStep, LinkStep, AutonomyReadStep,
       ApplyEndStep, MarkWriteStep, ResolveStep, MintGuardStep, LoopEndStep,
       Gate1Step, SubmitStep, ApplyOneStep, MarkReadStep, Zenon DEF WorkerStep
  <1>4. ASSUME NEW m \in Monitors, MonitorStart(m) \/ MonitorStep(m) PROVE Inv'
    BY <1>4, MonitorStartStep, MonitorCheckStep, RollbackListStep, RollbackFailStep,
       RecordReadStep, RecordWriteStep, MonitorEndStep, RollbackOneStep, Zenon
    DEF MonitorStep
  <1>5. CASE Request
    BY <1>5, SetModeStep, SetStatusStep, HumanApplyStep, AgentSubmitStep,
       RaiseIssueStep, Zenon DEF Request
  <1>6. ASSUME NEW c \in Callers, Crash(c) PROVE Inv'
    BY <1>6, IdleStep DEF Crash
  <1> QED
    BY <1>1, <1>2, <1>3, <1>4, <1>5, <1>6, Zenon DEF Next

\* The inductive invariant holds of every reachable state.
THEOREM InvAlways == Spec => []Inv
  BY InitOK, StepKeepsInv, PTL DEF Spec

\* An issue is watched only after a fix of it went live, and the model is well
\* typed (improve.run_improvement_loop, issues.mark_issue_applied).
THEOREM WatermarkFollowsApplyAlways == Spec => []WatermarkFollowsApply
  <1>1. Inv => WatermarkFollowsApply
    BY DEF Inv, StoreInv, RowOK, WentLive, WatermarkFollowsApply
  <1> QED
    BY <1>1, InvAlways, PTL

\* No fix is authored without a human for a failure seen once, whatever threshold
\* above one the policy sets and whatever the processes do at the same time
\* (autonomy.evaluate_gate1).
THEOREM NeverAcceptedOnASingleOccurrenceAlways == Spec => []NeverAcceptedOnASingleOccurrence
  <1>1. Inv => NeverAcceptedOnASingleOccurrence
    BY CallerSets DEF Inv, CallOK, NeverAcceptedOnASingleOccurrence
  <1> QED
    BY <1>1, InvAlways, PTL

\* The monitor turns against a fix only when the failure was observed again since
\* the watermark (guard_monitor.monitor_guarded_issues).
THEOREM RegressionIsConfirmedAlways == Spec => []RegressionIsConfirmed
  <1>1. Inv => RegressionIsConfirmed
    BY CallerSets DEF Inv, CallOK, RegressionIsConfirmed
  <1> QED
    BY <1>1, InvAlways, PTL

--------------------------------------------------------------------------------
(* How a proposal moves. *)

\* What any step does to one proposal.  It goes live at the hands of a worker or
\* a human, and is rolled back by a monitor that has it in its list.
ProposalMoves(p) ==
  \/ UNCHANGED proposals[p]
  \/ proposals[p] = None /\ proposals'[p].state = "pending"
  \/ /\ proposals[p] # None
     /\ proposals[p].state = "pending" \/ Section[p] = "harness"
     /\ proposals'[p].state = "applied"
  \/ /\ proposals[p] # None /\ proposals[p].state # "pending"
     /\ proposals'[p].state = "rolled_back"
     /\ \E m \in Monitors : call[m].pc = "rollback" /\ p \in call[m].queue

\* Only one proposal moves in a step, in one of these ways.
LEMMA HowProposalsMove ==
  ASSUME Inv, [Next]_vars
  PROVE  \/ UNCHANGED proposals
         \/ \E p \in Proposals :
              /\ ProposalMoves(p) /\ proposals'[p] \in Proposal
              /\ proposals' = [proposals EXCEPT ![p] = proposals'[p]]
  <1>1. proposals \in [Proposals -> Proposal \cup {None}]
    BY DEF Inv, TypeOK
  <1>2. ASSUME NEW p \in Proposals, proposals[p] = None, NEW i \in Issues,
               proposals' = [proposals EXCEPT ![p] = [issue |-> i, state |-> "pending"]]
        PROVE  /\ ProposalMoves(p) /\ proposals'[p] \in Proposal
               /\ proposals' = [proposals EXCEPT ![p] = proposals'[p]]
    <2>1. proposals'[p] = [issue |-> i, state |-> "pending"]
      BY <1>1, <1>2
    <2>2. proposals'[p] \in Proposal /\ proposals'[p].state = "pending"
      BY <2>1 DEF Proposal
    <2>3. proposals' = [proposals EXCEPT ![p] = proposals'[p]]
      BY <1>2, <2>1
    <2>4. ProposalMoves(p)
      BY <1>2, <2>2 DEF ProposalMoves
    <2> QED
      BY <2>2, <2>3, <2>4
  <1>3. ASSUME NEW p \in Proposals, proposals[p] # None, NEW s \in {"applied", "rolled_back"},
               proposals' = [proposals EXCEPT ![p].state = s],
               s = "applied" => proposals[p].state = "pending" \/ Section[p] = "harness",
               s = "rolled_back" => /\ proposals[p].state # "pending"
                                    /\ \E m \in Monitors : call[m].pc = "rollback"
                                                           /\ p \in call[m].queue
        PROVE  /\ ProposalMoves(p) /\ proposals'[p] \in Proposal
               /\ proposals' = [proposals EXCEPT ![p] = proposals'[p]]
    <2>1. proposals[p] \in Proposal
      BY <1>1, <1>3
    <2>2. proposals'[p] = [proposals[p] EXCEPT !.state = s]
      BY <1>1, <1>3
    <2>3. proposals'[p] \in Proposal /\ proposals'[p].state = s
      BY <2>1, <2>2 DEF Proposal
    <2>4. proposals' = [proposals EXCEPT ![p] = proposals'[p]]
      BY <1>3, <2>2
    <2>5. ProposalMoves(p)
      BY <1>3, <2>3 DEF ProposalMoves
    <2> QED
      BY <2>3, <2>4, <2>5
  <1>4. ASSUME NEW w \in Workers, NEW p \in Proposals, Submit(w, p)
        PROVE  /\ ProposalMoves(p) /\ proposals'[p] \in Proposal
               /\ proposals' = [proposals EXCEPT ![p] = proposals'[p]]
    <2>1. PICK i \in Issues : i = call[w].issue
      BY <1>4, CallerSets, Hand DEF Submit, CallOK, WithIssue
    <2>2. /\ proposals[p] = None
          /\ proposals' = [proposals EXCEPT ![p] = [issue |-> i, state |-> "pending"]]
      BY <1>4, <2>1 DEF Submit
    <2> QED
      BY <1>2, <2>2
  <1>5. ASSUME NEW w \in Workers, NEW p \in Proposals, ApplyOne(w, p)
        PROVE  \/ UNCHANGED proposals
               \/ /\ ProposalMoves(p) /\ proposals'[p] \in Proposal
                  /\ proposals' = [proposals EXCEPT ![p] = proposals'[p]]
    <2>1. proposals[p] # None
      BY <1>5, CallerSets, Hand DEF ApplyOne, CallOK
    <2> QED
      BY <1>3, <1>5, <2>1 DEF ApplyOne
  <1>6. ASSUME NEW m \in Monitors, NEW p \in Proposals, RollbackOne(m, p)
        PROVE  \/ UNCHANGED proposals
               \/ /\ ProposalMoves(p) /\ proposals'[p] \in Proposal
                  /\ proposals' = [proposals EXCEPT ![p] = proposals'[p]]
    <2>1. proposals[p] # None /\ proposals[p].state # "pending"
      BY <1>6, CallerSets, Hand DEF RollbackOne, CallOK
    <2> QED
      BY <1>3, <1>6, <2>1 DEF RollbackOne
  <1>7. ASSUME NEW p \in Proposals, HumanApply(p)
        PROVE  /\ ProposalMoves(p) /\ proposals'[p] \in Proposal
               /\ proposals' = [proposals EXCEPT ![p] = proposals'[p]]
    BY <1>3, <1>7 DEF HumanApply, Pending
  <1>8. ASSUME NEW p \in Proposals, NEW i \in Issues, AgentSubmit(p, i)
        PROVE  /\ ProposalMoves(p) /\ proposals'[p] \in Proposal
               /\ proposals' = [proposals EXCEPT ![p] = proposals'[p]]
    BY <1>2, <1>8 DEF AgentSubmit
  <1>9. \/ UNCHANGED proposals
        \/ \E w \in Workers, p \in Proposals : Submit(w, p) \/ ApplyOne(w, p)
        \/ \E m \in Monitors, p \in Proposals : RollbackOne(m, p)
        \/ \E p \in Proposals : HumanApply(p)
        \/ \E p \in Proposals, i \in Issues : AgentSubmit(p, i)
    <2>1. ASSUME NEW w \in Workers, WorkerStart(w) PROVE UNCHANGED proposals
      BY <2>1 DEF WorkerStart, SurfaceFind, MergeCheck, LoopStart, HumanApprove, DirectGate2
    <2>2. ASSUME NEW w \in Workers, WorkerStep(w)
          PROVE  UNCHANGED proposals \/ \E p \in Proposals : Submit(w, p) \/ ApplyOne(w, p)
      BY <2>2 DEF WorkerStep, SurfaceCreate, BundleRead, BundleWrite, Gate1End, AcceptRead,
           AcceptWrite, AuthorFail, Link, AutonomyRead, ApplyEnd, MarkWrite, Resolve,
           MintGuard, LoopEnd, Gate1, MarkRead
    <2>3. ASSUME NEW m \in Monitors, MonitorStart(m) \/ MonitorStep(m)
          PROVE  UNCHANGED proposals \/ \E p \in Proposals : RollbackOne(m, p)
      BY <2>3 DEF MonitorStart, MonitorStep, MonitorCheck, RollbackList, RollbackFail,
           RecordRead, RecordWrite, MonitorEnd
    <2>4. CASE Request
      BY <2>4 DEF Request, SetMode, SetStatus, RaiseIssue
    <2>5. ASSUME NEW c \in Callers, Crash(c) PROVE UNCHANGED proposals
      BY <2>5 DEF Crash
    <2>6. CASE UNCHANGED vars
      BY <2>6 DEF vars
    <2> QED
      BY <2>1, <2>2, <2>3, <2>4, <2>5, <2>6 DEF Next
  <1> QED
    BY <1>4, <1>5, <1>6, <1>7, <1>8, <1>9

\* The retries of a monitor that runs alone are bounded, and an issue that was
\* handed to a human is left alone (guard_monitor.monitor_guarded_issues,
\* issues.mark_issue_rolled_back).
THEOREM RetriesAreBoundedAlways == Spec => RetriesAreBounded
  <1> DEFINE Kept == Alone =>
               /\ AttemptsAreBounded'
               /\ \A i \in Issues : Exists(i) /\ issues[i].blocked =>
                    \A p \in Fixes(i) : ~ RolledBack(p)
  <1>1. Inv /\ Inv' /\ [Next]_vars => Kept
    <2> SUFFICES ASSUME Inv, Inv', [Next]_vars, Alone PROVE Kept
      OBVIOUS
    <2>1. AttemptsAreBounded'
      BY DEF Inv, LoneInv, Alone
    <2>2. ASSUME NEW i \in Issues, Exists(i), issues[i].blocked,
                 NEW p \in Fixes(i), RolledBack(p)
          PROVE  FALSE
      <3>1. /\ p \in Proposals /\ proposals[p] # None /\ proposals[p].issue = i
            /\ proposals[p].state = "applied" /\ proposals'[p].state = "rolled_back"
        BY <2>2 DEF Fixes, RolledBack, Applied
      <3>2. ~ UNCHANGED proposals[p] /\ proposals \in [Proposals -> Proposal \cup {None}]
        BY <3>1 DEF Inv, TypeOK
      <3>3. ProposalMoves(p)
        <4>1. PICK q \in Proposals : /\ ProposalMoves(q)
                                     /\ proposals' = [proposals EXCEPT ![q] = proposals'[q]]
          BY <3>2, HowProposalsMove
        <4>2. q = p
          <5> HIDE DEF Proposal
          <5> QED
            BY <3>1, <3>2, <4>1
        <4> QED
          BY <4>1, <4>2
      <3>4. PICK m \in Monitors : call[m].pc = "rollback" /\ p \in call[m].queue
        BY <3>1, <3>2, <3>3 DEF ProposalMoves
      <3>5. call[m].issue = i
        BY <3>1, <3>4, CallerSets, Hand DEF CallOK
      <3>6. ~ issues[i].blocked
        BY <3>4, <3>5, LoneHand DEF LoneOK, RollingBack
      <3> QED
        BY <2>2, <3>6
    <2> QED
      BY <2>1, <2>2
  <1>2. Inv /\ Inv' /\ [Next]_vars => [Kept]_vars
    BY <1>1
  <1> QED
    BY <1>2, InvAlways, PTL DEF Spec, RetriesAreBounded

\* A context fix goes through its life once: each step of the loop is a step of
\* ProposalLifecycle or leaves the stages alone, because an apply looks at the
\* state again and a monitor rolls back only what it found applied.
THEOREM LifecycleRefinedAlways == Spec => LifecycleRefined
  <1>1. Init => Lifecycle!Init
    BY DEF Init, Lifecycle!Init, Stage, ContextProposals
  <1>2. Inv /\ [Next]_vars => [Lifecycle!Next]_Stage
    <2> SUFFICES ASSUME Inv, [Next]_vars
                 PROVE  Lifecycle!Next \/ Stage' = Stage
      OBVIOUS
    <2>1. CASE UNCHANGED proposals
      BY <2>1 DEF Stage
    <2>2. ASSUME NEW p \in Proposals, ProposalMoves(p), proposals'[p] \in Proposal,
                 proposals' = [proposals EXCEPT ![p] = proposals'[p]]
          PROVE  Lifecycle!Next \/ Stage' = Stage
      <3>1. /\ proposals \in [Proposals -> Proposal \cup {None}]
            /\ \A q \in Proposals : q # p => proposals'[q] = proposals[q]
            /\ proposals'[p] # None
        <4>1. proposals \in [Proposals -> Proposal \cup {None}]
          BY DEF Inv, TypeOK
        <4>2. proposals'[p] # None
          BY <2>2, Rows DEF Inv
        <4> HIDE DEF Proposal
        <4> QED
          BY <2>2, <4>1, <4>2
      <3>2. CASE p \notin ContextProposals
        BY <3>1, <3>2 DEF Stage, ContextProposals
      <3>3. CASE p \in ContextProposals
        <4>1. /\ Stage' = [Stage EXCEPT ![p] = proposals'[p].state]
              /\ Stage[p] = IF proposals[p] = None THEN "absent" ELSE proposals[p].state
              /\ p \in DOMAIN Stage
          BY <3>1, <3>3 DEF Stage, ContextProposals
        <4>2. Section[p] # "harness"
          BY <3>3 DEF ContextProposals
        <4>3. CASE UNCHANGED proposals[p]
          BY <3>1, <4>3 DEF Stage, ContextProposals
        <4>4. CASE proposals[p] = None /\ proposals'[p].state = "pending"
          BY <3>3, <4>1, <4>4 DEF Lifecycle!Next, Lifecycle!Submit, Lifecycle!Move
        <4>5. CASE /\ proposals[p] # None
                   /\ proposals[p].state = "pending"
                   /\ proposals'[p].state = "applied"
          BY <3>3, <4>1, <4>5 DEF Lifecycle!Next, Lifecycle!Apply, Lifecycle!Move
        <4>6. CASE /\ proposals[p] # None /\ proposals[p].state # "pending"
                   /\ proposals'[p].state = "rolled_back"
          <5>1. proposals[p].state \in {"applied", "rolled_back"}
            BY <3>1, <4>6 DEF Proposal
          <5>2. CASE proposals[p].state = "applied"
            BY <3>3, <4>1, <4>6, <5>2 DEF Lifecycle!Next, Lifecycle!RollBack, Lifecycle!Move
          <5>3. CASE proposals[p].state = "rolled_back"
            <6>1. Stage' = [Stage EXCEPT ![p] = Stage[p]]
              BY <4>1, <4>6, <5>3
            <6> QED
              BY <6>1 DEF Stage
          <5> QED
            BY <5>1, <5>2, <5>3
        <4> QED
          BY <2>2, <4>2, <4>3, <4>4, <4>5, <4>6 DEF ProposalMoves
      <3> QED
        BY <3>2, <3>3
    <2> QED
      BY <2>1, <2>2, HowProposalsMove
  <1> QED
    BY <1>1, <1>2, InvAlways, PTL DEF Spec, LifecycleRefined, Lifecycle!Spec
================================================================================
