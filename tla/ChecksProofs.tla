------------------------------ MODULE ChecksProofs -----------------------------
(* What is proved of Checks for every number of callers, specs, rows and       *)
(* answers: the types, that numbers identify rows until rows are pruned, that  *)
(* a promotion rests on a replay that earned it, and that trust is not lost.   *)
(*                                                                             *)
(* The argument: the key of a row (its spec and its number) is unique whatever *)
(* happens, because an insert that collides fails; as long as nothing is       *)
(* pruned no number is beyond the count of its spec's rows, so the next one is *)
(* free, a caller's row stays, and what an answer was accepted against is the  *)
(* row it is written into.                                                     *)
EXTENDS Checks, TLAPS, FiniteSetTheorems

Trusts == {L0, L1, L2, L3}

(* What a caller may have in hand.                                             *)
Call ==
  {Idle}
  \cup [at : {"approve", "judging"}, spec : Specs]
  \cup [at : {"check"}, spec : Specs, n : 0..MaxRows, trust : Trusts,
        recorded : Verdicts \cup {None}, marks : BOOLEAN]
  \cup [at : {"running"}, spec : Specs, n : 1..MaxRows, then : BOOLEAN, marks : BOOLEAN]
  \cup [at : {"complete"}, spec : Specs, n : 1..MaxRows, then : BOOLEAN, marks : BOOLEAN,
        answer : Answers]
  \cup [at : {"mark"}, spec : Specs, n : 1..MaxRows]
  \cup [at : {"run_check"}, spec : Specs, n : 0..MaxRows]
  \cup [at : {"prune"}, replays : SUBSET (1..MaxRows), checks : SUBSET (1..MaxRows)]

SpecsOK ==
  /\ definition \in [Specs -> Definitions] /\ made \subseteq Specs
  /\ trust \in [Specs -> Trusts] /\ locked \in [Specs -> BOOLEAN]
  /\ recorded \in [Specs -> Verdicts \cup {None}] /\ locks \in 0..MaxLocks

RunsOK == runs \subseteq Run /\ BaseRuns \subseteq runs

(* The rows of one table: there are no more of them than were inserted, and    *)
(* each has a key of its own.                                                  *)
TableOK(rows) ==
  /\ IsFiniteSet(rows) /\ Cardinality(rows) <= clock
  /\ \A r \in rows : r.at <= clock
  /\ \A r, p \in rows : (r.spec = p.spec /\ r.n = p.n) => r = p

(* No number is beyond the count of its spec's rows.                           *)
Dense(rows) == \A r \in rows : r.n <= Cardinality(Of(rows, r.spec))

(* A row has a mapped run only from an answer.                                 *)
AnsweredOK == \A r \in replays : r.mapped # None => r.answered

RowsOK ==
  /\ replays \subseteq ReplayRow /\ checks \subseteq CheckRow
  /\ clock \in 0..MaxRows /\ pruned \in BOOLEAN
  /\ TableOK(replays) /\ TableOK(checks) /\ AnsweredOK

(* As long as nothing was pruned: the numbers are those of a count, and a row  *)
(* that was answered did what it was asked to.                                 *)
RowsKept ==
  ~ pruned =>
    /\ Dense(replays) /\ Dense(checks)
    /\ \A r \in replays : r.answered => r.actual \in AllowedActual[r.want]

CallTyped(k) ==
  /\ k \in Call
  /\ k.at = "complete" => k.answer.actual \in SafeModes

(* The row a caller holds the number of is there, and the answer it brings was *)
(* accepted for that row.                                                      *)
CallKept(k) ==
  /\ (k.at \in InFlight /\ k.n # 0) => HasReplay(k.spec, k.n)
  /\ k.at = "complete" =>
       \A r \in replays : (r.spec = k.spec /\ r.n = k.n) => k.answer.actual \in AllowedActual[r.want]

CallsOK ==
  /\ pc \in [Callers -> Call]
  /\ \A c \in Callers : CallTyped(pc[c]) /\ (~ pruned => CallKept(pc[c]))

Inv == SpecsOK /\ RunsOK /\ RowsOK /\ RowsKept /\ CallsOK

--------------------------------------------------------------------------------
(* Levels, tables, keys                                                        *)

(* The four levels are different and ranked in their order (Levels).           *)
LEMMA LevelFacts ==
  /\ L0 = "L0_generated" /\ L1 = "L1_repeated" /\ L2 = "L2_regression" /\ L3 = "L3_human_approved"
  /\ Rank(L0) = 1 /\ Rank(L1) = 2 /\ Rank(L2) = 3 /\ Rank(L3) = 4
<1>1. L0 = "L0_generated" /\ L1 = "L1_repeated" /\ L2 = "L2_regression" /\ L3 = "L3_human_approved"
  BY DEF L0, L1, L2, L3, Levels
<1>2. /\ Levels[1] = "L0_generated" /\ Levels[2] = "L1_repeated"
      /\ Levels[3] = "L2_regression" /\ Levels[4] = "L3_human_approved"
  BY DEF Levels
<1>3. ASSUME NEW i \in 1..4  PROVE Rank(Levels[i]) = i
  <2>1. \A j \in 1..4 : Levels[j] = Levels[i] => j = i  BY <1>2
  <2>2. QED  BY <2>1 DEF Rank
<1>4. QED  BY <1>1, <1>2, <1>3

(* The rows of one spec are among the rows (_next_numbered_id's SELECT).       *)
LEMMA OfIsPart ==
  ASSUME NEW rows, NEW s, IsFiniteSet(rows)
  PROVE  /\ Of(rows, s) \subseteq rows /\ IsFiniteSet(Of(rows, s))
         /\ Cardinality(Of(rows, s)) \in Nat /\ Cardinality(Of(rows, s)) <= Cardinality(rows)
<1>1. Of(rows, s) \subseteq rows  BY DEF Of
<1>2. QED  BY <1>1, FS_Subset, FS_CardinalityType

(* An update of one row leaves their count (UPDATE ... WHERE id = ?).          *)
LEMMA SwapKeepsCount ==
  ASSUME NEW rows, IsFiniteSet(rows), NEW r \in rows, NEW q, q \notin rows \ {r}
  PROVE  LET new == (rows \ {r}) \cup {q}
         IN  IsFiniteSet(new) /\ Cardinality(new) = Cardinality(rows)
<1>1. IsFiniteSet(rows \ {r}) /\ Cardinality(rows \ {r}) = Cardinality(rows) - 1
  BY FS_RemoveElement
<1>2. IsFiniteSet((rows \ {r}) \cup {q})
      /\ Cardinality((rows \ {r}) \cup {q}) = Cardinality(rows \ {r}) + 1
  BY <1>1, FS_AddElement
<1>3. Cardinality(rows) \in Nat  BY FS_CardinalityType
<1>4. QED  BY <1>1, <1>2, <1>3

(* The row a number names (SELECT * FROM replay_runs WHERE id = ?).            *)
LEMMA ReplayIsARow ==
  ASSUME NEW s, NEW n, HasReplay(s, n)
  PROVE  Replay(s, n) \in replays /\ Replay(s, n).spec = s /\ Replay(s, n).n = n
BY DEF HasReplay, Replay

(* In a dense table the next number is free.                                   *)
LEMMA DenseIsFree ==
  ASSUME NEW rows, NEW s, IsFiniteSet(rows), Dense(rows), \A r \in rows : r.n \in Nat
  PROVE  ~ Collides(rows, s)
<1>1. SUFFICES ASSUME NEW r \in Of(rows, s), r.n = Cardinality(Of(rows, s)) + 1  PROVE FALSE
  BY DEF Collides, NextNumber
<1>2. r \in rows /\ r.spec = s  BY DEF Of
<1>3. r.n <= Cardinality(Of(rows, s))  BY <1>2 DEF Dense
<1>4. Cardinality(Of(rows, s)) \in Nat  BY OfIsPart
<1>5. QED  BY <1>1, <1>3, <1>4

(* The insert of a row with a free number (INSERT INTO ... VALUES).            *)
LEMMA InsertOK ==
  ASSUME NEW rows, NEW row, NEW s, TableOK(rows), ~ Collides(rows, s), clock \in 0..MaxRows,
         clock < MaxRows, MaxRows \in Nat, clock' = clock + 1, \A r \in rows : r.at \in Nat /\ r.n \in Nat,
         row.spec = s, row.n = NextNumber(rows, s), row.at = clock + 1
  PROVE  /\ TableOK(rows \cup {row})' /\ row.n \in 1..MaxRows /\ row \notin rows
         /\ Dense(rows) => Dense(rows \cup {row})
<1> DEFINE new == rows \cup {row}
<1>1. IsFiniteSet(rows) /\ Cardinality(rows) \in Nat /\ Cardinality(rows) <= clock
  BY FS_CardinalityType DEF TableOK
<1>2. row \notin rows  BY DEF TableOK
<1>3. IsFiniteSet(new) /\ Cardinality(new) = Cardinality(rows) + 1  BY <1>1, <1>2, FS_AddElement
<1>4. \A r \in rows : r.spec = s => r.n # row.n
  BY DEF Collides, Of
<1>5. \A r, p \in new : (r.spec = p.spec /\ r.n = p.n) => r = p
  BY <1>4 DEF TableOK
<1>6. \A r \in new : r.at <= clock'
  BY DEF TableOK
<1>7. row.n \in 1..MaxRows
  <2>1. Cardinality(Of(rows, s)) \in Nat /\ Cardinality(Of(rows, s)) <= Cardinality(rows)
    BY <1>1, OfIsPart
  <2>2. QED  BY <2>1, <1>1 DEF NextNumber
<1>8. ASSUME Dense(rows)  PROVE Dense(new)
  <2>1. SUFFICES ASSUME NEW r \in new  PROVE r.n <= Cardinality(Of(new, r.spec))
    BY DEF Dense
  <2>2. CASE r.spec = s
    <3>1. Of(new, s) = Of(rows, s) \cup {row}  BY DEF Of
    <3>2. row \notin Of(rows, s)  BY <1>2 DEF Of
    <3>3. IsFiniteSet(Of(rows, s)) /\ Cardinality(Of(rows, s)) \in Nat  BY <1>1, OfIsPart
    <3>4. Cardinality(Of(rows, s) \cup {row}) = Cardinality(Of(rows, s)) + 1
      BY <3>2, <3>3, FS_AddElement
    <3>5. CASE r = row  BY <3>5, <3>1, <3>4, <2>2, <3>3 DEF NextNumber
    <3>6. CASE r \in rows
      <4>1. r.n <= Cardinality(Of(rows, s)) /\ r.n \in Nat  BY <3>6, <2>2, <1>8 DEF Dense
      <4>2. Of(new, r.spec) = Of(rows, s) \cup {row}  BY <3>1, <2>2
      <4>3. QED  BY <4>1, <4>2, <3>4, <3>3
    <3>7. QED  BY <3>5, <3>6
  <2>3. CASE r.spec # s
    <3>1. r \in rows /\ Of(new, r.spec) = Of(rows, r.spec)  BY <2>3 DEF Of
    <3>2. QED  BY <3>1, <1>8 DEF Dense
  <2>4. QED  BY <2>2, <2>3
<1>9. TableOK(new)'
  BY <1>1, <1>3, <1>5, <1>6 DEF TableOK
<1>10. QED  BY <1>2, <1>7, <1>8, <1>9

--------------------------------------------------------------------------------
(* The initial state and the shapes of a step                                  *)

(* An empty store (init_db).                                                   *)
LEMMA InitInv == Init => Inv
<1> SUFFICES ASSUME Init  PROVE Inv
  OBVIOUS
<1> USE ChecksAssumption DEF Init
<1>1. SpecsOK
  <2>1. ASSUME NEW s \in Specs  PROVE definition[s].trust_level \in Trusts
    BY DEF Trusts
  <2>2. trust \in [Specs -> Trusts]  BY <2>1
  <2>3. QED  BY <2>2 DEF SpecsOK
<1>2. RunsOK  BY DEF RunsOK
<1>3. IsFiniteSet({}) /\ Cardinality({}) = 0  BY FS_EmptySet
<1>4. RowsOK
  <2>1. TableOK(replays) /\ TableOK(checks)  BY <1>3 DEF TableOK
  <2>2. AnsweredOK  BY DEF AnsweredOK
  <2>3. replays \subseteq ReplayRow /\ checks \subseteq CheckRow  OBVIOUS
  <2>4. MaxRows \in Nat /\ clock = 0 /\ pruned = FALSE  OBVIOUS
  <2>5. clock \in 0..MaxRows  BY <2>4
  <2>6. pruned \in BOOLEAN  BY <2>4
  <2>7. QED  BY <2>1, <2>2, <2>3, <2>5, <2>6 DEF RowsOK
<1>5. RowsKept  BY DEF RowsKept, Dense
<1>6. CallsOK
  <2>1. Idle \in Call  BY DEF Call
  <2>2. CallTyped(Idle) /\ CallKept(Idle)  BY <2>1 DEF CallTyped, CallKept, Idle, InFlight
  <2>3. \A c \in Callers : pc[c] = Idle  OBVIOUS
  <2>4. pc \in [Callers -> Call]  BY <2>1
  <2>5. QED  BY <2>2, <2>3, <2>4 DEF CallsOK
<1>7. QED  BY <1>1, <1>2, <1>4, <1>5, <1>6 DEF Inv

(* What the steps of one caller owe the others: the keys of rows stay, with    *)
(* what each was asked to do, or some row was pruned.                          *)
KeysStay ==
  \A r \in replays : \E q \in replays' : q.spec = r.spec /\ q.n = r.n /\ q.want = r.want

(* A call whose row stays is as good as before.                                *)
LEMMA KeptCall ==
  ASSUME NEW k \in Call, CallKept(k), KeysStay, TableOK(replays)'
  PROVE  CallKept(k)'
<1>1. ASSUME k.at \in InFlight, k.n # 0  PROVE HasReplay(k.spec, k.n)'
  <2>1. PICK r \in replays : r.spec = k.spec /\ r.n = k.n
    BY <1>1 DEF CallKept, HasReplay
  <2>2. QED  BY <2>1 DEF HasReplay, KeysStay
<1>2. ASSUME k.at = "complete", NEW r \in replays', r.spec = k.spec, r.n = k.n
      PROVE  k.answer.actual \in AllowedActual[r.want]
  <2>1. k.at \in InFlight /\ k.n # 0
    <3>1. k.n \in 1..MaxRows  BY <1>2 DEF Call, Idle
    <3>2. QED  BY <1>2, <3>1 DEF InFlight
  <2>2. PICK p \in replays : p.spec = k.spec /\ p.n = k.n
    BY <2>1 DEF CallKept, HasReplay
  <2>3. PICK q \in replays' : q.spec = p.spec /\ q.n = p.n /\ q.want = p.want
    BY <2>2 DEF KeysStay
  <2>4. q = r  BY <2>2, <2>3, <1>2 DEF TableOK
  <2>5. k.answer.actual \in AllowedActual[p.want]  BY <2>2, <1>2 DEF CallKept
  <2>6. QED  BY <2>3, <2>4, <2>5
<1>3. QED  BY <1>1, <1>2 DEF CallKept

(* A step of one caller, which goes on to k; rows and keys are taken care of.  *)
LEMMA OwnStep ==
  ASSUME Inv, NEW c \in Callers, NEW k, CallTyped(k), Goto(c, k),
         pruned \in BOOLEAN, pruned => pruned',
         ~ pruned' => KeysStay /\ CallKept(k)',
         TableOK(replays)'
  PROVE  CallsOK'
<1>1. k \in Call  BY DEF CallTyped
<1>2. pc \in [Callers -> Call] /\ pc' = [pc EXCEPT ![c] = k]  BY DEF Inv, CallsOK, Goto
<1>3. pc' \in [Callers -> Call]  BY <1>1, <1>2
<1>4. ASSUME NEW b \in Callers  PROVE CallTyped(pc[b])' /\ (~ pruned => CallKept(pc[b]))'
  <2>1. CASE b = c
    <3>1. pc'[b] = k  BY <2>1, <1>2
    <3>2. ~ pruned' => CallKept(k)'  OBVIOUS
    <3>3. QED  BY <3>1, <3>2 DEF CallKept, CallTyped, HasReplay
  <2>2. CASE b # c
    <3>1. PICK j : j = pc[b]  OBVIOUS
    <3>2. pc'[b] = j /\ j \in Call /\ CallTyped(j) /\ (~ pruned => CallKept(j))
      BY <3>1, <2>2, <1>2 DEF Inv, CallsOK
    <3>3. ~ pruned' => CallKept(j)'  BY <3>2, KeptCall
    <3>4. QED  BY <3>2, <3>3 DEF CallKept, CallTyped, HasReplay
  <2>3. QED  BY <2>1, <2>2
<1>5. QED  BY <1>3, <1>4 DEF CallsOK

(* A step that writes no row.                                                  *)
LEMMA RowsStay ==
  ASSUME Inv, UNCHANGED rowVars
  PROVE  /\ RowsOK' /\ RowsKept' /\ KeysStay /\ TableOK(replays)'
         /\ \A k : CallKept(k) => CallKept(k)'
<1>1. replays' = replays /\ checks' = checks /\ clock' = clock /\ pruned' = pruned
  BY DEF rowVars
<1>2. RowsOK /\ RowsKept  BY DEF Inv
<1>3. RowsOK'
  BY <1>1, <1>2 DEF RowsOK, TableOK, AnsweredOK
<1>4. RowsKept'
  BY <1>1, <1>2 DEF RowsKept, Dense, Of
<1>5. KeysStay  BY <1>1 DEF KeysStay
<1>6. QED
  BY <1>1, <1>3, <1>4, <1>5 DEF RowsOK, CallKept, HasReplay

(* A step of a caller that writes no row.                                      *)
LEMMA ControlStep ==
  ASSUME Inv, NEW c \in Callers, NEW k, UNCHANGED rowVars, Goto(c, k), CallTyped(k),
         ~ pruned => CallKept(k), SpecsOK', RunsOK'
  PROVE  Inv'
<1>1. /\ RowsOK' /\ RowsKept' /\ KeysStay /\ TableOK(replays)'
      /\ (CallKept(k) => CallKept(k)')
  BY RowsStay
<1>2. pruned' = pruned /\ pruned \in BOOLEAN  BY DEF rowVars, Inv, RowsOK
<1>3. CallsOK'  BY <1>1, <1>2, OwnStep
<1>4. QED  BY <1>1, <1>3 DEF Inv

(* A step of a caller that changes the store's rows.                           *)
LEMMA SpecsStay ==
  ASSUME Inv, UNCHANGED <<specVars, locks>>
  PROVE  SpecsOK'
BY DEF Inv, SpecsOK, specVars

(* The runs stay.                                                              *)
LEMMA RunsStay ==
  ASSUME Inv, UNCHANGED runs
  PROVE  RunsOK'
BY DEF Inv, RunsOK

(* An idle caller owes nothing.                                                *)
LEMMA IdleIsFine == CallTyped(Idle) /\ CallKept(Idle)
<1>1. Idle \in Call  BY DEF Call
<1>2. QED  BY <1>1 DEF CallTyped, CallKept, Idle, InFlight

--------------------------------------------------------------------------------
(* Specs, and the steps of callers that write no row                           *)

(* Generation, and the lock of a human, are no caller's steps.                 *)
LEMMA GenerateInv == ASSUME Inv, NEW s \in Specs, Generate(s)  PROVE Inv'
<1> USE DEF Generate
<1>1. SpecsOK'  BY DEF Inv, SpecsOK
<1>2. RunsOK'  BY RunsStay
<1>3. /\ RowsOK' /\ RowsKept' /\ KeysStay
      /\ \A k : CallKept(k) => CallKept(k)'
  BY RowsStay
<1>4. CallsOK'  BY DEF Inv, CallsOK, CallTyped, CallKept, HasReplay, rowVars
<1>5. QED  BY <1>1, <1>2, <1>3, <1>4 DEF Inv

(* The lock of a human (lock_check_spec, unlock_check_spec).                   *)
LEMMA SetLockInv == ASSUME Inv, NEW s \in Specs, NEW on \in BOOLEAN, SetLock(s, on)  PROVE Inv'
<1> USE DEF SetLock
<1>1. SpecsOK'
  <2>1. locked \in [Specs -> BOOLEAN]  BY DEF Inv, SpecsOK
  <2>2. locked' \in [Specs -> BOOLEAN]  BY <2>1
  <2>3. locks' \in 0..MaxLocks  BY ChecksAssumption DEF Inv, SpecsOK
  <2>4. QED  BY <2>2, <2>3 DEF Inv, SpecsOK
<1>2. RunsOK'  BY RunsStay
<1>3. RowsOK' /\ RowsKept'  BY RowsStay
<1>4. CallsOK'  BY DEF Inv, CallsOK, CallTyped, CallKept, HasReplay, rowVars
<1>5. QED  BY <1>1, <1>2, <1>3, <1>4 DEF Inv

(* What a caller at some place of its work has in hand.                        *)
LEMMA CallFields ==
  ASSUME Inv, NEW c \in Callers
  PROVE  /\ pc[c] \in Call /\ CallTyped(pc[c]) /\ (~ pruned => CallKept(pc[c]))
         /\ pc[c].at \in {"approve", "judging"} => pc[c].spec \in Specs
         /\ pc[c].at = "check" => /\ pc[c].spec \in Specs /\ pc[c].n \in 0..MaxRows
                                  /\ pc[c].trust \in Trusts
         /\ pc[c].at \in {"running", "complete", "mark"} =>
              pc[c].spec \in Specs /\ pc[c].n \in 1..MaxRows
         /\ pc[c].at \in {"running", "complete"} => pc[c].then \in BOOLEAN /\ pc[c].marks \in BOOLEAN
         /\ pc[c].at = "complete" => pc[c].answer \in Answers /\ pc[c].answer.actual \in SafeModes
         /\ pc[c].at = "run_check" => pc[c].spec \in Specs /\ pc[c].n \in 0..MaxRows
         /\ pc[c].at = "prune" => /\ pc[c].replays \in SUBSET (1..MaxRows)
                                  /\ pc[c].checks \in SUBSET (1..MaxRows)
<1>1. pc[c] \in Call /\ CallTyped(pc[c]) /\ (~ pruned => CallKept(pc[c]))
  BY DEF Inv, CallsOK
<1>2. QED  BY <1>1 DEF Call, CallTyped, Idle

(* Each step that writes no row goes on to a call that keeps the invariant.    *)
LEMMA ApproveReadInv ==
  ASSUME Inv, NEW c \in Callers, NEW s \in Specs, ApproveRead(c, s)  PROVE Inv'
<1> DEFINE k == [at |-> "approve", spec |-> s]
<1>1. Goto(c, k) /\ UNCHANGED <<specVars, rowVars, runs, locks>>  BY DEF ApproveRead
<1>2. k \in Call  BY DEF Call
<1>3. CallTyped(k) /\ CallKept(k)  BY <1>2 DEF CallTyped, CallKept, InFlight
<1>4. QED  BY <1>1, <1>3, ControlStep, SpecsStay, RunsStay

(* An approval raises the trust of a spec to the highest level.                *)
LEMMA ApproveWriteInv == ASSUME Inv, NEW c \in Callers, ApproveWrite(c)  PROVE Inv'
<1> USE DEF ApproveWrite
<1>1. pc[c].spec \in Specs  BY CallFields
<1>2. trust' \in [Specs -> Trusts]  BY <1>1 DEF Trusts, Inv, SpecsOK
<1>3. SpecsOK'  BY <1>2 DEF Inv, SpecsOK
<1>4. QED  BY <1>3, ControlStep, IdleIsFine, RunsStay

(* A check run reads its spec; the replay it holds the number of is there.     *)
LEMMA CheckReadInv ==
  ASSUME Inv, NEW c \in Callers, NEW s \in Specs, NEW n \in 0..MaxRows, CheckRead(c, s, n)
  PROVE  Inv'
<1> DEFINE k == [at |-> "check", spec |-> s, n |-> n, trust |-> trust[s],
                 recorded |-> recorded[s], marks |-> pc[c] # Idle /\ n # 0]
<1>1. Goto(c, k) /\ UNCHANGED <<specVars, rowVars, runs, locks>>  BY DEF CheckRead
<1>2. trust[s] \in Trusts /\ recorded[s] \in Verdicts \cup {None}  BY DEF Inv, SpecsOK
<1>3. (pc[c] # Idle /\ n # 0) \in BOOLEAN  OBVIOUS
<1>4. k \in Call
  <2>1. PICK m \in BOOLEAN : m = (pc[c] # Idle /\ n # 0)  BY Zenon
  <2>2. [k EXCEPT !.marks = m] \in Call  BY <1>2 DEF Call
  <2>3. QED  BY <2>1, <2>2
<1>5. ASSUME ~ pruned, n # 0  PROVE HasReplay(s, n)
  <2>1. CASE pc[c] = Idle  BY <2>1, <1>5 DEF CheckRead, Idle
  <2>2. CASE pc[c].at = "run_check" /\ pc[c].spec = s /\ pc[c].n = n
    BY <2>2, <1>5, CallFields DEF CallKept, InFlight
  <2>3. QED  BY <2>1, <2>2 DEF CheckRead
<1>6. CallTyped(k)  BY <1>4 DEF CallTyped
<1>7. ~ pruned => CallKept(k)  BY <1>5 DEF CallKept, InFlight
<1>8. QED  BY <1>1, <1>6, <1>7, ControlStep, SpecsStay, RunsStay

(* A check run that fails passes its replay on to be marked.                   *)
LEMMA CheckFailsInv == ASSUME Inv, NEW c \in Callers, CheckFails(c)  PROVE Inv'
<1> DEFINE s == pc[c].spec
           gone == pc[c].n # 0 /\ ~ HasReplay(s, pc[c].n)
           mark == [at |-> "mark", spec |-> s, n |-> pc[c].n]
<1>1. pc[c].at = "check" /\ UNCHANGED <<specVars, rowVars, runs, locks>>
      /\ Goto(c, IF gone /\ pc[c].marks THEN mark ELSE Idle)
  BY DEF CheckFails
<1>2. s \in Specs /\ pc[c].n \in 0..MaxRows /\ (~ pruned => CallKept(pc[c]))  BY <1>1, CallFields
<1>3. CASE gone /\ pc[c].marks
  <2>1. mark \in Call  BY <1>2, <1>3, ChecksAssumption DEF Call
  <2>2. CallTyped(mark)  BY <2>1 DEF CallTyped
  <2>3. ~ pruned => CallKept(mark)  BY <1>1, <1>2 DEF CallKept, InFlight
  <2>4. Goto(c, mark)  BY <1>1, <1>3
  <2>5. QED  BY <1>1, <2>2, <2>3, <2>4, ControlStep, SpecsStay, RunsStay
<1>4. CASE ~ (gone /\ pc[c].marks)
  <2>1. Goto(c, Idle)  BY <1>1, <1>4
  <2>2. QED  BY <1>1, <2>1, IdleIsFine, ControlStep, SpecsStay, RunsStay
<1>5. QED  BY <1>3, <1>4

(* The replay a fixture is for is there.                                       *)
LEMMA ReadFixtureInv ==
  ASSUME Inv, NEW c \in Callers, NEW s \in Specs, NEW n \in 1..MaxRows, ReadFixture(c, s, n)
  PROVE  Inv'
<1> DEFINE k == [at |-> "running", spec |-> s, n |-> n, then |-> FALSE, marks |-> FALSE]
<1>1. Goto(c, k) /\ HasReplay(s, n) /\ UNCHANGED <<specVars, rowVars, runs, locks>>
  BY DEF ReadFixture
<1>2. k \in Call  BY DEF Call
<1>3. CallTyped(k) /\ CallKept(k)  BY <1>1, <1>2 DEF CallTyped, CallKept, InFlight
<1>4. QED  BY <1>1, <1>3, ControlStep, SpecsStay, RunsStay

(* The row of a failed runner is marked if it is the runner's.                 *)
LEMMA FailedIsFine ==
  ASSUME Inv, NEW c \in Callers, pc[c].at \in {"running", "complete"}
  PROVE  CallTyped(Failed(c)) /\ (~ pruned => CallKept(Failed(c)))
<1> DEFINE mark == [at |-> "mark", spec |-> pc[c].spec, n |-> pc[c].n]
<1>1. pc[c].spec \in Specs /\ pc[c].n \in 1..MaxRows /\ (~ pruned => CallKept(pc[c]))
  BY CallFields
<1>2. mark \in Call  BY <1>1 DEF Call
<1>3. CallTyped(mark)  BY <1>2 DEF CallTyped
<1>4. ~ pruned => CallKept(mark)  BY <1>1 DEF CallKept, InFlight
<1>5. Failed(c) = mark \/ Failed(c) = Idle  BY DEF Failed
<1>6. QED  BY <1>3, <1>4, <1>5, IdleIsFine

(* A replay that fails is marked.                                              *)
LEMMA ReplayFailsInv == ASSUME Inv, NEW c \in Callers, ReplayFails(c)  PROVE Inv'
<1>1. pc[c].at = "running" /\ Goto(c, Failed(c)) /\ UNCHANGED <<specVars, rowVars, runs, locks>>
  BY DEF ReplayFails
<1>2. QED  BY <1>1, FailedIsFine, ControlStep, SpecsStay, RunsStay

(* A judge starts.                                                             *)
LEMMA JudgeStartInv ==
  ASSUME Inv, NEW c \in Callers, NEW s \in Specs, JudgeStart(c, s)  PROVE Inv'
<1> DEFINE k == [at |-> "judging", spec |-> s]
<1>1. Goto(c, k) /\ UNCHANGED <<specVars, rowVars, runs, locks>>  BY DEF JudgeStart
<1>2. k \in Call  BY DEF Call
<1>3. CallTyped(k) /\ CallKept(k)  BY <1>2 DEF CallTyped, CallKept, InFlight
<1>4. QED  BY <1>1, <1>3, ControlStep, SpecsStay, RunsStay

(* A verdict is recorded, and the check run that follows has no replay.        *)
LEMMA JudgeRecordInv ==
  ASSUME Inv, NEW c \in Callers, NEW verdict \in Verdicts, JudgeRecord(c, verdict)  PROVE Inv'
<1> DEFINE k == [at |-> "run_check", spec |-> pc[c].spec, n |-> 0]
<1>1. Goto(c, k) /\ pc[c].at = "judging" /\ UNCHANGED <<rowVars, runs>>  BY DEF JudgeRecord
<1>2. pc[c].spec \in Specs  BY <1>1, CallFields
<1>3. recorded' \in [Specs -> Verdicts \cup {None}]  BY <1>2 DEF JudgeRecord, Inv, SpecsOK
<1>4. SpecsOK'  BY <1>3 DEF JudgeRecord, Inv, SpecsOK
<1>5. k \in Call  BY <1>2, ChecksAssumption DEF Call
<1>6. CallTyped(k) /\ CallKept(k)  BY <1>5 DEF CallTyped, CallKept, InFlight
<1>7. QED  BY <1>1, <1>4, <1>6, ControlStep, RunsStay

(* A crash leaves the rows as they are.                                        *)
LEMMA CrashInv == ASSUME Inv, NEW c \in Callers, Crash(c)  PROVE Inv'
BY IdleIsFine, ControlStep, SpecsStay, RunsStay DEF Crash

(* A pruning collects rows that are there.                                     *)
LEMMA PruneReadInv ==
  ASSUME Inv, NEW c \in Callers, NEW cutoff \in 1..MaxRows, PruneRead(c, cutoff)  PROVE Inv'
<1> DEFINE old == {r \in replays : r.at <= cutoff}
           k == [at |-> "prune", replays |-> {r.at : r \in old},
                 checks |-> {j.at : j \in {j \in checks :
                   j.at <= cutoff \/ \E r \in old : j.spec = r.spec /\ j.replay = r.n}}]
<1>1. Goto(c, k) /\ UNCHANGED <<specVars, rowVars, runs, locks>>  BY DEF PruneRead
<1>2. k.replays \subseteq 1..MaxRows /\ k.checks \subseteq 1..MaxRows
  BY DEF Inv, RowsOK, ReplayRow, CheckRow
<1>3. k \in Call  BY <1>2 DEF Call
<1>4. CallTyped(k) /\ CallKept(k)  BY <1>3 DEF CallTyped, CallKept, InFlight
<1>5. QED  BY <1>1, <1>4, ControlStep, SpecsStay, RunsStay

--------------------------------------------------------------------------------
(* The steps that write rows                                                   *)

(* An answer is accepted for the row its caller holds the number of.           *)
LEMMA AnswerInv ==
  ASSUME Inv, NEW c \in Callers, NEW answer \in Answers, Answer(c, answer)  PROVE Inv'
<1> DEFINE s == pc[c].spec
           n == pc[c].n
           ok == HasReplay(s, n) /\ Accepted(answer, Replay(s, n))
           k == [at |-> "complete", spec |-> s, n |-> n, then |-> pc[c].then,
                 marks |-> pc[c].marks, answer |-> answer]
<1>1. pc[c].at = "running" /\ UNCHANGED <<specVars, rowVars, locks>>  BY DEF Answer
<1>2. /\ s \in Specs /\ n \in 1..MaxRows /\ pc[c].then \in BOOLEAN /\ pc[c].marks \in BOOLEAN
      /\ (~ pruned => CallKept(pc[c]))
  BY <1>1, CallFields
<1>3. SpecsOK'  BY <1>1, SpecsStay
<1>4. CASE Goto(c, Failed(c)) /\ UNCHANGED runs
  BY <1>1, <1>3, <1>4, FailedIsFine, ControlStep, RunsStay
<1>5. CASE Goto(c, Idle) /\ UNCHANGED runs
  BY <1>1, <1>3, <1>5, IdleIsFine, ControlStep, RunsStay
<1>6. CASE /\ ok /\ Goto(c, k)
           /\ runs' = IF answer.carries THEN runs \cup {answer.trace} ELSE runs
  <2>1. answer.trace \in Run  BY ChecksAssumption
  <2>2. RunsOK'  BY <1>6, <2>1 DEF Inv, RunsOK
  <2>3. k \in Call  BY <1>2 DEF Call
  <2>4. answer.actual \in SafeModes /\ answer.actual \in AllowedActual[Replay(s, n).want]
    BY <1>6 DEF Accepted
  <2>5. CallTyped(k)  BY <2>3, <2>4 DEF CallTyped
  <2>6. ASSUME NEW r \in replays, r.spec = s, r.n = n  PROVE r = Replay(s, n)
    <3>1. Replay(s, n) \in replays /\ Replay(s, n).spec = s /\ Replay(s, n).n = n
      BY <1>6, ReplayIsARow
    <3>2. QED  BY <2>6, <3>1 DEF Inv, RowsOK, TableOK
  <2>7. CallKept(k)
    <3>1. k.spec = s /\ k.n = n /\ k.answer = answer /\ HasReplay(s, n)  BY <1>6
    <3>2. ASSUME NEW r \in replays, r.spec = k.spec, r.n = k.n
          PROVE  k.answer.actual \in AllowedActual[r.want]
      BY <2>4, <2>6, <3>1, <3>2
    <3>3. QED  BY <3>1, <3>2 DEF CallKept
  <2>8. QED  BY <1>1, <1>3, <1>6, <2>2, <2>5, <2>7, ControlStep
<1>7. QED  BY <1>4, <1>5, <1>6 DEF Answer

(* A replay is written into its row: everything but the key, the time and what *)
(* was asked may change (UPDATE replay_runs).                                  *)
LEMMA UpdateStep ==
  ASSUME Inv, NEW c \in Callers, NEW r \in replays, NEW q \in ReplayRow, NEW k,
         q.spec = r.spec, q.n = r.n, q.at = r.at, q.want = r.want,
         replays' = (replays \ {r}) \cup {q}, UNCHANGED <<specVars, checks, clock, pruned, runs, locks>>,
         q.mapped # None => q.answered,
         ~ pruned /\ q.answered => q.actual \in AllowedActual[q.want],
         Goto(c, k), CallTyped(k), ~ pruned => CallKept(k)
  PROVE  Inv'
<1>1. RowsOK /\ RowsKept  BY DEF Inv
<1>2. checks' = checks /\ clock' = clock /\ pruned' = pruned  OBVIOUS
<1>3. \A p \in replays : (p.spec = q.spec /\ p.n = q.n) => p = r
  BY <1>1 DEF RowsOK, TableOK
<1>4. q \notin replays \ {r}  BY <1>3
<1>5. IsFiniteSet(replays) /\ IsFiniteSet(replays') /\ Cardinality(replays') = Cardinality(replays)
  BY <1>1, <1>4, SwapKeepsCount DEF RowsOK, TableOK
<1>6. TableOK(replays)'
  <2>1. \A p, o \in replays' : (p.spec = o.spec /\ p.n = o.n) => p = o
    BY <1>1, <1>3 DEF RowsOK, TableOK
  <2>2. \A p \in replays' : p.at <= clock'
    BY <1>1 DEF RowsOK, TableOK
  <2>3. QED  BY <1>1, <1>5, <2>1, <2>2 DEF RowsOK, TableOK
<1>7. RowsOK'
  <2>1. replays' \subseteq ReplayRow  BY <1>1 DEF RowsOK
  <2>2. AnsweredOK'  BY <1>1 DEF RowsOK, AnsweredOK
  <2>3. TableOK(checks)'  BY <1>1 DEF RowsOK, TableOK
  <2>4. QED  BY <1>1, <1>2, <1>6, <2>1, <2>2, <2>3 DEF RowsOK
<1>8. ASSUME ~ pruned  PROVE Dense(replays)'
  <2>1. ASSUME NEW s  PROVE Cardinality(Of(replays', s)) = Cardinality(Of(replays, s))
    <3>1. CASE s = r.spec
      <4>1. Of(replays', s) = (Of(replays, s) \ {r}) \cup {q} /\ r \in Of(replays, s)
        BY <3>1 DEF Of
      <4>2. q \notin Of(replays, s) \ {r}  BY <1>4 DEF Of
      <4>3. IsFiniteSet(Of(replays, s))  BY <1>5, OfIsPart
      <4>4. Cardinality((Of(replays, s) \ {r}) \cup {q}) = Cardinality(Of(replays, s))
        BY <4>1, <4>2, <4>3, SwapKeepsCount
      <4>5. QED  BY <4>1, <4>4
    <3>2. CASE s # r.spec
      <4>1. Of(replays', s) = Of(replays, s)  BY <3>2 DEF Of
      <4>2. QED  BY <4>1
    <3>3. QED  BY <3>1, <3>2
  <2>2. SUFFICES ASSUME NEW p \in replays'  PROVE p.n <= Cardinality(Of(replays', p.spec))
    BY DEF Dense
  <2>3. PICK o \in replays : o.n = p.n /\ o.spec = p.spec  OBVIOUS
  <2>4. o.n <= Cardinality(Of(replays, o.spec))  BY <1>1, <1>8 DEF RowsKept, Dense
  <2>5. QED  BY <2>1, <2>3, <2>4
<1>9. RowsKept'
  <2>1. \A p \in replays' : ~ pruned => (p.answered => p.actual \in AllowedActual[p.want])
    BY <1>1 DEF RowsKept
  <2>2. ~ pruned => Dense(checks)'  BY <1>1 DEF RowsKept, Dense, Of
  <2>3. QED  BY <1>2, <1>8, <2>1, <2>2 DEF RowsKept
<1>10. KeysStay  BY DEF KeysStay
<1>11. CallsOK'
  <2>1. k \in Call  BY DEF CallTyped
  <2>2. ~ pruned => CallKept(k)'  BY <1>6, <1>10, <2>1, KeptCall
  <2>3. pruned \in BOOLEAN  BY <1>1 DEF RowsOK
  <2>4. QED  BY <1>2, <1>6, <1>10, <2>2, <2>3, OwnStep
<1>12. SpecsOK' /\ RunsOK'  BY SpecsStay, RunsStay
<1>13. QED  BY <1>7, <1>9, <1>11, <1>12 DEF Inv

(* A completion writes the answer that was accepted for the row.               *)
LEMMA CompleteInv == ASSUME Inv, NEW c \in Callers, Complete(c)  PROVE Inv'
<1> DEFINE s == pc[c].spec
           n == pc[c].n
           answer == pc[c].answer
           r == Replay(s, n)
           q == [r EXCEPT !.status = answer.status, !.answered = TRUE, !.actual = answer.actual,
                          !.out = answer.out, !.mapped = answer.mapped]
           again == [at |-> "run_check", spec |-> s, n |-> n]
<1>1. pc[c].at = "complete"  BY DEF Complete
<1>2. /\ s \in Specs /\ n \in 1..MaxRows /\ answer \in Answers /\ answer.actual \in SafeModes
      /\ (~ pruned => CallKept(pc[c]))
  BY <1>1, CallFields
<1>3. CASE /\ HasReplay(s, n) /\ Fits(answer) /\ replays' = (replays \ {r}) \cup {q}
           /\ Goto(c, IF pc[c].then THEN again ELSE Idle)
           /\ UNCHANGED <<specVars, checks, clock, pruned, runs, locks>>
  <2>1. r \in replays /\ r.spec = s /\ r.n = n  BY <1>3, ReplayIsARow
  <2>2. r \in ReplayRow  BY <2>1 DEF Inv, RowsOK
  <2>3. answer.out \in Run /\ answer.status \in CompletionStatuses  BY <1>3 DEF Fits, Inv, RunsOK
  <2>4. answer.mapped \in Run \cup {None}  BY <1>2, ChecksAssumption
  <2>5. /\ q \in ReplayRow /\ q.spec = r.spec /\ q.n = r.n /\ q.at = r.at /\ q.want = r.want
        /\ q.answered = TRUE /\ q.actual = answer.actual
    BY <1>2, <2>2, <2>3, <2>4 DEF ReplayRow
  <2>6. ~ pruned => q.actual \in AllowedActual[q.want]
    <3>1. ~ pruned => answer.actual \in AllowedActual[r.want]  BY <1>1, <1>2, <2>1 DEF CallKept
    <3>2. QED  BY <2>5, <3>1
  <2>7. again \in Call  BY <1>2 DEF Call
  <2>8. CallTyped(again)  BY <2>7 DEF CallTyped
  <2>9. CallKept(again)  BY <1>3 DEF CallKept, InFlight
  <2>10. PICK k \in {again, Idle} : Goto(c, k)  BY <1>3
  <2>11. CallTyped(k) /\ CallKept(k)  BY <2>8, <2>9, IdleIsFine
  <2>12. replays' = (replays \ {r}) \cup {q} /\ UNCHANGED <<specVars, checks, clock, pruned, runs, locks>>
    BY <1>3
  <2>13. q.answered  BY <2>5
  <2> HIDE DEF q, r
  <2>14. QED  BY <2>1, <2>5, <2>6, <2>10, <2>11, <2>12, <2>13, UpdateStep
<1>4. CASE /\ Goto(c, Failed(c)) /\ UNCHANGED replays
           /\ UNCHANGED <<specVars, checks, clock, pruned, runs, locks>>
  BY <1>1, <1>4, FailedIsFine, ControlStep, SpecsStay, RunsStay DEF rowVars
<1>5. QED  BY <1>3, <1>4 DEF Complete

(* A mark changes the status of the row, if the row is there.                  *)
LEMMA MarkErroredInv == ASSUME Inv, NEW c \in Callers, MarkErrored(c)  PROVE Inv'
<1> DEFINE s == pc[c].spec
           n == pc[c].n
           r == Replay(s, n)
           q == [r EXCEPT !.status = "errored"]
<1>1. /\ Goto(c, Idle) /\ UNCHANGED <<specVars, checks, clock, pruned, runs, locks>>
      /\ replays' = IF HasReplay(s, n) THEN (replays \ {r}) \cup {q} ELSE replays
  BY DEF MarkErrored
<1>2. CASE HasReplay(s, n)
  <2>1. r \in replays  BY <1>2, ReplayIsARow
  <2>2. r \in ReplayRow  BY <2>1 DEF Inv, RowsOK
  <2>3. /\ q \in ReplayRow /\ q.spec = r.spec /\ q.n = r.n /\ q.at = r.at /\ q.want = r.want
        /\ q.mapped = r.mapped /\ q.answered = r.answered /\ q.actual = r.actual
    BY <2>2 DEF ReplayRow, CompletionStatuses
  <2>4. (r.mapped # None => r.answered) /\ (~ pruned /\ r.answered => r.actual \in AllowedActual[r.want])
    BY <2>1 DEF Inv, RowsOK, AnsweredOK, RowsKept
  <2>5. replays' = (replays \ {r}) \cup {q}  BY <1>1, <1>2
  <2>6. /\ q.mapped # None => q.answered
        /\ ~ pruned /\ q.answered => q.actual \in AllowedActual[q.want]
    BY <2>3, <2>4
  <2> HIDE DEF q, r
  <2>7. QED  BY <1>1, <2>1, <2>3, <2>5, <2>6, IdleIsFine, UpdateStep
<1>3. CASE ~ HasReplay(s, n)
  <2>1. UNCHANGED <<rowVars, specVars, runs, locks>>  BY <1>1, <1>3 DEF rowVars
  <2>2. QED  BY <1>1, <2>1, IdleIsFine, ControlStep, SpecsStay, RunsStay
<1>4. QED  BY <1>2, <1>3

(* A replay is created under a free number, and says that it passed.           *)
LEMMA CreateReplayInv ==
  ASSUME Inv, NEW c \in Callers, NEW s \in Specs, NEW want \in Modes, NEW then \in BOOLEAN,
         CreateReplay(c, s, want, then)
  PROVE  Inv'
<1> DEFINE row == [spec |-> s, n |-> NextNumber(replays, s), at |-> clock + 1, want |-> want,
                   status |-> "passed", answered |-> FALSE, actual |-> "none",
                   out |-> None, mapped |-> None]
           k == [at |-> "running", spec |-> s, n |-> NextNumber(replays, s),
                 then |-> then, marks |-> TRUE]
<1>1. /\ clock < MaxRows /\ ~ Collides(replays, s) /\ replays' = replays \cup {row}
      /\ clock' = clock + 1 /\ Goto(c, k) /\ UNCHANGED <<specVars, checks, pruned, runs, locks>>
  BY DEF CreateReplay
<1>2. RowsOK /\ RowsKept /\ MaxRows \in Nat  BY ChecksAssumption DEF Inv
<1>3. \A r \in replays : r.at \in Nat /\ r.n \in Nat  BY <1>2 DEF RowsOK, ReplayRow
<1>4. clock \in 0..MaxRows /\ TableOK(replays) /\ TableOK(checks)  BY <1>2 DEF RowsOK
<1>5. row.spec = s /\ row.n = NextNumber(replays, s) /\ row.at = clock + 1 /\ row.answered = FALSE
      /\ row.mapped = None
  OBVIOUS
<1>6. /\ TableOK(replays)' /\ row.n \in 1..MaxRows
      /\ (Dense(replays) => Dense(replays \cup {row}))
  <2> HIDE DEF row
  <2>1. PICK rows, new : rows = replays /\ new = row  OBVIOUS
  <2>2. /\ TableOK(rows) /\ ~ Collides(rows, s) /\ new.spec = s /\ new.n = NextNumber(rows, s)
        /\ new.at = clock + 1 /\ (\A r \in rows : r.at \in Nat /\ r.n \in Nat)
    BY <1>1, <1>3, <1>4, <1>5, <2>1
  <2>3. TableOK(rows \cup {new})' /\ new.n \in 1..MaxRows /\ (Dense(rows) => Dense(rows \cup {new}))
    BY <1>1, <1>2, <1>4, <2>2, InsertOK
  <2>4. replays' = rows \cup {new}  BY <1>1, <2>1
  <2>5. TableOK(replays)'  BY <2>3, <2>4 DEF TableOK
  <2>6. QED  BY <2>1, <2>3, <2>5
<1>7. row \in ReplayRow
  <2>1. NextNumber(replays, s) \in 1..MaxRows  BY <1>6
  <2>2. clock + 1 \in 1..MaxRows  BY <1>1, <1>2, <1>4
  <2>3. QED  BY <2>1, <2>2 DEF ReplayRow, CompletionStatuses, SafeModes
<1>8. TableOK(replays)'  BY <1>6
<1> HIDE DEF row
<1>9. RowsOK'
  <2>1. replays' \subseteq ReplayRow /\ checks' \subseteq CheckRow  BY <1>1, <1>2, <1>7 DEF RowsOK
  <2>2. AnsweredOK'  BY <1>1, <1>2, <1>5 DEF RowsOK, AnsweredOK
  <2>3. clock' \in 0..MaxRows  BY <1>1, <1>2, <1>4
  <2>4. pruned' \in BOOLEAN  BY <1>1, <1>2 DEF RowsOK
  <2>5. TableOK(checks)'
    <3>1. Cardinality(checks) \in Nat  BY <1>4, FS_CardinalityType DEF TableOK
    <3>2. \A r \in checks : r.at \in Nat  BY <1>2 DEF RowsOK, CheckRow
    <3>3. QED  BY <1>1, <1>4, <3>1, <3>2 DEF TableOK
  <2>6. QED  BY <1>8, <2>1, <2>2, <2>3, <2>4, <2>5 DEF RowsOK
<1>10. RowsKept'
  <2>1. ASSUME ~ pruned  PROVE Dense(replays)' /\ Dense(checks)'
    <3>1. Dense(replays) /\ Dense(checks)  BY <1>2, <2>1 DEF RowsKept
    <3>2. Dense(replays)'  BY <1>1, <1>6, <3>1 DEF Dense, Of
    <3>3. Dense(checks)'  BY <1>1, <3>1 DEF Dense, Of
    <3>4. QED  BY <3>2, <3>3
  <2>2. ASSUME ~ pruned, NEW r \in replays', r.answered  PROVE r.actual \in AllowedActual[r.want]
    BY <1>1, <1>2, <1>5, <2>2 DEF RowsKept
  <2>3. QED  BY <1>1, <2>1, <2>2 DEF RowsKept
<1>11. CallsOK'
  <2>1. k \in Call  BY <1>5, <1>6 DEF Call
  <2>2. CallTyped(k)  BY <2>1 DEF CallTyped
  <2>3. PICK j : j = k  OBVIOUS
  <2>4. CallTyped(j) /\ Goto(c, j) /\ j.at = "running" /\ j.spec = s /\ j.n = row.n
    BY <1>1, <1>5, <2>2, <2>3
  <2>5. CallKept(j)'
    <3>1. HasReplay(j.spec, j.n)'  BY <1>1, <1>5, <2>4 DEF HasReplay
    <3>2. QED  BY <2>4, <3>1 DEF CallKept
  <2>6. KeysStay  BY <1>1 DEF KeysStay
  <2>7. pruned \in BOOLEAN /\ pruned' = pruned  BY <1>1, <1>2 DEF RowsOK
  <2>8. QED  BY <1>8, <2>4, <2>5, <2>6, <2>7, OwnStep
<1>12. SpecsOK' /\ RunsOK'  BY <1>1, SpecsStay, RunsStay
<1>13. QED  BY <1>9, <1>10, <1>11, <1>12 DEF Inv

(* What a check says has one of three statuses (_evaluate).                    *)
LEMMA EvaluateTyped ==
  ASSUME NEW d, NEW judged, NEW replay, NEW store
  PROVE  LET outcome == Evaluate(d, judged, replay, store)
         IN  outcome.status \in {"passed", "failed", "errored"} /\ outcome.comparison \in Comparisons
<1>1. StatusComparison(d, replay, store)
        \in {"single_target_status", "fail_before_pass_after", "before_after_not_improved"}
  BY DEF StatusComparison
<1>2. ASSUME NEW assertions
      PROVE  /\ EvaluateAssertions(d, assertions, replay, store).status \in {"passed", "failed"}
             /\ EvaluateAssertions(d, assertions, replay, store).comparison \in Comparisons
  BY <1>1 DEF EvaluateAssertions, Outcome, Comparisons
<1>3. /\ EvaluateRegression(d, replay, store).status \in {"passed", "failed", "errored"}
      /\ EvaluateRegression(d, replay, store).comparison \in Comparisons
  <2> DEFINE judged2 == EvaluateAssertions(d, AssertionSpecs(d) \cup {"target_status_not_failed"},
                                           replay, store)
  <2>1. judged2.status \in {"passed", "failed"} /\ judged2.comparison \in Comparisons  BY <1>2
  <2>2. EvaluateRegression(d, replay, store)
          \in {ErroredOutcome("replay_required"), Outcome(FALSE, "replay_not_passed"),
               Outcome(FALSE, judged2.comparison), judged2}
    BY DEF EvaluateRegression
  <2> HIDE DEF judged2
  <2>3. QED  BY <2>1, <2>2 DEF ErroredOutcome, Outcome, Comparisons
<1>4. /\ EvaluateJudge(d, judged).status \in {"passed", "failed", "errored"}
      /\ EvaluateJudge(d, judged).comparison \in Comparisons
  BY DEF EvaluateJudge, Outcome, ErroredOutcome, Comparisons
<1>5. /\ EvaluateSmoke(d, replay, store).status \in {"passed", "failed", "errored"}
      /\ EvaluateSmoke(d, replay, store).comparison \in Comparisons
  BY DEF EvaluateSmoke, Outcome, Comparisons
<1>6. ErroredOutcome("unsupported_check_type").status = "errored"
      /\ ErroredOutcome("unsupported_check_type").comparison \in Comparisons
  BY DEF ErroredOutcome, Comparisons
<1>7. QED  BY <1>2, <1>3, <1>4, <1>5, <1>6 DEF Evaluate

(* A promotion gives one of the four levels (_maybe_promote_trust_level).      *)
LEMMA PromotedTyped ==
  ASSUME Inv, NEW s \in Specs, NEW rows, NEW read, NEW outcome, NEW replay
  PROVE  Promoted(rows, s, read, outcome, replay) \in Trusts
BY DEF Inv, SpecsOK, Promoted, Trusts

(* A check run is inserted under a free number, and may promote its spec.      *)
LEMMA CheckCommitInv == ASSUME Inv, NEW c \in Callers, CheckCommit(c)  PROVE Inv'
<1> DEFINE s == pc[c].spec
           replay == Seen(s, pc[c].n)
           outcome == Evaluate(definition[s], pc[c].recorded, replay, Store)
           row == [spec |-> s, n |-> NextNumber(checks, s), at |-> clock + 1, replay |-> pc[c].n,
                   status |-> outcome.status, comparison |-> outcome.comparison]
<1>1. /\ pc[c].at = "check" /\ clock < MaxRows /\ ~ Collides(checks, s)
      /\ checks' = checks \cup {row}
      /\ trust' = [trust EXCEPT ![s] = Promoted(checks', s, pc[c].trust, outcome, replay)]
      /\ clock' = clock + 1 /\ Goto(c, Idle)
      /\ UNCHANGED <<definition, made, locked, recorded, replays, pruned, runs, locks>>
  BY DEF CheckCommit
<1>2. RowsOK /\ RowsKept /\ MaxRows \in Nat  BY ChecksAssumption DEF Inv
<1>3. \A r \in checks : r.at \in Nat /\ r.n \in Nat  BY <1>2 DEF RowsOK, CheckRow
<1>4. clock \in 0..MaxRows /\ TableOK(replays) /\ TableOK(checks)  BY <1>2 DEF RowsOK
<1>5. s \in Specs /\ pc[c].n \in 0..MaxRows  BY <1>1, CallFields
<1>6. outcome.status \in {"passed", "failed", "errored"} /\ outcome.comparison \in Comparisons
  BY EvaluateTyped
<1>7. row.spec = s /\ row.n = NextNumber(checks, s) /\ row.at = clock + 1
  OBVIOUS
<1>8. /\ TableOK(checks)' /\ row.n \in 1..MaxRows
      /\ (Dense(checks) => Dense(checks \cup {row}))
  <2> HIDE DEF row, s
  <2>1. PICK rows, new, spec : rows = checks /\ new = row /\ spec = s  OBVIOUS
  <2>2. /\ TableOK(rows) /\ ~ Collides(rows, spec) /\ new.spec = spec /\ new.n = NextNumber(rows, spec)
        /\ new.at = clock + 1 /\ (\A r \in rows : r.at \in Nat /\ r.n \in Nat)
    BY <1>1, <1>3, <1>4, <1>7, <2>1
  <2>3. TableOK(rows \cup {new})' /\ new.n \in 1..MaxRows /\ (Dense(rows) => Dense(rows \cup {new}))
    BY <1>1, <1>2, <1>4, <2>2, InsertOK
  <2>4. checks' = rows \cup {new}  BY <1>1, <2>1
  <2>5. TableOK(checks)'  BY <2>3, <2>4 DEF TableOK
  <2>6. QED  BY <2>1, <2>3, <2>5
<1>9. row \in CheckRow
  <2>1. NextNumber(checks, s) \in 1..MaxRows  BY <1>8
  <2>2. clock + 1 \in 1..MaxRows  BY <1>1, <1>2, <1>4
  <2> HIDE DEF outcome
  <2>3. QED  BY <1>5, <1>6, <2>1, <2>2 DEF CheckRow
<1>10. SpecsOK'
  <2>1. Promoted(checks', s, pc[c].trust, outcome, replay) \in Trusts  BY <1>5, PromotedTyped
  <2>2. trust' \in [Specs -> Trusts]  BY <1>1, <1>5, <2>1 DEF Inv, SpecsOK
  <2>3. QED  BY <1>1, <2>2 DEF Inv, SpecsOK
<1> HIDE DEF row, outcome, replay, s
<1>11. TableOK(checks)'  BY <1>8
<1>12. TableOK(replays)'
  <2>1. Cardinality(replays) \in Nat  BY <1>4, FS_CardinalityType DEF TableOK
  <2>2. \A r \in replays : r.at \in Nat  BY <1>2 DEF RowsOK, ReplayRow
  <2>3. QED  BY <1>1, <1>4, <2>1, <2>2 DEF TableOK
<1>13. RowsOK'
  <2>1. replays' \subseteq ReplayRow /\ checks' \subseteq CheckRow  BY <1>1, <1>2, <1>9 DEF RowsOK
  <2>2. AnsweredOK'  BY <1>1, <1>2 DEF RowsOK, AnsweredOK
  <2>3. clock' \in 0..MaxRows  BY <1>1, <1>2, <1>4
  <2>4. pruned' \in BOOLEAN  BY <1>1, <1>2 DEF RowsOK
  <2>5. QED  BY <1>11, <1>12, <2>1, <2>2, <2>3, <2>4 DEF RowsOK
<1>14. RowsKept'
  <2>1. ASSUME ~ pruned  PROVE Dense(replays)' /\ Dense(checks)'
    <3>1. Dense(replays) /\ Dense(checks)  BY <1>2, <2>1 DEF RowsKept
    <3>2. Dense(checks)'  BY <1>1, <1>8, <3>1 DEF Dense, Of
    <3>3. Dense(replays)'  BY <1>1, <3>1 DEF Dense, Of
    <3>4. QED  BY <3>2, <3>3
  <2>2. QED  BY <1>1, <1>2, <2>1 DEF RowsKept
<1>15. CallsOK'
  <2>1. CallTyped(Idle) /\ CallKept(Idle)'  BY IdleIsFine DEF CallKept, Idle, InFlight
  <2>2. KeysStay  BY <1>1 DEF KeysStay
  <2>3. pruned \in BOOLEAN /\ pruned' = pruned  BY <1>1, <1>2 DEF RowsOK
  <2>4. QED  BY <1>1, <1>12, <2>1, <2>2, <2>3, OwnStep
<1>16. RunsOK'  BY <1>1, RunsStay
<1>17. QED  BY <1>10, <1>13, <1>14, <1>15, <1>16 DEF Inv

(* A pruning deletes whole rows, or nothing.                                   *)
LEMMA PruneApplyInv == ASSUME Inv, NEW c \in Callers, PruneApply(c)  PROVE Inv'
<1> DEFINE kept == {k \in checks : k.at \notin pc[c].checks}
           gone == {r \in replays : r.at \in pc[c].replays}
<1>1. /\ Goto(c, Idle) /\ UNCHANGED <<specVars, clock, runs, locks>>
      /\ \/ /\ replays' = replays \ gone /\ checks' = kept
            /\ pruned' = (pruned \/ gone # {} \/ kept # checks)
         \/ UNCHANGED <<replays, checks, pruned>>
  BY DEF PruneApply
<1>2. CASE UNCHANGED <<replays, checks, pruned>>
  <2>1. UNCHANGED <<rowVars, specVars, runs, locks>>  BY <1>1, <1>2 DEF rowVars
  <2>2. QED  BY <1>1, <2>1, IdleIsFine, ControlStep, SpecsStay, RunsStay
<1>3. CASE /\ replays' = replays \ gone /\ checks' = kept
           /\ pruned' = (pruned \/ gone # {} \/ kept # checks)
  <2>1. RowsOK /\ RowsKept /\ clock' = clock /\ pruned \in BOOLEAN  BY <1>1 DEF Inv, RowsOK
  <2>2. replays' \subseteq replays /\ checks' \subseteq checks  BY <1>3
  <2>3. ASSUME NEW rows, TableOK(rows), NEW new \in SUBSET rows
        PROVE  IsFiniteSet(new) /\ Cardinality(new) <= clock
    <3>1. /\ IsFiniteSet(new) /\ Cardinality(new) <= Cardinality(rows)
          /\ Cardinality(rows) \in Nat /\ Cardinality(new) \in Nat
      BY <2>3, FS_Subset, FS_CardinalityType DEF TableOK
    <3>2. Cardinality(rows) <= clock /\ clock \in Int  BY <2>1, <2>3, ChecksAssumption DEF TableOK, RowsOK
    <3>3. QED  BY <3>1, <3>2
  <2>4. TableOK(replays)' /\ TableOK(checks)'
    BY <2>1, <2>2, <2>3 DEF RowsOK, TableOK
  <2>5. pruned' \in BOOLEAN /\ (pruned => pruned')  BY <1>3
  <2>6. RowsOK'
    BY <2>1, <2>2, <2>4, <2>5 DEF RowsOK, AnsweredOK
  <2>7. ASSUME ~ pruned'  PROVE replays' = replays /\ checks' = checks /\ ~ pruned
    BY <1>3, <2>7
  <2>8. RowsKept'  BY <2>1, <2>7 DEF RowsKept, Dense, Of
  <2>9. CallsOK'
    <3>1. CallTyped(Idle) /\ CallKept(Idle)'  BY IdleIsFine DEF CallKept, Idle, InFlight
    <3>2. ~ pruned' => KeysStay  BY <2>7 DEF KeysStay
    <3>3. QED  BY <1>1, <2>1, <2>4, <2>5, <3>1, <3>2, OwnStep
  <2>10. SpecsOK' /\ RunsOK'  BY <1>1, SpecsStay, RunsStay
  <2>11. QED  BY <2>6, <2>8, <2>9, <2>10 DEF Inv
<1>4. QED  BY <1>1, <1>2, <1>3

--------------------------------------------------------------------------------
(* The theorems                                                                *)

(* Every step keeps the invariant.                                             *)
LEMMA NextInv == Inv /\ [Next]_vars => Inv'
<1> SUFFICES ASSUME Inv, [Next]_vars  PROVE Inv'
  OBVIOUS
<1>1. CASE UNCHANGED vars
  <2>1. UNCHANGED <<specVars, rowVars, runs, locks, pc>>  BY <1>1 DEF vars, specVars, rowVars
  <2>2. SpecsOK' /\ RunsOK'  BY <2>1, SpecsStay, RunsStay
  <2>3. RowsOK' /\ RowsKept'  BY <2>1, RowsStay
  <2>4. CallsOK'  BY <2>1 DEF Inv, CallsOK, CallTyped, CallKept, HasReplay, rowVars
  <2>5. QED  BY <2>2, <2>3, <2>4 DEF Inv
<1>2. ASSUME NEW s \in Specs, Generate(s) \/ \E on \in BOOLEAN : SetLock(s, on)  PROVE Inv'
  BY <1>2, GenerateInv, SetLockInv, Zenon
<1>3. ASSUME NEW c \in Callers, NEW s \in Specs,
             \/ ApproveRead(c, s)
             \/ \E n \in 0..MaxRows : CheckRead(c, s, n)
             \/ \E want \in Modes, then \in BOOLEAN : CreateReplay(c, s, want, then)
             \/ \E n \in 1..MaxRows : ReadFixture(c, s, n)
             \/ JudgeStart(c, s)
      PROVE Inv'
  BY <1>3, ApproveReadInv, CheckReadInv, CreateReplayInv, ReadFixtureInv, JudgeStartInv, Zenon
<1>4. ASSUME NEW c \in Callers,
             \/ ApproveWrite(c) \/ CheckCommit(c) \/ CheckFails(c)
             \/ ReplayFails(c) \/ Complete(c) \/ MarkErrored(c) \/ Crash(c) \/ PruneApply(c)
      PROVE Inv'
  BY <1>4, ApproveWriteInv, CheckCommitInv, CheckFailsInv, ReplayFailsInv, CompleteInv,
     MarkErroredInv, CrashInv, PruneApplyInv, Zenon
<1>5. ASSUME NEW c \in Callers,
             \/ \E verdict \in Verdicts : JudgeRecord(c, verdict)
             \/ \E answer \in Answers : Answer(c, answer)
             \/ \E cutoff \in 1..MaxRows : PruneRead(c, cutoff)
      PROVE Inv'
  BY <1>5, JudgeRecordInv, AnswerInv, PruneReadInv, Zenon
<1>6. QED  BY <1>1, <1>2, <1>3, <1>4, <1>5, Zenon DEF Next

(* The invariant of the specification: types, keys, counts, and what callers   *)
(* hold (checks.py's transactions, in any order).                              *)
THEOREM InvAlways == Spec => []Inv
<1>1. QED  BY InitInv, NextInv, PTL DEF Spec

(* As long as nothing was pruned the next number is free and numbers identify  *)
(* rows (_next_numbered_id), for any number of callers, specs and rows.        *)
THEOREM NumbersIdentifyAlways == Spec => []NumbersIdentify
<1>1. ASSUME Inv  PROVE NumbersIdentify
  <2>1. TypeOK
    <3>1. SpecsOK /\ RunsOK /\ RowsOK  BY <1>1 DEF Inv
    <3>2. ASSUME NEW c \in Callers
          PROVE  pc[c].at \in InFlight \cup {"idle", "approve", "judging", "prune"}
      <4>1. pc[c] \in Call  BY <1>1, CallFields
      <4>2. QED  BY <4>1 DEF Call, Idle, InFlight
    <3>3. QED  BY <3>1, <3>2 DEF TypeOK, SpecsOK, RunsOK, RowsOK, Trusts
  <2>2. ASSUME ~ pruned, NEW s \in Specs  PROVE ~ Collides(replays, s) /\ ~ Collides(checks, s)
    <3>1. /\ IsFiniteSet(replays) /\ Dense(replays) /\ IsFiniteSet(checks) /\ Dense(checks)
          /\ replays \subseteq ReplayRow /\ checks \subseteq CheckRow
      BY <1>1, <2>2 DEF Inv, RowsOK, RowsKept, TableOK
    <3>2. (\A r \in replays : r.n \in Nat) /\ (\A r \in checks : r.n \in Nat)
      BY <3>1 DEF ReplayRow, CheckRow
    <3>3. QED  BY <3>1, <3>2, DenseIsFree
  <2>3. \A r, p \in replays : (r.spec = p.spec /\ r.n = p.n) => r = p
    BY <1>1 DEF Inv, RowsOK, TableOK
  <2>4. ASSUME ~ pruned, NEW c \in Callers, pc[c].at \in InFlight, pc[c].n # 0
        PROVE  HasReplay(pc[c].spec, pc[c].n)
    BY <1>1, <2>4, CallFields DEF CallKept
  <2>5. QED  BY <2>1, <2>2, <2>3, <2>4 DEF NumbersIdentify
<1>2. QED  BY <1>1, InvAlways, PTL

(* A check that reports an improvement was given a replay that passed, of a    *)
(* target that failed, and whose mapped run did not (_evaluate).               *)
LEMMA ImprovementIsSeen ==
  ASSUME NEW d, NEW judged, NEW replay, NEW store,
         Evaluate(d, judged, replay, store).comparison = "fail_before_pass_after",
         Evaluate(d, judged, replay, store).status = "passed"
  PROVE  ImprovesStatus(d, replay, store) /\ Mapped(replay) # None
<1> DEFINE judgedBy(assertions) == EvaluateAssertions(d, assertions, replay, store)
<1>1. ASSUME NEW assertions, judgedBy(assertions).comparison = "fail_before_pass_after"
      PROVE  ImprovesStatus(d, replay, store) /\ Mapped(replay) # None
  BY <1>1 DEF EvaluateAssertions, Outcome, StatusComparison
<1>2. CASE d.type = "smoke_run"
  BY <1>2 DEF Evaluate, EvaluateSmoke, Outcome
<1>3. CASE d.type = "judge"
  BY <1>3 DEF Evaluate, EvaluateJudge, Outcome, ErroredOutcome
<1>4. CASE d.type = "regression_replay"
  <2> DEFINE whole == judgedBy(AssertionSpecs(d) \cup {"target_status_not_failed"})
  <2>1. EvaluateRegression(d, replay, store)
          \in {ErroredOutcome("replay_required"), Outcome(FALSE, "replay_not_passed"),
               Outcome(FALSE, whole.comparison), whole}
    BY DEF EvaluateRegression
  <2>2. whole.comparison = "fail_before_pass_after"
    <3>1. EvaluateRegression(d, replay, store).comparison = "fail_before_pass_after"
      BY <1>4 DEF Evaluate
    <3> HIDE DEF whole
    <3>2. QED  BY <2>1, <3>1 DEF Outcome, ErroredOutcome
  <2>3. QED  BY <2>2, <1>1
<1>5. CASE d.type = "deterministic_assertion"
  <2>1. Evaluate(d, judged, replay, store) = judgedBy(AssertionSpecs(d))  BY <1>5 DEF Evaluate
  <2>2. QED  BY <2>1, <1>1
<1>6. CASE d.type \notin {"smoke_run", "judge", "regression_replay", "deterministic_assertion"}
  BY <1>6 DEF Evaluate, ErroredOutcome
<1>7. QED  BY <1>2, <1>3, <1>4, <1>5, <1>6

(* What a promotion may do to the level of a spec that is not locked.          *)
LEMMA PromotedFacts ==
  ASSUME NEW rows, NEW s, NEW read, NEW outcome, NEW replay,
         Promoted(rows, s, read, outcome, replay) # trust[s]
  PROVE  /\ ~ locked[s]
         /\ \/ /\ Promoted(rows, s, read, outcome, replay) = L2 /\ read \notin {L2, L3}
               /\ outcome.status = "passed" /\ outcome.comparison = "fail_before_pass_after"
               /\ replay # None
            \/ Promoted(rows, s, read, outcome, replay) = L1 /\ read = L0
BY DEF Promoted

(* Only an approval and a check run write a trust level.                       *)
LEMMA TrustIsWrittenBy ==
  ASSUME Inv, [Next]_vars, NEW s \in Specs, trust'[s] # trust[s]
  PROVE  \/ \E c \in Callers : ApproveWrite(c) /\ pc[c].spec = s
         \/ \E c \in Callers : CheckCommit(c) /\ pc[c].spec = s
<1>1. trust \in [Specs -> Trusts]  BY DEF Inv, SpecsOK
<1>2. CASE UNCHANGED trust  BY <1>2
<1>3. ASSUME NEW c \in Callers, ApproveWrite(c)  PROVE pc[c].spec = s
  BY <1>1, <1>3 DEF ApproveWrite
<1>4. ASSUME NEW c \in Callers, CheckCommit(c)  PROVE pc[c].spec = s
  BY <1>1, <1>4 DEF CheckCommit
<1>5. CASE \E c \in Callers : ApproveWrite(c) \/ CheckCommit(c)
  BY <1>3, <1>4, <1>5
<1>6. CASE ~ \E c \in Callers : ApproveWrite(c) \/ CheckCommit(c)
  <2>1. UNCHANGED trust
    <3>1. CASE UNCHANGED vars  BY <3>1 DEF vars
    <3>2. ASSUME NEW b \in Specs, Generate(b) \/ \E on \in BOOLEAN : SetLock(b, on)
          PROVE UNCHANGED trust
      BY <3>2 DEF Generate, SetLock
    <3>3. ASSUME NEW c \in Callers, NEW b \in Specs,
                 \/ ApproveRead(c, b)
                 \/ \E n \in 0..MaxRows : CheckRead(c, b, n)
                 \/ \E want \in Modes, then \in BOOLEAN : CreateReplay(c, b, want, then)
                 \/ \E n \in 1..MaxRows : ReadFixture(c, b, n)
                 \/ JudgeStart(c, b)
          PROVE UNCHANGED trust
      BY <3>3 DEF ApproveRead, CheckRead, CreateReplay, ReadFixture, JudgeStart, specVars
    <3>4. ASSUME NEW c \in Callers,
                 \/ CheckFails(c) \/ ReplayFails(c) \/ Complete(c) \/ MarkErrored(c) \/ Crash(c)
                 \/ PruneApply(c)
          PROVE UNCHANGED trust
      BY <3>4 DEF CheckFails, ReplayFails, Complete, MarkErrored, Crash, PruneApply, specVars
    <3>5. ASSUME NEW c \in Callers,
                 \/ \E verdict \in Verdicts : JudgeRecord(c, verdict)
                 \/ \E answer \in Answers : Answer(c, answer)
                 \/ \E cutoff \in 1..MaxRows : PruneRead(c, cutoff)
          PROVE UNCHANGED trust
      BY <3>5 DEF JudgeRecord, Answer, PruneRead, specVars
    <3>6. QED  BY <1>6, <3>1, <3>2, <3>3, <3>4, <3>5, Zenon DEF Next
  <2>2. QED  BY <1>2, <2>1
<1>7. QED  BY <1>5, <1>6

(* A spec becomes L2_regression only by a check run of a replay that earned it *)
(* (_maybe_promote_trust_level), whatever completions, marks, crashes and      *)
(* prunings come in between.                                                   *)
THEOREM RegressionIsProvenAlways == Spec => RegressionIsProven
<1>1. ASSUME Inv, [Next]_vars, NEW s \in Specs, trust[s] # L2, trust'[s] = L2
      PROVE  \E k \in checks' \ checks, r \in replays' :
               /\ k.spec = s /\ r.spec = s /\ k.replay = r.n /\ k.status = "passed"
               /\ r.answered /\ r.status = "passed" /\ (pruned \/ r.actual \in AllowedActual[r.want])
               /\ Failing(RunData[definition[s].target].status)
               /\ Acceptable(StatusOf(r.mapped, Store'))
  <2>1. trust \in [Specs -> Trusts] /\ trust'[s] # trust[s]  BY <1>1 DEF Inv, SpecsOK
  <2>2. ASSUME NEW c \in Callers, ApproveWrite(c), pc[c].spec = s  PROVE FALSE
    BY <1>1, <2>1, <2>2, LevelFacts DEF ApproveWrite
  <2>3. PICK c \in Callers : CheckCommit(c) /\ pc[c].spec = s
    BY <1>1, <2>1, <2>2, TrustIsWrittenBy
  <2> DEFINE n == pc[c].n
             r == Seen(s, n)
             outcome == Evaluate(definition[s], pc[c].recorded, r, Store)
             k == [spec |-> s, n |-> NextNumber(checks, s), at |-> clock + 1, replay |-> n,
                   status |-> outcome.status, comparison |-> outcome.comparison]
  <2>4. /\ pc[c].at = "check" /\ (n = 0 \/ HasReplay(s, n)) /\ checks' = checks \cup {k}
        /\ trust' = [trust EXCEPT ![s] = Promoted(checks', s, pc[c].trust, outcome, r)]
        /\ UNCHANGED <<definition, replays, pruned, runs>>
    BY <2>3 DEF CheckCommit
  <2>5. Promoted(checks', s, pc[c].trust, outcome, r) = L2  BY <1>1, <2>1, <2>4
  <2>6. outcome.status = "passed" /\ outcome.comparison = "fail_before_pass_after"
    BY <1>1, <2>5, PromotedFacts, LevelFacts
  <2>7. ImprovesStatus(definition[s], r, Store) /\ Mapped(r) # None
    BY <2>6, ImprovementIsSeen
  <2>8. r # None /\ n # 0 /\ r.mapped # None /\ r.status = "passed" /\ Acceptable(StatusOf(r.mapped, Store))
    BY <2>7 DEF Mapped, ImprovesStatus, Seen
  <2>9. r \in replays /\ r.spec = s /\ r.n = n
    <3>1. HasReplay(s, n) /\ r = Replay(s, n)  BY <2>4, <2>8 DEF Seen
    <3>2. QED  BY <3>1, ReplayIsARow
  <2>10. r.answered /\ (pruned \/ r.actual \in AllowedActual[r.want])
    BY <1>1, <2>8, <2>9 DEF Inv, RowsOK, AnsweredOK, RowsKept
  <2>11. Failing(RunData[definition[s].target].status)
    <3>1. Failing(StatusOf(definition[s].target, Store))  BY <2>7 DEF ImprovesStatus
    <3>2. ~ Failing(None)  BY ChecksAssumption DEF Failing
    <3>3. definition[s].target \in DOMAIN Store  BY <3>1, <3>2 DEF StatusOf
    <3>4. StatusOf(definition[s].target, Store) = RunData[definition[s].target].status
      BY <3>3 DEF StatusOf, Store
    <3>5. QED  BY <3>1, <3>4
  <2>12. k \notin checks
    <3>1. \A j \in checks : j.at <= clock /\ j.at \in Int  BY <1>1 DEF Inv, RowsOK, TableOK, CheckRow
    <3>2. clock \in Int /\ k.at = clock + 1  BY <1>1, ChecksAssumption DEF Inv, RowsOK
    <3> HIDE DEF k
    <3>3. QED  BY <3>1, <3>2
  <2>13. Store' = Store  BY <2>4 DEF Store
  <2>14. /\ k \in checks' \ checks /\ k.spec = s /\ k.replay = n /\ k.status = "passed"
    BY <2>4, <2>6, <2>12
  <2>15. r \in replays'  BY <2>4, <2>9
  <2> HIDE DEF k, r, n
  <2>16. QED  BY <2>8, <2>9, <2>10, <2>11, <2>13, <2>14, <2>15
<1>2. Inv /\ [Next]_vars =>
        [\A s \in Specs : (trust[s] # L2 /\ trust'[s] = L2) =>
           \E k \in checks' \ checks, r \in replays' :
             /\ k.spec = s /\ r.spec = s /\ k.replay = r.n /\ k.status = "passed"
             /\ r.answered /\ r.status = "passed" /\ (pruned \/ r.actual \in AllowedActual[r.want])
             /\ Failing(RunData[definition[s].target].status)
             /\ Acceptable(StatusOf(r.mapped, Store'))]_vars
  BY <1>1
<1>3. QED  BY <1>2, InvAlways, PTL DEF Spec, RegressionIsProven

(* Trust falls only by a check run that had read the spec before it was        *)
(* raised, and that of a locked spec changes only by an approval under way     *)
(* (run_check and approve_check_spec read before their transactions).          *)
THEOREM TrustIsKeptAlways == Spec => TrustIsKept
<1>1. ASSUME Inv, [Next]_vars, NEW s \in Specs
      PROVE  /\ Rank(trust'[s]) < Rank(trust[s]) =>
                  \E c \in Callers : /\ pc[c].at = "check" /\ pc[c].spec = s
                                     /\ Rank(pc[c].trust) < Rank(trust[s])
             /\ (locked[s] /\ trust'[s] # trust[s]) =>
                  /\ trust'[s] = L3
                  /\ \E c \in Callers : pc[c].at = "approve" /\ pc[c].spec = s
  <2>1. trust \in [Specs -> Trusts] /\ trust[s] \in Trusts  BY <1>1 DEF Inv, SpecsOK
  <2>2. Rank(trust[s]) \in 1..4  BY <2>1, LevelFacts DEF Trusts
  <2>3. CASE trust'[s] = trust[s]  BY <2>2, <2>3
  <2>4. CASE trust'[s] # trust[s]
    <3>1. ASSUME NEW c \in Callers, ApproveWrite(c), pc[c].spec = s
          PROVE  trust'[s] = L3 /\ pc[c].at = "approve" /\ ~ Rank(trust'[s]) < Rank(trust[s])
      <4>1. trust'[s] = L3 /\ pc[c].at = "approve"  BY <2>1, <3>1 DEF ApproveWrite
      <4>2. QED  BY <2>2, <4>1, LevelFacts
    <3>2. ASSUME NEW c \in Callers, CheckCommit(c), pc[c].spec = s
          PROVE  /\ ~ locked[s] /\ pc[c].at = "check"
                 /\ Rank(trust'[s]) < Rank(trust[s]) => Rank(pc[c].trust) < Rank(trust[s])
      <4> DEFINE r == Seen(s, pc[c].n)
                 outcome == Evaluate(definition[s], pc[c].recorded, r, Store)
                 read == pc[c].trust
      <4>1. pc[c].at = "check"  BY <3>2 DEF CheckCommit
      <4>2. trust'[s] = Promoted(checks', s, read, outcome, r)  BY <2>1, <3>2 DEF CheckCommit
      <4>3. read \in Trusts  BY <1>1, <4>1, CallFields
      <4> HIDE DEF outcome, r
      <4>4. ~ locked[s] /\ ((trust'[s] = L2 /\ read \notin {L2, L3}) \/ (trust'[s] = L1 /\ read = L0))
        BY <2>4, <4>2, PromotedFacts
      <4>5. Rank(trust'[s]) < Rank(trust[s]) => Rank(read) < Rank(trust[s])
        BY <2>2, <4>3, <4>4, LevelFacts DEF Trusts
      <4>6. QED  BY <4>1, <4>4, <4>5
    <3>3. QED  BY <1>1, <2>4, <3>1, <3>2, TrustIsWrittenBy
  <2>5. QED  BY <2>3, <2>4
<1>2. Inv /\ [Next]_vars =>
        [\A s \in Specs :
           /\ Rank(trust'[s]) < Rank(trust[s]) =>
                \E c \in Callers : /\ pc[c].at = "check" /\ pc[c].spec = s
                                   /\ Rank(pc[c].trust) < Rank(trust[s])
           /\ (locked[s] /\ trust'[s] # trust[s]) =>
                /\ trust'[s] = L3
                /\ \E c \in Callers : pc[c].at = "approve" /\ pc[c].spec = s]_vars
  BY <1>1
<1>3. QED  BY <1>2, InvAlways, PTL DEF Spec, TrustIsKept
================================================================================
