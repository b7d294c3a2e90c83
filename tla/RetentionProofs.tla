---------------------------- MODULE RetentionProofs ----------------------------
(* What is proved of Retention for any rows, references and cutoffs: the store *)
(* stays whole, and a prune deletes no evidence that was referred to when it   *)
(* collected its candidates.                                                   *)
(*                                                                             *)
(* The argument: of the references a prune looks for, only the one of a replay *)
(* to a run by way of an attempt may be missed, since it takes the last run    *)
(* that names the attempt, and the attempt may name another.  Then the attempt *)
(* itself is among the candidates, the replay that stays holds it by a foreign *)
(* key, rows are only added while a prune is under way, and the deletion fails *)
(* as a whole.                                                                 *)
EXTENDS Retention, TLAPS

(* What a prune has in hand.                                                   *)
PruneOK ==
  prune # Idle =>
    /\ prune.at = "apply" /\ prune.candidates \in Tables
    /\ \A s \in prune.candidates.span : RunOf[s] \in prune.candidates.run
    /\ \A r \in prune.candidates.run \cap prune.referenced :
         \E p \in rows.replay \ prune.candidates.replay :
           links.tried[p] \in prune.candidates.attempt

Inv == StoreIsWhole /\ PruneOK

--------------------------------------------------------------------------------
(* The steps                                                                   *)

(* The rows of the first migration's tables (init_db).                         *)
LEMMA InitInv == Init => Inv
<1> SUFFICES ASSUME Init  PROVE Inv
  OBVIOUS
<1>1. links \in Links  BY GraphsAssumption DEF Init
<1>2. prune = Idle /\ Idle.at = "idle"  BY DEF Init, Idle
<1>3. StoreIsWhole  BY <1>1, <1>2 DEF Init, StoreIsWhole
<1>4. QED  BY <1>2, <1>3 DEF Inv, PruneOK

(* A writer only adds rows.                                                    *)
LEMMA WriteGrows ==
  ASSUME Inv, Write
  PROVE  /\ rows' \in Tables /\ Whole(rows', links)
         /\ rows.run \subseteq rows'.run /\ rows.span \subseteq rows'.span
         /\ rows.replay \subseteq rows'.replay
         /\ UNCHANGED <<links, cited, sources, prune>>
<1>1. rows \in Tables  BY DEF Inv, StoreIsWhole
<1>2. UNCHANGED <<links, cited, sources, prune>>  BY DEF Write
<1>3. CASE \E r \in Run : r \notin rows.run /\ Written([rows EXCEPT !.run = @ \cup {r}])
  BY <1>1, <1>2, <1>3 DEF Written, Tables
<1>4. CASE \E s \in Span : s \notin rows.span /\ Written([rows EXCEPT !.span = @ \cup {s}])
  BY <1>1, <1>2, <1>4 DEF Written, Tables
<1>5. CASE \E a \in Attempt : a \notin rows.attempt
                               /\ Written([rows EXCEPT !.attempt = @ \cup {a}, !.task = Task])
  BY <1>1, <1>2, <1>5 DEF Written, Tables
<1>6. CASE \E p \in Replay : p \notin rows.replay /\ Written([rows EXCEPT !.replay = @ \cup {p}])
  BY <1>1, <1>2, <1>6 DEF Written, Tables
<1>7. CASE \E c \in Check : c \notin rows.check /\ Written([rows EXCEPT !.check = @ \cup {c}])
  BY <1>1, <1>2, <1>7 DEF Written, Tables
<1>8. CASE \E h \in Handoff : h \notin rows.handoff /\ Written([rows EXCEPT !.handoff = @ \cup {h}])
  BY <1>1, <1>2, <1>8 DEF Written, Tables
<1>9. QED  BY <1>3, <1>4, <1>5, <1>6, <1>7, <1>8 DEF Write

(* Rows that are only added disturb neither the store nor a prune under way. *)
LEMMA WriteInv == Inv /\ Write => Inv'
<1> SUFFICES ASSUME Inv, Write  PROVE Inv'
  OBVIOUS
<1> USE WriteGrows
<1>1. StoreIsWhole'  BY DEF Inv, StoreIsWhole
<1>2. PruneOK'  BY DEF Inv, PruneOK
<1>3. QED  BY <1>1, <1>2 DEF Inv

(* Evidence is named that is there.                                            *)
LEMMA CiteInv == ASSUME Inv, NEW x \in Run \cup Span, Cite(x)  PROVE Inv'
BY DEF Inv, StoreIsWhole, PruneOK, Cite

(* The record of a replay source names a run that is there.                  *)
LEMMA SourceInv == ASSUME Inv, NEW r \in Run, Source(r)  PROVE Inv'
<1>1. rows \in Tables  BY DEF Inv, StoreIsWhole
<1>2. QED  BY <1>1 DEF Inv, StoreIsWhole, PruneOK, Source, Tables

(* The candidates: what is referred to and still taken is held by a replay     *)
(* that stays, by way of an attempt that is taken as well.                     *)
LEMMA CandidatesAreHeld ==
  ASSUME Inv, NEW old
  PROVE  LET c == Candidates(old)
         IN  /\ c \in Tables
             /\ \A s \in c.span : RunOf[s] \in c.run
             /\ \A r \in c.run \cap Referenced(c.replay) :
                  \E p \in rows.replay \ c.replay : links.tried[p] \in c.attempt
<1> DEFINE replays == rows.replay \cap old
           aged == rows.run \cap old
           c == Candidates(old)
           kept == rows.replay \ replays
<1>1. rows \in Tables /\ links \in Links /\ Whole(rows, links)  BY DEF Inv, StoreIsWhole
<1>2. /\ c.replay = replays /\ c.run = aged \ Protected(aged, replays)
      /\ c.span = {s \in rows.span : RunOf[s] \in c.run}
      /\ c.attempt = {a \in rows.attempt : links.run[a] \in c.run}
  BY DEF Candidates
<1>3. c \in Tables  BY <1>1 DEF Candidates, Tables
<1>4. ASSUME NEW r \in c.run \cap Referenced(c.replay)
      PROVE  \E p \in rows.replay \ c.replay : links.tried[p] \in c.attempt
  <2>1. r \in aged /\ r \notin Protected(aged, replays)  BY <1>2
  <2>2. /\ r \notin sources /\ r \notin cited
        /\ ~ \E s \in rows.span \cap cited : RunOf[s] = r
        /\ ~ \E p \in kept : links.source[p] = r
    BY <2>1 DEF Protected
  <2>3. r \in UNION {{links.source[p]} \cup IF links.tried[p] = None THEN {} ELSE {links.run[links.tried[p]]} :
                     p \in kept}
    BY <1>2, <2>2 DEF Referenced
  <2>4. PICK p \in kept : r \in {links.source[p]} \cup IF links.tried[p] = None THEN {} ELSE {links.run[links.tried[p]]}
    BY <2>3
  <2>5. links.tried[p] # None /\ r = links.run[links.tried[p]]  BY <2>2, <2>4
  <2>6. links.tried[p] \in rows.attempt  BY <1>1, <2>5 DEF Whole
  <2>7. links.tried[p] \in c.attempt  BY <1>2, <2>5, <2>6
  <2>8. QED  BY <1>2, <2>7
<1>5. QED  BY <1>2, <1>3, <1>4

(* A prune that has collected its candidates has them in hand as PruneOK says.*)
LEMMA CollectInv == ASSUME Inv, NEW old, Collect(old)  PROVE Inv'
<1> DEFINE c == Candidates(old)
<1>1. /\ prune' = [at |-> "apply", candidates |-> c, referenced |-> Referenced(c.replay)]
      /\ UNCHANGED <<rows, links, cited, sources>>
  BY DEF Collect
<1>2. /\ c \in Tables /\ (\A s \in c.span : RunOf[s] \in c.run)
      /\ \A r \in c.run \cap Referenced(c.replay) :
           \E p \in rows.replay \ c.replay : links.tried[p] \in c.attempt
  BY CandidatesAreHeld
<1> HIDE DEF c
<1>3. prune'.at = "apply" /\ prune'.candidates = c /\ prune'.referenced = Referenced(c.replay)
  BY <1>1
<1>4. StoreIsWhole'  BY <1>1, <1>3 DEF Inv, StoreIsWhole
<1>5. PruneOK'  BY <1>1, <1>2, <1>3 DEF PruneOK
<1>6. QED  BY <1>4, <1>5 DEF Inv

(* The deletion, if the foreign keys let it go through.                        *)
LEMMA ApplyFacts ==
  ASSUME Inv, Apply
  PROVE  /\ rows' \in Tables /\ links' \in Links /\ Whole(rows', links') /\ sources \subseteq rows'.run
         /\ \/ UNCHANGED <<rows, links>>
            \/ /\ prune.candidates \in Tables
               /\ \A p \in rows'.replay : links.tried[p] \in rows'.attempt \cup {None}
               /\ rows'.run = rows.run \ prune.candidates.run
               /\ rows'.span = rows.span \ prune.candidates.span
               /\ rows'.replay = rows.replay \ prune.candidates.replay
               /\ rows'.attempt = rows.attempt \ prune.candidates.attempt
<1> DEFINE c == prune.candidates
           db == [table \in DOMAIN rows |-> rows[table] \ c[table]]
           ln == [links EXCEPT !.run = [a \in Attempt |-> IF a \in rows.attempt /\ @[a] \in c.run THEN None ELSE @[a]]]
<1>1. /\ rows \in Tables /\ links \in Links /\ Whole(rows, links) /\ sources \subseteq rows.run
  BY DEF Inv, StoreIsWhole
<1>2. prune # Idle /\ c \in Tables  BY DEF Apply, Idle, Inv, PruneOK
<1>3. CASE ~ Accepted(db, ln)
  <2>1. UNCHANGED <<rows, links>>  BY <1>3 DEF Apply
  <2>2. QED  BY <1>1, <2>1
<1>4. CASE Accepted(db, ln)
  <2>1. rows' = db /\ links' = ln  BY <1>4 DEF Apply
  <2>2. /\ db \in Tables /\ db.run = rows.run \ c.run /\ db.span = rows.span \ c.span
        /\ db.replay = rows.replay \ c.replay /\ db.attempt = rows.attempt \ c.attempt
    BY <1>1, <1>2 DEF Tables
  <2>3. ln \in Links /\ ln.tried = links.tried  BY <1>1 DEF Links
  <2> HIDE DEF db, ln
  <2>4. Whole(db, ln) /\ sources \subseteq db.run  BY <1>4 DEF Accepted
  <2>5. \A p \in db.replay : links.tried[p] \in db.attempt \cup {None}  BY <2>3, <2>4 DEF Whole
  <2>6. QED  BY <1>2, <2>1, <2>2, <2>3, <2>4, <2>5
<1>5. QED  BY <1>3, <1>4

(* The deletion ends the prune and leaves the store whole (apply_prune).     *)
LEMMA ApplyInv == Inv /\ Apply => Inv'
<1> SUFFICES ASSUME Inv, Apply  PROVE Inv'
  OBVIOUS
<1>1. prune' = Idle /\ UNCHANGED <<cited, sources>> /\ Idle.at = "idle"  BY DEF Apply, Idle
<1>2. StoreIsWhole'  BY <1>1, ApplyFacts DEF Inv, StoreIsWhole
<1>3. PruneOK'  BY <1>1 DEF PruneOK
<1>4. QED  BY <1>2, <1>3 DEF Inv

(* The invariant is inductive.                                               *)
LEMMA NextInv == Inv /\ [Next]_vars => Inv'
<1> SUFFICES ASSUME Inv, [Next]_vars  PROVE Inv'
  OBVIOUS
<1>1. CASE UNCHANGED vars  BY <1>1 DEF vars, Inv, StoreIsWhole, PruneOK
<1>2. CASE Next  BY <1>2, WriteInv, ApplyInv, CiteInv, SourceInv, CollectInv, Zenon DEF Next
<1>3. QED  BY <1>1, <1>2

--------------------------------------------------------------------------------
(* The theorems                                                                *)

(* The invariant holds in every reachable state of the store.                *)
THEOREM InvAlways == Spec => []Inv
BY InitInv, NextInv, PTL DEF Spec

(* No prune and no writer leaves a row that refers to a missing one (the       *)
(* foreign keys of storage.py, whether they null, cascade or restrict).        *)
THEOREM StaysWholeAlways == Spec => []StoreIsWhole
<1>1. Inv => StoreIsWhole  BY DEF Inv
<1>2. QED  BY <1>1, InvAlways, PTL

(* Rows go only by the deletion of a prune.                                    *)
LEMMA OnlyApplyDeletes ==
  ASSUME Inv, [Next]_vars, ~ Apply
  PROVE  rows.run \subseteq rows'.run /\ rows.span \subseteq rows'.span
<1>1. CASE UNCHANGED rows  BY <1>1
<1>2. CASE Write  BY <1>2, WriteGrows
<1>3. UNCHANGED rows \/ Write  BY DEF Next, vars, Cite, Source, Collect
<1>4. QED  BY <1>1, <1>2, <1>3

(* A run or a span that something which stays referred to when a prune collected*)
(* its candidates is not deleted by it (retention.prune).                    *)
THEOREM CitedEvidenceSurvivesAlways == Spec => CitedEvidenceSurvives
<1>1. ASSUME Inv, [Next]_vars
      PROVE  /\ \A r \in rows.run \ rows'.run : r \notin prune.referenced
             /\ \A s \in rows.span \ rows'.span : RunOf[s] \notin prune.referenced
  <2>1. CASE ~ Apply  BY <1>1, <2>1, OnlyApplyDeletes
  <2>2. CASE Apply
    <3>1. CASE UNCHANGED <<rows, links>>  BY <3>1
    <3>2. CASE /\ prune.candidates \in Tables
               /\ \A p \in rows'.replay : links.tried[p] \in rows'.attempt \cup {None}
               /\ rows'.run = rows.run \ prune.candidates.run
               /\ rows'.span = rows.span \ prune.candidates.span
               /\ rows'.replay = rows.replay \ prune.candidates.replay
               /\ rows'.attempt = rows.attempt \ prune.candidates.attempt
      <4>1. prune # Idle  BY <2>2 DEF Apply, Idle
      <4>2. prune.candidates.attempt \subseteq Attempt  BY <3>2 DEF Tables
      <4>3. ASSUME NEW r \in prune.candidates.run \cap prune.referenced  PROVE FALSE
        <5>1. PICK p \in rows.replay \ prune.candidates.replay : links.tried[p] \in prune.candidates.attempt
          BY <1>1, <4>1 DEF Inv, PruneOK
        <5>2. p \in rows'.replay /\ links.tried[p] # None  BY <3>2, <4>2, <5>1, RetentionAssumption
        <5>3. links.tried[p] \in rows'.attempt  BY <3>2, <5>2
        <5>4. QED  BY <3>2, <5>1, <5>3
      <4>4. \A s \in prune.candidates.span : RunOf[s] \in prune.candidates.run
        BY <1>1, <4>1 DEF Inv, PruneOK
      <4>5. QED  BY <3>2, <4>3, <4>4
    <3>3. QED  BY <1>1, <2>2, <3>1, <3>2, ApplyFacts
  <2>3. QED  BY <2>1, <2>2
<1>2. Inv /\ [Next]_vars =>
        [/\ \A r \in rows.run \ rows'.run : r \notin prune.referenced
         /\ \A s \in rows.span \ rows'.span : RunOf[s] \notin prune.referenced]_vars
  BY <1>1
<1>3. QED  BY <1>2, InvAlways, PTL DEF Spec, CitedEvidenceSurvives
================================================================================
