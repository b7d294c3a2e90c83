-------------------------------- MODULE Delivery -------------------------------
(* What an agent gets of the skillbook (kyoko/skillbook.py, and the context     *)
(* tool of mcp.py): the rules that filter, the skills and the skills to count    *)
(* are reads on connections of their own, between which proposals are applied   *)
(* and rolled back.  The rules that the text shows are read once more after the *)
(* skills; they filter nothing there, and that read is left out.                *)
(*                                                                              *)
(* A body names skills by id or by keyword, to include or to exclude them.      *)
EXTENDS Naturals, FiniteSets, FiniteSetsExt

CONSTANTS
  Skill,         \* numbers: list_skills lists the largest first
  Home,          \* skill, rule or known target -> its profile
  Tagged,        \* skill -> its keywords
  Rule, Target,  \* a target is unknown when it has no profile
  Body,          \* what the rules may say
  Agent, MaxWrites, None

Section == {"context", "harness"}

DeliveryAssumption ==
  /\ Skill \subseteq Nat /\ IsFiniteSet(Skill) /\ Skill \cup Rule \subseteq DOMAIN Home /\ DOMAIN Tagged = Skill
  /\ \A b \in Body : b.target \in Target \cup {"profile"} /\ b.max \in Nat
  /\ MaxWrites \in Nat

VARIABLES
  skill,     \* rows of skills: active, section (None: still a problem)
  rule,      \* rows of context_delivery_rules
  fetch,     \* what each agent is in the middle of
  writes,
  touched    \* history: what was written since each fetch began

vars == <<skill, rule, fetch, writes, touched>>

Problem == [active |-> FALSE, section |-> None]
SkillRow == [active : BOOLEAN, section : Section] \cup {Problem}
RuleRow == [active : BOOLEAN, body : Body] \cup {None}
Request == [section : Section \cup {"all"}, target : Target \cup {None}, inactive : BOOLEAN]
Idle == [at |-> "idle", asked |-> None, filters |-> {}, given |-> {}, used |-> {}]

Init ==
  /\ skill \in [Skill -> SkillRow] /\ rule \in [Rule -> RuleRow]
  /\ fetch = [a \in Agent |-> Idle]
  /\ writes = 0 /\ touched = [a \in Agent |-> {}]

Known(target) == target \in DOMAIN Home

\* The profile of the target; without a target, every profile.
InScope(x, asked) == asked.target = None \/ Home[x] = Home[asked.target]

InForce(asked) ==
  {r \in Rule : /\ rule[r] # None /\ InScope(r, asked)
                /\ rule[r].active \/ asked.inactive
                /\ asked.target # None => rule[r].body.target \in {asked.target, "profile"}}

Listed(asked) ==
  {s \in Skill : /\ InScope(s, asked) /\ (skill[s].active \/ asked.inactive)
                /\ asked.section \in {"all", skill[s].section}}

Matches(s, ids, keywords) == s \in ids \/ Tagged[s] \cap keywords # {}

Capped(list, bodies) ==
  LET limits == {b.max : b \in bodies} \ {0}
  IN {s \in list : limits = {} \/ Cardinality({t \in list : t > s}) < Min(limits)}

\* Variant: the cut is made before the filters.
CutFirst(list, bodies) ==
  LET included(s) == \E b \in bodies : Matches(s, b.ids, b.keywords)
      selective == \E b \in bodies : b.ids \cup b.keywords # {}
      excluded(s) == \E b \in bodies : Matches(s, b.noids, b.nokeywords)
  IN {s \in Capped(list, bodies) : ~ excluded(s) /\ (selective => included(s))}

\* _apply_delivery_rule_filters: excluded by any, then included by one, then cut.
Filtered(list, bodies) ==
  LET included(s) == \E b \in bodies : Matches(s, b.ids, b.keywords)
      selective == \E b \in bodies : b.ids \cup b.keywords # {}
      excluded(s) == \E b \in bodies : Matches(s, b.noids, b.nokeywords)
  IN Capped({s \in list : ~ excluded(s) /\ (selective => included(s))}, bodies)

Go(a, f) ==
  /\ fetch' = [fetch EXCEPT ![a] = f]
  /\ UNCHANGED <<skill, rule, writes>>

--------------------------------------------------------------------------------
(* A fetch of the context                                                      *)

Ask(a, asked) ==
  /\ fetch[a].at = "idle"
  /\ touched' = [touched EXCEPT ![a] = {}]
  /\ Go(a, [Idle EXCEPT !.asked = asked,
              !.at = IF asked.target # None /\ ~ Known(asked.target) THEN "list"
                     ELSE IF asked.target = None \/ asked.section = "harness" THEN "skills"
                     ELSE "rules"])

ReadRules(a) ==
  LET f == fetch[a]
  IN /\ f.at = "rules"
     /\ Go(a, [f EXCEPT !.at = "skills", !.filters = {rule[r].body : r \in InForce(f.asked)}])
     /\ UNCHANGED touched

\* The skills are sorted by section: sections and NULL do not compare.
Sortable(list) == Cardinality({skill[s].section = None : s \in list}) < 2

\* What is given is what the text is made of; a problem that has no section yet
\* takes its place under the limit, and has no line of its own.
ReadSkills(a) ==
  LET f == fetch[a]
      list == Filtered(Listed(f.asked), f.filters)
  IN /\ f.at = "skills"
     /\ Go(a, IF Sortable(list)
              THEN [f EXCEPT !.given = list, !.at = "list"]
              ELSE [f EXCEPT !.at = "error"])
     /\ UNCHANGED touched

\* What is counted as used is another list: the active skills of the section, of every
\* profile, under no rule ...
ListUsed(a) ==
  LET f == fetch[a]
  IN /\ f.at = "list" /\ ~ f.asked.inactive
     /\ Go(a, [f EXCEPT !.at = "mark", !.used = Listed([f.asked EXCEPT !.target = None])])
     /\ UNCHANGED touched

\* ... less what is inactive by then (mark_skills_used).
Mark(a) ==
  LET f == fetch[a]
  IN /\ f.at = "mark"
     /\ Go(a, [f EXCEPT !.at = "done", !.used = {s \in @ : skill[s].active}])
     /\ UNCHANGED touched

\* Only the tool of the agents counts: the CLI and the dashboard render and no more.
Leave(a) ==
  /\ fetch[a].at \in {"list", "done", "error"}
  /\ Go(a, Idle)
  /\ UNCHANGED touched

--------------------------------------------------------------------------------
(* Proposals that are applied and rolled back meanwhile (module Skillbook)      *)

Wrote(x) ==
  /\ writes < MaxWrites /\ writes' = writes + 1
  /\ touched' = [a \in Agent |-> IF fetch[a] = Idle THEN touched[a] ELSE touched[a] \cup {x}]
  /\ UNCHANGED fetch

WriteSkill(s, row) ==
  /\ skill[s] # row
  /\ skill' = [skill EXCEPT ![s] = row]
  /\ Wrote(s) /\ UNCHANGED rule

WriteRule(r, row) ==
  /\ rule[r] # row
  /\ rule' = [rule EXCEPT ![r] = row]
  /\ Wrote(r) /\ UNCHANGED skill

Next ==
  \/ \E a \in Agent : \/ \E asked \in Request : Ask(a, asked)
                      \/ ReadRules(a) \/ ReadSkills(a) \/ ListUsed(a) \/ Mark(a) \/ Leave(a)
  \/ \E s \in Skill, row \in SkillRow : WriteSkill(s, row)
  \/ \E r \in Rule, row \in RuleRow \ {None} : WriteRule(r, row)

Spec == Init /\ [][Next]_vars

--------------------------------------------------------------------------------
(* Properties                                                                  *)

\* A prompt for a target obeys every rule that stood while it was made, whatever was
\* applied and rolled back meanwhile: it holds only active skills of the target's
\* profile and the section asked for, none that such a rule excludes and no more than
\* it allows.  When no rule changed, it holds only what some rule includes, if any
\* names something, and leaves out a skill that may be delivered only for newer ones
\* (_apply_delivery_rule_filters, test_target_context_is_scoped_to_inferred_profile).
PromptFollowsTheRules ==
  \A a \in Agent :
    LET f == fetch[a]
        standing == IF f.asked.section = "harness" THEN {}
                    ELSE {rule[r].body : r \in InForce(f.asked) \ touched[a]}
        Forbidden(s) == \E b \in standing : Matches(s, b.noids, b.nokeywords)
        Wanted(s) == \/ \E b \in standing : Matches(s, b.ids, b.keywords)
                     \/ \A b \in standing : b.ids \cup b.keywords = {}
        Due(s) == /\ Home[s] = Home[f.asked.target] /\ f.asked.section \in {"all", skill[s].section}
                  /\ skill[s].active \/ f.asked.inactive
    IN (f.at \in {"list", "mark", "done"} /\ f.asked.target # None) =>
       IF ~ Known(f.asked.target) THEN f.given = {}
       ELSE
         /\ \A s \in f.given \ touched[a] : Due(s)
         /\ \A s \in f.given : ~ Forbidden(s)
         /\ \A b \in standing : b.max # 0 => Cardinality(f.given) <= b.max
         /\ Rule \cap touched[a] = {} =>
              /\ \A s \in f.given : Wanted(s)
              /\ \A s \in Skill \ (f.given \cup touched[a]) : (Due(s) /\ Wanted(s) /\ ~ Forbidden(s)) =>
                   /\ \E b \in standing : b.max \in {Cardinality(f.given)} \ {0}
                   /\ \A t \in f.given : t > s

\* kyoko/mcp.py:1936, "bump used_count on the active entries injected": an entry that
\* was counted, and not written meanwhile, is in the prompt (what is counted is the
\* skillbook of all profiles).
CountsTheInjected ==
  \A a \in Agent : fetch[a].at = "done" => fetch[a].used \subseteq fetch[a].given \cup touched[a]

\* Whatever is asked for, the fetch ends without an error (with the inactive entries of
\* all sections it need not: those that are still problems have no section).
ExportSucceeds == \A a \in Agent : fetch[a].at # "error"
================================================================================
