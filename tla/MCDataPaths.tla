------------------------------ MODULE MCDataPaths ------------------------------
(* Parts that share no state, checked side by side; part says which one a      *)
(* behaviour is about, and the variables of the others stay None.              *)
(*   delivery: two skills of one profile and one of another, two rules,        *)
(*     targets that are known and one that is not;                             *)
(*   clock: the clock of a schedule;                                           *)
(*   traces: three spans in two batches;  recorder: two runs, two spans;       *)
(*   measure: two calls of a judge over two of three units.                    *)
EXTENDS Naturals, TLC

CONSTANTS Skill, Home, Tagged, Rule, Target, Body, Agent, MaxWrites, None
CONSTANTS Intervals, AtTimes, MaxHour
CONSTANTS r1, r2, here, there, agent, stranger, home, other, k
CONSTANTS LastSpan, Agents, Service, Batches, MaxPosts, Run, Handle, MaxSends
CONSTANTS Profile, Unit, Limit, Top, Threshold, Worst, Call

MCHome == (3 :> home) @@ (2 :> home) @@ (1 :> other) @@ (r1 :> home) @@ (r2 :> home)
          @@ (here :> home) @@ (there :> other)
MCTagged == (3 :> {k}) @@ (2 :> {}) @@ (1 :> {k})
MCRuleOf(target, ids, keywords, noids, nokeywords, max) ==
  [target |-> target, ids |-> ids, keywords |-> keywords, noids |-> noids, nokeywords |-> nokeywords, max |-> max]
MCBodies == {MCRuleOf("profile", {}, {}, {}, {}, 1), MCRuleOf(here, {2}, {k}, {3}, {}, 0),
             MCRuleOf(there, {2, 1}, {}, {}, {k}, 1)}
MCEnd == <<3, 1, 2>>
MCAssets == {[output |-> "numeric", direction |-> "higher_is_better"],
             [output |-> "boolean", direction |-> "true_is_notable"]}

VARIABLES part
VARIABLES skill, rule, fetch, writes, touched
VARIABLES interval, atTime, now, next
VARIABLES trace, rows, failures, index, posts, delivered
VARIABLES span, spans, runs, stored, sends
VARIABLES asset, definition, units, call, results, issue, wanted
VARIABLE run   \* of the traces, of the recorder or of the measurements

delivery == <<skill, rule, fetch, writes, touched>>
clock == <<interval, atTime, now, next>>
telemetry == <<trace, rows, failures, index, posts, delivered>>
recording == <<span, spans, runs, stored, sends>>
measuring == <<asset, definition, units, call, results, issue, wanted>>

D == INSTANCE Delivery
C == INSTANCE Cadence
T == INSTANCE Traces WITH End <- MCEnd
R == INSTANCE Recorder WITH ParentsFirst <- T!ParentsFirst, ReferencesHold <- T!ReferencesHold
M == INSTANCE Measurements WITH Asset <- MCAssets

\* Hours, and hours of a day (compute_next_run_at refuses an interval that is not positive).
ASSUME ClockAssumption ==
  Intervals \subseteq Nat \ {0} /\ AtTimes \subseteq 0..23 \cup {None}

ASSUME PromptAssumption == D!DeliveryAssumption

\* What was applied before: each skill has a section or is still a problem.
MCInit ==
  /\ part \in {"delivery", "clock", "traces", "recorder", "measure"}
  /\ IF part = "delivery"
     THEN /\ D!Init
          /\ \A s \in Skill : IF s = 1 THEN skill[s].section # "harness"
                             ELSE skill[s].active \/ skill[s].section = None
          /\ \A r \in Rule : rule[r] # None => rule[r].active
     ELSE skill = None /\ rule = None /\ fetch = None /\ writes = None /\ touched = None
  /\ IF part = "clock" THEN C!Init ELSE interval = None /\ atTime = None /\ now = None /\ next = None
  /\ CASE part = "traces" -> T!Init
       [] part = "recorder" -> R!Init
       [] part = "measure" -> M!Init
       [] OTHER -> run = None
  /\ part # "traces" => trace = None /\ rows = None /\ failures = None /\ index = None
                        /\ posts = None /\ delivered = None
  /\ part # "recorder" => span = None /\ spans = None /\ runs = None /\ stored = None
                          /\ sends = None
  /\ part # "measure" => asset = None /\ definition = None /\ units = None /\ call = None
                         /\ results = None /\ issue = None /\ wanted = None

MCNext ==
  /\ UNCHANGED part
  /\ \/ part = "delivery" /\ D!Next /\ UNCHANGED <<clock, telemetry, recording, measuring, run>>
     \/ part = "clock" /\ C!Next /\ UNCHANGED <<delivery, telemetry, recording, measuring, run>>
     \/ part = "traces" /\ T!Next /\ UNCHANGED <<delivery, clock, recording, measuring>>
     \/ part = "recorder" /\ R!Next /\ UNCHANGED <<delivery, clock, telemetry, measuring>>
     \/ part = "measure" /\ M!Next /\ UNCHANGED <<delivery, clock, telemetry, recording>>

MCSpec == MCInit /\ [][MCNext]_<<part, delivery, clock, telemetry, recording, measuring, run>>

(* The properties of Delivery, Cadence, Traces, Recorder and Measurements,     *)
(* each of its part.                                                           *)
PromptIsRight == part = "delivery" => D!PromptFollowsTheRules
TraceIsKept ==
  /\ (part = "traces" => T!TraceIsKept) /\ (part = "recorder" => R!RecordingIsAccepted)
  /\ (part = "measure" => M!MeasuredAddsUp)
NextRunIsOnTime == C!NextRunIsOnTime
================================================================================
