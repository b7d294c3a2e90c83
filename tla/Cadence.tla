-------------------------------- MODULE Cadence --------------------------------
(* When a schedule runs next (kyoko/analysis_runner.py, compute_next_run_at and *)
(* Scheduler.tick): hours since a midnight, in a time zone that keeps its       *)
(* offset.  The scheduler may be late, by any time while the server is down.    *)
EXTENDS Naturals, FiniteSetsExt

CONSTANTS
  Intervals,  \* interval_hours of the schedules
  AtTimes,    \* the hour of at_time, or None
  MaxHour, None

Day == 24

VARIABLES interval, atTime, now, next

vars == <<interval, atTime, now, next>>

\* Variant: a run that is due at this moment is not behind it.
NextRunNotAfter(hour) ==
  IF atTime = None THEN hour + interval
  ELSE LET today == (hour \div Day) * Day + atTime
       IN today + interval * (IF today >= hour THEN 0 ELSE (hour - today + interval - 1) \div interval)

\* The hour of today, stepped by the interval until it lies ahead.
NextRun(hour) ==
  IF atTime = None THEN hour + interval
  ELSE LET today == (hour \div Day) * Day + atTime
       IN today + interval * (IF today > hour THEN 0 ELSE (hour - today) \div interval + 1)

Init ==
  /\ interval \in Intervals /\ atTime \in AtTimes
  /\ now \in 0..Day - 1 /\ next = NextRun(now)

Pass(hours) ==
  /\ now + hours <= MaxHour
  /\ now' = now + hours
  /\ UNCHANGED <<interval, atTime, next>>

\* tick: a due schedule is armed again, from now, before its job is submitted.
Arm ==
  /\ next <= now
  /\ next' = NextRun(now)
  /\ UNCHANGED <<interval, atTime, now>>

Next == (\E hours \in 1..Day : Pass(hours)) \/ Arm

--------------------------------------------------------------------------------
(* Properties                                                                  *)

\* However late a schedule is armed again, its next run lies ahead, no further than an
\* interval or a day; a schedule of whole days keeps its hour, and the interval too when
\* it is armed on the day it was due.
NextRunIsOnTime ==
  [][next' # next =>
       /\ next' > now /\ next' <= now + Max({interval, Day})
       /\ (atTime # None /\ interval % Day = 0) =>
            /\ next' % Day = atTime
            /\ next \div Day = now \div Day => next' = next + interval]_vars

\* kyoko/analysis_runner.py:537: with at_time "the cadence steps by interval_hours".
\* The anchor is taken from each day anew: every six hours at 23 is twice a day.
CadenceSteps ==
  [][(next' # next /\ next = now /\ atTime # None) => next' = next + interval]_vars
================================================================================
