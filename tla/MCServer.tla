------------------------------- MODULE MCServer -------------------------------
(* What a server must get done whatever other processes and clients do, in     *)
(* parts that share no state; part says which one a behaviour is about.        *)
(*   migrations: two processes open and upgrade a database of any version;     *)
(*   publishers: two threads race for the one place in the queue of a client   *)
(*     (what its tail shows is checked by the run of LiveEvents.cfg).          *)
EXTENDS Migrations, LiveEvents

VARIABLE part

\* Events are published of a database that is up to date.
MCInit ==
  /\ part \in {"migrations", "publishers"} /\ Init /\ LiveInit
  /\ part = "publishers" => version = Current

MCNext ==
  /\ UNCHANGED part
  /\ \/ part = "migrations" /\ Next /\ UNCHANGED live
     \/ part = "publishers" /\ LiveNext /\ UNCHANGED vars

\* The fairness of each component, in the part that is about it.
MCSpec ==
  /\ MCInit /\ [][MCNext]_<<vars, live, part>>
  /\ part = "migrations" => Fairness
  /\ part = "publishers" => LiveFairness
================================================================================
