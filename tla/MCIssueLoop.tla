------------------------------ MODULE MCIssueLoop ------------------------------
(* Two issues, two fixes, one process that analyses and improves, one that     *)
(* monitors, and the humans around them.                                       *)
EXTENDS IssueLoop, TLC

CONSTANTS p1, p2, w1, w2

WorkersAlike == Permutations({w1, w2})
FixesAlike == Permutations({p1, p2})

MCIssues == 1 .. 2
MCOneIssue == {1}

\* Every fix changes context; or the first one patches the harness.
MCContext == [p \in Proposals |-> "context"]
MCHarness == (p1 :> "harness") @@ (p2 :> "context")
================================================================================
