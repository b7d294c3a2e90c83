--------------------------- MODULE ProposalLifecycle ---------------------------
(***************************************************************************)
(* What the learning_proposals table promises about a context proposal,     *)
(* whoever submits, applies, monitors and crashes: it is applied at most     *)
(* once, and once it has been rolled back it stays so.  Modules Skillbook    *)
(* and IssueLoop implement this specification.                               *)
(***************************************************************************)
CONSTANT Proposals

VARIABLE state

States == {"absent", "pending", "applied", "rolled_back"}

Init == state \in [Proposals -> {"absent", "pending"}]

\* p moves from one state to the next.
Move(p, from, to) ==
  /\ state[p] = from
  /\ state' = [state EXCEPT ![p] = to]

\* submit_learning_proposal
Submit(p) == Move(p, "absent", "pending")

\* _set_proposal_state, from an apply or from a rollback
Apply(p)    == Move(p, "pending", "applied")
RollBack(p) == Move(p, "applied", "rolled_back")

Next == \E p \in Proposals : Submit(p) \/ Apply(p) \/ RollBack(p)

Spec == Init /\ [][Next]_state
================================================================================
