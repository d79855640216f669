-------------------------- MODULE MCOperatorSignIn --------------------------
(* Instances of OperatorSignIn for TLC. *)
EXTENDS OperatorSignIn, TLC

CONSTANTS bound, unbound

(* Guessing against the lock; registrations that race; sessions against a
   rotation, and against changes of what the account may do. *)
FourScenarios ==
  {{"wrong", "right", "race", "rotate"},
   {"right", "register", "race", "rotate", "standing"},
   {"right", "register", "request", "rotate"},
   {"right", "register", "request", "standing"}}

OneEach == [st \in Standings |-> 1]
IdleTwo == [st \in Standings |-> IF st = bound THEN 2 ELSE 0]

Symmetries == Permutations(Workers) \cup Permutations(Sids) \cup Permutations(Requests)
=============================================================================
