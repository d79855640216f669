-------------------------- MODULE MCPopulationCounts --------------------------
(* An instance of PopulationCounts for TLC. *)
EXTENDS PopulationCounts, TLC

CONSTANTS t1, t2, a1, a2

(* A reserve that may be signed a second time beside an ACTIVE credential signed
   twice; and an id left to issue beside a credential that has been revoked. *)
TwoLoads ==
  {[status |-> t1 :> "RESERVE" @@ t2 :> "ACTIVE",
    live |-> {<<t1, a1>>, <<t2, a1>>, <<t2, a2>>}],
   [status |-> t1 :> "NONE" @@ t2 :> "REVOKED",
    live |-> {<<t2, a1>>, <<t2, a2>>}]}

SessionSymmetry == Permutations(Sessions)
===============================================================================
