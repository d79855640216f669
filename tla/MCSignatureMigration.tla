-------------------------- MODULE MCSignatureMigration --------------------------
(* Instances of SignatureMigration for TLC. *)
EXTENDS SignatureMigration, TLC

CONSTANTS target, other

NoSingle == {}
(* Single migrations of token 1 to an algorithm that blocks the runners' and of
   token 2 to theirs. *)
OneSingleEach == {<<1, other>>, <<2, target>>}

(* The population of "singles" is complete and stays live while its tokens are
   migrated singly; that of "growing" is issued and withdrawn meanwhile. *)
VARIABLE scenario

ScenarioInit ==
  /\ Init
  /\ scenario = IF live = Tokens THEN "singles" ELSE "growing"

ScenarioNext ==
  /\ Next
  /\ \A s \in Sessions : pc'[s] # IF scenario = "singles" THEN "withdraw" ELSE "uc6_lock"
  /\ UNCHANGED scenario

ScenarioSpec ==
  ScenarioInit /\ [][ScenarioNext]_<<vars, scenario>> /\ Fairness /\ Reruns

SessionSymmetry == Permutations(Sessions)
===============================================================================
