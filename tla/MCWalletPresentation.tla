------------------------ MODULE MCWalletPresentation ------------------------
(* Instances of WalletPresentation for TLC. *)
EXTENDS WalletPresentation, TLC

CONSTANTS a1, c1

OneIssuer == [c \in Credentials |-> a1]

(* The credential expires at the end of the run, its agency's key never. *)
ExpiresAtTwo == [c \in Credentials |-> 2]
KeyLasts == [a \in Agencies |-> 9]
ValueTTL == [k \in Kinds |-> IF k = "nonce" THEN 1 ELSE 2]
TwoOfEach == [k \in Kinds |-> 2]

(* Two wallets, each with a copy of the credential issued just before the start. *)
TwoCopies ==
  {[agency |-> a1, cred |-> c1, day |-> 0, slot |-> 0, expires |-> 2, offer |-> 1],
   [agency |-> a1, cred |-> c1, day |-> 0, slot |-> 1, expires |-> 2, offer |-> 2]}

HeldOrNot == {{}, TwoCopies}
Held == {TwoCopies}

(* Where no copy is held yet the issuer is at work, and nobody presents; where two
   are, they are presented and one worker at a time publishes lists. *)
VARIABLE scenario

ScenarioInit ==
  /\ PresentInit
  /\ scenario = IF copies = {} THEN "issue" ELSE "present"

Busy == {w \in Workers : pc[w] # "idle"}

Within ==
  \/ /\ scenario = "issue"
     /\ UNCHANGED <<verifier, handling, wire>>
     /\ \A w \in Workers : pc'[w] # "sign_list"
  \/ /\ scenario = "present"
     /\ UNCHANGED minted
     /\ Cardinality(Busy') <= 1

ScenarioSpec ==
  /\ ScenarioInit
  /\ [][PresentNext /\ Within /\ UNCHANGED scenario]_<<presentVars, scenario>>

ClientSymmetry == {w @@ h : w \in Permutations(Workers), h \in Permutations(Threads)}
=============================================================================
