--------------------------- MODULE IdentityRegister ---------------------------
(***************************************************************************)
(* What the credential procedures promise together: a register of token    *)
(* statuses and recovery requests in which every procedure takes effect at *)
(* one instant, and at no instant does a holder have two ACTIVE tokens.    *)
(* There are no sessions, locks or logs here; TokenLifecycle is shown to   *)
(* implement it.                                                           *)
(***************************************************************************)
EXTENDS Naturals

CONSTANTS Tokens, Individuals, holder, seed

VARIABLES
  status,   \* of each token
  request   \* of each person's latest recovery request

vars == <<status, request>>

Of(i) == {t \in Tokens : holder[t] = i}
Live(i) == {t \in Of(i) : status[t] \in {"RESERVE", "ACTIVE"}}
NoActive(i) == \A t \in Of(i) : status[t] # "ACTIVE"

(* One person's first token, or a batch of them: all or none. *)
Issue(S) ==
  /\ S # {}
  /\ \A t \in S : status[t] = "NONE" /\ NoActive(holder[t])
  /\ \A t, u \in S : holder[t] = holder[u] => t = u
  /\ status' = [t \in Tokens |-> IF t \in S THEN "ACTIVE" ELSE status[t]]
  /\ UNCHANGED request

Activate(t) ==
  /\ status[t] = "RESERVE"
  /\ NoActive(holder[t])
  /\ status' = [status EXCEPT ![t] = "ACTIVE"]
  /\ UNCHANGED request

(* An ACTIVE token is set aside, reported lost, or runs out. *)
Withdraw(t, s) ==
  /\ status[t] = "ACTIVE"
  /\ status' = [status EXCEPT ![t] = s]
  /\ UNCHANGED request

Revoke(t) ==
  /\ status[t] \in {"RESERVE", "ACTIVE"}
  /\ status' = [status EXCEPT ![t] = "REVOKED"]
  /\ UNCHANGED request

(* The reserve takes over in the same instant the lost token dies. *)
Replace(lost, reserve, s) ==
  /\ status[lost] = "ACTIVE" /\ status[reserve] = "RESERVE"
  /\ holder[lost] = holder[reserve]
  /\ status' = [status EXCEPT ![lost] = s, ![reserve] = "ACTIVE"]
  /\ UNCHANGED request

OpenRecovery(i) ==
  /\ request[i] # "PENDING"
  /\ request' = [request EXCEPT ![i] = "PENDING"]
  /\ UNCHANGED status

Reject(i) ==
  /\ request[i] = "PENDING"
  /\ request' = [request EXCEPT ![i] = "REJECTED"]
  /\ UNCHANGED status

(* Every token the person still had dies and a new one takes over. *)
Recover(new) ==
  LET old == Live(holder[new]) IN
  /\ status[new] = "NONE"
  /\ request[holder[new]] = "PENDING"
  /\ request' = [request EXCEPT ![holder[new]] = "APPROVED"]
  /\ \E dead \in [old -> {"LOST", "REVOKED"}] :
       status' = [t \in Tokens |-> IF t \in old THEN dead[t]
                                   ELSE IF t = new THEN "ACTIVE" ELSE status[t]]

Init == status = seed /\ request = [i \in Individuals |-> "NONE"]

Next ==
  \/ \E S \in SUBSET Tokens : Issue(S)
  \/ \E i \in Individuals : OpenRecovery(i) \/ Reject(i)
  \/ \E t \in Tokens : Activate(t) \/ Revoke(t) \/ Recover(t)
  \/ \E t \in Tokens, s \in {"DORMANT", "LOST", "EXPIRED"} : Withdraw(t, s)
  \/ \E t, u \in Tokens, s \in {"LOST", "REVOKED"} : Replace(t, u, s)

Spec == Init /\ [][Next]_vars
===============================================================================
