-------------------------- MODULE MCRecoveryCeremony --------------------------
(* Instances of RecoveryCeremony for TLC. *)
EXTENDS RecoveryCeremony, TLC

CONSTANTS u1, u2, u3, a1, a2, a3, i1

Is(role, agency) == [role |-> role, active |-> TRUE, agency |-> agency]
Left(role, agency) == [role |-> role, active |-> FALSE, agency |-> agency]

(* A requester, a colleague at a second authority who moves to the first, and
   an unbound admin who is demoted. *)
Movers == [u \in Users |->
  CASE u = u1 -> {Is("admin", a1)}
    [] u = u2 -> {Is("operator", a2), Is("operator", a1)}
    [] OTHER  -> {Is("admin", None), Left("admin", None)}]

(* Three admins nobody moves. *)
Settled == [u \in Users |->
  CASE u = u1 -> {Is("admin", a1)}
    [] u = u2 -> {Is("admin", a2)}
    [] OTHER  -> {Is("admin", None)}]

FirstTied == [i \in Individuals |-> {a1}]
NoneTied == [i \in Individuals |-> {}]
NeverIssued == [i \in Individuals |-> <<>>]
IssuedByThird == [i \in Individuals |-> <<a3>>]

SessionSymmetry == Permutations(Sessions)
===============================================================================
