------------------------- MODULE MCTokenLifecycle -------------------------
(* Small instances of TokenLifecycle for TLC. *)
EXTENDS TokenLifecycle, TLC

CONSTANTS t1, t2, t3, t4, i1, i2, a1, a2

TxnSymmetry == Permutations(Txns)

(* One holder with an ACTIVE token, a reserve, and an id left to issue; a second
   agency is the issuer of that third token. *)
OneHolder == t1 :> i1 @@ t2 :> i1 @@ t3 :> i1
OneHolderIssuer == t1 :> a1 @@ t2 :> a1 @@ t3 :> a2
OneHolderSeed == t1 :> "ACTIVE" @@ t2 :> "RESERVE" @@ t3 :> "NONE"
OneHolderExpires == t1 :> 9 @@ t2 :> 9 @@ t3 :> 9

(* One holder with two reserves, one of which expires first. *)
TwoReservesSeed == t1 :> "ACTIVE" @@ t2 :> "RESERVE" @@ t3 :> "RESERVE"
TwoReservesExpires == t1 :> 9 @@ t2 :> 0 @@ t3 :> 9

(* One holder with no ACTIVE token but two reserves, and an id left to issue to
   each of two holders, so that a batch may issue to both. *)
TwoHolders == t1 :> i1 @@ t2 :> i1 @@ t3 :> i1 @@ t4 :> i2
TwoHoldersIssuer == t1 :> a1 @@ t2 :> a1 @@ t3 :> a2 @@ t4 :> a2
BatchSeed == t1 :> "RESERVE" @@ t2 :> "RESERVE" @@ t3 :> "NONE" @@ t4 :> "NONE"
NeverExpires == [t \in Tokens |-> 9]
=============================================================================
