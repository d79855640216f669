------------------------- MODULE PopulationCountsProofs -------------------------
(***************************************************************************)
(* Proofs about PopulationCounts, for every number of credentials,         *)
(* algorithms and sessions.                                                *)
(*                                                                         *)
(* A transaction's delta rows, folded or not, add up at every moment to    *)
(* what its own writes would change in a full count: for a status, the     *)
(* tokens it has drafted into it less those it has drafted that are        *)
(* committed in it; for an algorithm, the same of the tokens it has        *)
(* touched.  A fold moves the rows without changing their sum.  Commits of *)
(* others leave both sets alone: for statuses because of the row locks,    *)
(* for signatures as long as no status change and signature change of one  *)
(* credential overlap.                                                     *)
(***************************************************************************)
EXTENDS PopulationCounts, FiniteSetTheorems, TLAPS

(* What a transaction's delta rows add up to, wherever its folds have put them. *)
Net(s, k) == pending[s][k] + moved[s][k] - taken[s][k]

(* The committed credentials of a full count. *)
InStatus(k) == {t \in Tokens : status[t] = k}
Signed(a) == {t \in Tokens : status[t] = "ACTIVE" /\ <<t, a>> \in live}

(* The tokens a transaction has drafted into a status, and those of its drafts that
   are committed in it. *)
Into(s, k) == {t \in Tokens : draft[s][t] = k}
OutOf(s, k) == {t \in Tokens : draft[s][t] # "KEPT" /\ status[t] = k}

(* The tokens whose part in the count of an algorithm it may have changed, and
   those of them that count for it, and in the committed tables. *)
Touched(s, a) == {t \in Tokens : draft[s][t] # "KEPT" \/ <<t, a>> \in added[s] \cup retired[s]}
Gains(s, a) == {t \in Touched(s, a) : StatusSeen(s, t) = "ACTIVE" /\ <<t, a>> \in LiveSeen(s)}
Losses(s, a) == {t \in Touched(s, a) : status[t] = "ACTIVE" /\ <<t, a>> \in live}

-----------------------------------------------------------------------------
(* The inductive invariant *)

(* Between transactions a session has nothing, and the recount counts only then. *)
Closed(s) ==
  statements[s] = 0 =>
    /\ draft[s] = [t \in Tokens |-> "KEPT"]
    /\ added[s] = {} /\ retired[s] = {}
    /\ pending[s] = Zero /\ moved[s] = Zero /\ taken[s] = Zero

Recounting ==
  recount = "counting" => cleared = delta /\ \A s \in Sessions : statements[s] = 0

(* The CHECK on the totals holds once a fold's transaction commits. *)
FoldsAdmitted == \A s \in Sessions, k \in Items : total[k] + moved[s][k] >= 0

(* What the row locks and the unique index keep apart. *)
RowsApart(s, x) ==
  /\ \A t \in Tokens : draft[s][t] = "KEPT" \/ draft[x][t] = "KEPT"
  /\ added[s] \cap added[x] = {}
  /\ retired[s] \cap retired[x] = {}

RowsSound(s) ==
  /\ added[s] \cap (live \cup ended) = {}
  /\ retired[s] \subseteq live \cup added[s]

Structure ==
  /\ CountsTypeOK
  /\ \A s \in Sessions : Closed(s) /\ RowsSound(s)
  /\ \A s, x \in Sessions : s # x => RowsApart(s, x)
  /\ Recounting
  /\ FoldsAdmitted

StatusNets == \A s \in Sessions, k \in Statuses :
  Net(s, k) = Cardinality(Into(s, k)) - Cardinality(OutOf(s, k))

SignatureNets == overlapped = {} => \A s \in Sessions, a \in Algorithms :
  Net(s, a) = Cardinality(Gains(s, a)) - Cardinality(Losses(s, a))

OverlapsRecorded == Overlapping(draft, added, retired) \subseteq overlapped

CountsInv ==
  /\ Structure
  /\ OverlapsRecorded
  /\ StatusNets /\ StatusCountsExact
  /\ SignatureNets /\ SignatureCountsExact

-----------------------------------------------------------------------------
(* Sums and cardinalities *)

(* The operators on counts, item by item. *)
LEMMA Sums ==
  ASSUME NEW f \in [Items -> Int], NEW g \in [Items -> Int]
  PROVE  /\ Plus(f, g) \in [Items -> Int] /\ Minus(f, g) \in [Items -> Int]
         /\ \A k \in Items : Plus(f, g)[k] = f[k] + g[k] /\ Minus(f, g)[k] = f[k] - g[k]
BY DEF Plus, Minus

(* Nothing counted. *)
LEMMA ZeroSum == Zero \in [Items -> Int] /\ \A k \in Items : Zero[k] = 0
BY DEF Zero

(* A set of credentials that changes at one of them changes its size by that one. *)
LEMMA PointChange ==
  ASSUME NEW S, IsFiniteSet(S), NEW T, NEW t, T \ {t} = S \ {t}
  PROVE  /\ IsFiniteSet(T)
         /\ Cardinality(S) \in Nat /\ Cardinality(T) \in Nat
         /\ Cardinality(T) = Cardinality(S) + Bit(t \in T) - Bit(t \in S)
<1>1. /\ IsFiniteSet(S \ {t})
      /\ Cardinality(S \ {t}) = IF t \in S THEN Cardinality(S) - 1 ELSE Cardinality(S)
  BY FS_RemoveElement
<1>2. /\ IsFiniteSet((S \ {t}) \cup {t})
      /\ Cardinality((S \ {t}) \cup {t}) = Cardinality(S \ {t}) + 1
  BY <1>1, FS_AddElement
<1>3. Cardinality(S) \in Nat /\ Cardinality(S \ {t}) \in Nat
  BY <1>1, FS_CardinalityType
<1>4. CASE t \in T
  <2>1. T = (S \ {t}) \cup {t}
    BY <1>4
  <2> QED
    BY <1>1, <1>2, <1>3, <1>4, <2>1 DEF Bit
<1>5. CASE t \notin T
  <2>1. T = S \ {t}
    BY <1>5
  <2> QED
    BY <1>1, <1>3, <1>5, <2>1 DEF Bit
<1> QED
  BY <1>4, <1>5

(* Some leave a set and others enter it. *)
LEMMA MovedCount ==
  ASSUME NEW S, IsFiniteSet(S), NEW Out \in SUBSET S,
         NEW In, IsFiniteSet(In), In \cap (S \ Out) = {}
  PROVE  /\ Cardinality((S \ Out) \cup In) = Cardinality(S) - Cardinality(Out) + Cardinality(In)
         /\ Cardinality(S) \in Nat /\ Cardinality(Out) \in Nat /\ Cardinality(In) \in Nat
<1>1. IsFiniteSet(Out) /\ IsFiniteSet(S \ Out)
  BY FS_Subset
<1>2. Cardinality(S \ Out) = Cardinality(S) - Cardinality(S \cap Out)
  BY FS_Difference
<1>3. Cardinality((S \ Out) \cup In)
        = Cardinality(S \ Out) + Cardinality(In) - Cardinality((S \ Out) \cap In)
  BY <1>1, FS_Union
<1>4. S \cap Out = Out /\ (S \ Out) \cap In = {}
  OBVIOUS
<1>5. Cardinality({}) = 0
  BY FS_EmptySet
<1>6. Cardinality(S) \in Nat /\ Cardinality(Out) \in Nat /\ Cardinality(In) \in Nat
      /\ Cardinality(S \ Out) \in Nat
  BY <1>1, FS_CardinalityType
<1>7. Cardinality(S \ Out) = Cardinality(S) - Cardinality(Out)
  BY <1>2, <1>4
<1>8. Cardinality((S \ Out) \cap In) = 0
  BY <1>4, <1>5
<1> QED
  BY <1>3, <1>6, <1>7, <1>8

(* Sets of credentials are finite. *)
LEMMA TokenSets ==
  /\ \A k : IsFiniteSet(InStatus(k)) /\ Cardinality(InStatus(k)) \in Nat
  /\ \A a : IsFiniteSet(Signed(a)) /\ Cardinality(Signed(a)) \in Nat
  /\ \A s, k : IsFiniteSet(Into(s, k)) /\ IsFiniteSet(OutOf(s, k))
  /\ \A s, a : IsFiniteSet(Gains(s, a)) /\ IsFiniteSet(Losses(s, a))
<1>1. \A S \in SUBSET Tokens : IsFiniteSet(S) /\ Cardinality(S) \in Nat
  BY CountsAssumption, FS_Subset, FS_CardinalityType
<1> QED
  BY <1>1 DEF InStatus, Signed, Into, OutOf, Gains, Losses, Touched

(* A full count, and what a reader sums, item by item. *)
LEMMA FullCounts ==
  /\ FullCount \in [Items -> Nat]
  /\ \A k \in Statuses : FullCount[k] = Cardinality(InStatus(k))
  /\ \A a \in Algorithms : FullCount[a] = Cardinality(Signed(a))
<1>1. \A k \in Items : FullCount[k] = IF k \in Statuses THEN Cardinality(InStatus(k))
                                      ELSE Cardinality(Signed(k))
  BY DEF FullCount, InStatus, Signed
<1>2. FullCount = [k \in Items |-> FullCount[k]]
  BY DEF FullCount
<1>3. \A k \in Items : FullCount[k] \in Nat
  BY <1>1, TokenSets
<1> QED
  BY <1>1, <1>2, <1>3, CountsAssumption DEF Items

(* A reader sums the two tables item by item. *)
LEMMA CountedSums ==
  ASSUME CountsTypeOK
  PROVE  \A k \in Items : Counted[k] = total[k] + delta[k]
BY Sums DEF CountsTypeOK, Counted, Plus

-----------------------------------------------------------------------------
(* Appending and folding *)

(* A statement's trigger adds its changes to the transaction's net, whether it folds
   them or not, and a fold moves the rest without changing the sum. *)
LEMMA AppendNet ==
  ASSUME NEW s \in Sessions, Structure, NEW d \in [Items -> Int], Appended(s, d)
  PROVE  /\ pending' \in [Sessions -> [Items -> Int]]
         /\ moved' \in [Sessions -> [Items -> Int]]
         /\ taken' \in [Sessions -> [Items -> Int]]
         /\ foldLock' \in Sessions \cup {Recounter, Nobody}
         /\ \A x \in Sessions : (moved'[x] # Zero \/ taken'[x] # Zero) => foldLock' = x
         /\ \A x \in Sessions, k \in Items : total[k] + moved'[x][k] >= 0
         /\ \A k \in Items : Net(s, k)' = Net(s, k) + d[k]
         /\ \A x \in Sessions \ {s} :
              pending'[x] = pending[x] /\ moved'[x] = moved[x] /\ taken'[x] = taken[x]
<1> DEFINE own == Plus(pending[s], d)
           fold == Plus(Minus(delta, taken[s]), own)
           sum == Plus(moved[s], fold)
<1>0. CountsTypeOK /\ FoldsAdmitted
      /\ pending[s] \in [Items -> Int] /\ moved[s] \in [Items -> Int] /\ taken[s] \in [Items -> Int]
      /\ delta \in [Items -> Int] /\ total \in [Items -> Nat]
  BY DEF Structure, CountsTypeOK
<1>1. own \in [Items -> Int] /\ \A k \in Items : own[k] = pending[s][k] + d[k]
  BY <1>0, Sums
<1> HIDE DEF own
<1>2. fold \in [Items -> Int] /\ \A k \in Items : fold[k] = delta[k] - taken[s][k] + own[k]
  BY <1>0, <1>1, Sums
<1> HIDE DEF fold
<1>3. sum \in [Items -> Int] /\ \A k \in Items : sum[k] = moved[s][k] + fold[k]
  BY <1>0, <1>2, Sums
<1> HIDE DEF sum
<1>4. CASE FoldSucceeds(s, own) /\ Folded(s, own)
  <2>1. /\ moved' = [moved EXCEPT ![s] = sum]
        /\ taken' = [taken EXCEPT ![s] = delta]
        /\ pending' = [pending EXCEPT ![s] = Zero]
        /\ foldLock' = s /\ foldLock \in {Nobody, s}
        /\ \A k \in Items : total[k] + moved[s][k] + fold[k] >= 0
    BY <1>0, <1>4 DEF Folded, FoldSucceeds, TotalsAdmit, Foldable, sum, fold, CountsTypeOK
  <2>2. /\ moved'[s] = sum /\ taken'[s] = delta /\ pending'[s] = Zero
        /\ moved' \in [Sessions -> [Items -> Int]]
        /\ taken' \in [Sessions -> [Items -> Int]]
        /\ pending' \in [Sessions -> [Items -> Int]]
        /\ \A x \in Sessions \ {s} :
             pending'[x] = pending[x] /\ moved'[x] = moved[x] /\ taken'[x] = taken[x]
    BY <1>0, <1>3, <2>1, ZeroSum DEF CountsTypeOK
  <2>3. \A x \in Sessions : (moved'[x] # Zero \/ taken'[x] # Zero) => foldLock' = x
    BY <1>0, <2>1, <2>2, CountsAssumption DEF CountsTypeOK
  <2>4. \A k \in Items : total[k] + moved'[s][k] >= 0
    BY <1>0, <1>2, <1>3, <2>1, <2>2
  <2>5. \A x \in Sessions, k \in Items : total[k] + moved'[x][k] >= 0
    BY <1>0, <2>2, <2>4 DEF FoldsAdmitted
  <2>6. ASSUME NEW k \in Items
        PROVE  Net(s, k)' = Net(s, k) + d[k]
    <3>1. Net(s, k)' = Zero[k] + sum[k] - delta[k]
      BY <2>2 DEF Net
    <3>2. /\ sum[k] = moved[s][k] + fold[k] /\ fold[k] = delta[k] - taken[s][k] + own[k]
          /\ own[k] = pending[s][k] + d[k] /\ Zero[k] = 0
      BY <1>1, <1>2, <1>3, ZeroSum
    <3>3. /\ sum[k] \in Int /\ fold[k] \in Int /\ own[k] \in Int /\ d[k] \in Int
          /\ pending[s][k] \in Int /\ moved[s][k] \in Int /\ taken[s][k] \in Int /\ delta[k] \in Int
      BY <1>0, <1>1, <1>2, <1>3
    <3> QED
      BY <3>1, <3>2, <3>3 DEF Net
  <2> QED
    BY <2>1, <2>2, <2>3, <2>5, <2>6
<1>5. CASE pending' = [pending EXCEPT ![s] = own] /\ UNCHANGED <<moved, taken, foldLock>>
  <2>1. /\ pending'[s] = own /\ pending' \in [Sessions -> [Items -> Int]]
        /\ \A x \in Sessions \ {s} : pending'[x] = pending[x]
    BY <1>0, <1>1, <1>5 DEF CountsTypeOK
  <2>2. \A k \in Items : Net(s, k)' = Net(s, k) + d[k]
    BY <1>0, <1>1, <1>5, <2>1 DEF Net
  <2> QED
    BY <1>0, <1>5, <2>1, <2>2 DEF CountsTypeOK, FoldsAdmitted
<1> QED
  BY <1>4, <1>5 DEF Appended, own

-----------------------------------------------------------------------------
(* The statements *)

(* A statement writes rows of its own transaction only. *)
OthersRows(s) ==
  \A x \in Sessions \ {s} : draft'[x] = draft[x] /\ added'[x] = added[x] /\ retired'[x] = retired[x]

(* It keeps the tables, the locks and the sums sound ... *)
LEMMA StatementStructure ==
  ASSUME NEW s \in Sessions, Structure, NEW d \in [Items -> Int], Appended(s, d), Statement(s),
         OthersRows(s),
         draft' \in [Sessions -> [Tokens -> Statuses \cup {"KEPT"}]],
         added' \in [Sessions -> SUBSET Signatures], retired' \in [Sessions -> SUBSET Signatures],
         RowsSound(s)',
         \A x \in Sessions \ {s} : RowsApart(s, x)'
  PROVE  Structure'
<1>0. CountsTypeOK
  BY DEF Structure
<1>1. /\ UNCHANGED <<status, live, ended, total, delta, recount, cleared>>
      /\ recount # "counting"
      /\ statements' = [statements EXCEPT ![s] = @ + 1] /\ statements[s] < MaxStatements
      /\ overlapped' = overlapped \cup Overlapping(draft', added', retired')
  BY DEF Statement, TablesOpen, store, counts, rebuilding
<1>2. /\ pending' \in [Sessions -> [Items -> Int]]
      /\ moved' \in [Sessions -> [Items -> Int]]
      /\ taken' \in [Sessions -> [Items -> Int]]
      /\ foldLock' \in Sessions \cup {Recounter, Nobody}
      /\ \A x \in Sessions : (moved'[x] # Zero \/ taken'[x] # Zero) => foldLock' = x
      /\ \A x \in Sessions, k \in Items : total[k] + moved'[x][k] >= 0
      /\ \A x \in Sessions \ {s} :
           pending'[x] = pending[x] /\ moved'[x] = moved[x] /\ taken'[x] = taken[x]
  BY AppendNet
<1>3. /\ statements' \in [Sessions -> 0..MaxStatements] /\ statements'[s] # 0
      /\ \A x \in Sessions \ {s} : statements'[x] = statements[x]
  BY <1>0, <1>1, CountsAssumption DEF CountsTypeOK
<1>4. overlapped' \subseteq Tokens
  BY <1>0, <1>1 DEF CountsTypeOK, Overlapping
<1>5. CountsTypeOK'
  BY <1>0, <1>1, <1>2, <1>3, <1>4 DEF CountsTypeOK
<1>6. ASSUME NEW x \in Sessions
      PROVE  Closed(x)' /\ RowsSound(x)'
  <2>1. CASE x = s
    BY <1>3, <2>1 DEF Closed
  <2>2. CASE x # s
    <3>1. /\ draft'[x] = draft[x] /\ added'[x] = added[x] /\ retired'[x] = retired[x]
          /\ pending'[x] = pending[x] /\ moved'[x] = moved[x] /\ taken'[x] = taken[x]
          /\ statements'[x] = statements[x]
      BY <1>2, <1>3, <2>2 DEF OthersRows
    <3>2. Closed(x) /\ RowsSound(x)
      BY DEF Structure
    <3> QED
      BY <1>1, <3>1, <3>2 DEF Closed, RowsSound
  <2> QED
    BY <2>1, <2>2
<1>7. ASSUME NEW x \in Sessions, NEW y \in Sessions, x # y
      PROVE  RowsApart(x, y)'
  <2>1. CASE x = s
    BY <1>7, <2>1
  <2>2. CASE y = s
    BY <1>7, <2>2 DEF RowsApart
  <2>3. CASE x # s /\ y # s
    BY <1>7, <2>3 DEF OthersRows, RowsApart, Structure
  <2> QED
    BY <2>1, <2>2, <2>3
<1>8. Recounting' /\ FoldsAdmitted'
  BY <1>1, <1>2 DEF Recounting, FoldsAdmitted
<1> QED
  BY <1>5, <1>6, <1>7, <1>8 DEF Structure

(* ... and every net, when its changes are what its rows change in a full count. *)
LEMMA StatementNets ==
  ASSUME NEW s \in Sessions, CountsInv, Structure', NEW d \in [Items -> Int], Appended(s, d),
         Statement(s), OthersRows(s),
         \A k \in Statuses : Cardinality(Into(s, k)') - Cardinality(OutOf(s, k)')
                               = Cardinality(Into(s, k)) - Cardinality(OutOf(s, k)) + d[k],
         \A a \in Algorithms : Cardinality(Gains(s, a)') - Cardinality(Losses(s, a)')
                               = Cardinality(Gains(s, a)) - Cardinality(Losses(s, a)) + d[a]
  PROVE  CountsInv'
<1>0. Structure /\ CountsTypeOK /\ CountsTypeOK'
  BY DEF CountsInv, Structure
<1>1. /\ UNCHANGED <<status, live, ended, total, delta>>
      /\ overlapped' = overlapped \cup Overlapping(draft', added', retired')
  BY DEF Statement, store, counts
<1>2. OverlapsRecorded'
  BY <1>1 DEF OverlapsRecorded, Overlapping
<1>3. StatusCountsExact' /\ SignatureCountsExact'
  <2>1. Counted' = Counted /\ FullCount' = FullCount
    BY <1>1 DEF Counted, FullCount
  <2>2. overlapped' = {} => overlapped = {}
    BY <1>1
  <2> QED
    BY <2>1, <2>2 DEF CountsInv, StatusCountsExact, SignatureCountsExact
<1>4. /\ \A k \in Items : Net(s, k)' = Net(s, k) + d[k]
      /\ \A x \in Sessions \ {s}, k \in Items : Net(x, k)' = Net(x, k)
  BY <1>0, AppendNet DEF Net
<1>5. ASSUME NEW x \in Sessions, x # s
      PROVE  /\ \A k : Into(x, k)' = Into(x, k) /\ OutOf(x, k)' = OutOf(x, k)
             /\ \A a : Gains(x, a)' = Gains(x, a) /\ Losses(x, a)' = Losses(x, a)
  BY <1>1, <1>5 DEF OthersRows, Into, OutOf, Gains, Losses, Touched, StatusSeen, LiveSeen
<1>6. Statuses \subseteq Items /\ Algorithms \subseteq Items
  BY DEF Items
<1>7. ASSUME NEW x \in Sessions, NEW k \in Statuses
      PROVE  Net(x, k)' = Cardinality(Into(x, k)') - Cardinality(OutOf(x, k)')
  <2>1. Net(x, k) = Cardinality(Into(x, k)) - Cardinality(OutOf(x, k))
    BY DEF CountsInv, StatusNets
  <2>2. CASE x = s
    BY <1>4, <1>6, <2>1, <2>2
  <2>3. CASE x # s
    BY <1>4, <1>5, <1>6, <2>1, <2>3
  <2> QED
    BY <2>2, <2>3
<1>8. ASSUME NEW x \in Sessions, NEW a \in Algorithms, overlapped' = {}
      PROVE  Net(x, a)' = Cardinality(Gains(x, a)') - Cardinality(Losses(x, a)')
  <2>1. Net(x, a) = Cardinality(Gains(x, a)) - Cardinality(Losses(x, a))
    BY <1>1, <1>8 DEF CountsInv, SignatureNets
  <2>2. CASE x = s
    BY <1>4, <1>6, <2>1, <2>2
  <2>3. CASE x # s
    BY <1>4, <1>5, <1>6, <2>1, <2>3
  <2> QED
    BY <2>2, <2>3
<1>9. StatusNets' /\ SignatureNets'
  BY <1>7, <1>8 DEF StatusNets, SignatureNets
<1> QED
  BY <1>2, <1>3, <1>9 DEF CountsInv

(* A statement writes rows of one credential: it is enough to look at its part. *)
LEMMA PointNets ==
  ASSUME NEW s \in Sessions, NEW t \in Tokens, NEW d \in [Items -> Int],
         UNCHANGED <<status, live>>,
         \A u \in Tokens \ {t} :
           /\ draft'[s][u] = draft[s][u]
           /\ \A a \in Algorithms : /\ <<u, a>> \in added'[s] <=> <<u, a>> \in added[s]
                                    /\ <<u, a>> \in retired'[s] <=> <<u, a>> \in retired[s],
         \A k \in Statuses : Bit(t \in Into(s, k)') - Bit(t \in OutOf(s, k)')
                               = Bit(t \in Into(s, k)) - Bit(t \in OutOf(s, k)) + d[k],
         \A a \in Algorithms : Bit(t \in Gains(s, a)') - Bit(t \in Losses(s, a)')
                               = Bit(t \in Gains(s, a)) - Bit(t \in Losses(s, a)) + d[a]
  PROVE  /\ \A k \in Statuses : Cardinality(Into(s, k)') - Cardinality(OutOf(s, k)')
                                  = Cardinality(Into(s, k)) - Cardinality(OutOf(s, k)) + d[k]
         /\ \A a \in Algorithms : Cardinality(Gains(s, a)') - Cardinality(Losses(s, a)')
                                  = Cardinality(Gains(s, a)) - Cardinality(Losses(s, a)) + d[a]
<1>0. \A P : Bit(P) \in Int
  BY DEF Bit
<1>1. \A k \in Items : d[k] \in Int
  OBVIOUS
<1>2. ASSUME NEW k \in Statuses
      PROVE  Cardinality(Into(s, k)') - Cardinality(OutOf(s, k)')
               = Cardinality(Into(s, k)) - Cardinality(OutOf(s, k)) + d[k]
  <2>1. Into(s, k)' \ {t} = Into(s, k) \ {t}
    BY DEF Into
  <2>2. OutOf(s, k)' \ {t} = OutOf(s, k) \ {t}
    BY DEF OutOf
  <2>3. /\ Cardinality(Into(s, k)) \in Nat /\ Cardinality(Into(s, k)') \in Nat
        /\ Cardinality(Into(s, k)') = Cardinality(Into(s, k)) + Bit(t \in Into(s, k)') - Bit(t \in Into(s, k))
    BY <2>1, TokenSets, PointChange
  <2>4. /\ Cardinality(OutOf(s, k)) \in Nat /\ Cardinality(OutOf(s, k)') \in Nat
        /\ Cardinality(OutOf(s, k)') = Cardinality(OutOf(s, k)) + Bit(t \in OutOf(s, k)') - Bit(t \in OutOf(s, k))
    BY <2>2, TokenSets, PointChange
  <2>5. k \in Items
    BY DEF Items
  <2> QED
    BY <1>0, <1>1, <2>3, <2>4, <2>5
<1>3. ASSUME NEW a \in Algorithms
      PROVE  Cardinality(Gains(s, a)') - Cardinality(Losses(s, a)')
               = Cardinality(Gains(s, a)) - Cardinality(Losses(s, a)) + d[a]
  <2>1. \A u \in Tokens \ {t} : u \in Touched(s, a)' <=> u \in Touched(s, a)
    BY DEF Touched
  <2>2. \A u \in Tokens \ {t} : u \in Gains(s, a)' <=> u \in Gains(s, a)
    BY <2>1 DEF Gains, StatusSeen, LiveSeen
  <2>3. \A u \in Tokens \ {t} : u \in Losses(s, a)' <=> u \in Losses(s, a)
    BY <2>1 DEF Losses
  <2>4. /\ Gains(s, a) \subseteq Tokens /\ Gains(s, a)' \subseteq Tokens
        /\ Losses(s, a) \subseteq Tokens /\ Losses(s, a)' \subseteq Tokens
    BY DEF Gains, Losses, Touched
  <2>5. Gains(s, a)' \ {t} = Gains(s, a) \ {t}
    BY <2>2, <2>4
  <2>6. Losses(s, a)' \ {t} = Losses(s, a) \ {t}
    BY <2>3, <2>4
  <2>7. /\ Cardinality(Gains(s, a)) \in Nat /\ Cardinality(Gains(s, a)') \in Nat
        /\ Cardinality(Gains(s, a)') = Cardinality(Gains(s, a)) + Bit(t \in Gains(s, a)') - Bit(t \in Gains(s, a))
    BY <2>5, TokenSets, PointChange
  <2>8. /\ Cardinality(Losses(s, a)) \in Nat /\ Cardinality(Losses(s, a)') \in Nat
        /\ Cardinality(Losses(s, a)') = Cardinality(Losses(s, a)) + Bit(t \in Losses(s, a)') - Bit(t \in Losses(s, a))
    BY <2>6, TokenSets, PointChange
  <2>9. a \in Items
    BY DEF Items
  <2> QED
    BY <1>0, <1>1, <2>7, <2>8, <2>9
<1> QED
  BY <1>2, <1>3

(* What a statement on credential t starts from. *)
LEMMA Before ==
  ASSUME CountsInv, NEW s \in Sessions, Statement(s)
  PROVE  /\ Structure /\ CountsTypeOK /\ RowsSound(s)
         /\ UNCHANGED <<status, live, ended>>
         /\ \A x \in Sessions \ {s} : RowsApart(s, x)
BY DEF CountsInv, Structure, Statement, store

(* An id that is in no table is drafted as a reserve, and counts for no algorithm. *)
LEMMA IssueStep ==
  ASSUME CountsInv, NEW s \in Sessions, NEW t \in Tokens, Issue(s, t)
  PROVE  CountsInv'
<1> DEFINE d == [k \in Items |-> Bit(k = "RESERVE")]
<1>0. /\ Structure /\ CountsTypeOK /\ RowsSound(s)
      /\ UNCHANGED <<status, live, ended>>
      /\ \A x \in Sessions \ {s} : RowsApart(s, x)
      /\ Statement(s) /\ Appended(s, d)
  BY Before DEF Issue
<1>1. d \in [Items -> Int] /\ \A k \in Items : d[k] = Bit(k = "RESERVE")
  BY DEF Bit
<1> HIDE DEF d
<1>2. /\ draft'[s][t] = "RESERVE" /\ \A u \in Tokens \ {t} : draft'[s][u] = draft[s][u]
      /\ draft' \in [Sessions -> [Tokens -> Statuses \cup {"KEPT"}]]
      /\ \A x \in Sessions \ {s} : draft'[x] = draft[x]
      /\ added' = added /\ retired' = retired
      /\ status[t] = "NONE" /\ \A x \in Sessions : draft[x][t] = "KEPT"
  BY <1>0 DEF Issue, CountsTypeOK, Statuses
<1>3. OthersRows(s)
  BY <1>2 DEF OthersRows
<1>4. RowsSound(s)' /\ \A x \in Sessions \ {s} : RowsApart(s, x)'
  BY <1>0, <1>2 DEF RowsSound, RowsApart
<1>5. Structure'
  BY <1>0, <1>1, <1>2, <1>3, <1>4, StatementStructure DEF CountsTypeOK
<1>6. ASSUME NEW k \in Statuses
      PROVE  Bit(t \in Into(s, k)') - Bit(t \in OutOf(s, k)')
               = Bit(t \in Into(s, k)) - Bit(t \in OutOf(s, k)) + d[k]
  <2>1. (t \in Into(s, k)' <=> k = "RESERVE") /\ t \notin OutOf(s, k)'
        /\ t \notin Into(s, k) /\ t \notin OutOf(s, k)
    BY <1>0, <1>2 DEF Into, OutOf, Statuses
  <2> QED
    BY <1>1, <2>1 DEF Bit, Items
<1>7. ASSUME NEW a \in Algorithms
      PROVE  Bit(t \in Gains(s, a)') - Bit(t \in Losses(s, a)')
               = Bit(t \in Gains(s, a)) - Bit(t \in Losses(s, a)) + d[a]
  <2>1. /\ t \notin Gains(s, a)' /\ t \notin Losses(s, a)'
        /\ t \notin Gains(s, a) /\ t \notin Losses(s, a)
    BY <1>0, <1>2 DEF Gains, Losses, StatusSeen
  <2>2. a # "RESERVE" /\ a \in Items
    BY CountsAssumption DEF Statuses, Items
  <2> QED
    BY <1>1, <2>1, <2>2 DEF Bit
<1>8. /\ \A k \in Statuses : Cardinality(Into(s, k)') - Cardinality(OutOf(s, k)')
                                  = Cardinality(Into(s, k)) - Cardinality(OutOf(s, k)) + d[k]
      /\ \A a \in Algorithms : Cardinality(Gains(s, a)') - Cardinality(Losses(s, a)')
                                  = Cardinality(Gains(s, a)) - Cardinality(Losses(s, a)) + d[a]
  BY <1>0, <1>1, <1>2, <1>6, <1>7, PointNets
<1> QED
  BY <1>0, <1>1, <1>3, <1>5, <1>8, StatementNets

(* A change of status takes the credential out of one status and into another, and
   its live signatures with it when it becomes ACTIVE or ceases to be. *)
LEMMA SetStatusStep ==
  ASSUME CountsInv, NEW s \in Sessions, NEW t \in Tokens, NEW new \in Statuses, SetStatus(s, t, new)
  PROVE  CountsInv'
<1> DEFINE old == StatusSeen(s, t)
           d == StatusChange(s, t, old, new)
<1>0. /\ Structure /\ CountsTypeOK /\ RowsSound(s)
      /\ UNCHANGED <<status, live, ended>>
      /\ \A x \in Sessions \ {s} : RowsApart(s, x)
      /\ Statement(s) /\ Appended(s, d)
  BY Before DEF SetStatus
<1>1. d \in [Items -> Int]
  BY DEF StatusChange, Bit
<1>2. /\ \A k \in Statuses : d[k] = Bit(k = new) - Bit(k = old)
      /\ \A a \in Algorithms : d[a] = Bit(<<t, a>> \in LiveSeen(s))
                                        * (Bit(new = "ACTIVE") - Bit(old = "ACTIVE"))
  BY CountsAssumption DEF StatusChange, Items
<1> HIDE DEF d
<1>3. /\ draft'[s][t] = new /\ \A u \in Tokens \ {t} : draft'[s][u] = draft[s][u]
      /\ draft' \in [Sessions -> [Tokens -> Statuses \cup {"KEPT"}]]
      /\ \A x \in Sessions \ {s} : draft'[x] = draft[x] /\ draft[x][t] = "KEPT"
      /\ added' = added /\ retired' = retired
  BY <1>0 DEF SetStatus, RowFree, CountsTypeOK
<1>4. OthersRows(s)
  BY <1>3 DEF OthersRows
<1>5. RowsSound(s)' /\ \A x \in Sessions \ {s} : RowsApart(s, x)'
  BY <1>0, <1>3 DEF RowsSound, RowsApart
<1>6. Structure'
  BY <1>0, <1>1, <1>3, <1>4, <1>5, StatementStructure DEF CountsTypeOK
<1>7. new # "KEPT"
  BY DEF Statuses
<1>8. ASSUME NEW k \in Statuses
      PROVE  Bit(t \in Into(s, k)') - Bit(t \in OutOf(s, k)')
               = Bit(t \in Into(s, k)) - Bit(t \in OutOf(s, k)) + d[k]
  <2>1. /\ t \in Into(s, k)' <=> k = new
        /\ t \in OutOf(s, k)' <=> status[t] = k
        /\ t \in Into(s, k) <=> draft[s][t] = k
        /\ t \in OutOf(s, k) <=> draft[s][t] # "KEPT" /\ status[t] = k
    BY <1>0, <1>3, <1>7 DEF Into, OutOf
  <2>2. k # "KEPT"
    BY DEF Statuses
  <2>3. CASE draft[s][t] = "KEPT"
    BY <1>2, <2>1, <2>2, <2>3 DEF StatusSeen, Bit
  <2>4. CASE draft[s][t] # "KEPT"
    BY <1>2, <2>1, <2>4 DEF StatusSeen, Bit
  <2> QED
    BY <2>3, <2>4
<1>9. ASSUME NEW a \in Algorithms
      PROVE  Bit(t \in Gains(s, a)') - Bit(t \in Losses(s, a)')
               = Bit(t \in Gains(s, a)) - Bit(t \in Losses(s, a)) + d[a]
  <2>1. /\ t \in Touched(s, a)'
        /\ StatusSeen(s, t)' = new /\ LiveSeen(s)' = LiveSeen(s)
    BY <1>0, <1>3, <1>7 DEF Touched, StatusSeen, LiveSeen
  <2>2. /\ t \in Gains(s, a)' <=> new = "ACTIVE" /\ <<t, a>> \in LiveSeen(s)
        /\ t \in Losses(s, a)' <=> status[t] = "ACTIVE" /\ <<t, a>> \in live
    BY <1>0, <2>1 DEF Gains, Losses
  <2>3. CASE t \in Touched(s, a)
    <3>1. /\ t \in Gains(s, a) <=> old = "ACTIVE" /\ <<t, a>> \in LiveSeen(s)
          /\ t \in Losses(s, a) <=> status[t] = "ACTIVE" /\ <<t, a>> \in live
      BY <2>3 DEF Gains, Losses
    <3> HIDE DEF old
    <3> QED
      BY <1>2, <2>2, <3>1 DEF Bit
  <2>4. CASE t \notin Touched(s, a)
    <3>1. t \notin Gains(s, a) /\ t \notin Losses(s, a)
      BY <2>4 DEF Gains, Losses
    <3>2. old = status[t] /\ (<<t, a>> \in LiveSeen(s) <=> <<t, a>> \in live)
      BY <2>4 DEF Touched, StatusSeen, LiveSeen
    <3> HIDE DEF old
    <3> QED
      BY <1>2, <2>2, <3>1, <3>2 DEF Bit
  <2> QED
    BY <2>3, <2>4
<1>10. /\ \A k \in Statuses : Cardinality(Into(s, k)') - Cardinality(OutOf(s, k)')
                                  = Cardinality(Into(s, k)) - Cardinality(OutOf(s, k)) + d[k]
       /\ \A a \in Algorithms : Cardinality(Gains(s, a)') - Cardinality(Losses(s, a)')
                                  = Cardinality(Gains(s, a)) - Cardinality(Losses(s, a)) + d[a]
  BY <1>0, <1>1, <1>3, <1>8, <1>9, PointNets
<1> QED
  BY <1>0, <1>1, <1>4, <1>6, <1>10, StatementNets

(* Session s writes one row of TokenSignature: an insert (n = 1) or a deprecation (n = -1). *)
WritesSignature(s, t, b, n) ==
  /\ Statement(s) /\ Appended(s, SignatureChange(s, t, b, n))
  /\ draft' = draft
  /\ added' \in [Sessions -> SUBSET Signatures] /\ retired' \in [Sessions -> SUBSET Signatures]
  /\ \A x \in Sessions \ {s} : added'[x] = added[x] /\ retired'[x] = retired[x]
  /\ \A u \in Tokens, a \in Algorithms : <<u, a>> # <<t, b>> =>
        /\ <<u, a>> \in added'[s] <=> <<u, a>> \in added[s]
        /\ <<u, a>> \in retired'[s] <=> <<u, a>> \in retired[s]
  /\ <<t, b>> \in added'[s] \cup retired'[s]
  /\ n = 1 => <<t, b>> \notin LiveSeen(s) /\ <<t, b>> \in LiveSeen(s)' /\ <<t, b>> \notin live
  /\ n = -1 => <<t, b>> \in LiveSeen(s) /\ <<t, b>> \notin LiveSeen(s)'
  /\ RowsSound(s)' /\ \A x \in Sessions \ {s} : RowsApart(s, x)'

(* A signature that is inserted or deprecated changes no status, and counts for its
   own algorithm while its credential is seen ACTIVE. *)
LEMMA SignatureNetsStep ==
  ASSUME CountsInv, NEW s \in Sessions, NEW t \in Tokens, NEW b \in Algorithms, NEW n \in {1, -1},
         WritesSignature(s, t, b, n)
  PROVE  CountsInv'
<1> DEFINE d == SignatureChange(s, t, b, n)
<1> USE DEF WritesSignature
<1>0. Structure /\ CountsTypeOK /\ UNCHANGED <<status, live, ended>>
  BY Before
<1>1. d \in [Items -> Int]
  BY DEF SignatureChange, Bit
<1>2. /\ \A k \in Statuses : d[k] = 0
      /\ \A a \in Algorithms : d[a] = n * Bit(a = b /\ StatusSeen(s, t) = "ACTIVE")
  BY CountsAssumption DEF SignatureChange, Items, Bit
<1>3. Appended(s, d)
  OBVIOUS
<1> HIDE DEF d
<1>4. OthersRows(s)
  BY DEF OthersRows
<1>5. Structure'
  BY <1>0, <1>1, <1>3, <1>4, StatementStructure DEF CountsTypeOK
<1>6. ASSUME NEW k \in Statuses
      PROVE  Bit(t \in Into(s, k)') - Bit(t \in OutOf(s, k)')
               = Bit(t \in Into(s, k)) - Bit(t \in OutOf(s, k)) + d[k]
  <2>1. (t \in Into(s, k)' <=> t \in Into(s, k)) /\ (t \in OutOf(s, k)' <=> t \in OutOf(s, k))
    BY <1>0 DEF Into, OutOf
  <2> QED
    BY <1>2, <2>1 DEF Bit
<1>7. ASSUME NEW a \in Algorithms
      PROVE  Bit(t \in Gains(s, a)') - Bit(t \in Losses(s, a)')
               = Bit(t \in Gains(s, a)) - Bit(t \in Losses(s, a)) + d[a]
  <2>1. StatusSeen(s, t)' = StatusSeen(s, t)
    BY <1>0 DEF StatusSeen
  <2>2. CASE a # b
    <3>1. /\ t \in Touched(s, a)' <=> t \in Touched(s, a)
          /\ <<t, a>> \in LiveSeen(s)' <=> <<t, a>> \in LiveSeen(s)
      BY <1>0, <2>2 DEF Touched, LiveSeen
    <3>2. (t \in Gains(s, a)' <=> t \in Gains(s, a)) /\ (t \in Losses(s, a)' <=> t \in Losses(s, a))
      BY <1>0, <2>1, <3>1 DEF Gains, Losses
    <3> QED
      BY <1>2, <2>2, <3>2 DEF Bit
  <2>3. CASE a = b
    <3>1. t \in Touched(s, a)'
      BY <2>3 DEF Touched
    <3>2. /\ t \in Gains(s, a)' <=> StatusSeen(s, t) = "ACTIVE" /\ <<t, a>> \in LiveSeen(s)'
          /\ t \in Losses(s, a)' <=> status[t] = "ACTIVE" /\ <<t, a>> \in live
      BY <1>0, <2>1, <3>1 DEF Gains, Losses
    <3>3. d[a] = n * Bit(StatusSeen(s, t) = "ACTIVE")
      BY <1>2, <2>3
    <3>4. CASE t \in Touched(s, a)
      <4>1. /\ t \in Gains(s, a) <=> StatusSeen(s, t) = "ACTIVE" /\ <<t, a>> \in LiveSeen(s)
            /\ t \in Losses(s, a) <=> status[t] = "ACTIVE" /\ <<t, a>> \in live
        BY <3>4 DEF Gains, Losses
      <4> QED
        BY <2>3, <3>2, <3>3, <4>1 DEF Bit
    <3>5. CASE t \notin Touched(s, a)
      <4>1. t \notin Gains(s, a) /\ t \notin Losses(s, a)
        BY <3>5 DEF Gains, Losses
      <4>2. StatusSeen(s, t) = status[t] /\ (<<t, a>> \in LiveSeen(s) <=> <<t, a>> \in live)
        BY <3>5 DEF Touched, StatusSeen, LiveSeen
      <4> QED
        BY <2>3, <3>2, <3>3, <4>1, <4>2 DEF Bit
    <3> QED
      BY <3>4, <3>5
  <2> QED
    BY <2>2, <2>3
<1>8. \A u \in Tokens \ {t} :
           /\ draft'[s][u] = draft[s][u]
           /\ \A a \in Algorithms : /\ <<u, a>> \in added'[s] <=> <<u, a>> \in added[s]
                                    /\ <<u, a>> \in retired'[s] <=> <<u, a>> \in retired[s]
  OBVIOUS
<1>9. /\ \A k \in Statuses : Cardinality(Into(s, k)') - Cardinality(OutOf(s, k)')
                                  = Cardinality(Into(s, k)) - Cardinality(OutOf(s, k)) + d[k]
      /\ \A a \in Algorithms : Cardinality(Gains(s, a)') - Cardinality(Losses(s, a)')
                                  = Cardinality(Gains(s, a)) - Cardinality(Losses(s, a)) + d[a]
  BY <1>0, <1>1, <1>6, <1>7, <1>8, PointNets
<1> QED
  BY <1>1, <1>3, <1>4, <1>5, <1>9, StatementNets

(* An insert writes a row that is in no table and in no open transaction. *)
LEMMA AddSignatureStep ==
  ASSUME CountsInv, NEW s \in Sessions, NEW t \in Tokens, NEW b \in Algorithms,
         AddSignature(s, t, b)
  PROVE  CountsInv'
<1>0. /\ Structure /\ CountsTypeOK /\ RowsSound(s)
      /\ UNCHANGED <<status, live, ended>>
      /\ \A x \in Sessions \ {s} : RowsApart(s, x)
      /\ Statement(s) /\ Appended(s, SignatureChange(s, t, b, 1))
  BY Before DEF AddSignature
<1> <<t, b>> \in Signatures
  BY DEF Signatures
<1>1. /\ draft' = draft /\ retired' = retired /\ added'[s] = added[s] \cup {<<t, b>>}
      /\ added' \in [Sessions -> SUBSET Signatures]
      /\ \A x \in Sessions \ {s} : added'[x] = added[x]
      /\ <<t, b>> \notin live \cup ended /\ \A x \in Sessions : <<t, b>> \notin added[x]
  <2>1. /\ draft' = draft /\ retired' = retired
        /\ added' = [added EXCEPT ![s] = @ \cup {<<t, b>>}]
        /\ <<t, b>> \notin live \cup ended /\ \A x \in Sessions : <<t, b>> \notin added[x]
    BY DEF AddSignature
  <2> QED
    BY <1>0, <2>1 DEF CountsTypeOK
<1>2. RowsSound(s)' /\ \A x \in Sessions \ {s} : RowsApart(s, x)'
  BY <1>0, <1>1 DEF RowsSound, RowsApart
<1>3. <<t, b>> \notin LiveSeen(s) /\ <<t, b>> \in LiveSeen(s)' /\ <<t, b>> \notin live
  BY <1>0, <1>1 DEF LiveSeen, RowsSound
<1>4. retired' \in [Sessions -> SUBSET Signatures]
  BY <1>0, <1>1 DEF CountsTypeOK
<1>5. \A u \in Tokens, a \in Algorithms : <<u, a>> # <<t, b>> =>
        /\ <<u, a>> \in added'[s] <=> <<u, a>> \in added[s]
        /\ <<u, a>> \in retired'[s] <=> <<u, a>> \in retired[s]
  BY <1>1
<1>6. /\ \A x \in Sessions \ {s} : added'[x] = added[x] /\ retired'[x] = retired[x]
      /\ <<t, b>> \in added'[s] \cup retired'[s]
  BY <1>1
<1>7. PICK n \in {1, -1} : n = 1
  OBVIOUS
<1>8. Statement(s) /\ Appended(s, SignatureChange(s, t, b, n))
  BY <1>0, <1>7
<1>9. /\ n = 1 => <<t, b>> \notin LiveSeen(s) /\ <<t, b>> \in LiveSeen(s)' /\ <<t, b>> \notin live
      /\ n = -1 => <<t, b>> \in LiveSeen(s) /\ <<t, b>> \notin LiveSeen(s)'
  BY <1>1, <1>3, <1>7
<1>10. draft' = draft /\ added' \in [Sessions -> SUBSET Signatures]
       /\ retired' \in [Sessions -> SUBSET Signatures]
  BY <1>1, <1>4
<1>11. WritesSignature(s, t, b, n)
  BY <1>2, <1>5, <1>6, <1>8, <1>9, <1>10 DEF WritesSignature
<1> QED
  BY <1>11, SignatureNetsStep

(* A deprecation takes a row the transaction sees, which no other one has retired. *)
LEMMA DeprecateStep ==
  ASSUME CountsInv, NEW s \in Sessions, NEW t \in Tokens, NEW b \in Algorithms,
         Deprecate(s, t, b)
  PROVE  CountsInv'
<1>0. /\ Structure /\ CountsTypeOK /\ RowsSound(s)
      /\ UNCHANGED <<status, live, ended>>
      /\ \A x \in Sessions \ {s} : RowsApart(s, x)
      /\ Statement(s) /\ Appended(s, SignatureChange(s, t, b, -1))
  BY Before DEF Deprecate
<1> <<t, b>> \in Signatures
  BY DEF Signatures
<1>1. /\ draft' = draft /\ added' = added /\ retired'[s] = retired[s] \cup {<<t, b>>}
      /\ retired' \in [Sessions -> SUBSET Signatures]
      /\ \A x \in Sessions \ {s} : retired'[x] = retired[x] /\ <<t, b>> \notin retired[x]
      /\ <<t, b>> \in LiveSeen(s)
  <2>1. /\ draft' = draft /\ added' = added
        /\ retired' = [retired EXCEPT ![s] = @ \cup {<<t, b>>}]
        /\ \A x \in Sessions \ {s} : <<t, b>> \notin retired[x]
        /\ <<t, b>> \in LiveSeen(s)
    BY DEF Deprecate
  <2> QED
    BY <1>0, <2>1 DEF CountsTypeOK
<1>2. RowsSound(s)' /\ \A x \in Sessions \ {s} : RowsApart(s, x)'
  BY <1>0, <1>1 DEF RowsSound, RowsApart, LiveSeen
<1>3. <<t, b>> \notin LiveSeen(s)'
  BY <1>1 DEF LiveSeen
<1>4. added' \in [Sessions -> SUBSET Signatures]
  BY <1>0, <1>1 DEF CountsTypeOK
<1>5. \A u \in Tokens, a \in Algorithms : <<u, a>> # <<t, b>> =>
        /\ <<u, a>> \in added'[s] <=> <<u, a>> \in added[s]
        /\ <<u, a>> \in retired'[s] <=> <<u, a>> \in retired[s]
  BY <1>1
<1>6. /\ \A x \in Sessions \ {s} : added'[x] = added[x] /\ retired'[x] = retired[x]
      /\ <<t, b>> \in added'[s] \cup retired'[s]
  BY <1>1
<1>7. PICK n \in {1, -1} : n = -1
  OBVIOUS
<1>8. Statement(s) /\ Appended(s, SignatureChange(s, t, b, n))
  BY <1>0, <1>7
<1>9. /\ n = 1 => <<t, b>> \notin LiveSeen(s) /\ <<t, b>> \in LiveSeen(s)' /\ <<t, b>> \notin live
      /\ n = -1 => <<t, b>> \in LiveSeen(s) /\ <<t, b>> \notin LiveSeen(s)'
  BY <1>1, <1>3, <1>7
<1>10. draft' = draft /\ added' \in [Sessions -> SUBSET Signatures]
       /\ retired' \in [Sessions -> SUBSET Signatures]
  BY <1>1, <1>4
<1>11. WritesSignature(s, t, b, n)
  BY <1>2, <1>5, <1>6, <1>8, <1>9, <1>10 DEF WritesSignature
<1> QED
  BY <1>11, SignatureNetsStep

-----------------------------------------------------------------------------
(* The end of a transaction *)

(* What Release leaves: nothing of its own, and everything of the others. *)
LEMMA Released ==
  ASSUME NEW s \in Sessions, Structure, Release(s)
  PROVE  /\ draft'[s] = [t \in Tokens |-> "KEPT"] /\ added'[s] = {} /\ retired'[s] = {}
         /\ pending'[s] = Zero /\ moved'[s] = Zero /\ taken'[s] = Zero /\ statements'[s] = 0
         /\ \A x \in Sessions \ {s} :
              /\ draft'[x] = draft[x] /\ added'[x] = added[x] /\ retired'[x] = retired[x]
              /\ pending'[x] = pending[x] /\ moved'[x] = moved[x] /\ taken'[x] = taken[x]
              /\ statements'[x] = statements[x]
         /\ draft' \in [Sessions -> [Tokens -> Statuses \cup {"KEPT"}]]
         /\ added' \in [Sessions -> SUBSET Signatures] /\ retired' \in [Sessions -> SUBSET Signatures]
         /\ pending' \in [Sessions -> [Items -> Int]]
         /\ moved' \in [Sessions -> [Items -> Int]] /\ taken' \in [Sessions -> [Items -> Int]]
         /\ statements' \in [Sessions -> 0..MaxStatements]
         /\ foldLock' \in Sessions \cup {Recounter, Nobody}
         /\ \A x \in Sessions : (moved'[x] # Zero \/ taken'[x] # Zero) => foldLock' = x
         /\ recount' = recount /\ cleared' = cleared /\ overlapped' = overlapped
<1>1. CountsTypeOK
  BY DEF Structure
<1>2. /\ draft'[s] = [t \in Tokens |-> "KEPT"] /\ added'[s] = {} /\ retired'[s] = {}
      /\ pending'[s] = Zero /\ moved'[s] = Zero /\ taken'[s] = Zero /\ statements'[s] = 0
  BY <1>1 DEF Release, CountsTypeOK
<1>3. \A x \in Sessions \ {s} :
        /\ draft'[x] = draft[x] /\ added'[x] = added[x] /\ retired'[x] = retired[x]
        /\ pending'[x] = pending[x] /\ moved'[x] = moved[x] /\ taken'[x] = taken[x]
        /\ statements'[x] = statements[x]
  BY <1>1 DEF Release, CountsTypeOK
<1>4. /\ draft' \in [Sessions -> [Tokens -> Statuses \cup {"KEPT"}]]
      /\ added' \in [Sessions -> SUBSET Signatures] /\ retired' \in [Sessions -> SUBSET Signatures]
  BY <1>1 DEF Release, CountsTypeOK
<1>5. /\ pending' \in [Sessions -> [Items -> Int]]
      /\ moved' \in [Sessions -> [Items -> Int]] /\ taken' \in [Sessions -> [Items -> Int]]
      /\ statements' \in [Sessions -> 0..MaxStatements]
  BY <1>1, ZeroSum, CountsAssumption DEF Release, CountsTypeOK
<1>6. foldLock' = (IF foldLock = s THEN Nobody ELSE foldLock)
      /\ recount' = recount /\ cleared' = cleared /\ overlapped' = overlapped
  BY DEF Release, rebuilding
<1>7. \A x \in Sessions : (moved'[x] # Zero \/ taken'[x] # Zero) => foldLock' = x
  BY <1>1, <1>2, <1>3, <1>6 DEF CountsTypeOK
<1> QED
  BY <1>1, <1>2, <1>3, <1>4, <1>5, <1>6, <1>7 DEF CountsTypeOK

(* A session that has written nothing adds nothing to any count. *)
LEMMA RestingNets ==
  ASSUME NEW s \in Sessions,
         draft'[s] = [t \in Tokens |-> "KEPT"], added'[s] = {}, retired'[s] = {},
         pending'[s] = Zero, moved'[s] = Zero, taken'[s] = Zero
  PROVE  /\ \A k \in Statuses : Net(s, k)' = Cardinality(Into(s, k)') - Cardinality(OutOf(s, k)')
         /\ \A a \in Algorithms : Net(s, a)' = Cardinality(Gains(s, a)') - Cardinality(Losses(s, a)')
<1>1. \A k \in Items : Net(s, k)' = 0
  BY ZeroSum DEF Net
<1>2. Cardinality({}) = 0 /\ Statuses \subseteq Items /\ Algorithms \subseteq Items
  BY FS_EmptySet DEF Items
<1>3. ASSUME NEW k \in Statuses
      PROVE  Net(s, k)' = Cardinality(Into(s, k)') - Cardinality(OutOf(s, k)')
  <2>1. Into(s, k)' = {} /\ OutOf(s, k)' = {}
    BY DEF Into, OutOf, Statuses
  <2>2. Cardinality(Into(s, k)') = 0 /\ Cardinality(OutOf(s, k)') = 0
    BY <1>2, <2>1
  <2> QED
    BY <1>1, <1>2, <2>2
<1>4. ASSUME NEW a \in Algorithms
      PROVE  Net(s, a)' = Cardinality(Gains(s, a)') - Cardinality(Losses(s, a)')
  <2>1. Gains(s, a)' = {} /\ Losses(s, a)' = {}
    BY DEF Gains, Losses, Touched
  <2>2. Cardinality(Gains(s, a)') = 0 /\ Cardinality(Losses(s, a)') = 0
    BY <1>2, <2>1
  <2> QED
    BY <1>1, <1>2, <2>2
<1> QED
  BY <1>3, <1>4

(* Nor does it overlap with any other. *)
LEMMA OverlapsShrink ==
  ASSUME NEW s \in Sessions, draft'[s] = [t \in Tokens |-> "KEPT"], added'[s] = {}, retired'[s] = {},
         \A x \in Sessions \ {s} :
           /\ draft'[x] = draft[x] /\ added'[x] = added[x] /\ retired'[x] = retired[x]
           /\ \A t \in Tokens : draft[x][t] # "KEPT" => status'[t] = status[t]
  PROVE  Overlapping(draft, added, retired)' \subseteq Overlapping(draft, added, retired)
<1> SUFFICES ASSUME NEW t \in Tokens, NEW x \in Sessions, NEW y \in Sessions, x # y,
                    draft'[x][t] # "KEPT", "ACTIVE" \in {status'[t], draft'[x][t]},
                    NEW a \in Algorithms, <<t, a>> \in added'[y] \cup retired'[y]
             PROVE  t \in Overlapping(draft, added, retired)
  BY DEF Overlapping
<1>1. x # s /\ y # s
  OBVIOUS
<1>2. /\ draft'[x] = draft[x] /\ status'[t] = status[t]
      /\ added'[y] = added[y] /\ retired'[y] = retired[y]
  BY <1>1
<1> QED
  BY <1>2 DEF Overlapping

(* A rollback takes nothing from the tables. *)
LEMMA RollbackStep ==
  ASSUME CountsInv, NEW s \in Sessions, Rollback(s)
  PROVE  CountsInv'
<1>0. Structure /\ CountsTypeOK /\ UNCHANGED <<status, live, ended, total, delta>> /\ Release(s)
  BY DEF CountsInv, Structure, Rollback, store, counts
<1>1. /\ draft'[s] = [t \in Tokens |-> "KEPT"] /\ added'[s] = {} /\ retired'[s] = {}
      /\ pending'[s] = Zero /\ moved'[s] = Zero /\ taken'[s] = Zero /\ statements'[s] = 0
      /\ recount' = recount /\ cleared' = cleared /\ overlapped' = overlapped
  BY <1>0, Released
<1>2. \A x \in Sessions \ {s} :
        /\ draft'[x] = draft[x] /\ added'[x] = added[x] /\ retired'[x] = retired[x]
        /\ pending'[x] = pending[x] /\ moved'[x] = moved[x] /\ taken'[x] = taken[x]
        /\ statements'[x] = statements[x]
  BY <1>0, Released
<1>3. CountsTypeOK'
  BY <1>0, Released DEF CountsTypeOK
<1>4. ASSUME NEW x \in Sessions
      PROVE  Closed(x)' /\ RowsSound(x)'
  <2>1. CASE x = s
    BY <1>1, <2>1 DEF Closed, RowsSound
  <2>2. CASE x # s
    BY <1>0, <1>2, <2>2 DEF Closed, RowsSound, Structure
  <2> QED
    BY <2>1, <2>2
<1>5. ASSUME NEW x \in Sessions, NEW y \in Sessions, x # y
      PROVE  RowsApart(x, y)'
  <2>1. CASE x = s \/ y = s
    BY <1>1, <2>1 DEF RowsApart
  <2>2. CASE x # s /\ y # s
    BY <1>0, <1>2, <1>5, <2>2 DEF RowsApart, Structure
  <2> QED
    BY <2>1, <2>2
<1>6. Recounting'
  BY <1>0, <1>1, <1>2 DEF Recounting, Structure
<1>7. FoldsAdmitted'
  <2>1. ASSUME NEW x \in Sessions, NEW k \in Items
        PROVE  total[k] + moved'[x][k] >= 0
    <3>1. CASE x = s
      BY <1>0, <1>1, <3>1, ZeroSum DEF CountsTypeOK
    <3>2. CASE x # s
      BY <1>0, <1>2, <3>2 DEF FoldsAdmitted, Structure
    <3> QED
      BY <3>1, <3>2
  <2> QED
    BY <1>0, <2>1 DEF FoldsAdmitted
<1>8. Structure'
  BY <1>3, <1>4, <1>5, <1>6, <1>7 DEF Structure
<1>9. Overlapping(draft, added, retired)' \subseteq Overlapping(draft, added, retired)
  BY <1>0, <1>1, <1>2, OverlapsShrink
<1>10. ASSUME NEW x \in Sessions, x # s
       PROVE  /\ \A k : Net(x, k)' = Net(x, k) /\ Into(x, k)' = Into(x, k) /\ OutOf(x, k)' = OutOf(x, k)
              /\ \A a : Gains(x, a)' = Gains(x, a) /\ Losses(x, a)' = Losses(x, a)
  BY <1>0, <1>2, <1>10 DEF Net, Into, OutOf, Gains, Losses, Touched, StatusSeen, LiveSeen
<1>11. /\ \A k \in Statuses : Net(s, k)' = Cardinality(Into(s, k)') - Cardinality(OutOf(s, k)')
       /\ \A a \in Algorithms : Net(s, a)' = Cardinality(Gains(s, a)') - Cardinality(Losses(s, a)')
  BY <1>1, RestingNets
<1>12. StatusNets'
  BY <1>10, <1>11 DEF StatusNets, CountsInv
<1>13. SignatureNets'
  BY <1>1, <1>10, <1>11 DEF SignatureNets, CountsInv
<1>14. StatusCountsExact' /\ SignatureCountsExact'
  <2>1. Counted' = Counted /\ FullCount' = FullCount
    BY <1>0 DEF Counted, FullCount
  <2> QED
    BY <1>1, <2>1 DEF CountsInv, StatusCountsExact, SignatureCountsExact
<1>15. OverlapsRecorded'
  BY <1>1, <1>9 DEF OverlapsRecorded, CountsInv
<1> QED
  BY <1>8, <1>12, <1>13, <1>14, <1>15 DEF CountsInv

(* What a commit does to the tables and to the sums. *)
LEMMA Committed ==
  ASSUME NEW s \in Sessions, Structure, Commit(s)
  PROVE  /\ status' = [t \in Tokens |-> StatusSeen(s, t)] /\ live' = LiveSeen(s)
         /\ ended' = ended \cup retired[s]
         /\ total' \in [Items -> Nat] /\ delta' \in [Items -> Int]
         /\ \A k \in Items : /\ total'[k] = total[k] + moved[s][k]
                             /\ delta'[k] = delta[k] - taken[s][k] + pending[s][k]
         /\ recount # "counting"
<1>0. CountsTypeOK /\ FoldsAdmitted /\ Recounting
      /\ pending[s] \in [Items -> Int] /\ moved[s] \in [Items -> Int] /\ taken[s] \in [Items -> Int]
      /\ delta \in [Items -> Int] /\ total \in [Items -> Nat] /\ total \in [Items -> Int]
  BY DEF Structure, CountsTypeOK
<1>1. /\ statements[s] > 0
      /\ status' = [t \in Tokens |-> StatusSeen(s, t)] /\ live' = LiveSeen(s)
      /\ ended' = ended \cup retired[s]
      /\ total' = Plus(total, moved[s])
      /\ delta' = Plus(Minus(delta, taken[s]), pending[s])
  BY DEF Commit
<1>2. recount # "counting"
  BY <1>0, <1>1 DEF Recounting
<1>3. total' \in [Items -> Int] /\ \A k \in Items : total'[k] = total[k] + moved[s][k]
  BY <1>0, <1>1, Sums
<1>4. \A k \in Items : total'[k] >= 0
  BY <1>0, <1>3 DEF FoldsAdmitted
<1>5. total' \in [Items -> Nat]
  BY <1>3, <1>4
<1>6. /\ Minus(delta, taken[s]) \in [Items -> Int]
      /\ \A k \in Items : Minus(delta, taken[s])[k] = delta[k] - taken[s][k]
  BY <1>0, Sums
<1>7. /\ delta' \in [Items -> Int]
      /\ \A k \in Items : delta'[k] = Minus(delta, taken[s])[k] + pending[s][k]
  BY <1>0, <1>1, <1>6, Sums
<1> QED
  BY <1>1, <1>2, <1>3, <1>5, <1>6, <1>7

(* The rest stays sound: no two open transactions have written the same rows. *)
LEMMA CommitStructure ==
  ASSUME NEW s \in Sessions, Structure, Commit(s)
  PROVE  Structure'
<1>0. CountsTypeOK /\ FoldsAdmitted /\ RowsSound(s)
      /\ \A x \in Sessions \ {s} : RowsApart(s, x) /\ RowsSound(x) /\ Closed(x)
  BY DEF Structure
<1>1. /\ status' = [t \in Tokens |-> StatusSeen(s, t)] /\ live' = LiveSeen(s)
      /\ ended' = ended \cup retired[s]
      /\ total' \in [Items -> Nat] /\ delta' \in [Items -> Int]
      /\ \A k \in Items : total'[k] = total[k] + moved[s][k]
      /\ recount # "counting"
  BY Committed
<1>2. Release(s)
  BY DEF Commit
<1>3. /\ draft'[s] = [t \in Tokens |-> "KEPT"] /\ added'[s] = {} /\ retired'[s] = {}
      /\ pending'[s] = Zero /\ moved'[s] = Zero /\ taken'[s] = Zero /\ statements'[s] = 0
      /\ recount' = recount /\ cleared' = cleared /\ overlapped' = overlapped
  BY <1>2, Released
<1>4. \A x \in Sessions \ {s} :
        /\ draft'[x] = draft[x] /\ added'[x] = added[x] /\ retired'[x] = retired[x]
        /\ pending'[x] = pending[x] /\ moved'[x] = moved[x] /\ taken'[x] = taken[x]
        /\ statements'[x] = statements[x]
  BY <1>2, Released
<1>5. CountsTypeOK'
  <2>1. status' \in [Tokens -> Statuses \cup {"NONE"}]
    BY <1>0, <1>1 DEF StatusSeen, CountsTypeOK
  <2>2. live' \subseteq Signatures /\ ended' \subseteq Signatures /\ live' \cap ended' = {}
    BY <1>0, <1>1 DEF LiveSeen, CountsTypeOK, RowsSound
  <2> QED
    BY <1>0, <1>1, <1>2, <1>3, <2>1, <2>2, Released DEF CountsTypeOK
<1>6. ASSUME NEW x \in Sessions
      PROVE  Closed(x)' /\ RowsSound(x)'
  <2>1. CASE x = s
    BY <1>3, <2>1 DEF Closed, RowsSound
  <2>2. CASE x # s
    <3>1. Closed(x)'
      BY <1>0, <1>4, <2>2 DEF Closed
    <3>2. RowsSound(x) /\ RowsApart(s, x)
      BY <1>0, <2>2
    <3>3. added'[x] = added[x] /\ retired'[x] = retired[x]
      BY <1>4, <2>2
    <3>4. RowsSound(x)'
      BY <1>0, <1>1, <3>2, <3>3 DEF RowsSound, RowsApart, LiveSeen
    <3> QED
      BY <3>1, <3>4
  <2> QED
    BY <2>1, <2>2
<1>7. ASSUME NEW x \in Sessions, NEW y \in Sessions, x # y
      PROVE  RowsApart(x, y)'
  <2>1. CASE x = s \/ y = s
    BY <1>3, <2>1 DEF RowsApart
  <2>2. CASE x # s /\ y # s
    BY <1>4, <1>7, <2>2 DEF RowsApart, Structure
  <2> QED
    BY <2>1, <2>2
<1>8. ASSUME NEW x \in Sessions, NEW k \in Items
      PROVE  total'[k] + moved'[x][k] >= 0
  <2>0. total'[k] \in Nat
    BY <1>1
  <2>1. CASE moved'[x] = Zero
    BY <2>0, <2>1, ZeroSum
  <2>2. CASE moved'[x] # Zero
    <3>1. x # s /\ moved'[x] = moved[x]
      BY <1>3, <1>4, <2>2
    <3>2. foldLock = x
      BY <1>0, <2>2, <3>1 DEF CountsTypeOK
    <3>3. moved[s] = Zero
      BY <1>0, <3>1, <3>2 DEF CountsTypeOK
    <3>4. total'[k] = total[k]
      BY <1>0, <1>1, <3>3, ZeroSum DEF CountsTypeOK
    <3> QED
      BY <1>0, <3>1, <3>4 DEF FoldsAdmitted
  <2> QED
    BY <2>1, <2>2
<1>9. FoldsAdmitted'
  BY <1>8 DEF FoldsAdmitted
<1>10. Recounting'
  BY <1>1, <1>3 DEF Recounting
<1> QED
  BY <1>5, <1>6, <1>7, <1>9, <1>10 DEF Structure

(* The part that other open transactions have in the counts is theirs alone: the row
   locks keep the status of what they have drafted, and without an overlap a commit
   changes neither the credentials nor the signatures they have touched. *)
LEMMA OthersPart ==
  ASSUME NEW s \in Sessions, NEW x \in Sessions, x # s, Structure, Commit(s)
  PROVE  /\ \A t \in Tokens : draft[x][t] # "KEPT" => status'[t] = status[t]
         /\ \A k : Into(x, k)' = Into(x, k) /\ OutOf(x, k)' = OutOf(x, k)
         /\ Overlapping(draft, added, retired) = {} =>
              \A a \in Algorithms : Gains(x, a)' = Gains(x, a) /\ Losses(x, a)' = Losses(x, a)
<1>0. /\ CountsTypeOK /\ RowsApart(x, s) /\ RowsSound(x) /\ RowsSound(s)
      /\ status' = [t \in Tokens |-> StatusSeen(s, t)] /\ live' = LiveSeen(s)
  BY Committed DEF Structure
<1>1. draft'[x] = draft[x] /\ added'[x] = added[x] /\ retired'[x] = retired[x]
  BY Released DEF Commit
<1>2. \A t \in Tokens : draft[x][t] # "KEPT" => status'[t] = status[t]
  BY <1>0 DEF RowsApart, StatusSeen
<1>3. \A k : Into(x, k)' = Into(x, k) /\ OutOf(x, k)' = OutOf(x, k)
  BY <1>1, <1>2 DEF Into, OutOf
<1>4. ASSUME Overlapping(draft, added, retired) = {}, NEW a \in Algorithms,
             NEW t \in Touched(x, a)
      PROVE  /\ (status'[t] = "ACTIVE" /\ <<t, a>> \in live')
                  <=> (status[t] = "ACTIVE" /\ <<t, a>> \in live)
             /\ (StatusSeen(x, t)' = "ACTIVE" /\ <<t, a>> \in LiveSeen(x)')
                  <=> (StatusSeen(x, t) = "ACTIVE" /\ <<t, a>> \in LiveSeen(x))
  <2>0. t \in Tokens
    BY DEF Touched
  <2>1. CASE draft[x][t] # "KEPT"
    <3>1. status'[t] = status[t] /\ StatusSeen(x, t)' = draft[x][t] /\ StatusSeen(x, t) = draft[x][t]
      BY <1>1, <1>2, <2>0, <2>1 DEF StatusSeen
    <3>2. CASE "ACTIVE" \in {status[t], draft[x][t]}
      <4>1. <<t, a>> \notin added[s] \cup retired[s]
        BY <1>4, <2>0, <2>1, <3>2 DEF Overlapping
      <4>2. <<t, a>> \in live' <=> <<t, a>> \in live
        BY <1>0, <4>1 DEF LiveSeen
      <4>3. <<t, a>> \in LiveSeen(x)' <=> <<t, a>> \in LiveSeen(x)
        BY <1>1, <4>2 DEF LiveSeen
      <4> QED
        BY <3>1, <4>2, <4>3
    <3>3. CASE "ACTIVE" \notin {status[t], draft[x][t]}
      BY <3>1, <3>3
    <3> QED
      BY <3>2, <3>3
  <2>2. CASE draft[x][t] = "KEPT"
    <3>1. <<t, a>> \in added[x] \cup retired[x]
      BY <2>2 DEF Touched
    <3>2. draft[s][t] # "KEPT" => "ACTIVE" \notin {status[t], draft[s][t]}
      BY <1>4, <2>0, <3>1 DEF Overlapping
    <3>3. status'[t] = "ACTIVE" <=> status[t] = "ACTIVE"
      BY <1>0, <2>0, <3>2 DEF StatusSeen
    <3>4. StatusSeen(x, t)' = status'[t] /\ StatusSeen(x, t) = status[t]
      BY <1>1, <2>2 DEF StatusSeen
    <3>5. <<t, a>> \in live' <=> <<t, a>> \in live
      BY <1>0, <3>1 DEF LiveSeen, RowsApart, RowsSound
    <3>6. <<t, a>> \in LiveSeen(x)' <=> <<t, a>> \in LiveSeen(x)
      BY <1>1, <3>5 DEF LiveSeen
    <3> QED
      BY <3>3, <3>4, <3>5, <3>6
  <2> QED
    BY <2>1, <2>2
<1>5. ASSUME Overlapping(draft, added, retired) = {}, NEW a \in Algorithms
      PROVE  Gains(x, a)' = Gains(x, a) /\ Losses(x, a)' = Losses(x, a)
  <2>1. Touched(x, a)' = Touched(x, a)
    BY <1>1 DEF Touched
  <2> QED
    BY <1>4, <1>5, <2>1 DEF Gains, Losses
<1> QED
  BY <1>2, <1>3, <1>5

(* A commit moves the full count by what its own rows change, and so does its net. *)
LEMMA CommitStep ==
  ASSUME CountsInv, NEW s \in Sessions, Commit(s)
  PROVE  CountsInv'
<1>0. Structure /\ CountsTypeOK /\ Release(s)
  BY DEF CountsInv, Structure, Commit
<1>1. /\ status' = [t \in Tokens |-> StatusSeen(s, t)] /\ live' = LiveSeen(s)
      /\ \A k \in Items : /\ total'[k] = total[k] + moved[s][k]
                          /\ delta'[k] = delta[k] - taken[s][k] + pending[s][k]
  BY <1>0, Committed
<1>2. /\ draft'[s] = [t \in Tokens |-> "KEPT"] /\ added'[s] = {} /\ retired'[s] = {}
      /\ pending'[s] = Zero /\ moved'[s] = Zero /\ taken'[s] = Zero
      /\ overlapped' = overlapped
  BY <1>0, Released
<1>3. \A x \in Sessions \ {s} :
        /\ draft'[x] = draft[x] /\ added'[x] = added[x] /\ retired'[x] = retired[x]
        /\ pending'[x] = pending[x] /\ moved'[x] = moved[x] /\ taken'[x] = taken[x]
  BY <1>0, Released
<1>4. Structure'
  BY <1>0, CommitStructure
<1>5. CountsTypeOK'
  BY <1>4 DEF Structure
<1>6. OverlapsRecorded'
  <2>1. \A x \in Sessions \ {s}, t \in Tokens : draft[x][t] # "KEPT" => status'[t] = status[t]
    BY <1>0, OthersPart
  <2>2. Overlapping(draft, added, retired)' \subseteq Overlapping(draft, added, retired)
    BY <1>2, <1>3, <2>1, OverlapsShrink
  <2> QED
    BY <1>2, <2>2 DEF CountsInv, OverlapsRecorded
<1>7. Statuses \subseteq Items /\ Algorithms \subseteq Items
  BY DEF Items
<1>8. /\ \A k \in Statuses : Net(s, k)' = Cardinality(Into(s, k)') - Cardinality(OutOf(s, k)')
      /\ \A a \in Algorithms : Net(s, a)' = Cardinality(Gains(s, a)') - Cardinality(Losses(s, a)')
  BY <1>2, RestingNets
<1>9. \A x \in Sessions \ {s} : \A k : Net(x, k)' = Net(x, k)
  BY <1>3 DEF Net
<1>10. StatusNets'
  <2>1. ASSUME NEW x \in Sessions \ {s}, NEW k \in Statuses
        PROVE  Net(x, k)' = Cardinality(Into(x, k)') - Cardinality(OutOf(x, k)')
    <3>1. Into(x, k)' = Into(x, k) /\ OutOf(x, k)' = OutOf(x, k)
      BY <1>0, OthersPart
    <3>2. Net(x, k) = Cardinality(Into(x, k)) - Cardinality(OutOf(x, k))
      BY DEF CountsInv, StatusNets
    <3> QED
      BY <1>9, <3>1, <3>2
  <2> QED
    BY <1>8, <2>1 DEF StatusNets
<1>11. SignatureNets'
  <2>1. ASSUME overlapped' = {}, NEW x \in Sessions \ {s}, NEW a \in Algorithms
        PROVE  Net(x, a)' = Cardinality(Gains(x, a)') - Cardinality(Losses(x, a)')
    <3>1. overlapped = {} /\ Overlapping(draft, added, retired) = {}
      BY <1>2, <2>1 DEF CountsInv, OverlapsRecorded
    <3>2. Gains(x, a)' = Gains(x, a) /\ Losses(x, a)' = Losses(x, a)
      BY <1>0, <3>1, OthersPart
    <3>3. Net(x, a) = Cardinality(Gains(x, a)) - Cardinality(Losses(x, a))
      BY <3>1 DEF CountsInv, SignatureNets
    <3> QED
      BY <1>9, <3>2, <3>3
  <2> QED
    BY <1>8, <2>1 DEF SignatureNets
<1>12. \A k \in Items : Counted'[k] = Counted[k] + Net(s, k)
  <2>1. ASSUME NEW k \in Items
        PROVE  Counted'[k] = Counted[k] + Net(s, k)
    <3>1. Counted[k] = total[k] + delta[k]
      BY <1>0, CountedSums
    <3>2. Counted'[k] = total'[k] + delta'[k]
      <4>1. total' \in [Items -> Int] /\ delta' \in [Items -> Int]
        BY <1>5 DEF CountsTypeOK
      <4>2. Plus(total', delta')[k] = total'[k] + delta'[k]
        BY <4>1, Sums
      <4> QED
        BY <4>2 DEF Counted
    <3>3. /\ total[k] \in Int /\ delta[k] \in Int /\ moved[s][k] \in Int /\ taken[s][k] \in Int
          /\ pending[s][k] \in Int
      BY <1>0 DEF CountsTypeOK
    <3> QED
      BY <1>1, <3>1, <3>2, <3>3 DEF Net
  <2> QED
    BY <2>1
<1>13. ASSUME NEW k \in Statuses
       PROVE  Counted'[k] = FullCount'[k]
  <2>1. InStatus(k)' = (InStatus(k) \ OutOf(s, k)) \cup Into(s, k)
    <3>1. k # "KEPT"
      BY DEF Statuses
    <3>2. \A t \in Tokens : status'[t] = IF draft[s][t] = "KEPT" THEN status[t] ELSE draft[s][t]
      BY <1>1 DEF StatusSeen
    <3> QED
      BY <3>1, <3>2 DEF InStatus, OutOf, Into
  <2>2. /\ OutOf(s, k) \in SUBSET InStatus(k)
        /\ Into(s, k) \cap (InStatus(k) \ OutOf(s, k)) = {}
    BY DEF InStatus, OutOf, Into, Statuses
  <2>3. /\ Cardinality(InStatus(k)')
             = Cardinality(InStatus(k)) - Cardinality(OutOf(s, k)) + Cardinality(Into(s, k))
        /\ Cardinality(InStatus(k)) \in Nat /\ Cardinality(OutOf(s, k)) \in Nat
        /\ Cardinality(Into(s, k)) \in Nat
    BY <2>1, <2>2, TokenSets, MovedCount
  <2>4. Counted[k] = Cardinality(InStatus(k)) /\ FullCount'[k] = Cardinality(InStatus(k)')
    <3>1. FullCount[k] = Cardinality(InStatus(k))
      BY FullCounts
    <3>2. FullCount'[k] = Cardinality(InStatus(k)')
      BY <1>7 DEF FullCount, InStatus
    <3> QED
      BY <3>1, <3>2 DEF CountsInv, StatusCountsExact
  <2>5. Net(s, k) = Cardinality(Into(s, k)) - Cardinality(OutOf(s, k))
    BY DEF CountsInv, StatusNets
  <2> QED
    BY <1>7, <1>12, <2>3, <2>4, <2>5
<1>14. ASSUME overlapped' = {}, NEW a \in Algorithms
       PROVE  Counted'[a] = FullCount'[a]
  <2>0. overlapped = {}
    BY <1>2, <1>14
  <2>1. Signed(a)' = (Signed(a) \ Losses(s, a)) \cup Gains(s, a)
    <3>1. Signed(a)' = {t \in Tokens : StatusSeen(s, t) = "ACTIVE" /\ <<t, a>> \in LiveSeen(s)}
      BY <1>1 DEF Signed
    <3>2. \A t \in Tokens \ Touched(s, a) :
            StatusSeen(s, t) = status[t] /\ (<<t, a>> \in LiveSeen(s) <=> <<t, a>> \in live)
      BY DEF Touched, StatusSeen, LiveSeen
    <3>3. Touched(s, a) \subseteq Tokens
      BY DEF Touched
    <3>4. ASSUME NEW t \in Tokens
          PROVE  t \in Signed(a)' <=> t \in (Signed(a) \ Losses(s, a)) \cup Gains(s, a)
      BY <3>1, <3>2 DEF Signed, Losses, Gains
    <3>5. Signed(a)' \subseteq Tokens /\ (Signed(a) \ Losses(s, a)) \cup Gains(s, a) \subseteq Tokens
      BY <3>3 DEF Signed, Gains
    <3> QED
      BY <3>4, <3>5
  <2>2. /\ Losses(s, a) \in SUBSET Signed(a)
        /\ Gains(s, a) \cap (Signed(a) \ Losses(s, a)) = {}
    BY DEF Signed, Losses, Gains, Touched
  <2>3. /\ Cardinality(Signed(a)')
             = Cardinality(Signed(a)) - Cardinality(Losses(s, a)) + Cardinality(Gains(s, a))
        /\ Cardinality(Signed(a)) \in Nat /\ Cardinality(Losses(s, a)) \in Nat
        /\ Cardinality(Gains(s, a)) \in Nat
    BY <2>1, <2>2, TokenSets, MovedCount
  <2>4. Counted[a] = Cardinality(Signed(a)) /\ FullCount'[a] = Cardinality(Signed(a)')
    <3>1. FullCount[a] = Cardinality(Signed(a))
      BY FullCounts
    <3>2. FullCount'[a] = Cardinality(Signed(a)')
      BY <1>7, CountsAssumption DEF FullCount, Signed
    <3> QED
      BY <2>0, <3>1, <3>2 DEF CountsInv, SignatureCountsExact
  <2>5. Net(s, a) = Cardinality(Gains(s, a)) - Cardinality(Losses(s, a))
    BY <2>0 DEF CountsInv, SignatureNets
  <2> QED
    BY <1>7, <1>12, <2>3, <2>4, <2>5
<1>15. StatusCountsExact' /\ SignatureCountsExact'
  BY <1>13, <1>14 DEF StatusCountsExact, SignatureCountsExact
<1> QED
  BY <1>4, <1>6, <1>10, <1>11, <1>15 DEF CountsInv

-----------------------------------------------------------------------------
(* uc_rebuild_population_counts *)

(* It takes the folds' lock, so that nothing is being folded ... *)
LEMMA RebuildBeginStep ==
  ASSUME CountsInv, RebuildBegin
  PROVE  CountsInv'
<1>0. Structure /\ CountsTypeOK
  BY DEF CountsInv, Structure
<1>1. /\ UNCHANGED <<status, live, ended, total, delta, draft, added, retired, pending, moved, taken,
                     statements, cleared, overlapped>>
      /\ foldLock = Nobody /\ foldLock' = Recounter /\ recount' = "locking"
  BY DEF RebuildBegin, store, counts, work
<1>2. CountsTypeOK'
  BY <1>0, <1>1, CountsAssumption DEF CountsTypeOK
<1>3. Structure'
  BY <1>0, <1>1, <1>2 DEF Structure, Closed, RowsSound, RowsApart, Recounting, FoldsAdmitted
<1>4. /\ Counted' = Counted /\ FullCount' = FullCount
      /\ \A s, k : Net(s, k)' = Net(s, k) /\ Into(s, k)' = Into(s, k) /\ OutOf(s, k)' = OutOf(s, k)
      /\ \A s, a : Gains(s, a)' = Gains(s, a) /\ Losses(s, a)' = Losses(s, a)
      /\ Overlapping(draft, added, retired)' = Overlapping(draft, added, retired)
  BY <1>1 DEF Counted, FullCount, Net, Into, OutOf, Gains, Losses, Touched, StatusSeen, LiveSeen,
       Overlapping
<1> QED
  BY <1>1, <1>3, <1>4 DEF CountsInv, OverlapsRecorded, StatusNets, SignatureNets, StatusCountsExact,
     SignatureCountsExact

(* ... waits until no transaction is open, and remembers the rows it deletes ... *)
LEMMA RebuildClearStep ==
  ASSUME CountsInv, RebuildClear
  PROVE  CountsInv'
<1>0. Structure /\ CountsTypeOK
  BY DEF CountsInv, Structure
<1>1. /\ UNCHANGED <<status, live, ended, total, delta, draft, added, retired, pending, moved, taken,
                     statements, foldLock, overlapped>>
      /\ recount' = "counting" /\ cleared' = delta /\ \A s \in Sessions : statements[s] = 0
  BY DEF RebuildClear, store, counts, work
<1>2. CountsTypeOK'
  BY <1>0, <1>1 DEF CountsTypeOK
<1>3. Structure'
  BY <1>0, <1>1, <1>2 DEF Structure, Closed, RowsSound, RowsApart, Recounting, FoldsAdmitted
<1>4. /\ Counted' = Counted /\ FullCount' = FullCount
      /\ \A s, k : Net(s, k)' = Net(s, k) /\ Into(s, k)' = Into(s, k) /\ OutOf(s, k)' = OutOf(s, k)
      /\ \A s, a : Gains(s, a)' = Gains(s, a) /\ Losses(s, a)' = Losses(s, a)
      /\ Overlapping(draft, added, retired)' = Overlapping(draft, added, retired)
  BY <1>1 DEF Counted, FullCount, Net, Into, OutOf, Gains, Losses, Touched, StatusSeen, LiveSeen,
       Overlapping
<1> QED
  BY <1>1, <1>3, <1>4 DEF CountsInv, OverlapsRecorded, StatusNets, SignatureNets, StatusCountsExact,
     SignatureCountsExact

(* ... and counts in full, which makes the sums exact whatever they were. *)
LEMMA RebuildCountStep ==
  ASSUME CountsInv, RebuildCount
  PROVE  CountsInv'
<1>0. /\ Structure /\ CountsTypeOK /\ Recounting
      /\ \A s \in Sessions : Closed(s)
  BY DEF CountsInv, Structure
<1>1. /\ UNCHANGED <<status, live, ended, draft, added, retired, pending, moved, taken, statements>>
      /\ recount = "counting" /\ total' = FullCount /\ delta' = Minus(delta, cleared)
      /\ foldLock' = Nobody /\ recount' = "off" /\ cleared' = Zero /\ overlapped' = {}
  BY DEF RebuildCount, store, work
<1>2. \A s \in Sessions : /\ draft[s] = [t \in Tokens |-> "KEPT"] /\ added[s] = {} /\ retired[s] = {}
                          /\ pending[s] = Zero /\ moved[s] = Zero /\ taken[s] = Zero
  BY <1>0, <1>1 DEF Recounting, Closed
<1>3. delta' \in [Items -> Int] /\ \A k \in Items : delta'[k] = 0
  <2>1. cleared = delta /\ delta \in [Items -> Int]
    BY <1>0, <1>1 DEF Recounting, CountsTypeOK
  <2>2. /\ Minus(delta, cleared) \in [Items -> Int]
        /\ \A k \in Items : Minus(delta, cleared)[k] = delta[k] - cleared[k]
    BY <2>1, Sums
  <2> QED
    BY <1>1, <2>1, <2>2
<1>4. total' \in [Items -> Nat]
  BY <1>1, FullCounts
<1>5. CountsTypeOK'
  BY <1>0, <1>1, <1>2, <1>3, <1>4, ZeroSum DEF CountsTypeOK
<1>6. FoldsAdmitted'
  BY <1>1, <1>2, <1>4, ZeroSum DEF FoldsAdmitted
<1>7. Structure'
  BY <1>0, <1>1, <1>5, <1>6 DEF Structure, Closed, RowsSound, RowsApart, Recounting
<1>8. OverlapsRecorded'
  BY <1>1, <1>2 DEF OverlapsRecorded, Overlapping
<1>9. StatusNets' /\ SignatureNets'
  <2>1. \A s \in Sessions :
          /\ \A k \in Statuses : Net(s, k)' = Cardinality(Into(s, k)') - Cardinality(OutOf(s, k)')
          /\ \A a \in Algorithms : Net(s, a)' = Cardinality(Gains(s, a)') - Cardinality(Losses(s, a)')
    BY <1>1, <1>2, RestingNets
  <2> QED
    BY <2>1 DEF StatusNets, SignatureNets
<1>10. \A k \in Items : Counted'[k] = FullCount'[k]
  <2>1. FullCount' = FullCount
    BY <1>1 DEF FullCount
  <2>2. ASSUME NEW k \in Items
        PROVE  Counted'[k] = FullCount'[k]
    <3>1. total' \in [Items -> Int] /\ delta' \in [Items -> Int]
      BY <1>3, <1>4
    <3>2. Plus(total', delta')[k] = total'[k] + delta'[k]
      BY <3>1, Sums
    <3>3. total'[k] \in Int /\ delta'[k] = 0
      BY <1>3, <3>1
    <3> QED
      BY <1>1, <2>1, <3>2, <3>3 DEF Counted
  <2> QED
    BY <2>2
<1>11. StatusCountsExact' /\ SignatureCountsExact'
  BY <1>10 DEF StatusCountsExact, SignatureCountsExact, Items
<1> QED
  BY <1>7, <1>8, <1>9, <1>11 DEF CountsInv

-----------------------------------------------------------------------------
(* The invariant *)

(* The invariant holds of every database to start from ... *)
LEMMA CountsInit ==
  ASSUME Init
  PROVE  CountsInv
<1>1. /\ status \in [Tokens -> Statuses \cup {"NONE"}] /\ live \subseteq Signatures
      /\ ended = {} /\ total = FullCount /\ delta = Zero
      /\ draft = [s \in Sessions |-> [t \in Tokens |-> "KEPT"]]
      /\ added = [s \in Sessions |-> {}] /\ retired = [s \in Sessions |-> {}]
      /\ pending = [s \in Sessions |-> Zero] /\ moved = [s \in Sessions |-> Zero]
      /\ taken = [s \in Sessions |-> Zero] /\ statements = [s \in Sessions |-> 0]
      /\ foldLock = Nobody /\ recount = "off" /\ cleared = Zero /\ overlapped = {}
  BY CountsAssumption DEF Init
<1>2. total \in [Items -> Nat]
  BY <1>1, FullCounts
<1>3. CountsTypeOK
  BY <1>1, <1>2, ZeroSum, CountsAssumption DEF CountsTypeOK
<1>4. FoldsAdmitted
  BY <1>1, <1>2, ZeroSum DEF FoldsAdmitted
<1>5. Structure
  BY <1>1, <1>3, <1>4 DEF Structure, Closed, RowsSound, RowsApart, Recounting
<1>6. OverlapsRecorded
  BY <1>1 DEF OverlapsRecorded, Overlapping
<1>7. Cardinality({}) = 0 /\ Statuses \subseteq Items /\ Algorithms \subseteq Items
  BY FS_EmptySet DEF Items
<1>8. ASSUME NEW s \in Sessions
      PROVE  \A k \in Items : Net(s, k) = 0
  BY <1>1, ZeroSum DEF Net
<1>9. ASSUME NEW s \in Sessions, NEW k \in Statuses
      PROVE  Net(s, k) = Cardinality(Into(s, k)) - Cardinality(OutOf(s, k))
  <2>1. Into(s, k) = {} /\ OutOf(s, k) = {}
    BY <1>1 DEF Into, OutOf, Statuses
  <2>2. Cardinality(Into(s, k)) = 0 /\ Cardinality(OutOf(s, k)) = 0
    BY <1>7, <2>1
  <2> QED
    BY <1>7, <1>8, <2>2
<1>10. ASSUME NEW s \in Sessions, NEW a \in Algorithms
       PROVE  Net(s, a) = Cardinality(Gains(s, a)) - Cardinality(Losses(s, a))
  <2>1. Gains(s, a) = {} /\ Losses(s, a) = {}
    BY <1>1 DEF Gains, Losses, Touched
  <2>2. Cardinality(Gains(s, a)) = 0 /\ Cardinality(Losses(s, a)) = 0
    BY <1>7, <2>1
  <2> QED
    BY <1>7, <1>8, <2>2
<1>11. ASSUME NEW k \in Items
       PROVE  Counted[k] = FullCount[k]
  <2>1. Counted[k] = total[k] + delta[k]
    BY <1>3, CountedSums
  <2>2. total[k] \in Nat /\ delta[k] = 0
    BY <1>1, <1>2, ZeroSum
  <2> QED
    BY <1>1, <2>1, <2>2
<1>12. StatusNets /\ SignatureNets
  BY <1>9, <1>10 DEF StatusNets, SignatureNets
<1>13. StatusCountsExact /\ SignatureCountsExact
  BY <1>7, <1>11 DEF StatusCountsExact, SignatureCountsExact
<1> QED
  BY <1>5, <1>6, <1>12, <1>13 DEF CountsInv

(* ... of steps that change nothing ... *)
LEMMA CountsStutter ==
  ASSUME CountsInv, UNCHANGED vars
  PROVE  CountsInv'
<1>1. UNCHANGED <<status, live, ended, total, delta, draft, added, retired, pending, moved, taken,
                  statements, foldLock, recount, cleared, overlapped>>
  BY DEF vars, store, counts, work, rebuilding
<1>2. CountsTypeOK'
  BY <1>1 DEF CountsInv, Structure, CountsTypeOK
<1>3. Structure'
  BY <1>1, <1>2 DEF CountsInv, Structure, Closed, RowsSound, RowsApart, Recounting, FoldsAdmitted
<1>4. /\ Counted' = Counted /\ FullCount' = FullCount
      /\ \A s, k : Net(s, k)' = Net(s, k) /\ Into(s, k)' = Into(s, k) /\ OutOf(s, k)' = OutOf(s, k)
      /\ \A s, a : Gains(s, a)' = Gains(s, a) /\ Losses(s, a)' = Losses(s, a)
      /\ Overlapping(draft, added, retired)' = Overlapping(draft, added, retired)
  BY <1>1 DEF Counted, FullCount, Net, Into, OutOf, Gains, Losses, Touched, StatusSeen, LiveSeen,
       Overlapping
<1> QED
  BY <1>1, <1>3, <1>4 DEF CountsInv, OverlapsRecorded, StatusNets, SignatureNets, StatusCountsExact,
     SignatureCountsExact

(* ... and of every statement, end of a transaction and step of a recount, ... *)
LEMMA CountsNext ==
  ASSUME CountsInv, Next
  PROVE  CountsInv'
BY IssueStep, SetStatusStep, AddSignatureStep, DeprecateStep, CommitStep, RollbackStep,
   RebuildBeginStep, RebuildClearStep, RebuildCountStep DEF Next

(* ... so always. *)
LEMMA CountsAlways == Spec => []CountsInv
<1>1. Init => CountsInv
  BY CountsInit
<1>2. CountsInv /\ [Next]_vars => CountsInv'
  BY CountsNext, CountsStutter
<1> QED
  BY <1>1, <1>2, PTL DEF Spec

(* Every variable has its type for any number of credentials, algorithms and sessions;
   above all no total is ever negative, which the CHECK demands at every commit though
   it is evaluated when the transaction folds. *)
THEOREM CountsTypeCorrect == Spec => []CountsTypeOK
<1>1. CountsInv => CountsTypeOK
  BY DEF CountsInv, Structure
<1> QED
  BY <1>1, CountsAlways, PTL

(* What a reader sums for a status is at every moment the number of committed
   credentials in it, however statements, folds, rollbacks and recounts interleave. *)
THEOREM StatusesExact == Spec => []StatusCountsExact
<1>1. CountsInv => StatusCountsExact
  BY DEF CountsInv
<1> QED
  BY <1>1, CountsAlways, PTL

(* What it sums for an algorithm is the number of live signatures of ACTIVE credentials
   under it, as long as no status change and signature change of one credential have
   overlapped since the last recount. *)
THEOREM SignaturesExact == Spec => []SignatureCountsExact
<1>1. CountsInv => SignatureCountsExact
  BY DEF CountsInv
<1> QED
  BY <1>1, CountsAlways, PTL
=============================================================================
