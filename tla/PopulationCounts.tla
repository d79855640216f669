--------------------------- MODULE PopulationCounts ---------------------------
(***************************************************************************)
(* The maintained population counts of one authority: how many of its      *)
(* credentials are in each status, and how many live signatures under each *)
(* algorithm its ACTIVE credentials carry.  Statement triggers on          *)
(* IdentityToken and TokenSignature append signed changes to               *)
(* PopulationCountDelta; uc_fold_population_counts moves them into         *)
(* PopulationCount; a reader sums both tables.                             *)
(*                                                                         *)
(* Writers are READ COMMITTED transactions of a few statements, of any of  *)
(* the kinds that fire the triggers.  A statement over several rows        *)
(* appends the sum of what its rows would append one by one, so each       *)
(* statement here writes one row.  Only sums are kept of the delta rows.   *)
(***************************************************************************)
EXTENDS Integers, FiniteSets

CONSTANTS
  Tokens,
  Algorithms,
  Sessions,
  Recounter,     \* the owner's session, which recounts
  Nobody,        \* the holder of a free lock
  Loads,         \* databases to start from: the statuses ("NONE" has no row), the live signatures
  MaxStatements  \* bound: counted statements of one transaction

(* REVOKED stands for every status a credential leaves the live ones for. *)
Statuses == {"RESERVE", "ACTIVE", "REVOKED"}
Moves == {<<"RESERVE", "ACTIVE">>, <<"RESERVE", "REVOKED">>, <<"ACTIVE", "REVOKED">>}
Items == Statuses \cup Algorithms
Signatures == Tokens \X Algorithms

ASSUME CountsAssumption ==
  /\ IsFiniteSet(Tokens)
  /\ Loads \subseteq [status : [Tokens -> Statuses \cup {"NONE"}], live : SUBSET Signatures]
  /\ Recounter \notin Sessions /\ Nobody \notin Sessions \cup {Recounter}
  /\ Algorithms \cap Statuses = {}
  /\ MaxStatements \in Nat \ {0}

VARIABLES
  status,       \* committed status of each token
  live, ended,  \* committed signatures without and with a deprecation date
  total,        \* PopulationCount
  delta,        \* sum of the committed PopulationCountDelta rows
  draft,        \* the status an open transaction has given a token, or "KEPT"
  added,        \* signatures it has inserted
  retired,      \* signatures it has deprecated
  pending,      \* sum of its own delta rows, not folded
  moved,        \* what its folds have added to the totals
  taken,        \* how much of that came from committed delta rows
  statements,   \* its statements so far; 0 when no transaction is open
  foldLock,     \* advisory lock 'polaris.population.fold'
  recount,      \* how far uc_rebuild_population_counts has come
  cleared,      \* the delta rows it has deleted
  overlapped    \* history: see Overlapping

store == <<status, live, ended>>
counts == <<total, delta>>
work == <<draft, added, retired, pending, moved, taken, statements>>
rebuilding == <<recount, cleared>>
vars == <<store, counts, work, foldLock, rebuilding, overlapped>>

-----------------------------------------------------------------------------
(* Counts *)

Bit(b) == IF b THEN 1 ELSE 0
Zero == [k \in Items |-> 0]
Plus(f, g) == [k \in Items |-> f[k] + g[k]]
Minus(f, g) == [k \in Items |-> f[k] - g[k]]

(* A full count of the two tables. *)
FullCount ==
  [k \in Items |->
     IF k \in Statuses THEN Cardinality({t \in Tokens : status[t] = k})
     ELSE Cardinality({t \in Tokens : status[t] = "ACTIVE" /\ <<t, k>> \in live})]

(* population.counts: a reader's sum of both tables, in one snapshot. *)
Counted == Plus(total, delta)

-----------------------------------------------------------------------------
(* What a statement of session s sees *)

StatusSeen(s, t) == IF draft[s][t] = "KEPT" THEN status[t] ELSE draft[s][t]
LiveSeen(s) == (live \cup added[s]) \ retired[s]

(* Mutant: the recount does not lock the tables. *)
TablesNeverLocked == TRUE

(* The recount's SHARE locks keep writers out until it commits. *)
TablesOpen == recount # "counting"

(* The row lock: an UPDATE of a token waits for another transaction's. *)
RowFree(s, t) == \A x \in Sessions \ {s} : draft[x][t] = "KEPT"

(* A status change that makes the credential's signatures count, or stop counting,
   while another transaction inserts or deprecates one of them.  Neither statement
   waits for the other (the foreign key locks the token's key only), and neither
   trigger sees the other's rows. *)
Overlapping(drafts, adds, retires) ==
  {t \in Tokens : \E s, x \in Sessions :
     /\ s # x
     /\ drafts[s][t] # "KEPT"
     /\ "ACTIVE" \in {status[t], drafts[s][t]}
     /\ \E a \in Algorithms : <<t, a>> \in adds[x] \cup retires[x]}

-----------------------------------------------------------------------------
(* uc_fold_population_counts, as a trigger calls it *)

(* The PopulationCountDelta rows a fold by s deletes. *)
Foldable(s, own) == Plus(Minus(delta, taken[s]), own)

(* Mutant: PopulationCount.n has no CHECK. *)
AdmitsNegative(s, own) == TRUE

(* CHECK (n >= 0): otherwise the fold raises, and its block undoes it. *)
TotalsAdmit(s, own) ==
  \A k \in Items : total[k] + moved[s][k] + Foldable(s, own)[k] >= 0

FoldSucceeds(s, own) == foldLock \in {Nobody, s} /\ TotalsAdmit(s, own)

Folded(s, own) ==
  /\ moved' = [moved EXCEPT ![s] = Plus(@, Foldable(s, own))]
  /\ taken' = [taken EXCEPT ![s] = delta]
  /\ pending' = [pending EXCEPT ![s] = Zero]
  /\ foldLock' = s

(* The end of every statement: its trigger appends d, and now and then folds. *)
Appended(s, d) ==
  LET own == Plus(pending[s], d)
  IN  \/ /\ FoldSucceeds(s, own)
         /\ Folded(s, own)
      \/ /\ pending' = [pending EXCEPT ![s] = own]
         /\ UNCHANGED <<moved, taken, foldLock>>

-----------------------------------------------------------------------------
(* The statements that move a count *)

Statement(s) ==
  /\ TablesOpen
  /\ statements[s] < MaxStatements
  /\ statements' = [statements EXCEPT ![s] = @ + 1]
  /\ overlapped' = overlapped \cup Overlapping(draft', added', retired')
  /\ UNCHANGED <<store, counts, rebuilding>>

(* INSERT INTO IdentityToken: every issuing procedure inserts a reserve. *)
Issue(s, t) ==
  /\ status[t] = "NONE" /\ \A x \in Sessions : draft[x][t] = "KEPT"
  /\ draft' = [draft EXCEPT ![s][t] = "RESERVE"]
  /\ Appended(s, [k \in Items |-> Bit(k = "RESERVE")])
  /\ UNCHANGED <<added, retired>>
  /\ Statement(s)

(* The changes an UPDATE of a status appends: the credential moves, and its live
   signatures count while it is ACTIVE. *)
StatusChange(s, t, old, new) ==
  [k \in Items |->
     IF k \in Statuses THEN Bit(k = new) - Bit(k = old)
     ELSE Bit(<<t, k>> \in LiveSeen(s)) * (Bit(new = "ACTIVE") - Bit(old = "ACTIVE"))]

(* UPDATE IdentityToken SET status, in uc8_revoke or by a direct transition. *)
SetStatus(s, t, new) ==
  /\ <<StatusSeen(s, t), new>> \in Moves
  /\ RowFree(s, t)
  /\ draft' = [draft EXCEPT ![s][t] = new]
  /\ Appended(s, StatusChange(s, t, StatusSeen(s, t), new))
  /\ UNCHANGED <<added, retired>>
  /\ Statement(s)

(* Mutant: a signature counts whatever its credential's status. *)
AnySignatureChange(s, t, a, n) == [k \in Items |-> n * Bit(k = a)]

(* The changes an INSERT (n = 1) or a deprecation (n = -1) of a signature appends. *)
SignatureChange(s, t, a, n) ==
  [k \in Items |-> n * Bit(k = a /\ StatusSeen(s, t) = "ACTIVE")]

(* INSERT INTO TokenSignature, which the unique (token_id, algorithm_id) holds to one. *)
AddSignature(s, t, a) ==
  /\ StatusSeen(s, t) # "NONE"
  /\ <<t, a>> \notin live \cup ended /\ \A x \in Sessions : <<t, a>> \notin added[x]
  /\ added' = [added EXCEPT ![s] = @ \cup {<<t, a>>}]
  /\ Appended(s, SignatureChange(s, t, a, 1))
  /\ UNCHANGED <<draft, retired>>
  /\ Statement(s)

(* UPDATE TokenSignature SET deprecation_date; the row's lock is waited for, and
   enforce_token_has_active_signature wants another live signature in sight. *)
Deprecate(s, t, a) ==
  /\ <<t, a>> \in LiveSeen(s)
  /\ \A x \in Sessions \ {s} : <<t, a>> \notin retired[x]
  /\ \E b \in Algorithms \ {a} : <<t, b>> \in LiveSeen(s)
  /\ retired' = [retired EXCEPT ![s] = @ \cup {<<t, a>>}]
  /\ Appended(s, SignatureChange(s, t, a, -1))
  /\ UNCHANGED <<draft, added>>
  /\ Statement(s)

-----------------------------------------------------------------------------
(* The end of a transaction *)

Release(s) ==
  /\ draft' = [draft EXCEPT ![s] = [t \in Tokens |-> "KEPT"]]
  /\ added' = [added EXCEPT ![s] = {}]
  /\ retired' = [retired EXCEPT ![s] = {}]
  /\ pending' = [pending EXCEPT ![s] = Zero]
  /\ moved' = [moved EXCEPT ![s] = Zero]
  /\ taken' = [taken EXCEPT ![s] = Zero]
  /\ statements' = [statements EXCEPT ![s] = 0]
  /\ foldLock' = IF foldLock = s THEN Nobody ELSE foldLock
  /\ UNCHANGED <<rebuilding, overlapped>>

Commit(s) ==
  /\ statements[s] > 0
  /\ status' = [t \in Tokens |-> StatusSeen(s, t)]
  /\ live' = LiveSeen(s)
  /\ ended' = ended \cup retired[s]
  /\ total' = Plus(total, moved[s])
  /\ delta' = Plus(Minus(delta, taken[s]), pending[s])
  /\ Release(s)

Rollback(s) ==
  /\ statements[s] > 0
  /\ Release(s)
  /\ UNCHANGED <<store, counts>>

-----------------------------------------------------------------------------
(* uc_rebuild_population_counts *)

RebuildBegin ==
  /\ foldLock = Nobody
  /\ foldLock' = Recounter
  /\ recount' = "locking"
  /\ UNCHANGED <<store, counts, work, cleared, overlapped>>

(* LOCK TABLE ... IN SHARE MODE waits for the open writers; the DELETEs follow. *)
RebuildClear ==
  /\ recount = "locking"
  /\ \A s \in Sessions : statements[s] = 0
  /\ recount' = "counting"
  /\ cleared' = delta
  /\ UNCHANGED <<store, counts, work, foldLock, overlapped>>

(* The two counting INSERTs, and COMMIT. *)
RebuildCount ==
  /\ recount = "counting"
  /\ total' = FullCount
  /\ delta' = Minus(delta, cleared)
  /\ foldLock' = Nobody
  /\ recount' = "off"
  /\ cleared' = Zero
  /\ overlapped' = {}
  /\ UNCHANGED <<store, work>>

-----------------------------------------------------------------------------
Init ==
  /\ \E load \in Loads : status = load.status /\ live = load.live
  /\ ended = {}
  /\ total = FullCount
  /\ delta = Zero
  /\ draft = [s \in Sessions |-> [t \in Tokens |-> "KEPT"]]
  /\ added = [s \in Sessions |-> {}]
  /\ retired = [s \in Sessions |-> {}]
  /\ pending = [s \in Sessions |-> Zero]
  /\ moved = [s \in Sessions |-> Zero]
  /\ taken = [s \in Sessions |-> Zero]
  /\ statements = [s \in Sessions |-> 0]
  /\ foldLock = Nobody
  /\ recount = "off"
  /\ cleared = Zero
  /\ overlapped = {}

Next ==
  \/ \E s \in Sessions :
       \/ \E t \in Tokens : Issue(s, t)
       \/ \E t \in Tokens, new \in Statuses : SetStatus(s, t, new)
       \/ \E t \in Tokens, a \in Algorithms : AddSignature(s, t, a) \/ Deprecate(s, t, a)
       \/ Commit(s)
       \/ Rollback(s)
  \/ RebuildBegin
  \/ RebuildClear
  \/ RebuildCount

Spec == Init /\ [][Next]_vars

-----------------------------------------------------------------------------
(* Every variable has its type: no total is ever negative, as the table's CHECK
   demands, whatever the deltas say; and a transaction has moved something only
   while it holds the fold's lock. *)
CountsTypeOK ==
  /\ status \in [Tokens -> Statuses \cup {"NONE"}]
  /\ live \subseteq Signatures /\ ended \subseteq Signatures /\ live \cap ended = {}
  /\ total \in [Items -> Nat] /\ delta \in [Items -> Int]
  /\ draft \in [Sessions -> [Tokens -> Statuses \cup {"KEPT"}]]
  /\ added \in [Sessions -> SUBSET Signatures] /\ retired \in [Sessions -> SUBSET Signatures]
  /\ pending \in [Sessions -> [Items -> Int]]
  /\ \A s \in Sessions : (moved[s] # Zero \/ taken[s] # Zero) => foldLock = s
  /\ moved \in [Sessions -> [Items -> Int]] /\ taken \in [Sessions -> [Items -> Int]]
  /\ statements \in [Sessions -> 0..MaxStatements]
  /\ foldLock \in Sessions \cup {Recounter, Nobody}
  /\ recount \in {"off", "locking", "counting"} /\ cleared \in [Items -> Int]
  /\ overlapped \subseteq Tokens

(* What a reader sums for each status is exactly the number of committed
   credentials in it, at every moment: between a fold and its commit, after a
   rolled-back fold, while a recount waits or counts. *)
StatusCountsExact == \A k \in Statuses : Counted[k] = FullCount[k]

(* The live signatures a reader sums for each algorithm are exact too, as long as
   no status change and signature change of the same credential have overlapped
   since the last recount: folds, rollbacks and every other interleaving keep the
   sum, and a recount restores it. *)
SignatureCountsExact ==
  overlapped = {} => \A a \in Algorithms : Counted[a] = FullCount[a]

(* What the code says of both figures, with no exception: "exactly" (01_schema.sql),
   "exact at any size" (population.py).  A status change that takes the signatures
   it sees out of the count, and a signature change that counts on the status it
   sees, do not wait for each other. *)
PopulationExact == \A k \in Items : Counted[k] = FullCount[k]
===============================================================================
