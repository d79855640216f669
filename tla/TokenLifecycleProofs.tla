------------------------ MODULE TokenLifecycleProofs ------------------------
(***************************************************************************)
(* Theorems about TokenLifecycle, for every set of tokens, holders,        *)
(* agencies and concurrent transactions.                                   *)
(***************************************************************************)
EXTENDS TokenLifecycle, TLAPS

-----------------------------------------------------------------------------
(* Type correctness *)

(* A status the state machine admits, other than the one the row has, has an
   event to be logged by. *)
LEMMA AdmittedHasEvent ==
  ASSUME NEW t, NEW old \in Status, NEW new, NEW now,
         StateMachineAdmits(t, old, new, now)
  PROVE  new \in Status /\ (old = new \/ EventFor(new) \in EventType)
BY DEF StateMachineAdmits, LegalMoves, Status, EventFor, EventType

(* The statuses the procedures write have events in the lifecycle log, and
   their reason codes are the ones it knows. *)
LEMMA LoggedStatuses ==
  /\ \A s \in {"ACTIVE", "REVOKED", "LOST"} : s \in Status /\ EventFor(s) \in EventType
  /\ {"ISSUE", "TRANSITION", "UC4", "UC9"} \subseteq Reason
BY DEF Status, EventFor, EventType, Reason

(* The UPDATE with its audit trigger leaves a well-formed row. *)
LEMMA SetStatusType ==
  ASSUME NEW r \in TokenRow, NEW s \in Status, NEW reason \in Reason, NEW now \in Nat,
         r.status = s \/ EventFor(s) \in EventType
  PROVE  /\ SetStatus(r, s, reason, now) \in TokenRow
         /\ SetStatus(r, s, reason, now).status = s
<1> DEFINE e == [type |-> EventFor(s), reason |-> reason, at |-> now]
<1>1. Audited(r, s, reason, now) \in Seq(Event)
  <2>1. CASE r.status = s
    BY <2>1 DEF Audited, TokenRow
  <2>2. CASE r.status # s
    <3>1. e \in Event
      BY <2>2 DEF Event
    <3>2. Append(r.events, e) \in Seq(Event)
      BY <3>1 DEF TokenRow
    <3> HIDE DEF e
    <3>3. r.events \in Seq(Event)
      BY DEF TokenRow
    <3> QED BY <3>2, <3>3 DEF Audited, e
  <2> QED BY <2>1, <2>2
<1> HIDE DEF e
<1> QED BY <1>1 DEF SetStatus, TokenRow

(* Issuance and publication leave well-formed rows. *)
LEMMA IssuedType ==
  ASSUME StoreAssumption, NEW now \in Nat
  PROVE  /\ NoRow \in TokenRow
         /\ Issued(NoRow, now) \in TokenRow
         /\ Issued(NoRow, now).status = "RESERVE"
         /\ [NoRow EXCEPT !.status = "RESERVE"] \in TokenRow
         /\ [NoRow EXCEPT !.status = "RESERVE"].status = "RESERVE"
<1> DEFINE e == [type |-> "ISSUED", reason |-> "ISSUE", at |-> now]
<1>1. NoRow \in TokenRow
  BY DEF NoRow, TokenRow, Status
<1>2. e \in Event
  BY DEF Event, EventType, Reason
<1>3. Append(NoRow.events, e) \in Seq(Event)
  BY <1>2 DEF NoRow
<1> HIDE DEF e
<1>4. Issued(NoRow, now) = [NoRow EXCEPT !.status = "RESERVE", !.events = Append(@, e)]
  BY DEF Issued, e
<1> QED BY <1>1, <1>3, <1>4 DEF TokenRow, Status

(* INSERT INTO RevocationList leaves a well-formed row with its status. *)
LEMMA PublishedType ==
  ASSUME NEW r \in TokenRow
  PROVE  Published(r) \in TokenRow /\ Published(r).status = r.status
BY DEF Published, TokenRow

-----------------------------------------------------------------------------
(* The inductive invariant *)

RowTypes ==
  /\ row \in [Tokens -> TokenRow]
  /\ draft \in [Tokens -> TokenRow]
  /\ owner \in [Tokens -> Txns \cup {NoTxn}]

ProcTypes ==
  /\ holderLock \in [Individuals -> Txns \cup {NoTxn}]
  /\ holderRefs \in [Individuals -> SUBSET Txns]
  /\ clock \in 0..MaxClock
  /\ pc \in [Txns -> PCs]
  /\ arg \in [Txns -> Arg]
  /\ revokeLock \in [Agencies -> Txns \cup {NoTxn}]
  /\ recoveryLock \in [Individuals -> Txns \cup {NoTxn}]
  /\ request \in [Individuals -> RequestStatus]

Mine(x, t) == t \in Tokens /\ owner[t] = x

(* A procedure holds the row locks its next statements rely on. *)
OwnsAt(x) ==
  /\ pc[x] = "bulk_activate" => \A t \in arg[x].batch : Mine(x, t)
  /\ pc[x] \in {"uc4_holder", "uc4_lost", "uc4_reserve", "uc4_swap"} =>
       /\ arg[x].tok \in Tokens /\ arg[x].alt \in Tokens
       /\ arg[x].status \in {"LOST", "REVOKED"}
  /\ pc[x] \in {"uc4_reserve", "uc4_swap"} => Mine(x, arg[x].tok)
  /\ pc[x] = "uc4_swap" => Mine(x, arg[x].alt)
  /\ pc[x] = "transition" => arg[x].tok \in Tokens
  /\ pc[x] \in {"transition_index", "uc9_lock", "uc9_request", "uc9_loop", "uc9_issue"} => Mine(x, arg[x].tok)

Owns == \A x \in Txns : OwnsAt(x)

(* An unlocked row has one version. *)
Versions == \A t \in Tokens : owner[t] = NoTxn => draft[t] = row[t]

(* Each of the two versions has at most one ACTIVE token per holder, and a new
   ACTIVE token of a holder who has one is written by the transaction that is
   taking the old one out of the index. *)
ActiveVersions ==
  \A t, u \in Tokens : SameHolder(t, u) /\ t # u =>
    /\ ~(row[t].status = "ACTIVE" /\ row[u].status = "ACTIVE")
    /\ ~(draft[t].status = "ACTIVE" /\ draft[u].status = "ACTIVE")
    /\ draft[t].status = "ACTIVE" /\ row[u].status = "ACTIVE" => owner[t] = owner[u]

IInv == TypeOK /\ Owns /\ Versions /\ ActiveVersions

(* A write of S by x that holds the locks and obeys the unique index. *)
GoodWrite(x, S, version) ==
  /\ Write(x, S, version)
  /\ UNCHANGED row
  /\ \A t \in S \cap Tokens : version[t] \in TokenRow /\ RowFree(x, t)
  /\ \A t \in S \cap Tokens : version[t].status = "ACTIVE" =>
       \/ S = {t} /\ draft[t].status = "ACTIVE"
       \/ /\ IndexEntries(x, t) \subseteq S
          /\ \A u \in (S \cap Tokens) \ {t} : SameHolder(t, u) => version[u].status # "ACTIVE"

(* What a transaction x may do to the rows. *)
RowStep(x) ==
  \/ \E S : \E version : GoodWrite(x, S, version)
  \/ CommitRows(x)
  \/ RollbackRows(x)
  \/ UNCHANGED <<row, draft, owner>>

(* Such a write keeps at most one ACTIVE version per holder. *)
LEMMA GoodWriteKeeps ==
  ASSUME StoreAssumption, RowTypes, Versions, ActiveVersions,
         NEW x \in Txns, NEW S, NEW version, GoodWrite(x, S, version)
  PROVE  RowTypes' /\ Versions' /\ ActiveVersions'
<1> USE DEF GoodWrite, Write
<1>1. RowTypes'
  BY DEF RowTypes
<1>2. Versions'
  BY DEF Versions, RowTypes, StoreAssumption
<1>3. ASSUME NEW t \in Tokens, t \in S, version[t].status = "ACTIVE",
             NEW u \in Tokens, u # t, SameHolder(t, u)
      PROVE  /\ draft'[u].status # "ACTIVE"
             /\ row[u].status = "ACTIVE" => owner'[u] = x
  <2>1. CASE S = {t} /\ draft[t].status = "ACTIVE"
    BY <1>3, <2>1 DEF ActiveVersions, RowTypes, Versions, RowFree, SameHolder
  <2>2. CASE /\ IndexEntries(x, t) \subseteq S
             /\ \A v \in (S \cap Tokens) \ {t} : SameHolder(t, v) => version[v].status # "ACTIVE"
    <3>1. CASE u \in S
      BY <1>3, <2>2, <3>1
    <3>2. CASE u \notin S
      <4>1. u \notin IndexEntries(x, t)
        BY <2>2, <3>2
      <4>2. draft'[u] = draft[u] /\ owner'[u] = owner[u]
        BY <3>2
      <4>3. IF InFlight(x, u) THEN "ACTIVE" \notin {row[u].status, draft[u].status}
                              ELSE Visible(x, u).status # "ACTIVE"
        BY <1>3, <4>1 DEF IndexEntries
      <4>4. CASE InFlight(x, u)
        BY <4>2, <4>3, <4>4
      <4>5. CASE ~InFlight(x, u)
        BY <4>2, <4>3, <4>5 DEF InFlight, Visible, RowFree, Versions
      <4> QED BY <4>4, <4>5
    <3> QED BY <3>1, <3>2
  <2> QED BY <1>3, <2>1, <2>2
<1>4. ActiveVersions'
  <2> SUFFICES ASSUME NEW t \in Tokens, NEW u \in Tokens, SameHolder(t, u), t # u
               PROVE  /\ ~(row[t].status = "ACTIVE" /\ row[u].status = "ACTIVE")
                      /\ ~(draft'[t].status = "ACTIVE" /\ draft'[u].status = "ACTIVE")
                      /\ draft'[t].status = "ACTIVE" /\ row[u].status = "ACTIVE"
                            => owner'[t] = owner'[u]
    BY DEF ActiveVersions, SameHolder
  <2>1. ~(row[t].status = "ACTIVE" /\ row[u].status = "ACTIVE")
    BY DEF ActiveVersions
  <2>2. SameHolder(u, t)
    BY DEF SameHolder
  <2>3. CASE t \in S /\ version[t].status = "ACTIVE"
    <3>1. draft'[u].status # "ACTIVE" /\ (row[u].status = "ACTIVE" => owner'[u] = x)
      BY <1>3, <2>3
    <3>2. owner'[t] = x
      BY <2>3
    <3> QED BY <2>1, <3>1, <3>2
  <2>4. CASE t \in S /\ version[t].status # "ACTIVE"
    BY <2>1, <2>4
  <2>5. CASE t \notin S
    <3>1. draft'[t] = draft[t] /\ owner'[t] = owner[t]
      BY <2>5
    <3>2. CASE u \in S /\ version[u].status = "ACTIVE"
      <4>1. draft'[t].status # "ACTIVE"
        BY <1>3, <2>2, <3>2
      <4> QED BY <2>1, <4>1
    <3>3. CASE u \in S /\ version[u].status # "ACTIVE"
      <4>1. draft'[u].status # "ACTIVE" /\ owner'[u] = x /\ RowFree(x, u)
        BY <3>3
      <4>2. ASSUME draft[t].status = "ACTIVE", row[u].status = "ACTIVE"
            PROVE  owner[t] = x
        <5>1. owner[t] = owner[u]
          BY <4>2 DEF ActiveVersions
        <5>2. owner[t] # NoTxn
          BY <4>2, <5>1, <2>1 DEF Versions
        <5> QED BY <4>1, <5>1, <5>2 DEF RowFree
      <4> QED BY <2>1, <3>1, <4>1, <4>2
    <3>4. CASE u \notin S
      <4>1. draft'[u] = draft[u] /\ owner'[u] = owner[u]
        BY <3>4
      <4> QED BY <3>1, <4>1 DEF ActiveVersions
    <3> QED BY <3>2, <3>3, <3>4
  <2> QED BY <2>3, <2>4, <2>5
<1> QED BY <1>1, <1>2, <1>4

(* COMMIT publishes the drafts of one transaction, which is one step of the
   index: either version of a holder's tokens keeps at most one ACTIVE. *)
LEMMA CommitKeeps ==
  ASSUME StoreAssumption, RowTypes, Versions, ActiveVersions,
         NEW x \in Txns, CommitRows(x)
  PROVE  RowTypes' /\ Versions' /\ ActiveVersions'
<1> USE DEF CommitRows, ReleaseRows
<1>1. RowTypes'
  BY DEF RowTypes
<1>2. Versions'
  BY DEF Versions, RowTypes
<1>3. ActiveVersions'
  <2> SUFFICES ASSUME NEW t \in Tokens, NEW u \in Tokens, SameHolder(t, u), t # u
               PROVE  /\ ~(row'[t].status = "ACTIVE" /\ row'[u].status = "ACTIVE")
                      /\ ~(draft'[t].status = "ACTIVE" /\ draft'[u].status = "ACTIVE")
                      /\ draft'[t].status = "ACTIVE" /\ row'[u].status = "ACTIVE"
                            => owner'[t] = owner'[u]
    BY DEF ActiveVersions, SameHolder
  <2>1. /\ ~(row[t].status = "ACTIVE" /\ row[u].status = "ACTIVE")
        /\ ~(draft[t].status = "ACTIVE" /\ draft[u].status = "ACTIVE")
        /\ draft[t].status = "ACTIVE" /\ row[u].status = "ACTIVE" => owner[t] = owner[u]
        /\ draft[u].status = "ACTIVE" /\ row[t].status = "ACTIVE" => owner[t] = owner[u]
    BY DEF ActiveVersions, SameHolder
  <2>2. /\ row'[t] = IF owner[t] = x THEN draft[t] ELSE row[t]
        /\ row'[u] = IF owner[u] = x THEN draft[u] ELSE row[u]
        /\ owner'[t] = IF owner[t] = x THEN NoTxn ELSE owner[t]
        /\ owner'[u] = IF owner[u] = x THEN NoTxn ELSE owner[u]
        /\ draft' = draft
    OBVIOUS
  <2> QED BY <2>1, <2>2
<1> QED BY <1>1, <1>2, <1>3

(* ROLLBACK returns to the committed version without meeting another draft. *)
LEMMA RollbackKeeps ==
  ASSUME StoreAssumption, RowTypes, Versions, ActiveVersions,
         NEW x \in Txns, RollbackRows(x)
  PROVE  RowTypes' /\ Versions' /\ ActiveVersions'
<1> USE DEF RollbackRows, ReleaseRows
<1>1. RowTypes'
  BY DEF RowTypes
<1>2. Versions'
  BY DEF Versions, RowTypes
<1>3. ActiveVersions'
  <2> SUFFICES ASSUME NEW t \in Tokens, NEW u \in Tokens, SameHolder(t, u), t # u
               PROVE  /\ ~(row'[t].status = "ACTIVE" /\ row'[u].status = "ACTIVE")
                      /\ ~(draft'[t].status = "ACTIVE" /\ draft'[u].status = "ACTIVE")
                      /\ draft'[t].status = "ACTIVE" /\ row'[u].status = "ACTIVE"
                            => owner'[t] = owner'[u]
    BY DEF ActiveVersions, SameHolder
  <2>1. /\ ~(row[t].status = "ACTIVE" /\ row[u].status = "ACTIVE")
        /\ ~(draft[t].status = "ACTIVE" /\ draft[u].status = "ACTIVE")
        /\ draft[t].status = "ACTIVE" /\ row[u].status = "ACTIVE" => owner[t] = owner[u]
        /\ draft[u].status = "ACTIVE" /\ row[t].status = "ACTIVE" => owner[t] = owner[u]
    BY DEF ActiveVersions, SameHolder
  <2>2. /\ draft'[t] = IF owner[t] = x THEN row[t] ELSE draft[t]
        /\ draft'[u] = IF owner[u] = x THEN row[u] ELSE draft[u]
        /\ owner'[t] = IF owner[t] = x THEN NoTxn ELSE owner[t]
        /\ owner'[u] = IF owner[u] = x THEN NoTxn ELSE owner[u]
        /\ row' = row
    OBVIOUS
  <2> QED BY <2>1, <2>2
<1> QED BY <1>1, <1>2, <1>3

-----------------------------------------------------------------------------
(* Every action is a row step of one transaction *)

(* What a step of x leaves of the procedure state. *)
ProcStep(x) ==
  /\ ProcTypes'
  /\ OwnsAt(x)'
  /\ \A y \in Txns \ {x} : pc'[y] = pc[y] /\ arg'[y] = arg[y]

(* A session that runs nothing has well-formed variables. *)
LEMMA NoArgType ==
  ASSUME StoreAssumption
  PROVE  NoArg \in Arg
BY DEF NoArg, Arg, Status, Reason, RequestStatus

(* No step of x takes a row lock away from another transaction. *)
LEMMA OthersKeepRows ==
  ASSUME StoreAssumption, RowTypes, NEW x \in Txns, RowStep(x),
         NEW y \in Txns \ {x}, NEW t \in Tokens, owner[t] = y
  PROVE  owner'[t] = y
<1>1. ASSUME NEW S, NEW version, GoodWrite(x, S, version)
      PROVE  owner'[t] = y
  BY <1>1 DEF GoodWrite, Write, RowFree, StoreAssumption
<1>2. CASE CommitRows(x)
  BY <1>2 DEF CommitRows, ReleaseRows
<1>3. CASE RollbackRows(x)
  BY <1>3 DEF RollbackRows, ReleaseRows
<1> QED BY <1>1, <1>2, <1>3 DEF RowStep

(* A row step with a procedure step keeps the whole invariant. *)
LEMMA StepKeeps ==
  ASSUME StoreAssumption, IInv, NEW x \in Txns, RowStep(x), ProcStep(x)
  PROVE  IInv'
<1>1. RowTypes /\ Versions /\ ActiveVersions /\ Owns
  BY DEF IInv, TypeOK, RowTypes
<1>2. RowTypes' /\ Versions' /\ ActiveVersions'
  <2>1. ASSUME NEW S, NEW version, GoodWrite(x, S, version)
        PROVE  RowTypes' /\ Versions' /\ ActiveVersions'
    BY <1>1, <2>1, GoodWriteKeeps
  <2>2. CASE CommitRows(x)
    BY <1>1, <2>2, CommitKeeps
  <2>3. CASE RollbackRows(x)
    BY <1>1, <2>3, RollbackKeeps
  <2>4. CASE UNCHANGED <<row, draft, owner>>
    BY <1>1, <2>4 DEF RowTypes, Versions, ActiveVersions
  <2> QED BY <2>1, <2>2, <2>3, <2>4 DEF RowStep
<1>3. Owns'
  <2> SUFFICES ASSUME NEW y \in Txns PROVE OwnsAt(y)'
    BY DEF Owns
  <2>1. CASE y = x
    BY <2>1 DEF ProcStep
  <2>2. CASE y # x
    <3>1. pc'[y] = pc[y] /\ arg'[y] = arg[y] /\ OwnsAt(y)
      BY <1>1, <2>2 DEF ProcStep, Owns
    <3>2. \A t \in Tokens : owner[t] = y => owner'[t] = y
      BY <1>1, <2>2, OthersKeepRows
    <3> QED BY <3>1, <3>2 DEF OwnsAt, Mine
  <2> QED BY <2>1, <2>2
<1> QED BY <1>2, <1>3 DEF IInv, TypeOK, RowTypes, ProcStep, ProcTypes

(* COMMIT and ROLLBACK leave the session idle and release only its own locks. *)
LEMMA EndTypes ==
  ASSUME StoreAssumption, ProcTypes, NEW x \in Txns, End(x)
  PROVE  /\ pc' \in [Txns -> PCs] /\ arg' \in [Txns -> Arg]
         /\ revokeLock' \in [Agencies -> Txns \cup {NoTxn}]
         /\ recoveryLock' \in [Individuals -> Txns \cup {NoTxn}]
         /\ OwnsAt(x)'
         /\ \A y \in Txns \ {x} : pc'[y] = pc[y] /\ arg'[y] = arg[y]
<1>1. pc' \in [Txns -> PCs] /\ pc'[x] = "idle"
  BY DEF End, ProcTypes, PCs
<1>2. arg' \in [Txns -> Arg]
  BY NoArgType DEF End, ProcTypes
<1> QED BY <1>1, <1>2 DEF End, ProcTypes, OwnsAt

(* Whatever raised it, a rollback is a step of the one transaction. *)
LEMMA RollbackStep ==
  ASSUME StoreAssumption, ProcTypes, NEW x \in Txns, Rollback(x)
  PROVE  RowStep(x) /\ ProcStep(x)
<1>1. holderLock' \in [Individuals -> Txns \cup {NoTxn}] /\ holderRefs' \in [Individuals -> SUBSET Txns]
  BY DEF Rollback, RollbackRows, ReleaseRows, ProcTypes
<1> QED BY <1>1, EndTypes DEF Rollback, RowStep, ProcStep, ProcTypes

(* COMMIT publishes the transaction and closes the request it decided. *)
LEMMA CommitStep ==
  ASSUME StoreAssumption, ProcTypes, NEW x \in Txns, Commit(x)
  PROVE  RowStep(x) /\ ProcStep(x)
<1>1. holderLock' \in [Individuals -> Txns \cup {NoTxn}] /\ holderRefs' \in [Individuals -> SUBSET Txns]
  BY DEF Commit, CommitRows, ReleaseRows, ProcTypes
<1>2. arg[x].decision \in RequestStatus
  BY DEF ProcTypes, Arg
<1>3. request' \in [Individuals -> RequestStatus]
  BY <1>2 DEF Commit, ProcTypes
<1> QED BY <1>1, <1>3, EndTypes DEF Commit, RowStep, ProcStep, ProcTypes

(* A call starts a transaction with well-formed variables. *)
LEMMA BeginTypes ==
  ASSUME LifecycleAssumption, ProcTypes, NEW x \in Txns, NEW label \in PCs, NEW a \in Arg,
         Begin(x, label, a)
  PROVE  /\ pc' \in [Txns -> PCs] /\ arg' \in [Txns -> Arg]
         /\ pc'[x] = label
         /\ arg'[x] \in Arg
         /\ arg'[x].tok = a.tok /\ arg'[x].alt = a.alt /\ arg'[x].batch = a.batch
         /\ arg'[x].status = a.status
         /\ \A y \in Txns \ {x} : pc'[y] = pc[y] /\ arg'[y] = arg[y]
<1> DEFINE b == [a EXCEPT !.start = clock]
<1>1. clock \in Nat
  BY DEF ProcTypes, LifecycleAssumption
<1>2. b \in Arg /\ b.tok = a.tok /\ b.alt = a.alt /\ b.batch = a.batch
      /\ b.status = a.status
  BY <1>1 DEF Arg
<1> HIDE DEF b
<1>3. arg' = [arg EXCEPT ![x] = b]
  BY DEF Begin, b
<1> QED BY <1>2, <1>3 DEF Begin, ProcTypes

(* A statement that only moves on leaves the variables as they were. *)
LEMMA GotoTypes ==
  ASSUME ProcTypes, NEW x \in Txns, NEW label \in PCs, Goto(x, label)
  PROVE  /\ pc' \in [Txns -> PCs] /\ arg' \in [Txns -> Arg]
         /\ pc'[x] = label /\ arg' = arg
         /\ \A y \in Txns \ {x} : pc'[y] = pc[y] /\ arg'[y] = arg[y]
BY DEF Goto, ProcTypes

(* A write of one row to a status other than ACTIVE obeys the index trivially,
   and so does one that leaves an ACTIVE row ACTIVE or that the index admits. *)
LEMMA OneRowWrite ==
  ASSUME NEW x \in Txns, NEW t, NEW version,
         Write(x, {t}, [u \in {t} |-> version]), row' = row,
         t \in Tokens => version \in TokenRow /\ RowFree(x, t),
         t \in Tokens /\ version.status = "ACTIVE" =>
           draft[t].status = "ACTIVE" \/ IndexAdmits(x, t)
  PROVE  RowStep(x)
<1> DEFINE S == {t}
           f == [u \in {t} |-> version]
<1>1. f[t] = version
  OBVIOUS
<1>2. GoodWrite(x, S, f)
  BY <1>1 DEF GoodWrite, IndexAdmits
<1> QED BY <1>2 DEF RowStep

(* uc1_issue_and_activate: the new holder has no other token the index could meet. *)
LEMMA UC1Step ==
  ASSUME StoreAssumption, LifecycleAssumption, RowTypes, ProcTypes,
         NEW x \in Txns, NEW t \in Tokens, UC1(x, t)
  PROVE  RowStep(x) /\ ProcStep(x)
<1> DEFINE new == SetStatus(Issued(NoRow, clock), "ACTIVE", "ISSUE", clock)
<1>1. clock \in Nat
  BY DEF ProcTypes, LifecycleAssumption
<1>2. new \in TokenRow
  BY <1>1, IssuedType, SetStatusType, LoggedStatuses
<1>3. IndexAdmits(x, t) /\ RowFree(x, t)
  BY DEF UC1, FreshHolder, IndexAdmits, IndexEntries, InFlight, RowFree, Visible, SameHolder,
         StoreAssumption
<1> HIDE DEF new
<1>4. Write(x, {t}, [u \in {t} |-> new]) /\ row' = row
  BY DEF UC1, new
<1>5. RowStep(x)
  BY <1>2, <1>3, <1>4, OneRowWrite
<1>6. ProcStep(x)
  BY NoArgType, BeginTypes DEF UC1, ProcStep, ProcTypes, PCs, OwnsAt, ReferHolders, advisoryLocks
<1> QED BY <1>5, <1>6

(* uc_bulk_issue inserts RESERVE rows, which the index does not hold. *)
LEMMA BulkInsertStep ==
  ASSUME StoreAssumption, LifecycleAssumption, RowTypes, ProcTypes,
         NEW x \in Txns, NEW S \in SUBSET Tokens, BulkInsert(x, S)
  PROVE  RowStep(x) /\ ProcStep(x)
<1> DEFINE new == Issued(NoRow, clock)
           a == [NoArg EXCEPT !.batch = S]
<1>1. clock \in Nat
  BY DEF ProcTypes, LifecycleAssumption
<1>2. new \in TokenRow /\ new.status = "RESERVE"
  BY <1>1, IssuedType
<1>3. a \in Arg /\ a.batch = S
  BY NoArgType DEF Arg
<1> HIDE DEF new, a
<1>4. Write(x, S, [t \in S |-> new]) /\ row' = row /\ Begin(x, "bulk_activate", a)
  BY DEF BulkInsert, new, a
<1>5. GoodWrite(x, S, [t \in S |-> new])
  BY <1>2, <1>4 DEF GoodWrite, BulkInsert, RowFree
<1>6. pc'[x] = "bulk_activate" /\ arg'[x].batch = S /\ \A t \in S : Mine(x, t)'
  BY <1>3, <1>4, BeginTypes DEF PCs, Write, Mine
<1>7. ProcStep(x)
  BY <1>3, <1>4, <1>6, BeginTypes
     DEF BulkInsert, ProcStep, ProcTypes, PCs, OwnsAt, ReferHolders, advisoryLocks
<1> QED BY <1>5, <1>7 DEF RowStep

(* uc_bulk_issue activates a batch with one token per holder, or none of it. *)
LEMMA BulkActivateStep ==
  ASSUME StoreAssumption, RowTypes, ProcTypes, NEW x \in Txns, OwnsAt(x), BulkActivate(x)
  PROVE  RowStep(x) /\ ProcStep(x)
<1>1. CASE Rollback(x)
  BY <1>1, RollbackStep
<1>2. CASE ~Rollback(x)
  <2> DEFINE S == arg[x].batch
             f == [t \in S |-> SetStatus(draft[t], "ACTIVE", "ISSUE", arg[x].start)]
  <2>1. /\ BulkAdmits(x) /\ Write(x, S, f) /\ Goto(x, "commit")
        /\ UNCHANGED <<row, holderLock, holderRefs, clock, advisoryLocks, request>>
    BY <1>2 DEF BulkActivate
  <2>2. \A t \in S : Mine(x, t)
    BY DEF BulkActivate, OwnsAt
  <2>3. arg[x].start \in Nat
    BY DEF ProcTypes, Arg
  <2>4. ASSUME NEW t \in S
        PROVE  f[t] \in TokenRow /\ RowFree(x, t)
    BY <2>2, <2>3, SetStatusType, LoggedStatuses DEF Mine, RowFree, RowTypes
  <2>5. \A t \in S : IndexEntries(x, t) = {} /\ \A u \in S : SameHolder(t, u) => t = u
    BY <2>1 DEF BulkAdmits, IndexAdmits
  <2> HIDE DEF f, S
  <2>6. GoodWrite(x, S, f)
    BY <2>1, <2>4, <2>5 DEF GoodWrite
  <2>7. ProcStep(x)
    BY <2>1, GotoTypes DEF ProcStep, ProcTypes, PCs, OwnsAt, advisoryLocks
  <2> QED BY <2>6, <2>7 DEF RowStep
<1> QED BY <1>1, <1>2

(* An activation that the index admits. *)
LEMMA ActivateRowStep ==
  ASSUME StoreAssumption, RowTypes, ProcTypes, NEW x \in Txns, NEW t \in Tokens,
         Mine(x, t), NEW reason \in Reason, ActivateRow(x, t, reason)
  PROVE  RowStep(x) /\ ProcStep(x)
<1>1. CASE Rollback(x)
  BY <1>1, RollbackStep
<1>2. CASE ~Rollback(x)
  <2> DEFINE new == SetStatus(draft[t], "ACTIVE", reason, arg[x].start)
  <2>1. /\ IndexAdmits(x, t) /\ Write(x, {t}, [u \in {t} |-> new]) /\ Goto(x, "commit")
        /\ UNCHANGED <<row, holderLock, holderRefs, clock, advisoryLocks, request>>
    BY <1>2 DEF ActivateRow
  <2>2. RowFree(x, t) /\ arg[x].start \in Nat
    BY DEF Mine, RowFree, ProcTypes, Arg
  <2>3. new \in TokenRow
    BY <2>2, SetStatusType, LoggedStatuses DEF RowTypes
  <2> HIDE DEF new
  <2>4. RowStep(x)
    BY <2>1, <2>2, <2>3, OneRowWrite
  <2> QED BY <2>1, <2>4, GotoTypes DEF ProcStep, ProcTypes, PCs, OwnsAt, advisoryLocks
<1> QED BY <1>1, <1>2

(* tokens_transition is called: nothing is written yet. *)
LEMMA TransitionStep ==
  ASSUME StoreAssumption, LifecycleAssumption, ProcTypes,
         NEW x \in Txns, NEW t \in Tokens, NEW s \in Status, Transition(x, t, s)
  PROVE  RowStep(x) /\ ProcStep(x)
<1> DEFINE a == [NoArg EXCEPT !.tok = t, !.status = s]
<1>1. a \in Arg /\ a.tok = t
  BY NoArgType DEF Arg
<1> HIDE DEF a
<1>2. Begin(x, "transition", a) /\ UNCHANGED <<storeVars, advisoryLocks, request>>
  BY DEF Transition, a
<1> QED BY <1>1, <1>2, BeginTypes
        DEF RowStep, ProcStep, ProcTypes, PCs, OwnsAt, storeVars, advisoryLocks

(* The operator's UPDATE: an activation only locks the row, and any other
   status the triggers admit leaves the index alone. *)
LEMMA TransitionUpdateStep ==
  ASSUME StoreAssumption, RowTypes, ProcTypes, NEW x \in Txns, OwnsAt(x), TransitionUpdate(x)
  PROVE  RowStep(x) /\ ProcStep(x)
<1>1. CASE Rollback(x)
  BY <1>1, RollbackStep
<1>2. CASE ~Rollback(x)
  <2> DEFINE t == arg[x].tok
             s == arg[x].status
             activates == s = "ACTIVE" /\ draft[t].status # "ACTIVE"
             set == SetStatus(draft[t], s, "TRANSITION", arg[x].start)
             new == IF activates THEN draft[t] ELSE set
             label == IF activates THEN "transition_index" ELSE "commit"
  <2>1. /\ TransitionAdmits(x) /\ Write(x, {t}, [u \in {t} |-> new]) /\ Goto(x, label)
        /\ UNCHANGED <<row, holderLock, holderRefs, clock, advisoryLocks, request>>
    BY <1>2 DEF TransitionUpdate
  <2>2. /\ t \in Tokens /\ RowFree(x, t) /\ arg[x].start \in Nat
        /\ s \in Status /\ draft[t] \in TokenRow /\ draft[t].status \in Status
    BY DEF TransitionUpdate, OwnsAt, ProcTypes, Arg, RowTypes, TokenRow
  <2>3. draft[t].status = s \/ EventFor(s) \in EventType
    BY <2>1, <2>2, AdmittedHasEvent DEF TransitionAdmits
  <2>4. set \in TokenRow /\ set.status = s
    <3> DEFINE old == draft[t]
               now == arg[x].start
    <3>1. /\ old \in TokenRow /\ now \in Nat /\ s \in Status /\ "TRANSITION" \in Reason
          /\ old.status = s \/ EventFor(s) \in EventType
      BY <2>2, <2>3, LoggedStatuses
    <3> HIDE DEF s, now, old
    <3>2. SetStatus(old, s, "TRANSITION", now) \in TokenRow /\ SetStatus(old, s, "TRANSITION", now).status = s
      BY <3>1, SetStatusType
    <3> QED BY <3>2 DEF old, now
  <2> HIDE DEF set
  <2>5. new \in TokenRow /\ (new.status = "ACTIVE" => draft[t].status = "ACTIVE")
    <3>1. CASE activates
      BY <2>2, <3>1
    <3>2. CASE ~activates
      <4>1. new = set
        BY <3>2
      <4> QED BY <2>4, <3>2, <4>1
    <3> QED BY <3>1, <3>2
  <2>6. label \in PCs /\ label \in {"transition_index", "commit"}
    BY DEF PCs
  <2> HIDE DEF new, label
  <2>7. RowStep(x)
    BY <2>1, <2>2, <2>5, OneRowWrite
  <2>8. owner'[t] = x
    BY <2>1, <2>2 DEF Write
  <2> QED BY <2>1, <2>2, <2>6, <2>7, <2>8, GotoTypes
          DEF ProcStep, ProcTypes, OwnsAt, Mine, advisoryLocks
<1> QED BY <1>1, <1>2

(* tokens_transition to ACTIVE passes the index like any activation. *)
LEMMA TransitionActivateStep ==
  ASSUME StoreAssumption, RowTypes, ProcTypes, NEW x \in Txns, OwnsAt(x), TransitionActivate(x)
  PROVE  RowStep(x) /\ ProcStep(x)
<1>1. Mine(x, arg[x].tok) /\ arg[x].tok \in Tokens
  BY DEF TransitionActivate, OwnsAt, Mine
<1> QED BY <1>1, ActivateRowStep, LoggedStatuses DEF TransitionActivate

(* uc4_activate_reserve reads the two tokens without a lock. *)
LEMMA UC4CallStep ==
  ASSUME StoreAssumption, LifecycleAssumption, ProcTypes, NEW x \in Txns,
         NEW lost \in Tokens, NEW reserve \in Tokens, NEW reason, UC4(x, lost, reserve, reason)
  PROVE  RowStep(x) /\ ProcStep(x)
<1> DEFINE a == [NoArg EXCEPT !.tok = lost, !.alt = reserve, !.status = TerminalFor(reason)]
<1>1. a \in Arg /\ a.tok = lost /\ a.alt = reserve /\ a.status \in {"LOST", "REVOKED"}
  BY NoArgType DEF Arg, TerminalFor, Status
<1> HIDE DEF a
<1>2. Begin(x, "uc4_holder", a) /\ UNCHANGED <<storeVars, advisoryLocks, request>>
  BY DEF UC4, a
<1> QED BY <1>1, <1>2, BeginTypes
        DEF RowStep, ProcStep, ProcTypes, PCs, OwnsAt, storeVars, advisoryLocks

(* uc4_activate_reserve locks the Individual row. *)
LEMMA UC4LockHolderStep ==
  ASSUME ProcTypes, NEW x \in Txns, OwnsAt(x), UC4LockHolder(x)
  PROVE  RowStep(x) /\ ProcStep(x)
<1>1. holderLock' \in [Individuals -> Txns \cup {NoTxn}]
  BY DEF UC4LockHolder, LockHolder, ProcTypes
<1> QED BY <1>1, GotoTypes
        DEF UC4LockHolder, RowStep, ProcStep, ProcTypes, PCs, OwnsAt, advisoryLocks

(* SELECT ... FOR UPDATE takes the lock and leaves the version as it was. *)
LEMMA RelockStep ==
  ASSUME StoreAssumption, RowTypes, ProcTypes, NEW x \in Txns, NEW t \in Tokens,
         NEW wanted, NEW label \in PCs, Relock(x, t, wanted, label),
         ~Rollback(x)
  PROVE  /\ RowStep(x)
         /\ ProcTypes'
         /\ pc'[x] = label /\ arg' = arg /\ owner'[t] = x
         /\ \A u \in Tokens : owner[u] = x => owner'[u] = x
         /\ \A y \in Txns \ {x} : pc'[y] = pc[y] /\ arg'[y] = arg[y]
<1>1. /\ RowFree(x, t) /\ Write(x, {t}, [u \in {t} |-> draft[t]]) /\ Goto(x, label)
      /\ UNCHANGED <<row, holderLock, holderRefs, clock, advisoryLocks, request>>
  BY DEF Relock
<1>2. RowStep(x)
  <2>1. draft[t] \in TokenRow /\ row' = row
    BY <1>1 DEF RowTypes
  <2> QED BY <1>1, <2>1, OneRowWrite, ZenonT(30)
<1> QED BY <1>1, <1>2, GotoTypes DEF Write, ProcTypes, advisoryLocks

(* uc4_activate_reserve locks the lost token and reads its status again. *)
LEMMA UC4LockLostStep ==
  ASSUME StoreAssumption, RowTypes, ProcTypes, NEW x \in Txns, OwnsAt(x), UC4LockLost(x)
  PROVE  RowStep(x) /\ ProcStep(x)
<1>1. CASE Rollback(x)
  BY <1>1, RollbackStep
<1>2. CASE ~Rollback(x)
  <2>1. /\ arg[x].tok \in Tokens /\ arg[x].alt \in Tokens
        /\ arg[x].status \in {"LOST", "REVOKED"}
    BY DEF UC4LockLost, OwnsAt
  <2>2. "uc4_reserve" \in PCs /\ Relock(x, arg[x].tok, "ACTIVE", "uc4_reserve")
    BY DEF UC4LockLost, PCs
  <2> QED BY <1>2, <2>1, <2>2, RelockStep DEF ProcStep, OwnsAt, Mine
<1> QED BY <1>1, <1>2

(* uc4_activate_reserve locks the reserve and reads its status again. *)
LEMMA UC4LockReserveStep ==
  ASSUME StoreAssumption, RowTypes, ProcTypes, NEW x \in Txns, OwnsAt(x), UC4LockReserve(x)
  PROVE  RowStep(x) /\ ProcStep(x)
<1>1. CASE Rollback(x)
  BY <1>1, RollbackStep
<1>2. CASE ~Rollback(x)
  <2>1. /\ arg[x].tok \in Tokens /\ arg[x].alt \in Tokens /\ owner[arg[x].tok] = x
        /\ arg[x].status \in {"LOST", "REVOKED"}
    BY DEF UC4LockReserve, OwnsAt, Mine
  <2>2. "uc4_swap" \in PCs /\ Relock(x, arg[x].alt, "RESERVE", "uc4_swap")
    BY DEF UC4LockReserve, PCs
  <2> QED BY <1>2, <2>1, <2>2, RelockStep DEF ProcStep, OwnsAt, Mine
<1> QED BY <1>1, <1>2

(* The swap releases the lost token's index entry before it adds the reserve's. *)
LEMMA UC4SwapStep ==
  ASSUME StoreAssumption, RowTypes, ProcTypes, NEW x \in Txns, OwnsAt(x), UC4Swap(x)
  PROVE  RowStep(x) /\ ProcStep(x)
<1>1. CASE Rollback(x)
  BY <1>1, RollbackStep
<1>2. CASE ~Rollback(x)
  <2> DEFINE lost == arg[x].tok
             reserve == arg[x].alt
  <2>1. /\ SwapAdmits(x)
        /\ IndexEntries(x, reserve) \ {lost} = {}
        /\ Goto(x, "commit")
        /\ UNCHANGED <<row, holderLock, holderRefs, clock, advisoryLocks, request>>
    BY <1>2 DEF UC4Swap
  <2>2. PICK m \in Tokens :
          Write(x, {lost, reserve}, [t \in {lost, reserve} |->
                  IF t = lost THEN SwappedOut(x)
                  ELSE SwappedIn(x, Visible(x, m).activation_sequence + 1)])
    BY <1>2 DEF UC4Swap
  <2>3. /\ lost \in Tokens /\ reserve \in Tokens /\ owner[lost] = x /\ owner[reserve] = x
        /\ arg[x].start \in Nat /\ arg[x].status \in {"LOST", "REVOKED"}
        /\ draft[lost] \in TokenRow /\ draft[reserve] \in TokenRow
    BY DEF UC4Swap, OwnsAt, Mine, ProcTypes, Arg, RowTypes
  <2> DEFINE seq == Visible(x, m).activation_sequence + 1
             f == [t \in {lost, reserve} |-> IF t = lost THEN SwappedOut(x) ELSE SwappedIn(x, seq)]
  <2>4. SwappedOut(x) \in TokenRow /\ SwappedOut(x).status = arg[x].status
    <3>1. arg[x].status \in Status /\ EventFor(arg[x].status) \in EventType
      BY <2>3, LoggedStatuses
    <3> DEFINE status == arg[x].status
               now == arg[x].start
               old == draft[lost]
               dead == SetStatus(old, status, "UC4", now)
    <3>2. old \in TokenRow /\ "UC4" \in Reason /\ now \in Nat
      BY <2>3, LoggedStatuses
    <3>3. SwappedOut(x) = Published(dead)
      BY DEF SwappedOut
    <3> HIDE DEF status, now, old
    <3>4. dead \in TokenRow /\ dead.status = status
      BY <3>1, <3>2, SetStatusType DEF status
    <3> HIDE DEF dead
    <3> QED BY <3>3, <3>4, PublishedType DEF status
  <2>5. SwappedIn(x, seq) \in TokenRow
    <3>1. SetStatus(draft[reserve], "ACTIVE", "UC4", arg[x].start) \in TokenRow
      BY <2>3, SetStatusType, LoggedStatuses
    <3>2. seq \in Nat
      BY DEF Visible, RowTypes, TokenRow
    <3> HIDE DEF seq
    <3> QED BY <2>3, <3>1, <3>2 DEF SwappedIn, TokenRow
  <2> HIDE DEF seq
  <2>6. GoodWrite(x, {lost, reserve}, f)
    <3>1. Write(x, {lost, reserve}, f) /\ UNCHANGED row
      BY <2>1, <2>2 DEF seq
    <3>2. \A t \in {lost, reserve} : f[t] \in TokenRow /\ RowFree(x, t)
      BY <2>3, <2>4, <2>5 DEF RowFree
    <3> QED BY <2>1, <2>3, <2>4, <3>1, <3>2 DEF GoodWrite
  <2>7. ProcStep(x)
    BY <2>1, GotoTypes DEF ProcStep, ProcTypes, PCs, OwnsAt, advisoryLocks
  <2> QED BY <2>6, <2>7 DEF RowStep
<1> QED BY <1>1, <1>2

(* uc8_revoke_token is called: nothing is written yet. *)
LEMMA UC8CallStep ==
  ASSUME StoreAssumption, LifecycleAssumption, ProcTypes, NEW x \in Txns,
         NEW t \in Tokens, NEW cosigner \in {"none", "invalid", "valid"}, UC8(x, t, cosigner)
  PROVE  RowStep(x) /\ ProcStep(x)
<1> DEFINE a == [NoArg EXCEPT !.tok = t, !.cosigner = cosigner,
                   !.reason = IF cosigner = "none" THEN "UC8" ELSE "UC8_COSIGN"]
<1>1. a \in Arg
  BY NoArgType DEF Arg, Reason
<1> HIDE DEF a
<1>2. Begin(x, "uc8_lock", a) /\ UNCHANGED <<storeVars, advisoryLocks, request>>
  BY DEF UC8, a
<1> QED BY <1>1, <1>2, BeginTypes
        DEF RowStep, ProcStep, ProcTypes, PCs, OwnsAt, storeVars, advisoryLocks

(* uc8_revoke_token takes the advisory lock of the agency. *)
LEMMA UC8LockStep ==
  ASSUME ProcTypes, NEW x \in Txns, UC8Lock(x)
  PROVE  RowStep(x) /\ ProcStep(x)
<1>1. revokeLock' \in [Agencies -> Txns \cup {NoTxn}]
  BY DEF UC8Lock, ProcTypes
<1> QED BY <1>1, GotoTypes DEF UC8Lock, RowStep, ProcStep, ProcTypes, PCs, OwnsAt, storeVars

(* uc8_revoke_token checks the status and the rate, or raises. *)
LEMMA UC8CheckStep ==
  ASSUME StoreAssumption, ProcTypes, NEW x \in Txns, UC8Check(x)
  PROVE  RowStep(x) /\ ProcStep(x)
<1>1. CASE Rollback(x)
  BY <1>1, RollbackStep
<1>2. CASE ~Rollback(x)
  BY <1>2, GotoTypes
     DEF UC8Check, RowStep, ProcStep, ProcTypes, PCs, OwnsAt, storeVars, advisoryLocks
<1> QED BY <1>1, <1>2

(* Voiding a row writes a terminal status, so the index has nothing to say. *)
LEMMA VoidRowStep ==
  ASSUME StoreAssumption, RowTypes, ProcTypes, NEW x \in Txns, NEW t,
         NEW s \in {"REVOKED", "LOST"}, NEW reason \in Reason, NEW label \in PCs,
         NEW rest \in SUBSET Tokens, VoidRow(x, t, s, reason, label, rest), ~Rollback(x)
  PROVE  /\ RowStep(x)
         /\ ProcTypes'
         /\ pc'[x] = label /\ arg'[x].tok = arg[x].tok
         /\ \A u \in Tokens : owner[u] = x => owner'[u] = x
         /\ \A y \in Txns \ {x} : pc'[y] = pc[y] /\ arg'[y] = arg[y]
<1> DEFINE dead == SetStatus(draft[t], s, reason, arg[x].start)
           new == Published(dead)
<1>1. /\ RowFree(x, t)
      /\ Write(x, {t}, [u \in {t} |-> new])
      /\ pc' = [pc EXCEPT ![x] = label]
      /\ arg' = [arg EXCEPT ![x].batch = rest]
      /\ UNCHANGED <<row, holderLock, holderRefs, clock, advisoryLocks, request>>
  BY DEF VoidRow
<1>2. arg[x] \in Arg /\ arg[x].start \in Nat
  BY DEF ProcTypes, Arg
<1>3. s \in Status /\ EventFor(s) \in EventType
  BY LoggedStatuses
<1>4. t \in Tokens => dead \in TokenRow /\ dead.status = s
  BY <1>2, <1>3, SetStatusType DEF RowTypes
<1> HIDE DEF dead
<1>5. t \in Tokens => new \in TokenRow /\ new.status = s
  BY <1>4, PublishedType
<1> HIDE DEF new
<1>6. RowStep(x)
  BY <1>1, <1>5, OneRowWrite
<1> DEFINE b == [arg[x] EXCEPT !.batch = rest]
<1>7. b \in Arg /\ b.tok = arg[x].tok
  BY <1>2 DEF Arg
<1>8. arg' = [arg EXCEPT ![x] = b]
  BY <1>1
<1> HIDE DEF b
<1> QED BY <1>1, <1>6, <1>7, <1>8 DEF ProcTypes, Write, advisoryLocks

(* uc8_revoke_token writes REVOKED and publishes the token. *)
LEMMA UC8UpdateStep ==
  ASSUME StoreAssumption, RowTypes, ProcTypes, NEW x \in Txns, UC8Update(x)
  PROVE  RowStep(x) /\ ProcStep(x)
<1>1. CASE Rollback(x)
  BY <1>1, RollbackStep
<1>2. CASE ~Rollback(x)
  <2>1. arg[x].reason \in Reason
    BY DEF ProcTypes, Arg
  <2>2. VoidRow(x, arg[x].tok, "REVOKED", arg[x].reason, "commit", {}) /\ "commit" \in PCs
    BY DEF UC8Update, PCs
  <2> DEFINE reason == arg[x].reason
             none == {}
  <2>3. none \in SUBSET Tokens
    OBVIOUS
  <2> HIDE DEF reason, none
  <2>4. VoidRow(x, arg[x].tok, "REVOKED", reason, "commit", none) /\ reason \in Reason
    BY <2>1, <2>2 DEF reason, none
  <2>5. /\ RowStep(x) /\ ProcTypes' /\ pc'[x] = "commit"
        /\ \A y \in Txns \ {x} : pc'[y] = pc[y] /\ arg'[y] = arg[y]
    BY <1>2, <2>2, <2>3, <2>4, VoidRowStep, SMTT(60)
  <2> QED BY <2>5 DEF ProcStep, OwnsAt
<1> QED BY <1>1, <1>2

(* uc9_initiate_recovery counts tokens and requests without a lock. *)
LEMMA UC9InitiateStep ==
  ASSUME StoreAssumption, LifecycleAssumption, ProcTypes, NEW x \in Txns,
         NEW t \in Tokens, UC9Initiate(x, t)
  PROVE  RowStep(x) /\ ProcStep(x)
<1> DEFINE a == [NoArg EXCEPT !.tok = t]
<1>1. a \in Arg
  BY NoArgType DEF Arg
<1> HIDE DEF a
<1>2. Begin(x, "uc9_insert_request", a) /\ UNCHANGED <<storeVars, advisoryLocks, request>>
  BY DEF UC9Initiate, a
<1> QED BY <1>1, <1>2, BeginTypes
        DEF RowStep, ProcStep, ProcTypes, PCs, OwnsAt, storeVars, advisoryLocks

(* uc9_initiate_recovery inserts the request, or the pending index refuses it. *)
LEMMA UC9InsertRequestStep ==
  ASSUME StoreAssumption, ProcTypes, NEW x \in Txns, UC9InsertRequest(x)
  PROVE  RowStep(x) /\ ProcStep(x)
<1>1. CASE Rollback(x)
  BY <1>1, RollbackStep
<1>2. CASE ~Rollback(x)
  <2>1. End(x) /\ UNCHANGED storeVars
    BY <1>2 DEF UC9InsertRequest
  <2>2. request' \in [Individuals -> RequestStatus]
    BY <1>2 DEF UC9InsertRequest, ProcTypes, RequestStatus
  <2> QED BY <2>1, <2>2, EndTypes DEF RowStep, ProcStep, ProcTypes, storeVars
<1> QED BY <1>1, <1>2

(* uc9_complete_recovery is called; it owns the id its new token will have. *)
LEMMA UC9CompleteStep ==
  ASSUME StoreAssumption, LifecycleAssumption, RowTypes, ProcTypes, NEW x \in Txns,
         NEW t \in Tokens, NEW decision \in {"APPROVED", "REJECTED"}, UC9Complete(x, t, decision)
  PROVE  RowStep(x) /\ ProcStep(x)
<1> DEFINE a == [NoArg EXCEPT !.tok = t, !.decision = decision]
<1>1. a \in Arg /\ a.tok = t
  BY NoArgType DEF Arg, RequestStatus
<1> HIDE DEF a
<1>2. Begin(x, "uc9_lock", a)
  BY DEF UC9Complete, a
<1> DEFINE new == NoRow
<1>3. Write(x, {t}, [u \in {t} |-> new]) /\ row' = row /\ RowFree(x, t)
  BY DEF UC9Complete, RowFree
<1>4. new \in TokenRow /\ new.status # "ACTIVE"
  BY DEF NoRow, TokenRow, Status, StoreAssumption
<1> HIDE DEF new
<1>5. RowStep(x)
  BY <1>3, <1>4, OneRowWrite, ZenonT(30)
<1>6. owner'[t] = x
  BY <1>3 DEF Write
<1> QED BY <1>1, <1>2, <1>5, <1>6, BeginTypes
        DEF UC9Complete, ProcStep, ProcTypes, PCs, OwnsAt, Mine, advisoryLocks

(* uc9_complete_recovery takes the advisory lock of the person. *)
LEMMA UC9LockStep ==
  ASSUME ProcTypes, NEW x \in Txns, OwnsAt(x), UC9Lock(x)
  PROVE  RowStep(x) /\ ProcStep(x)
<1>1. recoveryLock' \in [Individuals -> Txns \cup {NoTxn}]
  BY DEF UC9Lock, ProcTypes
<1> QED BY <1>1, GotoTypes DEF UC9Lock, RowStep, ProcStep, ProcTypes, PCs, OwnsAt, Mine, storeVars

(* uc9_complete_recovery locks the request and opens the query of its loop. *)
LEMMA UC9RequestStep ==
  ASSUME StoreAssumption, RowTypes, ProcTypes, NEW x \in Txns, OwnsAt(x), UC9Request(x)
  PROVE  RowStep(x) /\ ProcStep(x)
<1>1. CASE Rollback(x)
  BY <1>1, RollbackStep
<1>2. CASE ~Rollback(x)
  <2> DEFINE live == LiveOf(holder[arg[x].tok])
             b == [arg[x] EXCEPT !.batch = IF arg[x].decision = "APPROVED" THEN live ELSE {},
                                 !.seen = [t \in Tokens |-> row[t].status]]
  <2>1. /\ arg' = [arg EXCEPT ![x] = b]
        /\ pc' = [pc EXCEPT ![x] = IF arg[x].decision = "APPROVED" THEN "uc9_loop" ELSE "commit"]
        /\ UNCHANGED <<storeVars, advisoryLocks, request>>
    BY <1>2 DEF UC9Request
  <2>2. arg[x] \in Arg /\ [t \in Tokens |-> row[t].status] \in [Tokens -> Status]
    BY DEF ProcTypes, RowTypes, TokenRow
  <2>3. b \in Arg /\ b.tok = arg[x].tok
    <3>1. live \in SUBSET Tokens
      BY DEF LiveOf
    <3> QED BY <2>2, <3>1 DEF Arg
  <2>4. Mine(x, arg[x].tok)
    BY DEF UC9Request, OwnsAt
  <2> HIDE DEF b
  <2>5. pc' \in [Txns -> PCs] /\ pc'[x] \in {"uc9_loop", "commit"}
    BY <2>1 DEF ProcTypes, PCs
  <2> QED BY <2>1, <2>3, <2>4, <2>5
          DEF RowStep, ProcStep, ProcTypes, OwnsAt, Mine, storeVars, advisoryLocks
<1> QED BY <1>1, <1>2

(* One round of the loop of uc9_complete_recovery voids one token. *)
LEMMA UC9VoidStep ==
  ASSUME StoreAssumption, RowTypes, ProcTypes, NEW x \in Txns, NEW t \in Tokens,
         OwnsAt(x), UC9Void(x, t)
  PROVE  RowStep(x) /\ ProcStep(x)
<1>1. CASE Rollback(x)
  BY <1>1, RollbackStep
<1>2. CASE ~Rollback(x)
  <2> DEFINE s == IF arg[x].seen[t] = "RESERVE" THEN "REVOKED" ELSE "LOST"
             rest == arg[x].batch \ {t}
  <2>1. s \in {"REVOKED", "LOST"} /\ "UC9" \in Reason /\ "uc9_loop" \in PCs
    BY LoggedStatuses DEF PCs
  <2>2. rest \in SUBSET Tokens
    BY DEF ProcTypes, Arg
  <2>3. VoidRow(x, t, s, "UC9", "uc9_loop", rest) /\ Mine(x, arg[x].tok)
    BY DEF UC9Void, OwnsAt
  <2> HIDE DEF s, rest
  <2>4. /\ RowStep(x) /\ ProcTypes' /\ pc'[x] = "uc9_loop" /\ arg'[x].tok = arg[x].tok
        /\ \A u \in Tokens : owner[u] = x => owner'[u] = x
        /\ \A y \in Txns \ {x} : pc'[y] = pc[y] /\ arg'[y] = arg[y]
    BY <1>2, <2>1, <2>2, <2>3, VoidRowStep, SMTT(60)
  <2> QED BY <2>3, <2>4 DEF ProcStep, OwnsAt, Mine
<1> QED BY <1>1, <1>2

(* uc9_complete_recovery inserts the replacement as a RESERVE row. *)
LEMMA UC9InsertStep ==
  ASSUME StoreAssumption, RowTypes, ProcTypes, NEW x \in Txns, OwnsAt(x), UC9Insert(x)
  PROVE  RowStep(x) /\ ProcStep(x)
<1> DEFINE t == arg[x].tok
           new == [NoRow EXCEPT !.status = "RESERVE"]
<1>1. new \in TokenRow /\ new.status # "ACTIVE"
  <2>1. 0 \in Nat
    OBVIOUS
  <2> QED BY <2>1, IssuedType
<1>2. Mine(x, t) /\ RowFree(x, t)
  BY DEF UC9Insert, OwnsAt, Mine, RowFree
<1> HIDE DEF new
<1>3. Write(x, {t}, [u \in {t} |-> new]) /\ row' = row
  BY DEF UC9Insert, new
<1>4. RowStep(x)
  BY <1>1, <1>2, <1>3, OneRowWrite
<1>5. owner'[t] = x /\ t \in Tokens
  BY <1>2, <1>3 DEF Write, Mine
<1>6. holderRefs' \in [Individuals -> SUBSET Txns]
  BY DEF UC9Insert, ReferHolders, ProcTypes
<1> QED BY <1>4, <1>5, <1>6, GotoTypes
        DEF UC9Insert, ProcStep, ProcTypes, PCs, OwnsAt, Mine, advisoryLocks

(* uc9_complete_recovery activates the replacement through the index. *)
LEMMA UC9IssueStep ==
  ASSUME StoreAssumption, RowTypes, ProcTypes, NEW x \in Txns, OwnsAt(x), UC9Issue(x)
  PROVE  RowStep(x) /\ ProcStep(x)
<1>1. Mine(x, arg[x].tok) /\ arg[x].tok \in Tokens
  BY DEF UC9Issue, OwnsAt, Mine
<1> QED BY <1>1, ActivateRowStep, LoggedStatuses DEF UC9Issue

-----------------------------------------------------------------------------
(* The invariant holds of the loaded database and of every step *)

(* The loaded database satisfies the invariant: the seed has one ACTIVE token
   per holder at most. *)
LEMMA InitKeeps ==
  ASSUME StoreAssumption, LifecycleAssumption, Init
  PROVE  IInv
<1>1. \A t \in Tokens : row[t] \in TokenRow /\ row[t].status = seed[t]
  <2> SUFFICES ASSUME NEW t \in Tokens PROVE SeedRow(seed[t]) \in TokenRow /\ SeedRow(seed[t]).status = seed[t]
    BY DEF Init
  <2> DEFINE new == Issued(NoRow, 0)
  <2>1. 0 \in Nat
    OBVIOUS
  <2>2. /\ NoRow \in TokenRow /\ NoRow.status = "NONE"
        /\ new \in TokenRow /\ new.status = "RESERVE"
    BY <2>1, IssuedType DEF NoRow
  <2> HIDE DEF new
  <2>3. /\ SetStatus(new, "ACTIVE", "ISSUE", 0) \in TokenRow
        /\ SetStatus(new, "ACTIVE", "ISSUE", 0).status = "ACTIVE"
    BY <2>1, <2>2, SetStatusType, LoggedStatuses
  <2>4. seed[t] \in {"NONE", "RESERVE", "ACTIVE"}
    BY DEF LifecycleAssumption
  <2> QED BY <2>2, <2>3, <2>4 DEF SeedRow, new
<1>2. RowTypes
  BY <1>1 DEF Init, RowTypes
<1>3. ProcTypes
  BY NoArgType DEF Init, ProcTypes, PCs, RequestStatus, LifecycleAssumption
<1>4. Owns
  BY DEF Init, Owns, OwnsAt
<1>5. Versions
  BY DEF Init, Versions
<1>6. ActiveVersions
  BY <1>1 DEF Init, ActiveVersions, LifecycleAssumption
<1> QED BY <1>2, <1>3, <1>4, <1>5, <1>6 DEF IInv, TypeOK, RowTypes, ProcTypes

(* Every call a client makes is a row step of its transaction. *)
LEMMA CallStep ==
  ASSUME StoreAssumption, LifecycleAssumption, RowTypes, ProcTypes, Versions, ActiveVersions,
         NEW x \in Txns, Call(x)
  PROVE  RowStep(x) /\ ProcStep(x)
<1>1. ASSUME NEW t \in Tokens, UC1(x, t) PROVE RowStep(x) /\ ProcStep(x)
  BY <1>1, UC1Step
<1>2. ASSUME NEW S \in SUBSET Tokens, BulkInsert(x, S) PROVE RowStep(x) /\ ProcStep(x)
  BY <1>2, BulkInsertStep
<1>3. ASSUME NEW t \in Tokens, NEW s \in Targets, Transition(x, t, s)
      PROVE  RowStep(x) /\ ProcStep(x)
  <2>1. s \in Status
    BY DEF LifecycleAssumption
  <2> QED BY <1>3, <2>1, TransitionStep
<1>4. ASSUME NEW lost \in Tokens, NEW reserve \in Tokens, NEW reason \in {"LOST", "COMPROMISED"},
             UC4(x, lost, reserve, reason)
      PROVE  RowStep(x) /\ ProcStep(x)
  BY <1>4, UC4CallStep
<1>5. ASSUME NEW t \in Tokens, NEW cosigner \in Cosigners, UC8(x, t, cosigner)
      PROVE  RowStep(x) /\ ProcStep(x)
  <2>1. cosigner \in {"none", "invalid", "valid"}
    BY DEF LifecycleAssumption
  <2> QED BY <1>5, <2>1, UC8CallStep
<1>6. ASSUME NEW t \in Tokens, UC9Initiate(x, t) PROVE RowStep(x) /\ ProcStep(x)
  BY <1>6, UC9InitiateStep
<1>7. ASSUME NEW t \in Tokens, NEW decision \in {"APPROVED", "REJECTED"}, UC9Complete(x, t, decision)
      PROVE  RowStep(x) /\ ProcStep(x)
  BY <1>7, UC9CompleteStep
<1> QED BY <1>1, <1>2, <1>3, <1>4, <1>5, <1>6, <1>7 DEF Call

(* So is every statement of a transaction that has begun. *)
LEMMA StatementStep ==
  ASSUME StoreAssumption, LifecycleAssumption, RowTypes, ProcTypes, Versions, ActiveVersions,
         NEW x \in Txns, OwnsAt(x), Step(x)
  PROVE  RowStep(x) /\ ProcStep(x)
<1>1. CASE BulkActivate(x)
  BY <1>1, BulkActivateStep
<1>2. CASE UC4LockHolder(x)
  BY <1>2, UC4LockHolderStep
<1>3. CASE UC4LockLost(x)
  BY <1>3, UC4LockLostStep
<1>4. CASE UC4LockReserve(x)
  BY <1>4, UC4LockReserveStep
<1>5. CASE UC4Swap(x)
  BY <1>5, UC4SwapStep
<1>6. CASE UC8Lock(x)
  BY <1>6, UC8LockStep
<1>7. CASE UC8Check(x)
  BY <1>7, UC8CheckStep
<1>8. CASE UC8Update(x)
  BY <1>8, UC8UpdateStep
<1>9. CASE UC9InsertRequest(x)
  BY <1>9, UC9InsertRequestStep
<1>10. CASE UC9Lock(x)
  BY <1>10, UC9LockStep
<1>11. CASE UC9Request(x)
  BY <1>11, UC9RequestStep
<1>12. ASSUME NEW t \in Tokens, UC9Void(x, t) PROVE RowStep(x) /\ ProcStep(x)
  BY <1>12, UC9VoidStep
<1>13. CASE UC9Insert(x)
  BY <1>13, UC9InsertStep
<1>14. CASE UC9Issue(x)
  BY <1>14, UC9IssueStep
<1>15. CASE Commit(x)
  BY <1>15, CommitStep
<1>16. CASE TransitionUpdate(x)
  BY <1>16, TransitionUpdateStep
<1>17. CASE TransitionActivate(x)
  BY <1>17, TransitionActivateStep
<1> QED BY <1>1, <1>2, <1>3, <1>4, <1>5, <1>6, <1>7, <1>8, <1>9, <1>10, <1>11, <1>12,
           <1>13, <1>14, <1>15, <1>16, <1>17 DEF Step

(* No step of the system leaves the invariant. *)
LEMMA NextKeeps ==
  ASSUME StoreAssumption, LifecycleAssumption, IInv, [Next]_vars
  PROVE  IInv'
<1>1. RowTypes /\ ProcTypes /\ Versions /\ ActiveVersions /\ Owns
  BY DEF IInv, TypeOK, RowTypes, ProcTypes
<1>2. CASE UNCHANGED vars
  BY <1>2 DEF vars, IInv, TypeOK, Owns, OwnsAt, Mine, Versions, ActiveVersions
<1>3. CASE Tick
  <2>1. clock' \in 0..MaxClock
    BY <1>1, <1>3 DEF Tick, ProcTypes, LifecycleAssumption
  <2> QED BY <1>3, <2>1
          DEF Tick, IInv, TypeOK, Owns, OwnsAt, Mine, Versions, ActiveVersions,
              procVars, advisoryLocks
<1>4. ASSUME NEW x \in Txns, Call(x) \/ Step(x) \/ Crash(x) \/ DeadlockVictim(x)
      PROVE  IInv'
  <2>1. OwnsAt(x)
    BY <1>1 DEF Owns
  <2>2. RowStep(x) /\ ProcStep(x)
    <3>1. CASE Call(x)
      BY <1>1, <3>1, CallStep
    <3>2. CASE Step(x)
      BY <1>1, <2>1, <3>2, StatementStep
    <3>3. CASE Crash(x) \/ DeadlockVictim(x)
      BY <1>1, <3>3, RollbackStep DEF Crash, DeadlockVictim
    <3> QED BY <1>4, <3>1, <3>2, <3>3
  <2> QED BY <2>2, StepKeeps
<1> QED BY <1>2, <1>3, <1>4 DEF Next

(* The strengthened invariant holds throughout. *)
THEOREM Inductive == Spec => []IInv
<1>1. Init => IInv
  BY StoreAssumption, LifecycleAssumption, InitKeeps
<1>2. IInv /\ [Next]_vars => IInv'
  BY StoreAssumption, LifecycleAssumption, NextKeeps
<1> QED BY <1>1, <1>2, PTL DEF Spec

(* Type correctness: whatever procedures the transactions of any number of
   clients interleave, every variable keeps its type. *)
THEOREM TypeCorrect == Spec => []TypeOK
<1>1. IInv => TypeOK
  BY DEF IInv
<1> QED BY <1>1, Inductive, PTL

(* C3: the partial unique index keeps at most one committed ACTIVE token per
   holder, for any number of holders, tokens and concurrent transactions. *)
THEOREM OneActive == Spec => []OneActivePerPerson
<1>1. IInv => OneActivePerPerson
  BY DEF IInv, ActiveVersions, OneActivePerPerson
<1> QED BY <1>1, Inductive, PTL
=============================================================================
