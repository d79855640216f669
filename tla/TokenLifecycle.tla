--------------------------- MODULE TokenLifecycle ---------------------------
(***************************************************************************)
(* The procedures that move credentials through their lifecycle, as        *)
(* transactions whose statements interleave: UC-1 issuance, bulk issuance, *)
(* UC-4 reserve activation, UC-8 bounded revocation, UC-9 recovery, and    *)
(* the operator's direct status change.  A RAISE, a client that goes away  *)
(* and the deadlock detector all end a transaction by rollback.            *)
(***************************************************************************)
EXTENDS TokenStore

CONSTANTS
  Operations,   \* which procedures the clients call
  Targets,      \* statuses the operators ask for in a direct transition
  Cosigners,    \* co-signer arguments of uc8: none, one not authorised, a valid one
  seed,         \* the status of the tokens the database was loaded with
  Window,       \* IssuerDiscretionPolicy.window_days, in clock units
  MaxPercent,   \* IssuerDiscretionPolicy.max_revoke_percent
  MaxClock      \* bound: the clock stops here

ASSUME LifecycleAssumption ==
  /\ Window \in Nat /\ MaxPercent \in Nat /\ MaxClock \in Nat
  /\ Targets \subseteq Status \ {"NONE"}
  /\ Cosigners \subseteq {"none", "invalid", "valid"}
  /\ seed \in [Tokens -> {"NONE", "RESERVE", "ACTIVE"}]
  /\ \A t, u \in Tokens :
       SameHolder(t, u) /\ seed[t] = "ACTIVE" /\ seed[u] = "ACTIVE" => t = u

VARIABLES
  pc,            \* next statement of each transaction
  arg,           \* its parameters and plpgsql variables
  revokeLock,    \* advisory lock 'polaris.revoke.<agency>'
  recoveryLock,  \* advisory lock 'polaris.recovery.<individual>'
  request        \* status of the individual's latest RecoveryRequest

vars == <<row, draft, owner, holderLock, holderRefs, clock,
          pc, arg, revokeLock, recoveryLock, request>>

procVars == <<pc, arg>>
advisoryLocks == <<revokeLock, recoveryLock>>

PCs == {"idle", "commit", "bulk_activate", "transition", "transition_index",
        "uc4_holder", "uc4_lost", "uc4_reserve", "uc4_swap",
        "uc8_lock", "uc8_check", "uc8_update",
        "uc9_insert_request", "uc9_lock", "uc9_request", "uc9_loop", "uc9_issue"}

RequestStatus == {"NONE", "PENDING", "APPROVED", "REJECTED"}

(* tok: the token acted on (the one UC-9 will issue); alt: UC-4's reserve;
   batch: tokens UC-9 has still to void, or a bulk batch; seen: the statuses
   read by UC-9's loop; start: CURRENT_TIMESTAMP, which is the transaction's start. *)
Arg == [tok : Tokens \cup {NoToken}, alt : Tokens \cup {NoToken},
        status : Status, reason : Reason, cosigner : {"none", "invalid", "valid"},
        batch : SUBSET Tokens, seen : [Tokens -> Status],
        decision : RequestStatus, start : Nat]

NoArg == [tok |-> NoToken, alt |-> NoToken, status |-> "NONE", reason |-> "TRANSITION",
          cosigner |-> "none", batch |-> {}, seen |-> [t \in Tokens |-> "NONE"],
          decision |-> "NONE", start |-> 0]

-----------------------------------------------------------------------------
(* Transaction control *)

Goto(x, label) == pc' = [pc EXCEPT ![x] = label] /\ UNCHANGED arg

Begin(x, label, a) ==
  /\ pc[x] = "idle"
  /\ pc' = [pc EXCEPT ![x] = label]
  /\ arg' = [arg EXCEPT ![x] = [a EXCEPT !.start = clock]]

(* Mutant: the recovery lock outlives the transaction. *)
EndKeepingRecovery(x) ==
  /\ pc' = [pc EXCEPT ![x] = "idle"]
  /\ arg' = [arg EXCEPT ![x] = NoArg]
  /\ revokeLock' = [a \in Agencies |-> IF revokeLock[a] = x THEN NoTxn ELSE revokeLock[a]]
  /\ UNCHANGED recoveryLock

End(x) ==
  /\ pc' = [pc EXCEPT ![x] = "idle"]
  /\ arg' = [arg EXCEPT ![x] = NoArg]
  /\ revokeLock' = [a \in Agencies |-> IF revokeLock[a] = x THEN NoTxn ELSE revokeLock[a]]
  /\ recoveryLock' = [i \in Individuals |->
                        IF recoveryLock[i] = x THEN NoTxn ELSE recoveryLock[i]]

Rollback(x) == RollbackRows(x) /\ End(x) /\ UNCHANGED <<request, clock>>

(* COMMIT; UC-9 closes its request in the same transaction. *)
Commit(x) ==
  /\ pc[x] = "commit"
  /\ CommitRows(x)
  /\ request' = IF arg[x].decision = "NONE" THEN request
                ELSE [request EXCEPT ![holder[arg[x].tok]] = arg[x].decision]
  /\ End(x)
  /\ UNCHANGED clock

(* The client or its connection goes away before COMMIT. *)
Crash(x) == pc[x] # "idle" /\ Rollback(x)

-----------------------------------------------------------------------------
(* Issuance *)

Issued(r, now) == [r EXCEPT !.status = "RESERVE",
  !.events = Append(@, [type |-> "ISSUED", reason |-> "ISSUE", at |-> now])]

FreshHolder(i) == \A t \in Tokens : holder[t] = i => row[t].status = "NONE" /\ owner[t] = NoTxn

(* uc1_issue_and_activate always inserts a new Individual, so nothing contends. *)
UC1(x, t) ==
  /\ "uc1" \in Operations
  /\ FreshHolder(holder[t])
  /\ clock <= expires[t]
  /\ Begin(x, "commit", NoArg)
  /\ Write(x, {t}, [u \in {t} |-> SetStatus(Issued(NoRow, clock), "ACTIVE", "ISSUE", clock)])
  /\ ReferHolders(x, {holder[t]})
  /\ UNCHANGED <<row, holderLock, clock, advisoryLocks, request>>

(* uc_bulk_issue up to its activation: staged rows become RESERVE tokens, for
   people who are new or whose earlier token is no longer active. *)
BulkInsert(x, S) ==
  /\ "bulk" \in Operations
  /\ S # {}
  /\ \A t \in S : row[t].status = "NONE" /\ owner[t] = NoTxn
  /\ \A t \in S : HolderReferable(x, holder[t])
  /\ Begin(x, "bulk_activate", [NoArg EXCEPT !.batch = S])
  /\ Write(x, S, [t \in S |-> Issued(NoRow, clock)])
  /\ ReferHolders(x, {holder[t] : t \in S})
  /\ UNCHANGED <<row, holderLock, clock, advisoryLocks, request>>

(* One UPDATE activates the batch: one row the index refuses fails them all. *)
BulkAdmits(x) ==
  LET S == arg[x].batch IN
  /\ \A t \in S : IndexAdmits(x, t) /\ arg[x].start <= expires[t]
  /\ \A t, u \in S : SameHolder(t, u) => t = u

(* Mutant: the rows the index refuses are left in reserve. *)
BulkActivateSome(x) ==
  /\ pc[x] = "bulk_activate"
  /\ LET S == {t \in arg[x].batch : IndexAdmits(x, t)} IN
     Write(x, S, [t \in S |-> SetStatus(draft[t], "ACTIVE", "ISSUE", arg[x].start)])
  /\ Goto(x, "commit")
  /\ UNCHANGED <<row, holderLock, holderRefs, clock, advisoryLocks, request>>

BulkActivate(x) ==
  /\ pc[x] = "bulk_activate"
  /\ LET S == arg[x].batch IN
     \/ /\ BulkAdmits(x)
        /\ Write(x, S, [t \in S |-> SetStatus(draft[t], "ACTIVE", "ISSUE", arg[x].start)])
        /\ Goto(x, "commit")
        /\ UNCHANGED <<row, holderLock, holderRefs, clock, advisoryLocks, request>>
     \/ /\ ~BulkAdmits(x)
        /\ \A t \in S : IndexEntries(x, t) # {} => IndexRefuses(x, t)
        /\ Rollback(x)

-----------------------------------------------------------------------------
(* The index decides an activation, or makes it wait, after the row is locked. *)
ActivateRow(x, t, reason) ==
  \/ /\ IndexAdmits(x, t)
     /\ Write(x, {t}, [u \in {t} |-> SetStatus(draft[t], "ACTIVE", reason, arg[x].start)])
     /\ Goto(x, "commit")
     /\ UNCHANGED <<row, holderLock, holderRefs, clock, advisoryLocks, request>>
  \/ IndexRefuses(x, t) /\ Rollback(x)

(* tokens_transition: one UPDATE by the application role *)
Transition(x, t, s) ==
  /\ "transition" \in Operations
  /\ row[t].status # "NONE"
  /\ Begin(x, "transition", [NoArg EXCEPT !.tok = t, !.status = s])
  /\ UNCHANGED <<storeVars, advisoryLocks, request>>

TransitionAdmits(x) ==
  LET a == arg[x]
      old == draft[a.tok].status
  IN StateMachineAdmits(a.tok, old, a.status, a.start) /\ VelocityAdmits(old, a.status, FALSE)

TransitionUpdate(x) ==
  LET t == arg[x].tok
      s == arg[x].status
      activates == s = "ACTIVE" /\ draft[t].status # "ACTIVE"
  IN
  /\ pc[x] = "transition"
  /\ RowFree(x, t)
  /\ \/ /\ TransitionAdmits(x)
        /\ Write(x, {t}, [u \in {t} |-> IF activates THEN draft[t]
                              ELSE SetStatus(draft[t], s, "TRANSITION", arg[x].start)])
        /\ Goto(x, IF activates THEN "transition_index" ELSE "commit")
        /\ UNCHANGED <<row, holderLock, holderRefs, clock, advisoryLocks, request>>
     \/ ~TransitionAdmits(x) /\ Rollback(x)

TransitionActivate(x) ==
  pc[x] = "transition_index" /\ ActivateRow(x, arg[x].tok, "TRANSITION")

-----------------------------------------------------------------------------
(* uc4_activate_reserve *)

TerminalFor(reason) == IF reason \in {"LOST", "STOLEN"} THEN "LOST" ELSE "REVOKED"

UC4(x, lost, reserve, reason) ==
  /\ "uc4" \in Operations
  /\ row[lost].status = "ACTIVE"
  /\ row[reserve].status = "RESERVE"
  /\ SameHolder(lost, reserve)
  /\ Begin(x, "uc4_holder", [NoArg EXCEPT !.tok = lost, !.alt = reserve,
                                          !.status = TerminalFor(reason)])
  /\ UNCHANGED <<storeVars, advisoryLocks, request>>

UC4LockHolder(x) ==
  /\ pc[x] = "uc4_holder"
  /\ HolderLockable(x, holder[arg[x].tok])
  /\ LockHolder(x, holder[arg[x].tok])
  /\ Goto(x, "uc4_lost")
  /\ UNCHANGED <<row, draft, owner, holderRefs, clock, advisoryLocks, request>>

(* Mutant: the row is locked but its status is not read again. *)
LockOnly(x, t, wanted, label) ==
  /\ RowFree(x, t)
  /\ Write(x, {t}, [u \in {t} |-> draft[t]])
  /\ Goto(x, label)
  /\ UNCHANGED <<row, holderLock, holderRefs, clock, advisoryLocks, request>>

(* SELECT ... FOR UPDATE of t, which must still have the status wanted. *)
Relock(x, t, wanted, label) ==
  /\ RowFree(x, t)
  /\ \/ /\ draft[t].status = wanted
        /\ Write(x, {t}, [u \in {t} |-> draft[t]])
        /\ Goto(x, label)
        /\ UNCHANGED <<row, holderLock, holderRefs, clock, advisoryLocks, request>>
     \/ draft[t].status # wanted /\ Rollback(x)

UC4LockLost(x) ==
  pc[x] = "uc4_lost" /\ Relock(x, arg[x].tok, "ACTIVE", "uc4_reserve")

UC4LockReserve(x) ==
  pc[x] = "uc4_reserve" /\ Relock(x, arg[x].alt, "RESERVE", "uc4_swap")

(* m carries the holder's highest activation_sequence. *)
LatestActivation(x, m, i) ==
  LET tokensOf == {u \in Tokens : holder[u] = i /\ Visible(x, u).status # "NONE"} IN
  /\ m \in tokensOf
  /\ \A u \in tokensOf : Visible(x, u).activation_sequence <= Visible(x, m).activation_sequence

(* What UC-4 leaves of the lost token and of the reserve. *)
SwappedOut(x) ==
  Published(SetStatus(draft[arg[x].tok], arg[x].status, "UC4", arg[x].start))

SwappedIn(x, seq) ==
  [SetStatus(draft[arg[x].alt], "ACTIVE", "UC4", arg[x].start) EXCEPT
     !.predecessor = arg[x].tok, !.activation_sequence = seq]

SwapAdmits(x) ==
  LET a == arg[x] IN
  /\ StateMachineAdmits(a.tok, draft[a.tok].status, a.status, a.start)
  /\ StateMachineAdmits(a.alt, draft[a.alt].status, "ACTIVE", a.start)

(* The two UPDATEs and the publication between them.  The first releases the
   lost token's index entry, so only another token's can stop the second. *)
UC4Swap(x) ==
  LET a == arg[x]
      others == IndexEntries(x, a.alt) \ {a.tok}
  IN
  /\ pc[x] = "uc4_swap"
  /\ \/ /\ SwapAdmits(x)
        /\ others = {}
        /\ \E m \in Tokens :
             /\ LatestActivation(x, m, holder[a.tok])
             /\ Write(x, {a.tok, a.alt}, [t \in {a.tok, a.alt} |->
                        IF t = a.tok THEN SwappedOut(x)
                        ELSE SwappedIn(x, Visible(x, m).activation_sequence + 1)])
        /\ Goto(x, "commit")
        /\ UNCHANGED <<row, holderLock, holderRefs, clock, advisoryLocks, request>>
     \/ /\ ~SwapAdmits(x) \/ \E u \in others : ~InFlight(x, u)
        /\ Rollback(x)

-----------------------------------------------------------------------------
(* uc8_revoke_token *)

UC8(x, t, cosigner) ==
  /\ "uc8" \in Operations
  /\ row[t].status # "NONE"
  /\ Begin(x, "uc8_lock", [NoArg EXCEPT !.tok = t, !.cosigner = cosigner,
                             !.reason = IF cosigner = "none" THEN "UC8" ELSE "UC8_COSIGN"])
  /\ UNCHANGED <<storeVars, advisoryLocks, request>>

UC8Lock(x) ==
  LET a == issuer[arg[x].tok] IN
  /\ pc[x] = "uc8_lock"
  /\ revokeLock[a] = NoTxn
  /\ revokeLock' = [revokeLock EXCEPT ![a] = x]
  /\ Goto(x, "uc8_check")
  /\ UNCHANGED <<storeVars, recoveryLock, request>>

Outstanding(a) == Cardinality({t \in Tokens : issuer[t] = a /\ row[t].status # "NONE"})

(* Committed REVOKED events of the agency's tokens, as <<token, position>>. *)
Revocations(a) ==
  {e \in UNION {{t} \X DOMAIN row[t].events : t \in {u \in Tokens : issuer[u] = a}} :
     row[e[1]].events[e[2]].type = "REVOKED"}

(* Mutant: the revocation under way is not counted. *)
PastRevokes(a, now) ==
  Cardinality({e \in Revocations(a) : row[e[1]].events[e[2]].at + Window > now})

RecentRevokes(a, now) ==
  Cardinality({e \in Revocations(a) : row[e[1]].events[e[2]].at + Window > now}) + 1

OverBound(a, now) == RecentRevokes(a, now) * 100 > MaxPercent * Outstanding(a)

(* The unlocked reads: the token's status, and the rate the revocation would reach. *)
UC8Admits(x) ==
  /\ row[arg[x].tok].status \notin Terminal
  /\ OverBound(issuer[arg[x].tok], arg[x].start) => arg[x].cosigner = "valid"

UC8Check(x) ==
  /\ pc[x] = "uc8_check"
  /\ \/ /\ UC8Admits(x)
        /\ Goto(x, "uc8_update")
        /\ UNCHANGED <<storeVars, advisoryLocks, request>>
     \/ ~UC8Admits(x) /\ Rollback(x)

(* UPDATE to a status the state machine may refuse, then the publication. *)
VoidRow(x, t, s, reason, label, rest) ==
  /\ RowFree(x, t)
  /\ LET dead == SetStatus(draft[t], s, reason, arg[x].start)
         admitted == StateMachineAdmits(t, draft[t].status, s, arg[x].start) /\ RevocationAdmits(dead)
     IN
     \/ /\ admitted
        /\ Write(x, {t}, [u \in {t} |-> Published(dead)])
        /\ pc' = [pc EXCEPT ![x] = label]
        /\ arg' = [arg EXCEPT ![x].batch = rest]
        /\ UNCHANGED <<row, holderLock, holderRefs, clock, advisoryLocks, request>>
     \/ ~admitted /\ Rollback(x)

UC8Update(x) ==
  /\ pc[x] = "uc8_update"
  /\ VoidRow(x, arg[x].tok, "REVOKED", arg[x].reason, "commit", {})

-----------------------------------------------------------------------------
(* uc9_initiate_recovery: the counts are read first, the insert may then wait
   for the Individual row and is stopped by the pending-request index. *)

UC9Initiate(x, t) ==
  /\ "uc9" \in Operations
  /\ \A u \in Tokens : SameHolder(t, u) => row[u].status # "ACTIVE"
  /\ \E u \in Tokens : SameHolder(t, u) /\ row[u].status # "NONE"
  /\ request[holder[t]] # "PENDING"
  /\ Begin(x, "uc9_insert_request", [NoArg EXCEPT !.tok = t])
  /\ UNCHANGED <<storeVars, advisoryLocks, request>>

UC9InsertRequest(x) ==
  LET i == holder[arg[x].tok] IN
  /\ pc[x] = "uc9_insert_request"
  /\ HolderReferable(x, i)
  /\ \/ /\ request[i] # "PENDING"
        /\ request' = [request EXCEPT ![i] = "PENDING"]
        /\ End(x)
        /\ UNCHANGED storeVars
     \/ request[i] = "PENDING" /\ Rollback(x)

(* uc9_complete_recovery.  The ceremony's own conditions (cool-down, channels,
   separation of duties) are RecoveryCeremony's; here any pending request may
   be decided.  t is the id the sequence gives the new token, drawn here so
   that no other insert takes it. *)
UC9Complete(x, t, decision) ==
  /\ "uc9" \in Operations
  /\ request[holder[t]] # "NONE"
  /\ row[t].status = "NONE" /\ owner[t] = NoTxn
  /\ Begin(x, "uc9_lock", [NoArg EXCEPT !.tok = t, !.decision = decision])
  /\ Write(x, {t}, [u \in {t} |-> NoRow])
  /\ UNCHANGED <<row, holderLock, holderRefs, clock, advisoryLocks, request>>

UC9Lock(x) ==
  LET i == holder[arg[x].tok] IN
  /\ pc[x] = "uc9_lock"
  /\ recoveryLock[i] = NoTxn
  /\ recoveryLock' = [recoveryLock EXCEPT ![i] = x]
  /\ Goto(x, "uc9_request")
  /\ UNCHANGED <<storeVars, revokeLock, request>>

(* Mutant: the loop forgets the reserves. *)
ActiveOf(i) == {t \in Tokens : holder[t] = i /\ row[t].status = "ACTIVE"}

(* The tokens the recovery voids. *)
LiveOf(i) == {t \in Tokens : holder[t] = i /\ row[t].status \in {"ACTIVE", "RESERVE"}}

(* Request row FOR UPDATE, then the loop's query opens. *)
UC9Request(x) ==
  LET i == holder[arg[x].tok] IN
  /\ pc[x] = "uc9_request"
  /\ \/ request[i] # "PENDING" /\ Rollback(x)
     \/ /\ request[i] = "PENDING"
        /\ arg' = [arg EXCEPT ![x].batch = IF arg[x].decision = "APPROVED" THEN LiveOf(i) ELSE {},
                              ![x].seen = [t \in Tokens |-> row[t].status]]
        /\ pc' = [pc EXCEPT ![x] = IF arg[x].decision = "APPROVED" THEN "uc9_loop" ELSE "commit"]
        /\ UNCHANGED <<storeVars, advisoryLocks, request>>

(* One round of the loop: the status written follows from the status seen. *)
UC9Void(x, t) ==
  /\ pc[x] = "uc9_loop"
  /\ t \in arg[x].batch
  /\ VoidRow(x, t, IF arg[x].seen[t] = "RESERVE" THEN "REVOKED" ELSE "LOST",
             "UC9", "uc9_loop", arg[x].batch \ {t})

UC9Insert(x) ==
  /\ pc[x] = "uc9_loop"
  /\ arg[x].batch = {}
  /\ HolderReferable(x, holder[arg[x].tok])
  /\ Write(x, {arg[x].tok}, [u \in {arg[x].tok} |-> [NoRow EXCEPT !.status = "RESERVE"]])
  /\ ReferHolders(x, {holder[arg[x].tok]})
  /\ Goto(x, "uc9_issue")
  /\ UNCHANGED <<row, holderLock, clock, advisoryLocks, request>>

UC9Issue(x) == pc[x] = "uc9_issue" /\ ActivateRow(x, arg[x].tok, "UC9")

-----------------------------------------------------------------------------
Tick ==
  /\ clock < MaxClock
  /\ clock' = clock + 1
  /\ UNCHANGED <<row, draft, owner, holderLock, holderRefs, procVars, advisoryLocks, request>>

(* The statements of a transaction that has begun. *)
Step(x) ==
  \/ BulkActivate(x)
  \/ TransitionUpdate(x) \/ TransitionActivate(x)
  \/ UC4LockHolder(x) \/ UC4LockLost(x) \/ UC4LockReserve(x) \/ UC4Swap(x)
  \/ UC8Lock(x) \/ UC8Check(x) \/ UC8Update(x)
  \/ UC9InsertRequest(x) \/ UC9Lock(x) \/ UC9Request(x)
  \/ \E t \in Tokens : UC9Void(x, t)
  \/ UC9Insert(x) \/ UC9Issue(x)
  \/ Commit(x)

Call(x) ==
  \/ \E t \in Tokens : UC1(x, t)
  \/ \E S \in SUBSET Tokens : BulkInsert(x, S)
  \/ \E t \in Tokens, s \in Targets : Transition(x, t, s)
  \/ \E lost, reserve \in Tokens, reason \in {"LOST", "COMPROMISED"} :
       UC4(x, lost, reserve, reason)
  \/ \E t \in Tokens, cosigner \in Cosigners : UC8(x, t, cosigner)
  \/ \E t \in Tokens : UC9Initiate(x, t)
  \/ \E t \in Tokens, decision \in {"APPROVED", "REJECTED"} : UC9Complete(x, t, decision)

-----------------------------------------------------------------------------
(* PostgreSQL's deadlock detector *)

(* The transactions whose locks stop x's next statement. *)
WaitsOn(x) ==
  LET a == arg[x]
      rowOwners(S) == {owner[t] : t \in S}
      index(t) == rowOwners({u \in IndexEntries(x, t) : InFlight(x, u)})
      blockers ==
        CASE pc[x] = "bulk_activate" -> UNION {index(t) : t \in a.batch}
          [] pc[x] = "transition"    -> rowOwners({a.tok})
          [] pc[x] \in {"transition_index", "uc9_issue"} -> index(a.tok)
          [] pc[x] = "uc4_holder"    -> {holderLock[holder[a.tok]]} \cup holderRefs[holder[a.tok]]
          [] pc[x] = "uc4_lost"      -> rowOwners({a.tok})
          [] pc[x] = "uc4_reserve"   -> rowOwners({a.alt})
          [] pc[x] = "uc4_swap"      -> index(a.alt)
          [] pc[x] = "uc8_lock"      -> {revokeLock[issuer[a.tok]]}
          [] pc[x] = "uc8_update"    -> rowOwners({a.tok})
          [] pc[x] = "uc9_insert_request" -> {holderLock[holder[a.tok]]}
          [] pc[x] = "uc9_lock"      -> {recoveryLock[holder[a.tok]]}
          [] pc[x] = "uc9_loop"      ->
               IF a.batch = {} THEN {holderLock[holder[a.tok]]}
               ELSE IF \E t \in a.batch : RowFree(x, t) THEN {} ELSE rowOwners(a.batch)
          [] OTHER                   -> {}
  IN blockers \ {x, NoTxn}

Deadlocked(x) ==
  \E S \in SUBSET Txns : x \in S /\ \A y \in S : WaitsOn(y) \cap S # {}

(* deadlock_detected: one transaction of the cycle is rolled back. *)
DeadlockVictim(x) == Deadlocked(x) /\ Rollback(x)

-----------------------------------------------------------------------------
(* The tokens the database was loaded with carry the events that made them. *)
SeedRow(s) ==
  IF s = "NONE" THEN NoRow
  ELSE IF s = "RESERVE" THEN Issued(NoRow, 0)
  ELSE SetStatus(Issued(NoRow, 0), "ACTIVE", "ISSUE", 0)

Init ==
  /\ row = [t \in Tokens |-> SeedRow(seed[t])]
  /\ draft = row
  /\ owner = [t \in Tokens |-> NoTxn]
  /\ holderLock = [i \in Individuals |-> NoTxn]
  /\ holderRefs = [i \in Individuals |-> {}]
  /\ clock = 0
  /\ pc = [x \in Txns |-> "idle"]
  /\ arg = [x \in Txns |-> NoArg]
  /\ revokeLock = [a \in Agencies |-> NoTxn]
  /\ recoveryLock = [i \in Individuals |-> NoTxn]
  /\ request = [i \in Individuals |-> "NONE"]

Next == Tick \/ \E x \in Txns : Call(x) \/ Step(x) \/ Crash(x) \/ DeadlockVictim(x)

Spec == Init /\ [][Next]_vars

(* Lock queues are first come first served, so a transaction whose statement can
   run again and again is not passed over for ever; the detector runs on every
   cycle.  Clients owe the database no call and no crash. *)
Fairness == \A x \in Txns : SF_vars(Step(x)) /\ WF_vars(DeadlockVictim(x))

FairSpec == Spec /\ Fairness

-----------------------------------------------------------------------------
(* Rows, drafts, locks and transactions are well formed; in particular the log
   holds only event types the table admits. *)
TypeOK ==
  /\ row \in [Tokens -> TokenRow]
  /\ draft \in [Tokens -> TokenRow]
  /\ owner \in [Tokens -> Txns \cup {NoTxn}]
  /\ holderLock \in [Individuals -> Txns \cup {NoTxn}]
  /\ holderRefs \in [Individuals -> SUBSET Txns]
  /\ clock \in 0..MaxClock
  /\ pc \in [Txns -> PCs]
  /\ arg \in [Txns -> Arg]
  /\ revokeLock \in [Agencies -> Txns \cup {NoTxn}]
  /\ recoveryLock \in [Individuals -> Txns \cup {NoTxn}]
  /\ request \in [Individuals -> RequestStatus]

(* C3: whatever procedures race, no holder ever has two committed ACTIVE tokens. *)
OneActivePerPerson ==
  \A t, u \in Tokens :
    SameHolder(t, u) /\ row[t].status = "ACTIVE" /\ row[u].status = "ACTIVE" => t = u

(* No commit moves a token along an edge the state machine does not have, so a
   REVOKED, LOST or EXPIRED token never comes back; an insert commits RESERVE
   or, activated in the same transaction, ACTIVE. *)
LegalLifecycle ==
  [][\A t \in Tokens : row'[t].status # row[t].status =>
       \/ <<row[t].status, row'[t].status>> \in LegalMoves
       \/ row[t].status = "NONE" /\ row'[t].status \in {"RESERVE", "ACTIVE"}]_vars

(* A REVOKED token is on the revocation list, and the list names dead tokens only. *)
RevocationListAgrees ==
  \A t \in Tokens : /\ row[t].status = "REVOKED" => row[t].published > 0
                    /\ row[t].published > 0 => row[t].status \in Terminal

(* The comment on uc8_revoke_token: a token cannot be revoked twice, which would
   publish it twice. *)
RevokedOnce == \A t \in Tokens : row[t].published <= 1

(* The lifecycle log tells the status: the last event is the one of the current
   status, and no event is logged twice. *)
AuditTrailAgrees ==
  \A t \in Tokens :
    LET e == row[t].events IN
    /\ row[t].status \notin {"NONE", "RESERVE"} =>
         e # <<>> /\ e[Len(e)].type = EventFor(row[t].status)
    /\ row[t].status = "RESERVE" => \A k \in DOMAIN e : e[k].type = "ISSUED"
    /\ \A j, k \in DOMAIN e : e[j].type = e[k].type => j = k

(* UC-4 succession is a chain per holder: no token has two successors, a
   successor is numbered after its predecessor, and numbers are not shared. *)
SuccessionIsAChain ==
  \A t \in Tokens :
    LET p == row[t].predecessor IN
    p # NoToken =>
      /\ SameHolder(t, p)
      /\ row[p].status \in Terminal
      /\ row[p].activation_sequence < row[t].activation_sequence
      /\ \A u \in Tokens \ {t} : SameHolder(t, u) /\ row[u].predecessor # NoToken =>
           /\ row[u].predecessor # p
           /\ row[u].activation_sequence # row[t].activation_sequence

(* Seen from outside, each procedure takes effect at the instant it commits: the
   committed statuses step as IdentityRegister says, a batch all at once, a
   reserve as its lost token dies, a recovered token as all earlier ones die. *)
Register == INSTANCE IdentityRegister WITH status <- [t \in Tokens |-> row[t].status]

ImplementsRegister == Register!Spec

(* The revocations an agency made without a co-signer never exceed, in any
   window, the share of its tokens the discretion policy allows. *)
RevocationRateBounded ==
  \A a \in Agencies, now \in 0..clock :
    LET alone == {e \in Revocations(a) :
                    LET ev == row[e[1]].events[e[2]] IN
                    ev.reason = "UC8" /\ ev.at <= now /\ ev.at + Window > now}
    IN Cardinality(alone) * 100 <= MaxPercent * Outstanding(a)

(* Every transaction ends: neither the row locks, the advisory locks nor the
   unique index keep one waiting for ever. *)
TransactionsEnd == \A x \in Txns : pc[x] # "idle" ~> pc[x] = "idle"
=============================================================================
