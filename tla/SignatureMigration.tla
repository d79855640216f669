-------------------------- MODULE SignatureMigration --------------------------
(***************************************************************************)
(* Algorithm migration: the signatures a token carries, while operators    *)
(* migrate single tokens (uc6_migrate_algorithm), runners re-sign the      *)
(* population (migration.migrate_population) and the migration window is   *)
(* closed (migration.deprecate_superseded), as READ COMMITTED transactions *)
(* whose statements interleave.                                            *)
(*                                                                         *)
(* A signature is a pair <<token, algorithm>>.  Deprecation dates are left *)
(* out: a deprecated signature may already have lapsed.                    *)
(***************************************************************************)
EXTENDS Naturals, FiniteSets

CONSTANTS
  MaxToken,     \* bound: tokens ever issued
  Loads,        \* how many of them the database may start with
  Operations,   \* which operations the clients call
  Algorithms,   \* registered algorithms that have a signer and are not deprecated
  Issuing,      \* the algorithm new tokens are signed under
  Targets,      \* algorithms the population is migrated to
  Singles,      \* the <<token, algorithm>> that single migrations are asked for
  Sessions,
  Nobody,       \* the owner of a free lock
  BatchSize,
  MaxKills      \* bound: sessions killed

Tokens == 1..MaxToken

ASSUME MigrationAssumption ==
  /\ MaxToken \in Nat /\ Loads \subseteq 0..MaxToken /\ BatchSize \in Nat \ {0} /\ MaxKills \in Nat
  /\ Issuing \in Algorithms /\ Targets \subseteq Algorithms /\ Singles \subseteq Nat \X Algorithms
  /\ Nobody \notin Sessions

VARIABLES
  live,         \* committed tokens that are ACTIVE or RESERVE
  signed,       \* committed TokenSignature rows
  deprecated,   \* those with a deprecation_date
  added,        \* rows each open transaction has inserted
  retired,      \* rows it has deprecated, and so locked
  tokenLock,    \* FOR UPDATE by a runner, or a status change under way
  tokenRefs,    \* KEY SHARE, by the foreign key of an inserted signature
  migrateLock,  \* advisory lock 'polaris.migrate.<token>'
  pc, job,      \* next statement of each session, and its variables
  kills

vars == <<live, signed, deprecated, added, retired, tokenLock, tokenRefs,
          migrateLock, pc, job, kills>>
store == <<live, signed, deprecated>>
writes == <<added, retired>>
locks == <<tokenLock, tokenRefs, migrateLock>>

Signatures == Tokens \X Algorithms

(* rows: what an UPDATE has still to visit; batch: tokens a SELECT returned. *)
Job == [token : Tokens \cup {Nobody}, target : Algorithms \cup {Nobody}, deprecateOld : BOOLEAN,
        rows : SUBSET Signatures, batch : SUBSET Tokens]

NoJob == [token |-> Nobody, target |-> Nobody, deprecateOld |-> FALSE, rows |-> {}, batch |-> {}]

BatchPCs == {"batch_select", "batch_lock", "batch_insert", "batch_commit"}
PCs == {"idle", "withdraw", "uc6_lock", "uc6_insert", "uc6_refer", "uc6_update",
        "close_check", "close_update", "retire", "commit"} \cup BatchPCs

-----------------------------------------------------------------------------
(* What a statement of session s sees, and what stops it *)

Issued == {t \in Tokens : \E a \in Algorithms : <<t, a>> \in signed}

ActiveSeen(s) == (signed \cup added[s]) \ (deprecated \cup retired[s])

(* An uncommitted insert of the same row: the unique index waits for it. *)
Adding(s, r) == {x \in Sessions \ {s} : r \in added[x]}

(* An uncommitted update of the same row. *)
Retiring(s, r) == {x \in Sessions \ {s} : r \in retired[x]}

(* The foreign key's KEY SHARE conflicts with a runner's FOR UPDATE, not with a
   status change, which leaves the key alone. *)
KeyHolders(s, t) == {x \in Sessions \ {s} : tokenLock[t] = x /\ pc[x] \in BatchPCs}

-----------------------------------------------------------------------------
(* Transactions *)

Begin(s, label, j) ==
  /\ pc[s] = "idle"
  /\ pc' = [pc EXCEPT ![s] = label]
  /\ job' = [job EXCEPT ![s] = j]

Goto(s, label) == pc' = [pc EXCEPT ![s] = label] /\ UNCHANGED <<job, kills>>

(* Mutant: the advisory lock is the session's, not the transaction's. *)
ReleaseKeepingMigrate(s) ==
  /\ added' = [added EXCEPT ![s] = {}]
  /\ retired' = [retired EXCEPT ![s] = {}]
  /\ tokenLock' = [t \in Tokens |-> IF tokenLock[t] = s THEN Nobody ELSE tokenLock[t]]
  /\ tokenRefs' = [t \in Tokens |-> tokenRefs[t] \ {s}]
  /\ UNCHANGED migrateLock

Release(s) ==
  /\ added' = [added EXCEPT ![s] = {}]
  /\ retired' = [retired EXCEPT ![s] = {}]
  /\ tokenLock' = [t \in Tokens |-> IF tokenLock[t] = s THEN Nobody ELSE tokenLock[t]]
  /\ tokenRefs' = [t \in Tokens |-> tokenRefs[t] \ {s}]
  /\ migrateLock' = [t \in Tokens |-> IF migrateLock[t] = s THEN Nobody ELSE migrateLock[t]]

Rollback(s) ==
  /\ Release(s)
  /\ pc' = [pc EXCEPT ![s] = "idle"]
  /\ job' = [job EXCEPT ![s] = NoJob]
  /\ UNCHANGED store

Raise(s) == Rollback(s) /\ UNCHANGED kills

(* COMMIT; a runner goes on with its next batch. *)
Commit(s) ==
  /\ pc[s] \in {"commit", "batch_commit"}
  /\ signed' = signed \cup added[s]
  /\ deprecated' = deprecated \cup retired[s]
  /\ Release(s)
  /\ pc' = [pc EXCEPT ![s] = IF pc[s] = "commit" THEN "idle" ELSE "batch_select"]
  /\ job' = [job EXCEPT ![s] = IF pc[s] = "commit" THEN NoJob
                               ELSE [@ EXCEPT !.rows = {}, !.batch = {}]]
  /\ UNCHANGED <<live, kills>>

Kill(s) ==
  /\ pc[s] # "idle"
  /\ kills < MaxKills
  /\ kills' = kills + 1
  /\ Rollback(s)

-----------------------------------------------------------------------------
(* UPDATE TokenSignature SET deprecation_date ... WHERE deprecation_date IS NULL *)

(* One row of the statement's snapshot.  A row another transaction is updating
   is waited for, and left alone if that one deprecated it. *)
RetireRow(s, r) ==
  /\ pc[s] = "retire"
  /\ r \in job[s].rows
  /\ Retiring(s, r) = {}
  /\ retired' = [retired EXCEPT ![s] = @ \cup ({r} \ deprecated)]
  /\ job' = [job EXCEPT ![s].rows = @ \ {r}]
  /\ UNCHANGED <<store, added, locks, pc, kills>>

(* Mutant: the trigger counts the signatures before its own statement. *)
CountedBefore(s) ==
  \A r \in retired[s] : \E a \in Algorithms : <<r[1], a>> \in signed \ deprecated

(* enforce_token_has_active_signature, for every row the statement wrote. *)
TriggerAdmits(s) ==
  \A r \in retired[s] : \E a \in Algorithms : <<r[1], a>> \in ActiveSeen(s)

(* The AFTER triggers fire when the statement has visited its rows. *)
Retired(s) ==
  /\ pc[s] = "retire"
  /\ job[s].rows = {}
  /\ \/ TriggerAdmits(s) /\ Goto(s, "commit") /\ UNCHANGED <<store, writes, locks>>
     \/ ~TriggerAdmits(s) /\ Raise(s)

-----------------------------------------------------------------------------
(* uc6_migrate_algorithm *)

UC6(s, t, a, dep) ==
  /\ "uc6" \in Operations
  /\ t \in Issued
  /\ Begin(s, "uc6_lock", [NoJob EXCEPT !.token = t, !.target = a, !.deprecateOld = dep])
  /\ UNCHANGED <<store, writes, locks, kills>>

UC6Lock(s) ==
  LET t == job[s].token IN
  /\ pc[s] = "uc6_lock"
  /\ migrateLock[t] = Nobody
  /\ migrateLock' = [migrateLock EXCEPT ![t] = s]
  /\ Goto(s, "uc6_insert")
  /\ UNCHANGED <<store, writes, tokenLock, tokenRefs>>

(* The row and its unique index entry. *)
UC6Insert(s) ==
  LET r == <<job[s].token, job[s].target>> IN
  /\ pc[s] = "uc6_insert"
  /\ \/ r \in signed /\ Raise(s)
     \/ /\ r \notin signed
        /\ Adding(s, r) = {}
        /\ added' = [added EXCEPT ![s] = {r}]
        /\ Goto(s, "uc6_refer")
        /\ UNCHANGED <<store, retired, locks>>

(* Its foreign key, checked at the end of the INSERT. *)
UC6Refer(s) ==
  LET t == job[s].token IN
  /\ pc[s] = "uc6_refer"
  /\ KeyHolders(s, t) = {}
  /\ tokenRefs' = [tokenRefs EXCEPT ![t] = @ \cup {s}]
  /\ Goto(s, IF job[s].deprecateOld THEN "uc6_update" ELSE "commit")
  /\ UNCHANGED <<store, writes, tokenLock, migrateLock>>

UC6Update(s) ==
  /\ pc[s] = "uc6_update"
  /\ pc' = [pc EXCEPT ![s] = "retire"]
  /\ job' = [job EXCEPT ![s].rows = {r \in ActiveSeen(s) \ added[s] : r[1] = job[s].token}]
  /\ UNCHANGED <<store, writes, locks, kills>>

-----------------------------------------------------------------------------
(* migrate_population: batches until a SELECT returns nothing *)

(* Mutant: a token with a deprecated signature under the target is selected. *)
Unmigrated(t, a) == <<t, a>> \notin signed \ deprecated

Signable(t, a) == <<t, a>> \notin signed

(* resolve_target, and the runner starts. *)
Run(s, a) ==
  /\ "run" \in Operations
  /\ Begin(s, "batch_select", [NoJob EXCEPT !.target = a])
  /\ UNCHANGED <<store, writes, locks, kills>>

(* SELECT ... FOR UPDATE SKIP LOCKED: its snapshot ... *)
BatchSelect(s) ==
  /\ pc[s] = "batch_select"
  /\ pc' = [pc EXCEPT ![s] = "batch_lock"]
  /\ job' = [job EXCEPT ![s].batch = {t \in live : Signable(t, job[s].target)}]
  /\ UNCHANGED <<store, writes, locks, kills>>

(* ... and the first rows of it that are live and lockable by then. *)
Lockable(s) == {t \in job[s].batch \cap live : tokenLock[t] = Nobody /\ tokenRefs[t] \subseteq {s}}
FirstOf(S) == {t \in S : Cardinality({u \in S : u < t}) < BatchSize}

BatchLock(s) ==
  LET batch == FirstOf(Lockable(s)) IN
  /\ pc[s] = "batch_lock"
  /\ \/ batch = {} /\ Raise(s)
     \/ /\ batch # {}
        /\ tokenLock' = [t \in Tokens |-> IF t \in batch THEN s ELSE tokenLock[t]]
        /\ pc' = [pc EXCEPT ![s] = "batch_insert"]
        /\ job' = [job EXCEPT ![s].batch = batch]
        /\ UNCHANGED <<store, writes, tokenRefs, migrateLock, kills>>

(* INSERT ... ON CONFLICT DO NOTHING *)
BatchInsert(s) ==
  LET new == {<<t, job[s].target>> : t \in job[s].batch} IN
  /\ pc[s] = "batch_insert"
  /\ \A r \in new : Adding(s, r) = {}
  /\ added' = [added EXCEPT ![s] = new \ signed]
  /\ Goto(s, "batch_commit")
  /\ UNCHANGED <<store, retired, locks>>

-----------------------------------------------------------------------------
(* deprecate_superseded *)

Close(s, a) ==
  /\ "close" \in Operations
  /\ Begin(s, "close_check", [NoJob EXCEPT !.target = a])
  /\ UNCHANGED <<store, writes, locks, kills>>

(* pending_count *)
Pending(a) == {t \in live : <<t, a>> \notin signed \ deprecated}

CloseCheck(s) ==
  /\ pc[s] = "close_check"
  /\ \/ Pending(job[s].target) # {} /\ Raise(s)
     \/ /\ Pending(job[s].target) = {}
        /\ Goto(s, "close_update")
        /\ UNCHANGED <<store, writes, locks>>

(* Mutant: the snapshot holds rows that others have not committed. *)
CloseUpdateDirty(s) ==
  /\ pc[s] = "close_update"
  /\ pc' = [pc EXCEPT ![s] = "retire"]
  /\ job' = [job EXCEPT ![s].rows =
               {r \in (signed \cup UNION {added[x] : x \in Sessions}) \ deprecated :
                  r[1] \in live /\ r[2] # job[s].target}]
  /\ UNCHANGED <<store, writes, locks, kills>>

(* The UPDATE's snapshot. *)
CloseUpdate(s) ==
  /\ pc[s] = "close_update"
  /\ pc' = [pc EXCEPT ![s] = "retire"]
  /\ job' = [job EXCEPT ![s].rows =
               {r \in signed \ deprecated : r[1] \in live /\ r[2] # job[s].target}]
  /\ UNCHANGED <<store, writes, locks, kills>>

-----------------------------------------------------------------------------
(* The rest of the system: issuance, and credentials that stop being live *)

Issue(t) ==
  /\ "issue" \in Operations
  /\ t \notin Issued /\ \A u \in Tokens : u < t => u \in Issued
  /\ live' = live \cup {t}
  /\ signed' = signed \cup {<<t, Issuing>>}
  /\ UNCHANGED <<deprecated, writes, locks, pc, job, kills>>

Withdraw(s, t) ==
  /\ "withdraw" \in Operations
  /\ t \in live
  /\ tokenLock[t] = Nobody
  /\ Begin(s, "withdraw", [NoJob EXCEPT !.token = t])
  /\ tokenLock' = [tokenLock EXCEPT ![t] = s]
  /\ UNCHANGED <<store, writes, tokenRefs, migrateLock, kills>>

Withdrawn(s) ==
  /\ pc[s] = "withdraw"
  /\ live' = live \ {job[s].token}
  /\ Release(s)
  /\ pc' = [pc EXCEPT ![s] = "idle"]
  /\ job' = [job EXCEPT ![s] = NoJob]
  /\ UNCHANGED <<signed, deprecated, kills>>

-----------------------------------------------------------------------------
(* PostgreSQL's deadlock detector *)

WaitsOn(s) ==
  LET j == job[s] IN
  CASE pc[s] = "uc6_lock"     -> {migrateLock[j.token]} \ {Nobody}
    [] pc[s] = "uc6_insert"   -> Adding(s, <<j.token, j.target>>)
    [] pc[s] = "uc6_refer"    -> KeyHolders(s, j.token)
    [] pc[s] = "batch_insert" -> UNION {Adding(s, <<t, j.target>>) : t \in j.batch}
    [] pc[s] = "retire" /\ \A r \in j.rows : Retiring(s, r) # {} ->
         UNION {Retiring(s, r) : r \in j.rows}
    [] OTHER -> {}

Deadlocked(s) ==
  \E S \in SUBSET Sessions : s \in S /\ \A x \in S : WaitsOn(x) \cap S # {}

DeadlockVictim(s) == Deadlocked(s) /\ Raise(s)

-----------------------------------------------------------------------------
Init ==
  /\ \E n \in Loads :
       /\ live = 1..n
       /\ signed = {<<t, Issuing>> : t \in 1..n}
  /\ deprecated = {}
  /\ added = [s \in Sessions |-> {}]
  /\ retired = [s \in Sessions |-> {}]
  /\ tokenLock = [t \in Tokens |-> Nobody]
  /\ tokenRefs = [t \in Tokens |-> {}]
  /\ migrateLock = [t \in Tokens |-> Nobody]
  /\ pc = [s \in Sessions |-> "idle"]
  /\ job = [s \in Sessions |-> NoJob]
  /\ kills = 0

Step(s) ==
  \/ UC6Lock(s) \/ UC6Insert(s) \/ UC6Refer(s) \/ UC6Update(s)
  \/ BatchSelect(s) \/ BatchLock(s) \/ BatchInsert(s)
  \/ CloseCheck(s) \/ CloseUpdate(s)
  \/ \E r \in Signatures : RetireRow(s, r)
  \/ Retired(s)
  \/ Withdrawn(s)
  \/ Commit(s)

Call(s) ==
  \/ \E t \in Tokens, a \in Algorithms, dep \in BOOLEAN :
       <<t, a>> \in Singles /\ UC6(s, t, a, dep)
  \/ \E a \in Targets : Run(s, a) \/ Close(s, a)
  \/ \E t \in Tokens : Withdraw(s, t)

Next ==
  \/ \E s \in Sessions : Call(s) \/ Step(s) \/ Kill(s) \/ DeadlockVictim(s)
  \/ \E t \in Tokens : Issue(t)

Spec == Init /\ [][Next]_vars

(* Lock queues are first come first served, so a statement whose lock comes free
   again and again gets it, in particular the two that can deadlock each other
   anew with every call; the detector breaks every cycle. *)
Fairness ==
  \A s \in Sessions : /\ SF_vars(Step(s))
                     /\ SF_vars(UC6Refer(s)) /\ SF_vars(BatchInsert(s))
                     /\ WF_vars(DeadlockVictim(s))

FairSpec == Spec /\ Fairness

(* The runbook has the operator run the migration again until it is done. *)
Reruns == \A a \in Targets : SF_vars(\E s \in Sessions : Run(s, a))

RerunSpec == FairSpec /\ Reruns

-----------------------------------------------------------------------------
(* The tables, locks and sessions are well formed; above all only rows that are
   committed are ever committed as deprecated. *)
TypeOK ==
  /\ live \subseteq Tokens
  /\ signed \subseteq Signatures /\ deprecated \subseteq signed
  /\ added \in [Sessions -> SUBSET Signatures]
  /\ retired \in [Sessions -> SUBSET Signatures]
  /\ tokenLock \in [Tokens -> Sessions \cup {Nobody}]
  /\ tokenRefs \in [Tokens -> SUBSET Sessions]
  /\ migrateLock \in [Tokens -> Sessions \cup {Nobody}]
  /\ pc \in [Sessions -> PCs]
  /\ job \in [Sessions -> Job]
  /\ kills \in 0..MaxKills

(* "Tokens never end up signature-less" (06_triggers.sql), "a migration cannot
   leave a token without an active signature, because the database will not let
   it" (migration.py): the count is made by a trigger that sees only what is
   committed, while others deprecate signatures of the same token. *)
NeverUnsigned ==
  \A t \in Issued : \E a \in Algorithms : <<t, a>> \in signed \ deprecated

(* "Kill the runner at any point and re-running converges": every live token is
   signed under the target in the end, whatever runners skipped. *)
Converges ==
  \A t \in Tokens, a \in Targets :
    t \in live ~> t \notin live \/ <<t, a>> \in signed

(* A runner stops when its work is done, and no migration waits for ever on the
   token rows, signature rows and advisory locks of the others. *)
MigrationsEnd == \A s \in Sessions : pc[s] # "idle" ~> pc[s] = "idle"
===============================================================================
