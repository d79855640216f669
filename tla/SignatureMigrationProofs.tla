------------------------ MODULE SignatureMigrationProofs ------------------------
(***************************************************************************)
(* Proofs about SignatureMigration, for every number of tokens, algorithms *)
(* and sessions.                                                           *)
(*                                                                         *)
(* The trigger that keeps a token from losing its last active signature    *)
(* counts what its own transaction sees.  Two transactions that retire     *)
(* signatures of one token can therefore each be admitted by what the      *)
(* other retires.  Three things prevent it while one target is migrated    *)
(* to at a time: single migrations of a token hold its advisory lock; a    *)
(* single migration keeps the signature it inserts, which nobody else      *)
(* sees; and of two window closings the one with the later snapshot has    *)
(* every row the earlier one retires among its own, and waits for it.      *)
(***************************************************************************)
EXTENDS SignatureMigration, TLAPS

(* One algorithm the population is migrated to: the violation run WindowsClash
   shows that two are too many. *)
OneTarget == \A a, b \in Targets : a = b

Settling == {"retire", "commit"}
SinglePCs == {"uc6_lock", "uc6_insert", "uc6_refer", "uc6_update"}
WindowPCs == {"close_check", "close_update"}
AddedPCs == {"uc6_refer", "uc6_update", "retire", "commit", "batch_commit"}

(* What session s retires, or is still to visit. *)
Claim(s) == job[s].rows \cup retired[s]

(* The rows a session has inserted are new, and of tokens already issued. *)
AddsNew(s) ==
  /\ added[s] \cap signed = {}
  /\ \A r \in added[s] : r[1] \in Issued
  /\ added[s] # {} => pc[s] \in AddedPCs

(* The rows it has deprecated are committed, and are active until it commits. *)
RetiresActive(s) ==
  /\ retired[s] \subseteq signed \ deprecated
  /\ retired[s] # {} => pc[s] \in Settling

JobSound(s) ==
  /\ job[s].rows \subseteq signed
  /\ job[s].rows # {} => pc[s] = "retire"
  /\ job[s].batch \subseteq Issued
  /\ pc[s] \in SinglePCs => job[s].token \in Issued /\ job[s].target \in Algorithms
  /\ pc[s] \in SinglePCs \ {"uc6_lock"} => migrateLock[job[s].token] = s
  /\ pc[s] \in {"uc6_refer", "uc6_update"} => added[s] = {<<job[s].token, job[s].target>>}
  /\ pc[s] \in BatchPCs \cup WindowPCs => job[s].target \in Targets

(* A session that retires signatures is either a window closing, which inserts
   nothing, or a single migration under the token's advisory lock. *)
ClosesWindow(s) ==
  /\ job[s].target \in Targets
  /\ \A r \in Claim(s) : r[2] # job[s].target

MigratesSingle(s) ==
  /\ added[s] = {<<job[s].token, job[s].target>>}
  /\ job[s].token \in Issued
  /\ migrateLock[job[s].token] = s
  /\ \A r \in Claim(s) : r[1] = job[s].token

Settles(s) ==
  pc[s] \in Settling => IF added[s] = {} THEN ClosesWindow(s) ELSE MigratesSingle(s)

(* What holds however many targets there are. *)
SessionSound(s) == AddsNew(s) /\ RetiresActive(s) /\ JobSound(s) /\ Settles(s)

Apart(s, x) == added[s] \cap added[x] = {} /\ retired[s] \cap retired[x] = {}

BaseInv ==
  /\ TypeOK
  /\ live \subseteq Issued
  /\ \A s \in Sessions : SessionSound(s)
  /\ \A s, x \in Sessions : s # x => Apart(s, x)

(* Once admitted by the trigger, it is admitted until it commits. *)
StaysAdmitted(s) == pc[s] = "commit" => TriggerAdmits(s)

(* Of two window closings that retire signatures of one token, one has a row of
   the other's still to visit, or has visited it. *)
ClosingsMeet(s, x) ==
  pc[s] \in Settling /\ pc[x] \in Settling /\ added[s] = {} /\ added[x] = {}
  => \A r \in Claim(s) \ deprecated, q \in Claim(x) \ deprecated :
       r[1] = q[1] => r \in Claim(x) \/ q \in Claim(s)

WindowInv ==
  /\ \A s \in Sessions : StaysAdmitted(s)
  /\ \A s, x \in Sessions : s # x => ClosingsMeet(s, x)
  /\ NeverUnsigned

-----------------------------------------------------------------------------
(* What a step of one session leaves the others *)

(* Their rows, statements and advisory locks. *)
OthersKeep(s) ==
  \A x \in Sessions \ {s} :
    /\ added'[x] = added[x] /\ retired'[x] = retired[x]
    /\ pc'[x] = pc[x] /\ job'[x] = job[x]
    /\ \A t \in Tokens : migrateLock[t] = x => migrateLock'[t] = x

(* What becomes visible is what the session has written. *)
Publishes(s) ==
  /\ signed \subseteq signed' /\ signed' \subseteq signed \cup added[s]
  /\ deprecated \subseteq deprecated' /\ deprecated' \subseteq deprecated \cup retired[s]

(* A token that is issued stays issued. *)
LEMMA IssuedStays ==
  ASSUME signed \subseteq signed'
  PROVE  Issued \subseteq Issued'
BY DEF Issued

(* Another session is as sound as it was. *)
LEMMA OtherSound ==
  ASSUME NEW s \in Sessions, NEW x \in Sessions, x # s,
         BaseInv, OthersKeep(s), Publishes(s)
  PROVE  SessionSound(x)'
<1>1. /\ added'[x] = added[x] /\ retired'[x] = retired[x] /\ pc'[x] = pc[x] /\ job'[x] = job[x]
      /\ \A t \in Tokens : migrateLock[t] = x => migrateLock'[t] = x
  BY DEF OthersKeep
<1>2. SessionSound(x) /\ Apart(x, s)
  BY DEF BaseInv
<1>3. Issued \subseteq Issued' /\ Issued \subseteq Tokens
  BY IssuedStays DEF Publishes, Issued
<1>4. AddsNew(x)'
  BY <1>1, <1>2, <1>3 DEF SessionSound, AddsNew, Apart, Publishes
<1>5. RetiresActive(x)'
  BY <1>1, <1>2 DEF SessionSound, RetiresActive, Apart, Publishes
<1>6. JobSound(x)'
  <2>1. job[x].rows \subseteq signed' /\ job[x].batch \subseteq Issued'
    BY <1>2, <1>3 DEF SessionSound, JobSound, Publishes
  <2>2. pc[x] \in SinglePCs => job[x].token \in Tokens
    BY <1>2, <1>3 DEF SessionSound, JobSound
  <2> QED
    BY <1>1, <1>2, <1>3, <2>1, <2>2 DEF SessionSound, JobSound, SinglePCs
<1>7. Settles(x)'
  <2> SUFFICES ASSUME pc[x] \in Settling
               PROVE  IF added[x] = {} THEN ClosesWindow(x)' ELSE MigratesSingle(x)'
    BY <1>1 DEF Settles
  <2>1. ASSUME added[x] = {}
        PROVE  ClosesWindow(x)'
    BY <1>1, <1>2, <2>1 DEF SessionSound, Settles, ClosesWindow, Claim
  <2>2. ASSUME added[x] # {}
        PROVE  MigratesSingle(x)'
    BY <1>1, <1>2, <1>3, <2>2 DEF SessionSound, Settles, MigratesSingle, Claim
  <2> QED
    BY <2>1, <2>2
<1> QED
  BY <1>4, <1>5, <1>6, <1>7 DEF SessionSound

(* So a step of a session need only show that its own rows are sound, and apart
   from those of the others. *)
LEMMA OwnStep ==
  ASSUME NEW s \in Sessions, BaseInv, OthersKeep(s), Publishes(s),
         TypeOK', live' \subseteq live, SessionSound(s)',
         \A x \in Sessions \ {s} : added'[s] \cap added[x] = {} /\ retired'[s] \cap retired[x] = {}
  PROVE  BaseInv'
<1>1. live' \subseteq Issued'
  BY IssuedStays DEF BaseInv, Publishes
<1>2. ASSUME NEW x \in Sessions
      PROVE  SessionSound(x)'
  BY <1>2, OtherSound
<1>3. ASSUME NEW x \in Sessions, NEW y \in Sessions, x # y
      PROVE  Apart(x, y)'
  <2>1. CASE x = s
    BY <1>3, <2>1 DEF Apart, OthersKeep
  <2>2. CASE y = s
    BY <1>3, <2>2 DEF Apart, OthersKeep
  <2>3. CASE x # s /\ y # s
    BY <1>3, <2>3 DEF Apart, OthersKeep, BaseInv
  <2> QED
    BY <2>1, <2>2, <2>3
<1> QED
  BY <1>1, <1>2, <1>3 DEF BaseInv

-----------------------------------------------------------------------------
(* Transactions *)

(* The end of a transaction frees what the session holds, and nothing else. *)
LEMMA Released ==
  ASSUME NEW s \in Sessions, BaseInv, Release(s),
         NEW p \in PCs, pc' = [pc EXCEPT ![s] = p],
         NEW j \in Job, job' = [job EXCEPT ![s] = j]
  PROVE  /\ OthersKeep(s)
         /\ added'[s] = {} /\ retired'[s] = {} /\ pc'[s] = p /\ job'[s] = j
         /\ added' \in [Sessions -> SUBSET Signatures]
         /\ retired' \in [Sessions -> SUBSET Signatures]
         /\ tokenLock' \in [Tokens -> Sessions \cup {Nobody}]
         /\ tokenRefs' \in [Tokens -> SUBSET Sessions]
         /\ migrateLock' \in [Tokens -> Sessions \cup {Nobody}]
         /\ pc' \in [Sessions -> PCs]
         /\ job' \in [Sessions -> Job]
BY DEF BaseInv, TypeOK, Release, OthersKeep

(* A session between transactions is sound: it has no rows and visits none. *)
LEMMA RestingSound ==
  ASSUME NEW s \in Sessions, BaseInv, Publishes(s),
         added'[s] = {}, retired'[s] = {},
         pc'[s] = "idle" \/ (pc'[s] = "batch_select" /\ job'[s].target \in Targets),
         job'[s].rows = {}, job'[s].batch = {}
  PROVE  SessionSound(s)'
BY DEF SessionSound, AddsNew, RetiresActive, JobSound, Settles, SinglePCs, WindowPCs,
       BatchPCs, Settling

(* A session without a call has a typed, empty job. *)
LEMMA NoJobType == NoJob \in Job /\ NoJob.rows = {} /\ NoJob.batch = {}
BY DEF NoJob, Job

(* An exception, a kill, and the deadlock detector's choice roll back. *)
LEMMA RollbackStep ==
  ASSUME NEW s \in Sessions, BaseInv, Rollback(s), kills' \in 0..MaxKills
  PROVE  BaseInv'
<1>1. /\ OthersKeep(s)
      /\ added'[s] = {} /\ retired'[s] = {} /\ pc'[s] = "idle" /\ job'[s] = NoJob
  BY Released, NoJobType DEF Rollback, PCs
<1>2. TypeOK'
  BY Released, NoJobType DEF Rollback, PCs, BaseInv, TypeOK, store
<1>3. Publishes(s) /\ live' = live
  BY DEF Rollback, store, Publishes
<1>4. SessionSound(s)'
  BY <1>1, <1>3, NoJobType, RestingSound
<1> QED
  BY <1>1, <1>2, <1>3, <1>4, OwnStep

(* An exception rolls back ... *)
LEMMA RaiseStep ==
  ASSUME NEW s \in Sessions, BaseInv, Raise(s)
  PROVE  BaseInv'
BY RollbackStep DEF Raise, BaseInv, TypeOK

(* ... and so does a kill, which is counted. *)
LEMMA KillStep ==
  ASSUME NEW s \in Sessions, BaseInv, Kill(s)
  PROVE  BaseInv'
BY RollbackStep, MigrationAssumption DEF Kill, BaseInv, TypeOK

(* A commit publishes rows nobody else has, and deprecates rows nobody else has. *)
LEMMA CommitStep ==
  ASSUME NEW s \in Sessions, BaseInv, Commit(s)
  PROVE  BaseInv'
<1> DEFINE next == IF pc[s] = "commit" THEN "idle" ELSE "batch_select"
           after == IF pc[s] = "commit" THEN NoJob
                    ELSE [job[s] EXCEPT !.rows = {}, !.batch = {}]
<1>0. TypeOK /\ SessionSound(s) /\ pc[s] \in {"commit", "batch_commit"}
  BY DEF BaseInv, Commit
<1>1. after \in Job /\ after.rows = {} /\ after.batch = {} /\ next \in PCs
      /\ (pc[s] = "batch_commit" => after.target = job[s].target)
  BY <1>0, NoJobType DEF TypeOK, Job, PCs, BatchPCs
<1>2. Release(s) /\ pc' = [pc EXCEPT ![s] = next] /\ job' = [job EXCEPT ![s] = after]
  BY <1>0 DEF Commit, TypeOK
<1> HIDE DEF after
<1>3. /\ OthersKeep(s)
      /\ added'[s] = {} /\ retired'[s] = {} /\ pc'[s] = next /\ job'[s] = after
      /\ added' \in [Sessions -> SUBSET Signatures]
      /\ retired' \in [Sessions -> SUBSET Signatures]
      /\ tokenLock' \in [Tokens -> Sessions \cup {Nobody}]
      /\ tokenRefs' \in [Tokens -> SUBSET Sessions]
      /\ migrateLock' \in [Tokens -> Sessions \cup {Nobody}]
      /\ pc' \in [Sessions -> PCs]
      /\ job' \in [Sessions -> Job]
  BY <1>1, <1>2, Released
<1>4. Publishes(s) /\ live' = live /\ kills' = kills
  BY DEF Commit, Publishes
<1>5. TypeOK'
  <2>1. signed' \subseteq Signatures /\ deprecated' \subseteq signed'
    BY <1>0 DEF Commit, TypeOK, SessionSound, RetiresActive
  <2> QED
    BY <1>0, <1>3, <1>4, <2>1 DEF TypeOK
<1>6. SessionSound(s)'
  <2>1. pc[s] = "batch_commit" => job[s].target \in Targets
    BY <1>0 DEF SessionSound, JobSound, BatchPCs
  <2> QED
    BY <1>0, <1>1, <1>3, <1>4, <2>1, RestingSound
<1> QED
  BY <1>3, <1>4, <1>5, <1>6, OwnStep

-----------------------------------------------------------------------------
(* The statements *)

(* The parts of a session's state that a statement changes. *)
LEMMA Called ==
  ASSUME NEW s \in Sessions, BaseInv, NEW p \in PCs, NEW j \in Job, Begin(s, p, j)
  PROVE  /\ pc[s] = "idle" /\ pc'[s] = p /\ job'[s] = j
         /\ pc' \in [Sessions -> PCs] /\ job' \in [Sessions -> Job]
         /\ \A x \in Sessions \ {s} : pc'[x] = pc[x] /\ job'[x] = job[x]
         /\ added[s] = {} /\ retired[s] = {}
<1>1. SessionSound(s)
  BY DEF BaseInv
<1> QED
  BY <1>1 DEF BaseInv, TypeOK, Begin, SessionSound, AddsNew, RetiresActive, AddedPCs, Settling

(* A call that starts with no rows to visit and no batch. *)
LEMMA CallStep ==
  ASSUME NEW s \in Sessions, BaseInv, NEW p \in PCs, NEW j \in Job, Begin(s, p, j),
         UNCHANGED <<store, writes, tokenRefs, migrateLock, kills>>,
         tokenLock' \in [Tokens -> Sessions \cup {Nobody}],
         j.rows = {}, j.batch = {},
         \/ p = "withdraw"
         \/ p = "uc6_lock" /\ j.token \in Issued /\ j.target \in Algorithms
         \/ p \in {"batch_select", "close_check"} /\ j.target \in Targets
  PROVE  BaseInv'
<1>1. /\ pc[s] = "idle" /\ pc'[s] = p /\ job'[s] = j
      /\ pc' \in [Sessions -> PCs] /\ job' \in [Sessions -> Job]
      /\ \A x \in Sessions \ {s} : pc'[x] = pc[x] /\ job'[x] = job[x]
      /\ added[s] = {} /\ retired[s] = {}
  BY Called
<1>2. TypeOK'
  BY <1>1 DEF BaseInv, TypeOK, store, writes
<1>3. OthersKeep(s) /\ Publishes(s) /\ live' = live
  BY <1>1 DEF OthersKeep, Publishes, store, writes
<1>4. SessionSound(s)'
  <2>1. Issued' = Issued
    BY DEF Issued, store
  <2> QED
    BY <1>1, <2>1 DEF SessionSound, AddsNew, RetiresActive, JobSound, Settles, store, writes,
         SinglePCs, WindowPCs, BatchPCs, Settling
<1> QED
  BY <1>1, <1>2, <1>3, <1>4, OwnStep DEF writes

(* A single migration starts with its token and target ... *)
LEMMA UC6Step ==
  ASSUME NEW s \in Sessions, BaseInv, NEW t \in Tokens, NEW a \in Algorithms, NEW dep \in BOOLEAN,
         UC6(s, t, a, dep)
  PROVE  BaseInv'
<1> DEFINE j == [NoJob EXCEPT !.token = t, !.target = a, !.deprecateOld = dep]
<1>1. j \in Job /\ j.rows = {} /\ j.batch = {} /\ j.token = t /\ j.target = a
  BY DEF NoJob, Job
<1>2. Begin(s, "uc6_lock", j) /\ t \in Issued
      /\ UNCHANGED <<store, writes, tokenRefs, migrateLock, kills>> /\ tokenLock' = tokenLock
  BY DEF UC6, locks
<1>3. tokenLock \in [Tokens -> Sessions \cup {Nobody}]
  BY DEF BaseInv, TypeOK
<1> HIDE DEF j
<1> QED
  BY <1>1, <1>2, <1>3, CallStep DEF PCs

(* ... runs and closings with a target ... *)
LEMMA WindowStep ==
  ASSUME NEW s \in Sessions, BaseInv, NEW a \in Targets, Run(s, a) \/ Close(s, a)
  PROVE  BaseInv'
<1> DEFINE j == [NoJob EXCEPT !.target = a]
<1>1. j \in Job /\ j.rows = {} /\ j.batch = {} /\ j.target = a
  BY MigrationAssumption DEF NoJob, Job
<1>2. (Begin(s, "batch_select", j) \/ Begin(s, "close_check", j))
      /\ UNCHANGED <<store, writes, tokenRefs, migrateLock, kills>> /\ tokenLock' = tokenLock
  BY DEF Run, Close, locks
<1>3. tokenLock \in [Tokens -> Sessions \cup {Nobody}]
  BY DEF BaseInv, TypeOK
<1> HIDE DEF j
<1>4. ASSUME NEW p \in {"batch_select", "close_check"}, Begin(s, p, j)
      PROVE  BaseInv'
  <2>1. p \in PCs
    BY DEF PCs, BatchPCs
  <2> QED
    BY <1>1, <1>2, <1>3, <1>4, <2>1, CallStep
<1> QED
  BY <1>2, <1>4

(* ... and a change of status with the row lock of its token, ... *)
LEMMA WithdrawStep ==
  ASSUME NEW s \in Sessions, BaseInv, NEW t \in Tokens, Withdraw(s, t)
  PROVE  BaseInv'
<1> DEFINE j == [NoJob EXCEPT !.token = t]
<1>1. j \in Job /\ j.rows = {} /\ j.batch = {}
  BY DEF NoJob, Job
<1>2. Begin(s, "withdraw", j)
      /\ UNCHANGED <<store, writes, tokenRefs, migrateLock, kills>>
  BY DEF Withdraw
<1>3. tokenLock' \in [Tokens -> Sessions \cup {Nobody}]
  BY DEF BaseInv, TypeOK, Withdraw
<1> HIDE DEF j
<1> QED
  BY <1>1, <1>2, <1>3, CallStep DEF PCs

(* ... which ends with the token no longer live. *)
LEMMA WithdrawnStep ==
  ASSUME NEW s \in Sessions, BaseInv, Withdrawn(s)
  PROVE  BaseInv'
<1>1. /\ OthersKeep(s)
      /\ added'[s] = {} /\ retired'[s] = {} /\ pc'[s] = "idle" /\ job'[s] = NoJob
  BY Released, NoJobType DEF Withdrawn, PCs
<1>2. TypeOK'
  BY Released, NoJobType DEF Withdrawn, PCs, BaseInv, TypeOK
<1>3. Publishes(s) /\ live' \subseteq live
  BY DEF Withdrawn, Publishes
<1>4. SessionSound(s)'
  BY <1>1, <1>3, NoJobType, RestingSound
<1> QED
  BY <1>1, <1>2, <1>3, <1>4, OwnStep

(* A token issued by the rest of the system is signed at once. *)
LEMMA IssueStep ==
  ASSUME BaseInv, NEW t \in Tokens, Issue(t)
  PROVE  BaseInv'
<1>1. TypeOK'
  BY MigrationAssumption DEF BaseInv, TypeOK, Issue, Signatures, locks, writes
<1>2. Issued \subseteq Issued' /\ Issued \subseteq Tokens /\ t \in Issued' /\ signed \subseteq signed'
  BY MigrationAssumption DEF Issue, Issued
<1>3. live' \subseteq Issued'
  BY <1>2 DEF BaseInv, Issue
<1>4. ASSUME NEW x \in Sessions
      PROVE  SessionSound(x)'
  <2>1. SessionSound(x)
    BY DEF BaseInv
  <2>2. AddsNew(x)'
    BY <1>2, <2>1 DEF SessionSound, AddsNew, Issue, writes
  <2>3. RetiresActive(x)'
    BY <1>2, <2>1 DEF SessionSound, RetiresActive, Issue, writes
  <2>4. JobSound(x)'
    <3>1. UNCHANGED <<writes, locks, pc, job>>
      BY DEF Issue
    <3>2. job[x].rows \subseteq signed' /\ job[x].batch \subseteq Issued'
      BY <1>2, <2>1 DEF SessionSound, JobSound
    <3> QED
      BY <1>2, <2>1, <3>1, <3>2 DEF SessionSound, JobSound, writes, locks
  <2>5. Settles(x)'
    <3>1. UNCHANGED <<writes, locks, pc, job>>
      BY DEF Issue
    <3> QED
      BY <1>2, <2>1, <3>1 DEF SessionSound, Settles, ClosesWindow, MigratesSingle, Claim,
           writes, locks
  <2> QED
    BY <2>2, <2>3, <2>4, <2>5 DEF SessionSound
<1>5. \A x, y \in Sessions : x # y => Apart(x, y)'
  BY DEF Issue, writes, BaseInv, Apart
<1> QED
  BY <1>1, <1>3, <1>4, <1>5 DEF BaseInv

(* uc6_migrate_algorithm takes the advisory lock of its token ... *)
LEMMA UC6LockStep ==
  ASSUME NEW s \in Sessions, BaseInv, UC6Lock(s)
  PROVE  BaseInv'
<1>0. TypeOK /\ SessionSound(s) /\ pc[s] = "uc6_lock" /\ job[s].token \in Tokens
      /\ job[s].token \in Issued /\ job[s].target \in Algorithms
  BY DEF BaseInv, UC6Lock, SessionSound, JobSound, SinglePCs, Issued
<1>1. /\ pc'[s] = "uc6_insert" /\ job' = job /\ UNCHANGED <<store, writes, tokenLock, tokenRefs, kills>>
      /\ migrateLock'[job[s].token] = s
      /\ migrateLock' \in [Tokens -> Sessions \cup {Nobody}]
      /\ pc' \in [Sessions -> PCs]
      /\ \A x \in Sessions \ {s} : pc'[x] = pc[x]
      /\ \A t \in Tokens : migrateLock[t] # Nobody => migrateLock'[t] = migrateLock[t]
  BY <1>0 DEF UC6Lock, Goto, TypeOK, PCs
<1>2. TypeOK'
  BY <1>0, <1>1 DEF TypeOK, store, writes
<1>3. OthersKeep(s) /\ Publishes(s) /\ live' = live
  BY <1>1, MigrationAssumption DEF OthersKeep, Publishes, store, writes
<1>4. SessionSound(s)'
  <2>1. Issued' = Issued
    BY <1>1 DEF Issued, store
  <2>2. added[s] = {} /\ retired[s] = {}
    BY <1>0 DEF SessionSound, AddsNew, RetiresActive, AddedPCs, Settling
  <2> QED
    BY <1>0, <1>1, <2>1, <2>2 DEF SessionSound, AddsNew, RetiresActive, JobSound, Settles, store,
         writes, SinglePCs, WindowPCs, BatchPCs, Settling
<1>5. added'[s] = added[s] /\ retired'[s] = retired[s]
  BY <1>1 DEF writes
<1> QED
  BY <1>2, <1>3, <1>4, <1>5, OwnStep DEF BaseInv, Apart

(* ... inserts the signature, which no other session is inserting ... *)
LEMMA UC6InsertStep ==
  ASSUME NEW s \in Sessions, BaseInv, UC6Insert(s)
  PROVE  BaseInv'
<1> DEFINE r == <<job[s].token, job[s].target>>
<1>0. TypeOK /\ SessionSound(s) /\ pc[s] = "uc6_insert" /\ job[s].token \in Tokens
      /\ job[s].token \in Issued /\ job[s].target \in Algorithms
      /\ migrateLock[job[s].token] = s /\ r \in Signatures
  BY DEF BaseInv, UC6Insert, SessionSound, JobSound, SinglePCs, Issued, Signatures
<1>1. CASE r \in signed /\ Raise(s)
  BY <1>1, RaiseStep
<1>2. CASE /\ r \notin signed
           /\ Adding(s, r) = {}
           /\ added' = [added EXCEPT ![s] = {r}]
           /\ Goto(s, "uc6_refer")
           /\ UNCHANGED <<store, retired, locks>>
  <2>1. /\ pc'[s] = "uc6_refer" /\ job' = job /\ UNCHANGED <<store, retired, locks, kills>>
        /\ added'[s] = {r} /\ added' \in [Sessions -> SUBSET Signatures]
        /\ pc' \in [Sessions -> PCs]
        /\ \A x \in Sessions \ {s} : pc'[x] = pc[x] /\ added'[x] = added[x]
    BY <1>0, <1>2 DEF Goto, TypeOK, PCs
  <2>2. TypeOK'
    BY <1>0, <2>1 DEF TypeOK, store, locks
  <2>3. OthersKeep(s) /\ Publishes(s) /\ live' = live
    BY <2>1 DEF OthersKeep, Publishes, store, locks
  <2>4. SessionSound(s)'
    <3>1. Issued' = Issued
      BY <2>1 DEF Issued, store
    <3>2. retired[s] = {}
      BY <1>0 DEF SessionSound, RetiresActive, Settling
    <3> QED
      BY <1>0, <1>2, <2>1, <3>1, <3>2 DEF SessionSound, AddsNew, RetiresActive, JobSound, Settles,
           store, locks, SinglePCs, WindowPCs, BatchPCs, Settling, AddedPCs
  <2>5. \A x \in Sessions \ {s} : added'[s] \cap added[x] = {} /\ retired'[s] \cap retired[x] = {}
    BY <1>2, <2>1 DEF Adding, BaseInv, Apart
  <2> QED
    BY <2>2, <2>3, <2>4, <2>5, OwnStep
<1> QED
  BY <1>1, <1>2 DEF UC6Insert

(* ... holds its token by the foreign key ... *)
LEMMA UC6ReferStep ==
  ASSUME NEW s \in Sessions, BaseInv, UC6Refer(s)
  PROVE  BaseInv'
<1> DEFINE next == IF job[s].deprecateOld THEN "uc6_update" ELSE "commit"
<1>0. TypeOK /\ SessionSound(s) /\ pc[s] = "uc6_refer" /\ job[s].token \in Tokens
      /\ job[s].token \in Issued /\ job[s].target \in Algorithms
      /\ migrateLock[job[s].token] = s /\ added[s] = {<<job[s].token, job[s].target>>}
  BY DEF BaseInv, UC6Refer, SessionSound, JobSound, SinglePCs, Issued
<1>1. /\ pc'[s] = next /\ job' = job /\ UNCHANGED <<store, writes, tokenLock, migrateLock, kills>>
      /\ tokenRefs' \in [Tokens -> SUBSET Sessions]
      /\ pc' \in [Sessions -> PCs]
      /\ \A x \in Sessions \ {s} : pc'[x] = pc[x]
  BY <1>0 DEF UC6Refer, Goto, TypeOK, PCs
<1>2. TypeOK'
  BY <1>0, <1>1 DEF TypeOK, store, writes
<1>3. OthersKeep(s) /\ Publishes(s) /\ live' = live
  BY <1>1 DEF OthersKeep, Publishes, store, writes
<1>4. SessionSound(s)'
  <2>1. Issued' = Issued
    BY <1>1 DEF Issued, store
  <2>2. retired[s] = {}
    BY <1>0 DEF SessionSound, RetiresActive, Settling
  <2>3. AddsNew(s)' /\ RetiresActive(s)' /\ JobSound(s)'
    BY <1>0, <1>1, <2>1, <2>2 DEF SessionSound, AddsNew, RetiresActive, JobSound, store, writes,
         SinglePCs, WindowPCs, BatchPCs, AddedPCs
  <2>4. job[s].rows = {}
    BY <1>0 DEF SessionSound, JobSound
  <2>5. Settles(s)'
    BY <1>0, <1>1, <2>1, <2>2, <2>4 DEF Settles, MigratesSingle, Claim, store, writes, Settling
  <2> QED
    BY <2>3, <2>5 DEF SessionSound
<1>5. added'[s] = added[s] /\ retired'[s] = retired[s]
  BY <1>1 DEF writes
<1> QED
  BY <1>2, <1>3, <1>4, <1>5, OwnStep DEF BaseInv, Apart


(* ... and may then visit the active signatures it sees of the token, its own left out. *)
LEMMA UC6UpdateStep ==
  ASSUME NEW s \in Sessions, BaseInv, UC6Update(s)
  PROVE  BaseInv'
<1> DEFINE rows == {r \in ActiveSeen(s) \ added[s] : r[1] = job[s].token}
<1>0. TypeOK /\ SessionSound(s) /\ pc[s] = "uc6_update" /\ job[s].token \in Tokens
      /\ job[s].token \in Issued /\ job[s].target \in Algorithms
      /\ migrateLock[job[s].token] = s /\ added[s] = {<<job[s].token, job[s].target>>}
  BY DEF BaseInv, UC6Update, SessionSound, JobSound, SinglePCs, Issued
<1>1. rows \subseteq signed /\ rows \subseteq Signatures
  BY <1>0 DEF ActiveSeen, TypeOK
<1>2. job[s] \in Job
  BY <1>0 DEF TypeOK
<1>3. /\ pc'[s] = "retire" /\ UNCHANGED <<store, writes, locks, kills>>
      /\ job'[s] = [job[s] EXCEPT !.rows = rows]
      /\ pc' \in [Sessions -> PCs]
      /\ \A x \in Sessions \ {s} : pc'[x] = pc[x] /\ job'[x] = job[x]
  BY <1>0 DEF UC6Update, TypeOK, PCs
<1>4. \A r \in rows : r[1] = job[s].token
  OBVIOUS
<1>5. job' \in [Sessions -> Job]
  <2>1. [job[s] EXCEPT !.rows = rows] \in Job
    BY <1>1, <1>2 DEF Job
  <2> HIDE DEF rows
  <2>2. job' = [job EXCEPT ![s] = [job[s] EXCEPT !.rows = rows]]
    BY DEF UC6Update, rows
  <2> QED
    BY <1>0, <2>1, <2>2 DEF TypeOK
<1>6. job'[s].rows = rows /\ job'[s].batch = job[s].batch
      /\ job'[s].token = job[s].token /\ job'[s].target = job[s].target
  BY <1>2, <1>3 DEF Job
<1> HIDE DEF rows
<1>7. TypeOK'
  BY <1>0, <1>3, <1>5 DEF TypeOK, store, writes, locks
<1>8. OthersKeep(s) /\ Publishes(s) /\ live' = live
  BY <1>3 DEF OthersKeep, Publishes, store, writes, locks
<1>9. SessionSound(s)'
  <2>1. Issued' = Issued
    BY <1>3 DEF Issued, store
  <2>2. retired[s] = {}
    BY <1>0 DEF SessionSound, RetiresActive, Settling
  <2>3. AddsNew(s)' /\ RetiresActive(s)'
    BY <1>0, <1>3, <2>1, <2>2 DEF SessionSound, AddsNew, RetiresActive, store, writes, AddedPCs
  <2>4. JobSound(s)'
    BY <1>0, <1>1, <1>3, <1>6, <2>1 DEF SessionSound, JobSound, store, SinglePCs, WindowPCs, BatchPCs
  <2>5. Settles(s)'
    BY <1>0, <1>3, <1>4, <1>6, <2>1, <2>2 DEF Settles, MigratesSingle, Claim, store, writes, locks,
         Settling
  <2> QED
    BY <2>3, <2>4, <2>5 DEF SessionSound
<1>10. added'[s] = added[s] /\ retired'[s] = retired[s]
  BY <1>3 DEF writes
<1> QED
  BY <1>7, <1>8, <1>9, <1>10, OwnStep DEF BaseInv, Apart

(* A statement of a session that has written nothing, and holds nothing it must keep,
   is sound when its variables are. *)
LEMMA QuietStep ==
  ASSUME NEW s \in Sessions, BaseInv, added[s] = {}, retired[s] = {},
         UNCHANGED <<store, writes, tokenRefs, migrateLock, kills>>,
         tokenLock' \in [Tokens -> Sessions \cup {Nobody}],
         NEW p \in PCs, pc' = [pc EXCEPT ![s] = p], p \in BatchPCs \cup WindowPCs \cup {"retire"},
         NEW j \in Job, job' = [job EXCEPT ![s] = j],
         j.rows \subseteq signed, j.rows # {} => p = "retire",
         j.batch \subseteq Issued, j.target \in Targets,
         \A r \in j.rows : r[2] # j.target
  PROVE  BaseInv'
<1>1. /\ pc'[s] = p /\ job'[s] = j
      /\ pc' \in [Sessions -> PCs] /\ job' \in [Sessions -> Job]
      /\ \A x \in Sessions \ {s} : pc'[x] = pc[x] /\ job'[x] = job[x]
  BY DEF BaseInv, TypeOK
<1>2. TypeOK'
  BY <1>1 DEF BaseInv, TypeOK, store, writes
<1>3. OthersKeep(s) /\ Publishes(s) /\ live' = live
  BY <1>1 DEF OthersKeep, Publishes, store, writes
<1>4. SessionSound(s)'
  <2>1. Issued' = Issued
    BY DEF Issued, store
  <2>2. AddsNew(s)' /\ RetiresActive(s)'
    BY <2>1 DEF AddsNew, RetiresActive, store, writes
  <2>3. JobSound(s)'
    BY <1>1, <2>1 DEF JobSound, store, SinglePCs, WindowPCs, BatchPCs
  <2>4. Settles(s)'
    BY <1>1 DEF Settles, ClosesWindow, Claim, writes, Settling, WindowPCs, BatchPCs
  <2> QED
    BY <2>2, <2>3, <2>4 DEF SessionSound
<1> QED
  BY <1>2, <1>3, <1>4, OwnStep DEF writes, BaseInv, Apart

(* What a runner or a closing has before it writes. *)
LEMMA Quiet ==
  ASSUME NEW s \in Sessions, BaseInv,
         pc[s] \in {"batch_select", "batch_lock", "batch_insert", "close_check", "close_update"}
  PROVE  /\ added[s] = {} /\ retired[s] = {} /\ job[s] \in Job
         /\ job[s].rows = {} /\ job[s].batch \subseteq Issued /\ job[s].target \in Targets
         /\ TypeOK
<1>1. SessionSound(s) /\ TypeOK
  BY DEF BaseInv
<1> QED
  BY <1>1 DEF SessionSound, AddsNew, RetiresActive, JobSound, AddedPCs, Settling, BatchPCs,
       WindowPCs, TypeOK

(* A change of one of the variables. *)
LEMMA JobChanges ==
  ASSUME NEW j \in Job, NEW rows \in SUBSET Signatures, NEW batch \in SUBSET Tokens
  PROVE  /\ [j EXCEPT !.rows = rows] \in Job
         /\ [j EXCEPT !.rows = rows].rows = rows
         /\ [j EXCEPT !.rows = rows].batch = j.batch
         /\ [j EXCEPT !.rows = rows].token = j.token
         /\ [j EXCEPT !.rows = rows].target = j.target
         /\ [j EXCEPT !.batch = batch] \in Job
         /\ [j EXCEPT !.batch = batch].batch = batch
         /\ [j EXCEPT !.batch = batch].rows = j.rows
         /\ [j EXCEPT !.batch = batch].target = j.target
BY DEF Job

(* A runner reads the live tokens that it may sign ... *)
LEMMA BatchSelectStep ==
  ASSUME NEW s \in Sessions, BaseInv, BatchSelect(s)
  PROVE  BaseInv'
<1>0. pc[s] = "batch_select"
  BY DEF BatchSelect
<1>1. /\ added[s] = {} /\ retired[s] = {} /\ job[s] \in Job /\ TypeOK
      /\ job[s].rows = {} /\ job[s].batch \subseteq Issued /\ job[s].target \in Targets
  BY <1>0, Quiet
<1>2. PICK batch \in SUBSET Tokens : batch = {t \in live : Signable(t, job[s].target)}
  BY <1>1 DEF TypeOK
<1>3. batch \subseteq Issued
  BY <1>2 DEF BaseInv
<1>4. PICK j \in Job : j = [job[s] EXCEPT !.batch = batch]
  BY <1>1, JobChanges
<1>5. j.batch = batch /\ j.rows = {} /\ j.target = job[s].target
  BY <1>1, <1>4, JobChanges
<1>6. job' = [job EXCEPT ![s] = j] /\ pc' = [pc EXCEPT ![s] = "batch_lock"]
      /\ UNCHANGED <<store, writes, tokenLock, tokenRefs, migrateLock, kills>>
  BY <1>1, <1>2, <1>4 DEF BatchSelect, TypeOK, locks
<1> QED
  BY <1>1, <1>3, <1>5, <1>6, QuietStep DEF TypeOK, PCs, BatchPCs

(* ... and locks some of them, or stops. *)
LEMMA BatchLockStep ==
  ASSUME NEW s \in Sessions, BaseInv, BatchLock(s)
  PROVE  BaseInv'
<1>0. pc[s] = "batch_lock"
  BY DEF BatchLock
<1>1. /\ added[s] = {} /\ retired[s] = {} /\ job[s] \in Job /\ TypeOK
      /\ job[s].rows = {} /\ job[s].batch \subseteq Issued /\ job[s].target \in Targets
  BY <1>0, Quiet
<1>2. PICK batch : batch = FirstOf(Lockable(s))
  OBVIOUS
<1>3. batch \in SUBSET Tokens /\ batch \subseteq Issued
  BY <1>1, <1>2 DEF FirstOf, Lockable, TypeOK
<1>4. CASE batch = {} /\ Raise(s)
  BY <1>4, RaiseStep
<1>5. CASE /\ tokenLock' = [t \in Tokens |-> IF t \in batch THEN s ELSE tokenLock[t]]
           /\ pc' = [pc EXCEPT ![s] = "batch_insert"]
           /\ job' = [job EXCEPT ![s].batch = batch]
           /\ UNCHANGED <<store, writes, tokenRefs, migrateLock, kills>>
  <2>1. PICK j \in Job : j = [job[s] EXCEPT !.batch = batch]
    BY <1>1, <1>3, JobChanges
  <2>2. j.batch = batch /\ j.rows = {} /\ j.target = job[s].target
    BY <1>1, <1>3, <2>1, JobChanges
  <2>3. job' = [job EXCEPT ![s] = j]
    BY <1>1, <1>5, <2>1 DEF TypeOK
  <2>4. tokenLock' \in [Tokens -> Sessions \cup {Nobody}]
    BY <1>1, <1>5 DEF TypeOK
  <2> QED
    BY <1>1, <1>3, <1>5, <2>2, <2>3, <2>4, QuietStep DEF PCs, BatchPCs
<1> QED
  BY <1>2, <1>4, <1>5 DEF BatchLock

(* The batch is inserted when nobody else has an uncommitted row of it. *)
LEMMA BatchInsertStep ==
  ASSUME NEW s \in Sessions, BaseInv, BatchInsert(s)
  PROVE  BaseInv'
<1>0. pc[s] = "batch_insert"
  BY DEF BatchInsert
<1>1. /\ added[s] = {} /\ retired[s] = {} /\ job[s] \in Job /\ TypeOK
      /\ job[s].rows = {} /\ job[s].batch \subseteq Issued /\ job[s].target \in Targets
  BY <1>0, Quiet
<1>2. PICK new : new = {<<t, job[s].target>> : t \in job[s].batch}
  OBVIOUS
<1>3. new \subseteq Signatures /\ \A r \in new : r[1] \in Issued
  BY <1>1, <1>2, MigrationAssumption DEF Signatures, Issued
<1>4. /\ \A r \in new : Adding(s, r) = {}
      /\ added' = [added EXCEPT ![s] = new \ signed]
      /\ pc' = [pc EXCEPT ![s] = "batch_commit"] /\ UNCHANGED <<job, kills>>
      /\ UNCHANGED <<store, retired, locks>>
  BY <1>2 DEF BatchInsert, Goto
<1>5. /\ pc'[s] = "batch_commit" /\ added'[s] = new \ signed
      /\ pc' \in [Sessions -> PCs] /\ added' \in [Sessions -> SUBSET Signatures]
      /\ \A x \in Sessions \ {s} : pc'[x] = pc[x] /\ added'[x] = added[x]
  BY <1>1, <1>3, <1>4 DEF TypeOK, PCs, BatchPCs
<1>6. TypeOK'
  BY <1>1, <1>4, <1>5 DEF TypeOK, store, locks
<1>7. OthersKeep(s) /\ Publishes(s) /\ live' = live
  BY <1>4, <1>5 DEF OthersKeep, Publishes, store, locks
<1>8. SessionSound(s)'
  <2>1. Issued' = Issued
    BY <1>4 DEF Issued, store
  <2> QED
    BY <1>1, <1>3, <1>4, <1>5, <2>1 DEF SessionSound, AddsNew, RetiresActive, JobSound, Settles,
         store, locks, SinglePCs, WindowPCs, BatchPCs, Settling, AddedPCs
<1>9. \A x \in Sessions \ {s} : added'[s] \cap added[x] = {} /\ retired'[s] \cap retired[x] = {}
  BY <1>4, <1>5 DEF Adding, BaseInv, Apart
<1> QED
  BY <1>6, <1>7, <1>8, <1>9, OwnStep

(* A closing goes on to its UPDATE, or raises while tokens are pending. *)
LEMMA CloseCheckStep ==
  ASSUME NEW s \in Sessions, BaseInv, CloseCheck(s)
  PROVE  BaseInv'
<1>0. pc[s] = "close_check"
  BY DEF CloseCheck
<1>1. /\ added[s] = {} /\ retired[s] = {} /\ job[s] \in Job /\ TypeOK
      /\ job[s].rows = {} /\ job[s].batch \subseteq Issued /\ job[s].target \in Targets
  BY <1>0, Quiet
<1>2. CASE Raise(s)
  BY <1>2, RaiseStep
<1>3. CASE Goto(s, "close_update") /\ UNCHANGED <<store, writes, locks>>
  <2>1. PICK j \in Job : j = job[s]
    BY <1>1
  <2>2. job' = [job EXCEPT ![s] = j] /\ pc' = [pc EXCEPT ![s] = "close_update"]
        /\ UNCHANGED <<store, writes, tokenLock, tokenRefs, migrateLock, kills>>
    BY <1>1, <1>3, <2>1 DEF Goto, TypeOK, locks
  <2> QED
    BY <1>1, <2>1, <2>2, QuietStep DEF TypeOK, PCs, WindowPCs
<1> QED
  BY <1>2, <1>3 DEF CloseCheck

(* A closing visits the active rows of its snapshot that are not of its target. *)
LEMMA CloseUpdateStep ==
  ASSUME NEW s \in Sessions, BaseInv, CloseUpdate(s)
  PROVE  BaseInv'
<1>0. pc[s] = "close_update"
  BY DEF CloseUpdate
<1>1. /\ added[s] = {} /\ retired[s] = {} /\ job[s] \in Job /\ TypeOK
      /\ job[s].rows = {} /\ job[s].batch \subseteq Issued /\ job[s].target \in Targets
  BY <1>0, Quiet
<1>2. PICK rows \in SUBSET Signatures :
        rows = {r \in signed \ deprecated : r[1] \in live /\ r[2] # job[s].target}
  BY <1>1 DEF TypeOK
<1>3. rows \subseteq signed /\ \A r \in rows : r[2] # job[s].target
  BY <1>2
<1>4. PICK j \in Job : j = [job[s] EXCEPT !.rows = rows]
  BY <1>1, JobChanges
<1>5. j.batch = job[s].batch /\ j.rows = rows /\ j.target = job[s].target
  BY <1>1, <1>4, JobChanges
<1>6. job' = [job EXCEPT ![s] = j] /\ pc' = [pc EXCEPT ![s] = "retire"]
      /\ UNCHANGED <<store, writes, tokenLock, tokenRefs, migrateLock, kills>>
  BY <1>1, <1>2, <1>4 DEF CloseUpdate, TypeOK, locks
<1> QED
  BY <1>1, <1>3, <1>5, <1>6, QuietStep DEF TypeOK, PCs, WindowPCs

(* A row is retired when no other session is retiring it and it is still active. *)
LEMMA RetireRowStep ==
  ASSUME NEW s \in Sessions, BaseInv, NEW r \in Signatures, RetireRow(s, r)
  PROVE  BaseInv'
<1>0. TypeOK /\ SessionSound(s) /\ pc[s] = "retire" /\ job[s] \in Job
      /\ r \in job[s].rows /\ Retiring(s, r) = {} /\ job[s].rows \subseteq signed
  BY DEF BaseInv, TypeOK, RetireRow, SessionSound, JobSound
<1>1. PICK rows \in SUBSET Signatures : rows = job[s].rows \ {r}
  BY <1>0 DEF Job
<1>2. PICK j \in Job : j = [job[s] EXCEPT !.rows = rows]
  BY <1>0, JobChanges
<1>3. j.rows = rows /\ j.batch = job[s].batch /\ j.token = job[s].token /\ j.target = job[s].target
  BY <1>0, <1>2, JobChanges
<1>4. job' = [job EXCEPT ![s] = j] /\ retired' = [retired EXCEPT ![s] = @ \cup ({r} \ deprecated)]
      /\ UNCHANGED <<store, added, locks, pc, kills>>
  BY <1>0, <1>1, <1>2 DEF RetireRow, TypeOK
<1>5. /\ job'[s] = j /\ job' \in [Sessions -> Job]
      /\ retired'[s] = retired[s] \cup ({r} \ deprecated)
      /\ retired' \in [Sessions -> SUBSET Signatures]
      /\ \A x \in Sessions \ {s} : retired'[x] = retired[x] /\ job'[x] = job[x]
  BY <1>0, <1>4 DEF TypeOK
<1>6. TypeOK'
  BY <1>0, <1>4, <1>5 DEF TypeOK, store, locks
<1>7. OthersKeep(s) /\ Publishes(s) /\ live' = live
  BY <1>4, <1>5 DEF OthersKeep, Publishes, store, locks
<1>8. SessionSound(s)'
  <2>1. Issued' = Issued
    BY <1>4 DEF Issued, store
  <2>2. AddsNew(s)' /\ RetiresActive(s)'
    BY <1>0, <1>4, <1>5, <2>1 DEF SessionSound, AddsNew, RetiresActive, store, Settling
  <2>3. JobSound(s)'
    BY <1>0, <1>1, <1>3, <1>4, <1>5, <2>1 DEF SessionSound, JobSound, store, SinglePCs, WindowPCs,
         BatchPCs
  <2>4. Settles(s)'
    <3>1. Claim(s)' \subseteq Claim(s)
      BY <1>0, <1>1, <1>3, <1>5 DEF Claim
    <3>2. ASSUME added[s] = {}
          PROVE  ClosesWindow(s)'
      BY <1>0, <1>3, <1>5, <3>1, <3>2 DEF SessionSound, Settles, Settling, ClosesWindow
    <3>3. ASSUME added[s] # {}
          PROVE  MigratesSingle(s)'
      BY <1>0, <1>3, <1>4, <1>5, <2>1, <3>1, <3>3 DEF SessionSound, Settles, Settling, MigratesSingle,
           locks
    <3> QED
      BY <1>4, <3>2, <3>3 DEF Settles
  <2> QED
    BY <2>2, <2>3, <2>4 DEF SessionSound
<1>9. \A x \in Sessions \ {s} : added'[s] \cap added[x] = {} /\ retired'[s] \cap retired[x] = {}
  BY <1>0, <1>4, <1>5 DEF Retiring, BaseInv, Apart
<1> QED
  BY <1>6, <1>7, <1>8, <1>9, OwnStep

(* When the last row is visited, the trigger decides. *)
LEMMA RetiredStep ==
  ASSUME NEW s \in Sessions, BaseInv, Retired(s)
  PROVE  BaseInv'
<1>1. CASE Raise(s)
  BY <1>1, RaiseStep
<1>2. CASE Goto(s, "commit") /\ UNCHANGED <<store, writes, locks>>
  <2>0. TypeOK /\ SessionSound(s) /\ pc[s] = "retire" /\ job[s].rows = {}
    BY DEF BaseInv, Retired
  <2>1. /\ pc'[s] = "commit" /\ pc' \in [Sessions -> PCs]
        /\ UNCHANGED <<store, writes, locks, job, kills>>
        /\ \A x \in Sessions \ {s} : pc'[x] = pc[x]
    BY <1>2, <2>0 DEF Goto, TypeOK, PCs
  <2>2. TypeOK'
    BY <2>0, <2>1 DEF TypeOK, store, writes, locks
  <2>3. OthersKeep(s) /\ Publishes(s) /\ live' = live
    BY <2>1 DEF OthersKeep, Publishes, store, writes, locks
  <2>4. SessionSound(s)'
    <3>1. Issued' = Issued
      BY <2>1 DEF Issued, store
    <3>2. AddsNew(s)' /\ RetiresActive(s)' /\ JobSound(s)'
      BY <2>0, <2>1, <3>1 DEF SessionSound, AddsNew, RetiresActive, JobSound, store, writes,
           SinglePCs, WindowPCs, BatchPCs, Settling, AddedPCs
    <3>3. Settles(s)'
      BY <2>0, <2>1, <3>1 DEF SessionSound, Settles, Settling, ClosesWindow, MigratesSingle, Claim,
           writes, locks
    <3> QED
      BY <3>2, <3>3 DEF SessionSound
  <2> QED
    BY <2>1, <2>2, <2>3, <2>4, OwnStep DEF writes, BaseInv, Apart
<1> QED
  BY <1>1, <1>2 DEF Retired

-----------------------------------------------------------------------------
(* The tables and the sessions stay sound, however many targets there are *)

(* The database to start from is sound, ... *)
LEMMA BaseInit ==
  ASSUME Init
  PROVE  BaseInv
<1>1. TypeOK
  BY MigrationAssumption, NoJobType DEF Init, TypeOK, Tokens, Signatures, PCs
<1>2. live \subseteq Issued
  BY MigrationAssumption DEF Init, Issued, Tokens
<1>3. \A s \in Sessions : SessionSound(s)
  BY NoJobType DEF Init, SessionSound, AddsNew, RetiresActive, JobSound, Settles, SinglePCs,
     WindowPCs, BatchPCs, Settling
<1>4. \A s, x \in Sessions : s # x => Apart(s, x)
  BY DEF Init, Apart
<1> QED
  BY <1>1, <1>2, <1>3, <1>4 DEF BaseInv

(* ... every step keeps it so ... *)
LEMMA BaseStep ==
  ASSUME BaseInv, Next
  PROVE  BaseInv'
<1>1. ASSUME NEW s \in Sessions, Call(s)
      PROVE  BaseInv'
  BY <1>1, UC6Step, WindowStep, WithdrawStep DEF Call
<1>2. ASSUME NEW s \in Sessions, Step(s)
      PROVE  BaseInv'
  BY <1>2, UC6LockStep, UC6InsertStep, UC6ReferStep, UC6UpdateStep, BatchSelectStep, BatchLockStep,
     BatchInsertStep, CloseCheckStep, CloseUpdateStep, RetireRowStep, RetiredStep, WithdrawnStep,
     CommitStep DEF Step
<1>3. ASSUME NEW s \in Sessions, Kill(s) \/ DeadlockVictim(s)
      PROVE  BaseInv'
  BY <1>3, KillStep, RaiseStep DEF DeadlockVictim
<1> QED
  BY <1>1, <1>2, <1>3, IssueStep DEF Next

(* ... and so does a step that changes nothing. *)
LEMMA BaseStutter ==
  ASSUME BaseInv, UNCHANGED vars
  PROVE  BaseInv'
<1>1. UNCHANGED <<live, signed, deprecated, added, retired, tokenLock, tokenRefs,
                  migrateLock, pc, job, kills>>
  BY DEF vars
<1>2. TypeOK' /\ Issued' = Issued
  BY <1>1 DEF BaseInv, TypeOK, Issued
<1>3. ASSUME NEW s \in Sessions
      PROVE  SessionSound(s)'
  <2>1. SessionSound(s)
    BY DEF BaseInv
  <2>2. AddsNew(s)' /\ RetiresActive(s)'
    BY <1>1, <1>2, <2>1 DEF SessionSound, AddsNew, RetiresActive
  <2>3. JobSound(s)'
    BY <1>1, <1>2, <2>1 DEF SessionSound, JobSound
  <2>4. Settles(s)'
    BY <1>1, <1>2, <2>1 DEF SessionSound, Settles, ClosesWindow, MigratesSingle, Claim
  <2> QED
    BY <2>2, <2>3, <2>4 DEF SessionSound
<1>4. \A s, x \in Sessions : s # x => Apart(s, x)'
  BY <1>1 DEF BaseInv, Apart
<1> QED
  BY <1>1, <1>2, <1>3, <1>4 DEF BaseInv

(* Every row, lock and variable has its type, and only committed rows are ever
   committed as deprecated, for any number of tokens, algorithms and sessions. *)
THEOREM MigrationTypeCorrect == Spec => []TypeOK
<1>1. Init => BaseInv
  BY BaseInit
<1>2. BaseInv /\ [Next]_vars => BaseInv'
  BY BaseStep, BaseStutter
<1>3. BaseInv => TypeOK
  BY DEF BaseInv
<1> QED
  BY <1>1, <1>2, <1>3, PTL DEF Spec

-----------------------------------------------------------------------------
(* No token loses its last active signature *)

(* No step touches the rows, the statement or the advisory locks of another session. *)
LEMMA StepsKeep ==
  ASSUME NEW s \in Sessions, BaseInv, Call(s) \/ Step(s) \/ Kill(s) \/ DeadlockVictim(s)
  PROVE  OthersKeep(s)
<1>0. TypeOK
  BY DEF BaseInv
<1>1. ASSUME Rollback(s)
      PROVE  OthersKeep(s)
  BY <1>0, <1>1 DEF Rollback, Release, TypeOK, OthersKeep
<1>2. ASSUME Call(s)
      PROVE  OthersKeep(s)
  BY <1>0, <1>2 DEF Call, UC6, Run, Close, Withdraw, Begin, TypeOK, OthersKeep, writes, locks
<1>3. ASSUME UC6Lock(s)
      PROVE  OthersKeep(s)
  BY <1>0, <1>3, MigrationAssumption DEF UC6Lock, Goto, TypeOK, OthersKeep, writes
<1>4. ASSUME UC6Insert(s) \/ UC6Refer(s) \/ UC6Update(s)
      PROVE  OthersKeep(s)
  BY <1>0, <1>1, <1>4 DEF UC6Insert, UC6Refer, UC6Update, Raise, Goto, TypeOK, OthersKeep, writes, locks
<1>5. ASSUME BatchSelect(s) \/ BatchLock(s) \/ BatchInsert(s)
      PROVE  OthersKeep(s)
  BY <1>0, <1>1, <1>5 DEF BatchSelect, BatchLock, BatchInsert, Raise, Goto, TypeOK, OthersKeep,
     writes, locks
<1>6. ASSUME CloseCheck(s) \/ CloseUpdate(s)
      PROVE  OthersKeep(s)
  BY <1>0, <1>1, <1>6 DEF CloseCheck, CloseUpdate, Raise, Goto, TypeOK, OthersKeep, writes, locks
<1>7. ASSUME (\E r \in Signatures : RetireRow(s, r)) \/ Retired(s)
      PROVE  OthersKeep(s)
  BY <1>0, <1>1, <1>7 DEF RetireRow, Retired, Raise, Goto, TypeOK, OthersKeep, writes, locks
<1>8. ASSUME Withdrawn(s) \/ Commit(s)
      PROVE  OthersKeep(s)
  BY <1>0, <1>8 DEF Withdrawn, Commit, Release, TypeOK, OthersKeep
<1>9. ASSUME Kill(s) \/ DeadlockVictim(s)
      PROVE  OthersKeep(s)
  BY <1>1, <1>9 DEF Kill, DeadlockVictim, Raise
<1> QED
  BY <1>2, <1>3, <1>4, <1>5, <1>6, <1>7, <1>8, <1>9 DEF Step

(* Closings go on meeting as long as a session that retires keeps its claim on
   every row that is still active. *)
KeepsClaim(s) ==
  pc'[s] \in Settling /\ added'[s] = {}
  => /\ pc[s] \in Settling /\ added[s] = {}
     /\ \A r : r \notin deprecated => (r \in Claim(s)' <=> r \in Claim(s))

(* Then closings that met still meet. *)
LEMMA MeetingStays ==
  ASSUME NEW s \in Sessions, BaseInv, WindowInv, OthersKeep(s), deprecated \subseteq deprecated',
         KeepsClaim(s)
  PROVE  \A x, y \in Sessions : x # y => ClosingsMeet(x, y)'
<1> SUFFICES ASSUME NEW x \in Sessions, NEW y \in Sessions, x # y
             PROVE  ClosingsMeet(x, y)'
  OBVIOUS
<1>1. ClosingsMeet(x, y)
  BY DEF WindowInv
<1>2. ASSUME NEW z \in Sessions, pc'[z] \in Settling, added'[z] = {}
      PROVE  /\ pc[z] \in Settling /\ added[z] = {}
             /\ \A r : r \notin deprecated => (r \in Claim(z)' <=> r \in Claim(z))
  <2>1. CASE z = s
    BY <1>2, <2>1 DEF KeepsClaim
  <2>2. CASE z # s
    BY <1>2, <2>2 DEF OthersKeep, Claim
  <2> QED
    BY <2>1, <2>2
<1> QED
  BY <1>1, <1>2 DEF ClosingsMeet

(* A step that publishes nothing leaves the active signatures alone. *)
LEMMA UnpublishedStep ==
  ASSUME NEW s \in Sessions, BaseInv, WindowInv, OthersKeep(s),
         signed' = signed, deprecated' = deprecated, StaysAdmitted(s)'
  PROVE  NeverUnsigned' /\ \A x \in Sessions : StaysAdmitted(x)'
<1>1. NeverUnsigned'
  BY DEF WindowInv, NeverUnsigned, Issued
<1>2. ASSUME NEW x \in Sessions, x # s
      PROVE  StaysAdmitted(x)'
  <2>1. StaysAdmitted(x)
    BY DEF WindowInv
  <2> QED
    BY <1>2, <2>1 DEF OthersKeep, StaysAdmitted, TriggerAdmits, ActiveSeen
<1> QED
  BY <1>1, <1>2

(* A transaction that has been admitted stays so when another one commits: a single
   migration keeps the row it inserted; a single migration that commits publishes
   one; and two closings that retire signatures of one token are never both done. *)
LEMMA CommitAdmits ==
  ASSUME NEW s \in Sessions, NEW x \in Sessions, x # s, BaseInv, WindowInv, Commit(s),
         OthersKeep(s)
  PROVE  StaysAdmitted(x)'
<1>1. /\ added'[x] = added[x] /\ retired'[x] = retired[x] /\ pc'[x] = pc[x] /\ job'[x] = job[x]
  BY DEF OthersKeep
<1>2. signed' = signed \cup added[s] /\ deprecated' = deprecated \cup retired[s]
  BY DEF Commit
<1>3. TypeOK /\ SessionSound(s) /\ SessionSound(x) /\ Apart(s, x) /\ ClosingsMeet(s, x)
      /\ StaysAdmitted(x)
  BY DEF BaseInv, WindowInv
<1>4. /\ added[x] \cap signed = {} /\ added[s] \cap signed = {}
      /\ retired[x] \subseteq signed \ deprecated /\ retired[s] \subseteq signed \ deprecated
      /\ deprecated \subseteq signed
  BY <1>3 DEF TypeOK, SessionSound, AddsNew, RetiresActive
<1> SUFFICES ASSUME pc[x] = "commit", NEW r \in retired[x]
             PROVE  \E a \in Algorithms : <<r[1], a>> \in ActiveSeen(x)'
  BY <1>1 DEF StaysAdmitted, TriggerAdmits
<1>5. Settles(x)
  BY <1>3 DEF SessionSound
<1>6. CASE added[x] # {}
  <2>1. MigratesSingle(x)
    BY <1>5, <1>6 DEF Settles, Settling
  <2>2. r[1] = job[x].token /\ <<job[x].token, job[x].target>> \in added[x]
    BY <2>1 DEF MigratesSingle, Claim
  <2>3. job[x].target \in Algorithms
    BY <1>3, <2>2 DEF TypeOK, Signatures
  <2>4. <<job[x].token, job[x].target>> \in ActiveSeen(x)'
    BY <1>1, <1>2, <1>4, <2>2 DEF ActiveSeen
  <2> QED
    BY <2>2, <2>3, <2>4
<1>7. CASE \A q \in retired[s] : q[1] # r[1]
  <2>1. PICK a \in Algorithms : <<r[1], a>> \in ActiveSeen(x)
    BY <1>3 DEF StaysAdmitted, TriggerAdmits
  <2>2. <<r[1], a>> \notin retired[s]
    BY <1>7
  <2> QED
    BY <1>1, <1>2, <2>1, <2>2 DEF ActiveSeen
<1>8. ASSUME added[x] = {}, NEW q \in retired[s], q[1] = r[1]
      PROVE  \E a \in Algorithms : <<r[1], a>> \in ActiveSeen(x)'
  <2>1. pc[s] = "commit" /\ Settles(s)
    BY <1>3 DEF Commit, SessionSound, RetiresActive, Settling
  <2>2. CASE added[s] = {}
    <3>1. job[s].rows = {} /\ job[x].rows = {}
      BY <1>3, <2>1 DEF SessionSound, JobSound
    <3>2. q \in Claim(x) \/ r \in Claim(s)
      BY <1>3, <1>4, <1>8, <2>1, <2>2 DEF ClosingsMeet, Settling, Claim
    <3> QED
      BY <1>3, <3>1, <3>2 DEF Claim, Apart
  <2>3. CASE added[s] # {}
    <3>1. MigratesSingle(s)
      BY <2>1, <2>3 DEF Settles, Settling
    <3>2. q[1] = job[s].token /\ <<job[s].token, job[s].target>> \in added[s]
      BY <3>1 DEF MigratesSingle, Claim
    <3>3. job[s].target \in Algorithms
      BY <1>3, <3>2 DEF TypeOK, Signatures
    <3>4. <<job[s].token, job[s].target>> \in ActiveSeen(x)'
      BY <1>1, <1>2, <1>4, <3>2 DEF ActiveSeen
    <3> QED
      BY <1>8, <3>2, <3>3, <3>4
  <2> QED
    BY <2>2, <2>3
<1> QED
  BY <1>6, <1>7, <1>8

(* What it commits leaves an active signature on every token: what the trigger
   saw, what it inserted, or what was there. *)
LEMMA CommitSigned ==
  ASSUME NEW s \in Sessions, BaseInv, WindowInv, Commit(s)
  PROVE  NeverUnsigned'
<1>1. signed' = signed \cup added[s] /\ deprecated' = deprecated \cup retired[s]
  BY DEF Commit
<1>2. TypeOK /\ SessionSound(s) /\ StaysAdmitted(s) /\ NeverUnsigned
  BY DEF BaseInv, WindowInv
<1>3. /\ added[s] \cap signed = {} /\ retired[s] \subseteq signed \ deprecated
      /\ deprecated \subseteq signed
  BY <1>2 DEF TypeOK, SessionSound, AddsNew, RetiresActive
<1> SUFFICES ASSUME NEW t \in Tokens, t \in Issued'
             PROVE  \E a \in Algorithms : <<t, a>> \in signed' \ deprecated'
  BY DEF NeverUnsigned, Issued
<1>4. PICK b \in Algorithms : <<t, b>> \in signed'
  BY DEF Issued
<1>5. CASE \E r \in retired[s] : r[1] = t
  <2>1. pc[s] = "commit"
    BY <1>2, <1>5 DEF SessionSound, RetiresActive, Settling, Commit
  <2> QED
    BY <1>1, <1>2, <1>5, <2>1 DEF StaysAdmitted, TriggerAdmits, ActiveSeen
<1>6. CASE <<t, b>> \in added[s]
  BY <1>1, <1>3, <1>6
<1>7. ASSUME \A r \in retired[s] : r[1] # t, <<t, b>> \in signed
      PROVE  \E a \in Algorithms : <<t, a>> \in signed' \ deprecated'
  <2>1. PICK a \in Algorithms : <<t, a>> \in signed \ deprecated
    BY <1>2, <1>7 DEF NeverUnsigned, Issued
  <2>2. <<t, a>> \notin retired[s]
    BY <1>7
  <2> QED
    BY <1>1, <2>1, <2>2
<1> QED
  BY <1>1, <1>4, <1>5, <1>6, <1>7

(* A step of a session whose claims do not grow. *)
LEMMA WindowKept ==
  ASSUME NEW s \in Sessions, BaseInv, WindowInv, OthersKeep(s),
         signed' = signed, deprecated' = deprecated, KeepsClaim(s), StaysAdmitted(s)'
  PROVE  WindowInv'
BY UnpublishedStep, MeetingStays DEF WindowInv

(* Calls, rollbacks and kills leave the session nothing to retire. *)
LEMMA WindowRollback ==
  ASSUME NEW s \in Sessions, BaseInv, WindowInv, OthersKeep(s), Rollback(s)
  PROVE  WindowInv'
<1>1. pc'[s] = "idle" /\ signed' = signed /\ deprecated' = deprecated
  BY DEF BaseInv, TypeOK, Rollback, store
<1> QED
  BY <1>1, WindowKept DEF KeepsClaim, StaysAdmitted, Settling

(* A call retires nothing yet. *)
LEMMA WindowCall ==
  ASSUME NEW s \in Sessions, BaseInv, WindowInv, OthersKeep(s), Call(s)
  PROVE  WindowInv'
<1>1. /\ signed' = signed /\ deprecated' = deprecated
      /\ pc'[s] \in {"uc6_lock", "batch_select", "close_check", "withdraw"}
  BY DEF BaseInv, TypeOK, Call, UC6, Run, Close, Withdraw, Begin, store
<1> QED
  BY <1>1, WindowKept DEF KeepsClaim, StaysAdmitted, Settling

(* The statements before an UPDATE of signatures, and a single migration's: none
   of them is a closing that retires. *)
LEMMA WindowEarly ==
  ASSUME NEW s \in Sessions, BaseInv, WindowInv, OthersKeep(s),
         \/ UC6Lock(s) \/ UC6Insert(s) \/ UC6Refer(s) \/ UC6Update(s)
         \/ BatchSelect(s) \/ BatchLock(s) \/ BatchInsert(s) \/ CloseCheck(s)
         \/ Withdrawn(s)
  PROVE  WindowInv'
<1>0. TypeOK /\ SessionSound(s)
  BY DEF BaseInv
<1>1. CASE Raise(s)
  BY <1>1, WindowRollback DEF Raise
<1>2. ASSUME signed' = signed, deprecated' = deprecated, pc'[s] \notin Settling
      PROVE  WindowInv'
  BY <1>2, WindowKept DEF KeepsClaim, StaysAdmitted, Settling
<1>3. CASE UC6Lock(s)
  BY <1>0, <1>2, <1>3 DEF UC6Lock, Goto, TypeOK, store, Settling
<1>4. CASE UC6Insert(s)
  BY <1>0, <1>1, <1>2, <1>4 DEF UC6Insert, Goto, TypeOK, store, Settling
<1>5. CASE UC6Refer(s) \/ UC6Update(s)
  <2>1. /\ signed' = signed /\ deprecated' = deprecated /\ added'[s] # {} /\ retired'[s] = retired[s]
    BY <1>0, <1>5 DEF UC6Refer, UC6Update, SessionSound, JobSound, store, writes
  <2>2. retired[s] = {}
    BY <1>0, <1>5 DEF UC6Refer, UC6Update, SessionSound, RetiresActive, Settling
  <2> QED
    BY <2>1, <2>2, WindowKept DEF KeepsClaim, StaysAdmitted, TriggerAdmits
<1>6. CASE BatchSelect(s)
  BY <1>0, <1>2, <1>6 DEF BatchSelect, TypeOK, store, Settling
<1>7. CASE BatchLock(s)
  BY <1>0, <1>1, <1>2, <1>7 DEF BatchLock, TypeOK, store, Settling
<1>8. CASE BatchInsert(s)
  BY <1>0, <1>2, <1>8 DEF BatchInsert, Goto, TypeOK, store, Settling
<1>9. CASE CloseCheck(s)
  BY <1>0, <1>1, <1>2, <1>9 DEF CloseCheck, Goto, TypeOK, store, Settling
<1>10. CASE Withdrawn(s)
  BY <1>0, <1>2, <1>10 DEF Withdrawn, TypeOK, Settling
<1> QED
  BY <1>3, <1>4, <1>5, <1>6, <1>7, <1>8, <1>9, <1>10

(* The snapshot of a closing has every active row that another one claims of a
   token it claims rows of: both leave out the same target only. *)
LEMMA WindowCloseUpdate ==
  ASSUME OneTarget, NEW s \in Sessions, BaseInv, WindowInv, OthersKeep(s), CloseUpdate(s)
  PROVE  WindowInv'
<1> DEFINE rows == {r \in signed \ deprecated : r[1] \in live /\ r[2] # job[s].target}
<1>0. /\ added[s] = {} /\ retired[s] = {} /\ job[s] \in Job /\ job[s].target \in Targets /\ TypeOK
  BY Quiet DEF CloseUpdate
<1>1. /\ job'[s].rows = rows /\ pc'[s] = "retire"
      /\ UNCHANGED <<signed, deprecated, added, retired>>
  BY <1>0 DEF CloseUpdate, TypeOK, Job, store, writes
<1>2. NeverUnsigned' /\ \A x \in Sessions : StaysAdmitted(x)'
  BY <1>1, UnpublishedStep DEF StaysAdmitted
<1>3. Claim(s)' = rows
  BY <1>0, <1>1 DEF Claim
<1>4. ASSUME NEW x \in Sessions, x # s, pc[x] \in Settling, added[x] = {},
             NEW q \in Claim(x) \ deprecated, NEW r \in rows, r[1] = q[1]
      PROVE  q \in rows
  <2>1. SessionSound(x)
    BY DEF BaseInv
  <2>2. job[x].target \in Targets /\ q[2] # job[x].target
    BY <1>4, <2>1 DEF SessionSound, Settles, ClosesWindow
  <2>3. job[x].target = job[s].target
    BY <1>0, <2>2 DEF OneTarget
  <2>4. q \in signed
    BY <2>1 DEF SessionSound, JobSound, RetiresActive, Claim
  <2> QED
    BY <1>4, <2>2, <2>3, <2>4
<1> HIDE DEF rows
<1>5. ASSUME NEW x \in Sessions, x # s
      PROVE  ClosingsMeet(s, x)' /\ ClosingsMeet(x, s)'
  <2>1. Claim(x)' = Claim(x) /\ pc'[x] = pc[x] /\ added'[x] = added[x] /\ deprecated' = deprecated
    BY <1>1, <1>5 DEF OthersKeep, Claim
  <2> QED
    BY <1>3, <1>4, <1>5, <2>1 DEF ClosingsMeet
<1>6. ASSUME NEW x \in Sessions, NEW y \in Sessions, x # y, x # s, y # s
      PROVE  ClosingsMeet(x, y)'
  BY <1>1, <1>6 DEF OthersKeep, Claim, ClosingsMeet, WindowInv
<1>7. \A x, y \in Sessions : x # y => ClosingsMeet(x, y)'
  BY <1>5, <1>6
<1> QED
  BY <1>2, <1>7 DEF WindowInv

(* Visiting a row moves it from the ones to visit to the ones retired. *)
LEMMA WindowRetireRow ==
  ASSUME NEW s \in Sessions, BaseInv, WindowInv, OthersKeep(s),
         NEW r \in Signatures, RetireRow(s, r)
  PROVE  WindowInv'
<1>0. TypeOK /\ job[s] \in Job
  BY DEF BaseInv, TypeOK
<1>1. /\ pc[s] = "retire" /\ r \in job[s].rows /\ UNCHANGED <<signed, deprecated, added, pc>>
      /\ job'[s].rows = job[s].rows \ {r} /\ retired'[s] = retired[s] \cup ({r} \ deprecated)
  BY <1>0 DEF RetireRow, TypeOK, Job, store
<1>2. KeepsClaim(s)
  BY <1>1 DEF KeepsClaim, Claim, Settling
<1> QED
  BY <1>1, <1>2, WindowKept DEF StaysAdmitted

(* The trigger admits the statement by what is true when it fires. *)
LEMMA WindowRetired ==
  ASSUME NEW s \in Sessions, BaseInv, WindowInv, OthersKeep(s), Retired(s)
  PROVE  WindowInv'
<1>1. CASE Raise(s)
  BY <1>1, WindowRollback DEF Raise
<1>2. CASE TriggerAdmits(s) /\ Goto(s, "commit") /\ UNCHANGED <<store, writes, locks>>
  <2>1. pc[s] = "retire" /\ UNCHANGED <<signed, deprecated, added, retired, job>>
    BY <1>2 DEF Retired, Goto, store, writes
  <2>2. KeepsClaim(s) /\ StaysAdmitted(s)'
    BY <1>2, <2>1 DEF KeepsClaim, Claim, Settling, StaysAdmitted, TriggerAdmits, ActiveSeen
  <2> QED
    BY <2>1, <2>2, WindowKept
<1> QED
  BY <1>1, <1>2 DEF Retired

(* A commit ends the claims of its session. *)
LEMMA WindowCommit ==
  ASSUME NEW s \in Sessions, BaseInv, WindowInv, OthersKeep(s), Commit(s)
  PROVE  WindowInv'
<1>1. pc'[s] \notin Settling /\ deprecated \subseteq deprecated'
  BY DEF BaseInv, TypeOK, Commit, Settling
<1>2. StaysAdmitted(s)'
  BY <1>1 DEF StaysAdmitted, Settling
<1>3. \A x \in Sessions : StaysAdmitted(x)'
  BY <1>2, CommitAdmits
<1>4. \A x, y \in Sessions : x # y => ClosingsMeet(x, y)'
  BY <1>1, MeetingStays DEF KeepsClaim
<1> QED
  BY <1>3, <1>4, CommitSigned DEF WindowInv

(* A newly issued token has its first signature, which nobody has retired. *)
LEMMA WindowIssue ==
  ASSUME BaseInv, WindowInv, NEW t \in Tokens, Issue(t)
  PROVE  WindowInv'
<1>1. /\ t \notin Issued /\ signed' = signed \cup {<<t, Issuing>>}
      /\ UNCHANGED <<deprecated, added, retired, pc, job>>
  BY DEF Issue, writes
<1>2. deprecated \subseteq signed
  BY DEF BaseInv, TypeOK
<1>3. <<t, Issuing>> \notin deprecated
  BY <1>1, <1>2, MigrationAssumption DEF Issued
<1>4. ASSUME NEW u \in Tokens, u \in Issued'
      PROVE  \E a \in Algorithms : <<u, a>> \in signed' \ deprecated'
  <2>1. CASE u \in Issued
    BY <1>1, <2>1 DEF WindowInv, NeverUnsigned
  <2>2. CASE u \notin Issued
    BY <1>1, <1>3, <1>4, <2>2, MigrationAssumption DEF Issued
  <2> QED
    BY <2>1, <2>2
<1>5. NeverUnsigned'
  BY <1>4 DEF NeverUnsigned, Issued
<1>6. \A x \in Sessions : StaysAdmitted(x)'
  BY <1>1 DEF WindowInv, StaysAdmitted, TriggerAdmits, ActiveSeen
<1>7. \A x, y \in Sessions : x # y => ClosingsMeet(x, y)'
  BY <1>1 DEF WindowInv, ClosingsMeet, Claim
<1> QED
  BY <1>5, <1>6, <1>7 DEF WindowInv

(* Every step keeps the active signatures, with one target, ... *)
LEMMA WindowNext ==
  ASSUME OneTarget, BaseInv, WindowInv, Next
  PROVE  WindowInv'
<1>1. ASSUME NEW s \in Sessions, Call(s)
      PROVE  WindowInv'
  BY <1>1, StepsKeep, WindowCall
<1>2. ASSUME NEW s \in Sessions, Kill(s) \/ DeadlockVictim(s)
      PROVE  WindowInv'
  BY <1>2, StepsKeep, WindowRollback DEF Kill, DeadlockVictim, Raise
<1>3. ASSUME NEW s \in Sessions, Step(s)
      PROVE  WindowInv'
  <2>1. OthersKeep(s)
    BY <1>3, StepsKeep
  <2> QED
    BY <1>3, <2>1, WindowEarly, WindowCloseUpdate, WindowRetireRow, WindowRetired, WindowCommit
    DEF Step
<1> QED
  BY <1>1, <1>2, <1>3, WindowIssue DEF Next

(* ... which each token has to start with, ... *)
LEMMA WindowInit ==
  ASSUME Init
  PROVE  WindowInv
<1>1. NeverUnsigned
  BY DEF Init, NeverUnsigned, Issued
<1> QED
  BY <1>1 DEF Init, WindowInv, StaysAdmitted, ClosingsMeet, Settling

(* ... and a step that changes nothing keeps them too. *)
LEMMA WindowStutter ==
  ASSUME WindowInv, UNCHANGED vars
  PROVE  WindowInv'
BY DEF WindowInv, StaysAdmitted, TriggerAdmits, ActiveSeen, ClosingsMeet, Claim, NeverUnsigned,
       Issued, vars

(* While the population is migrated to one target at a time, no token ever loses
   its last active signature, however single migrations, runners and closings of
   the window interleave, are killed or chosen by the deadlock detector. *)
THEOREM AlwaysSigned == OneTarget => (Spec => []NeverUnsigned)
<1> SUFFICES ASSUME OneTarget
             PROVE  Spec => []NeverUnsigned
  OBVIOUS
<1>1. Init => BaseInv /\ WindowInv
  BY BaseInit, WindowInit
<1>2. BaseInv /\ WindowInv /\ [Next]_vars => (BaseInv /\ WindowInv)'
  BY BaseStep, BaseStutter, WindowNext, WindowStutter
<1>3. WindowInv => NeverUnsigned
  BY DEF WindowInv
<1> QED
  BY <1>1, <1>2, <1>3, PTL DEF Spec
=============================================================================
