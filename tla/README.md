# A TLA+ model of Polaris ID

Polaris ID is an identity-credential authority. Its rules live in a PostgreSQL
database (`src/polaris_sql`: tables, triggers, stored procedures); a Flask
application (`src/polaris_web`) and a command line (`src/polaris_cli`) call
them, and verifiers, cards and wallets sit around it. Many operators, scripts and
relying parties use the database at the same time, and what the system
promises has to survive every interleaving of their transactions: one live
credential per person, no credential that comes back from the dead, a revocation
list that agrees with the status table, a bounded revocation rate, recoveries
that take three people, no token without a signature, a code that buys one copy, a
request that is answered once, a lock that stops guessing. That is what this
project models, model-checks with TLC and proves with TLAPS.

## Inventory

| Part | State it keeps | Operations | What is hard | Correct when |
|---|---|---|---|---|
| Token store and lifecycle procedures | `IdentityToken`, `TokenLifecycleEvent`, `RevocationList`, row and advisory locks | `uc1_issue_and_activate`, `uc_bulk_issue`, `uc4_activate_reserve`, `uc8_revoke_token`, `uc9_complete_recovery`, the operator's direct transition | reads made before a lock is held; a partial unique index that makes one transaction wait for another; lock cycles; a batch of which one row fails | one ACTIVE token per holder; only legal moves; list and log agree with the status; succession is a chain; unsigned revocations stay under the policy's rate; every transaction ends |
| Recovery ceremony | `RecoveryRequest`, `AppUser` | `uc9_initiate_recovery`, `uc9_record_recovery_channel`, `uc9_complete_recovery` | separation of duties built up over several calls by people whose accounts change meanwhile; two openers, two recorders, two deciders | one pending request per person; an approval had three people, two authorities and the cool-down; records stand; strangers cannot recover anyone |
| Algorithm migration | `TokenSignature` | `uc6_migrate_algorithm`, `migrate_population`, `deprecate_superseded` | the count of active signatures is made by a trigger that sees committed rows only; runners skip what is locked and are killed and run again; a foreign key against `FOR UPDATE` | no token without an active signature; running again converges; every session ends |
| Population counts | `PopulationCount`, `PopulationCountDelta`, the fold's advisory lock | statement triggers, `uc_fold_population_counts`, `uc_rebuild_population_counts`, `population.counts` | deltas computed from what each transaction can see; folds inside writers' transactions; a recount beside them | what a reader sums equals a full count |
| Enrollment status and activity rollups | `EnrollmentCurrent`, `EnrollmentCount`, rollups and their deltas | triggers, folds | the same delta scheme | totals equal a recount |
| Federation | `AgencyTrustAttestation` | `uc10` attest, revoke, path queries | stale paths | no path through a revoked attestation |
| Anchors and epochs | `AnchorBatch`, `TokenStateEpoch` | `close_anchor_batch`, UC-11 | a root computed outside the database | a stored root matches the rows it names |
| Wallet copies and status lists | `CredentialCopy`, `AuthCodeConsumed`, the agency's copy key | `tokens_wallet_offer`, `oid4vci_token`, `oid4vci_nonce`, `oid4vci_credential`, `oid4vci_status_list`, `uc_issue_credential_copy` | one-time values presented twice and to two workers; three transactions per request; a worker killed between them; a credential withdrawn meanwhile; a list signed later than it was read | an offer buys one copy; none of an ended credential; a copy reads as its record says |
| OID4VP verifier | open requests, unfetched results, kept status lists, in memory | `new_request`, `request_object`, `handle_direct_post`, `redeem` | a replay judged beside the original; requests that expire while a response is judged; a restart; a stale list | a request is answered once, by an accepted presentation; a withdrawal reaches the verifier |
| Holder keys | `HolderKeyEvent` | register, rotate, revoke | a key read before the lock | only the live key changes the key |
| Retention | `LifecycleArchiveCheckpoint`, archived rows | archive, purge, pseudonymise | several statements, rows that refer to each other | nothing still needed is removed |
| UC-5, UC-7, UC-12 | device, warrant and duress rows | single inserts | nothing is carried over | - |
| Login, lockout, sessions | `AppUser` counters and lock, `OperatorSession` | `authenticate`, `register_session`, `validate_session`, `logout_user`, `user-passwd`, `user-deactivate` | a lock judged from unlocked reads; windows and locks that lapse; sign-ins that race; a rotation beside a registration; a standing read long before it is used | the account locks whenever it is due; the cap is exact; a rotation ends every session; an idle session was unused; after an end only requests already under way pass |
| WebAuthn, rate limits, CSRF | challenges, counters | - | counters at their limits | refusals only |
| Relying-party API, enrollment codes | authorisation codes, one-time codes | issue, redeem, expire | retries, one-time use | a code is redeemed once |
| Signing, formats, zero knowledge, cards | keys, byte strings | encode, sign, verify | cryptography | out of reach of a model checker |
| Console, reporting, simulator, deployment | none of the authority's own | read, drive, install | - | - |

How they interact: the web routes and the command line open a transaction, call a
stored procedure and commit. The procedures share the token rows. A recovery reads
who issued the person's tokens (ceremony), voids them and issues a new one
(lifecycle), which is signed (migration) and counted (population counts). A wallet
copy is recorded against a token row under a share lock, and every status list is computed from
the copies and the statuses the lifecycle has committed; a verifier in another organisation sees
the list and the copy only. Operators reach all of it through a session.

## Modules

| Module | What it holds |
|---|---|
| `TokenStore` | `IdentityToken` with the tables its triggers write, as READ COMMITTED transactions see it: row versions, row locks, the partial unique index, the triggers |
| `TokenLifecycle` | the procedures on it, one action per statement that can wait or fail; the properties |
| `IdentityRegister` | the abstract specification: procedures that take effect at one instant, no sessions, no locks |
| `TokenLifecycleProofs` | its types and the one ACTIVE token per holder, proved |
| `TokenTrailProofs` | extends it: the log, the list, the state machine, the succession, the revocation rate and the refinement of `IdentityRegister`, proved |
| `RecoveryCeremony`, `RecoveryCeremonyProofs` | the ceremony and its theorems |
| `SignatureMigration`, `SignatureMigrationProofs` | migrations, population runs and the closing of the window, and their theorems |
| `WalletIssuance`, `WalletIssuanceProofs` | the OpenID4VCI routes, the recording of a copy and the status lists, and their theorems |
| `WalletPresentation`, `WalletPresentationProofs` | extend these with a verifier: issuer, wallets and verifier composed |
| `OperatorSignIn`, `OperatorSignInProofs` | sign-in, lockout, the session registry and the check of every request, and their theorems |
| `PopulationCounts`, `PopulationCountsProofs` | the count triggers, folds, recounts and readers, and their theorems |
| `MCTokenLifecycle`, `MCRecoveryCeremony`, `MCSignatureMigration`, `MCWalletPresentation`, `MCOperatorSignIn`, `MCPopulationCounts` | the instances TLC checks |

`PROJECT.json` maps every definition to the lines it translates.

### How a transaction is modelled

PostgreSQL is not in this repository; its part in the models (row versions,
locks, `COMMIT`) follows from how the code uses it and is marked external in the map.
The application opens its connections at the default isolation, READ COMMITTED.

In `TokenStore`, `row[t]` is the committed version of a token's record and
`draft[t]` the version its `owner` works on. A statement that locks nothing reads
`row`; one that locks or writes waits until the row is free and then reads the newest
version. `Commit` publishes the drafts, `Rollback` discards them. An activation
meets the partial unique index `uq_one_active_per_person`: an ACTIVE entry of the same
holder refuses it, an entry that another transaction is adding or taking away makes it wait
(`IndexEntries`, `IndexRefuses`). Statements that cannot wait for anyone are part of
the action of the statement before them. A `RAISE`, a client that goes away and
the deadlock detector all end in `Rollback`; there is nothing else to recover, since the
database's own crash recovery gives the same states.

Each procedure is a sequence of `pc` labels: `UC4` reads both tokens unlocked, then
`UC4LockHolder` (the `Individual` row), `UC4LockLost` and `UC4LockReserve` (rows read and
tested again under their locks, `Relock`), then `UC4Swap`. `UC8` takes the agency's advisory lock,
reads status and rate unlocked (`UC8Check`) and updates the row (`UC8Update`).
`UC9Complete` takes the person's advisory lock, reads the live tokens, voids them one by one in
any order (`UC9Void`), inserts the new token and activates it. `BulkInsert` and `BulkActivate`
are the two halves of a batch. `Transition` is the operator's direct status change, which runs
as the application role and so meets the velocity trigger.

In `RecoveryCeremony` a call reads the caller's account, waits for the request row or the
advisory lock, and writes. The whole history of a request is one record; `recorded[c]` is the
person who recorded channel `c`. Accounts change between any two statements (`ChangeAccount`),
credentials are issued elsewhere and lost. The web routes check the session's account and
authority first; the command line does not, and passes any cool-down.

In `SignatureMigration` a signature is a pair of a token and an algorithm. `added[s]` and `retired[s]`
are what an open transaction has inserted and deprecated. `RetireRow` visits the rows of
an `UPDATE` one by one, waiting for rows others are updating; `Retired` is the statement's
end, when the AFTER triggers count what this session can see. A runner selects,
locks (skipping what is locked), inserts and commits batch after batch.

`WalletIssuance` is the web workers of an agency. A one-time value (code, access token, nonce) is
encrypted and kept by its bearer, so `minted` is all of them and any may be presented at any time; the
database keeps only the hashes of those `spent`. `Ask` is `oid4vci_credential` up to the spending of the
nonce, which its primary key lets happen once; `SpendToken`, `LockCredential` and `RecordCopy` are the
following transactions and `SignCopy` the answer. `uc_issue_credential_copy` holds the credential row FOR SHARE from
`LockCredential` to `RecordCopy`, so a status change (`Withdraw`) waits for it and the other way round. `FetchList` reads
the record, `SignList` signs what was read with the time of signing. A worker busy for longer than gunicorn's timeout is killed
(`InTime`, `Die`), and one may die at any step.

`WalletPresentation` adds the verifier of `packages/polaris-oid4vp`. Every post is a thread: `Post` is the first
locked section and the checks of the presentation, `Resolve` the claims and the status list, `Close` the second locked
section, `StoreResult` the third; other threads run between them. `wire` holds every presentation a holder has
signed, so that posting is replaying. Every locked section except `Close` runs `_expire_locked`.
What the issuer publishes is what `WalletIssuance` publishes: `PresentNext` interleaves the two next-state relations.

In `OperatorSignIn`, `Begin` and `Check` are the two unlocked SELECTs of `authenticate`, `Fail` and `Succeed` its UPDATEs after
the password was hashed; `now` is the start of the transaction, which is what the lock and the window are computed from.
`Open`, `Insert` and `Register` are `register_session`: the transaction starts, and with it the time its rows get; it waits for the account
row and holds it to its commit. The check at the start of every request is two steps, as `validate_session` is two statements: `Look` is the SELECT of the
session and its account, which locks nothing, and `End` or `Pass` what follows from its verdict, an UPDATE that tests `revoked_at IS NULL` and nothing else, or a touch, which
is saved for a minute, or no write at all. Whatever is committed between the two is not looked at again. A worker that is busy for longer than gunicorn's
timeout is killed (`gunicorn.conf.py` runs sync workers), so `End` and `Pass` come within `Timeout` of the `Look` (`InTime`), or not at all (`Drop`).
The account's role and authority binding are one value, its standing. A behaviour keeps
to one of the `Scenarios` (which operations occur together), because all of them at once have more states than TLC can visit.

In `PopulationCounts` a writer's transaction is any sequence of statements the triggers count. Each statement appends to
`pending` what its trigger computes from the statement's own view (`StatusSeen`, `LiveSeen`), and may fold
(`Folded`): committed deltas and its own go to `moved`, which the totals get at commit. A reader's sum is `Counted`.

## Runs

Every passing run has `CHECK_DEADLOCK FALSE`: when the ids, the clock and the kills
are used up and everything has been decided, the system may rightly stop. That nobody waits
for ever is checked by the liveness properties instead.

| Run | Instance | States | Shows |
|---|---|---|---|
| `token_races` | one holder with an ACTIVE token and two reserves, one about to expire; two sessions; transitions, UC-4, UC-8 with and without a co-signer; a moving clock | 1.91M | `TypeOK`, `OneActivePerPerson`, `RevocationListAgrees`, `AuditTrailAgrees`, `SuccessionIsAChain`, `RevocationRateBounded`, `LegalLifecycle` |
| `token_progress` | two reserves of one holder, an id to issue to each of two holders; UC-1, bulk, UC-4, UC-9, activation; fair | 53k | `ImplementsRegister`: a batch is issued whole or not at all, a recovery takes effect at once; `TransactionsEnd`, with the lock cycles UC-4 and UC-9 form |
| `revoked_twice` | UC-4 against UC-8 | violation | a token can be revoked and published twice |
| `ceremony_opening` | two users, two sessions, two requests for one person; the web routes; fair | 302k | `OnePendingPerPerson`, `RecordsStand`, `CallsEnd` |
| `ceremony_standing` | three users, two of whom change; three authorities, credentials issued meanwhile, the command line with a cool-down of zero | 1.71M | `TypeOK`, `ApprovalTookThree`, `StrangersCannotRecover` |
| `migration_progress` | batches of one, two sessions, a kill; from two tokens, with single migrations that block a token or meet a runner, or from one, with issuance and withdrawal; fair, re-run | 39k | `TypeOK`, `NeverUnsigned`, `Converges`, `MigrationsEnd` |
| `windows_clash` | two windows with different targets closed at once | violation | a token ends with no active signature |
| `wallet_presentation` | from no copy: one credential, two values of each kind, two workers that may die, two status indexes, a withdrawal, a clock that passes every lifetime. From a copy in each of two wallets: one request, two presentations, two verifier threads, one issuer worker at a time and one list, a restart, a withdrawal | 1.62M | `WalletTypeOK`, `OneCopyPerOffer`, `CopiesReadRight`, `NoCopyOfTheEnded`, `PresentTypeOK`, `AnsweredOnce`, `OnlyAcceptanceCloses`, `WithdrawalReaches`, `ListsAreRecent` |
| `answered_late` | one presentation, one thread, a clock that passes the request's lifetime | violation | a request that expired while its response was judged is answered |
| `operator_sign_in` | one account of two standings, two sign-ins and two requests at a time, two sessions, a threshold of two, a cap of one, one rotation | 3.03M | `SignInTypeOK`, `LockedWhenDue`, `LockStopsGuessing`, `SessionCap`, `RotationEndsSessions`, `IdleMeansUnused`, `EndStopsRequests` |
| `population_counts` | two databases: a reserve and an ACTIVE credential with signatures to add and to deprecate; an id to issue beside a revoked credential; two writers of up to three statements; a recount | 1.17M | `CountsTypeOK`, `StatusCountsExact`, `SignatureCountsExact` |
| `overlap_miscounts` | the same databases, two writers of one statement each | violation | a status change and a signature change of one credential, side by side, put the live-signature counts off by one |

Two MC modules carry a variable `scenario`, fixed by the initial state, and a specification `ScenarioSpec` that keeps a behaviour to the operations of its
scenario, for the same reason as `Scenarios`: in `MCSignatureMigration` single migrations and a complete population ("singles"), or a population that is issued and withdrawn
("growing"); in `MCWalletPresentation` an issuer from whom copies are bought ("issue"), or copies that are presented ("present"). `Loads` holds what the
database may have been loaded with. The specifications the theorems are about have no such restriction.

The bounds. Two sessions, because each rule is about what a pair of
transactions does to the same rows; the proofs cover any number. Three
tokens give one holder a credential, a reserve and a successor, which is all UC-4 and UC-9
distinguish. `MaxClock` 1 lets a window or a cool-down lapse while a transaction is under way.
Three users are what an approval takes and three authorities are a requester, a witness and a
stranger. `ceremony_standing` has one session: what it asks is how calls and changes of accounts add up, one after another. That recorders and
deciders who race overwrite nothing is `RecordsStand` in `ceremony_opening`, and that they cannot approve with fewer
people is `ThreeToRecover`, for any number of sessions. Papers that fail the ceremony's format checks (`Papers`) are one more refusal and left out of the instances. Two tokens with batches of one make a runner choose; larger batches and single migrations
of any token to any algorithm are left to `AlwaysSigned`, which has no such bounds. Two one-time values of each
kind let a value be spent twice or crossed with another, and two status indexes let a list fill up. Where copies are presented they are already in the
wallets (how they got there is the other half of the run) and one published list is enough to be stale. A threshold of two, a cap of one, a window of one and a lock of two make a lock lapse and be due again within
`MaxClock` 4. With an idle timeout of two, a touch interval of one and a worker timeout of one, a request can read a session on either side of
the idle boundary and write after another has touched it; two requests at a time are enough for both to straddle it, and for one of them to
be overdue beside another. Three counted statements per transaction are an issuance: the credential,
its signature, its activation. Sessions are interchangeable
and treated as symmetric wherever no liveness property is checked.

### Properties

* `OneActivePerPerson`, `LegalLifecycle`: the committed statuses, whatever raced.
* `RevocationListAgrees`, `AuditTrailAgrees`: the three tables are written by
  different triggers and procedures and must tell the same story.
* `SuccessionIsAChain`: predecessors and activation numbers never fork.
* `RevocationRateBounded`: over every past window, counting only revocations
  without a co-signer.
* `ImplementsRegister`: the committed statuses and requests step as `IdentityRegister`
  steps; the refinement mapping is `status <- [t |-> row[t].status]`.
* `ApprovalTookThree`, `RecordsStand`, `StrangersCannotRecover`, `OnePendingPerPerson`.
* `NeverUnsigned`, `Converges`.
* `OneCopyPerOffer`, `NoCopyOfTheEnded`, `CopiesReadRight`: one-time values, the share lock, and the order of
  recording and signing.
* `AnsweredOnce`, `OnlyAcceptanceCloses`: two threads, replays, expiry and restarts at one request.
* `ListsAreRecent`, `WithdrawalReaches`: how long a withdrawn credential can still be accepted on a checked status, through
  the issuer's slow worker and the verifier's kept list: less than `Timeout + ListTTL`.
* `LockedWhenDue`, `LockStopsGuessing`: the failures that a lock owes its existence to, and those still judged after it: fewer than there are sign-ins at a time.
* `SessionCap`, `RotationEndsSessions`: registrations beside each other and beside a rotation. `RotationEndsSessions` is about sessions whose row was written before
  the rotation. A sign-in that passed the old password before the rotation and registers after it gets a session the rotation does not end; the code
  does not compare the two, and no document says it would.
* `IdleMeansUnused`: a session that was ended as idle was unused when the request that ended it read it. How exact that can be is `Slack`: the last use may be younger
  than `last_seen_at` by a touch that was saved (`Touch`) or one that was overtaken by another request's older touch (`Timeout`).
* `EndStopsRequests`: after a session ended, by whatever way, or its account was deactivated or changed its standing, no more requests are let through than
  had read the session before, one for each request at a time.
* `StatusCountsExact`, `SignatureCountsExact`: the sum of totals and deltas against a full count, the latter until an overlap (finding 4).
* `TransactionsEnd`, `CallsEnd`, `MigrationsEnd`: no session waits for ever.

### Fairness

Only `token_progress`, `ceremony_opening` and the migration runs assume any. Clients owe the database nothing: no fairness is assumed of calls, crashes, kills,
account changes or the clock. A statement whose lock comes free again and again runs in the end, since
PostgreSQL grants row and advisory locks in the order they were asked for: strong fairness of
`Step(s)` for each session. In `SignatureMigration` a uc6 call and a runner can deadlock each other
anew with every call, each time with another victim; that the waiting INSERT gets its turn is
strong fairness of `UC6Refer` and `BatchInsert`. The deadlock detector runs on every cycle: weak
fairness of `DeadlockVictim`. `Converges` also assumes that the operator runs
the migration again, as `docs/operator/QUANTUM-EVENT.md` tells them to (`Reruns`).

## Findings

1. `uc8_revoke_token` says "a token cannot be double-revoked or revoked-after-LOST"
   (`05_procedures.sql:613`) and tests a status it read without a lock. If UC-4 for a compromised
   token commits before the UPDATE, the token goes from REVOKED to REVOKED, which the state machine lets pass,
   and a second `RevocationList` row is inserted (`revoked_twice`). A token that was LOST in
   between is refused by the state machine.
2. "A migration cannot leave a token without an active signature, because the
   database will not let it" (`migration.py:21`). `deprecate_superseded` takes no lock on the
   tokens: two closings with different targets deprecate different rows of one token, each trigger
   counts the row the other has not committed yet, and none is left (`windows_clash`). For one target
   at a time, with single migrations to any algorithm beside it, there is no such interleaving (`migration_progress` on a small instance, and `AlwaysSigned` for any number
   of tokens and sessions, single migrations to any algorithm and batches of any size).
3. `verifier.py:1205` says that a request which expired while its response was judged is not answered. The section that closes a
   request is the only one that does not run `_expire_locked`, so the request is answered unless some other call has swept it in the meantime (`answered_late`).
4. The live-signature counts are called exact (`01_schema.sql:2251`, `population.py:12`), and
   `test_the_counts_equal_a_full_count_after_every_kind_of_change` checks it one change after another. When a status change and a signature change
   of the same credential are both open, neither trigger sees the other: a credential is activated while a signature is added to it, and the signature is
   never counted; a revocation subtracts a signature that is being deprecated, whose own trigger subtracts it again (`overlap_miscounts`).
   The error stays until a recount, and while a total would become negative every fold is refused (and the refusal swallowed), so the deltas pile up.
   The status counts are not affected, and the live-signature counts are exact until the first overlap after a recount (`SignatureCountsExact`).

Five things met while modelling that no run is about:

* A request that read its session as idle ends it although another request touched it in between: the UPDATE tests `revoked_at IS NULL` only. The session had been idle
  when it was read, which is what `IdleMeansUnused` says.
* `last_seen_at` is the start of a transaction, and may step back: two touches, or a registration that waited for the account row, write in another order than they
  started. A registration that waited while an existing session was touched can find its own new row the least recently seen, and evict it.
* `TokensWithLifecycleSummary` (`12_v7_constraints.sql:146`) orders a token's events by the start of the transaction that wrote them. `AuditTrailAgrees` is about the
  last event inserted; when a transaction that started first commits last, the view names another one.
* A sign-in that passed the old password survives a rotation that comes before its registration (above).
* Only the triggers fold. `05_procedures.sql:2847` says that the Overview folds before it reads; what it sums, totals and deltas, is the same either way.

## Proofs

Every safety invariant and action property of the passing runs, and the refinement, is a theorem (34 in all): of the specification, for any
sets of tokens, holders, people, agencies, sessions, workers and threads, and any thresholds, caps, lifetimes and bounds.
The assumptions are those named in the modules (`StoreAssumption`, `LifecycleAssumption`, `CeremonyAssumption`,
`MigrationAssumption`, `IssuanceAssumption`, `PresentationAssumption`, `SignInAssumption`, `CountsAssumption`): the constants have their
types, the initial load respects the database's constraints, and where something is counted (tokens, sign-ins, session
ids) there are finitely many. The ceremony's sessions are finite in number because each of those who insert a request takes an id
of its own. Only `AlwaysSigned` has a hypothesis beyond these, for the reason finding 2 gives.

The shape is the same everywhere. A safety property speaks of committed rows or of answers given and is not inductive: something must
be known of what is under way. The module defines that as an invariant of named parts, shows that every action keeps it, and
derives the property. Where several properties need more than one invariant, each rests on those before it.

`TokenLifecycleProofs`: `TypeCorrect` (`TypeOK`) and `OneActive` (`OneActivePerPerson`). A commit publishes drafts, so
`IInv` adds `Versions` (an unlocked row has one version), `Owns` (a procedure between two statements holds
the rows it will write) and `ActiveVersions`: among the committed versions and among the drafts a holder has at most one
ACTIVE token, and a draft that is ACTIVE beside another token's committed ACTIVE version belongs to the transaction that
is taking the latter out of the index. The core is `GoodWriteKeeps`: a write of rows that are free or one's
own, in which no new ACTIVE version meets an index entry, preserves `ActiveVersions`. Each statement is shown to be such
a write, a commit or a rollback.

`TokenTrailProofs` goes on from there, with one invariant for each question:

* `TrailInv`, for `RevocationsListed` (`RevocationListAgrees`), `LogTellsStatus` (`AuditTrailAgrees`) and `LifecycleLegal` (`LegalLifecycle`): every
  version of a row, committed or draft, is `Sound` (log and list tell its status), and a draft is at most one legal
  move away from the committed version. For the second half one must know which rows a procedure has written already, since two legal moves
  in one transaction need not make one (`WritesAgain`).
* `ChainInv`, for `SuccessionChain` (`SuccessionIsAChain`): the chain holds among the drafts too, and only the
  transaction that has the `Individual` row locked renumbers the holder's tokens, which is why the MAX that UC-4 reads is still
  the MAX when it is used.
* `RateInv`, for `RateBounded` (`RevocationRateBounded`): the agency's advisory lock is held from the count to the commit, so a draft that adds an event to be
  counted belongs to the only transaction that is past the count, and that one counted room for it.
* `EffectInv`, for `RegisterImplemented` (`ImplementsRegister`, with the mapping `status <- [t |-> row[t].status]`): at its
  commit every transaction has drafted exactly one step of `IdentityRegister`, whole: a batch, a move, a swap, a decided recovery. All other steps are stutters but the
  insert of a recovery request. A recovery voids every reserve of the person, because none can be issued or activated
  between its loop and its commit.

`RecoveryCeremonyProofs`: `TypeCorrect` (`TypeOK`) and `ThreeToRecover` (`ApprovalTookThree`) from `IInv`, which adds to pending requests what approvals are made
from: from its opening on no channel of a request is recorded by the requester, a witness comes from another authority
(`SoundRequest`), and a call under way names an opened request (`CallKnown`). `OnePendingEach` (`OnePendingPerPerson`), `RecordsStay`
(`RecordsStand`) and `StrangersKeptOut` (`StrangersCannotRecover`) from `StandInv`: one who closes holds the row, a witnessed request has its tie to the
person (credentials are only added, so the tie does not lapse), and there are ids left for those who insert.

`SignatureMigrationProofs`: `MigrationTypeCorrect` (`TypeOK`), for any targets, and `AlwaysSigned`:
`OneTarget => (Spec => []NeverUnsigned)`. `BaseInv` says what a session has inserted, locked and deprecated at each
statement, and that two sessions never hold the same row. `WindowInv` adds `StaysAdmitted` (what the trigger admitted is still
admitted at the commit: no other session can take away the active signature it saw) and `ClosingsMeet`. With one
target, the rows of a token that two closings deprecate are the same, so the one that comes second must wait for the first and then finds the row
deprecated, or the first has a row to visit that the second holds. Two targets break exactly this, as `windows_clash` shows. A uc6 call is
safe beside both for another reason: the row it inserts stays active, and closings see it only once committed.

`WalletIssuanceProofs`: `WalletTypeCorrect` (`WalletTypeOK`), `OfferBuysOnce` (`OneCopyPerOffer`), `HeldCopiesRead` (`CopiesReadRight`),
`PublishedListsRecent` (`ListsAreRecent`) and `CopiesOfTheActive` (`NoCopyOfTheEnded`). `WalletInv` follows the money: an offer has at
most one token, what bought a copy is spent, and a worker past the spending of a token is the only one who spent it and has not
bought yet. A worker that records holds the share lock and so sees an ACTIVE credential nobody is updating; a worker that signs a list
read it no earlier than it started, and has not been busy for longer than `Timeout`.

`WalletPresentationProofs`: `PresentTypeCorrect` (`PresentTypeOK`), `RequestAnsweredOnce` (`AnsweredOnce`), `AcceptanceCloses` (`OnlyAcceptanceCloses`),
`WithdrawalsReach` (`WithdrawalReaches`) and `PresentedListsRecent` (`ListsAreRecent` of the composition). `VerifierInv` stands beside
`WalletInv`, which the verifier's steps keep. One answer makes one result, which is with the thread that will store it, or stored, or fetched, or
lost with the process; a checked status was still right when its list was read, which
a step of the issuer never makes worse (`World`).

`OperatorSignInProofs`: `TypeCorrect` (`SignInTypeOK`), `LockoutExact` (`LockedWhenDue`), `GuessesBounded` (`LockStopsGuessing`), `CapExact` (`SessionCap`),
`RotationEnds` (`RotationEndsSessions`), `IdleUnused` (`IdleMeansUnused`) and `EndsStopRequests` (`EndStopsRequests`). `Counted`: the failure column counts at least the
run of wrong passwords that ends with the last. `Watched`: the guesses made while a lock is in force and those still to come leave out the worker whose
guess set it. `Registering`: a registration holds the account's row, so neither a rotation nor another registration has come
since it read the account. `RequestInv`: what a request has read bounds how far `last_seen_at` can be from the last use, now and after its own write; and the requests let through since a session
ended, with those that still may be, are no more than there can be at a time, since a request that reads an ended session is refused.

`PopulationCountsProofs`: `CountsTypeCorrect` (`CountsTypeOK`), `StatusesExact` (`StatusCountsExact`) and `SignaturesExact` (`SignatureCountsExact`, until an overlap). The sum a reader makes is
moved by a commit only, by `Net`: what the transaction has pending plus what it folded into the totals minus the deltas the fold took away. `StatusNets`
and `SignatureNets` say what that is: the credentials its drafts put into a status less those they take out of it, and the same for
signatures that count. For signatures this needs that nobody else touches the same credential (`OverlapsRecorded`), which is the
antecedent of the property. `FoldsAdmitted` shows that no commit can make a total negative, although the CHECK is evaluated when the fold runs.

The most delicate of these, `BaseInv`, `WindowInv` and `CountsInv`, were model-checked on instances like those of the runs before they were proved.

Model-checked only: liveness (`TransactionsEnd`, `CallsEnd`, `MigrationsEnd`, `Converges`), which rests on fairness and ENABLED and is out of the
prover's reach. The properties of the four violation runs do not hold.

## Not modelled

* The agency quota trigger and other refusals of a whole call: a rollback, which every statement
  may end in. `tokens_delete`: its DELETE is refused by the audit rows every issued token has.
* Signatures, key material, biometric data and document formats: a signature is there or it is not, papers are
  well formed or not.
* Deprecation dates: a deprecated signature counts as lapsed, as the trigger's count has it. The CHECK that
  the date exceeds `signed_at` may refuse a uc6 that waited long: a rollback.
* The `limit` of a population run (a stop at a batch boundary is a kill between batches) and the command line's
  check that the target can be verified (an optional start).
* The audit trigger skips an event of the same type written in the last 100 ms. The model skips one of
  the same clock unit, which is more often.
* Of the wallet routes, what is refused before anything is written: rate limits, proofs that do not hold, values of another kind or agency. `list_no`:
  the copies an agency issues in a day are on one list. Cryptography is the predicate `Authentic` and the rule that only what was minted can be presented.
* The verifier's transaction data and its memory of `jti` values; several credentials in one query.
* The second factor: it takes any time or fails. The network policy is one of the ways a sign-in is abandoned.
* The DELETE and TRUNCATE branches of the count triggers (no signature is ever deleted, and only an owner clears the tables), and
  `uc_fold_population_counts` called by hand.
* The components marked `not_modelled` in `PROJECT.json`, for the reasons given there.

## Plan

Done: token lifecycle and its register; the ceremony; migration; wallet issuance and presentation; sign-in and sessions;
population counts; the proofs of their safety properties and of the refinement.

1. Theorems that no run states as a property and readers would ask for: that a recovery leaves exactly the new token live, that `Converges` holds once
   every run of a migration has ended (its safety half).
2. The signature counts after an overlap: which counts a recount repairs, and that it always does.
3. Modules for federation, holder keys, anchors and epochs, retention, WebAuthn challenges and the auth broker's codes.
