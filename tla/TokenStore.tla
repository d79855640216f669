----------------------------- MODULE TokenStore -----------------------------
(***************************************************************************)
(* The IdentityToken table with the tables its triggers and procedures     *)
(* write (TokenLifecycleEvent, RevocationList), as concurrent PostgreSQL   *)
(* transactions see it under READ COMMITTED.                               *)
(*                                                                         *)
(* row[t] is the committed version of token t's record.  A transaction     *)
(* that locks or writes the row owns it (owner[t]) until it ends, and      *)
(* works on draft[t], which nobody else can read.  Commit publishes the    *)
(* drafts a transaction owns; rollback discards them.  A statement that    *)
(* locks nothing reads row.                                                *)
(*                                                                         *)
(* This module holds the statements: what the triggers admit, what they    *)
(* append, what the partial unique index refuses or waits for.  The        *)
(* procedures that are built from them are in TokenLifecycle.              *)
(***************************************************************************)
EXTENDS Naturals, Sequences, FiniteSets

CONSTANTS
  Tokens,       \* token ids, those that will be inserted included
  Individuals,  \* holders
  Agencies,     \* issuing authorities
  Txns,         \* database sessions, each running one transaction at a time
  NoTxn,        \* the owner of an unlocked row
  NoToken,      \* SQL NULL for predecessor_token_id
  holder,       \* IdentityToken.individual_id
  issuer,       \* IdentityToken.issuing_agency_id
  expires       \* IdentityToken.expiration_date, in clock units

ASSUME StoreAssumption ==
  /\ IsFiniteSet(Tokens)
  /\ holder \in [Tokens -> Individuals]
  /\ issuer \in [Tokens -> Agencies]
  /\ expires \in [Tokens -> Nat]
  /\ NoTxn \notin Txns
  /\ NoToken \notin Tokens

VARIABLES
  row,         \* committed version of each token's record
  draft,       \* version the row's owner works on; equal to row when unowned
  owner,       \* transaction that holds the row lock, or NoTxn
  holderLock,  \* transaction holding the Individual row FOR UPDATE, or NoTxn
  holderRefs,  \* transactions whose inserts reference the Individual (KEY SHARE)
  clock        \* wall clock, in units of the revocation window

storeVars == <<row, draft, owner, holderLock, holderRefs, clock>>

-----------------------------------------------------------------------------
(* "NONE" stands for a token id that has no row yet. *)
Status == {"NONE", "RESERVE", "ACTIVE", "DORMANT", "REVOKED", "LOST", "EXPIRED"}
Terminal == {"REVOKED", "LOST", "EXPIRED"}

EventType == {"ISSUED", "ACTIVATED", "DEACTIVATED", "REVOKED", "LOST", "EXPIRED"}

(* TokenLifecycleEvent.reason_code, to the procedure that set it. *)
Reason == {"ISSUE", "TRANSITION", "UC4", "UC8", "UC8_COSIGN", "UC9"}

Event == [type : EventType, reason : Reason, at : Nat]

(* published counts the token's RevocationList rows. *)
TokenRow == [status    : Status,
             events    : Seq(Event),
             published : Nat,
             activation_sequence : Nat,
             predecessor : Tokens \cup {NoToken}]

NoRow == [status |-> "NONE", events |-> <<>>, published |-> 0,
          activation_sequence |-> 1, predecessor |-> NoToken]

-----------------------------------------------------------------------------
(* Triggers *)

LegalMoves ==
  {<<"RESERVE", "ACTIVE">>, <<"RESERVE", "REVOKED">>, <<"ACTIVE", "DORMANT">>,
   <<"ACTIVE", "REVOKED">>, <<"ACTIVE", "LOST">>, <<"ACTIVE", "EXPIRED">>}

(* Mutant: a LOST token may still be revoked. *)
AdmitsRevokingLost(t, old, new, now) ==
  \/ old = new
  \/ <<old, new>> = <<"LOST", "REVOKED">>
  \/ <<old, new>> \in LegalMoves /\ (new = "ACTIVE" => now <= expires[t])

(* enforce_token_state_machine; every writer sets activated_date with ACTIVE. *)
StateMachineAdmits(t, old, new, now) ==
  \/ old = new
  \/ <<old, new>> \in LegalMoves /\ (new = "ACTIVE" => now <= expires[t])

(* Mutant: the direct UPDATE to REVOKED is let through. *)
VelocityAdmitsAnyone(old, new, asOwner) == TRUE

(* enforce_revocation_velocity_bound: the application role never enters REVOKED. *)
VelocityAdmits(old, new, asOwner) == new # "REVOKED" \/ old = "REVOKED" \/ asOwner

(* Mutant: the trigger has no branch for DORMANT. *)
EventForLive(s) == IF s = "ACTIVE" THEN "ACTIVATED" ELSE s

EventFor(s) == CASE s = "ACTIVE"  -> "ACTIVATED"
                 [] s = "DORMANT" -> "DEACTIVATED"
                 [] OTHER         -> s

(* Mutant: deactivations are not logged. *)
AuditedUnlessDormant(r, s, reason, now) ==
  IF r.status = s \/ s = "DORMANT" THEN r.events
  ELSE Append(r.events, [type |-> EventFor(s), reason |-> reason, at |-> now])

(* audit_token_state_change, with its skip of an event just written. *)
Audited(r, s, reason, now) ==
  IF \/ r.status = s
     \/ \E k \in DOMAIN r.events :
          r.events[k].type = EventFor(s) /\ r.events[k].at >= now
  THEN r.events
  ELSE Append(r.events, [type |-> EventFor(s), reason |-> reason, at |-> now])

(* UPDATE IdentityToken SET status = s, with the AFTER trigger. *)
SetStatus(r, s, reason, now) ==
  [r EXCEPT !.status = s, !.events = Audited(r, s, reason, now)]

(* INSERT INTO RevocationList, and the trigger that may refuse it. *)
RevocationAdmits(r) == r.status \in Terminal
Published(r) == [r EXCEPT !.published = @ + 1]

-----------------------------------------------------------------------------
(* Row versions, locks and the partial unique index *)

Visible(x, t) == IF owner[t] = x THEN draft[t] ELSE row[t]

RowFree(x, t) == owner[t] \in {x, NoTxn}

SameHolder(t, u) == holder[t] = holder[u]

(* Another transaction has an uncommitted status change on u. *)
InFlight(x, u) == ~RowFree(x, u) /\ draft[u].status # row[u].status

(* Mutant: a SELECT before the write instead of a unique index. *)
ActiveSeen(x, t) ==
  {u \in Tokens \ {t} : SameHolder(t, u) /\ Visible(x, u).status = "ACTIVE"}

(* The entries of uq_one_active_per_person that an ACTIVE t would meet. *)
IndexEntries(x, t) ==
  {u \in Tokens \ {t} :
     /\ SameHolder(t, u)
     /\ IF InFlight(x, u) THEN "ACTIVE" \in {row[u].status, draft[u].status}
                          ELSE Visible(x, u).status = "ACTIVE"}

IndexAdmits(x, t) == IndexEntries(x, t) = {}
IndexRefuses(x, t) == \E u \in IndexEntries(x, t) : ~InFlight(x, u)

(* SELECT ... FOR UPDATE of token rows, or the row lock of an UPDATE. *)
Write(x, S, version) ==
  /\ draft' = [t \in Tokens |-> IF t \in S THEN version[t] ELSE draft[t]]
  /\ owner' = [t \in Tokens |-> IF t \in S THEN x ELSE owner[t]]

(* The Individual row: FOR UPDATE excludes the KEY SHARE of a foreign key. *)
HolderLockable(x, i) == holderLock[i] \in {x, NoTxn} /\ holderRefs[i] \subseteq {x}
HolderReferable(x, i) == holderLock[i] \in {x, NoTxn}

LockHolder(x, i) == holderLock' = [holderLock EXCEPT ![i] = x]
ReferHolders(x, I) ==
  holderRefs' = [i \in Individuals |-> IF i \in I THEN holderRefs[i] \cup {x}
                                                  ELSE holderRefs[i]]

ReleaseRows(x) ==
  /\ owner' = [t \in Tokens |-> IF owner[t] = x THEN NoTxn ELSE owner[t]]
  /\ holderLock' = [i \in Individuals |-> IF holderLock[i] = x THEN NoTxn ELSE holderLock[i]]
  /\ holderRefs' = [i \in Individuals |-> holderRefs[i] \ {x}]

CommitRows(x) ==
  /\ row' = [t \in Tokens |-> IF owner[t] = x THEN draft[t] ELSE row[t]]
  /\ UNCHANGED draft
  /\ ReleaseRows(x)

RollbackRows(x) ==
  /\ draft' = [t \in Tokens |-> IF owner[t] = x THEN row[t] ELSE draft[t]]
  /\ UNCHANGED row
  /\ ReleaseRows(x)
=============================================================================
