--------------------------- MODULE WalletIssuance ---------------------------
(***************************************************************************)
(* A wallet copy of a credential: the OpenID4VCI routes of an agency       *)
(* (oid4vci_routes.py), the procedure that records a copy, and the Token   *)
(* Status List computed from the record at every fetch.                    *)
(*                                                                         *)
(* The code, the access token and the nonce are encrypted values that only *)
(* their bearers hold; minted lists every one ever handed out, and a       *)
(* bearer may present any of them at any time, twice, and to two workers   *)
(* at once.  What the database keeps is spent (AuthCodeConsumed), copies   *)
(* (CredentialCopy) and the credential rows.  held is what wallets got,    *)
(* lists what was published.                                               *)
(*                                                                         *)
(* A request that is refused without writing anything (the rate limiter, a *)
(* proof that does not hold, a value of another kind or agency, one that   *)
(* was spent) is no step.                                                  *)
(***************************************************************************)
EXTENDS Naturals, Sequences, FiniteSets

CONSTANTS
  Credentials,  \* IdentityToken rows
  Agencies,     \* issuing agencies, each its own credential issuer
  Workers,      \* web workers, one request at a time
  Slots,        \* status indexes of one list
  issuerOf,     \* IdentityToken.issuing_agency_id
  expiration,   \* IdentityToken.expiration_date
  keyEnds,      \* the end of the agency's wallet-copy certificate chain
  TTL,          \* VCI_TTL, by kind of one-time value
  CopyLife,     \* _COPY_VALID_FOR
  ListTTL,      \* STATUS_LIST_TTL
  Timeout,      \* a worker busy for longer is killed
  DayLength,    \* clock units in a day
  MaxOf,        \* bound: values minted, by kind
  MaxLists,     \* bound: status list tokens published
  MaxClock      \* bound: the clock stops here

Kinds == {"code", "token", "nonce"}

ASSUME IssuanceAssumption ==
  /\ issuerOf \in [Credentials -> Agencies]
  /\ expiration \in [Credentials -> Nat]
  /\ keyEnds \in [Agencies -> Nat]
  /\ TTL \in [Kinds -> Nat] /\ MaxOf \in [Kinds -> Nat]
  /\ CopyLife \in Nat /\ ListTTL \in Nat /\ Timeout \in Nat
  /\ DayLength \in Nat \ {0} /\ MaxLists \in Nat /\ MaxClock \in Nat
  /\ Slots \subseteq Nat /\ Credentials # {}

VARIABLES
  status,     \* IdentityToken.status as committed: ACTIVE, or left for good
  endedAt,    \* when it left ACTIVE
  updating,   \* credentials with an uncommitted UPDATE of the status
  minted,     \* one-time values, in the order they were minted
  spent,      \* AuthCodeConsumed: the values whose hash is registered
  copies,     \* CredentialCopy
  held,       \* copies signed and answered
  lists,      \* status list tokens signed and answered
  pc,         \* where each worker's request is
  req,        \* that request
  clock

creds == <<status, endedAt, updating>>
issued == <<minted, spent, copies, held, lists>>
busy == <<pc, req>>
walletVars == <<creds, issued, busy, clock>>

(* offer is the index of the code that a value, and later a copy, comes from. *)
Value == [kind : Kinds, agency : Agencies, cred : Credentials, born : Nat, offer : Nat]

Copy == [agency : Agencies, cred : Credentials, day : Nat, slot : Slots,
         expires : Nat, offer : Nat]

ListToken == [agency : Agencies, day : Nat, valid : SUBSET Slots, iat : Nat]

NoReq == [value |-> 0, start |-> 0, now |-> 0, made |-> {}, list |-> {}]

-----------------------------------------------------------------------------
(* One-time values *)

OfKind(kind) == {v \in DOMAIN minted : minted[v].kind = kind}

Mint(v) ==
  /\ Cardinality(OfKind(v.kind)) < MaxOf[v.kind]
  /\ minted' = Append(minted, v)

(* open_vci_value: ours, of this kind, within its lifetime. *)
Opens(v, kind) == v \in OfKind(kind) /\ clock <= minted[v].born + TTL[kind]

(* _issuer and key_for_agency: the window is checked at every use. *)
HasKey(a) == clock <= keyEnds[a]

(* Mutant: only a code or a nonce is single-use; an access token may buy again. *)
UnspentOrToken(v) == v \notin spent \/ minted[v].kind = "token"

(* _spend: the INSERT that the primary key of AuthCodeConsumed admits or refuses. *)
Unspent(v) == v \notin spent
Spend(v) == spent' = spent \cup {v}

-----------------------------------------------------------------------------
(* Requests *)

Arrive(w, label, r) ==
  /\ pc' = [pc EXCEPT ![w] = label]
  /\ req' = [req EXCEPT ![w] = [r EXCEPT !.start = clock]]

Goto(w, label) == pc' = [pc EXCEPT ![w] = label]

Answer(w) ==
  /\ Goto(w, "idle")
  /\ req' = [req EXCEPT ![w] = NoReq]

(* Mutant: nothing bounds how long a request may take. *)
Unhurried(w) == TRUE

(* gunicorn kills a sync worker that has been busy for longer than Timeout. *)
InTime(w) == clock <= req[w].start + Timeout

(* The request is over without an answer; an open transaction rolls back. *)
Die(w) ==
  /\ pc[w] # "idle"
  /\ Answer(w)
  /\ UNCHANGED <<creds, issued, clock>>

(* tokens_wallet_offer *)
Offer(c) ==
  /\ HasKey(issuerOf[c])
  /\ status[c] = "ACTIVE"
  /\ Mint([kind |-> "code", agency |-> issuerOf[c], cred |-> c, born |-> clock,
           offer |-> Len(minted) + 1])
  /\ UNCHANGED <<creds, spent, copies, held, lists, busy, clock>>

(* oid4vci_nonce.  A nonce names no credential; its cred field carries nothing. *)
Nonce(a) ==
  /\ HasKey(a)
  /\ Mint([kind |-> "nonce", agency |-> a, cred |-> CHOOSE c \in Credentials : TRUE,
           born |-> clock, offer |-> 0])
  /\ UNCHANGED <<creds, spent, copies, held, lists, busy, clock>>

(* oid4vci_token: the code opens and its hash is written, all that the request
   leaves behind.  The token it answers with is a new value; a lost answer is a
   token nobody presents. *)
Redeem(v) ==
  /\ Opens(v, "code") /\ HasKey(minted[v].agency)
  /\ Unspent(v) /\ Spend(v)
  /\ Mint([minted[v] EXCEPT !.kind = "token", !.born = clock])
  /\ UNCHANGED <<creds, copies, held, lists, busy, clock>>

(* oid4vci_credential: token and nonce open and are this agency's, the proof
   holds; the nonce is spent, and in a transaction of its own then the token. *)
Ask(w, v, n) ==
  /\ Opens(v, "token") /\ Opens(n, "nonce")
  /\ minted[v].agency = minted[n].agency /\ HasKey(minted[v].agency)
  /\ Unspent(n) /\ Spend(n)
  /\ Arrive(w, "spend_token", [NoReq EXCEPT !.value = v])
  /\ UNCHANGED <<creds, minted, copies, held, lists, clock>>

(* The transaction of the record starts here: now is its CURRENT_TIMESTAMP. *)
SpendToken(w) ==
  LET v == req[w].value
  IN /\ pc[w] = "spend_token"
     /\ \/ ~Unspent(v) /\ Answer(w) /\ UNCHANGED spent
        \/ /\ Unspent(v) /\ Spend(v) /\ Goto(w, "lock")
           /\ req' = [req EXCEPT ![w].now = clock]
     /\ UNCHANGED <<creds, minted, copies, held, lists, clock>>

-----------------------------------------------------------------------------
(* uc_issue_credential_copy *)

CredOf(w) == minted[req[w].value].cred

Least(m, n) == IF m < n THEN m ELSE n

ExpiryFor(w) == Least(req[w].now + CopyLife, expiration[CredOf(w)])

(* SELECT ... FOR SHARE waits for an UPDATE in flight, then reads the row. *)
LockCredential(w) ==
  /\ pc[w] = "lock"
  /\ CredOf(w) \notin updating
  /\ \/ /\ status[CredOf(w)] # "ACTIVE" \/ ExpiryFor(w) <= req[w].now
        /\ Answer(w)
     \/ /\ status[CredOf(w)] = "ACTIVE" /\ req[w].now < ExpiryFor(w)
        /\ Goto(w, "record") /\ UNCHANGED req
  /\ UNCHANGED <<creds, issued, clock>>

InList(a, d) == {k \in copies : k.agency = a /\ k.day = d}

(* uq_credential_copy_status_index: a colliding draw is repeated. *)
FreeSlots(a, d) == Slots \ {k.slot : k \in InList(a, d)}

CopyAt(w, s) ==
  [agency |-> minted[req[w].value].agency, cred |-> CredOf(w),
   day |-> req[w].now \div DayLength, slot |-> s,
   expires |-> ExpiryFor(w), offer |-> minted[req[w].value].offer]

(* A draw that found the slot free. *)
Draw(w, s) ==
  /\ s \in FreeSlots(CopyAt(w, s).agency, CopyAt(w, s).day)
  /\ req' = [req EXCEPT ![w].made = {CopyAt(w, s)}]
  /\ Goto(w, "sign")

(* Mutant: the call does not commit ('all' instead of 'returning'). *)
RecordUncommitted(w) ==
  /\ pc[w] = "record"
  /\ \E s \in Slots : Draw(w, s)
  /\ UNCHANGED <<creds, issued, clock>>

(* INSERT INTO CredentialCopy, committed by the call. *)
RecordCopy(w) ==
  /\ pc[w] = "record"
  /\ \E s \in Slots : Draw(w, s) /\ copies' = copies \cup {CopyAt(w, s)}
  /\ UNCHANGED <<creds, minted, spent, held, lists, clock>>

(* build_copy: signed only after the record is committed. *)
SignCopy(w) ==
  /\ pc[w] = "sign"
  /\ held' = held \cup req[w].made
  /\ Answer(w)
  /\ UNCHANGED <<creds, minted, spent, copies, lists, clock>>

-----------------------------------------------------------------------------
(* oid4vci_status_list *)

(* credential_copy_valid_indexes *)
ValidIndexes(a, d) ==
  {k.slot : k \in {k \in InList(a, d) : status[k.cred] = "ACTIVE" /\ clock < k.expires}}

FetchList(w, a, d) ==
  /\ HasKey(a)
  /\ Cardinality(lists) < MaxLists
  /\ Arrive(w, "sign_list",
            [NoReq EXCEPT !.list = {[agency |-> a, day |-> d, valid |-> ValidIndexes(a, d)]}])
  /\ UNCHANGED <<creds, issued, clock>>

(* status_list_token: iat is read when the token is signed, after the record was. *)
SignList(w) ==
  /\ pc[w] = "sign_list"
  /\ lists' = lists \cup {[agency |-> l.agency, day |-> l.day, valid |-> l.valid,
                           iat |-> clock] : l \in req[w].list}
  /\ Answer(w)
  /\ UNCHANGED <<creds, minted, spent, copies, held, clock>>

-----------------------------------------------------------------------------
(* The credential leaves ACTIVE (revoked, lost, expired, dormant): a transaction
   of TokenLifecycle, which never brings one back. *)

(* Mutant: the record reads the row without locking it. *)
NoSharers(c) == {}

Sharers(c) == {w \in Workers : pc[w] = "record" /\ CredOf(w) = c}

Withdraw(c) ==
  /\ status[c] = "ACTIVE" /\ c \notin updating
  /\ Sharers(c) = {}
  /\ updating' = updating \cup {c}
  /\ UNCHANGED <<status, endedAt, issued, busy, clock>>

CommitWithdrawal(c) ==
  /\ c \in updating
  /\ updating' = updating \ {c}
  /\ status' = [status EXCEPT ![c] = "ENDED"]
  /\ endedAt' = [endedAt EXCEPT ![c] = clock]
  /\ UNCHANGED <<issued, busy, clock>>

AbortWithdrawal(c) ==
  /\ c \in updating
  /\ updating' = updating \ {c}
  /\ UNCHANGED <<status, endedAt, issued, busy, clock>>

Tick ==
  /\ clock < MaxClock
  /\ clock' = clock + 1
  /\ UNCHANGED <<creds, issued, busy>>

-----------------------------------------------------------------------------
WalletInit ==
  /\ status = [c \in Credentials |-> "ACTIVE"]
  /\ endedAt = [c \in Credentials |-> 0]
  /\ updating = {}
  /\ minted = <<>> /\ spent = {} /\ copies = {} /\ held = {} /\ lists = {}
  /\ pc = [w \in Workers |-> "idle"]
  /\ req = [w \in Workers |-> NoReq]
  /\ clock = 0

Call(w) ==
  /\ pc[w] = "idle"
  /\ \/ \E v, n \in DOMAIN minted : Ask(w, v, n)
     \/ \E a \in Agencies, d \in 0..(clock \div DayLength) : FetchList(w, a, d)

Step(w) ==
  /\ InTime(w)
  /\ \/ SpendToken(w) \/ LockCredential(w) \/ RecordCopy(w)
     \/ SignCopy(w) \/ SignList(w)

Withdrawal(c) == Withdraw(c) \/ CommitWithdrawal(c) \/ AbortWithdrawal(c)

WalletNext ==
  \/ \E c \in Credentials : Offer(c) \/ Withdrawal(c)
  \/ \E a \in Agencies : Nonce(a)
  \/ \E v \in DOMAIN minted : Redeem(v)
  \/ \E w \in Workers : Call(w) \/ Step(w) \/ Die(w)
  \/ Tick

WalletSpec == WalletInit /\ [][WalletNext]_walletVars

-----------------------------------------------------------------------------
(* The tables and the requests are well formed; above all no spent value and no
   recorded copy refers to a value that was never minted. *)
WalletTypeOK ==
  /\ status \in [Credentials -> {"ACTIVE", "ENDED"}]
  /\ endedAt \in [Credentials -> Nat]
  /\ updating \subseteq {c \in Credentials : status[c] = "ACTIVE"}
  /\ minted \in Seq(Value)
  /\ spent \subseteq DOMAIN minted
  /\ copies \subseteq Copy /\ held \subseteq copies
  /\ \A k \in copies : k.offer \in OfKind("code") /\ minted[k.offer].cred = k.cred
  /\ \A l \in lists : l.agency \in Agencies /\ l.valid \subseteq Slots /\ l.iat <= clock
  /\ pc \in [Workers -> {"idle", "spend_token", "lock", "record", "sign", "sign_list"}]
  /\ \A w \in Workers : pc[w] \notin {"idle", "sign_list"} => req[w].value \in DOMAIN minted
  /\ clock \in Nat

(* One offer buys one copy, however often its code, its token and a nonce are
   presented and to however many workers at once (oid4vci_token,
   oid4vci_credential). *)
OneCopyPerOffer == \A k1, k2 \in copies : k1.offer = k2.offer => k1 = k2

(* No copy is recorded against a credential whose withdrawal has committed: the
   share lock of uc_issue_credential_copy against the row lock of a status change. *)
NoCopyOfTheEnded == [][\A k \in copies' \ copies : status'[k.cred] = "ACTIVE"]_walletVars

(* What a wallet holds reads as valid on a list computed now exactly while its
   credential is ACTIVE and its own window is open: the copy is on record before
   it is signed, and no other copy shares its place in the list. *)
CopiesReadRight ==
  \A k \in held :
    k.slot \in ValidIndexes(k.agency, k.day)
      <=> status[k.cred] = "ACTIVE" /\ clock < k.expires

(* A published list that calls a copy valid was read no earlier than Timeout
   before its iat, so the credential had not ended before that. *)
ListsAreRecent ==
  \A l \in lists, k \in copies :
    (k.agency = l.agency /\ k.day = l.day /\ k.slot \in l.valid /\ status[k.cred] = "ENDED")
      => l.iat <= endedAt[k.cred] + Timeout
=============================================================================
