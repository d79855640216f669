--------------------------- MODULE RecoveryCeremony ---------------------------
(***************************************************************************)
(* The UC-9 recovery ceremony: a request is opened, three out-of-band      *)
(* channels are recorded on it by different people, and after a cool-down  *)
(* an admin decides it.  Each database session runs one procedure call at  *)
(* a time; the calls interleave with each other, with changes to the       *)
(* operators' accounts and with credentials issued elsewhere.              *)
(*                                                                         *)
(* What an approval does to the person's tokens is TokenLifecycle's; here  *)
(* it is one more credential of the requesting authority.                  *)
(***************************************************************************)
EXTENDS Naturals, Sequences, FiniteSets

CONSTANTS
  Users, Agencies, Individuals,
  Sessions,        \* database sessions
  MaxRequests,     \* bound: requests ever opened
  None,            \* SQL NULL, and a free lock
  Entrances,       \* how the procedures are reached: the web routes, the CLI
  postings,        \* the accounts each user may have over time
  tied,            \* public authorities whose jurisdiction is the person's
  issued,          \* the agencies that issued the person's first credentials
  Hours,           \* cool-downs asked for
  Papers,          \* whether what a call must bring may be missing or malformed
  MinCooldown,     \* 48 hours, in clock units
  MaxCredentials,  \* bound: credentials per person
  MaxClock         \* bound: the clock stops here

(* recovery_id, in the order the sequence gives them out *)
Requests == 1..MaxRequests

Account == [role : {"admin", "operator", "auditor"}, active : BOOLEAN,
            agency : Agencies \cup {None}]

ASSUME CeremonyAssumption ==
  /\ MaxRequests \in Nat
  /\ None \notin Users \cup Agencies \cup Individuals \cup Sessions
  /\ IsFiniteSet(Sessions)
  /\ Entrances \subseteq {"web", "cli"}
  /\ \A u \in Users : postings[u] # {} /\ postings[u] \subseteq Account
  /\ tied \in [Individuals -> SUBSET Agencies]
  /\ issued \in [Individuals -> Seq(Agencies)]
  /\ Papers \subseteq BOOLEAN
  /\ Hours \subseteq Nat /\ MinCooldown \in Nat
  /\ MaxCredentials \in Nat /\ MaxClock \in Nat

VARIABLES
  account,       \* AppUser: role, is_active, agency_id
  req,           \* RecoveryRequest
  requestLock,   \* FOR UPDATE on a RecoveryRequest row
  personLock,    \* advisory lock 'polaris.recovery.<individual>'
  credentials,   \* issuing agencies of the person's tokens, oldest first
  holdsActive,   \* the person has a committed ACTIVE token
  pc, call,      \* next statement of each session, and its parameters
  clock

vars == <<account, req, requestLock, personLock, credentials, holdsActive, pc, call, clock>>
locks == <<requestLock, personLock>>
world == <<account, credentials, holdsActive, clock>>

Channels == {"BIOMETRIC", "SWORN", "WITNESS"}
Decisions == {"APPROVED", "REJECTED"}

(* recorded names, per channel, the user who recorded it (for WITNESS the
   co-signer): biometric_verified, sworn_statement_hash and
   witness_co_sign_user_id are set exactly when the name is. *)
Request == [status : {"NONE", "PENDING"} \cup Decisions,
            person : Individuals \cup {None}, agency : Agencies \cup {None},
            requester : Users \cup {None}, requestedAt : Nat, cooldownEnds : Nat,
            recorded : [Channels -> Users \cup {None}], witnessAgency : Agencies \cup {None},
            decider : Users \cup {None}, decidedAt : Nat]

NoRequest == [status |-> "NONE", person |-> None, agency |-> None, requester |-> None,
              requestedAt |-> 0, cooldownEnds |-> 0,
              recorded |-> [c \in Channels |-> None], witnessAgency |-> None,
              decider |-> None, decidedAt |-> 0]

(* what: the channel or the decision; wellFormed: the statement's SHA-256 is 64
   hex digits, or the approval carries a new token and its signature; bound:
   the recorder's agency as first read; start: CURRENT_TIMESTAMP. *)
Call == [user : Users \cup {None}, rid : Requests \cup {None},
         person : Individuals \cup {None}, agency : Agencies \cup {None},
         what : Channels \cup Decisions \cup {None}, wellFormed : BOOLEAN,
         hours : Nat, bound : Agencies \cup {None}, start : Nat]

NoCall == [user |-> None, rid |-> None, person |-> None, agency |-> None, what |-> None,
           wellFormed |-> FALSE, hours |-> 0, bound |-> None, start |-> 0]

PCs == {"idle", "insert", "record_user", "record_request",
        "decide_lock", "decide_user", "decide_request", "decide_close"}

-----------------------------------------------------------------------------
(* Sessions and locks *)

Begin(s, label, c) ==
  /\ pc[s] = "idle"
  /\ pc' = [pc EXCEPT ![s] = label]
  /\ call' = [call EXCEPT ![s] = [c EXCEPT !.start = clock]]
  /\ UNCHANGED <<req, locks, world>>

Goto(s, label) == pc' = [pc EXCEPT ![s] = label]

(* Mutant: the advisory lock is the session's, not the transaction's. *)
EndKeepingPerson(s) ==
  /\ Goto(s, "idle")
  /\ call' = [call EXCEPT ![s] = NoCall]
  /\ requestLock' = [r \in Requests |-> IF requestLock[r] = s THEN None ELSE requestLock[r]]
  /\ UNCHANGED personLock

(* COMMIT or ROLLBACK: both locks are the transaction's. *)
End(s) ==
  /\ Goto(s, "idle")
  /\ call' = [call EXCEPT ![s] = NoCall]
  /\ requestLock' = [r \in Requests |-> IF requestLock[r] = s THEN None ELSE requestLock[r]]
  /\ personLock' = [i \in Individuals |-> IF personLock[i] = s THEN None ELSE personLock[i]]

Raise(s) == End(s) /\ UNCHANGED <<req, world>>

(* The client goes away, or the token work of an approval fails. *)
Crash(s) == pc[s] # "idle" /\ Raise(s)

-----------------------------------------------------------------------------
(* What the table itself admits *)

(* Mutant: a rejected request counts as open. *)
NotApproved(r) == req[r].status \in {"PENDING", "REJECTED"}

Pending(r) == req[r].status = "PENDING"

(* enforce_recovery_request_immutability *)
TriggerAdmits(r, new) ==
  LET old == req[r] IN
  /\ <<new.person, new.requestedAt, new.agency, new.requester, new.cooldownEnds>>
       = <<old.person, old.requestedAt, old.agency, old.requester, old.cooldownEnds>>
  /\ new.status # old.status => Pending(r) /\ new.status \in Decisions
  /\ ~Pending(r) => /\ \A c \in Channels : (new.recorded[c] = None) = (old.recorded[c] = None)
                    /\ new.recorded["WITNESS"] = old.recorded["WITNESS"]
                    /\ new.witnessAgency = old.witnessAgency
  /\ new.recorded["BIOMETRIC"] = None => old.recorded["BIOMETRIC"] = None
  /\ old.decider # None => new.decider = old.decider /\ new.decidedAt = old.decidedAt

(* Mutant: no floor under the cool-down. *)
ChecksWithoutFloor(q) ==
  /\ q.status = "APPROVED" => \A c \in Channels : q.recorded[c] # None
  /\ q.status = "APPROVED" => q.decidedAt >= q.cooldownEnds
  /\ q.decider # q.requester
  /\ q.recorded["WITNESS"] # None => q.recorded["WITNESS"] \notin {q.requester, q.decider}

(* The CHECK constraints of RecoveryRequest. *)
ChecksAdmit(q) ==
  /\ q.cooldownEnds >= q.requestedAt + MinCooldown
  /\ q.status = "APPROVED" => \A c \in Channels : q.recorded[c] # None
  /\ q.status = "APPROVED" => q.decidedAt >= q.cooldownEnds
  /\ q.decider # q.requester
  /\ q.recorded["WITNESS"] # None => q.recorded["WITNESS"] \notin {q.requester, q.decider}

PendingOf(i) == {r \in Requests : req[r].person = i /\ Pending(r)}

(* Mutant: no uq_one_pending_recovery_per_individual. *)
InsertAdmitsAny(q) == ChecksAdmit(q)

InsertAdmits(q) == ChecksAdmit(q) /\ PendingOf(q.person) = {}

-----------------------------------------------------------------------------
(* The routes: the session's account is read again on every request, and an
   operator bound to an authority acts for that one only. *)

SignedIn(u, via, roles) ==
  via = "web" => account[u].active /\ account[u].role \in roles

PermitsAuthority(u, via, a) == via = "web" => account[u].agency \in {None, a}

-----------------------------------------------------------------------------
(* uc9_initiate_recovery *)

Unused == {r \in Requests : req[r].status = "NONE"}
NextId == CHOOSE r \in Unused : \A q \in Unused : r <= q

Initiate(s, via, u, i, a, h) ==
  /\ SignedIn(u, via, {"admin", "operator"})
  /\ PermitsAuthority(u, via, a)
  /\ via = "web" => h = MinCooldown
  /\ ~holdsActive[i]
  /\ PendingOf(i) = {}
  /\ Cardinality(Unused) > Cardinality({p \in Sessions : pc[p] = "insert"})
  /\ Begin(s, "insert", [NoCall EXCEPT !.user = u, !.person = i, !.agency = a, !.hours = h])

(* Mutant: requested_at in a session time zone west of UTC. *)
OpenedInLocalTime(c) ==
  [NoRequest EXCEPT !.status = "PENDING", !.person = c.person, !.agency = c.agency,
                    !.requester = c.user, !.requestedAt = c.start - 1,
                    !.cooldownEnds = c.start + c.hours]

Opened(c) ==
  [NoRequest EXCEPT !.status = "PENDING", !.person = c.person, !.agency = c.agency,
                    !.requester = c.user, !.requestedAt = c.start,
                    !.cooldownEnds = c.start + c.hours]

Insert(s) ==
  LET q == Opened(call[s]) IN
  /\ pc[s] = "insert"
  /\ \/ /\ InsertAdmits(q)
        /\ req' = [req EXCEPT ![NextId] = q]
        /\ End(s)
        /\ UNCHANGED world
     \/ ~InsertAdmits(q) /\ Raise(s)

-----------------------------------------------------------------------------
(* uc9_record_recovery_channel *)

Record(s, via, u, r, channel, wellFormed) ==
  /\ req[r].status # "NONE"
  /\ SignedIn(u, via, {"admin", "operator"})
  /\ channel # "WITNESS" => PermitsAuthority(u, via, req[r].agency)
  /\ Begin(s, "record_user", [NoCall EXCEPT !.user = u, !.rid = r, !.what = channel,
                                            !.wellFormed = wellFormed])

MayRecord(u) == account[u].active /\ account[u].role \in {"admin", "operator"}

RecordUser(s) ==
  LET u == call[s].user IN
  /\ pc[s] = "record_user"
  /\ \/ /\ MayRecord(u)
        /\ Goto(s, "record_request")
        /\ call' = [call EXCEPT ![s].bound = account[u].agency]
        /\ UNCHANGED <<req, locks, world>>
     \/ ~MayRecord(u) /\ Raise(s)

Latest(i) == IF credentials[i] = <<>> THEN None ELSE credentials[i][Len(credentials[i])]

HasStanding(a, i) == a = Latest(i) \/ a \in tied[i]

(* Mutant: any second authority may witness. *)
AnyOtherWitness(a, r) == a \notin {None, req[r].agency}

WitnessAdmits(a, r) ==
  /\ a \notin {None, req[r].agency}
  /\ HasStanding(req[r].agency, req[r].person) \/ a = Latest(req[r].person)

(* Mutant: the requester may record a channel. *)
RecordAdmitsRequester(c) ==
  /\ Pending(c.rid)
  /\ req[c.rid].recorded[c.what] = None
  /\ c.what = "SWORN" => c.wellFormed
  /\ c.what = "WITNESS" => WitnessAdmits(c.bound, c.rid)

RecordAdmits(c) ==
  /\ Pending(c.rid)
  /\ c.user # req[c.rid].requester
  /\ req[c.rid].recorded[c.what] = None
  /\ c.what = "SWORN" => c.wellFormed
  /\ c.what = "WITNESS" => WitnessAdmits(c.bound, c.rid)

(* The row is read under FOR UPDATE, checked, updated and committed. *)
RecordChannel(s) ==
  LET c == call[s]
      new == [req[c.rid] EXCEPT !.recorded[c.what] = c.user,
                                !.witnessAgency = IF c.what = "WITNESS" THEN c.bound ELSE @]
      admitted == RecordAdmits(c) /\ TriggerAdmits(c.rid, new) /\ ChecksAdmit(new)
  IN
  /\ pc[s] = "record_request"
  /\ requestLock[c.rid] = None
  /\ \/ /\ admitted
        /\ req' = [req EXCEPT ![c.rid] = new]
        /\ End(s)
        /\ UNCHANGED world
     \/ ~admitted /\ Raise(s)

-----------------------------------------------------------------------------
(* uc9_complete_recovery *)

Decide(s, via, u, r, decision, wellFormed) ==
  /\ req[r].status # "NONE"
  /\ SignedIn(u, via, {"admin"})
  /\ PermitsAuthority(u, via, req[r].agency)
  /\ Begin(s, "decide_lock", [NoCall EXCEPT !.user = u, !.rid = r, !.what = decision,
                                            !.wellFormed = wellFormed])

DecideLock(s) ==
  LET i == req[call[s].rid].person IN
  /\ pc[s] = "decide_lock"
  /\ personLock[i] = None
  /\ personLock' = [personLock EXCEPT ![i] = s]
  /\ Goto(s, "decide_user")
  /\ UNCHANGED <<call, req, requestLock, world>>

MayDecide(u) == account[u].active /\ account[u].role = "admin"

DecideUser(s) ==
  /\ pc[s] = "decide_user"
  /\ \/ /\ MayDecide(call[s].user)
        /\ Goto(s, "decide_request")
        /\ UNCHANGED <<call, req, locks, world>>
     \/ ~MayDecide(call[s].user) /\ Raise(s)

ApprovalAdmits(c) ==
  LET q == req[c.rid] IN
  /\ c.start >= q.cooldownEnds
  /\ \A ch \in Channels : q.recorded[ch] # None
  /\ q.recorded["WITNESS"] \notin {c.user, q.requester}
  /\ c.wellFormed

DecisionAdmits(c) ==
  /\ Pending(c.rid)
  /\ c.user # req[c.rid].requester
  /\ c.what = "APPROVED" => ApprovalAdmits(c)

(* SELECT ... FOR UPDATE of the request, and the checks on what it returned. *)
DecideRequest(s) ==
  LET c == call[s] IN
  /\ pc[s] = "decide_request"
  /\ requestLock[c.rid] = None
  /\ \/ /\ DecisionAdmits(c)
        /\ requestLock' = [requestLock EXCEPT ![c.rid] = s]
        /\ Goto(s, "decide_close")
        /\ UNCHANGED <<call, req, personLock, world>>
     \/ ~DecisionAdmits(c) /\ Raise(s)

(* The new credential, the decision on the request, and COMMIT. *)
DecideClose(s) ==
  LET c == call[s]
      i == req[c.rid].person
      new == [req[c.rid] EXCEPT !.status = c.what, !.decider = c.user, !.decidedAt = c.start]
      admitted == TriggerAdmits(c.rid, new) /\ ChecksAdmit(new)
  IN
  /\ pc[s] = "decide_close"
  /\ \/ /\ admitted
        /\ req' = [req EXCEPT ![c.rid] = new]
        /\ IF c.what = "APPROVED"
           THEN /\ credentials' = [credentials EXCEPT ![i] = Append(@, req[c.rid].agency)]
                /\ holdsActive' = [holdsActive EXCEPT ![i] = TRUE]
           ELSE UNCHANGED <<credentials, holdsActive>>
        /\ End(s)
        /\ UNCHANGED <<account, clock>>
     \/ ~admitted /\ Raise(s)

-----------------------------------------------------------------------------
(* The rest of the system *)

(* The schema owner deactivates an account or changes its role or authority. *)
ChangeAccount(u) ==
  /\ \E p \in postings[u] \ {account[u]} : account' = [account EXCEPT ![u] = p]
  /\ UNCHANGED <<req, locks, credentials, holdsActive, pc, call, clock>>

(* Another authority issues the person a credential (uc_bulk_issue). *)
IssueElsewhere(i, a) ==
  /\ ~holdsActive[i]
  /\ Len(credentials[i]) < MaxCredentials
  /\ credentials' = [credentials EXCEPT ![i] = Append(@, a)]
  /\ holdsActive' = [holdsActive EXCEPT ![i] = TRUE]
  /\ UNCHANGED <<account, req, locks, pc, call, clock>>

LoseCredential(i) ==
  /\ holdsActive[i]
  /\ holdsActive' = [holdsActive EXCEPT ![i] = FALSE]
  /\ UNCHANGED <<account, req, locks, credentials, pc, call, clock>>

Tick ==
  /\ clock < MaxClock
  /\ clock' = clock + 1
  /\ UNCHANGED <<account, req, locks, credentials, holdsActive, pc, call>>

-----------------------------------------------------------------------------
Init ==
  /\ account \in [Users -> Account] /\ \A u \in Users : account[u] \in postings[u]
  /\ req = [r \in Requests |-> NoRequest]
  /\ requestLock = [r \in Requests |-> None]
  /\ personLock = [i \in Individuals |-> None]
  /\ credentials = issued
  /\ holdsActive = [i \in Individuals |-> FALSE]
  /\ pc = [s \in Sessions |-> "idle"]
  /\ call = [s \in Sessions |-> NoCall]
  /\ clock = 0

Step(s) ==
  \/ Insert(s)
  \/ RecordUser(s) \/ RecordChannel(s)
  \/ DecideLock(s) \/ DecideUser(s) \/ DecideRequest(s) \/ DecideClose(s)

CallIn(s) ==
  \E via \in Entrances, u \in Users :
    \/ \E i \in Individuals, a \in Agencies, h \in Hours : Initiate(s, via, u, i, a, h)
    \/ \E r \in Requests, ch \in Channels, ok \in Papers : Record(s, via, u, r, ch, ok)
    \/ \E r \in Requests, d \in Decisions, ok \in Papers : Decide(s, via, u, r, d, ok)

Next ==
  \/ \E s \in Sessions : CallIn(s) \/ Step(s) \/ Crash(s)
  \/ \E u \in Users : ChangeAccount(u)
  \/ \E i \in Individuals : LoseCredential(i) \/ \E a \in Agencies : IssueElsewhere(i, a)
  \/ Tick

Spec == Init /\ [][Next]_vars

(* Both locks are granted first come first served. *)
FairSpec == Spec /\ \A s \in Sessions : SF_vars(Step(s))

-----------------------------------------------------------------------------
(* Requests, locks, accounts and calls are well formed; no request was opened
   before time began. *)
TypeOK ==
  /\ account \in [Users -> Account]
  /\ req \in [Requests -> Request]
  /\ requestLock \in [Requests -> Sessions \cup {None}]
  /\ personLock \in [Individuals -> Sessions \cup {None}]
  /\ credentials \in [Individuals -> Seq(Agencies)]
  /\ holdsActive \in [Individuals -> BOOLEAN]
  /\ pc \in [Sessions -> PCs]
  /\ call \in [Sessions -> Call]
  /\ clock \in 0..MaxClock

(* Two operators may both find no pending request and both insert one: only one
   of the inserts survives. *)
OnePendingPerPerson == \A i \in Individuals : Cardinality(PendingOf(i)) <= 1

(* An approval took three people, the witness from a second authority, and the
   full administrative window: whoever asked for a shorter cool-down, and
   whatever accounts changed while the calls were under way. *)
ApprovalTookThree ==
  \A r \in Requests : req[r].status = "APPROVED" =>
    LET q == req[r]
        witness == q.recorded["WITNESS"]
    IN
    /\ q.requester # witness /\ witness # q.decider /\ q.decider # q.requester
    /\ q.requester \notin {q.recorded[c] : c \in Channels}
    /\ q.witnessAgency \notin {None, q.agency}
    /\ q.decidedAt >= q.requestedAt + MinCooldown

(* A channel is recorded once, by one of the operators racing to record it, and
   nothing is written to a request after its decision. *)
RecordsStand ==
  [][\A r \in Requests :
       /\ req[r].status \in Decisions => req'[r] = req[r]
       /\ \A c \in Channels : req[r].recorded[c] # None =>
            req'[r].recorded[c] = req[r].recorded[c]]_vars

(* No two authorities without a tie to a person can recover that person's
   identity: one of them has jurisdiction or had issued a credential before. *)
StrangersCannotRecover ==
  [][\A r \in Requests :
       req[r].status = "PENDING" /\ req'[r].status = "APPROVED" =>
         LET i == req[r].person IN
         \/ {req[r].agency, req[r].witnessAgency} \cap tied[i] # {}
         \/ \E k \in DOMAIN credentials[i] :
              credentials[i][k] \in {req[r].agency, req[r].witnessAgency}]_vars

(* Every call ends: recorders and deciders of the same person's requests never
   keep each other waiting for ever. *)
CallsEnd == \A s \in Sessions : pc[s] # "idle" ~> pc[s] = "idle"
===============================================================================
