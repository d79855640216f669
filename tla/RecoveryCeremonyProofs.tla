------------------------ MODULE RecoveryCeremonyProofs ------------------------
(***************************************************************************)
(* Proof that every approved recovery took three people, a witness from a  *)
(* second authority and the whole cool-down, that a person has at most one *)
(* request pending, that what is recorded stands, and that no authorities  *)
(* without a tie to the person recover an identity, for any number of      *)
(* users, sessions and requests.                                           *)
(***************************************************************************)
EXTENDS RecoveryCeremony, FiniteSetTheorems, WellFoundedInduction, TLAPS

(* A call's parameters are there when its statements use them, and the request
   it names has been opened. *)
CallKnown(s) ==
  /\ pc[s] = "insert" => /\ call[s].user \in Users /\ call[s].person \in Individuals
                         /\ call[s].agency \in Agencies
  /\ pc[s] \in {"record_user", "record_request"} =>
       /\ call[s].user \in Users /\ call[s].what \in Channels
       /\ call[s].rid \in Requests /\ req[call[s].rid].status # "NONE"
  /\ pc[s] \in {"decide_lock", "decide_user", "decide_request", "decide_close"} =>
       /\ call[s].user \in Users /\ call[s].what \in Decisions
       /\ call[s].rid \in Requests /\ req[call[s].rid].status # "NONE"

(* What is true of a request from the moment it is opened. *)
SoundRequest(q) ==
  q.status # "NONE" =>
    /\ q.person \in Individuals /\ q.agency \in Agencies /\ q.requester \in Users
    /\ \A c \in Channels : q.recorded[c] # q.requester
    /\ q.recorded["WITNESS"] # None => q.witnessAgency \notin {None, q.agency}
    /\ q.status = "APPROVED" => ChecksAdmit(q)

(* The inductive invariant: ApprovalTookThree alone says nothing of requests
   still pending, from which the approvals are made. *)
IInv ==
  /\ TypeOK
  /\ \A s \in Sessions : CallKnown(s)
  /\ \A r \in Requests : SoundRequest(req[r])

-----------------------------------------------------------------------------
(* Approval, as the CHECK constraints see it, is approval by three people. *)
LEMMA SoundApproval ==
  ASSUME CeremonyAssumption, IInv
  PROVE  ApprovalTookThree
<1> SUFFICES ASSUME NEW r \in Requests, req[r].status = "APPROVED"
             PROVE  LET q == req[r]
                        witness == q.recorded["WITNESS"]
                    IN /\ q.requester # witness /\ witness # q.decider /\ q.decider # q.requester
                       /\ q.requester \notin {q.recorded[c] : c \in Channels}
                       /\ q.witnessAgency \notin {None, q.agency}
                       /\ q.decidedAt >= q.requestedAt + MinCooldown
  BY DEF ApprovalTookThree
<1>1. req[r] \in Request /\ SoundRequest(req[r])
  BY DEF IInv, TypeOK
<1>2. ChecksAdmit(req[r])
  BY <1>1 DEF SoundRequest
<1>3. req[r].recorded["WITNESS"] # None /\ "WITNESS" \in Channels
  BY <1>2 DEF ChecksAdmit, Channels
<1>4. req[r].decidedAt >= req[r].requestedAt + MinCooldown
  BY <1>1, <1>2 DEF ChecksAdmit, Request, CeremonyAssumption
<1> QED BY <1>1, <1>2, <1>3, <1>4 DEF SoundRequest, ChecksAdmit

(* Before any call there is no request to be wrong about. *)
LEMMA InitSound ==
  ASSUME CeremonyAssumption, Init
  PROVE  IInv
<1>1. NoRequest \in Request /\ NoCall \in Call
  BY DEF NoRequest, Request, NoCall, Call
<1>2. TypeOK
  BY <1>1 DEF Init, TypeOK, PCs, CeremonyAssumption
<1>3. \A s \in Sessions : CallKnown(s)
  BY DEF Init, CallKnown
<1>4. \A r \in Requests : SoundRequest(req[r])
  BY DEF Init, SoundRequest, NoRequest
<1> QED BY <1>2, <1>3, <1>4 DEF IInv

-----------------------------------------------------------------------------
(* How a session's own state moves *)

ProcTypes ==
  /\ requestLock \in [Requests -> Sessions \cup {None}]
  /\ personLock \in [Individuals -> Sessions \cup {None}]
  /\ pc \in [Sessions -> PCs]
  /\ call \in [Sessions -> Call]

WorldTypes ==
  /\ account \in [Users -> Account]
  /\ credentials \in [Individuals -> Seq(Agencies)]
  /\ holdsActive \in [Individuals -> BOOLEAN]
  /\ clock \in 0..MaxClock

(* Only session s moves. *)
OnlyMoves(s) == \A p \in Sessions : p # s => pc'[p] = pc[p] /\ call'[p] = call[p]

(* Requests stay sound, and an opened one stays opened. *)
RequestsKept ==
  /\ req' \in [Requests -> Request]
  /\ \A r \in Requests : SoundRequest(req'[r])
  /\ \A r \in Requests : req[r].status # "NONE" => req'[r].status # "NONE"

(* A step of one session keeps the invariant if these hold of it. *)
LEMMA SessionStep ==
  ASSUME IInv, NEW s \in Sessions, OnlyMoves(s), RequestsKept,
         ProcTypes', WorldTypes', CallKnown(s)'
  PROVE  IInv'
<1>1. TypeOK'
  BY DEF TypeOK, ProcTypes, WorldTypes, RequestsKept
<1>2. \A r \in Requests : SoundRequest(req[r])'
  BY DEF RequestsKept, SoundRequest, ChecksAdmit
<1>3. ASSUME NEW p \in Sessions PROVE CallKnown(p)'
  <2>1. CASE p = s
    BY <2>1
  <2>2. CASE p # s
    <3>1. CallKnown(p) /\ pc'[p] = pc[p] /\ call'[p] = call[p]
      BY <2>2 DEF IInv, OnlyMoves
    <3> QED BY <3>1 DEF CallKnown, RequestsKept
  <2> QED BY <2>1, <2>2
<1> QED BY <1>1, <1>2, <1>3 DEF IInv

(* Nothing written to the table. *)
LEMMA SameRequests ==
  ASSUME IInv, UNCHANGED req
  PROVE  RequestsKept
BY DEF IInv, TypeOK, RequestsKept

(* One sound row written. *)
LEMMA OneRequestWritten ==
  ASSUME IInv, NEW r, NEW new \in Request, SoundRequest(new), new.status # "NONE",
         req' = [req EXCEPT ![r] = new]
  PROVE  RequestsKept
<1>1. req \in [Requests -> Request] /\ \A q \in Requests : SoundRequest(req[q])
  BY DEF IInv, TypeOK
<1>2. \A q \in Requests : req'[q] = IF q = r THEN new ELSE req[q]
  BY <1>1
<1>3. req' \in [Requests -> Request]
  BY <1>1
<1> QED BY <1>1, <1>2, <1>3 DEF RequestsKept

(* What the invariant says of the parts a session works on. *)
LEMMA Parts ==
  ASSUME IInv
  PROVE  ProcTypes /\ WorldTypes
BY DEF IInv, TypeOK, ProcTypes, WorldTypes

(* COMMIT and ROLLBACK leave an idle session. *)
LEMMA EndMoves ==
  ASSUME CeremonyAssumption, ProcTypes, NEW s \in Sessions, End(s)
  PROVE  OnlyMoves(s) /\ ProcTypes' /\ CallKnown(s)'
<1>1. NoCall \in Call
  BY DEF NoCall, Call
<1>2. pc' = [pc EXCEPT ![s] = "idle"] /\ call' = [call EXCEPT ![s] = NoCall]
  BY DEF End, Goto
<1>3. pc' \in [Sessions -> PCs] /\ call' \in [Sessions -> Call] /\ pc'[s] = "idle"
  BY <1>1, <1>2 DEF ProcTypes, PCs
<1>4. requestLock' \in [Requests -> Sessions \cup {None}]
      /\ personLock' \in [Individuals -> Sessions \cup {None}]
  BY DEF End, ProcTypes
<1>5. OnlyMoves(s)
  BY <1>2 DEF OnlyMoves, ProcTypes
<1> QED BY <1>3, <1>4, <1>5 DEF ProcTypes, CallKnown

(* A call that raises changes nothing but its own session. *)
LEMMA RaiseKeeps ==
  ASSUME CeremonyAssumption, IInv, NEW s \in Sessions, Raise(s)
  PROVE  IInv'
<1>1. End(s) /\ UNCHANGED req /\ UNCHANGED world
  BY DEF Raise
<1>2. WorldTypes'
  BY <1>1, Parts DEF WorldTypes, world
<1> QED BY <1>1, <1>2, Parts, EndMoves, SameRequests, SessionStep

(* A call that commits one sound row. *)
LEMMA CommitKeeps ==
  ASSUME CeremonyAssumption, IInv, NEW s \in Sessions, End(s),
         NEW r, NEW new \in Request, SoundRequest(new), new.status # "NONE",
         req' = [req EXCEPT ![r] = new], WorldTypes'
  PROVE  IInv'
BY Parts, EndMoves, OneRequestWritten, SessionStep

-----------------------------------------------------------------------------
(* The calls *)

(* A session takes up a call whose parameters are known. *)
LEMMA BeginKeeps ==
  ASSUME CeremonyAssumption, IInv, NEW s \in Sessions,
         NEW label \in PCs, NEW c \in Call, Begin(s, label, c),
         label \in {"insert", "record_user", "decide_lock"},
         label = "insert" => /\ c.user \in Users /\ c.person \in Individuals
                             /\ c.agency \in Agencies,
         label # "insert" => /\ c.user \in Users /\ c.rid \in Requests
                             /\ req[c.rid].status # "NONE",
         label = "record_user" => c.what \in Channels,
         label = "decide_lock" => c.what \in Decisions
  PROVE  IInv'
<1> DEFINE d == [c EXCEPT !.start = clock]
<1>1. ProcTypes /\ WorldTypes
  BY Parts
<1>2. clock \in Nat
  BY <1>1 DEF WorldTypes, CeremonyAssumption
<1>3. /\ d \in Call
      /\ d.user = c.user /\ d.person = c.person /\ d.agency = c.agency
      /\ d.rid = c.rid /\ d.what = c.what
  BY <1>2 DEF Call
<1> HIDE DEF d
<1>4. pc' = [pc EXCEPT ![s] = label] /\ call' = [call EXCEPT ![s] = d]
      /\ UNCHANGED <<req, locks, world>>
  BY DEF Begin, d
<1>5. ProcTypes' /\ pc'[s] = label /\ call'[s] = d
  BY <1>1, <1>3, <1>4 DEF ProcTypes, locks
<1>6. WorldTypes'
  BY <1>1, <1>4 DEF WorldTypes, world
<1>7. OnlyMoves(s)
  BY <1>1, <1>4 DEF OnlyMoves, ProcTypes
<1>8. CallKnown(s)'
  BY <1>3, <1>4, <1>5 DEF CallKnown
<1> QED BY <1>4, <1>5, <1>6, <1>7, <1>8, SameRequests, SessionStep

(* uc9_initiate_recovery, uc9_record_recovery_channel, uc9_complete_recovery *)
LEMMA CallKeeps ==
  ASSUME CeremonyAssumption, IInv, NEW s \in Sessions, CallIn(s)
  PROVE  IInv'
<1> PICK via \in Entrances, u \in Users :
      \/ \E i \in Individuals, a \in Agencies, h \in Hours : Initiate(s, via, u, i, a, h)
      \/ \E r \in Requests, ch \in Channels, ok \in Papers : Record(s, via, u, r, ch, ok)
      \/ \E r \in Requests, d \in Decisions, ok \in Papers : Decide(s, via, u, r, d, ok)
  BY DEF CallIn
<1>0. NoCall \in Call
  BY DEF NoCall, Call
<1>1. ASSUME NEW i \in Individuals, NEW a \in Agencies, NEW h \in Hours,
             Initiate(s, via, u, i, a, h)
      PROVE  IInv'
  <2> DEFINE c == [NoCall EXCEPT !.user = u, !.person = i, !.agency = a, !.hours = h]
  <2>1. c \in Call /\ c.user = u /\ c.person = i /\ c.agency = a
    BY <1>0 DEF Call, NoCall, CeremonyAssumption
  <2>2. Begin(s, "insert", c)
    BY <1>1 DEF Initiate
  <2> HIDE DEF c
  <2> QED BY <2>1, <2>2, BeginKeeps DEF PCs
<1>2. ASSUME NEW r \in Requests, NEW ch \in Channels, NEW ok \in Papers,
             Record(s, via, u, r, ch, ok)
      PROVE  IInv'
  <2> DEFINE c == [NoCall EXCEPT !.user = u, !.rid = r, !.what = ch, !.wellFormed = ok]
  <2>1. c \in Call /\ c.user = u /\ c.rid = r /\ c.what = ch
    BY <1>0 DEF Call, NoCall, CeremonyAssumption
  <2>2. Begin(s, "record_user", c) /\ req[r].status # "NONE"
    BY <1>2 DEF Record
  <2> HIDE DEF c
  <2> QED BY <2>1, <2>2, BeginKeeps DEF PCs
<1>3. ASSUME NEW r \in Requests, NEW d \in Decisions, NEW ok \in Papers,
             Decide(s, via, u, r, d, ok)
      PROVE  IInv'
  <2> DEFINE c == [NoCall EXCEPT !.user = u, !.rid = r, !.what = d, !.wellFormed = ok]
  <2>1. c \in Call /\ c.user = u /\ c.rid = r /\ c.what = d
    BY <1>0 DEF Call, NoCall, CeremonyAssumption
  <2>2. Begin(s, "decide_lock", c) /\ req[r].status # "NONE"
    BY <1>3 DEF Decide
  <2> HIDE DEF c
  <2> QED BY <2>1, <2>2, BeginKeeps DEF PCs
<1> QED BY <1>1, <1>2, <1>3

-----------------------------------------------------------------------------
(* The statements *)

(* A session goes on to its next statement with the same call. *)
LEMMA GotoKeeps ==
  ASSUME CeremonyAssumption, IInv, NEW s \in Sessions, NEW label \in PCs,
         Goto(s, label), UNCHANGED <<call, req, world>>,
         requestLock' \in [Requests -> Sessions \cup {None}],
         personLock' \in [Individuals -> Sessions \cup {None}],
         pc[s] \in {"decide_lock", "decide_user", "decide_request"},
         label \in {"decide_user", "decide_request", "decide_close"}
  PROVE  IInv'
<1>1. ProcTypes /\ WorldTypes
  BY Parts
<1>2. ProcTypes' /\ pc'[s] = label
  BY <1>1 DEF ProcTypes, Goto
<1>3. WorldTypes'
  BY <1>1 DEF WorldTypes, world
<1>4. OnlyMoves(s)
  BY <1>1 DEF OnlyMoves, ProcTypes, Goto
<1>5. CallKnown(s)
  BY DEF IInv
<1>6. CallKnown(s)'
  BY <1>2, <1>5 DEF CallKnown
<1> QED BY <1>2, <1>3, <1>4, <1>6, SameRequests, SessionStep

(* A request is opened sound: nobody has recorded anything on it. *)
LEMMA OpenedSound ==
  ASSUME CeremonyAssumption, NEW c \in Call,
         c.user \in Users, c.person \in Individuals, c.agency \in Agencies
  PROVE  SoundRequest(Opened(c)) /\ Opened(c).status = "PENDING" /\ Opened(c) \in Request
<1> DEFINE q == Opened(c)
           ends == c.start + c.hours
<1>1. c.start \in Nat /\ ends \in Nat
  BY DEF Call
<1> HIDE DEF ends
<1>2. q = [NoRequest EXCEPT !.status = "PENDING", !.person = c.person, !.agency = c.agency,
                            !.requester = c.user, !.requestedAt = c.start,
                            !.cooldownEnds = ends]
  BY DEF Opened, ends
<1>3. /\ q.status = "PENDING" /\ q.person = c.person /\ q.agency = c.agency
      /\ q.requester = c.user /\ q.recorded = [ch \in Channels |-> None]
      /\ q.witnessAgency = None
  BY <1>2 DEF NoRequest
<1>4. q \in Request
  <2> DEFINE one == [NoRequest EXCEPT !.status = "PENDING", !.person = c.person]
             two == [one EXCEPT !.agency = c.agency, !.requester = c.user]
  <2>1. NoRequest \in Request
    BY DEF NoRequest, Request
  <2>2. one \in Request
    BY <2>1, ZenonT(30) DEF Request
  <2> HIDE DEF one
  <2>3. two \in Request
    BY <2>2, ZenonT(30) DEF Request
  <2>4. q = [two EXCEPT !.requestedAt = c.start, !.cooldownEnds = ends]
    BY <1>2 DEF one
  <2> HIDE DEF two, q
  <2> QED BY <1>1, <2>3, <2>4, ZenonT(30) DEF Request
<1> HIDE DEF q
<1>5. SoundRequest(q)
  BY <1>3 DEF SoundRequest, Channels, CeremonyAssumption
<1> QED BY <1>3, <1>4, <1>5 DEF q

(* The row uc9_initiate_recovery inserts is sound. *)
LEMMA InsertKeeps ==
  ASSUME CeremonyAssumption, IInv, NEW s \in Sessions, Insert(s)
  PROVE  IInv'
<1> DEFINE q == Opened(call[s])
<1>1. CASE Raise(s)
  BY <1>1, RaiseKeeps
<1>2. CASE req' = [req EXCEPT ![NextId] = q] /\ End(s) /\ UNCHANGED world
  <2>1. call[s] \in Call /\ CallKnown(s) /\ pc[s] = "insert"
    BY DEF IInv, TypeOK, Insert
  <2>2. /\ call[s].user \in Users /\ call[s].person \in Individuals
        /\ call[s].agency \in Agencies
        /\ call[s].start \in Nat /\ call[s].hours \in Nat
    BY <2>1 DEF CallKnown, Call
  <2>3. SoundRequest(q) /\ q.status = "PENDING" /\ q \in Request
    BY <2>1, <2>2, OpenedSound
  <2> HIDE DEF q
  <2>6. WorldTypes'
    BY <1>2, Parts DEF WorldTypes, world
  <2> QED BY <1>2, <2>3, <2>6, CommitKeeps
<1> QED BY <1>1, <1>2 DEF Insert

(* uc9_record_recovery_channel reads the account and goes on, or raises. *)
LEMMA RecordUserKeeps ==
  ASSUME CeremonyAssumption, IInv, NEW s \in Sessions, RecordUser(s)
  PROVE  IInv'
<1>1. CASE Raise(s)
  BY <1>1, RaiseKeeps
<1>2. CASE /\ Goto(s, "record_request")
           /\ call' = [call EXCEPT ![s].bound = account[call[s].user].agency]
           /\ UNCHANGED <<req, locks, world>>
  <2>1. ProcTypes /\ WorldTypes /\ CallKnown(s) /\ pc[s] = "record_user" /\ call[s] \in Call
    BY Parts DEF IInv, RecordUser, ProcTypes
  <2>2. account[call[s].user].agency \in Agencies \cup {None}
    BY <2>1 DEF CallKnown, WorldTypes, Account
  <2> DEFINE c == [call[s] EXCEPT !.bound = account[call[s].user].agency]
  <2>3. /\ c \in Call /\ c.user = call[s].user /\ c.what = call[s].what
        /\ c.rid = call[s].rid
    BY <2>1, <2>2 DEF Call
  <2>4. call' = [call EXCEPT ![s] = c]
    BY <1>2, <2>1 DEF ProcTypes
  <2> HIDE DEF c
  <2>5. ProcTypes' /\ pc'[s] = "record_request" /\ call'[s] = c
    BY <1>2, <2>1, <2>3, <2>4, ZenonT(30) DEF ProcTypes, Goto, locks, PCs
  <2>6. WorldTypes'
    BY <1>2, <2>1 DEF WorldTypes, world
  <2>7. OnlyMoves(s)
    BY <1>2, <2>1, <2>4 DEF OnlyMoves, ProcTypes, Goto
  <2>8. CallKnown(s)'
    BY <1>2, <2>1, <2>3, <2>5 DEF CallKnown
  <2> QED BY <1>2, <2>5, <2>6, <2>7, <2>8, SameRequests, SessionStep
<1> QED BY <1>1, <1>2 DEF RecordUser

(* The recorder is not the requester, and a witness is from elsewhere. *)
LEMMA RecordChannelKeeps ==
  ASSUME CeremonyAssumption, IInv, NEW s \in Sessions, RecordChannel(s)
  PROVE  IInv'
<1> DEFINE c == call[s]
           old == req[c.rid]
           new == [old EXCEPT !.recorded[c.what] = c.user,
                              !.witnessAgency = IF c.what = "WITNESS" THEN c.bound ELSE @]
<1>1. CASE Raise(s)
  BY <1>1, RaiseKeeps
<1>2. CASE /\ RecordAdmits(c)
           /\ req' = [req EXCEPT ![c.rid] = new] /\ End(s) /\ UNCHANGED world
  <2>1. c \in Call /\ CallKnown(s) /\ pc[s] = "record_request"
    BY DEF IInv, TypeOK, RecordChannel
  <2>2. c.user \in Users /\ c.what \in Channels /\ c.rid \in Requests
    BY <2>1 DEF CallKnown
  <2>3. old \in Request /\ SoundRequest(old) /\ old.status = "PENDING"
    BY <1>2, <2>2 DEF IInv, TypeOK, RecordAdmits, Pending
  <2>4. c.bound \in Agencies \cup {None}
    BY <2>1 DEF Call
  <2>5. c.user # old.requester
        /\ (c.what = "WITNESS" => c.bound # None /\ c.bound # old.agency)
    BY <1>2 DEF RecordAdmits, WitnessAdmits
  <2> HIDE DEF old, c
  <2>6. /\ new \in Request
        /\ new.status = old.status /\ new.person = old.person /\ new.agency = old.agency
        /\ new.requester = old.requester
        /\ \A ch \in Channels :
             new.recorded[ch] = IF ch = c.what THEN c.user ELSE old.recorded[ch]
        /\ new.witnessAgency = IF c.what = "WITNESS" THEN c.bound ELSE old.witnessAgency
    BY <2>2, <2>3, <2>4, ZenonT(30) DEF Request
  <2> HIDE DEF new
  <2>7. "WITNESS" \in Channels
    BY DEF Channels
  <2>8. SoundRequest(new) /\ new.status # "NONE"
    BY <2>3, <2>5, <2>6, <2>7 DEF SoundRequest
  <2>9. WorldTypes'
    BY <1>2, Parts DEF WorldTypes, world
  <2> QED BY <1>2, <2>6, <2>8, <2>9, CommitKeeps
<1> QED BY <1>1, <1>2 DEF RecordChannel

(* The decision is written only if the CHECK constraints admit it. *)
LEMMA DecideCloseKeeps ==
  ASSUME CeremonyAssumption, IInv, NEW s \in Sessions, DecideClose(s)
  PROVE  IInv'
<1> DEFINE c == call[s]
           old == req[c.rid]
           new == [old EXCEPT !.status = c.what, !.decider = c.user, !.decidedAt = c.start]
<1>1. CASE Raise(s)
  BY <1>1, RaiseKeeps
<1>2. CASE /\ ChecksAdmit(new)
           /\ req' = [req EXCEPT ![c.rid] = new] /\ End(s)
           /\ \/ /\ credentials' = [credentials EXCEPT ![old.person] = Append(@, old.agency)]
                 /\ holdsActive' = [holdsActive EXCEPT ![old.person] = TRUE]
              \/ UNCHANGED <<credentials, holdsActive>>
           /\ UNCHANGED <<account, clock>>
  <2>1. c \in Call /\ CallKnown(s) /\ pc[s] = "decide_close"
    BY DEF IInv, TypeOK, DecideClose
  <2>2. c.user \in Users /\ c.what \in Decisions /\ c.rid \in Requests /\ c.start \in Nat
    BY <2>1 DEF CallKnown, Call
  <2>3. old \in Request /\ SoundRequest(old) /\ old.status # "NONE"
    BY <2>1, <2>2 DEF IInv, TypeOK, CallKnown
  <2>4. old.agency \in Agencies /\ old.person \in Individuals
    BY <2>3 DEF SoundRequest
  <2> HIDE DEF old, c
  <2>5. /\ new \in Request
        /\ new.status = c.what /\ new.person = old.person /\ new.agency = old.agency
        /\ new.requester = old.requester /\ new.recorded = old.recorded
        /\ new.witnessAgency = old.witnessAgency
    BY <2>2, <2>3 DEF Request
  <2>6. new.status # "NONE"
    BY <2>2, <2>5 DEF Decisions
  <2>7. ChecksAdmit(new)
    BY <1>2
  <2>8. req' = [req EXCEPT ![c.rid] = new] /\ End(s)
    BY <1>2
  <2> HIDE DEF new
  <2>9. SoundRequest(new)
    BY <2>3, <2>5, <2>7 DEF SoundRequest
  <2>10. WorldTypes'
    <3>1. credentials \in [Individuals -> Seq(Agencies)]
          /\ holdsActive \in [Individuals -> BOOLEAN]
      BY Parts DEF WorldTypes
    <3>2. Append(credentials[old.person], old.agency) \in Seq(Agencies)
      BY <3>1, <2>4
    <3>3. credentials' \in [Individuals -> Seq(Agencies)]
          /\ holdsActive' \in [Individuals -> BOOLEAN]
      <4>1. CASE /\ credentials' = [credentials EXCEPT ![old.person] = Append(@, old.agency)]
                 /\ holdsActive' = [holdsActive EXCEPT ![old.person] = TRUE]
        <5>1. credentials' \in [Individuals -> Seq(Agencies)]
          BY <3>1, <3>2, <4>1
        <5>2. holdsActive' \in [Individuals -> BOOLEAN]
          BY <3>1, <4>1
        <5> QED BY <5>1, <5>2
      <4>2. CASE UNCHANGED <<credentials, holdsActive>>
        BY <3>1, <4>2
      <4> QED BY <1>2, <4>1, <4>2
    <3> QED BY <1>2, <3>3, Parts DEF WorldTypes
  <2> QED BY <2>5, <2>6, <2>8, <2>9, <2>10, CommitKeeps
<1> QED BY <1>1, <1>2 DEF DecideClose

(* Every statement keeps the invariant. *)
LEMMA StepKeeps ==
  ASSUME CeremonyAssumption, IInv, NEW s \in Sessions, Step(s)
  PROVE  IInv'
<1>0. ProcTypes
  BY Parts
<1>1. CASE DecideLock(s)
  <2>1. personLock' \in [Individuals -> Sessions \cup {None}]
    BY <1>0, <1>1 DEF DecideLock, ProcTypes
  <2> QED BY <1>0, <1>1, <2>1, GotoKeeps DEF DecideLock, PCs, ProcTypes
<1>2. CASE DecideUser(s)
  BY <1>0, <1>2, GotoKeeps, RaiseKeeps DEF DecideUser, PCs, ProcTypes, locks
<1>3. CASE DecideRequest(s)
  <2>1. CASE Raise(s)
    BY <2>1, RaiseKeeps
  <2>2. CASE /\ requestLock' = [requestLock EXCEPT ![call[s].rid] = s]
             /\ Goto(s, "decide_close")
             /\ UNCHANGED <<call, req, personLock, world>>
    <3>1. requestLock' \in [Requests -> Sessions \cup {None}]
      BY <1>0, <2>2 DEF ProcTypes
    <3> QED BY <1>0, <1>3, <2>2, <3>1, GotoKeeps DEF DecideRequest, PCs, ProcTypes
  <2> QED BY <1>3, <2>1, <2>2 DEF DecideRequest
<1> QED BY <1>1, <1>2, <1>3, InsertKeeps, RecordUserKeeps, RecordChannelKeeps,
           DecideCloseKeeps DEF Step

-----------------------------------------------------------------------------
(* The rest of the system touches no request and no call. *)
LEMMA WorldKeeps ==
  ASSUME CeremonyAssumption, IInv, UNCHANGED <<req, locks, pc, call>>, WorldTypes'
  PROVE  IInv'
<1>1. TypeOK'
  BY DEF IInv, TypeOK, WorldTypes, locks
<1> QED BY <1>1 DEF IInv, CallKnown

(* Every step of sessions, accounts, issuers and clock keeps the invariant. *)
LEMMA NextKeeps ==
  ASSUME CeremonyAssumption, IInv, [Next]_vars
  PROVE  IInv'
<1>0. WorldTypes
  BY Parts
<1>1. ASSUME NEW s \in Sessions, CallIn(s) \/ Step(s) \/ Crash(s)
      PROVE  IInv'
  BY <1>1, CallKeeps, StepKeeps, RaiseKeeps DEF Crash
<1>2. ASSUME NEW u \in Users, ChangeAccount(u)
      PROVE  IInv'
  <2>1. account' \in [Users -> Account]
    BY <1>0, <1>2 DEF ChangeAccount, WorldTypes, CeremonyAssumption
  <2>2. WorldTypes'
    BY <1>0, <1>2, <2>1 DEF ChangeAccount, WorldTypes
  <2> QED BY <1>2, <2>2, WorldKeeps DEF ChangeAccount
<1>3. ASSUME NEW i \in Individuals, LoseCredential(i)
      PROVE  IInv'
  BY <1>0, <1>3, WorldKeeps DEF LoseCredential, WorldTypes
<1>4. ASSUME NEW i \in Individuals, NEW a \in Agencies, IssueElsewhere(i, a)
      PROVE  IInv'
  <2>1. Append(credentials[i], a) \in Seq(Agencies)
    BY <1>0 DEF WorldTypes
  <2>2. credentials' \in [Individuals -> Seq(Agencies)]
        /\ holdsActive' \in [Individuals -> BOOLEAN]
    BY <1>0, <1>4, <2>1 DEF IssueElsewhere, WorldTypes
  <2>3. WorldTypes'
    BY <1>0, <1>4, <2>2 DEF IssueElsewhere, WorldTypes
  <2> QED BY <1>4, <2>3, WorldKeeps DEF IssueElsewhere
<1>5. CASE Tick
  BY <1>0, <1>5, WorldKeeps DEF Tick, WorldTypes, CeremonyAssumption
<1>6. CASE UNCHANGED vars
  BY <1>0, <1>6, WorldKeeps DEF vars, WorldTypes, locks
<1> QED BY <1>1, <1>2, <1>3, <1>4, <1>5, <1>6 DEF Next

-----------------------------------------------------------------------------
(* The invariant holds in every reachable state, whatever the calls race with. *)
THEOREM Inductive == Spec => []IInv
<1>1. Init => IInv
  BY CeremonyAssumption, InitSound
<1>2. IInv /\ [Next]_vars => IInv'
  BY CeremonyAssumption, NextKeeps
<1> QED BY <1>1, <1>2, PTL DEF Spec

(* The variables keep their types in every reachable state. *)
THEOREM TypeCorrect == Spec => []TypeOK
<1>1. IInv => TypeOK
  BY DEF IInv
<1> QED BY <1>1, Inductive, PTL

(* uc9_complete_recovery never approves with fewer than three people, without a
   witness from a second authority, or before the cool-down is over: for any
   number of concurrent calls and any change of accounts between them. *)
THEOREM ThreeToRecover == Spec => []ApprovalTookThree
<1>1. IInv => ApprovalTookThree
  BY CeremonyAssumption, SoundApproval
<1> QED BY <1>1, Inductive, PTL

-----------------------------------------------------------------------------
(* What stands *)

(* A session about to close a request holds it, and it is still pending. *)
Closing(s) ==
  pc[s] = "decide_close" => requestLock[call[s].rid] = s /\ req[call[s].rid].status = "PENDING"

(* One of the two authorities has a tie to the person or had issued a credential. *)
Tie(q, creds) ==
  \/ {q.agency, q.witnessAgency} \cap tied[q.person] # {}
  \/ \E k \in DOMAIN creds[q.person] : creds[q.person][k] \in {q.agency, q.witnessAgency}

(* A row not yet inserted is empty; a witnessed one has its tie. *)
Standing(q, creds) ==
  /\ q.status = "NONE" => q = NoRequest
  /\ q.status # "NONE" /\ q.recorded["WITNESS"] # None => Tie(q, creds)

OnePending ==
  \A r, q \in Requests : req[r].status = "PENDING" /\ req[q].status = "PENDING"
                         /\ req[r].person = req[q].person => r = q

Inserting == {p \in Sessions : pc[p] = "insert"}

(* The inductive invariant, next to the one above. *)
StandInv ==
  /\ \A s \in Sessions : Closing(s)
  /\ \A r \in Requests : Standing(req[r], credentials)
  /\ OnePending
  /\ Cardinality(Inserting) <= Cardinality(Unused)

(* A nonempty set of numbers has a least one. *)
LEMMA LeastNumber ==
  ASSUME NEW S \in SUBSET Nat, S # {}
  PROVE  \E n \in S : \A m \in S : n <= m
<1> DEFINE R == {p \in Nat \X Nat : p[1] < p[2]}
<1>1. IsWellFoundedOn(R, Nat)
  BY NatLessThanWellFounded DEF OpToRel
<1>2. PICK n \in S : \A m \in S : ~(<<m, n>> \in R)
  <2> HIDE DEF R
  <2> QED BY <1>1, WFMin
<1>3. ASSUME NEW m \in S PROVE n <= m
  <2>1. n \in Nat /\ m \in Nat /\ (m < n => <<m, n>> \in R)
    OBVIOUS
  <2> QED BY <1>2, <2>1
<1> QED BY <1>3

(* The sequence hands out an id that has no row. *)
LEMMA NextIdUnused ==
  ASSUME CeremonyAssumption, Unused # {}
  PROVE  NextId \in Unused
<1>1. Unused \subseteq Nat
  BY DEF Unused, Requests, CeremonyAssumption
<1> QED BY <1>1, LeastNumber DEF NextId

(* Rows to come and inserts under way can be counted. *)
LEMMA Counted ==
  ASSUME CeremonyAssumption
  PROVE  /\ IsFiniteSet(Unused) /\ IsFiniteSet(Inserting)
         /\ Cardinality(Unused) \in Nat /\ Cardinality(Inserting) \in Nat
<1>1. IsFiniteSet(Requests)
  BY FS_Interval DEF Requests, CeremonyAssumption
<1>2. Unused \subseteq Requests /\ Inserting \subseteq Sessions /\ IsFiniteSet(Sessions)
  BY DEF Unused, Inserting, CeremonyAssumption
<1>3. IsFiniteSet(Unused) /\ IsFiniteSet(Inserting)
  BY <1>1, <1>2, FS_Subset
<1> QED BY <1>3, FS_CardinalityType

(* Where session s leaves the locks of others alone. *)
OtherLocks(s) ==
  \A r \in Requests : requestLock[r] # None /\ requestLock[r] # s => requestLock'[r] = requestLock[r]

(* And writes no row another session has locked. *)
OtherRows(s) ==
  \A r \in Requests : req'[r] # req[r] => requestLock[r] \in {None, s} \/ req[r].status = "NONE"

CredsGrow ==
  \A i \in Individuals :
    \A k \in DOMAIN credentials[i] : k \in DOMAIN credentials'[i] /\ credentials'[i][k] = credentials[i][k]

(* The sessions about to close keep what they hold. *)
LEMMA ClosingKept ==
  ASSUME CeremonyAssumption, IInv, StandInv, NEW s \in Sessions, OnlyMoves(s), OtherLocks(s), OtherRows(s),
         Closing(s)'
  PROVE  \A p \in Sessions : Closing(p)'
<1> SUFFICES ASSUME NEW p \in Sessions, p # s, pc'[p] = "decide_close"
             PROVE  requestLock'[call'[p].rid] = p /\ req'[call'[p].rid].status = "PENDING"
  BY DEF Closing
<1>1. pc[p] = "decide_close" /\ call'[p] = call[p]
  BY DEF OnlyMoves
<1>2. /\ requestLock[call[p].rid] = p /\ req[call[p].rid].status = "PENDING" /\ call[p].rid \in Requests
      /\ p # None
  BY <1>1 DEF StandInv, Closing, IInv, CallKnown, CeremonyAssumption
<1>3. requestLock'[call[p].rid] = p /\ req'[call[p].rid] = req[call[p].rid]
  BY <1>2 DEF OtherLocks, OtherRows
<1> QED BY <1>1, <1>2, <1>3

(* Credentials are never taken away, so a tie once there stays. *)
LEMMA StandingKept ==
  ASSUME CeremonyAssumption, NEW q, q.status = "NONE" \/ q.person \in Individuals,
         Standing(q, credentials), CredsGrow
  PROVE  Standing(q, credentials')
<1>1. ASSUME q.person \in Individuals, Tie(q, credentials) PROVE Tie(q, credentials')
  BY <1>1 DEF Tie, CredsGrow
<1> QED BY <1>1 DEF Standing

(* The requests of the table have their person. *)
LEMMA PersonKnown ==
  ASSUME IInv, NEW r \in Requests
  PROVE  req[r].status = "NONE" \/ req[r].person \in Individuals
BY DEF IInv, SoundRequest

(* A step that writes no row and begins no insert. *)
LEMMA QuietStands ==
  ASSUME CeremonyAssumption, IInv, StandInv, req' = req, CredsGrow, Inserting' \subseteq Inserting,
         \A p \in Sessions : Closing(p)'
  PROVE  StandInv'
<1>1. \A r \in Requests : Standing(req'[r], credentials')
  BY PersonKnown, StandingKept DEF StandInv
<1>2. OnePending'
  BY DEF StandInv, OnePending
<1>3. Cardinality(Inserting') <= Cardinality(Inserting) /\ Cardinality(Inserting') \in Nat
  BY Counted, FS_Subset, FS_CardinalityType
<1>4. Unused' = Unused
  BY DEF Unused
<1>5. Cardinality(Inserting') <= Cardinality(Unused')
  BY <1>3, <1>4, Counted DEF StandInv
<1> QED BY <1>1, <1>2, <1>5 DEF StandInv

(* COMMIT and ROLLBACK release what s had, and nothing else. *)
LEMMA EndStands ==
  ASSUME CeremonyAssumption, IInv, NEW s \in Sessions, End(s)
  PROVE  OnlyMoves(s) /\ OtherLocks(s) /\ Closing(s)' /\ Inserting' = Inserting \ {s}
<1>1. pc' = [pc EXCEPT ![s] = "idle"] /\ pc \in [Sessions -> PCs]
  BY DEF End, Goto, IInv, TypeOK
<1>2. Inserting' = Inserting \ {s}
  BY <1>1 DEF Inserting
<1>3. Closing(s)'
  BY <1>1 DEF Closing
<1>4. OtherLocks(s)
  BY DEF OtherLocks, End
<1> QED BY <1>2, <1>3, <1>4, Parts, EndMoves

(* A call that raises. *)
LEMMA RaiseStands ==
  ASSUME CeremonyAssumption, IInv, StandInv, NEW s \in Sessions, Raise(s)
  PROVE  StandInv'
<1>1. End(s) /\ req' = req /\ credentials' = credentials
  BY DEF Raise, world
<1>2. OtherRows(s) /\ CredsGrow
  BY <1>1 DEF OtherRows, CredsGrow
<1>3. OnlyMoves(s) /\ OtherLocks(s) /\ Closing(s)' /\ Inserting' \subseteq Inserting
  BY <1>1, EndStands
<1> QED BY <1>1, <1>2, <1>3, ClosingKept, QuietStands

-----------------------------------------------------------------------------
(* Rows that are written *)

(* An insert where the person has nothing pending, or the change of a pending row
   that nobody else has locked: what was recorded is kept. *)
RowWritten(s, r, new) ==
  /\ r \in Requests /\ req' = [req EXCEPT ![r] = new] /\ new.status # "NONE"
  /\ Standing(new, credentials) /\ new.person \in Individuals
  /\ \/ req[r].status = "NONE" /\ new.status = "PENDING" /\ PendingOf(new.person) = {}
     \/ /\ req[r].status = "PENDING" /\ requestLock[r] \in {None, s}
        /\ <<new.person, new.agency>> = <<req[r].person, req[r].agency>>
  /\ \A c \in Channels : req[r].recorded[c] # None => new.recorded[c] = req[r].recorded[c]
  /\ new.status = "APPROVED" => req[r].recorded["WITNESS"] # None

(* The row of a decided request stands, and so does every channel. *)
RowStands(r) ==
  /\ req[r].status \in Decisions => req'[r] = req[r]
  /\ \A c \in Channels : req[r].recorded[c] # None => req'[r].recorded[c] = req[r].recorded[c]

Untied(r) ==
  req[r].status = "PENDING" /\ req'[r].status = "APPROVED" => Tie(req[r], credentials)

(* What such a write keeps. *)
LEMMA WriteStands ==
  ASSUME CeremonyAssumption, IInv, StandInv, NEW s \in Sessions, NEW r, NEW new, RowWritten(s, r, new), CredsGrow
  PROVE  /\ OnePending' /\ OtherRows(s)
         /\ \A q \in Requests : Standing(req'[q], credentials')
         /\ \A q \in Requests : RowStands(q) /\ Untied(q)
         /\ Unused' = Unused \ {r}
<1>1. \A q \in Requests : req'[q] = IF q = r THEN new ELSE req[q]
  BY DEF RowWritten, IInv, TypeOK
<1>2. OnePending'
  <2> SUFFICES ASSUME NEW p \in Requests, NEW q \in Requests, req'[p].status = "PENDING", req'[q].status = "PENDING",
                      req'[p].person = req'[q].person, p # q
               PROVE  FALSE
    BY DEF OnePending
  <2>1. p = r \/ q = r
    BY <1>1 DEF StandInv, OnePending
  <2>2. PICK o \in {p, q} : o # r
    OBVIOUS
  <2>3. /\ o \in Requests /\ req[o].status = "PENDING" /\ req[o].person = new.person
    BY <1>1, <2>1, <2>2
  <2>4. PendingOf(new.person) # {}
    BY <2>3 DEF PendingOf, Pending
  <2>5. req[r].status = "PENDING" /\ req[r].person = new.person
    BY <2>4 DEF RowWritten
  <2> QED BY <2>2, <2>3, <2>5 DEF StandInv, OnePending, RowWritten
<1>3. OtherRows(s)
  BY <1>1 DEF OtherRows, RowWritten
<1>4. \A q \in Requests : Standing(req'[q], credentials')
  <2> SUFFICES ASSUME NEW q \in Requests PROVE Standing(req'[q], credentials')
    OBVIOUS
  <2>1. CASE q = r
    BY <1>1, <2>1, StandingKept DEF RowWritten
  <2>2. CASE q # r
    BY <1>1, <2>2, PersonKnown, StandingKept DEF StandInv
  <2> QED BY <2>1, <2>2
<1>5. \A q \in Requests : RowStands(q)
  BY <1>1 DEF RowStands, RowWritten, Decisions
<1>6. \A q \in Requests : Untied(q)
  <2> SUFFICES ASSUME NEW q \in Requests, req[q].status = "PENDING", req'[q].status = "APPROVED"
               PROVE  Tie(req[q], credentials)
    BY DEF Untied
  <2>1. q = r /\ new.status = "APPROVED"
    BY <1>1
  <2> QED BY <2>1 DEF RowWritten, StandInv, Standing
<1>7. Unused' = Unused \ {r}
  BY <1>1 DEF Unused, RowWritten
<1> QED BY <1>2, <1>3, <1>4, <1>5, <1>6, <1>7

(* A credential more is a credential at the end. *)
LEMMA GrownCredentials ==
  ASSUME IInv, NEW i \in Individuals, NEW a \in Agencies, credentials' = [credentials EXCEPT ![i] = Append(@, a)]
  PROVE  CredsGrow
<1> SUFFICES ASSUME NEW j \in Individuals, NEW k \in DOMAIN credentials[j]
             PROVE  k \in DOMAIN credentials'[j] /\ credentials'[j][k] = credentials[j][k]
  BY DEF CredsGrow
<1>1. credentials \in [Individuals -> Seq(Agencies)]
  BY DEF IInv, TypeOK
<1>2. CASE j = i
  <2>1. credentials'[j] = Append(credentials[j], a) /\ credentials[j] \in Seq(Agencies)
    BY <1>1, <1>2
  <2> QED BY <2>1
<1>3. CASE j # i
  BY <1>1, <1>3
<1> QED BY <1>2, <1>3

(* A call that commits one row. *)
LEMMA CommitStands ==
  ASSUME CeremonyAssumption, IInv, StandInv, NEW s \in Sessions, End(s), NEW r, NEW new,
         RowWritten(s, r, new), CredsGrow, pc[s] = "insert" \/ req[r].status # "NONE"
  PROVE  StandInv'
<1>1. OnlyMoves(s) /\ OtherLocks(s) /\ Closing(s)' /\ Inserting' = Inserting \ {s}
  BY EndStands
<1>2. /\ OnePending' /\ OtherRows(s) /\ \A q \in Requests : Standing(req'[q], credentials')
      /\ Unused' = Unused \ {r}
  BY WriteStands
<1>3. \A p \in Sessions : Closing(p)'
  BY <1>1, <1>2, ClosingKept
<1>4. Cardinality(Inserting) <= Cardinality(Unused) /\ Cardinality(Inserting) \in Nat /\ Cardinality(Unused) \in Nat
      /\ IsFiniteSet(Inserting) /\ IsFiniteSet(Unused)
  BY Counted DEF StandInv
<1>5. /\ Cardinality(Inserting') = IF s \in Inserting THEN Cardinality(Inserting) - 1 ELSE Cardinality(Inserting)
      /\ Cardinality(Unused') = IF r \in Unused THEN Cardinality(Unused) - 1 ELSE Cardinality(Unused)
  BY <1>1, <1>2, <1>4, FS_RemoveElement
<1>6. r \in Unused => s \in Inserting
  BY DEF Unused, Inserting
<1>7. Cardinality(Inserting') <= Cardinality(Unused')
  BY <1>4, <1>5, <1>6
<1> QED BY <1>2, <1>3, <1>7 DEF StandInv

(* Of two operators who both found no pending request one inserts, and in a row of
   its own. *)
LEMMA InsertWrites ==
  ASSUME CeremonyAssumption, IInv, StandInv, NEW s \in Sessions, Insert(s), ~Raise(s)
  PROVE  End(s) /\ pc[s] = "insert" /\ CredsGrow /\ \E r : \E new : RowWritten(s, r, new)
<1>1. PICK q : q = Opened(call[s])
  OBVIOUS
<1>2. /\ pc[s] = "insert" /\ InsertAdmits(q) /\ req' = [req EXCEPT ![NextId] = q] /\ End(s)
      /\ credentials' = credentials
  BY <1>1 DEF Insert, world
<1>3. s \in Inserting /\ Cardinality(Inserting) # 0
  <2>1. s \in Inserting
    BY <1>2 DEF Inserting
  <2>2. IsFiniteSet(Inserting) /\ Inserting # {}
    BY <2>1, Counted
  <2> QED BY <2>1, <2>2, FS_EmptySet
<1>4. Unused # {}
  BY <1>3, Counted, FS_EmptySet DEF StandInv
<1>5. NextId \in Requests /\ req[NextId].status = "NONE"
  BY <1>4, NextIdUnused DEF Unused
<1>6. /\ q.status = "PENDING" /\ q.person \in Individuals /\ q.recorded = [c \in Channels |-> None]
  <2>1. call[s] \in Call /\ call[s].person \in Individuals
    BY <1>2 DEF IInv, TypeOK, CallKnown
  <2> QED BY <1>1, <2>1 DEF Opened, NoRequest
<1>7. Standing(q, credentials)
  BY <1>6 DEF Standing, Channels
<1>8. req[NextId] = NoRequest
  BY <1>5 DEF StandInv, Standing
<1>9. \A c \in Channels : req[NextId].recorded[c] = None
  BY <1>8 DEF NoRequest
<1>10. PICK r : r = NextId
  OBVIOUS
<1>11. RowWritten(s, r, q)
  BY <1>2, <1>5, <1>6, <1>7, <1>9, <1>10 DEF RowWritten, InsertAdmits
<1> QED BY <1>2, <1>11 DEF CredsGrow

(* A channel is recorded on a pending request that nobody is closing, once. *)
LEMMA RecordWrites ==
  ASSUME CeremonyAssumption, IInv, StandInv, NEW s \in Sessions, RecordChannel(s), ~Raise(s)
  PROVE  End(s) /\ CredsGrow /\ \E r : \E new : RowWritten(s, r, new) /\ req[r].status # "NONE"
<1>1. PICK c, r, old : c = call[s] /\ r = c.rid /\ old = req[r]
  OBVIOUS
<1> DEFINE new == [old EXCEPT !.recorded[c.what] = c.user,
                              !.witnessAgency = IF c.what = "WITNESS" THEN c.bound ELSE @]
<1>2. /\ pc[s] = "record_request" /\ requestLock[r] = None /\ RecordAdmits(c)
      /\ req' = [req EXCEPT ![r] = new] /\ End(s) /\ credentials' = credentials
  BY <1>1 DEF RecordChannel, world
<1>3. c \in Call /\ c.user \in Users /\ c.what \in Channels /\ r \in Requests /\ c.bound \in Agencies \cup {None}
  BY <1>1, <1>2 DEF IInv, TypeOK, CallKnown, Call
<1>4. old \in Request /\ old.status = "PENDING" /\ old.person \in Individuals /\ old.recorded[c.what] = None
  <2>1. old \in Request /\ SoundRequest(old)
    BY <1>1, <1>3 DEF IInv, TypeOK
  <2>2. old.status = "PENDING" /\ old.recorded[c.what] = None
    BY <1>1, <1>2 DEF RecordAdmits, Pending
  <2> QED BY <2>1, <2>2 DEF SoundRequest
<1>5. /\ new.status = old.status /\ new.person = old.person /\ new.agency = old.agency
      /\ \A ch \in Channels : new.recorded[ch] = IF ch = c.what THEN c.user ELSE old.recorded[ch]
      /\ new.witnessAgency = IF c.what = "WITNESS" THEN c.bound ELSE old.witnessAgency
  BY <1>3, <1>4, ZenonT(30) DEF Request
<1> HIDE DEF new
<1>6. Standing(old, credentials) /\ "WITNESS" \in Channels
  BY <1>1, <1>3 DEF StandInv, Channels
<1>7. Standing(new, credentials)
  <2>1. CASE c.what = "WITNESS"
    <3>1. WitnessAdmits(c.bound, r)
      BY <1>1, <1>2, <2>1 DEF RecordAdmits
    <3>2. \/ old.agency \in tied[old.person]
          \/ Latest(old.person) = old.agency \/ Latest(old.person) = c.bound
      BY <1>1, <3>1 DEF WitnessAdmits, HasStanding
    <3>3. c.bound # None /\ old.agency # None
      BY <1>1, <1>3, <1>4, <3>1 DEF WitnessAdmits, IInv, SoundRequest, CeremonyAssumption
    <3>4. CASE old.agency \in tied[old.person]
      BY <1>4, <1>5, <3>4 DEF Standing, Tie
    <3>5. CASE Latest(old.person) \in {old.agency, c.bound}
      <4> DEFINE cs == credentials[old.person]
      <4>1. cs \in Seq(Agencies) /\ cs # <<>>
        BY <1>4, <3>3, <3>5 DEF IInv, TypeOK, Latest
      <4>2. Len(cs) \in DOMAIN cs /\ cs[Len(cs)] = Latest(old.person)
        BY <4>1 DEF Latest
      <4>3. Tie(new, credentials)
        BY <1>5, <2>1, <3>5, <4>2 DEF Tie
      <4> QED BY <1>4, <1>5, <4>3 DEF Standing
    <3> QED BY <3>2, <3>4, <3>5
  <2>2. CASE c.what # "WITNESS"
    <3>1. new.recorded["WITNESS"] = old.recorded["WITNESS"] /\ new.witnessAgency = old.witnessAgency
      BY <1>5, <1>6, <2>2
    <3> QED BY <1>4, <1>5, <1>6, <3>1 DEF Standing, Tie
  <2> QED BY <2>1, <2>2
<1>8. RowWritten(s, r, new)
  BY <1>1, <1>2, <1>3, <1>4, <1>5, <1>7 DEF RowWritten
<1> QED BY <1>1, <1>2, <1>4, <1>8 DEF CredsGrow

(* A decision closes the pending request its session has locked. *)
LEMMA CloseWrites ==
  ASSUME CeremonyAssumption, IInv, StandInv, NEW s \in Sessions, DecideClose(s), ~Raise(s)
  PROVE  End(s) /\ CredsGrow /\ \E r : \E new : RowWritten(s, r, new) /\ req[r].status # "NONE"
<1>1. PICK c, r, old : c = call[s] /\ r = c.rid /\ old = req[r]
  OBVIOUS
<1> DEFINE new == [old EXCEPT !.status = c.what, !.decider = c.user, !.decidedAt = c.start]
<1>2. /\ pc[s] = "decide_close" /\ ChecksAdmit(new) /\ req' = [req EXCEPT ![r] = new] /\ End(s)
      /\ \/ credentials' = [credentials EXCEPT ![old.person] = Append(@, old.agency)]
         \/ credentials' = credentials
  BY <1>1 DEF DecideClose
<1>3. c \in Call /\ c.user \in Users /\ c.what \in Decisions /\ r \in Requests
  BY <1>1, <1>2 DEF IInv, TypeOK, CallKnown
<1>4. old.status = "PENDING" /\ requestLock[r] = s
  BY <1>1, <1>2 DEF StandInv, Closing
<1>5. old \in Request /\ old.person \in Individuals /\ old.agency \in Agencies /\ Standing(old, credentials)
  BY <1>1, <1>3, <1>4 DEF IInv, TypeOK, SoundRequest, StandInv
<1>6. /\ new.status = c.what /\ new.person = old.person /\ new.agency = old.agency
      /\ new.recorded = old.recorded /\ new.witnessAgency = old.witnessAgency
  BY <1>5 DEF Request
<1> HIDE DEF new
<1>7. CredsGrow
  <2>1. CASE credentials' = credentials
    BY <2>1 DEF CredsGrow
  <2>2. CASE credentials' = [credentials EXCEPT ![old.person] = Append(@, old.agency)]
    BY <1>5, <2>2, GrownCredentials
  <2> QED BY <1>2, <2>1, <2>2
<1>8. new.status # "NONE" /\ new.status # "PENDING"
  BY <1>3, <1>6 DEF Decisions
<1>9. Standing(new, credentials)
  BY <1>4, <1>5, <1>6, <1>8 DEF Standing, Tie
<1>10. new.status = "APPROVED" => old.recorded["WITNESS"] # None
  BY <1>2, <1>6 DEF ChecksAdmit, Channels
<1>11. RowWritten(s, r, new)
  BY <1>1, <1>2, <1>3, <1>4, <1>5, <1>6, <1>8, <1>9, <1>10 DEF RowWritten
<1> QED BY <1>1, <1>2, <1>4, <1>7, <1>11

-----------------------------------------------------------------------------
(* A session goes on, or takes up a call other than an insert. *)
LEMMA GoesOn ==
  ASSUME CeremonyAssumption, IInv, StandInv, NEW s \in Sessions, NEW label \in PCs \ {"insert"},
         pc' = [pc EXCEPT ![s] = label], OnlyMoves(s), OtherLocks(s), Closing(s)',
         req' = req, credentials' = credentials
  PROVE  StandInv'
<1>1. Inserting' \subseteq Inserting
  BY DEF Inserting, IInv, TypeOK
<1>2. OtherRows(s) /\ CredsGrow
  BY DEF OtherRows, CredsGrow
<1> QED BY <1>1, <1>2, ClosingKept, QuietStands

(* uc9_initiate_recovery leaves an id for every insert under way. *)
LEMMA InitiateStands ==
  ASSUME CeremonyAssumption, IInv, StandInv, NEW s \in Sessions, NEW via, NEW u, NEW i, NEW a, NEW h,
         Initiate(s, via, u, i, a, h)
  PROVE  StandInv' /\ req' = req
<1>1. /\ Cardinality(Unused) > Cardinality(Inserting) /\ pc' = [pc EXCEPT ![s] = "insert"]
      /\ UNCHANGED <<req, locks, credentials>> /\ OnlyMoves(s)
  BY DEF Initiate, Begin, Inserting, world, OnlyMoves, IInv, TypeOK
<1>2. Inserting' = Inserting \cup {s}
  BY <1>1 DEF Inserting, IInv, TypeOK
<1>3. Cardinality(Inserting') <= Cardinality(Inserting) + 1 /\ Cardinality(Inserting') \in Nat
  <2>1. IsFiniteSet(Inserting) /\ Cardinality(Inserting) \in Nat
    BY Counted
  <2>2. Cardinality(Inserting \cup {s}) = IF s \in Inserting THEN Cardinality(Inserting) ELSE Cardinality(Inserting) + 1
    BY <2>1, FS_AddElement
  <2> QED BY <1>2, <2>1, <2>2
<1>4. Unused' = Unused
  BY <1>1 DEF Unused
<1>5. Cardinality(Inserting') <= Cardinality(Unused')
  BY <1>1, <1>3, <1>4, Counted
<1>6. OtherLocks(s) /\ OtherRows(s) /\ Closing(s)'
  BY <1>1 DEF OtherLocks, OtherRows, Closing, locks, IInv, TypeOK
<1>7. \A p \in Sessions : Closing(p)'
  BY <1>1, <1>6, ClosingKept
<1>8. (\A r \in Requests : Standing(req[r], credentials))' /\ OnePending'
  BY <1>1 DEF StandInv, OnePending
<1> QED BY <1>1, <1>5, <1>7, <1>8 DEF StandInv

(* The calls and the statements that write no row. *)
LEMMA QuietCalls ==
  ASSUME CeremonyAssumption, IInv, StandInv, NEW s \in Sessions, ~Raise(s),
         CallIn(s) \/ RecordUser(s) \/ DecideLock(s) \/ DecideUser(s) \/ DecideRequest(s)
  PROVE  StandInv' /\ req' = req
<1>0. pc \in [Sessions -> PCs] /\ call \in [Sessions -> Call]
  BY DEF IInv, TypeOK
<1>1. ASSUME NEW c, NEW label \in {"record_user", "decide_lock"}, Begin(s, label, c)
      PROVE  StandInv' /\ req' = req
  <2>1. pc' = [pc EXCEPT ![s] = label] /\ UNCHANGED <<req, locks, credentials>> /\ OnlyMoves(s)
    BY <1>0, <1>1 DEF Begin, world, OnlyMoves
  <2>2. OtherLocks(s) /\ Closing(s)' /\ label \in PCs \ {"insert"}
    BY <1>0, <2>1 DEF OtherLocks, Closing, locks, PCs
  <2> QED BY <2>1, <2>2, GoesOn
<1>2. CASE CallIn(s)
  <2>1. PICK via \in Entrances, u \in Users :
      \/ \E i \in Individuals, a \in Agencies, h \in Hours : Initiate(s, via, u, i, a, h)
      \/ \E r \in Requests, ch \in Channels, ok \in Papers : Record(s, via, u, r, ch, ok)
      \/ \E r \in Requests, d \in Decisions, ok \in Papers : Decide(s, via, u, r, d, ok)
    BY <1>2 DEF CallIn
  <2>2. CASE \E i \in Individuals, a \in Agencies, h \in Hours : Initiate(s, via, u, i, a, h)
    BY <2>2, InitiateStands
  <2>3. CASE \E r \in Requests, ch \in Channels, ok \in Papers : Record(s, via, u, r, ch, ok)
    BY <1>1, <2>3 DEF Record
  <2>4. CASE \E r \in Requests, d \in Decisions, ok \in Papers : Decide(s, via, u, r, d, ok)
    BY <1>1, <2>4 DEF Decide
  <2> QED BY <2>1, <2>2, <2>3, <2>4
<1>3. CASE RecordUser(s) \/ DecideLock(s) \/ DecideUser(s)
  <2>1. PICK label \in {"record_request", "decide_user", "decide_request"} :
          pc' = [pc EXCEPT ![s] = label] /\ UNCHANGED <<req, requestLock, credentials>> /\ OnlyMoves(s)
    BY <1>0, <1>3 DEF RecordUser, DecideLock, DecideUser, Goto, world, locks, OnlyMoves
  <2>2. OtherLocks(s) /\ Closing(s)' /\ label \in PCs \ {"insert"}
    BY <1>0, <2>1 DEF OtherLocks, Closing, PCs
  <2> QED BY <2>1, <2>2, GoesOn
<1>4. CASE DecideRequest(s)
  <2>1. PICK r : r = call[s].rid
    OBVIOUS
  <2>2. /\ pc[s] = "decide_request" /\ requestLock[r] = None /\ DecisionAdmits(call[s])
        /\ requestLock' = [requestLock EXCEPT ![r] = s] /\ pc' = [pc EXCEPT ![s] = "decide_close"]
        /\ UNCHANGED <<call, req, credentials>>
    BY <1>4, <2>1 DEF DecideRequest, Goto, world
  <2>3. OnlyMoves(s)
    BY <1>0, <2>2 DEF OnlyMoves
  <2>4. r \in Requests /\ requestLock \in [Requests -> Sessions \cup {None}]
    BY <2>1, <2>2 DEF IInv, TypeOK, CallKnown
  <2>5. OtherLocks(s) /\ requestLock'[r] = s
    BY <2>2, <2>4 DEF OtherLocks
  <2>6. Closing(s)' /\ "decide_close" \in PCs \ {"insert"}
    BY <1>0, <2>1, <2>2, <2>5 DEF Closing, DecisionAdmits, Pending, PCs
  <2> QED BY <2>2, <2>3, <2>5, <2>6, GoesOn
<1> QED BY <1>2, <1>3, <1>4

(* A step that writes one row, or none. *)
LEMMA StandingStep ==
  ASSUME CeremonyAssumption, IInv, StandInv, NEW s \in Sessions, Step(s) \/ CallIn(s) \/ Crash(s)
  PROVE  /\ StandInv'
         /\ \A r \in Requests : RowStands(r) /\ Untied(r)
<1>1. ASSUME NEW r, NEW new, RowWritten(s, r, new), CredsGrow, End(s), pc[s] = "insert" \/ req[r].status # "NONE"
      PROVE  StandInv' /\ \A q \in Requests : RowStands(q) /\ Untied(q)
  BY <1>1, CommitStands, WriteStands
<1>2. ASSUME req' = req PROVE \A r \in Requests : RowStands(r) /\ Untied(r)
  BY <1>2 DEF RowStands, Untied
<1>3. CASE Raise(s)
  BY <1>2, <1>3, RaiseStands DEF Raise
<1>4. CASE (Insert(s) \/ RecordChannel(s) \/ DecideClose(s)) /\ ~Raise(s)
  BY <1>1, <1>4, InsertWrites, RecordWrites, CloseWrites
<1>5. CASE (CallIn(s) \/ RecordUser(s) \/ DecideLock(s) \/ DecideUser(s) \/ DecideRequest(s)) /\ ~Raise(s)
  BY <1>2, <1>5, QuietCalls
<1> QED BY <1>3, <1>4, <1>5 DEF Step, Crash

(* The rest of the system takes no credential away and writes no request. *)
LEMMA WorldStands ==
  ASSUME CeremonyAssumption, IInv, StandInv, UNCHANGED <<req, locks, pc, call>>, CredsGrow
  PROVE  /\ StandInv'
         /\ \A r \in Requests : RowStands(r) /\ Untied(r)
<1>1. \A p \in Sessions : Closing(p)'
  BY DEF StandInv, Closing, locks
<1>2. Inserting' = Inserting
  BY DEF Inserting
<1> QED BY <1>1, <1>2, QuietStands DEF RowStands, Untied

(* Every step of sessions, accounts, issuers and clock. *)
LEMMA NextStands ==
  ASSUME CeremonyAssumption, IInv, StandInv, [Next]_vars
  PROVE  /\ StandInv'
         /\ \A r \in Requests : RowStands(r) /\ Untied(r)
<1>1. ASSUME NEW s \in Sessions, CallIn(s) \/ Step(s) \/ Crash(s)
      PROVE  StandInv' /\ \A r \in Requests : RowStands(r) /\ Untied(r)
  BY <1>1, StandingStep
<1>2. ASSUME NEW i \in Individuals, NEW a \in Agencies, IssueElsewhere(i, a)
      PROVE  StandInv' /\ \A r \in Requests : RowStands(r) /\ Untied(r)
  BY <1>2, GrownCredentials, WorldStands DEF IssueElsewhere
<1>3. CASE UNCHANGED <<req, locks, pc, call, credentials>>
  BY <1>3, WorldStands DEF CredsGrow
<1> QED BY <1>1, <1>2, <1>3 DEF Next, ChangeAccount, LoseCredential, Tick, vars, locks

(* Nothing is pending before the first call. *)
LEMMA InitStands ==
  ASSUME CeremonyAssumption, Init
  PROVE  StandInv
<1>1. \A r \in Requests : req[r] = NoRequest /\ NoRequest.status = "NONE"
  BY DEF Init, NoRequest
<1>2. Inserting = {} /\ Cardinality({}) = 0
  BY FS_EmptySet DEF Init, Inserting
<1>3. Cardinality(Inserting) <= Cardinality(Unused)
  BY <1>2, Counted
<1>4. \A s \in Sessions : Closing(s)
  BY DEF Init, Closing
<1> QED BY <1>1, <1>3, <1>4 DEF StandInv, Standing, OnePending

(* Both invariants hold throughout. *)
LEMMA StandInvariance == Spec => [](IInv /\ StandInv)
<1>1. Init => IInv /\ StandInv
  BY CeremonyAssumption, InitSound, InitStands
<1>2. IInv /\ StandInv /\ [Next]_vars => IInv' /\ StandInv'
  BY CeremonyAssumption, NextKeeps, NextStands
<1> QED BY <1>1, <1>2, PTL DEF Spec

-----------------------------------------------------------------------------
(* Of any number of operators who found no pending request and went on to insert one,
   one succeeds: uq_one_pending_recovery_per_individual. *)
THEOREM OnePendingEach == Spec => []OnePendingPerPerson
<1>1. ASSUME StandInv, NEW i \in Individuals PROVE Cardinality(PendingOf(i)) <= 1
  <2>1. CASE PendingOf(i) = {}
    <3>1. Cardinality(PendingOf(i)) = 0
      BY <2>1, FS_EmptySet
    <3> QED BY <3>1
  <2>2. CASE PendingOf(i) # {}
    <3>1. PICK r : r \in PendingOf(i)
      BY <2>2
    <3>2. PendingOf(i) = {r}
      BY <1>1, <3>1 DEF PendingOf, Pending, StandInv, OnePending
    <3>3. Cardinality(PendingOf(i)) = 1
      BY <3>2, FS_Singleton
    <3> QED BY <3>3
  <2> QED BY <2>1, <2>2
<1>2. StandInv => OnePendingPerPerson
  BY <1>1 DEF OnePendingPerPerson
<1> QED BY <1>2, StandInvariance, PTL

(* A channel recorded stays with the one who recorded it, and a decided request is
   never written again, though recorders and deciders race
   (uc9_record_recovery_channel, uc9_complete_recovery and the FOR UPDATE in both). *)
THEOREM RecordsStay == Spec => RecordsStand
<1> DEFINE Stand == \A r \in Requests :
                      /\ req[r].status \in Decisions => req'[r] = req[r]
                      /\ \A c \in Channels : req[r].recorded[c] # None =>
                           req'[r].recorded[c] = req[r].recorded[c]
<1>1. IInv /\ StandInv /\ [Next]_vars => [Stand]_vars
  <2> SUFFICES ASSUME IInv, StandInv, [Next]_vars PROVE Stand
    OBVIOUS
  <2> QED BY CeremonyAssumption, NextStands DEF RowStands
<1> QED BY <1>1, StandInvariance, PTL DEF Spec, RecordsStand

(* Two authorities neither of which has jurisdiction over a person or had issued the
   person a credential never recover the person's identity, though credentials are
   issued elsewhere between the witness's co-signature and the approval. *)
THEOREM StrangersKeptOut == Spec => StrangersCannotRecover
<1> DEFINE Tied == \A r \in Requests :
       req[r].status = "PENDING" /\ req'[r].status = "APPROVED" =>
         LET i == req[r].person IN
         \/ {req[r].agency, req[r].witnessAgency} \cap tied[i] # {}
         \/ \E k \in DOMAIN credentials[i] :
              credentials[i][k] \in {req[r].agency, req[r].witnessAgency}
<1>1. IInv /\ StandInv /\ [Next]_vars => [Tied]_vars
  <2> SUFFICES ASSUME IInv, StandInv, [Next]_vars PROVE Tied
    OBVIOUS
  <2> QED BY CeremonyAssumption, NextStands DEF Untied, Tie
<1> QED BY <1>1, StandInvariance, PTL DEF Spec, StrangersCannotRecover
=============================================================================
