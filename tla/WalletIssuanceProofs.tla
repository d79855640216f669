------------------------- MODULE WalletIssuanceProofs -------------------------
(***************************************************************************)
(* Proof that an offer buys one copy, that no copy is recorded against a   *)
(* credential that has ended, and that the status lists read right, for    *)
(* any number of credentials, offers, workers and slots.                   *)
(***************************************************************************)
EXTENDS WalletIssuance, SequenceTheorems, TLAPS

ListBody == [agency : Agencies, day : Nat, valid : SUBSET Slots]

Request == [value : Nat, start : Nat, now : Nat, made : SUBSET Copy, list : SUBSET ListBody]

(* WalletTypeOK, and the types it leaves to the model's definitions. *)
Types ==
  /\ WalletTypeOK
  /\ req \in [Workers -> Request]
  /\ lists \subseteq ListToken

(* A code is its own offer; a token comes from a code that was spent for it. *)
SoundValue(v) ==
  /\ minted[v].kind = "code" => minted[v].offer = v
  /\ minted[v].kind = "token" =>
       /\ minted[v].offer \in OfKind("code") /\ minted[v].offer \in spent
       /\ minted[minted[v].offer].cred = minted[v].cred

OneTokenPerOffer ==
  \A v1, v2 \in OfKind("token") : minted[v1].offer = minted[v2].offer => v1 = v2

(* What bought a copy is spent: its code, and the token if there is one. *)
PaidFor(k) ==
  /\ k.offer \in spent
  /\ \A v \in OfKind("token") : minted[v].offer = k.offer => v \in spent

OneCopyPerSlot ==
  \A k1, k2 \in copies :
    (k1.agency = k2.agency /\ k1.day = k2.day /\ k1.slot = k2.slot) => k1 = k2

Tables ==
  /\ \A v \in DOMAIN minted : SoundValue(v)
  /\ OneTokenPerOffer
  /\ \A k \in copies : PaidFor(k)
  /\ OneCopyPerOffer
  /\ OneCopyPerSlot

(* A copy that list l speaks of. *)
On(k, l) == k.agency = l.agency /\ k.day = l.day /\ k.slot \in l.valid

(* Every slot a list calls valid is the slot of a copy on record. *)
Backed(l) ==
  \A s \in l.valid : \E k \in copies : k.agency = l.agency /\ k.day = l.day /\ k.slot = s

(* A request that has paid has a token of its own that bought nothing yet; one
   that holds the share lock sees an ACTIVE credential nobody is updating; one
   that signs has its copy on record; one that signs a list read it no earlier
   than it started. *)
Paid == {"lock", "record"}

SoundRequest(w) ==
  /\ pc[w] = "spend_token" => req[w].value \in OfKind("token")
  /\ pc[w] \in Paid =>
       /\ req[w].value \in OfKind("token") /\ req[w].value \in spent
       /\ \A k \in copies : k.offer # minted[req[w].value].offer
  /\ pc[w] = "record" => status[CredOf(w)] = "ACTIVE" /\ CredOf(w) \notin updating
  /\ pc[w] = "sign" => req[w].made \subseteq copies
  /\ pc[w] = "sign_list" =>
       /\ req[w].start <= clock
       /\ \A l \in req[w].list :
            /\ Backed(l)
            /\ \A k \in copies :
                 (On(k, l) /\ status[k.cred] = "ENDED") => req[w].start <= endedAt[k.cred]

OwnValues ==
  \A w, x \in Workers :
    (pc[w] \in Paid /\ pc[x] \in Paid /\ req[w].value = req[x].value) => w = x

(* The inductive invariant. *)
WalletInv ==
  /\ Types
  /\ Tables
  /\ \A w \in Workers : SoundRequest(w)
  /\ OwnValues
  /\ \A l \in lists : Backed(l)
  /\ ListsAreRecent

-----------------------------------------------------------------------------
(* Facts of the operators *)

(* The day of a time is a number. *)
LEMMA DayType ==
  ASSUME NEW n \in Nat, NEW d \in Nat \ {0}
  PROVE  n \div d \in Nat
OBVIOUS

(* No request is a request. *)
LEMMA NoReqType == NoReq \in Request
BY DEF NoReq, Request

(* What the invariant says of the tables' types. *)
LEMMA TableTypes ==
  ASSUME WalletInv
  PROVE  /\ minted \in Seq(Value) /\ DOMAIN minted = 1..Len(minted) /\ Len(minted) \in Nat
         /\ spent \subseteq DOMAIN minted /\ copies \subseteq Copy /\ held \subseteq copies
         /\ lists \subseteq ListToken /\ clock \in Nat
         /\ status \in [Credentials -> {"ACTIVE", "ENDED"}] /\ endedAt \in [Credentials -> Nat]
         /\ req \in [Workers -> Request]
         /\ pc \in [Workers -> {"idle", "spend_token", "lock", "record", "sign", "sign_list"}]
         /\ \A v \in DOMAIN minted : minted[v] \in Value
BY DEF WalletInv, Types, WalletTypeOK

(* A value of one kind was minted. *)
LEMMA KindMinted ==
  ASSUME NEW kind, NEW v \in OfKind(kind)
  PROVE  v \in DOMAIN minted /\ minted[v].kind = kind
BY DEF OfKind

-----------------------------------------------------------------------------
(* What steps leave alone *)

(* Spending more keeps the tables sound. *)
LEMMA SpendingKeepsTables ==
  ASSUME WalletInv, UNCHANGED <<minted, copies>>, spent \subseteq spent'
  PROVE  Tables'
<1>1. \A v \in DOMAIN minted : SoundValue(v)'
  BY DEF WalletInv, Tables, SoundValue, OfKind
<1>2. \A k \in copies : PaidFor(k)'
  BY DEF WalletInv, Tables, PaidFor, OfKind
<1> QED BY <1>1, <1>2 DEF WalletInv, Tables, OneTokenPerOffer, OneCopyPerOffer, OneCopyPerSlot, OfKind

(* A request that does not move stays sound while the tables it reads are the same. *)
LEMMA RequestWaits ==
  ASSUME WalletInv, NEW x \in Workers, pc'[x] = pc[x], req'[x] = req[x],
         UNCHANGED <<minted, copies, creds>>, spent \subseteq spent',
         clock' \in Nat, clock' >= clock
  PROVE  SoundRequest(x)'
<1>1. SoundRequest(x) /\ clock \in Nat /\ req[x].start \in Nat
  BY TableTypes DEF WalletInv, Request
<1> QED BY <1>1 DEF SoundRequest, OfKind, CredOf, Backed, creds

(* Only worker w moves. *)
OnlyMoves(w) == \A x \in Workers : x # w => pc'[x] = pc[x] /\ req'[x] = req[x]

Labels == {"idle", "spend_token", "lock", "record", "sign", "sign_list"}

(* A step of one worker that leaves credentials, values, copies and lists alone
   keeps the invariant if these hold of it. *)
LEMMA WorkerStep ==
  ASSUME WalletInv, NEW w \in Workers, OnlyMoves(w),
         UNCHANGED <<minted, copies, creds, clock>>,
         spent \subseteq spent', spent' \subseteq DOMAIN minted,
         held' \subseteq copies,
         lists' \subseteq ListToken, ListsAreRecent', \A l \in lists' : Backed(l),
         \A l \in lists' : l.iat <= clock,
         pc' \in [Workers -> Labels], req' \in [Workers -> Request],
         pc'[w] \notin {"idle", "sign_list"} => req'[w].value \in DOMAIN minted,
         SoundRequest(w)',
         pc'[w] \in Paid =>
           \A x \in Workers : (x # w /\ pc[x] \in Paid) => req[x].value # req'[w].value
  PROVE  WalletInv'
<1>1. UNCHANGED <<status, endedAt, updating>> /\ clock \in Nat
  BY TableTypes DEF creds
<1>2. \A x \in Workers : pc'[x] \notin {"idle", "sign_list"} => req'[x].value \in DOMAIN minted
  BY DEF OnlyMoves, WalletInv, Types, WalletTypeOK
<1>3. Types'
  <2>1. \A l \in lists' : l.agency \in Agencies /\ l.valid \subseteq Slots /\ l.iat <= clock
    BY DEF ListToken
  <2>2. \A k \in copies : k.offer \in OfKind("code")' /\ minted[k.offer].cred = k.cred
    BY DEF WalletInv, Types, WalletTypeOK, OfKind
  <2> QED BY <1>1, <1>2, <2>1, <2>2 DEF WalletInv, Types, WalletTypeOK, Labels
<1>4. Tables'
  BY SpendingKeepsTables
<1>5. ASSUME NEW x \in Workers PROVE SoundRequest(x)'
  <2>1. CASE x = w
    BY <2>1
  <2>2. CASE x # w
    BY <1>1, <2>2, RequestWaits DEF OnlyMoves
  <2> QED BY <2>1, <2>2
<1>6. OwnValues'
  <2>1. \A x, y \in Workers : (x # w /\ y # w /\ pc'[x] \in Paid /\ pc'[y] \in Paid
                                 /\ req'[x].value = req'[y].value) => x = y
    BY DEF OnlyMoves, WalletInv, OwnValues
  <2>2. \A x \in Workers : (x # w /\ pc'[x] \in Paid /\ pc'[w] \in Paid)
                             => req'[x].value # req'[w].value
    BY DEF OnlyMoves
  <2> QED BY <2>1, <2>2, Zenon DEF OwnValues
<1>7. \A l \in lists' : Backed(l)'
  BY DEF Backed
<1> QED BY <1>3, <1>4, <1>5, <1>6, <1>7 DEF WalletInv

(* Lists that are not published anew are as good as they were. *)
LEMMA SameLists ==
  ASSUME WalletInv, UNCHANGED <<lists, copies, creds, clock>>
  PROVE  /\ lists' \subseteq ListToken /\ ListsAreRecent' /\ \A l \in lists' : Backed(l)
         /\ \A l \in lists' : l.iat <= clock
BY DEF WalletInv, Types, WalletTypeOK, ListsAreRecent, creds

(* A worker that answers is idle and holds nothing. *)
LEMMA Answered ==
  ASSUME WalletInv, NEW w \in Workers, Answer(w)
  PROVE  /\ OnlyMoves(w) /\ pc' \in [Workers -> Labels] /\ req' \in [Workers -> Request]
         /\ pc'[w] = "idle" /\ SoundRequest(w)'
<1>1. OnlyMoves(w) /\ pc' \in [Workers -> Labels] /\ req' \in [Workers -> Request] /\ pc'[w] = "idle"
  BY TableTypes, NoReqType DEF Answer, Goto, OnlyMoves, Labels
<1> QED BY <1>1 DEF SoundRequest, Paid

(* A worker that goes on. *)
LEMMA GoesOn ==
  ASSUME WalletInv, NEW w \in Workers, NEW label \in Labels, NEW r \in Request,
         pc' = [pc EXCEPT ![w] = label], req' = [req EXCEPT ![w] = r]
  PROVE  /\ OnlyMoves(w) /\ pc' \in [Workers -> Labels] /\ req' \in [Workers -> Request]
         /\ pc'[w] = label /\ req'[w] = r
BY TableTypes DEF OnlyMoves, Labels

-----------------------------------------------------------------------------
(* The wallet's requests *)

(* The request is over without an answer. *)
LEMMA DieStep ==
  ASSUME WalletInv, NEW w \in Workers, Die(w)
  PROVE  WalletInv'
<1>1. Answer(w) /\ UNCHANGED <<creds, minted, spent, copies, held, lists, clock>>
  BY DEF Die, issued
<1>2. /\ OnlyMoves(w) /\ pc' \in [Workers -> Labels] /\ req' \in [Workers -> Request]
      /\ pc'[w] = "idle" /\ SoundRequest(w)'
  BY <1>1, Answered
<1> QED BY <1>1, <1>2, SameLists, TableTypes, WorkerStep DEF Paid

(* The nonce is spent. *)
LEMMA AskStep ==
  ASSUME WalletInv, NEW w \in Workers, NEW v, NEW n, Ask(w, v, n)
  PROVE  WalletInv'
<1> DEFINE r == [[NoReq EXCEPT !.value = v] EXCEPT !.start = clock]
<1>1. /\ v \in OfKind("token") /\ n \in OfKind("nonce") /\ spent' = spent \cup {n}
      /\ pc' = [pc EXCEPT ![w] = "spend_token"] /\ req' = [req EXCEPT ![w] = r]
      /\ UNCHANGED <<creds, minted, copies, held, lists, clock>>
  BY DEF Ask, Opens, Spend, Arrive
<1>2. v \in DOMAIN minted /\ n \in DOMAIN minted /\ v \in Nat /\ clock \in Nat
  BY <1>1, KindMinted, TableTypes
<1>3. r \in Request /\ r.value = v
  BY <1>2, NoReqType DEF Request
<1> HIDE DEF r
<1>4. /\ OnlyMoves(w) /\ pc' \in [Workers -> Labels] /\ req' \in [Workers -> Request]
      /\ pc'[w] = "spend_token" /\ req'[w] = r
  BY <1>1, <1>3, GoesOn DEF Labels
<1>5. SoundRequest(w)'
  BY <1>1, <1>3, <1>4 DEF SoundRequest, OfKind, Paid
<1>6. spent \subseteq spent' /\ spent' \subseteq DOMAIN minted /\ held' \subseteq copies
  BY <1>1, <1>2, TableTypes
<1> QED BY <1>1, <1>2, <1>3, <1>4, <1>5, <1>6, SameLists, WorkerStep DEF Paid

(* The token is spent, and nothing was bought with it before. *)
LEMMA SpendTokenStep ==
  ASSUME WalletInv, NEW w \in Workers, SpendToken(w)
  PROVE  WalletInv'
<1> DEFINE v == req[w].value
<1>1. pc[w] = "spend_token" /\ UNCHANGED <<creds, minted, copies, held, lists, clock>>
  BY DEF SpendToken
<1>2. v \in OfKind("token") /\ v \in DOMAIN minted /\ req[w] \in Request /\ clock \in Nat
  BY <1>1, KindMinted, TableTypes DEF WalletInv, SoundRequest
<1>3. CASE Answer(w) /\ UNCHANGED spent
  <2>1. /\ OnlyMoves(w) /\ pc' \in [Workers -> Labels] /\ req' \in [Workers -> Request]
        /\ pc'[w] = "idle" /\ SoundRequest(w)'
    BY <1>3, Answered
  <2> QED BY <1>1, <1>3, <2>1, SameLists, TableTypes, WorkerStep DEF Paid
<1>4. CASE Unspent(v) /\ Spend(v) /\ Goto(w, "lock") /\ req' = [req EXCEPT ![w].now = clock]
  <2> DEFINE r == [req[w] EXCEPT !.now = clock]
  <2>1. r \in Request /\ r.value = v
    BY <1>2 DEF Request
  <2>2. pc' = [pc EXCEPT ![w] = "lock"] /\ req' = [req EXCEPT ![w] = r]
    BY <1>4, TableTypes DEF Goto
  <2> HIDE DEF r
  <2>3. /\ OnlyMoves(w) /\ pc' \in [Workers -> Labels] /\ req' \in [Workers -> Request]
        /\ pc'[w] = "lock" /\ req'[w] = r
    BY <2>1, <2>2, GoesOn DEF Labels
  <2>4. \A k \in copies : k.offer # minted[v].offer
    BY <1>2, <1>4 DEF WalletInv, Tables, PaidFor, Unspent
  <2>5. SoundRequest(w)'
    BY <1>1, <1>2, <1>4, <2>1, <2>3, <2>4 DEF SoundRequest, OfKind, Paid, Spend
  <2>6. \A x \in Workers : pc[x] \in Paid => req[x].value # v
    BY <1>4 DEF WalletInv, SoundRequest, Unspent
  <2>7. spent \subseteq spent' /\ spent' \subseteq DOMAIN minted /\ held' \subseteq copies
    BY <1>1, <1>2, <1>4, TableTypes DEF Spend
  <2> QED BY <1>1, <1>2, <2>1, <2>3, <2>5, <2>6, <2>7, SameLists, WorkerStep
<1> QED BY <1>3, <1>4 DEF SpendToken

(* The share lock: the credential is ACTIVE and nobody is updating it. *)
LEMMA LockCredentialStep ==
  ASSUME WalletInv, NEW w \in Workers, LockCredential(w)
  PROVE  WalletInv'
<1>1. /\ pc[w] = "lock" /\ CredOf(w) \notin updating
      /\ UNCHANGED <<creds, minted, spent, copies, held, lists, clock>>
  BY DEF LockCredential, issued
<1>2. CASE Answer(w)
  <2>1. /\ OnlyMoves(w) /\ pc' \in [Workers -> Labels] /\ req' \in [Workers -> Request]
        /\ pc'[w] = "idle" /\ SoundRequest(w)'
    BY <1>2, Answered
  <2> QED BY <1>1, <2>1, SameLists, TableTypes, WorkerStep DEF Paid
<1>3. CASE status[CredOf(w)] = "ACTIVE" /\ Goto(w, "record") /\ UNCHANGED req
  <2>1. OnlyMoves(w) /\ pc' \in [Workers -> Labels] /\ pc'[w] = "record"
    BY <1>3, TableTypes DEF Goto, OnlyMoves, Labels
  <2>2. SoundRequest(w) /\ pc[w] \in Paid
    BY <1>1 DEF WalletInv, Paid
  <2>3. SoundRequest(w)'
    BY <1>1, <1>3, <2>1, <2>2 DEF SoundRequest, OfKind, CredOf, creds, Paid
  <2>4. \A x \in Workers : (x # w /\ pc[x] \in Paid) => req[x].value # req'[w].value
    BY <1>3, <2>2 DEF WalletInv, OwnValues
  <2>5. req[w].value \in DOMAIN minted
    BY <2>2, KindMinted DEF SoundRequest
  <2> QED BY <1>1, <1>3, <2>1, <2>3, <2>4, <2>5, SameLists, TableTypes, WorkerStep
<1> QED BY <1>2, <1>3 DEF LockCredential

(* The copy a request records. *)
LEMMA CopyAtType ==
  ASSUME IssuanceAssumption, WalletInv, NEW w \in Workers, NEW s \in Slots, pc[w] \in Paid
  PROVE  LET k == CopyAt(w, s)
         IN /\ k \in Copy /\ k.offer = minted[req[w].value].offer /\ k.cred = CredOf(w)
            /\ k.slot = s
            /\ k.offer \in OfKind("code") /\ k.offer \in spent /\ minted[k.offer].cred = k.cred
<1> DEFINE v == req[w].value
<1>1. v \in OfKind("token") /\ v \in DOMAIN minted /\ minted[v] \in Value /\ SoundValue(v)
  BY KindMinted, TableTypes DEF WalletInv, SoundRequest, Tables
<1>2. minted[v].kind = "token" /\ minted[v].agency \in Agencies /\ minted[v].cred \in Credentials
      /\ minted[v].offer \in Nat
  BY <1>1, KindMinted DEF Value
<1>3. /\ minted[v].offer \in OfKind("code") /\ minted[v].offer \in spent
      /\ minted[minted[v].offer].cred = minted[v].cred
  BY <1>1, <1>2 DEF SoundValue
<1>4. req[w].now \in Nat
  BY TableTypes DEF Request
<1>5. req[w].now \div DayLength \in Nat
  BY <1>4, DayType DEF IssuanceAssumption
<1>6. ExpiryFor(w) \in Nat
  BY <1>2, <1>4 DEF ExpiryFor, Least, CredOf, IssuanceAssumption
<1> QED BY <1>2, <1>3, <1>5, <1>6 DEF CopyAt, Copy, CredOf

(* The copy goes on record: in a slot of its own, for an offer that has no copy
   yet, while the share lock keeps its credential ACTIVE. *)
LEMMA RecordCopyStep ==
  ASSUME IssuanceAssumption, WalletInv, NEW w \in Workers, RecordCopy(w)
  PROVE  WalletInv'
<1>1. pc[w] = "record" /\ UNCHANGED <<creds, minted, spent, held, lists, clock>>
  BY DEF RecordCopy
<1>2. PICK s \in Slots : Draw(w, s) /\ copies' = copies \cup {CopyAt(w, s)}
  BY DEF RecordCopy
<1>3. PICK new : new = CopyAt(w, s)
  OBVIOUS
<1>4. /\ new \in Copy /\ new.offer = minted[req[w].value].offer /\ new.cred = CredOf(w)
      /\ new.slot = s
      /\ new.offer \in OfKind("code") /\ new.offer \in spent /\ minted[new.offer].cred = new.cred
  BY <1>1, <1>3, CopyAtType DEF Paid
<1>5. /\ copies' = copies \cup {new} /\ s \in FreeSlots(new.agency, new.day)
      /\ pc' = [pc EXCEPT ![w] = "sign"] /\ req' = [req EXCEPT ![w].made = {new}]
  BY <1>2, <1>3 DEF Draw, Goto
<1>6. UNCHANGED <<status, endedAt, updating>>
  BY <1>1 DEF creds
<1>7. /\ req[w].value \in OfKind("token") /\ req[w].value \in spent
      /\ \A k \in copies : k.offer # new.offer
      /\ status[new.cred] = "ACTIVE"
  BY <1>1, <1>4 DEF WalletInv, SoundRequest, Paid
<1>8. \A k \in copies : ~(k.agency = new.agency /\ k.day = new.day /\ k.slot = new.slot)
  BY <1>4, <1>5 DEF FreeSlots, InList
<1>9. \A l : Backed(l) => Backed(l)' /\ ~On(new, l)
  <2> SUFFICES ASSUME NEW l, Backed(l) PROVE Backed(l)' /\ ~On(new, l)
    OBVIOUS
  <2>1. Backed(l)'
    BY <1>5 DEF Backed
  <2>2. ~On(new, l)
    BY <1>4, <1>8 DEF Backed, On
  <2> QED BY <2>1, <2>2
<1>10. /\ OnlyMoves(w) /\ pc' \in [Workers -> Labels] /\ pc'[w] = "sign"
       /\ req' \in [Workers -> Request] /\ req'[w].made = {new}
       /\ req'[w].value = req[w].value
  <2> DEFINE r == [req[w] EXCEPT !.made = {new}]
  <2>0. req[w] \in Request /\ {new} \in SUBSET Copy
    BY <1>4, TableTypes
  <2>1. r \in Request /\ r.made = {new} /\ r.value = req[w].value
    BY <2>0 DEF Request
  <2>2. req' = [req EXCEPT ![w] = r]
    BY <1>5, TableTypes
  <2> HIDE DEF r
  <2> QED BY <1>5, <2>1, <2>2, GoesOn DEF Labels
<1>11. Types'
  <2>1. \A k \in copies' : k.offer \in OfKind("code")' /\ minted'[k.offer].cred = k.cred
    BY <1>1, <1>4, <1>5 DEF WalletInv, Types, WalletTypeOK, OfKind
  <2>2. \A x \in Workers : pc'[x] \notin {"idle", "sign_list"} => req'[x].value \in DOMAIN minted
    BY <1>7, <1>10, KindMinted DEF OnlyMoves, WalletInv, Types, WalletTypeOK
  <2>3. copies' \subseteq Copy /\ held' \subseteq copies'
    BY <1>1, <1>4, <1>5, TableTypes
  <2> QED BY <1>1, <1>6, <1>10, <2>1, <2>2, <2>3 DEF WalletInv, Types, WalletTypeOK, Labels
<1>12. Tables'
  <2>1. \A v \in DOMAIN minted' : SoundValue(v)'
    BY <1>1 DEF WalletInv, Tables, SoundValue, OfKind
  <2>2. OneTokenPerOffer'
    BY <1>1 DEF WalletInv, Tables, OneTokenPerOffer, OfKind
  <2>3. ASSUME NEW k \in copies' PROVE PaidFor(k)'
    <3>1. CASE k \in copies
      BY <1>1, <3>1 DEF WalletInv, Tables, PaidFor, OfKind
    <3>2. CASE k = new
      <4>1. \A v \in OfKind("token") : minted[v].offer = new.offer => v = req[w].value
        BY <1>4, <1>7 DEF WalletInv, Tables, OneTokenPerOffer
      <4> QED BY <1>1, <1>4, <1>7, <3>2, <4>1 DEF PaidFor, OfKind
    <3> QED BY <1>5, <3>1, <3>2
  <2>4. OneCopyPerOffer'
    BY <1>5, <1>7 DEF WalletInv, Tables, OneCopyPerOffer
  <2>5. OneCopyPerSlot'
    BY <1>5, <1>8 DEF WalletInv, Tables, OneCopyPerSlot
  <2> QED BY <2>1, <2>2, <2>3, <2>4, <2>5 DEF Tables
<1>13. ASSUME NEW x \in Workers PROVE SoundRequest(x)'
  <2>1. CASE x = w
    BY <1>5, <1>10, <2>1 DEF SoundRequest, Paid
  <2>2. CASE x # w
    <3>1. SoundRequest(x) /\ pc'[x] = pc[x] /\ req'[x] = req[x]
      BY <1>10, <2>2 DEF WalletInv, OnlyMoves
    <3>2. ASSUME pc[x] \in Paid PROVE minted[req[x].value].offer # new.offer
      <4>1. req[x].value # req[w].value
        BY <1>1, <2>2, <3>2 DEF WalletInv, OwnValues, Paid
      <4>2. req[x].value \in OfKind("token")
        BY <3>1, <3>2 DEF SoundRequest
      <4> QED BY <1>4, <1>7, <4>1, <4>2 DEF WalletInv, Tables, OneTokenPerOffer
    <3>3. ASSUME pc[x] = "sign_list", NEW l \in req[x].list
          PROVE  /\ Backed(l)'
                 /\ \A k \in copies' : (On(k, l) /\ status[k.cred] = "ENDED")
                                         => req[x].start <= endedAt[k.cred]
      BY <1>5, <1>9, <3>1, <3>3 DEF SoundRequest
    <3>4. /\ pc[x] \in Paid => /\ req[x].value \in OfKind("token")' /\ req[x].value \in spent'
                               /\ \A k \in copies' : k.offer # minted'[req[x].value].offer
          /\ pc[x] = "sign" => req[x].made \subseteq copies'
          /\ pc[x] = "spend_token" => req[x].value \in OfKind("token")'
          /\ pc[x] = "record" => status'[CredOf(x)'] = "ACTIVE" /\ CredOf(x)' \notin updating'
          /\ pc[x] = "sign_list" => req[x].start <= clock'
      BY <1>1, <1>5, <1>6, <3>1, <3>2 DEF SoundRequest, OfKind, CredOf
    <3> QED BY <1>6, <3>1, <3>3, <3>4 DEF SoundRequest
  <2> QED BY <2>1, <2>2
<1>14. OwnValues'
  BY <1>10 DEF WalletInv, OwnValues, OnlyMoves, Paid
<1>15. \A l \in lists' : Backed(l)'
  BY <1>1, <1>9 DEF WalletInv
<1>16. ListsAreRecent'
  <2> SUFFICES ASSUME NEW l \in lists', NEW k \in copies', On(k, l), status'[k.cred] = "ENDED"
               PROVE  l.iat <= endedAt'[k.cred] + Timeout
    BY DEF ListsAreRecent, On
  <2>1. k \in copies /\ l \in lists
    BY <1>1, <1>5, <1>9 DEF WalletInv
  <2> QED BY <1>6, <2>1 DEF WalletInv, ListsAreRecent, On
<1> QED BY <1>11, <1>12, <1>13, <1>14, <1>15, <1>16 DEF WalletInv

(* The copy is signed from the record. *)
LEMMA SignCopyStep ==
  ASSUME WalletInv, NEW w \in Workers, SignCopy(w)
  PROVE  WalletInv'
<1>1. /\ pc[w] = "sign" /\ held' = held \cup req[w].made /\ Answer(w)
      /\ UNCHANGED <<creds, minted, spent, copies, lists, clock>>
  BY DEF SignCopy
<1>2. held' \subseteq copies
  BY <1>1, TableTypes DEF WalletInv, SoundRequest
<1>3. /\ OnlyMoves(w) /\ pc' \in [Workers -> Labels] /\ req' \in [Workers -> Request]
      /\ pc'[w] = "idle" /\ SoundRequest(w)'
  BY <1>1, Answered
<1> QED BY <1>1, <1>2, <1>3, SameLists, TableTypes, WorkerStep DEF Paid

-----------------------------------------------------------------------------
(* The status lists *)

(* A slot that reads as valid is the slot of one copy, and that copy's credential
   is ACTIVE. *)
LEMMA ValidMeansActive ==
  ASSUME WalletInv, NEW a, NEW d, NEW k \in copies, k.agency = a, k.day = d
  PROVE  k.slot \in ValidIndexes(a, d) <=> status[k.cred] = "ACTIVE" /\ clock < k.expires
<1>1. \A o \in copies : (o.agency = a /\ o.day = d /\ o.slot = k.slot) => o = k
  BY DEF WalletInv, Tables, OneCopyPerSlot
<1> QED BY <1>1 DEF ValidIndexes, InList

(* The record is read for a list. *)
LEMMA FetchListStep ==
  ASSUME WalletInv, NEW w \in Workers, NEW a \in Agencies, NEW d \in Nat,
         FetchList(w, a, d)
  PROVE  WalletInv'
<1>0. PICK body : body = [agency |-> a, day |-> d, valid |-> ValidIndexes(a, d)]
  OBVIOUS
<1> DEFINE r == [[NoReq EXCEPT !.list = {body}] EXCEPT !.start = clock]
<1>1. /\ pc' = [pc EXCEPT ![w] = "sign_list"] /\ req' = [req EXCEPT ![w] = r]
      /\ UNCHANGED <<creds, minted, spent, copies, held, lists, clock>>
  BY <1>0 DEF FetchList, Arrive, issued
<1>2. ValidIndexes(a, d) \subseteq Slots /\ clock \in Nat
  BY TableTypes DEF ValidIndexes, InList, Copy
<1>3. body \in ListBody /\ body.agency = a /\ body.day = d /\ body.valid = ValidIndexes(a, d)
  BY <1>0, <1>2 DEF ListBody
<1>4. Backed(body)
  BY <1>3 DEF Backed, ValidIndexes, InList
<1>5. \A k \in copies : On(k, body) => status[k.cred] # "ENDED"
  BY <1>3, ValidMeansActive DEF On
<1>6. r \in Request /\ r.list = {body} /\ r.start = clock
  BY <1>2, <1>3, NoReqType DEF Request
<1> HIDE DEF r
<1>7. /\ OnlyMoves(w) /\ pc' \in [Workers -> Labels] /\ req' \in [Workers -> Request]
      /\ pc'[w] = "sign_list" /\ req'[w] = r
  BY <1>1, <1>6, GoesOn DEF Labels
<1>8. UNCHANGED <<status, endedAt, updating>>
  BY <1>1 DEF creds
<1>9. SoundRequest(w)'
  <2>1. Backed(body)'
    BY <1>1, <1>4 DEF Backed
  <2> QED BY <1>1, <1>2, <1>5, <1>6, <1>7, <1>8, <2>1 DEF SoundRequest, Paid
<1> QED BY <1>1, <1>7, <1>9, SameLists, TableTypes, WorkerStep DEF Paid

(* The list is signed, within Timeout of the request that read it. *)
LEMMA SignListStep ==
  ASSUME IssuanceAssumption, WalletInv, NEW w \in Workers, InTime(w), SignList(w)
  PROVE  WalletInv'
<1> DEFINE new == {[agency |-> l.agency, day |-> l.day, valid |-> l.valid, iat |-> clock] :
                     l \in req[w].list}
<1>1. /\ pc[w] = "sign_list" /\ lists' = lists \cup new /\ Answer(w)
      /\ UNCHANGED <<creds, minted, spent, copies, held, clock>>
  BY DEF SignList
<1>2. /\ req[w] \in Request /\ clock \in Nat /\ Timeout \in Nat /\ clock <= req[w].start + Timeout
      /\ req[w].start \in Nat /\ req[w].list \subseteq ListBody
  BY TableTypes DEF IssuanceAssumption, InTime, Request
<1>3. ASSUME NEW l \in new
      PROVE  /\ l \in ListToken /\ l.iat = clock /\ Backed(l)
             /\ \A k \in copies : (On(k, l) /\ status[k.cred] = "ENDED")
                                    => l.iat <= endedAt[k.cred] + Timeout
  <2>1. PICK b \in req[w].list :
          l = [agency |-> b.agency, day |-> b.day, valid |-> b.valid, iat |-> clock]
    OBVIOUS
  <2>2. l \in ListToken /\ l.iat = clock /\ l.agency = b.agency /\ l.day = b.day /\ l.valid = b.valid
    BY <1>2, <2>1 DEF ListBody, ListToken
  <2>3. /\ Backed(b)
        /\ \A k \in copies : (On(k, b) /\ status[k.cred] = "ENDED")
                               => req[w].start <= endedAt[k.cred]
    BY <1>1 DEF WalletInv, SoundRequest
  <2>4. Backed(l)
    BY <2>2, <2>3 DEF Backed
  <2>5. ASSUME NEW k \in copies, On(k, l), status[k.cred] = "ENDED"
        PROVE  l.iat <= endedAt[k.cred] + Timeout
    <3>1. req[w].start <= endedAt[k.cred]
      BY <2>2, <2>3, <2>5 DEF On
    <3>2. endedAt[k.cred] \in Nat
      BY TableTypes DEF Copy
    <3> QED BY <1>2, <2>2, <3>1, <3>2
  <2> QED BY <2>2, <2>4, <2>5
<1> HIDE DEF new
<1>4. UNCHANGED <<status, endedAt, updating>>
  BY <1>1 DEF creds
<1>5. /\ lists' \subseteq ListToken /\ \A l \in lists' : Backed(l)
      /\ \A l \in lists' : l.iat <= clock
  BY <1>1, <1>2, <1>3, TableTypes DEF WalletInv, Types, WalletTypeOK
<1>6. ListsAreRecent'
  BY <1>1, <1>3, <1>4 DEF ListsAreRecent, WalletInv, On
<1>7. /\ OnlyMoves(w) /\ pc' \in [Workers -> Labels] /\ req' \in [Workers -> Request]
      /\ pc'[w] = "idle" /\ SoundRequest(w)'
  BY <1>1, Answered
<1> QED BY <1>1, <1>5, <1>6, <1>7, TableTypes, WorkerStep DEF Paid

-----------------------------------------------------------------------------
(* The credential ends, and time passes *)

(* A step of a status change: the tables and requests stand. *)
LEMMA CredentialStep ==
  ASSUME WalletInv, UNCHANGED <<issued, busy, clock>>,
         status' \in [Credentials -> {"ACTIVE", "ENDED"}], endedAt' \in [Credentials -> Nat],
         updating' \subseteq {c \in Credentials : status'[c] = "ACTIVE"},
         \A w \in Workers : pc[w] = "record" =>
           status'[CredOf(w)] = "ACTIVE" /\ CredOf(w) \notin updating',
         \A c \in Credentials : status'[c] = "ENDED" =>
           \/ status[c] = "ENDED" /\ endedAt'[c] = endedAt[c]
           \/ endedAt'[c] = clock
  PROVE  WalletInv'
<1>1. UNCHANGED <<minted, spent, copies, held, lists, pc, req, clock>>
  BY DEF issued, busy
<1>2. Types'
  BY <1>1 DEF WalletInv, Types, WalletTypeOK, OfKind
<1>3. Tables'
  BY <1>1, SpendingKeepsTables
<1>4. ASSUME NEW w \in Workers PROVE SoundRequest(w)'
  <2>1. SoundRequest(w) /\ req[w].start \in Nat
    BY TableTypes DEF WalletInv, Request
  <2>2. pc[w] = "record" => (status[CredOf(w)] = "ACTIVE" /\ CredOf(w) \notin updating)'
    BY <1>1 DEF CredOf
  <2>3. ASSUME pc[w] = "sign_list", NEW l \in req[w].list, NEW k \in copies, On(k, l),
               status'[k.cred] = "ENDED"
        PROVE  req[w].start <= endedAt'[k.cred]
    <3>1. k.cred \in Credentials
      BY TableTypes DEF Copy
    <3> QED BY <2>1, <2>3, <3>1 DEF SoundRequest
  <2>4. \A l : Backed(l)' <=> Backed(l)
    BY <1>1 DEF Backed
  <2> QED BY <1>1, <2>1, <2>2, <2>3, <2>4 DEF SoundRequest, OfKind
<1>5. OwnValues' /\ \A l \in lists' : Backed(l)'
  BY <1>1 DEF WalletInv, OwnValues, Backed
<1>6. ASSUME IssuanceAssumption PROVE ListsAreRecent'
  <2> SUFFICES ASSUME NEW l \in lists, NEW k \in copies, k.agency = l.agency, k.day = l.day,
                      k.slot \in l.valid, status'[k.cred] = "ENDED"
               PROVE  l.iat <= endedAt'[k.cred] + Timeout
    BY <1>1 DEF ListsAreRecent
  <2>1. /\ k.cred \in Credentials /\ l.iat \in Nat /\ l.iat <= clock /\ clock \in Nat
        /\ Timeout \in Nat
    BY <1>6, TableTypes DEF Copy, ListToken, WalletInv, Types, WalletTypeOK, IssuanceAssumption
  <2>2. CASE status[k.cred] = "ENDED" /\ endedAt'[k.cred] = endedAt[k.cred]
    BY <2>2 DEF WalletInv, ListsAreRecent
  <2>3. CASE endedAt'[k.cred] = clock
    BY <2>1, <2>3
  <2> QED BY <2>1, <2>2, <2>3
<1> QED BY <1>2, <1>3, <1>4, <1>5, <1>6, IssuanceAssumption DEF WalletInv

(* The update waits for the share locks, and commits or rolls back. *)
LEMMA WithdrawalStep ==
  ASSUME WalletInv, NEW c \in Credentials, Withdrawal(c)
  PROVE  WalletInv'
<1>1. /\ status \in [Credentials -> {"ACTIVE", "ENDED"}] /\ endedAt \in [Credentials -> Nat]
      /\ updating \subseteq {x \in Credentials : status[x] = "ACTIVE"} /\ clock \in Nat
      /\ \A w \in Workers : pc[w] = "record" =>
           status[CredOf(w)] = "ACTIVE" /\ CredOf(w) \notin updating
  BY DEF WalletInv, Types, WalletTypeOK, SoundRequest
<1>2. CASE Withdraw(c)
  <2>1. \A w \in Workers : pc[w] = "record" => CredOf(w) # c
    BY <1>2 DEF Withdraw, Sharers
  <2> QED BY <1>1, <1>2, <2>1, CredentialStep DEF Withdraw
<1>3. CASE CommitWithdrawal(c)
  <2>1. /\ UNCHANGED <<issued, busy, clock>> /\ updating' = updating \ {c} /\ c \in updating
        /\ status' = [status EXCEPT ![c] = "ENDED"] /\ endedAt' = [endedAt EXCEPT ![c] = clock]
    BY <1>3 DEF CommitWithdrawal
  <2>2. /\ status' \in [Credentials -> {"ACTIVE", "ENDED"}] /\ endedAt' \in [Credentials -> Nat]
        /\ updating' \subseteq {x \in Credentials : status'[x] = "ACTIVE"}
    BY <1>1, <2>1
  <2>3. \A x \in Credentials : status'[x] = IF x = c THEN "ENDED" ELSE status[x]
    BY <1>1, <2>1
  <2>4. \A w \in Workers : pc[w] = "record" =>
          status'[CredOf(w)] = "ACTIVE" /\ CredOf(w) \notin updating'
    <3> SUFFICES ASSUME NEW w \in Workers, pc[w] = "record"
                 PROVE  status'[CredOf(w)] = "ACTIVE" /\ CredOf(w) \notin updating'
      OBVIOUS
    <3>1. status[CredOf(w)] = "ACTIVE" /\ CredOf(w) \notin updating
      BY <1>1
    <3>2. CredOf(w) # c
      BY <2>1, <3>1
    <3>3. CredOf(w) \in Credentials
      BY TableTypes, KindMinted DEF WalletInv, SoundRequest, Paid, CredOf, Value
    <3> QED BY <2>1, <2>3, <3>1, <3>2, <3>3
  <2>5. \A x \in Credentials : status'[x] = "ENDED" =>
          (status[x] = "ENDED" /\ endedAt'[x] = endedAt[x]) \/ endedAt'[x] = clock
    BY <1>1, <2>1, <2>3
  <2> QED BY <2>1, <2>2, <2>4, <2>5, CredentialStep
<1>4. CASE AbortWithdrawal(c)
  BY <1>1, <1>4, CredentialStep DEF AbortWithdrawal
<1> QED BY <1>2, <1>3, <1>4 DEF Withdrawal

(* Time passes, or nothing does. *)
LEMMA TickStep ==
  ASSUME WalletInv, Tick \/ UNCHANGED walletVars
  PROVE  WalletInv'
<1>1. /\ clock \in Nat /\ clock' \in Nat /\ clock' >= clock
      /\ UNCHANGED <<creds, status, endedAt, updating, minted, spent, copies, held, lists, pc, req>>
  BY TableTypes DEF Tick, walletVars, creds, issued, busy
<1>2. \A l \in lists : l.iat <= clock'
  <2>1. \A l \in lists : l.iat \in Nat /\ l.iat <= clock
    BY TableTypes DEF ListToken, WalletInv, Types, WalletTypeOK
  <2> QED BY <1>1, <2>1
<1>3. Types'
  BY <1>1, <1>2 DEF WalletInv, Types, WalletTypeOK, OfKind
<1>4. Tables'
  BY <1>1, SpendingKeepsTables
<1>5. \A w \in Workers : SoundRequest(w)'
  BY <1>1, RequestWaits
<1>6. OwnValues' /\ ListsAreRecent' /\ \A l \in lists' : Backed(l)'
  BY <1>1 DEF WalletInv, OwnValues, Backed, ListsAreRecent
<1> QED BY <1>3, <1>4, <1>5, <1>6 DEF WalletInv

-----------------------------------------------------------------------------
(* One-time values are minted *)

(* A new value leaves the others as they are. *)
LEMMA Minted ==
  ASSUME WalletInv, NEW new \in Value, minted' = Append(minted, new)
  PROVE  /\ minted' \in Seq(Value) /\ DOMAIN minted' = DOMAIN minted \cup {Len(minted) + 1}
         /\ Len(minted) + 1 \notin DOMAIN minted
         /\ minted'[Len(minted) + 1] = new
         /\ \A v \in DOMAIN minted : minted'[v] = minted[v]
         /\ \A kind : OfKind(kind) \subseteq OfKind(kind)'
         /\ \A kind : \A v \in OfKind(kind)' :
              v \in OfKind(kind) \/ (v = Len(minted) + 1 /\ new.kind = kind)
<1>1. /\ minted \in Seq(Value) /\ DOMAIN minted = 1..Len(minted) /\ Len(minted) \in Nat
  BY TableTypes
<1>2. /\ minted' \in Seq(Value) /\ Len(minted') = Len(minted) + 1
      /\ minted'[Len(minted) + 1] = new
      /\ \A v \in 1..Len(minted) : minted'[v] = minted[v]
  BY <1>1
<1>3. DOMAIN minted' = 1..(Len(minted) + 1)
  BY <1>2
<1>4. DOMAIN minted' = DOMAIN minted \cup {Len(minted) + 1} /\ Len(minted) + 1 \notin DOMAIN minted
  BY <1>1, <1>3
<1>5. /\ \A kind : OfKind(kind) \subseteq OfKind(kind)'
      /\ \A kind : \A v \in OfKind(kind)' :
           v \in OfKind(kind) \/ (v = Len(minted) + 1 /\ new.kind = kind)
  BY <1>1, <1>2, <1>4 DEF OfKind
<1> QED BY <1>1, <1>2, <1>4, <1>5

(* Minting a value: a code is its own offer, a token that of the code it is given
   for, which is spent with it and was not before. *)
LEMMA MintStep ==
  ASSUME WalletInv, NEW new \in Value, minted' = Append(minted, new),
         UNCHANGED <<creds, copies, held, lists, busy, clock>>,
         spent \subseteq spent', spent' \subseteq DOMAIN minted,
         new.kind = "code" => new.offer = Len(minted) + 1,
         new.kind = "token" => /\ new.offer \in OfKind("code") /\ new.offer \in spent'
                               /\ new.offer \notin spent
                               /\ minted[new.offer].cred = new.cred
  PROVE  WalletInv'
<1> DEFINE n == Len(minted) + 1
<1>1. /\ minted' \in Seq(Value) /\ DOMAIN minted' = DOMAIN minted \cup {n} /\ n \notin DOMAIN minted
      /\ minted'[n] = new /\ \A v \in DOMAIN minted : minted'[v] = minted[v]
  BY Minted
<1>2. /\ \A kind : OfKind(kind) \subseteq OfKind(kind)'
      /\ \A kind : \A v \in OfKind(kind)' : v \in OfKind(kind) \/ (v = n /\ new.kind = kind)
  BY Minted
<1>3. UNCHANGED <<status, endedAt, updating, pc, req>>
  BY DEF creds, busy
<1> HIDE DEF n
<1>4. Types'
  <2>1. \A k \in copies : k.offer \in OfKind("code")' /\ minted'[k.offer].cred = k.cred
    BY <1>1, <1>2, KindMinted DEF WalletInv, Types, WalletTypeOK
  <2> QED BY <1>1, <1>3, <2>1 DEF WalletInv, Types, WalletTypeOK
<1>5. Tables'
  <2>1. ASSUME NEW v \in DOMAIN minted' PROVE SoundValue(v)'
    <3>1. CASE v \in DOMAIN minted
      <4>1. SoundValue(v) /\ minted'[v] = minted[v]
        BY <1>1, <3>1 DEF WalletInv, Tables
      <4>2. minted[v].kind = "token" =>
              /\ minted[v].offer \in OfKind("code")' /\ minted[v].offer \in spent'
              /\ minted'[minted[v].offer].cred = minted[v].cred
        BY <1>1, <1>2, <4>1, KindMinted DEF SoundValue
      <4> QED BY <4>1, <4>2 DEF SoundValue
    <3>2. CASE v = n
      <4>1. new.kind = "token" => /\ new.offer \in OfKind("code")'
                                  /\ minted'[new.offer].cred = new.cred
        BY <1>1, <1>2, KindMinted
      <4> QED BY <1>1, <3>2, <4>1 DEF SoundValue, n
    <3> QED BY <1>1, <3>1, <3>2
  <2>2. ASSUME NEW v \in OfKind("token") PROVE minted'[v].offer = minted[v].offer /\ minted[v].offer \in spent
    BY <1>1, KindMinted DEF WalletInv, Tables, SoundValue
  <2>3. OneTokenPerOffer'
    <3> SUFFICES ASSUME NEW v1 \in OfKind("token")', NEW v2 \in OfKind("token")',
                        minted'[v1].offer = minted'[v2].offer
                 PROVE  v1 = v2
      BY DEF OneTokenPerOffer
    <3>1. CASE v1 \in OfKind("token") /\ v2 \in OfKind("token")
      BY <2>2, <3>1 DEF WalletInv, Tables, OneTokenPerOffer
    <3>2. CASE v1 \notin OfKind("token") /\ v2 \in OfKind("token")
      BY <1>1, <1>2, <2>2, <3>2
    <3>3. CASE v1 \in OfKind("token") /\ v2 \notin OfKind("token")
      BY <1>1, <1>2, <2>2, <3>3
    <3>4. CASE v1 \notin OfKind("token") /\ v2 \notin OfKind("token")
      BY <1>2, <3>4
    <3> QED BY <3>1, <3>2, <3>3, <3>4
  <2>4. ASSUME NEW k \in copies PROVE PaidFor(k)'
    <3>1. PaidFor(k)
      BY DEF WalletInv, Tables
    <3> SUFFICES ASSUME NEW v \in OfKind("token")', minted'[v].offer = k.offer
                 PROVE  v \in spent'
      BY <3>1 DEF PaidFor
    <3>2. CASE v \in OfKind("token")
      BY <2>2, <3>1, <3>2 DEF PaidFor
    <3>3. CASE v = n /\ new.kind = "token"
      BY <1>1, <3>1, <3>3 DEF PaidFor
    <3> QED BY <1>2, <3>2, <3>3
  <2> QED BY <2>1, <2>3, <2>4 DEF WalletInv, Tables, OneCopyPerOffer, OneCopyPerSlot
<1>6. ASSUME NEW w \in Workers PROVE SoundRequest(w)'
  <2>1. SoundRequest(w)
    BY DEF WalletInv
  <2>2. req[w].value \in OfKind("token") =>
          /\ req[w].value \in OfKind("token")' /\ minted'[req[w].value] = minted[req[w].value]
    BY <1>1, <1>2, KindMinted
  <2>3. \A l : Backed(l)' <=> Backed(l)
    BY DEF Backed
  <2> QED BY <1>3, <2>1, <2>2, <2>3 DEF SoundRequest, CredOf, Paid
<1>7. OwnValues' /\ ListsAreRecent' /\ \A l \in lists' : Backed(l)'
  BY <1>3 DEF WalletInv, OwnValues, Backed, ListsAreRecent
<1> QED BY <1>4, <1>5, <1>6, <1>7 DEF WalletInv

(* An offer is made. *)
LEMMA OfferStep ==
  ASSUME IssuanceAssumption, WalletInv, NEW c \in Credentials, Offer(c)
  PROVE  WalletInv'
<1> DEFINE new == [kind |-> "code", agency |-> issuerOf[c], cred |-> c, born |-> clock,
                   offer |-> Len(minted) + 1]
<1>1. /\ minted' = Append(minted, new)
      /\ UNCHANGED <<creds, spent, copies, held, lists, busy, clock>>
  BY DEF Offer, Mint
<1>2. Len(minted) \in Nat /\ clock \in Nat /\ spent \subseteq DOMAIN minted /\ issuerOf[c] \in Agencies
  BY TableTypes DEF IssuanceAssumption
<1>3. new \in Value /\ new.kind = "code" /\ new.offer = Len(minted) + 1
  BY <1>2 DEF Value, Kinds
<1> HIDE DEF new
<1> QED BY <1>1, <1>2, <1>3, MintStep

(* A nonce is handed out. *)
LEMMA NonceStep ==
  ASSUME IssuanceAssumption, WalletInv, NEW a \in Agencies, Nonce(a)
  PROVE  WalletInv'
<1> DEFINE any == CHOOSE c \in Credentials : TRUE
           new == [kind |-> "nonce", agency |-> a, cred |-> any, born |-> clock, offer |-> 0]
<1>1. /\ minted' = Append(minted, new)
      /\ UNCHANGED <<creds, spent, copies, held, lists, busy, clock>>
  BY DEF Nonce, Mint
<1>2. any \in Credentials
  BY DEF IssuanceAssumption
<1> HIDE DEF any
<1>3. clock \in Nat /\ spent \subseteq DOMAIN minted
  BY TableTypes
<1>4. new \in Value /\ new.kind = "nonce"
  BY <1>2, <1>3 DEF Value, Kinds
<1> HIDE DEF new
<1> QED BY <1>1, <1>3, <1>4, MintStep

(* A code is redeemed for a token. *)
LEMMA RedeemStep ==
  ASSUME WalletInv, NEW v, Redeem(v)
  PROVE  WalletInv'
<1> DEFINE new == [minted[v] EXCEPT !.kind = "token", !.born = clock]
<1>1. /\ v \in OfKind("code") /\ v \notin spent /\ spent' = spent \cup {v}
      /\ minted' = Append(minted, new)
      /\ UNCHANGED <<creds, copies, held, lists, busy, clock>>
  BY DEF Redeem, Opens, Unspent, Spend, Mint
<1>2. /\ v \in DOMAIN minted /\ minted[v] \in Value /\ minted[v].kind = "code"
      /\ clock \in Nat /\ spent \subseteq DOMAIN minted
  BY <1>1, KindMinted, TableTypes
<1>3. minted[v].offer = v
  BY <1>2 DEF WalletInv, Tables, SoundValue
<1>4. /\ new \in Value /\ new.kind = "token" /\ new.offer = minted[v].offer
      /\ new.cred = minted[v].cred
  BY <1>2 DEF Value, Kinds
<1> HIDE DEF new
<1> QED BY <1>1, <1>2, <1>3, <1>4, MintStep

-----------------------------------------------------------------------------
(* Every step of the issuer keeps the invariant. *)
LEMMA WalletNextSound ==
  ASSUME IssuanceAssumption, WalletInv, [WalletNext]_walletVars
  PROVE  WalletInv'
<1>1. ASSUME NEW c \in Credentials, Offer(c) \/ Withdrawal(c) PROVE WalletInv'
  BY <1>1, OfferStep, WithdrawalStep
<1>2. ASSUME NEW a \in Agencies, Nonce(a) PROVE WalletInv'
  BY <1>2, NonceStep
<1>3. ASSUME NEW v \in DOMAIN minted, Redeem(v) PROVE WalletInv'
  BY <1>3, RedeemStep
<1>4. ASSUME NEW w \in Workers, Call(w) PROVE WalletInv'
  <2>1. ASSUME NEW v \in DOMAIN minted, NEW n \in DOMAIN minted, Ask(w, v, n) PROVE WalletInv'
    BY <2>1, AskStep
  <2>2. ASSUME NEW a \in Agencies, NEW d \in 0..(clock \div DayLength), FetchList(w, a, d)
        PROVE  WalletInv'
    <3>1. d \in Nat
      BY DayType, TableTypes DEF IssuanceAssumption
    <3> QED BY <2>2, <3>1, FetchListStep
  <2> QED BY <1>4, <2>1, <2>2 DEF Call
<1>5. ASSUME NEW w \in Workers, Step(w) PROVE WalletInv'
  BY <1>5, SpendTokenStep, LockCredentialStep, RecordCopyStep, SignCopyStep, SignListStep DEF Step
<1>6. ASSUME NEW w \in Workers, Die(w) PROVE WalletInv'
  BY <1>6, DieStep
<1>7. ASSUME Tick \/ UNCHANGED walletVars PROVE WalletInv'
  BY <1>7, TickStep
<1> QED BY <1>1, <1>2, <1>3, <1>4, <1>5, <1>6, <1>7 DEF WalletNext

(* Before the first offer there is nothing to be wrong about. *)
LEMMA WalletInitSound ==
  ASSUME IssuanceAssumption, WalletInit
  PROVE  WalletInv
<1>1. Types
  <2>1. minted \in Seq(Value) /\ DOMAIN minted = {}
    BY DEF WalletInit
  <2> QED BY <2>1, NoReqType DEF WalletInit, Types, WalletTypeOK
<1>2. Tables
  BY DEF WalletInit, Tables, OneTokenPerOffer, OneCopyPerOffer, OneCopyPerSlot, OfKind
<1>3. \A w \in Workers : SoundRequest(w)
  BY DEF WalletInit, SoundRequest, Paid
<1> QED BY <1>1, <1>2, <1>3 DEF WalletInit, WalletInv, OwnValues, ListsAreRecent, Paid

(* The invariant holds of every reachable state. *)
LEMMA WalletInvariance == WalletSpec => []WalletInv
<1>1. WalletInit => WalletInv
  BY WalletInitSound, IssuanceAssumption
<1>2. WalletInv /\ [WalletNext]_walletVars => WalletInv'
  BY WalletNextSound, IssuanceAssumption
<1> QED BY <1>1, <1>2, PTL DEF WalletSpec

(* The tables and the requests stay well formed: above all no spent value and no
   recorded copy refers to a value that was never minted (oid4vci_routes.py). *)
THEOREM WalletTypeCorrect == WalletSpec => []WalletTypeOK
<1>1. WalletInv => WalletTypeOK
  BY DEF WalletInv, Types
<1> QED BY <1>1, WalletInvariance, PTL

(* One offer buys one copy, however often its code, its token and a nonce are
   presented and to however many workers at once (oid4vci_token,
   oid4vci_credential). *)
THEOREM OfferBuysOnce == WalletSpec => []OneCopyPerOffer
<1>1. WalletInv => OneCopyPerOffer
  BY DEF WalletInv, Tables
<1> QED BY <1>1, WalletInvariance, PTL

(* What a wallet holds reads as valid exactly while its credential is ACTIVE and
   its own window is open (credential_copy_valid_indexes, build_copy). *)
THEOREM HeldCopiesRead == WalletSpec => []CopiesReadRight
<1>1. WalletInv => CopiesReadRight
  <2> SUFFICES ASSUME WalletInv, NEW k \in held
               PROVE  k.slot \in ValidIndexes(k.agency, k.day)
                        <=> status[k.cred] = "ACTIVE" /\ clock < k.expires
    BY DEF CopiesReadRight
  <2>1. k \in copies
    BY TableTypes
  <2> QED BY <2>1, ValidMeansActive
<1> QED BY <1>1, WalletInvariance, PTL

(* A published list that calls a copy valid is at most Timeout older than the end
   of its credential (oid4vci_status_list, status_list_token). *)
THEOREM PublishedListsRecent == WalletSpec => []ListsAreRecent
<1>1. WalletInv => ListsAreRecent
  BY DEF WalletInv
<1> QED BY <1>1, WalletInvariance, PTL

(* Only RecordCopy writes a copy. *)
LEMMA CopiesGrowByRecord ==
  ASSUME WalletInv, [WalletNext]_walletVars
  PROVE  \/ UNCHANGED copies
         \/ \E w \in Workers, s \in Slots :
              /\ pc[w] = "record" /\ copies' = copies \cup {CopyAt(w, s)} /\ UNCHANGED creds
<1>1. ASSUME NEW w \in Workers, Call(w) \/ Step(w) \/ Die(w), ~RecordCopy(w) PROVE UNCHANGED copies
  BY <1>1 DEF Call, Step, Die, Ask, FetchList, SpendToken, LockCredential, SignCopy, SignList, issued
<1>2. ASSUME NEW w \in Workers, RecordCopy(w)
      PROVE  \E s \in Slots : /\ pc[w] = "record" /\ copies' = copies \cup {CopyAt(w, s)}
                              /\ UNCHANGED creds
  BY <1>2 DEF RecordCopy
<1>3. ASSUME NEW c \in Credentials, Offer(c) \/ Withdrawal(c) PROVE UNCHANGED copies
  BY <1>3 DEF Offer, Withdrawal, Withdraw, CommitWithdrawal, AbortWithdrawal, issued
<1>4. ASSUME NEW a \in Agencies, Nonce(a) PROVE UNCHANGED copies
  BY <1>4 DEF Nonce
<1>5. ASSUME NEW v \in DOMAIN minted, Redeem(v) PROVE UNCHANGED copies
  BY <1>5 DEF Redeem
<1>6. ASSUME Tick \/ UNCHANGED walletVars PROVE UNCHANGED copies
  BY <1>6 DEF Tick, walletVars, issued
<1> QED BY <1>1, <1>2, <1>3, <1>4, <1>5, <1>6 DEF WalletNext

(* No copy is recorded against a credential whose withdrawal has committed: the
   share lock of uc_issue_credential_copy against the row lock of a status change. *)
THEOREM CopiesOfTheActive == WalletSpec => NoCopyOfTheEnded
<1> DEFINE New == \A k \in copies' \ copies : status'[k.cred] = "ACTIVE"
<1>1. ASSUME WalletInv, [WalletNext]_walletVars PROVE New
  <2>1. CASE UNCHANGED copies
    BY <2>1
  <2>2. ASSUME NEW w \in Workers, NEW s \in Slots, pc[w] = "record",
               copies' = copies \cup {CopyAt(w, s)}, UNCHANGED creds
        PROVE  New
    <3>1. status[CopyAt(w, s).cred] = "ACTIVE"
      BY <1>1, <2>2 DEF WalletInv, SoundRequest, CopyAt
    <3> QED BY <2>2, <3>1 DEF creds
  <2> QED BY <1>1, <2>1, <2>2, CopiesGrowByRecord
<1>2. WalletSpec => [][New]_walletVars
  <2> HIDE DEF New
  <2> QED BY <1>1, WalletInvariance, PTL DEF WalletSpec
<1> QED BY <1>2 DEF NoCopyOfTheEnded
=============================================================================
