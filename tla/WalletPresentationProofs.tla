----------------------- MODULE WalletPresentationProofs -----------------------
(***************************************************************************)
(* Proof that a presentation request is answered once and closed only by a *)
(* presentation the verifier accepted, and that a withdrawal reaches the   *)
(* relying party, for any number of requests, threads, wallets and copies. *)
(***************************************************************************)
EXTENDS WalletPresentation, WalletIssuanceProofs, FiniteSetTheorems

Revocations == {"not_evaluated", "unreachable", "valid"}

Verdict == [copy : Copy, revocation : Revocations, decided : Nat]

PostRecord == [pres : SUBSET Presentation, revocation : Revocations, decided : Nat]

(* The types PresentTypeOK states, and those it leaves to the model's definitions. *)
VerifierTypes ==
  /\ session \in [Requests -> {"none", "open", "answered", "expired", "gone"}]
  /\ created \in [Requests -> Nat]
  /\ results \in [Requests -> SUBSET Nat]
  /\ verdicts \in [Requests -> Seq(Verdict)]
  /\ redeemed \in [Requests -> Nat]
  /\ wire \subseteq Presentation
  /\ hpc \in [Threads -> {"idle", "resolve", "close", "result"}]
  /\ post \in [Threads -> PostRecord]

(* Threads that will store the result of request r. *)
Storing(r) == {h \in Threads : hpc[h] = "result" /\ \E p \in post[h].pres : p.req = r}

(* One answer makes one result, which is with the thread that will store it, or
   stored, or fetched, or lost. *)
SoundSession(r) ==
  /\ Len(verdicts[r]) = IF session[r] = "answered" THEN 1 ELSE 0
  /\ session[r] = "expired" => Lapsed(created[r])
  /\ redeemed[r] <= Len(verdicts[r])
  /\ results[r] # {} => session[r] = "answered" /\ redeemed[r] = 0
  /\ \A h \in Storing(r) : session[r] = "answered" /\ redeemed[r] = 0 /\ results[r] = {}
  /\ \A h1, h2 \in Storing(r) : h1 = h2

(* A status that was checked had not been withdrawn when the list was computed. *)
StatusHeld(cred, revocation, decided) ==
  revocation = "valid" =>
    /\ ListTTL > 0 /\ decided <= clock
    /\ status[cred] = "ACTIVE" \/ decided < endedAt[cred] + Timeout + ListTTL

(* A response in hand is one presentation, to a request that was made. *)
SoundPost(h) ==
  /\ hpc[h] = "idle" => post[h] = NoPost
  /\ hpc[h] # "idle" =>
       \E p \in wire :
         /\ post[h].pres = {p}
         /\ session[p.req] # "none"
         /\ StatusHeld(p.copy.cred, post[h].revocation, post[h].decided)

SoundVerdict(v) == StatusHeld(v.copy.cred, v.revocation, v.decided)

(* The inductive invariant, next to the issuer's. *)
VerifierInv ==
  /\ VerifierTypes
  /\ \A r \in Requests : SoundSession(r)
  /\ \A h \in Threads : SoundPost(h)
  /\ \A r \in Requests : \A i \in DOMAIN verdicts[r] : SoundVerdict(verdicts[r][i])
  /\ \A p \in wire : p.copy \in copies

-----------------------------------------------------------------------------
(* What the verifier sees of the issuer's steps *)

(* A credential ends once, at the time of the step that ends it; copies stay. *)
World ==
  /\ clock \in Nat /\ clock' \in Nat /\ clock' >= clock /\ copies \subseteq copies'
  /\ \A c \in Credentials :
       \/ status'[c] = status[c] /\ endedAt'[c] = endedAt[c]
       \/ status[c] = "ACTIVE" /\ endedAt'[c] = clock

(* Every step of the issuer is such a step. *)
LEMMA WalletWorld ==
  ASSUME WalletInv, [WalletNext]_walletVars
  PROVE  World
<1>1. copies \subseteq copies'
  BY CopiesGrowByRecord
<1>2. clock \in Nat /\ status \in [Credentials -> {"ACTIVE", "ENDED"}]
      /\ endedAt \in [Credentials -> Nat]
      /\ updating \subseteq {c \in Credentials : status[c] = "ACTIVE"}
  BY TableTypes DEF WalletInv, Types, WalletTypeOK
<1>3. ASSUME UNCHANGED <<creds, clock>> PROVE World
  BY <1>1, <1>2, <1>3 DEF World, creds
<1>4. ASSUME NEW c \in Credentials, Offer(c) \/ Withdrawal(c) PROVE World
  <2>1. CASE Offer(c) \/ Withdraw(c) \/ AbortWithdrawal(c)
    BY <1>1, <1>2, <2>1 DEF Offer, Withdraw, AbortWithdrawal, creds, World
  <2>2. CASE CommitWithdrawal(c)
    BY <1>1, <1>2, <2>2 DEF CommitWithdrawal, World
  <2> QED BY <1>4, <2>1, <2>2 DEF Withdrawal
<1>5. ASSUME NEW a \in Agencies, Nonce(a) PROVE World
  BY <1>3, <1>5 DEF Nonce
<1>6. ASSUME NEW v \in DOMAIN minted, Redeem(v) PROVE World
  BY <1>3, <1>6 DEF Redeem
<1>7. ASSUME NEW w \in Workers, Call(w) \/ Step(w) \/ Die(w) PROVE World
  <2>1. UNCHANGED <<creds, clock>>
    BY <1>7 DEF Call, Step, Die, Ask, FetchList, SpendToken, LockCredential, RecordCopy, SignCopy, SignList
  <2> QED BY <1>3, <2>1
<1>8. ASSUME Tick \/ UNCHANGED walletVars PROVE World
  BY <1>1, <1>2, <1>8 DEF Tick, walletVars, creds, World
<1> QED BY <1>4, <1>5, <1>6, <1>7, <1>8 DEF WalletNext

(* A status that held goes on to hold, because what ends now ends after it. *)
LEMMA StatusStillHeld ==
  ASSUME IssuanceAssumption, WalletInv, World, NEW c \in Credentials, NEW rev, NEW d \in Nat,
         StatusHeld(c, rev, d)
  PROVE  StatusHeld(c, rev, d)'
<1>1. Timeout \in Nat /\ ListTTL \in Nat /\ endedAt[c] \in Nat /\ clock \in Nat /\ clock' \in Nat
  BY TableTypes DEF IssuanceAssumption, World
<1>2. CASE status'[c] = status[c] /\ endedAt'[c] = endedAt[c]
  BY <1>1, <1>2 DEF StatusHeld, World
<1>3. CASE status[c] = "ACTIVE" /\ endedAt'[c] = clock
  BY <1>1, <1>3 DEF StatusHeld, World
<1> QED BY <1>2, <1>3 DEF World

-----------------------------------------------------------------------------
(* What steps leave alone *)

(* A request stays, or leaves the open ones as expired or lost. *)
SessionKept(r) ==
  /\ \/ session'[r] = session[r]
     \/ /\ session[r] = "open" /\ session'[r] \in {"expired", "gone"}
        /\ session'[r] = "expired" => Lapsed(created[r])
  /\ created'[r] = created[r] /\ verdicts'[r] = verdicts[r] /\ redeemed'[r] = redeemed[r]
  /\ results'[r] \subseteq results[r] /\ Storing(r)' \subseteq Storing(r)

(* A session that a step leaves as it is, or expires, is sound after it. *)
LEMMA KeptSession ==
  ASSUME PresentationAssumption, VerifierInv, World, NEW r \in Requests, SessionKept(r)
  PROVE  SoundSession(r)'
<1>1. SoundSession(r) /\ created[r] \in Nat /\ RequestTTL \in Nat /\ clock \in Nat /\ clock' \in Nat
      /\ clock' >= clock
  BY DEF VerifierInv, VerifierTypes, World, PresentationAssumption
<1>2. Lapsed(created[r]) => Lapsed(created[r])'
  BY <1>1 DEF Lapsed, SessionKept
<1>3. session'[r] = "answered" <=> session[r] = "answered"
  BY DEF SessionKept
<1>4. session'[r] = "expired" => Lapsed(created[r])'
  BY <1>1, <1>2 DEF SessionKept, SoundSession
<1>5. results'[r] # {} => results[r] # {}
  BY DEF SessionKept
<1> QED BY <1>1, <1>3, <1>4, <1>5 DEF SessionKept, SoundSession

(* A request that was made stays made. *)
MadeStays ==
  \A r \in Requests : session[r] # "none" => session'[r] # "none"

(* A response is done with, or goes on as it was decided. *)
PostKept(h) ==
  \/ hpc'[h] = "idle" /\ post'[h] = NoPost
  \/ hpc'[h] = hpc[h] /\ post'[h] = post[h]
  \/ hpc[h] # "idle" /\ hpc'[h] # "idle" /\ post'[h] = post[h]

(* A response that a step leaves alone stays sound. *)
LEMMA KeptPost ==
  ASSUME IssuanceAssumption, WalletInv, VerifierInv, World, MadeStays, wire \subseteq wire',
         NEW h \in Threads, PostKept(h)
  PROVE  SoundPost(h)'
<1>0. hpc'[h] = "idle" => post'[h] = NoPost
  BY DEF PostKept, VerifierInv, SoundPost
<1> SUFFICES ASSUME hpc'[h] # "idle" PROVE SoundPost(h)'
  BY <1>0 DEF SoundPost, NoPost
<1>1. hpc[h] # "idle" /\ post'[h] = post[h] /\ post[h] \in PostRecord
  BY DEF VerifierInv, VerifierTypes, PostKept
<1>2. PICK p \in wire :
        /\ post[h].pres = {p}
        /\ session[p.req] # "none"
        /\ StatusHeld(p.copy.cred, post[h].revocation, post[h].decided)
  BY <1>1 DEF VerifierInv, SoundPost
<1>3. p.req \in Requests /\ p.copy.cred \in Credentials
  BY DEF VerifierInv, VerifierTypes, Presentation, Copy
<1>4. post[h].decided \in Nat
  BY <1>1 DEF PostRecord
<1>5. StatusHeld(p.copy.cred, post[h].revocation, post[h].decided)'
  BY <1>1, <1>2, <1>3, <1>4, StatusStillHeld DEF StatusHeld
<1>6. session'[p.req] # "none"
  BY <1>2, <1>3 DEF MadeStays
<1> QED BY <1>1, <1>2, <1>5, <1>6 DEF SoundPost

(* Verdicts stay sound. *)
LEMMA KeptVerdicts ==
  ASSUME IssuanceAssumption, WalletInv, VerifierInv, World, NEW r \in Requests,
         verdicts'[r] = verdicts[r]
  PROVE  \A i \in DOMAIN verdicts'[r] : SoundVerdict(verdicts[r][i])'
<1> SUFFICES ASSUME NEW i \in DOMAIN verdicts[r] PROVE SoundVerdict(verdicts[r][i])'
  OBVIOUS
<1>1. verdicts[r] \in Seq(Verdict) /\ SoundVerdict(verdicts[r][i])
  BY DEF VerifierInv, VerifierTypes
<1>2. verdicts[r][i] \in Verdict
  BY <1>1
<1> DEFINE v == verdicts[r][i]
<1>3. v.copy.cred \in Credentials /\ v.decided \in Nat /\ v' = v
  BY <1>2 DEF Verdict, Copy
<1>4. StatusHeld(v.copy.cred, v.revocation, v.decided)
  BY <1>1 DEF SoundVerdict
<1>5. StatusHeld(v.copy.cred, v.revocation, v.decided)'
  BY <1>3, <1>4, StatusStillHeld DEF StatusHeld
<1> QED BY <1>1, <1>3, <1>5 DEF SoundVerdict

(* A step of the verifier leaves the issuer's world alone. *)
LEMMA VerifierWorld ==
  ASSUME WalletInv, UNCHANGED walletVars
  PROVE  /\ World /\ UNCHANGED <<status, endedAt, copies, held, lists, clock>>
         /\ \A c, rev, d : StatusHeld(c, rev, d)' <=> StatusHeld(c, rev, d)
<1>1. UNCHANGED <<status, endedAt, copies, held, lists, clock>>
  BY DEF walletVars, creds, issued
<1> QED BY <1>1, TableTypes DEF World, StatusHeld

(* Expiry touches only open requests past their lifetime, and old results. *)
LEMMA Expiry ==
  ASSUME VerifierInv, NEW r \in Requests
  PROVE  /\ \/ Sessions[r] = session[r]
            \/ session[r] = "open" /\ Sessions[r] = "expired" /\ Lapsed(created[r])
         /\ Results[r] \subseteq results[r]
         /\ Sessions[r] = "open" => session[r] = "open" /\ ~Lapsed(created[r])
BY DEF Sessions, Results

(* The types of what expiry leaves. *)
LEMMA ExpiryTypes ==
  ASSUME VerifierInv
  PROVE  /\ Sessions \in [Requests -> {"none", "open", "answered", "expired", "gone"}]
         /\ Results \in [Requests -> SUBSET Nat]
BY DEF Sessions, Results, VerifierInv, VerifierTypes

(* A step keeps the invariant if what it does not leave alone is sound after it. *)
LEMMA VerifierStep ==
  ASSUME IssuanceAssumption, PresentationAssumption, WalletInv, VerifierInv, World, VerifierTypes',
         MadeStays, wire \subseteq wire', \A p \in wire' : p \in wire \/ p.copy \in copies',
         \A r \in Requests : SessionKept(r) \/ SoundSession(r)',
         \A r \in Requests :
           \/ verdicts'[r] = verdicts[r]
           \/ \A i \in DOMAIN verdicts'[r] : SoundVerdict(verdicts[r][i])',
         \A h \in Threads : PostKept(h) \/ SoundPost(h)'
  PROVE  VerifierInv'
<1>1. \A r \in Requests : SoundSession(r)'
  BY KeptSession
<1>2. \A h \in Threads : SoundPost(h)'
  BY KeptPost
<1>3. ASSUME NEW r \in Requests PROVE \A i \in DOMAIN verdicts'[r] : SoundVerdict(verdicts[r][i])'
  BY <1>3, KeptVerdicts
<1>4. \A p \in wire' : p.copy \in copies'
  BY DEF VerifierInv, World
<1> QED BY <1>1, <1>2, <1>3, <1>4 DEF VerifierInv

-----------------------------------------------------------------------------
(* Steps *)

(* The issuer's steps leave the verifier alone. *)
LEMMA IssuerStep ==
  ASSUME IssuanceAssumption, PresentationAssumption, WalletInv, VerifierInv,
         [WalletNext]_walletVars, UNCHANGED <<verifier, handling, wire>>
  PROVE  VerifierInv'
<1>1. UNCHANGED <<session, created, results, verdicts, redeemed, wire, hpc, post>>
  BY DEF verifier, handling
<1>2. World
  BY WalletWorld
<1>3. VerifierTypes'
  BY <1>1 DEF VerifierInv, VerifierTypes
<1>4. \A r \in Requests : SessionKept(r)
  BY <1>1 DEF SessionKept, Storing
<1>5. MadeStays /\ \A h \in Threads : PostKept(h)
  BY <1>1 DEF MadeStays, PostKept
<1> QED BY <1>1, <1>2, <1>3, <1>4, <1>5, VerifierStep

(* Steps that change no thread and no verdict. *)
LEMMA TableStep ==
  ASSUME IssuanceAssumption, PresentationAssumption, WalletInv, VerifierInv, UNCHANGED walletVars,
         UNCHANGED <<verdicts, handling>>, MadeStays,
         session' \in [Requests -> {"none", "open", "answered", "expired", "gone"}],
         created' \in [Requests -> Nat], results' \in [Requests -> SUBSET Nat],
         redeemed' \in [Requests -> Nat],
         wire \subseteq wire', wire' \subseteq Presentation,
         \A p \in wire' : p \in wire \/ p.copy \in copies,
         \A r \in Requests : SessionKept(r) \/ SoundSession(r)'
  PROVE  VerifierInv'
<1>1. World /\ UNCHANGED <<copies, verdicts, hpc, post>>
  BY VerifierWorld DEF handling
<1>2. VerifierTypes'
  BY <1>1 DEF VerifierInv, VerifierTypes
<1>3. \A h \in Threads : PostKept(h)
  BY <1>1 DEF PostKept
<1> QED BY <1>1, <1>2, <1>3, VerifierStep

(* An expiry only closes sessions and drops results that are due. *)
LEMMA TouchStep ==
  ASSUME IssuanceAssumption, PresentationAssumption, WalletInv, VerifierInv, UNCHANGED walletVars, Touch
  PROVE  VerifierInv'
<1>1. session' = Sessions /\ results' = Results /\ UNCHANGED <<created, verdicts, redeemed, handling, wire, hpc, post>>
  BY DEF Touch, Expire, handling
<1>2. \A r \in Requests : SessionKept(r)
  BY <1>1, Expiry DEF SessionKept, Storing
<1>3. MadeStays
  BY <1>1, Expiry DEF MadeStays
<1> QED BY <1>1, <1>2, <1>3, ExpiryTypes, TableStep DEF VerifierInv, VerifierTypes

(* A new request opens a session of its own, with no verdict yet. *)
LEMMA NewRequestStep ==
  ASSUME IssuanceAssumption, PresentationAssumption, WalletInv, VerifierInv, UNCHANGED walletVars,
         NEW r \in Requests, NewRequest(r)
  PROVE  VerifierInv'
<1>1. /\ session[r] = "none" /\ session' = [Sessions EXCEPT ![r] = "open"] /\ results' = Results
      /\ created' = [created EXCEPT ![r] = clock]
      /\ UNCHANGED <<verdicts, redeemed, handling, wire, hpc, post>>
  BY DEF NewRequest, handling
<1>2. /\ created \in [Requests -> Nat] /\ clock \in Nat
      /\ redeemed' \in [Requests -> Nat] /\ wire' \subseteq Presentation
  BY <1>1, TableTypes DEF VerifierInv, VerifierTypes
<1>3. /\ session' \in [Requests -> {"none", "open", "answered", "expired", "gone"}]
      /\ results' \in [Requests -> SUBSET Nat] /\ created' \in [Requests -> Nat]
  BY <1>1, <1>2, ExpiryTypes
<1>4. \A x \in Requests : x # r => session'[x] = Sessions[x] /\ created'[x] = created[x]
  BY <1>1, <1>2, ExpiryTypes
<1>5. session'[r] = "open"
  BY <1>1, ExpiryTypes
<1>6. \A x \in Requests : x # r => SessionKept(x)
  BY <1>1, <1>4, Expiry DEF SessionKept, Storing
<1>7. SoundSession(r)'
  <2>1. SoundSession(r) /\ results'[r] \subseteq results[r] /\ Storing(r)' = Storing(r)
    BY <1>1, Expiry DEF VerifierInv, Storing
  <2>2. Storing(r) = {} /\ results[r] = {} /\ Len(verdicts[r]) = 0 /\ redeemed[r] <= Len(verdicts[r])
    BY <1>1, <2>1 DEF SoundSession
  <2> QED BY <1>1, <1>5, <2>1, <2>2 DEF SoundSession
<1>8. MadeStays
  BY <1>1, <1>4, Expiry DEF MadeStays
<1> QED BY <1>1, <1>2, <1>3, <1>6, <1>7, <1>8, TableStep

(* A redeemed result is gone from the store. *)
LEMMA RedeemResultStep ==
  ASSUME IssuanceAssumption, PresentationAssumption, WalletInv, VerifierInv, UNCHANGED walletVars,
         NEW r \in Requests, RedeemResult(r)
  PROVE  VerifierInv'
<1>1. /\ Results[r] # {} /\ session' = Sessions /\ results' = [Results EXCEPT ![r] = {}]
      /\ redeemed' = [redeemed EXCEPT ![r] = redeemed[r] + 1]
      /\ UNCHANGED <<created, verdicts, handling, wire, hpc, post>>
  BY DEF RedeemResult, handling
<1>2. created' \in [Requests -> Nat] /\ wire' \subseteq Presentation /\ redeemed \in [Requests -> Nat]
  BY <1>1 DEF VerifierInv, VerifierTypes
<1>3. /\ session' \in [Requests -> {"none", "open", "answered", "expired", "gone"}]
      /\ results' \in [Requests -> SUBSET Nat] /\ redeemed' \in [Requests -> Nat]
  BY <1>1, <1>2, ExpiryTypes
<1>4. \A x \in Requests : x # r => results'[x] = Results[x] /\ redeemed'[x] = redeemed[x]
  BY <1>1, <1>2, ExpiryTypes
<1>5. results'[r] = {} /\ redeemed'[r] = redeemed[r] + 1
  BY <1>1, <1>2, ExpiryTypes
<1>6. \A x \in Requests : x # r => SessionKept(x)
  BY <1>1, <1>4, Expiry DEF SessionKept, Storing
<1>7. SoundSession(r)'
  <2>1. SoundSession(r) /\ results[r] # {} /\ Storing(r)' = Storing(r)
    BY <1>1, Expiry DEF VerifierInv, Storing
  <2>2. session[r] = "answered" /\ redeemed[r] = 0 /\ Len(verdicts[r]) = 1 /\ Storing(r) = {}
    BY <2>1 DEF SoundSession
  <2>3. session'[r] = "answered"
    BY <1>1, <2>2, Expiry
  <2> QED BY <1>1, <1>5, <2>1, <2>2, <2>3 DEF SoundSession
<1>8. MadeStays
  BY <1>1, Expiry DEF MadeStays
<1> QED BY <1>1, <1>2, <1>3, <1>6, <1>7, <1>8, TableStep

(* The wallet signs a copy it holds, now, for a request of the verifier. *)
LEMMA SignStep ==
  ASSUME IssuanceAssumption, PresentationAssumption, WalletInv, VerifierInv, UNCHANGED walletVars,
         NEW r \in Requests, NEW k \in held, NEW fits \in BOOLEAN, Sign(r, k, fits)
  PROVE  VerifierInv'
<1> DEFINE new == [req |-> r, copy |-> k, iat |-> clock, fits |-> fits]
<1>1. /\ wire' = wire \cup {new}
      /\ UNCHANGED <<verdicts, handling, session, created, results, redeemed, hpc, post>>
  BY DEF Sign, verifier, handling
<1>2. new \in Presentation /\ new.copy \in copies
  BY TableTypes DEF Presentation
<1> HIDE DEF new
<1>3. wire' \subseteq Presentation /\ \A p \in wire' : p \in wire \/ p.copy \in copies
  BY <1>1, <1>2 DEF VerifierInv, VerifierTypes
<1>4. \A x \in Requests : SessionKept(x)
  BY <1>1 DEF SessionKept, Storing
<1>5. MadeStays
  BY <1>1 DEF MadeStays
<1> QED BY <1>1, <1>3, <1>4, <1>5, TableStep DEF VerifierInv, VerifierTypes

-----------------------------------------------------------------------------
(* Steps of a thread *)

OnlyThread(h) == \A x \in Threads : x # h => hpc'[x] = hpc[x] /\ post'[x] = post[x]

(* A thread that does not come to store adds no result to store. *)
LEMMA StoringShrinks ==
  ASSUME NEW h \in Threads, OnlyThread(h), hpc'[h] # "result"
  PROVE  \A r : Storing(r)' = Storing(r) \ {h}
BY DEF Storing, OnlyThread

(* An idle thread holds no post. *)
LEMMA NoPostType == NoPost \in PostRecord
BY DEF NoPost, PostRecord, Revocations

(* A thread is done. *)
LEMMA DoneThread ==
  ASSUME VerifierInv, NEW h \in Threads, Done(h)
  PROVE  /\ hpc' \in [Threads -> {"idle", "resolve", "close", "result"}]
         /\ post' \in [Threads -> PostRecord]
         /\ OnlyThread(h) /\ hpc'[h] = "idle"
         /\ \A x \in Threads : PostKept(x)
<1>1. hpc \in [Threads -> {"idle", "resolve", "close", "result"}] /\ post \in [Threads -> PostRecord]
  BY DEF VerifierInv, VerifierTypes
<1>2. hpc' = [hpc EXCEPT ![h] = "idle"] /\ post' = [post EXCEPT ![h] = NoPost]
  BY DEF Done
<1> HIDE DEF NoPost
<1>3. hpc'[h] = "idle" /\ post'[h] = NoPost /\ OnlyThread(h)
  BY <1>1, <1>2 DEF OnlyThread
<1>4. \A x \in Threads : PostKept(x)
  BY <1>3 DEF PostKept, OnlyThread
<1> QED BY <1>1, <1>2, <1>3, <1>4, NoPostType

(* A thread steps and the tables stay. *)
LEMMA HandlingStep ==
  ASSUME IssuanceAssumption, PresentationAssumption, WalletInv, VerifierInv, UNCHANGED walletVars,
         UNCHANGED <<created, verdicts, redeemed, wire>>,
         (session' = session /\ results' = results) \/ Expire,
         NEW h \in Threads, OnlyThread(h), hpc'[h] # "result",
         hpc' \in [Threads -> {"idle", "resolve", "close", "result"}],
         post' \in [Threads -> PostRecord],
         PostKept(h) \/ SoundPost(h)'
  PROVE  VerifierInv'
<1>1. World
  BY VerifierWorld
<1>2. \A r \in Requests :
        /\ \/ session'[r] = session[r]
           \/ session[r] = "open" /\ session'[r] = "expired" /\ Lapsed(created[r])
        /\ results'[r] \subseteq results[r]
  BY Expiry DEF Expire
<1>3. VerifierTypes'
  BY ExpiryTypes DEF VerifierInv, VerifierTypes, Expire
<1>4. \A r \in Requests : SessionKept(r)
  BY <1>2, StoringShrinks DEF SessionKept
<1>5. MadeStays
  BY <1>2 DEF MadeStays
<1>6. \A x \in Threads : PostKept(x) \/ SoundPost(x)'
  BY DEF OnlyThread, PostKept
<1> QED BY <1>1, <1>3, <1>4, <1>5, <1>6, VerifierStep

(* A post is taken in by an idle thread while the session is open. *)
LEMMA PostStep ==
  ASSUME IssuanceAssumption, PresentationAssumption, WalletInv, VerifierInv, UNCHANGED walletVars,
         NEW h \in Threads, NEW p \in wire, Post(h, p)
  PROVE  VerifierInv'
<1>0. PICK new : new = [post[h] EXCEPT !.pres = {p}]
  OBVIOUS
<1>1. /\ hpc[h] = "idle" /\ Sessions[p.req] = "open" /\ Expire
      /\ hpc' = [hpc EXCEPT ![h] = "resolve"]
      /\ post' = [post EXCEPT ![h] = new]
      /\ UNCHANGED <<created, verdicts, redeemed, wire>>
  BY <1>0 DEF Post
<1>2. /\ hpc \in [Threads -> {"idle", "resolve", "close", "result"}] /\ post \in [Threads -> PostRecord]
      /\ p \in Presentation /\ p.req \in Requests
  BY DEF VerifierInv, VerifierTypes, Presentation
<1>3. post[h] = NoPost
  BY <1>1 DEF VerifierInv, SoundPost
<1>4. new \in PostRecord /\ new.pres = {p} /\ new.revocation = "not_evaluated"
  <2>1. post[h] \in PostRecord
    BY <1>2
  <2>2. new = [pres |-> {p}, revocation |-> post[h].revocation, decided |-> post[h].decided]
    BY <1>0, <2>1 DEF PostRecord
  <2>3. post[h].revocation = "not_evaluated" /\ post[h].decided = 0
    BY <1>3 DEF NoPost
  <2> QED BY <1>2, <2>2, <2>3 DEF PostRecord, Revocations
<1>5. OnlyThread(h) /\ hpc'[h] = "resolve" /\ post'[h] = new
      /\ hpc' \in [Threads -> {"idle", "resolve", "close", "result"}] /\ post' \in [Threads -> PostRecord]
  BY <1>1, <1>2, <1>4 DEF OnlyThread
<1>6. session'[p.req] = "open"
  BY <1>1 DEF Expire
<1>7. SoundPost(h)'
  BY <1>1, <1>4, <1>5, <1>6 DEF SoundPost, StatusHeld
<1> QED BY <1>1, <1>5, <1>7, HandlingStep

(* A list that may be used calls a copy valid only if its credential has not ended,
   or not long ago. *)
LEMMA CheckedStatus ==
  ASSUME IssuanceAssumption, WalletInv, NEW k \in copies, NEW l \in ListsFor(k), k.slot \in l.valid
  PROVE  StatusHeld(k.cred, "valid", clock)
<1>1. /\ l \in lists /\ l.agency = k.agency /\ l.day = k.day /\ clock < l.iat + ListTTL
  BY DEF ListsFor, Usable
<1>2. /\ l.iat \in Nat /\ l.iat <= clock /\ clock \in Nat /\ ListTTL \in Nat /\ Timeout \in Nat
      /\ status[k.cred] \in {"ACTIVE", "ENDED"} /\ endedAt[k.cred] \in Nat
  BY <1>1, TableTypes DEF ListToken, Copy, WalletInv, Types, WalletTypeOK, IssuanceAssumption
<1>3. status[k.cred] = "ENDED" => l.iat <= endedAt[k.cred] + Timeout
  BY <1>1 DEF WalletInv, ListsAreRecent
<1> QED BY <1>1, <1>2, <1>3 DEF StatusHeld

(* The thread looks the copy up on its list, without a lock on the session. *)
LEMMA ResolveStep ==
  ASSUME IssuanceAssumption, PresentationAssumption, WalletInv, VerifierInv, UNCHANGED walletVars,
         NEW h \in Threads, Resolve(h)
  PROVE  VerifierInv'
<1>1. hpc[h] = "resolve" /\ UNCHANGED <<session, created, results, verdicts, redeemed, wire>>
  BY DEF Resolve, verifier
<1>2. PICK p \in wire :
        /\ post[h].pres = {p}
        /\ session[p.req] # "none"
        /\ StatusHeld(p.copy.cred, post[h].revocation, post[h].decided)
  BY <1>1 DEF VerifierInv, SoundPost
<1>3. /\ hpc \in [Threads -> {"idle", "resolve", "close", "result"}] /\ post \in [Threads -> PostRecord]
      /\ clock \in Nat /\ p.copy \in copies
  BY TableTypes DEF VerifierInv, VerifierTypes
<1>4. CASE Done(h)
  BY <1>1, <1>4, DoneThread, HandlingStep
<1>5. ASSUME NEW rev \in Revocations, StatusHeld(p.copy.cred, rev, clock),
             post' = [post EXCEPT ![h].revocation = rev, ![h].decided = clock],
             hpc' = [hpc EXCEPT ![h] = "close"]
      PROVE  VerifierInv'
  <2>0. PICK new : new = [post[h] EXCEPT !.revocation = rev, !.decided = clock]
    OBVIOUS
  <2>1. post' = [post EXCEPT ![h] = new]
    BY <1>5, <2>0
  <2>2. /\ new \in PostRecord /\ new.pres = {p}
        /\ new.revocation = rev /\ new.decided = clock
    <3>1. post[h] \in PostRecord
      BY <1>3
    <3>2. post[h] = [pres |-> post[h].pres,
                     revocation |-> post[h].revocation, decided |-> post[h].decided]
          /\ post[h].pres \in SUBSET Presentation
      BY <3>1 DEF PostRecord
    <3>3. new = [pres |-> post[h].pres, revocation |-> rev, decided |-> clock]
      BY <2>0, <3>1 DEF PostRecord
    <3> QED BY <1>2, <1>3, <1>5, <3>2, <3>3 DEF PostRecord
  <2>3. OnlyThread(h) /\ hpc'[h] = "close" /\ post'[h] = new
        /\ hpc' \in [Threads -> {"idle", "resolve", "close", "result"}] /\ post' \in [Threads -> PostRecord]
    <3>1. /\ hpc' \in [Threads -> {"idle", "resolve", "close", "result"}] /\ hpc'[h] = "close"
          /\ \A x \in Threads : x # h => hpc'[x] = hpc[x]
      BY <1>3, <1>5
    <3>2. /\ post' \in [Threads -> PostRecord] /\ post'[h] = new
          /\ \A x \in Threads : x # h => post'[x] = post[x]
      BY <1>3, <2>1, <2>2
    <3> QED BY <3>1, <3>2 DEF OnlyThread
  <2>4. StatusHeld(p.copy.cred, rev, clock)'
    BY <1>5, VerifierWorld DEF StatusHeld
  <2>5. StatusHeld(p.copy.cred, post[h].revocation, post[h].decided)'
    BY <2>2, <2>3, <2>4, VerifierWorld DEF StatusHeld
  <2>6. SoundPost(h)'
    BY <1>1, <1>2, <2>2, <2>3, <2>5 DEF SoundPost
  <2> QED BY <1>1, <2>3, <2>6, HandlingStep
<1>6. \/ Done(h)
      \/ /\ hpc' = [hpc EXCEPT ![h] = "close"]
         /\ \/ post' = [post EXCEPT ![h].revocation = "unreachable", ![h].decided = clock]
            \/ /\ \E l \in ListsFor(p.copy) : p.copy.slot \in l.valid
               /\ post' = [post EXCEPT ![h].revocation = "valid", ![h].decided = clock]
  BY <1>2 DEF Resolve
<1>7. CASE /\ hpc' = [hpc EXCEPT ![h] = "close"]
           /\ post' = [post EXCEPT ![h].revocation = "unreachable", ![h].decided = clock]
  BY <1>5, <1>7 DEF StatusHeld, Revocations
<1>8. CASE /\ hpc' = [hpc EXCEPT ![h] = "close"]
           /\ \E l \in ListsFor(p.copy) : p.copy.slot \in l.valid
           /\ post' = [post EXCEPT ![h].revocation = "valid", ![h].decided = clock]
  <2>1. StatusHeld(p.copy.cred, "valid", clock)
    BY <1>3, <1>8, CheckedStatus
  <2> QED BY <1>5, <1>8, <2>1 DEF Revocations
<1> QED BY <1>4, <1>6, <1>7, <1>8

(* What the invariant says of a thread that has a response. *)
LEMMA InHand ==
  ASSUME VerifierInv, NEW h \in Threads, hpc[h] # "idle"
  PROVE  \E p \in wire :
           /\ post[h].pres = {p} /\ p.req \in Requests /\ p.copy \in Copy
           /\ session[p.req] # "none"
           /\ StatusHeld(p.copy.cred, post[h].revocation, post[h].decided)
BY DEF VerifierInv, VerifierTypes, SoundPost, Presentation

(* It closes the session when it accepts, if the session is still open. *)
LEMMA CloseStep ==
  ASSUME IssuanceAssumption, PresentationAssumption, WalletInv, VerifierInv, UNCHANGED walletVars,
         NEW h \in Threads, Close(h)
  PROVE  VerifierInv'
<1>1. hpc[h] = "close" /\ UNCHANGED wire
  BY DEF Close
<1>2. PICK p \in wire :
        /\ post[h].pres = {p} /\ p.req \in Requests /\ p.copy \in Copy
        /\ session[p.req] # "none"
        /\ StatusHeld(p.copy.cred, post[h].revocation, post[h].decided)
  BY <1>1, InHand
<1>0. PICK v : v = [copy |-> p.copy, revocation |-> post[h].revocation,
                    decided |-> post[h].decided]
  OBVIOUS
<1>3. \/ Done(h) /\ UNCHANGED verifier
      \/ /\ session[p.req] = "open"
         /\ session' = [session EXCEPT ![p.req] = "answered"]
         /\ verdicts' = [verdicts EXCEPT ![p.req] = Append(verdicts[p.req], v)]
         /\ hpc' = [hpc EXCEPT ![h] = "result"]
         /\ UNCHANGED <<created, results, redeemed, post>>
  BY <1>0, <1>2 DEF Close, Outstanding
<1>4. CASE Done(h) /\ UNCHANGED verifier
  BY <1>1, <1>4, DoneThread, HandlingStep DEF verifier
<1>5. CASE /\ session[p.req] = "open"
           /\ session' = [session EXCEPT ![p.req] = "answered"]
           /\ verdicts' = [verdicts EXCEPT ![p.req] = Append(verdicts[p.req], v)]
           /\ hpc' = [hpc EXCEPT ![h] = "result"]
           /\ UNCHANGED <<created, results, redeemed, post>>
  <2>1. /\ VerifierTypes /\ post[h] \in PostRecord /\ SoundSession(p.req)
        /\ World /\ verdicts[p.req] \in Seq(Verdict)
    BY <1>2, VerifierWorld DEF VerifierInv, VerifierTypes
  <2>2. v \in Verdict /\ v.copy = p.copy
        /\ v.revocation = post[h].revocation /\ v.decided = post[h].decided
    BY <1>0, <1>2, <2>1 DEF PostRecord, Verdict
  <2>3. Len(verdicts[p.req]) = 0 /\ redeemed[p.req] = 0 /\ results[p.req] = {} /\ Storing(p.req) = {}
    BY <1>2, <1>5, <2>1 DEF SoundSession, VerifierTypes
  <2>4. /\ Append(verdicts[p.req], v) \in Seq(Verdict)
        /\ Len(Append(verdicts[p.req], v)) = 1 /\ Append(verdicts[p.req], v)[1] = v
        /\ DOMAIN Append(verdicts[p.req], v) = {1}
    BY <2>1, <2>2, <2>3
  <2>5. /\ session'[p.req] = "answered" /\ verdicts'[p.req] = Append(verdicts[p.req], v)
        /\ \A x \in Requests : x # p.req => session'[x] = session[x] /\ verdicts'[x] = verdicts[x]
        /\ hpc'[h] = "result" /\ OnlyThread(h) /\ post'[h] = post[h]
    BY <1>2, <1>5, <2>1 DEF VerifierTypes, OnlyThread
  <2>6. VerifierTypes'
    <3>1. session' \in [Requests -> {"none", "open", "answered", "expired", "gone"}]
          /\ hpc' \in [Threads -> {"idle", "resolve", "close", "result"}]
      BY <1>5, <2>1 DEF VerifierTypes
    <3>2. verdicts' \in [Requests -> Seq(Verdict)]
      BY <1>5, <2>1, <2>4 DEF VerifierTypes
    <3> QED BY <1>1, <1>5, <2>1, <3>1, <3>2 DEF VerifierTypes
  <2>7. ASSUME NEW x PROVE Storing(x)' = IF x = p.req THEN Storing(x) \cup {h} ELSE Storing(x)
    <3>1. ASSUME NEW y \in Threads, y # h PROVE y \in Storing(x)' <=> y \in Storing(x)
      BY <2>5, <3>1 DEF Storing, OnlyThread
    <3>2. h \in Storing(x)' <=> x = p.req
      <4>1. post'[h].pres = {p}
        BY <1>2, <2>5
      <4> QED BY <2>5, <4>1 DEF Storing
    <3>3. h \notin Storing(x)
      BY <1>1 DEF Storing
    <3>4. Storing(x) \subseteq Threads /\ Storing(x)' \subseteq Threads
      BY DEF Storing
    <3>5. CASE x = p.req
      BY <3>1, <3>2, <3>3, <3>4, <3>5
    <3>6. CASE x # p.req
      <4>1. ASSUME NEW y PROVE y \in Storing(x)' <=> y \in Storing(x)
        BY <3>1, <3>2, <3>3, <3>4, <3>6
      <4>2. Storing(x)' = Storing(x)
        BY <4>1
      <4> QED BY <3>6, <4>2
    <3> QED BY <3>5, <3>6
  <2>8. ASSUME NEW x \in Requests, x # p.req PROVE SessionKept(x)
    <3>1. Storing(x)' \subseteq Storing(x)
      BY <2>8, <2>7
    <3> QED BY <1>5, <2>5, <2>8, <3>1 DEF SessionKept
  <2>9. SoundSession(p.req)'
    <3>1. Storing(p.req)' = {h}
      BY <2>3, <2>7
    <3> QED BY <1>5, <2>3, <2>4, <2>5, <3>1 DEF SoundSession
  <2>10. \A i \in DOMAIN verdicts'[p.req] : SoundVerdict(verdicts[p.req][i])'
    <3>1. StatusHeld(v.copy.cred, v.revocation, v.decided)'
      BY <1>2, <2>2, VerifierWorld DEF StatusHeld
    <3>2. SoundVerdict(verdicts[p.req][1])'
      BY <2>4, <2>5, <3>1 DEF SoundVerdict, StatusHeld
    <3> QED BY <2>4, <2>5, <3>2
  <2>11. MadeStays
    BY <1>5, <2>5 DEF MadeStays
  <2>12. \A x \in Threads : PostKept(x)
    BY <1>1, <2>5 DEF PostKept, OnlyThread
  <2>13. \A x \in Requests : SessionKept(x) \/ SoundSession(x)'
    BY <2>8, <2>9
  <2>14. \A x \in Requests :
           \/ verdicts'[x] = verdicts[x]
           \/ \A i \in DOMAIN verdicts'[x] : SoundVerdict(verdicts[x][i])'
    BY <2>5, <2>10
  <2> QED BY <1>1, <2>1, <2>6, <2>11, <2>12, <2>13, <2>14, VerifierStep
<1> QED BY <1>3, <1>4, <1>5

(* It stores the result of the session it has closed. *)
LEMMA StoreResultStep ==
  ASSUME IssuanceAssumption, PresentationAssumption, WalletInv, VerifierInv, UNCHANGED walletVars,
         NEW h \in Threads, StoreResult(h)
  PROVE  VerifierInv'
<1>1. hpc[h] = "result" /\ Done(h) /\ UNCHANGED <<session, created, verdicts, redeemed, wire>>
  BY DEF StoreResult
<1>2. PICK p \in wire : post[h].pres = {p} /\ p.req \in Requests
  BY <1>1, InHand
<1>3. results' = [results EXCEPT ![p.req] = {clock}]
  BY <1>2 DEF StoreResult
<1>4. VerifierTypes /\ clock \in Nat /\ World /\ SoundSession(p.req)
  BY <1>2, TableTypes, VerifierWorld DEF VerifierInv
<1>5. h \in Storing(p.req)
  BY <1>1, <1>2 DEF Storing
<1>6. session[p.req] = "answered" /\ redeemed[p.req] = 0 /\ Storing(p.req) = {h} /\ Len(verdicts[p.req]) = 1
  BY <1>4, <1>5 DEF SoundSession
<1>7. /\ hpc' \in [Threads -> {"idle", "resolve", "close", "result"}]
      /\ post' \in [Threads -> PostRecord]
      /\ OnlyThread(h) /\ hpc'[h] = "idle"
      /\ \A x \in Threads : PostKept(x)
  BY <1>1, DoneThread
<1>8. results'[p.req] = {clock} /\ \A x \in Requests : x # p.req => results'[x] = results[x]
  BY <1>2, <1>3, <1>4 DEF VerifierTypes
<1>9. VerifierTypes'
  <2>1. results' \in [Requests -> SUBSET Nat]
    BY <1>3, <1>4 DEF VerifierTypes
  <2> QED BY <1>1, <1>4, <1>7, <2>1 DEF VerifierTypes
<1>10. \A r : Storing(r)' = Storing(r) \ {h}
  BY <1>7, StoringShrinks
<1>11. \A x \in Requests : x # p.req => SessionKept(x)
  BY <1>1, <1>8, <1>10 DEF SessionKept
<1>12. SoundSession(p.req)'
  BY <1>1, <1>4, <1>6, <1>10 DEF SoundSession
<1>13. MadeStays
  BY <1>1 DEF MadeStays
<1>14. \A x \in Requests : SessionKept(x) \/ SoundSession(x)'
  BY <1>11, <1>12
<1> QED BY <1>1, <1>4, <1>7, <1>9, <1>13, <1>14, VerifierStep

(* A restart loses the sessions, the results and the threads, not the verdicts. *)
LEMMA RestartStep ==
  ASSUME IssuanceAssumption, PresentationAssumption, WalletInv, VerifierInv, UNCHANGED walletVars, Restart
  PROVE  VerifierInv'
<1>1. /\ session' = [r \in Requests |-> IF session[r] = "open" THEN "gone" ELSE session[r]]
      /\ results' = [r \in Requests |-> {}]
      /\ hpc' = [h \in Threads |-> "idle"] /\ post' = [h \in Threads |-> NoPost]
      /\ UNCHANGED <<created, verdicts, redeemed, wire>>
  BY DEF Restart
<1>2. World
  BY VerifierWorld
<1>3. VerifierTypes'
  BY <1>1, NoPostType DEF VerifierInv, VerifierTypes
<1>4. \A r \in Requests : SessionKept(r)
  BY <1>1 DEF SessionKept, Storing
<1>5. MadeStays
  BY <1>1 DEF MadeStays
<1>6. \A h \in Threads : PostKept(h)
  BY <1>1 DEF PostKept
<1> QED BY <1>1, <1>2, <1>3, <1>4, <1>5, <1>6, VerifierStep

-----------------------------------------------------------------------------
(* The copies held at the start are as the issuer would have left them. *)
LEMMA PresentInitWallet ==
  ASSUME IssuanceAssumption, PresentationAssumption, PresentInit
  PROVE  WalletInv
<1>0. PICK loaded \in Loads :
        /\ minted = [i \in 1..Cardinality(loaded) |->
                      OfferOf(CHOOSE k \in loaded : k.offer = i)]
        /\ copies = loaded /\ held = loaded
  BY DEF PresentInit
<1> DEFINE n == Cardinality(loaded)
           Of(i) == CHOOSE k \in loaded : k.offer = i
<1>1. n \in Nat /\ Bought(loaded)
  BY FS_CardinalityType DEF PresentationAssumption, Bought
<1>2. minted = [i \in 1..n |-> OfferOf(Of(i))] /\ copies = loaded /\ held = loaded
  BY <1>0
<1>3. ASSUME NEW i \in 1..n PROVE Of(i) \in loaded /\ Of(i).offer = i
  BY <1>1, <1>3 DEF Bought
<1>4. ASSUME NEW k \in loaded PROVE k.offer \in 1..n /\ Of(k.offer) = k
  <2>1. k.offer \in 1..n
    BY <1>1 DEF Bought
  <2>2. Of(k.offer) \in loaded /\ Of(k.offer).offer = k.offer
    BY <1>3, <2>1
  <2> QED BY <1>1, <2>1, <2>2 DEF Bought
<1> HIDE DEF n, Of
<1>5. loaded \subseteq Copy
  BY <1>1 DEF Bought
<1>6. ASSUME NEW i \in 1..n
      PROVE  /\ minted[i] \in Value /\ minted[i].kind = "code" /\ minted[i].offer = i
             /\ minted[i].cred = Of(i).cred
  <2>1. Of(i) \in Copy /\ Of(i).offer = i
    BY <1>3, <1>5
  <2>2. minted[i] = OfferOf(Of(i))
    BY <1>2
  <2> QED BY <2>1, <2>2 DEF OfferOf, Value, Copy, Kinds
<1>7. minted \in Seq(Value) /\ DOMAIN minted = 1..n /\ spent = 1..n
  <2>1. DOMAIN minted = 1..n
    BY <1>2
  <2>2. minted \in [1..n -> Value]
    BY <1>2, <1>6
  <2>3. minted \in Seq(Value)
    BY <1>1, <2>2, SeqDef
  <2>4. spent = DOMAIN minted
    BY DEF PresentInit
  <2> QED BY <2>1, <2>3, <2>4
<1>8. OfKind("code") = 1..n /\ OfKind("token") = {}
  BY <1>6, <1>7 DEF OfKind
<1>9. ASSUME NEW k \in copies PROVE k.offer \in 1..n /\ minted[k.offer].cred = k.cred
  BY <1>2, <1>4, <1>6
<1>10. Types
  <2>1. /\ status \in [Credentials -> {"ACTIVE", "ENDED"}] /\ endedAt \in [Credentials -> Nat]
        /\ updating = {} /\ lists = {} /\ clock = 0
        /\ pc = [w \in Workers |-> "idle"] /\ req \in [Workers -> Request]
    BY NoReqType DEF PresentInit
  <2> QED BY <1>2, <1>5, <1>7, <1>8, <1>9, <2>1 DEF Types, WalletTypeOK
<1>11. Tables
  <2>1. \A v \in DOMAIN minted : SoundValue(v)
    BY <1>6, <1>7 DEF SoundValue
  <2>2. OneTokenPerOffer
    BY <1>8 DEF OneTokenPerOffer
  <2>3. \A k \in copies : PaidFor(k)
    BY <1>7, <1>8, <1>9 DEF PaidFor
  <2>4. OneCopyPerOffer /\ OneCopyPerSlot
    BY <1>1, <1>2 DEF Bought, OneCopyPerOffer, OneCopyPerSlot
  <2> QED BY <2>1, <2>2, <2>3, <2>4 DEF Tables
<1>12. pc = [w \in Workers |-> "idle"] /\ lists = {}
  BY DEF PresentInit
<1>13. (\A w \in Workers : SoundRequest(w)) /\ OwnValues
  BY <1>12 DEF SoundRequest, OwnValues, Paid
<1> QED BY <1>10, <1>11, <1>12, <1>13 DEF WalletInv, ListsAreRecent

(* No request is made at the start. *)
LEMMA PresentInitVerifier ==
  ASSUME PresentInit
  PROVE  VerifierInv
<1>1. /\ session = [r \in Requests |-> "none"] /\ created = [r \in Requests |-> 0]
      /\ results = [r \in Requests |-> {}] /\ verdicts = [r \in Requests |-> <<>>]
      /\ redeemed = [r \in Requests |-> 0] /\ wire = {}
      /\ hpc = [h \in Threads |-> "idle"] /\ post = [h \in Threads |-> NoPost]
  BY DEF PresentInit
<1>2. VerifierTypes
  BY <1>1, NoPostType DEF VerifierTypes
<1>3. \A r \in Requests : SoundSession(r)
  BY <1>1 DEF SoundSession, Storing
<1>4. \A h \in Threads : SoundPost(h)
  BY <1>1 DEF SoundPost
<1> QED BY <1>1, <1>2, <1>3, <1>4 DEF VerifierInv

(* Every step of the verifier keeps the invariant. *)
LEMMA VerifierNextSound ==
  ASSUME IssuanceAssumption, PresentationAssumption, WalletInv, VerifierInv,
         VerifierNext, UNCHANGED walletVars
  PROVE  VerifierInv'
<1>1. ASSUME NEW r \in Requests, NewRequest(r) \/ RedeemResult(r) PROVE VerifierInv'
  BY <1>1, NewRequestStep, RedeemResultStep
<1>2. ASSUME NEW r \in Requests, NEW k \in held, NEW fits \in BOOLEAN, Sign(r, k, fits)
      PROVE  VerifierInv'
  BY <1>2, SignStep
<1>3. ASSUME NEW h \in Threads, NEW p \in wire, Post(h, p) PROVE VerifierInv'
  BY <1>3, PostStep
<1>4. ASSUME NEW h \in Threads, Resolve(h) \/ Close(h) \/ StoreResult(h) PROVE VerifierInv'
  BY <1>4, ResolveStep, CloseStep, StoreResultStep
<1>5. CASE Touch
  BY <1>5, TouchStep
<1>6. CASE Restart
  BY <1>6, RestartStep
<1> QED BY <1>1, <1>2, <1>3, <1>4, <1>5, <1>6 DEF VerifierNext

(* The two invariants, of the wallet and of the verifier, always hold. *)
LEMMA PresentInvariance == PresentSpec => [](WalletInv /\ VerifierInv)
<1>1. PresentInit => WalletInv /\ VerifierInv
  BY PresentInitWallet, PresentInitVerifier, IssuanceAssumption, PresentationAssumption
<1>2. ASSUME WalletInv, VerifierInv, [PresentNext]_presentVars PROVE WalletInv' /\ VerifierInv'
  <2>1. CASE WalletNext /\ UNCHANGED <<verifier, handling, wire>>
    BY <1>2, <2>1, WalletNextSound, IssuerStep, IssuanceAssumption, PresentationAssumption
  <2>2. CASE VerifierNext /\ UNCHANGED walletVars
    <3>1. [WalletNext]_walletVars
      BY <2>2
    <3> QED BY <1>2, <2>2, <3>1, WalletNextSound, VerifierNextSound, IssuanceAssumption, PresentationAssumption
  <2>3. CASE UNCHANGED presentVars
    <3>1. [WalletNext]_walletVars /\ UNCHANGED <<verifier, handling, wire>>
      BY <2>3 DEF presentVars
    <3> QED BY <1>2, <3>1, WalletNextSound, IssuerStep, IssuanceAssumption, PresentationAssumption
  <2> QED BY <1>2, <2>1, <2>2, <2>3 DEF PresentNext
<1> QED BY <1>1, <1>2, PTL DEF PresentSpec

-----------------------------------------------------------------------------
(* The verifier's tables are well formed; a result is held only for a request that
   was answered (_results, _sessions of verifier.py). *)
THEOREM PresentTypeCorrect == PresentSpec => []PresentTypeOK
<1>1. VerifierInv => PresentTypeOK
  <2> SUFFICES ASSUME VerifierInv PROVE PresentTypeOK
    OBVIOUS
  <2>1. \A r \in Requests : results[r] # {} => session[r] = "answered"
    BY DEF VerifierInv, SoundSession
  <2>2. \A h \in Threads : hpc[h] # "idle" => \E p \in wire : post[h].pres = {p}
    BY DEF VerifierInv, SoundPost
  <2> QED BY <2>1, <2>2 DEF VerifierInv, VerifierTypes, PresentTypeOK
<1> QED BY <1>1, PresentInvariance, PTL

(* One request is answered by one presentation, and its result is fetched once at
   most, whatever was posted twice, expired or lost (handle_direct_post, redeem). *)
THEOREM RequestAnsweredOnce == PresentSpec => []AnsweredOnce
<1>1. VerifierInv => AnsweredOnce
  BY DEF VerifierInv, SoundSession, AnsweredOnce
<1> QED BY <1>1, PresentInvariance, PTL

(* A request that is no longer open was answered by an accepted presentation, or is
   past its lifetime, or went with the process (handle_direct_post, _expire_locked). *)
THEOREM AcceptanceCloses == PresentSpec => []OnlyAcceptanceCloses
<1>1. VerifierInv => OnlyAcceptanceCloses
  BY DEF VerifierInv, SoundSession, OnlyAcceptanceCloses
<1> QED BY <1>1, PresentInvariance, PTL

(* A presentation accepted on a checked status was decided before the withdrawal
   committed or less than Timeout + ListTTL after it (_revocation_state, decide,
   status_list_token). *)
THEOREM WithdrawalsReach == PresentSpec => []WithdrawalReaches
<1>1. VerifierInv => WithdrawalReaches
  BY DEF VerifierInv, SoundVerdict, StatusHeld, WithdrawalReaches
<1> QED BY <1>1, PresentInvariance, PTL

(* The verifier changes nothing about the lists: a published list is never older
   than Timeout when it is signed (oid4vci_status_list). *)
THEOREM PresentedListsRecent == PresentSpec => []ListsAreRecent
<1>1. WalletInv => ListsAreRecent
  BY DEF WalletInv
<1> QED BY <1>1, PresentInvariance, PTL
=============================================================================
