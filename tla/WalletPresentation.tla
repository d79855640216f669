------------------------- MODULE WalletPresentation -------------------------
(***************************************************************************)
(* A wallet copy is presented: the OpenID4VP verifier of a relying party   *)
(* (packages/polaris-oid4vp), next to the issuer of WalletIssuance.  The   *)
(* verifier answers every post in a thread of its own and keeps its open   *)
(* requests and unfetched results in memory, behind one lock; between the  *)
(* posts' locked sections a presentation is judged and the issuer's status *)
(* list resolved.                                                          *)
(*                                                                         *)
(* wire holds every presentation a holder signed: whoever saw one may post *)
(* it, again and to several threads at once.  A post that carries no such  *)
(* presentation (an error response, in the clear or encrypted, a body that *)
(* does not decrypt, two presentations) does to the verifier what Touch    *)
(* does.                                                                   *)
(***************************************************************************)
EXTENDS WalletIssuance

CONSTANTS
  Requests,     \* presentation requests, named by their state
  Threads,      \* handlers of direct_post responses
  RequestTTL,   \* request_ttl_seconds
  Skew,         \* max_skew_seconds
  Presented,    \* bound: presentations holders sign
  Loads         \* sets of copies, one of which wallets hold at the start

(* The copies held at the start were bought with one offer each and have a slot
   each, as WalletIssuance leaves them. *)
Bought(loaded) ==
  /\ loaded \subseteq Copy /\ IsFiniteSet(loaded)
  /\ \A k \in loaded : k.offer \in 1..Cardinality(loaded)
  /\ \A i \in 1..Cardinality(loaded) : \E k \in loaded : k.offer = i
  /\ \A k1, k2 \in loaded :
       k1 # k2 => /\ k1.offer # k2.offer
                  /\ <<k1.agency, k1.day, k1.slot>> # <<k2.agency, k2.day, k2.slot>>

ASSUME PresentationAssumption ==
  /\ RequestTTL \in Nat /\ Skew \in Nat /\ Presented \in Nat
  /\ \A loaded \in Loads : Bought(loaded)

VARIABLES
  session,    \* request -> not made, in _sessions, answered, expired, gone with the process
  created,    \* Session.created
  results,    \* _results: request -> when its unfetched result was stored
  verdicts,   \* request -> the verdicts of its accepted responses
  redeemed,   \* request -> results handed out by redeem
  wire,       \* presentations signed by holders
  hpc,        \* where each thread's response is
  post        \* that response and what was decided about it

verifier == <<session, created, results, verdicts, redeemed>>
handling == <<hpc, post>>
presentVars == <<walletVars, verifier, handling, wire>>

(* fits: the disclosed claims are exactly the ones the request asks for. *)
Presentation == [req : Requests, copy : Copy, iat : Nat, fits : BOOLEAN]

NoPost == [pres |-> {}, revocation |-> "not_evaluated", decided |-> 0]

-----------------------------------------------------------------------------
(* _expire_locked: run by every locked section but the one that closes a request. *)

Lapsed(when) == when + RequestTTL < clock

(* Mutant: an answered request stays in _sessions and expires like an open one. *)
SessionsKept ==
  [r \in Requests |->
     IF session[r] # "none" /\ Lapsed(created[r]) THEN "expired" ELSE session[r]]

Sessions ==
  [r \in Requests |->
     IF session[r] = "open" /\ Lapsed(created[r]) THEN "expired" ELSE session[r]]

Results == [r \in Requests |-> {when \in results[r] : ~Lapsed(when)}]

Expire == session' = Sessions /\ results' = Results

(* new_request *)
NewRequest(r) ==
  /\ session[r] = "none"
  /\ session' = [Sessions EXCEPT ![r] = "open"]
  /\ results' = Results
  /\ created' = [created EXCEPT ![r] = clock]
  /\ UNCHANGED <<verdicts, redeemed, handling, wire>>

(* request_object, error responses and refused posts change nothing else. *)
Touch ==
  /\ Expire
  /\ UNCHANGED <<created, verdicts, redeemed, handling, wire>>

(* A wallet that has the request object signs with the key its copy is bound to. *)
Sign(r, k, fits) ==
  /\ session[r] # "none"
  /\ Cardinality(wire) < Presented
  /\ wire' = wire \cup {[req |-> r, copy |-> k, iat |-> clock, fits |-> fits]}
  /\ UNCHANGED <<verifier, handling>>

-----------------------------------------------------------------------------
(* handle_direct_post *)

(* verify_presentation: signed by a trusted issuer and bound to this request's
   nonce, which only session p.req has; the key binding JWT is fresh and the copy
   within its window. *)
Authentic(p) == clock <= p.iat + Skew /\ clock <= p.copy.expires + Skew

(* Mutant: the request is used up by the first response that opens with its key. *)
PostClosing(h, p) ==
  /\ hpc[h] = "idle"
  /\ Sessions[p.req] = "open" /\ Authentic(p)
  /\ session' = [Sessions EXCEPT ![p.req] = "answered"] /\ results' = Results
  /\ hpc' = [hpc EXCEPT ![h] = "resolve"]
  /\ post' = [post EXCEPT ![h].pres = {p}]
  /\ UNCHANGED <<created, verdicts, redeemed, wire>>

(* The candidates are read under the lock, the one whose key opens the response
   is p.req; what is not authentic is refused. *)
Post(h, p) ==
  /\ hpc[h] = "idle"
  /\ Sessions[p.req] = "open" /\ Authentic(p)
  /\ Expire
  /\ hpc' = [hpc EXCEPT ![h] = "resolve"]
  /\ post' = [post EXCEPT ![h].pres = {p}]
  /\ UNCHANGED <<created, verdicts, redeemed, wire>>

(* Mutant: the list's exp is not looked at. *)
AnyAge(l) == TRUE

(* decide: now >= exp is refused. *)
Usable(l) == clock < l.iat + ListTTL

(* A list fetched, or kept by the resolver, that is published for this copy's uri. *)
ListsFor(k) == {l \in lists : l.agency = k.agency /\ l.day = k.day /\ Usable(l)}

Done(h) ==
  /\ hpc' = [hpc EXCEPT ![h] = "idle"]
  /\ post' = [post EXCEPT ![h] = NoPost]

(* _revocation_state, then the claims and then the status: no list is no answer
   and left to the relying party; a list that does not call the copy valid is a
   refusal. *)
Resolve(h) ==
  /\ hpc[h] = "resolve"
  /\ \E p \in post[h].pres :
       \/ /\ p.fits
          /\ \/ post' = [post EXCEPT ![h].revocation = "unreachable", ![h].decided = clock]
             \/ /\ \E l \in ListsFor(p.copy) : p.copy.slot \in l.valid
                /\ post' = [post EXCEPT ![h].revocation = "valid", ![h].decided = clock]
          /\ hpc' = [hpc EXCEPT ![h] = "close"]
       \/ /\ ~p.fits \/ \E l \in ListsFor(p.copy) : p.copy.slot \notin l.valid
          /\ Done(h)
  /\ UNCHANGED <<verifier, wire>>

(* Mutant: the request is closed without looking whether it still is open. *)
AlwaysOutstanding(r) == TRUE

(* session.answered, or no longer the one in _sessions. *)
Outstanding(r) == session[r] = "open"

(* Accepted: the request closes under the lock, without an expiry. *)
Close(h) ==
  /\ hpc[h] = "close"
  /\ \E p \in post[h].pres :
       \/ ~Outstanding(p.req) /\ Done(h) /\ UNCHANGED verifier
       \/ /\ Outstanding(p.req)
          /\ session' = [session EXCEPT ![p.req] = "answered"]
          /\ verdicts' = [verdicts EXCEPT ![p.req] =
                            Append(@, [copy |-> p.copy, revocation |-> post[h].revocation,
                                       decided |-> post[h].decided])]
          /\ hpc' = [hpc EXCEPT ![h] = "result"]
          /\ UNCHANGED <<created, results, redeemed, post>>
  /\ UNCHANGED wire

(* The result is stored under its response_code, in a second locked section. *)
StoreResult(h) ==
  /\ hpc[h] = "result"
  /\ \E p \in post[h].pres : results' = [results EXCEPT ![p.req] = {clock}]
  /\ Done(h)
  /\ UNCHANGED <<session, created, verdicts, redeemed, wire>>

(* redeem, with the request's state or none. *)
RedeemResult(r) ==
  /\ Results[r] # {}
  /\ session' = Sessions
  /\ results' = [Results EXCEPT ![r] = {}]
  /\ redeemed' = [redeemed EXCEPT ![r] = @ + 1]
  /\ UNCHANGED <<created, verdicts, handling, wire>>

(* The process ends: requests, results and threads go with it. *)
Restart ==
  /\ session' = [r \in Requests |-> IF session[r] = "open" THEN "gone" ELSE session[r]]
  /\ results' = [r \in Requests |-> {}]
  /\ hpc' = [h \in Threads |-> "idle"]
  /\ post' = [h \in Threads |-> NoPost]
  /\ UNCHANGED <<created, verdicts, redeemed, wire>>

-----------------------------------------------------------------------------
(* Every copy that is held at the start was bought with an offer of its own. *)
OfferOf(k) ==
  [kind |-> "code", agency |-> k.agency, cred |-> k.cred, born |-> 0, offer |-> k.offer]

PresentInit ==
  /\ status = [c \in Credentials |-> "ACTIVE"]
  /\ endedAt = [c \in Credentials |-> 0]
  /\ updating = {}
  /\ \E loaded \in Loads :
       /\ minted = [i \in 1..Cardinality(loaded) |-> OfferOf(CHOOSE k \in loaded : k.offer = i)]
       /\ copies = loaded /\ held = loaded
  /\ spent = DOMAIN minted /\ lists = {}
  /\ pc = [w \in Workers |-> "idle"]
  /\ req = [w \in Workers |-> NoReq]
  /\ clock = 0
  /\ session = [r \in Requests |-> "none"]
  /\ created = [r \in Requests |-> 0]
  /\ results = [r \in Requests |-> {}]
  /\ verdicts = [r \in Requests |-> <<>>]
  /\ redeemed = [r \in Requests |-> 0]
  /\ wire = {}
  /\ hpc = [h \in Threads |-> "idle"]
  /\ post = [h \in Threads |-> NoPost]

VerifierNext ==
  \/ \E r \in Requests : NewRequest(r) \/ RedeemResult(r)
  \/ \E r \in Requests, k \in held, fits \in BOOLEAN : Sign(r, k, fits)
  \/ \E h \in Threads, p \in wire : Post(h, p)
  \/ \E h \in Threads : Resolve(h) \/ Close(h) \/ StoreResult(h)
  \/ Touch
  \/ Restart

PresentNext ==
  \/ WalletNext /\ UNCHANGED <<verifier, handling, wire>>
  \/ VerifierNext /\ UNCHANGED walletVars

PresentSpec == PresentInit /\ [][PresentNext]_presentVars

-----------------------------------------------------------------------------
(* The verifier's tables are well formed; above all a result is held only for a
   request that was answered. *)
PresentTypeOK ==
  /\ session \in [Requests -> {"none", "open", "answered", "expired", "gone"}]
  /\ created \in [Requests -> Nat]
  /\ results \in [Requests -> SUBSET Nat]
  /\ \A r \in Requests : results[r] # {} => session[r] = "answered"
  /\ redeemed \in [Requests -> Nat]
  /\ wire \subseteq Presentation
  /\ hpc \in [Threads -> {"idle", "resolve", "close", "result"}]
  /\ \A h \in Threads : hpc[h] # "idle" => \E p \in wire : post[h].pres = {p}

(* One request is answered by one presentation, and its result is fetched once at
   most: "of two accepted responses to one request (a replay racing the original)
   exactly one closes it" (verifier.py), whatever was posted, expired or lost. *)
AnsweredOnce ==
  \A r \in Requests : Len(verdicts[r]) <= 1 /\ redeemed[r] <= Len(verdicts[r])

(* "Only a presentation this verifier accepts closes the request": a request that
   is no longer open was answered by a verdict, or its lifetime is over, or the
   process that held it ended, so nobody who cannot present can use it up. *)
OnlyAcceptanceCloses ==
  \A r \in Requests :
    /\ session[r] = "answered" => Len(verdicts[r]) = 1
    /\ session[r] = "expired" => Lapsed(created[r])

(* "A request that expired while this one was being judged is not answered either"
   (verifier.py).  The section that closes a request sweeps nothing, so the code
   does so only when another call has swept in between. *)
ExpiredNotAnswered ==
  [][\A r \in Requests :
       session[r] = "open" /\ session'[r] = "answered" => ~Lapsed(created[r])]_presentVars

(* A withdrawal reaches the relying party: a presentation accepted on a checked
   status was decided before the withdrawal had committed, or within the time a
   list computed before it could still be signed (Timeout) and used (ListTTL). *)
WithdrawalReaches ==
  \A r \in Requests : \A i \in DOMAIN verdicts[r] :
    LET v == verdicts[r][i]
    IN v.revocation = "valid" =>
         \/ status[v.copy.cred] = "ACTIVE"
         \/ v.decided < endedAt[v.copy.cred] + Timeout + ListTTL
=============================================================================
