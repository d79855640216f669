------------------------- MODULE OperatorSignInProofs -------------------------
(***************************************************************************)
(* Proof that the lockout, the session cap and the ends of sessions hold   *)
(* for any number of accounts, sign-ins and sessions, any thresholds and   *)
(* any caps.                                                               *)
(***************************************************************************)
EXTENDS OperatorSignIn, FiniteSetTheorems, TLAPS

Attempt ==
  [user : Users, right : BOOLEAN, now : Nat, wasLocked : BOOLEAN, standing : Standings,
   sid : SUBSET Sids, evict : SUBSET Sids, epoch : Nat]

(* SignInTypeOK, and the types it leaves to the model's definitions. *)
Types ==
  /\ SignInTypeOK
  /\ holder \in [Users -> Workers \cup {Nobody}]
  /\ attempt \in [Workers -> Attempt]
  /\ fails \in [Users -> Seq(Nat)]
  /\ late \in [Users -> Nat]
  /\ rotations \in [Users -> Nat]
  /\ overdue \in [Sids -> Nat]

(* The last k wrong passwords of f each came within the window of the one before. *)
Run(f, k) == \A i \in (Len(f) - k + 2)..Len(f) : f[i - 1] + Window > f[i]

(* The column counts at least the run of wrong passwords that ends with the last
   one, and remembers when that was. *)
Counted(u) ==
  Len(fails[u]) > 0 =>
    /\ account[u].lastFailed = fails[u][Len(fails[u])]
    /\ \A k \in 1..Len(fails[u]) : Run(fails[u], k) => account[u].count >= k

(* Sign-ins of u that will be judged though the account is locked: those past the
   check, and those whose first SELECT saw no lock. *)
Guessing(u) ==
  {w \in Workers : /\ UserOf(w) = u
                   /\ pc[w] = "judge" \/ (pc[w] = "check" /\ ~attempt[w].wasLocked)}

(* While the lock is in force, the guesses made and those still to come leave out
   the worker whose guess set it. *)
Watched(u) ==
  /\ late[u] < Cardinality(Workers)
  /\ account[u].lockedUntil > clock =>
       late[u] + Cardinality(Guessing(u)) < Cardinality(Workers)

(* What is true of a row of OperatorSession by itself. *)
SoundRow(row) ==
  /\ row.state = "live" => row.used <= row.seen + Slack /\ row.used <= clock
  /\ row.state = "idled" => row.used + Idle[row.standing] < row.seen + Slack

(* The rows of one standing never exceed its cap, whatever others are live. *)
LiveAs(u, st) == {s \in LiveOf(u) : sessions[s].standing = st}

CapByStanding ==
  \A u \in Users, st \in Standings :
    Cap[st] > 0 => Cardinality(LiveAs(u, st)) <= Cap[st]

(* What a registration will leave live. *)
Remaining(w) == (LiveOf(UserOf(w)) \cup attempt[w].sid) \ attempt[w].evict

(* A registration under way holds the account's row and has a session id that is
   its own and unused; no rotation has come since it read the account, and what
   it will leave respects the cap. *)
Registering(w) ==
  pc[w] = "register" =>
    /\ holder[UserOf(w)] = w
    /\ attempt[w].epoch = rotations[UserOf(w)]
    /\ \E s \in Sids : attempt[w].sid = {s} /\ sessions[s].state = "unused"
    /\ Cap[attempt[w].standing] > 0 =>
         Cardinality(Remaining(w)) <= Cap[attempt[w].standing]

OwnSids ==
  \A w, x \in Workers :
    (pc[w] = "register" /\ pc[x] = "register" /\ attempt[w].sid = attempt[x].sid) => w = x

(* What a request has read of a session still counts for something while the
   session lives: that it was seen lately, or that it had not been used. *)
Judged(r) ==
  \A s \in request[r].sid :
    /\ sessions[s].state # "unused"
    /\ sessions[s].state = "live" =>
         /\ request[r].verdict = "pass" => request[r].now <= sessions[s].seen + Slack
         /\ request[r].verdict = "idled" =>
              request[r].used + Idle[sessions[s].standing] < request[r].now + Slack

(* The requests of a session that will be let through whatever happens. *)
Passing(s) ==
  {r \in Requests : request[r].verdict \in {"touch", "pass"} /\ s \in request[r].sid}

(* Those let through since the end, and those still to come, have read the session
   while it was good, each of them once. *)
Expected(s) ==
  /\ Good(s) \/ sessions[s].state = "unused" => overdue[s] = 0
  /\ overdue[s] + Cardinality(Passing(s)) <= Cardinality(Requests)

(* The inductive invariant, of the lockout, of the sessions, and of the requests
   that are under way. *)
LockoutInv == \A u \in Users : Counted(u) /\ Watched(u)

SessionInv ==
  /\ \A s \in Sids : SoundRow(sessions[s])
  /\ RotationEndsSessions
  /\ CapByStanding
  /\ \A w \in Workers : Registering(w)
  /\ OwnSids

RequestInv ==
  /\ \A r \in Requests : Judged(r)
  /\ \A s \in Sids : Expected(s)

IInv == Types /\ LockoutInv /\ LockedWhenDue /\ SessionInv /\ RequestInv

-----------------------------------------------------------------------------
(* Cardinality of sets of sessions and of workers *)

(* Fewer session ids are not more. *)
LEMMA FewerSids ==
  ASSUME SignInAssumption, NEW A \in SUBSET Sids, NEW B \in SUBSET A
  PROVE  Cardinality(A) \in Nat /\ Cardinality(B) \in Nat /\ Cardinality(B) <= Cardinality(A)
<1>1. IsFiniteSet(A) /\ IsFiniteSet(B)
  BY FS_Subset DEF SignInAssumption
<1> QED BY <1>1, FS_Subset, FS_CardinalityType

(* Fewer workers are not more. *)
LEMMA FewerWorkers ==
  ASSUME SignInAssumption, NEW A \in SUBSET Workers, NEW B \in SUBSET A
  PROVE  Cardinality(A) \in Nat /\ Cardinality(B) \in Nat /\ Cardinality(B) <= Cardinality(A)
<1>1. IsFiniteSet(A) /\ IsFiniteSet(B)
  BY FS_Subset DEF SignInAssumption
<1> QED BY <1>1, FS_Subset, FS_CardinalityType

(* Fewer requests are not more. *)
LEMMA FewerRequests ==
  ASSUME SignInAssumption, NEW A \in SUBSET Requests, NEW B \in SUBSET A
  PROVE  Cardinality(A) \in Nat /\ Cardinality(B) \in Nat /\ Cardinality(B) <= Cardinality(A)
<1>1. IsFiniteSet(A) /\ IsFiniteSet(B)
  BY FS_Subset DEF SignInAssumption
<1> QED BY <1>1, FS_Subset, FS_CardinalityType

(* One request less. *)
LEMMA RequestLeaves ==
  ASSUME SignInAssumption, NEW A \in SUBSET Requests, NEW r \in A
  PROVE  /\ Cardinality(A) \in Nat /\ Cardinality(A \ {r}) \in Nat
         /\ Cardinality(A) = Cardinality(A \ {r}) + 1
<1>1. IsFiniteSet(A)
  BY FS_Subset DEF SignInAssumption
<1>2. Cardinality(A) \in Nat /\ Cardinality(A \ {r}) \in Nat
  BY <1>1, FS_CardinalityType, FS_RemoveElement
<1>3. Cardinality(A \ {r}) = Cardinality(A) - 1
  BY <1>1, FS_RemoveElement, Zenon
<1> QED BY <1>2, <1>3

(* The slack is a number, and neither timeout is longer. *)
LEMMA SlackBounds ==
  ASSUME SignInAssumption
  PROVE  Slack \in Nat /\ Touch \in Nat /\ Timeout \in Nat /\ Touch <= Slack /\ Timeout <= Slack
BY DEF Slack, SignInAssumption

(* One worker less. *)
LEMMA WorkerLeaves ==
  ASSUME SignInAssumption, NEW A \in SUBSET Workers, NEW w \in A
  PROVE  /\ Cardinality(A) \in Nat /\ Cardinality(A \ {w}) \in Nat
         /\ Cardinality(A) = Cardinality(A \ {w}) + 1
<1>1. IsFiniteSet(A)
  BY FS_Subset DEF SignInAssumption
<1>2. Cardinality(A) \in Nat /\ Cardinality(A \ {w}) \in Nat
  BY <1>1, FS_CardinalityType, FS_RemoveElement
<1>3. Cardinality(A \ {w}) = Cardinality(A) - 1
  BY <1>1, FS_RemoveElement, Zenon
<1> QED BY <1>2, <1>3

(* At most as many as what is at most n. *)
LEMMA AtMost ==
  ASSUME NEW k \in Nat, NEW m \in Nat, NEW n \in Nat, k <= m, m <= n
  PROVE  k <= n
OBVIOUS

(* There is a worker. *)
LEMMA SomeWorker ==
  ASSUME SignInAssumption
  PROVE  Cardinality(Workers) \in Nat /\ Cardinality(Workers) > 0
<1>1. Cardinality(Workers) \in Nat /\ Cardinality(Workers) # 0
  BY FS_CardinalityType, FS_EmptySet DEF SignInAssumption
<1> QED BY <1>1

-----------------------------------------------------------------------------
(* What steps leave alone *)

(* A registration goes on as it was. *)
SameRegistrations ==
  \A w \in Workers :
    pc'[w] = "register" =>
      /\ pc[w] = "register" /\ attempt'[w] = attempt[w]
      /\ holder'[attempt[w].user] = holder[attempt[w].user]
      /\ rotations'[attempt[w].user] = rotations[attempt[w].user]

(* A row is as it was, or touched, if late then not by more than a request lasts,
   or at its end. *)
RowKept(old, new) ==
  /\ new.state = "live" => /\ old.state = "live"
                           /\ new.user = old.user /\ new.standing = old.standing
                           /\ new.epoch = old.epoch
                           /\ old.seen <= new.seen \/ clock <= new.seen + Timeout
  /\ old.state = "unused" <=> new.state = "unused"
  /\ SoundRow(old) => SoundRow(new)

(* Steps that only touch or end sessions keep the sessions' half. *)
LEMMA RowsWane ==
  ASSUME SignInAssumption, IInv, Types', SameRegistrations, clock' >= clock,
         \A s \in Sids :
           /\ RowKept(sessions[s], sessions'[s])
           /\ sessions'[s].state = "live" =>
                rotations'[sessions[s].user] = rotations[sessions[s].user]
  PROVE  SessionInv'
<1>1. ASSUME NEW s \in Sids PROVE SoundRow(sessions[s])'
  <2>1. SoundRow(sessions[s]) /\ RowKept(sessions[s], sessions'[s])
    BY DEF IInv, SessionInv
  <2>2. /\ sessions'[s] \in Session /\ clock \in Nat /\ clock' \in Nat
        /\ sessions'[s].used \in Nat
    BY DEF IInv, Types, SignInTypeOK, Session
  <2> QED BY <2>1, <2>2 DEF RowKept, SoundRow, Slack
<1>2. RotationEndsSessions'
  BY DEF IInv, SessionInv, RowKept, RotationEndsSessions
<1>3. ASSUME NEW u \in Users PROVE LiveOf(u)' \subseteq LiveOf(u) /\ LiveOf(u) \subseteq Sids
  BY DEF LiveOf, RowKept
<1>4. CapByStanding'
  <2> SUFFICES ASSUME NEW u \in Users, NEW st \in Standings, Cap[st] > 0
               PROVE  Cardinality(LiveAs(u, st)') <= Cap[st]
    BY DEF CapByStanding
  <2>1. LiveAs(u, st)' \subseteq LiveAs(u, st) /\ LiveAs(u, st) \subseteq Sids
    BY DEF LiveAs, LiveOf, RowKept
  <2>2. Cardinality(LiveAs(u, st)) <= Cap[st]
    BY DEF IInv, SessionInv, CapByStanding
  <2>3. Cap[st] \in Nat
    BY DEF SignInAssumption
  <2> QED BY <2>1, <2>2, <2>3, FewerSids
<1>5. ASSUME NEW w \in Workers PROVE Registering(w)'
  <2> SUFFICES ASSUME pc'[w] = "register" PROVE Registering(w)'
    BY DEF Registering
  <2>1. /\ pc[w] = "register" /\ attempt'[w] = attempt[w] /\ UserOf(w)' = UserOf(w)
        /\ holder'[UserOf(w)] = holder[UserOf(w)]
        /\ rotations'[UserOf(w)] = rotations[UserOf(w)]
    BY DEF SameRegistrations, UserOf
  <2>2. Registering(w) /\ attempt[w] \in Attempt
    BY DEF IInv, SessionInv, Types
  <2>3. UserOf(w) \in Users /\ attempt[w].sid \subseteq Sids /\ attempt[w].standing \in Standings
    BY <2>2 DEF Attempt, UserOf
  <2>4. \E s \in Sids : attempt'[w].sid = {s} /\ sessions'[s].state = "unused"
    BY <2>1, <2>2 DEF Registering, RowKept
  <2>5. ASSUME Cap[attempt[w].standing] > 0
        PROVE  Cardinality(Remaining(w)') <= Cap[attempt[w].standing]
    <3>1. Remaining(w)' \subseteq Remaining(w) /\ Remaining(w) \subseteq Sids
      BY <1>3, <2>1, <2>3 DEF Remaining
    <3>2. Cardinality(Remaining(w)) <= Cap[attempt[w].standing]
      BY <2>1, <2>2, <2>5 DEF Registering
    <3>3. Cap[attempt[w].standing] \in Nat
      BY <2>3 DEF SignInAssumption
    <3> QED BY <3>1, <3>2, <3>3, FewerSids
  <2> QED BY <2>1, <2>2, <2>4, <2>5 DEF Registering
<1>6. OwnSids'
  BY DEF IInv, SessionInv, OwnSids, SameRegistrations
<1> QED BY <1>1, <1>2, <1>4, <1>5, <1>6 DEF SessionInv

(* What a request has read stays as good as it was. *)
LEMMA StillJudged ==
  ASSUME SignInAssumption, IInv, Types', NEW r \in Requests, request'[r] = request[r],
         \A s \in request[r].sid : RowKept(sessions[s], sessions'[s])
  PROVE  Judged(r)'
<1> SUFFICES ASSUME NEW s \in request[r].sid
             PROVE  /\ sessions'[s].state # "unused"
                    /\ sessions'[s].state = "live" =>
                         /\ request[r].verdict = "pass" => request[r].now <= sessions'[s].seen + Slack
                         /\ request[r].verdict = "idled" =>
                              request[r].used + Idle[sessions'[s].standing] < request[r].now + Slack
  BY DEF Judged
<1>1. /\ request[r] \in Request /\ request[r].now \in Nat /\ request[r].now <= clock
      /\ clock \in Nat /\ s \in Sids
  BY DEF IInv, Types, SignInTypeOK, Request
<1>2. sessions[s].seen \in Nat /\ sessions'[s].seen \in Nat
  BY <1>1 DEF IInv, Types, SignInTypeOK, Session
<1>3. Judged(r) /\ RowKept(sessions[s], sessions'[s])
  BY DEF IInv, RequestInv
<1>4. sessions'[s].state # "unused"
  BY <1>3 DEF Judged, RowKept
<1>5. ASSUME sessions'[s].state = "live"
      PROVE  /\ request[r].verdict = "pass" => request[r].now <= sessions'[s].seen + Slack
             /\ request[r].verdict = "idled" =>
                  request[r].used + Idle[sessions'[s].standing] < request[r].now + Slack
  <2>1. /\ sessions[s].state = "live" /\ sessions'[s].standing = sessions[s].standing
        /\ sessions[s].seen <= sessions'[s].seen \/ clock <= sessions'[s].seen + Timeout
    BY <1>3, <1>5 DEF RowKept
  <2>2. /\ request[r].verdict = "pass" => request[r].now <= sessions[s].seen + Slack
        /\ request[r].verdict = "idled" =>
             request[r].used + Idle[sessions[s].standing] < request[r].now + Slack
    BY <1>3, <2>1 DEF Judged
  <2> QED BY <1>1, <1>2, <2>1, <2>2, SlackBounds
<1> QED BY <1>4, <1>5

(* No more is expected of a session that nobody lets through and nothing restores. *)
LEMMA StillExpected ==
  ASSUME SignInAssumption, IInv, NEW s \in Sids, overdue'[s] = overdue[s],
         Passing(s)' \subseteq Passing(s),
         Good(s)' => Good(s),
         sessions'[s].state = "unused" => sessions[s].state = "unused"
  PROVE  Expected(s)'
<1>1. Expected(s) /\ overdue[s] \in Nat /\ Passing(s) \subseteq Requests
  BY DEF IInv, RequestInv, Types, Passing
<1>2. /\ Cardinality(Passing(s)) \in Nat /\ Cardinality(Passing(s)') \in Nat
      /\ Cardinality(Passing(s)') <= Cardinality(Passing(s)) /\ Cardinality(Requests) \in Nat
  BY <1>1, FewerRequests
<1> QED BY <1>1, <1>2 DEF Expected

(* Steps of others, that only touch or end sessions. *)
LEMMA RequestsWane ==
  ASSUME SignInAssumption, IInv, Types', UNCHANGED <<request, overdue>>,
         \A s \in Sids : /\ RowKept(sessions[s], sessions'[s])
                         /\ Good(s)' => Good(s)
  PROVE  RequestInv'
<1>1. ASSUME NEW r \in Requests PROVE Judged(r)'
  <2>1. request[r].sid \subseteq Sids
    BY DEF IInv, Types, SignInTypeOK, Request
  <2> QED BY <2>1, StillJudged
<1>2. ASSUME NEW s \in Sids PROVE Expected(s)'
  <2>1. Passing(s)' = Passing(s)
    BY DEF Passing
  <2> QED BY <2>1, StillExpected DEF RowKept
<1> QED BY <1>1, <1>2 DEF RequestInv

(* Nobody's standing changes. *)
SameStanding ==
  \A u \in Users : account'[u].active = account[u].active
                   /\ account'[u].standing = account[u].standing

(* Rows that are not written are kept. *)
LEMMA SameRows ==
  ASSUME IInv, UNCHANGED sessions
  PROVE  \A s \in Sids : RowKept(sessions[s], sessions'[s])
<1>1. \A s \in Sids : sessions[s].seen \in Nat
  BY DEF IInv, Types, SignInTypeOK, Session
<1> QED BY <1>1 DEF RowKept

(* Steps that leave sessions, requests and standings alone. *)
LEMMA SameRequests ==
  ASSUME SignInAssumption, IInv, Types', SameStanding, UNCHANGED <<sessions, request, overdue>>
  PROVE  RequestInv'
<1>1. \A s \in Sids : Good(s)' => Good(s)
  <2>1. \A s \in Sids : sessions[s].user \in Users
    BY DEF IInv, Types, SignInTypeOK, Session
  <2> QED BY <2>1 DEF Good, SameStanding
<1> QED BY <1>1, SameRows, RequestsWane

(* Such steps keep the sessions' part and the requests'. *)
LEMMA SameSessions ==
  ASSUME SignInAssumption, IInv, Types', SameRegistrations, clock' >= clock, SameStanding,
         UNCHANGED <<sessions, rotations, request, overdue>>
  PROVE  SessionInv' /\ RequestInv'
BY SameRows, RowsWane, SameRequests

(* LockedWhenDue, of one account. *)
Due(u) ==
  LET f == fails[u]
      n == Len(f)
  IN (n >= Threshold /\ \A i \in (n - Threshold + 2)..n : f[i - 1] + Window > f[i])
       => account[u].lockedUntil > f[n]

LockoutOf(u) == Counted(u) /\ Watched(u) /\ Due(u)

(* The lockout's half is about one account at a time. *)
LEMMA LockoutByUser ==
  /\ LockoutInv /\ LockedWhenDue <=> \A u \in Users : LockoutOf(u)
  /\ LockoutInv' /\ LockedWhenDue' <=> \A u \in Users : LockoutOf(u)'
BY DEF LockoutInv, LockedWhenDue, LockoutOf, Due

(* An account whose lockout columns a step leaves alone. *)
LEMMA SameLockoutOf ==
  ASSUME SignInAssumption, IInv, Types', clock' >= clock, NEW u \in Users,
         fails'[u] = fails[u], late'[u] = late[u],
         account'[u].count = account[u].count,
         account'[u].lastFailed = account[u].lastFailed,
         account'[u].lockedUntil = account[u].lockedUntil,
         account[u].lockedUntil > clock => Guessing(u)' \subseteq Guessing(u)
  PROVE  LockoutOf(u)'
<1>1. LockoutOf(u)
  BY LockoutByUser DEF IInv
<1>2. Counted(u)' /\ Due(u)'
  BY <1>1 DEF LockoutOf, Counted, Due, Run
<1>3. Watched(u)'
  <2>1. Watched(u) /\ late[u] \in Nat /\ clock \in Nat /\ clock' \in Nat /\ account[u] \in Account
    BY <1>1 DEF IInv, LockoutOf, Types, SignInTypeOK
  <2>2. account[u].lockedUntil \in Nat
    BY <2>1 DEF Account
  <2>3. ASSUME account'[u].lockedUntil > clock'
        PROVE  late[u] + Cardinality(Guessing(u)') < Cardinality(Workers)
    <3>1. account[u].lockedUntil > clock
      BY <2>1, <2>2, <2>3
    <3>2. Guessing(u)' \subseteq Guessing(u) /\ Guessing(u) \subseteq Workers
      BY <3>1 DEF Guessing
    <3>3. late[u] + Cardinality(Guessing(u)) < Cardinality(Workers)
      BY <2>1, <3>1 DEF Watched
    <3> QED BY <2>1, <3>2, <3>3, FewerWorkers, SomeWorker
  <2> QED BY <2>1, <2>3 DEF Watched
<1> QED BY <1>2, <1>3 DEF LockoutOf

(* An account whose failures and lock a step clears. *)
LEMMA ClearedLockoutOf ==
  ASSUME SignInAssumption, Types', NEW u \in Users,
         fails'[u] = <<>>, late'[u] = 0, account'[u].lockedUntil = 0
  PROVE  LockoutOf(u)'
<1>1. ~(account'[u].lockedUntil > clock')
  BY DEF Types, SignInTypeOK
<1>2. Len(fails'[u]) = 0
  OBVIOUS
<1> QED BY <1>1, <1>2, SomeWorker DEF LockoutOf, Counted, Watched, Due, SignInAssumption

(* Steps that judge no password keep the lockout's half. *)
LEMMA SameLockout ==
  ASSUME SignInAssumption, IInv, Types', UNCHANGED <<fails, late>>, clock' >= clock,
         \A u \in Users : /\ account'[u].count = account[u].count
                          /\ account'[u].lastFailed = account[u].lastFailed
                          /\ account'[u].lockedUntil = account[u].lockedUntil,
         \A u \in Users : account[u].lockedUntil > clock => Guessing(u)' \subseteq Guessing(u)
  PROVE  LockoutInv' /\ LockedWhenDue'
BY SameLockoutOf, LockoutByUser

-----------------------------------------------------------------------------
(* The first state *)

(* The values no sign-in and no session have. *)
LEMMA EmptyTypes ==
  ASSUME SignInAssumption
  PROVE  /\ NoAttempt \in Attempt /\ NoAttempt.now = 0
         /\ \A state \in {"unused", "purged"} : NoRow(state) \in Session
         /\ NoRequest \in Request /\ NoRequest.now = 0 /\ NoRequest.sid = {}
<1>1. (CHOOSE u \in Users : TRUE) \in Users /\ (CHOOSE st \in Standings : TRUE) \in Standings
  BY DEF SignInAssumption
<1> QED BY <1>1 DEF NoAttempt, Attempt, NoRow, Session, NoRequest, Request

(* Before anyone signs in there is no session and no lock. *)
LEMMA InitSound ==
  ASSUME SignInAssumption, Init
  PROVE  IInv
<1>1. Types
  BY EmptyTypes DEF Init, Types, SignInTypeOK, Account, Attempt
<1>2. ASSUME NEW u \in Users PROVE Counted(u) /\ Watched(u)
  BY SomeWorker DEF Init, Counted, Watched
<1>3. LockedWhenDue
  BY DEF Init, LockedWhenDue, SignInAssumption
<1>4. \A u \in Users : LiveOf(u) = {}
  BY DEF Init, LiveOf, NoRow
<1>5. CapByStanding
  <2>1. \A u \in Users, st \in Standings : LiveAs(u, st) = {}
    BY <1>4 DEF LiveAs
  <2> QED BY <2>1, FS_EmptySet DEF CapByStanding, SignInAssumption
<1>6. SessionInv
  BY <1>5 DEF Init, SessionInv, SoundRow, RotationEndsSessions, Registering, OwnSids, NoRow
<1>7. RequestInv
  <2>1. \A r \in Requests : request[r] = NoRequest
    BY DEF Init
  <2>2. \A s \in Sids : Passing(s) = {} /\ overdue[s] = 0
    BY <2>1, EmptyTypes DEF Init, Passing
  <2>3. Cardinality(Requests) \in Nat /\ Cardinality({}) = 0
    BY FewerRequests, FS_EmptySet
  <2>4. \A r \in Requests : Judged(r)
    BY <2>1, EmptyTypes DEF Judged
  <2>5. ASSUME NEW s \in Sids PROVE Expected(s)
    <3>1. Cardinality(Passing(s)) = 0 /\ overdue[s] = 0
      BY <2>2, <2>3
    <3> QED BY <2>3, <3>1 DEF Expected
  <2> QED BY <2>4, <2>5 DEF RequestInv
<1> QED BY <1>1, <1>2, <1>3, <1>6, <1>7 DEF IInv, LockoutInv

-----------------------------------------------------------------------------
(* authenticate *)

(* What the invariant says of one sign-in. *)
LEMMA OneSignIn ==
  ASSUME SignInAssumption, IInv, NEW w \in Workers
  PROVE  /\ attempt[w] \in Attempt /\ UserOf(w) \in Users /\ attempt[w].now \in Nat
         /\ attempt[w].now <= clock /\ clock \in Nat
         /\ account[UserOf(w)] \in Account
         /\ holder[UserOf(w)] = Nobody => pc[w] # "register"
<1>1. attempt[w] \in Attempt /\ attempt[w].now <= clock /\ clock \in Nat
  BY DEF IInv, Types, SignInTypeOK
<1>2. UserOf(w) \in Users /\ attempt[w].now \in Nat
  BY <1>1 DEF UserOf, Attempt
<1>3. account[UserOf(w)] \in Account
  BY <1>2 DEF IInv, Types, SignInTypeOK
<1>4. holder[UserOf(w)] = Nobody => pc[w] # "register"
  BY DEF IInv, SessionInv, Registering, SignInAssumption
<1> QED BY <1>1, <1>2, <1>3, <1>4

(* The account is read. *)
LEMMA BeginStep ==
  ASSUME SignInAssumption, IInv, NEW w \in Workers, NEW u \in Users, NEW right \in BOOLEAN,
         Begin(w, u, right)
  PROVE  IInv'
<1> DEFINE new == [NoAttempt EXCEPT !.user = u, !.right = right, !.now = clock,
                                    !.wasLocked = account[u].lockedUntil # 0,
                                    !.standing = account[u].standing]
<1>1. account[u] \in Account /\ clock \in Nat
  BY DEF IInv, Types, SignInTypeOK
<1>2. /\ new \in Attempt /\ new.now = clock /\ new.user = u
      /\ new.wasLocked = (account[u].lockedUntil # 0)
  BY <1>1, EmptyTypes DEF Attempt, Account
<1>3. /\ pc[w] = "idle" /\ pc' = [pc EXCEPT ![w] = "check"]
      /\ attempt' = [attempt EXCEPT ![w] = new]
      /\ UNCHANGED <<account, holder, fails, late, rotations, sessions, request, overdue, clock>>
  BY DEF Begin, Goto, people, asking
<1> HIDE DEF new
<1>4. \A x \in Workers : attempt'[x] = IF x = w THEN new ELSE attempt[x]
  BY <1>3 DEF IInv, Types
<1>5. \A x \in Workers : pc'[x] = IF x = w THEN "check" ELSE pc[x]
  BY <1>3 DEF IInv, Types, SignInTypeOK
<1>6. Types'
  <2>1. attempt' \in [Workers -> Attempt]
    BY <1>2, <1>3 DEF IInv, Types
  <2>2. \A x \in Workers : attempt'[x].now <= clock' /\ attempt'[x].standing \in Standings
    BY <1>1, <1>2, <1>3, <1>4 DEF IInv, Types, SignInTypeOK, Attempt
  <2>3. \A v \in Users : holder'[v] # Nobody => pc'[holder'[v]] = "register"
    BY <1>3, <1>5 DEF IInv, Types, SignInTypeOK
  <2> QED BY <1>3, <2>1, <2>2, <2>3 DEF IInv, Types, SignInTypeOK
<1>7. SameRegistrations
  BY <1>3, <1>4, <1>5 DEF SameRegistrations
<1>8. ASSUME NEW v \in Users, account[v].lockedUntil > clock
      PROVE  Guessing(v)' \subseteq Guessing(v)
  <2>1. account[v].lockedUntil # 0
    <3>1. account[v] \in Account
      BY DEF IInv, Types, SignInTypeOK
    <3> QED BY <1>1, <1>8, <3>1 DEF Account
  <2> QED BY <1>2, <1>4, <1>5, <2>1 DEF Guessing, UserOf
<1>9. SessionInv' /\ RequestInv'
  BY <1>1, <1>3, <1>6, <1>7, SameSessions DEF SameStanding
<1>10. LockoutInv' /\ LockedWhenDue'
  BY <1>1, <1>3, <1>6, <1>8, SameLockout
<1> QED BY <1>6, <1>9, <1>10 DEF IInv

(* A sign-in moves without touching anyone else. *)
Moves(w, label) ==
  /\ pc' = [pc EXCEPT ![w] = label]
  /\ \A x \in Workers : x # w => attempt'[x] = attempt[x]
  /\ attempt'[w].now <= clock
  /\ attempt' \in [Workers -> Attempt]

(* Such a move keeps the types. *)
LEMMA MoveTypes ==
  ASSUME SignInAssumption, IInv, NEW w \in Workers,
         NEW label \in {"idle", "judge", "factor", "lock"}, Moves(w, label),
         account' \in [Users -> Account], fails' \in [Users -> Seq(Nat)],
         late' \in [Users -> Nat], sessions' \in [Sids -> Session],
         UNCHANGED <<rotations, request, overdue, clock>>,
         \/ pc[w] # "register" /\ UNCHANGED holder
         \/ holder' = [u \in Users |-> IF holder[u] = w THEN Nobody ELSE holder[u]]
  PROVE  Types' /\ SameRegistrations
<1>1. \A x \in Workers : pc'[x] = IF x = w THEN label ELSE pc[x]
  BY DEF IInv, Types, SignInTypeOK, Moves
<1>2. pc' \in [Workers -> {"idle", "check", "judge", "factor", "lock", "register"}]
  BY DEF IInv, Types, SignInTypeOK, Moves
<1>3. \A x \in Workers : attempt'[x].now <= clock' /\ attempt'[x].standing \in Standings
  <2> SUFFICES ASSUME NEW x \in Workers
               PROVE  attempt'[x].now <= clock' /\ attempt'[x].standing \in Standings
    OBVIOUS
  <2>1. attempt[x].now <= clock /\ clock \in Nat /\ attempt'[x] \in Attempt
    BY DEF IInv, Types, SignInTypeOK, Moves
  <2>3. attempt'[x].now <= clock
    BY <2>1 DEF Moves
  <2> QED BY <2>1, <2>3 DEF Attempt
<1>4. holder' \in [Users -> Workers \cup {Nobody}]
  BY DEF IInv, Types
<1>5. \A u \in Users : holder'[u] # Nobody => holder'[u] = holder[u] /\ (pc[w] = "register" => holder[u] # w)
  BY DEF IInv, Types
<1>6. \A u \in Users : holder'[u] # Nobody => pc'[holder'[u]] = "register"
  BY <1>1, <1>4, <1>5, Zenon DEF IInv, Types, SignInTypeOK
<1>7. Types'
  BY <1>2, <1>3, <1>4, <1>6 DEF IInv, Types, SignInTypeOK, Moves
<1>8. SameRegistrations
  <2> SUFFICES ASSUME NEW x \in Workers, pc'[x] = "register"
               PROVE  /\ pc[x] = "register" /\ attempt'[x] = attempt[x]
                      /\ holder'[attempt[x].user] = holder[attempt[x].user]
                      /\ rotations'[attempt[x].user] = rotations[attempt[x].user]
    BY DEF SameRegistrations
  <2>1. x # w /\ pc[x] = "register" /\ attempt'[x] = attempt[x]
    BY <1>1 DEF Moves
  <2>2. holder[attempt[x].user] = x /\ attempt[x].user \in Users
    BY <2>1, OneSignIn DEF IInv, SessionInv, Registering, UserOf
  <2> QED BY <2>1, <2>2
<1> QED BY <1>7, <1>8

(* A sign-in that is over. *)
LEMMA GivenUp ==
  ASSUME SignInAssumption, IInv, NEW w \in Workers, Finish(w)
  PROVE  Moves(w, "idle")
<1>1. NoAttempt \in Attempt /\ NoAttempt.now <= clock
  BY EmptyTypes, OneSignIn
<1> QED BY <1>1 DEF Finish, Goto, Moves, IInv, Types

(* The lock is looked at: a sign-in that saw it and still sees it is refused. *)
LEMMA CheckStep ==
  ASSUME SignInAssumption, IInv, NEW w \in Workers, Check(w)
  PROVE  IInv'
<1>1. /\ pc[w] = "check"
      /\ UNCHANGED <<account, holder, fails, late, rotations, sessions, request, overdue, clock>>
  BY DEF Check, people, asking
<1>2. PICK label \in {"idle", "judge"} :
        /\ Moves(w, label)
        /\ label = "judge" => ~StillLocked(w) /\ UNCHANGED attempt
  <2>0. NoAttempt \in Attempt /\ NoAttempt.now = 0
    BY EmptyTypes
  <2>1. /\ attempt \in [Workers -> Attempt] /\ NoAttempt \in Attempt
        /\ attempt[w].now <= clock /\ NoAttempt.now <= clock
    <3>1. attempt \in [Workers -> Attempt]
      BY DEF IInv, Types
    <3>2. attempt[w].now <= clock /\ clock \in Nat
      BY OneSignIn
    <3> QED BY <2>0, <3>1, <3>2
  <2>2. CASE StillLocked(w) /\ Finish(w)
    <3>1. pc' = [pc EXCEPT ![w] = "idle"] /\ attempt' = [attempt EXCEPT ![w] = NoAttempt]
      BY <2>2 DEF Finish, Goto
    <3>2. Moves(w, "idle")
      BY <2>1, <3>1 DEF Moves
    <3> QED BY <3>2
  <2>3. CASE ~StillLocked(w) /\ Goto(w, "judge") /\ UNCHANGED attempt
    BY <2>1, <2>3 DEF Goto, Moves
  <2> QED BY <2>2, <2>3 DEF Check
<1>3. Types' /\ SameRegistrations
  <2>1. /\ account' \in [Users -> Account] /\ fails' \in [Users -> Seq(Nat)]
        /\ late' \in [Users -> Nat] /\ sessions' \in [Sids -> Session]
    BY <1>1 DEF IInv, Types, SignInTypeOK
  <2>2. /\ pc[w] # "register" /\ UNCHANGED holder
        /\ UNCHANGED <<rotations, request, overdue, clock>>
    BY <1>1
  <2>3. label \in {"idle", "judge", "factor", "lock"} /\ Moves(w, label)
    BY <1>2
  <2> QED BY <2>1, <2>2, <2>3, MoveTypes
<1>4. ASSUME NEW v \in Users, account[v].lockedUntil > clock
      PROVE  Guessing(v)' \subseteq Guessing(v)
  <2>1. \A x \in Workers : x # w => pc'[x] = pc[x] /\ attempt'[x] = attempt[x]
    BY <1>2 DEF Moves, IInv, Types, SignInTypeOK
  <2>2. pc'[w] = label
    BY <1>2 DEF Moves, IInv, Types, SignInTypeOK
  <2>3. ASSUME w \in Guessing(v)' PROVE w \in Guessing(v)
    <3>1. label = "judge" /\ attempt'[w] = attempt[w] /\ UserOf(w) = v /\ ~StillLocked(w)
      BY <1>2, <2>2, <2>3 DEF Guessing, UserOf
    <3>2. account[v].lockedUntil > attempt[w].now
      <4>1. account[v].lockedUntil \in Nat
        BY <3>1, OneSignIn DEF Account
      <4> QED BY <1>4, <4>1, OneSignIn
    <3>3. attempt[w].wasLocked \in BOOLEAN
      BY OneSignIn DEF Attempt
    <3>4. ~attempt[w].wasLocked
      BY <3>1, <3>2, <3>3 DEF StillLocked
    <3> QED BY <1>1, <3>1, <3>4 DEF Guessing
  <2> QED BY <2>1, <2>3 DEF Guessing, UserOf
<1>5. SessionInv' /\ RequestInv'
  BY <1>1, <1>3, SameSessions, OneSignIn DEF SameStanding
<1>6. LockoutInv' /\ LockedWhenDue'
  BY <1>1, <1>3, <1>4, SameLockout, OneSignIn
<1> QED BY <1>3, <1>5, <1>6 DEF IInv

(* A sign-in is given up, its transaction with it. *)
LEMMA AbandonStep ==
  ASSUME SignInAssumption, IInv, NEW w \in Workers, Abandon(w)
  PROVE  IInv'
<1>1. /\ UNCHANGED <<account, fails, late, rotations, sessions, request, overdue, clock>>
      /\ holder' = [u \in Users |-> IF holder[u] = w THEN Nobody ELSE holder[u]]
  BY DEF Abandon, asking
<1>2. Moves(w, "idle")
  BY GivenUp DEF Abandon
<1>3. Types' /\ SameRegistrations
  BY <1>1, <1>2, MoveTypes DEF IInv, Types, SignInTypeOK
<1>4. \A v \in Users : Guessing(v)' \subseteq Guessing(v)
  BY <1>2 DEF Moves, IInv, Types, SignInTypeOK, Guessing, UserOf
<1>5. SessionInv' /\ RequestInv'
  BY <1>1, <1>3, SameSessions, OneSignIn DEF SameStanding
<1>6. LockoutInv' /\ LockedWhenDue'
  BY <1>1, <1>3, <1>4, SameLockout, OneSignIn
<1> QED BY <1>3, <1>5, <1>6 DEF IInv

(* One more wrong password: the row it leaves counts the run that now ends. *)
LEMMA CountOneMore ==
  ASSUME SignInAssumption, NEW row \in Account, NEW f \in Seq(Nat), NEW now \in Nat,
         Len(f) > 0 => /\ row.lastFailed = f[Len(f)]
                       /\ \A k \in 1..Len(f) : Run(f, k) => row.count >= k
  PROVE  LET new == Failed(row, now)
             g == Append(f, now)
         IN /\ new \in Account /\ g \in Seq(Nat) /\ Len(g) > 0
            /\ new.lastFailed = g[Len(g)] /\ g[Len(g)] = now
            /\ \A k \in 1..Len(g) : Run(g, k) => new.count >= k
            /\ new.count >= Threshold => new.lockedUntil > now
            /\ row.lockedUntil > now => new.lockedUntil = row.lockedUntil
<1> DEFINE new == Failed(row, now)
           g == Append(f, now)
           n == NewCount(row, now)
<1>1. /\ row.count \in Nat /\ row.lastFailed \in Nat /\ row.lockedUntil \in Nat
      /\ Window \in Nat /\ Threshold \in Nat /\ LockFor \in Nat /\ LockFor > 0
  BY DEF Account, SignInAssumption
<1>2. n \in Nat /\ n >= 1
  BY <1>1 DEF NewCount
<1>3. g \in Seq(Nat) /\ Len(g) = Len(f) + 1 /\ g[Len(g)] = now /\ Len(f) \in Nat
      /\ \A i \in 1..Len(f) : g[i] = f[i]
  OBVIOUS
<1>4. /\ new.count = n /\ new.lastFailed = now
      /\ new.lockedUntil = IF n >= Threshold /\ Lockable(row, now)
                           THEN now + LockFor ELSE row.lockedUntil
      /\ new \in Account
  <2>1. Lockable(row, now) \in BOOLEAN
    BY <1>1 DEF Lockable
  <2>2. now + LockFor \in Nat
    BY <1>1
  <2> QED BY <1>1, <1>2, <2>1, <2>2 DEF Failed, Account
<1>5. ASSUME NEW k \in 1..Len(g), Run(g, k) PROVE n >= k
  <2>1. CASE k = 1
    BY <1>2, <2>1
  <2>2. CASE k > 1
    <3>1. k - 1 \in 1..Len(f) /\ Len(f) > 0
      BY <1>3, <2>2
    <3>2. Run(f, k - 1)
      <4> SUFFICES ASSUME NEW i \in (Len(f) - (k - 1) + 2)..Len(f)
                   PROVE  f[i - 1] + Window > f[i]
        BY DEF Run
      <4>1. i \in (Len(g) - k + 2)..Len(g) /\ i \in 1..Len(f) /\ i - 1 \in 1..Len(f)
        BY <1>3, <2>2
      <4> QED BY <1>3, <1>5, <4>1 DEF Run
    <3>3. row.count >= k - 1 /\ row.lastFailed = f[Len(f)]
      BY <3>1, <3>2
    <3>4. f[Len(f)] + Window > now
      <4>1. Len(g) \in (Len(g) - k + 2)..Len(g) /\ Len(g) - 1 = Len(f) /\ Len(f) \in 1..Len(f)
        BY <1>3, <2>2, <3>1
      <4> QED BY <1>3, <1>5, <4>1 DEF Run
    <3>5. n = row.count + 1
      BY <3>3, <3>4 DEF NewCount
    <3> QED BY <1>1, <3>3, <3>5
  <2> QED BY <2>1, <2>2, <1>3
<1>6. n >= Threshold => new.lockedUntil > now
  BY <1>1, <1>4 DEF Lockable
<1>7. row.lockedUntil > now => new.lockedUntil = row.lockedUntil
  BY <1>1, <1>4 DEF Lockable
<1> QED BY <1>3, <1>4, <1>5, <1>6, <1>7

(* A wrong password is counted, and locks the account when the run is long enough. *)
LEMMA FailStep ==
  ASSUME SignInAssumption, IInv, NEW w \in Workers, Fail(w)
  PROVE  IInv'
<1>0. PICK u \in Users : u = UserOf(w)
  BY OneSignIn
<1> DEFINE now == attempt[w].now
           row == account[u]
           new == Failed(row, now)
           g == Append(fails[u], now)
<1>1. /\ pc[w] = "judge" /\ UNCHANGED <<holder, sessions, rotations, request, overdue, clock>>
      /\ account' = [account EXCEPT ![u] = new] /\ fails' = [fails EXCEPT ![u] = g]
      /\ late' = [late EXCEPT ![u] = IF row.lockedUntil > clock THEN late[u] + 1 ELSE 0]
      /\ Finish(w)
  BY <1>0 DEF Fail, asking
<1>2. /\ now \in Nat /\ now <= clock /\ clock \in Nat /\ row \in Account
      /\ fails[u] \in Seq(Nat) /\ late[u] \in Nat /\ row.lockedUntil \in Nat
  BY <1>0, OneSignIn DEF IInv, Types, Account
<1>3. LockoutOf(u)
  BY <1>2, LockoutByUser DEF IInv
<1>4. /\ new \in Account /\ g \in Seq(Nat) /\ Len(g) > 0
      /\ new.lastFailed = g[Len(g)] /\ g[Len(g)] = now
      /\ \A k \in 1..Len(g) : Run(g, k) => new.count >= k
      /\ new.count >= Threshold => new.lockedUntil > now
      /\ row.lockedUntil > now => new.lockedUntil = row.lockedUntil
  <2>1. Len(fails[u]) > 0 =>
          /\ row.lastFailed = fails[u][Len(fails[u])]
          /\ \A k \in 1..Len(fails[u]) : Run(fails[u], k) => row.count >= k
    BY <1>3 DEF LockoutOf, Counted
  <2> HIDE DEF row, now
  <2> QED BY <1>2, <2>1, CountOneMore
<1>15. new.active = row.active /\ new.standing = row.standing
  BY <1>2 DEF Failed, Account
<1> HIDE DEF new, g
<1>5. Moves(w, "idle")
  BY <1>1, GivenUp
<1>6. /\ account' \in [Users -> Account] /\ account'[u] = new
      /\ fails' \in [Users -> Seq(Nat)] /\ fails'[u] = g
      /\ late' \in [Users -> Nat]
      /\ late'[u] = IF row.lockedUntil > clock THEN late[u] + 1 ELSE 0
      /\ \A v \in Users : v # u => /\ account'[v] = account[v] /\ fails'[v] = fails[v]
                                   /\ late'[v] = late[v]
  <2>1. /\ account \in [Users -> Account] /\ fails \in [Users -> Seq(Nat)]
        /\ late \in [Users -> Nat]
    BY DEF IInv, Types, SignInTypeOK
  <2>2. (IF row.lockedUntil > clock THEN late[u] + 1 ELSE 0) \in Nat
    BY <1>2
  <2>3. /\ account' \in [Users -> Account] /\ account'[u] = new
        /\ \A v \in Users : v # u => account'[v] = account[v]
    BY <1>1, <1>4, <2>1
  <2>4. /\ fails' \in [Users -> Seq(Nat)] /\ fails'[u] = g
        /\ \A v \in Users : v # u => fails'[v] = fails[v]
    BY <1>1, <1>4, <2>1
  <2>5. /\ late' \in [Users -> Nat]
        /\ late'[u] = IF row.lockedUntil > clock THEN late[u] + 1 ELSE 0
        /\ \A v \in Users : v # u => late'[v] = late[v]
    BY <1>1, <2>1, <2>2
  <2> QED BY <2>3, <2>4, <2>5
<1>7. Types' /\ SameRegistrations
  BY <1>1, <1>5, <1>6, MoveTypes DEF IInv, Types, SignInTypeOK
<1>8. SessionInv' /\ RequestInv'
  <2>1. SameStanding
    BY <1>6, <1>15 DEF SameStanding
  <2> QED BY <1>1, <1>2, <1>7, <2>1, SameSessions
<1>9. \A v \in Users : Guessing(v)' \subseteq Guessing(v) \ {w}
  BY <1>5 DEF Moves, IInv, Types, SignInTypeOK, Guessing, UserOf
<1>10. ASSUME NEW v \in Users, v # u PROVE LockoutOf(v)'
  BY <1>1, <1>2, <1>6, <1>7, <1>9, <1>10, SameLockoutOf
<1>11. Counted(u)'
  BY <1>4, <1>6 DEF Counted
<1>12. Due(u)'
  <2> SUFFICES ASSUME Len(g) >= Threshold,
                      \A i \in (Len(g) - Threshold + 2)..Len(g) : g[i - 1] + Window > g[i]
               PROVE  new.lockedUntil > g[Len(g)]
    BY <1>6 DEF Due
  <2>1. Run(g, Threshold) /\ Threshold \in 1..Len(g)
    BY <1>4 DEF Run, SignInAssumption
  <2> QED BY <1>4, <2>1
<1>13. Watched(u)'
  <2>1. w \in Guessing(u) /\ Guessing(u) \subseteq Workers
    BY <1>0, <1>1 DEF Guessing
  <2>2. CASE row.lockedUntil > clock
    <3>1. late[u] + Cardinality(Guessing(u)) < Cardinality(Workers)
      BY <1>3, <2>2 DEF LockoutOf, Watched
    <3>2. Cardinality(Guessing(u)') <= Cardinality(Guessing(u) \ {w})
          /\ Cardinality(Guessing(u)') \in Nat
      BY <1>2, <1>9, <2>1, FewerWorkers
    <3>3. Cardinality(Guessing(u)) = Cardinality(Guessing(u) \ {w}) + 1
          /\ Cardinality(Guessing(u) \ {w}) \in Nat
      BY <2>1, WorkerLeaves
    <3>4. late'[u] = late[u] + 1
      BY <1>6, <2>2
    <3>5. Cardinality(Workers) \in Nat /\ Cardinality(Guessing(u)) \in Nat
      BY <2>1, <3>3, SomeWorker
    <3>6. late[u] + 1 + Cardinality(Guessing(u)') < Cardinality(Workers)
      BY <1>2, <3>1, <3>2, <3>3, <3>5
    <3> HIDE DEF row
    <3> QED BY <1>2, <3>2, <3>4, <3>5, <3>6 DEF Watched
  <2>3. CASE ~(row.lockedUntil > clock)
    <3>1. late'[u] = 0
      BY <1>6, <2>3
    <3>2. Guessing(u)' \subseteq Workers \ {w}
      BY <1>2, <1>9, <2>1
    <3>3. Cardinality(Guessing(u)') <= Cardinality(Workers \ {w}) /\ Cardinality(Guessing(u)') \in Nat
      BY <3>2, FewerWorkers
    <3>4. Cardinality(Workers) = Cardinality(Workers \ {w}) + 1 /\ Cardinality(Workers \ {w}) \in Nat
      BY WorkerLeaves
    <3> QED BY <3>1, <3>3, <3>4, SomeWorker DEF Watched
  <2> QED BY <2>2, <2>3
<1>14. \A v \in Users : LockoutOf(v)'
  BY <1>10, <1>11, <1>12, <1>13 DEF LockoutOf
<1> QED BY <1>7, <1>8, <1>14, LockoutByUser DEF IInv

(* The right password clears failures and lock. *)
LEMMA SucceedStep ==
  ASSUME SignInAssumption, IInv, NEW w \in Workers, Succeed(w)
  PROVE  IInv'
<1>0. PICK u \in Users : u = UserOf(w)
  BY OneSignIn
<1> DEFINE new == [Reset(account[u]) EXCEPT !.lastFailed = 0]
<1>1. /\ pc[w] = "judge"
      /\ UNCHANGED <<holder, sessions, attempt, rotations, request, overdue, clock>>
      /\ account' = [account EXCEPT ![u] = new] /\ fails' = [fails EXCEPT ![u] = <<>>]
      /\ late' = [late EXCEPT ![u] = 0] /\ pc' = [pc EXCEPT ![w] = "factor"]
  BY <1>0 DEF Succeed, Goto, asking
<1>2. account[u] \in Account /\ clock \in Nat
  BY <1>0, OneSignIn
<1>3. /\ new \in Account /\ new.lockedUntil = 0
      /\ new.active = account[u].active /\ new.standing = account[u].standing
  BY <1>2 DEF Reset, Account
<1> HIDE DEF new
<1>4. Moves(w, "factor")
  BY <1>1, OneSignIn DEF Moves, IInv, Types
<1>5. /\ account' \in [Users -> Account] /\ fails' \in [Users -> Seq(Nat)]
      /\ late' \in [Users -> Nat]
      /\ account'[u].lockedUntil = 0 /\ fails'[u] = <<>> /\ late'[u] = 0
      /\ \A v \in Users : v # u => /\ account'[v] = account[v] /\ fails'[v] = fails[v]
                                   /\ late'[v] = late[v]
  BY <1>1, <1>2, <1>3 DEF IInv, Types, SignInTypeOK
<1>6. Types' /\ SameRegistrations
  BY <1>1, <1>4, <1>5, MoveTypes DEF IInv, Types, SignInTypeOK
<1>7. SessionInv' /\ RequestInv'
  <2>1. SameStanding
    BY <1>1, <1>3 DEF SameStanding, IInv, Types, SignInTypeOK
  <2> QED BY <1>1, <1>2, <1>6, <2>1, SameSessions
<1>8. \A v \in Users : Guessing(v)' \subseteq Guessing(v)
  BY <1>4 DEF Moves, IInv, Types, SignInTypeOK, Guessing, UserOf
<1>9. ASSUME NEW v \in Users PROVE LockoutOf(v)'
  <2>1. CASE v = u
    BY <1>5, <1>6, <2>1, ClearedLockoutOf
  <2>2. CASE v # u
    BY <1>1, <1>2, <1>5, <1>6, <1>8, <2>2, SameLockoutOf
  <2> QED BY <2>1, <2>2
<1> QED BY <1>6, <1>7, <1>9, LockoutByUser DEF IInv

-----------------------------------------------------------------------------
(* register_session *)

(* The evictions leave no more than the cap. *)
LEMMA EvictionsRespectCap ==
  ASSUME NEW rows, IsFiniteSet(DOMAIN rows), NEW cap \in Nat, cap > 0,
         NEW E \in Evictions(rows, cap)
  PROVE  E \subseteq DOMAIN rows /\ Cardinality(DOMAIN rows \ E) <= cap
<1>1. /\ E \in SUBSET DOMAIN rows
      /\ Cardinality(DOMAIN rows \ E) = cap \/ (E = {} /\ Cardinality(DOMAIN rows) < cap)
  BY DEF Evictions
<1>2. CASE Cardinality(DOMAIN rows \ E) = cap
  BY <1>1, <1>2
<1>3. CASE E = {} /\ Cardinality(DOMAIN rows) < cap
  <2>1. DOMAIN rows \ E = DOMAIN rows
    BY <1>3
  <2>2. Cardinality(DOMAIN rows) \in Nat
    BY FS_CardinalityType
  <2> QED BY <1>1, <1>3, <2>1, <2>2
<1> QED BY <1>1, <1>2, <1>3

(* A sign-in with another now. *)
LEMMA AttemptAt ==
  ASSUME NEW a \in Attempt, NEW now \in Nat
  PROVE  [a EXCEPT !.now = now] \in Attempt /\ [a EXCEPT !.now = now].now = now
BY DEF Attempt

(* The registration's transaction starts. *)
LEMMA OpenStep ==
  ASSUME SignInAssumption, IInv, NEW w \in Workers, Open(w)
  PROVE  IInv'
<1>1. /\ pc[w] = "factor" /\ pc' = [pc EXCEPT ![w] = "lock"]
      /\ attempt' = [attempt EXCEPT ![w].now = clock]
      /\ UNCHANGED <<account, holder, fails, late, rotations, sessions, request, overdue, clock>>
  BY DEF Open, Goto, people, asking
<1>2. Moves(w, "lock")
  <2>1. attempt[w] \in Attempt /\ clock \in Nat
    BY OneSignIn
  <2>2. [attempt[w] EXCEPT !.now = clock] \in Attempt
        /\ [attempt[w] EXCEPT !.now = clock].now = clock
    BY <2>1, AttemptAt
  <2>3. attempt \in [Workers -> Attempt]
    BY DEF IInv, Types
  <2>4. attempt' = [attempt EXCEPT ![w] = [attempt[w] EXCEPT !.now = clock]]
    BY <1>1
  <2>5. /\ attempt'[w].now = clock /\ attempt' \in [Workers -> Attempt]
        /\ \A x \in Workers : x # w => attempt'[x] = attempt[x]
    BY <2>2, <2>3, <2>4
  <2> QED BY <1>1, <2>1, <2>5 DEF Moves
<1>3. Types' /\ SameRegistrations
  BY <1>1, <1>2, MoveTypes DEF IInv, Types, SignInTypeOK
<1>4. \A v \in Users : Guessing(v)' \subseteq Guessing(v)
  BY <1>2 DEF Moves, IInv, Types, SignInTypeOK, Guessing, UserOf
<1>5. SessionInv' /\ RequestInv'
  BY <1>1, <1>3, SameSessions, OneSignIn DEF SameStanding
<1>6. LockoutInv' /\ LockedWhenDue'
  BY <1>1, <1>3, <1>4, SameLockout, OneSignIn
<1> QED BY <1>3, <1>5, <1>6 DEF IInv

(* The row is locked, the session inserted, the evictions chosen. *)
LEMMA InsertStep ==
  ASSUME SignInAssumption, IInv, NEW w \in Workers, Insert(w)
  PROVE  IInv'
<1>0. PICK u \in Users : u = UserOf(w)
  BY OneSignIn
<1> DEFINE rows(s) == [k \in LiveOf(u) \cup {s} |->
                         IF k = s THEN NewRow(w, attempt[w].now) ELSE sessions[k]]
           st == attempt[w].standing
<1>1. /\ pc[w] = "lock" /\ pc' = [pc EXCEPT ![w] = "register"]
      /\ holder[u] = Nobody /\ holder' = [holder EXCEPT ![u] = w]
      /\ UNCHANGED <<account, fails, late, rotations, sessions, request, overdue, clock>>
  BY <1>0 DEF Insert, LockRow, RowFree, Goto, asking
<1>2. PICK s \in Sids :
        /\ sessions[s].state = "unused" /\ \A x \in Workers : attempt[x].sid # {s}
        /\ \E E \in Evictions(rows(s), Cap[st]) :
             attempt' = [attempt EXCEPT ![w].sid = {s}, ![w].evict = E,
                                        ![w].epoch = rotations[u]]
  BY <1>0 DEF Insert
<1>3. PICK E \in Evictions(rows(s), Cap[st]) :
        attempt' = [attempt EXCEPT ![w].sid = {s}, ![w].evict = E,
                                   ![w].epoch = rotations[u]]
  BY <1>2
<1>4. /\ attempt[w] \in Attempt /\ clock \in Nat /\ rotations[u] \in Nat
      /\ st \in Standings /\ Cap[st] \in Nat /\ LiveOf(u) \subseteq Sids
  BY OneSignIn DEF IInv, Types, Attempt, SignInAssumption, LiveOf
<1>5. E \in SUBSET Sids
  <2>1. E \subseteq LiveOf(u) \cup {s}
    BY <1>3 DEF Evictions
  <2> QED BY <1>4, <2>1
<1>6. /\ attempt'[w] = [attempt[w] EXCEPT !.sid = {s}, !.evict = E, !.epoch = rotations[u]]
      /\ \A x \in Workers : x # w => attempt'[x] = attempt[x]
  BY <1>3 DEF IInv, Types
<1>7. /\ attempt'[w] \in Attempt /\ attempt'[w].sid = {s} /\ attempt'[w].evict = E
      /\ attempt'[w].now = attempt[w].now /\ attempt'[w].epoch = rotations[u]
      /\ attempt'[w].user = u /\ attempt'[w].standing = st
  <2> DEFINE new == [attempt[w] EXCEPT !.sid = {s}, !.evict = E, !.epoch = rotations[u]]
  <2>1. /\ new \in Attempt /\ new.sid = {s} /\ new.evict = E /\ new.now = attempt[w].now
        /\ new.epoch = rotations[u] /\ new.user = attempt[w].user /\ new.standing = st
    BY <1>4, <1>5 DEF Attempt
  <2>2. attempt'[w] = new
    BY <1>6
  <2>3. attempt[w].user = u
    BY <1>0 DEF UserOf
  <2> HIDE DEF new
  <2> QED BY <2>1, <2>2, <2>3
<1>8. attempt' \in [Workers -> Attempt]
  BY <1>3, <1>6, <1>7 DEF IInv, Types
<1>9. \A x \in Workers : pc'[x] = IF x = w THEN "register" ELSE pc[x]
  BY <1>1 DEF IInv, Types, SignInTypeOK
<1>10. \A v \in Users : holder'[v] = IF v = u THEN w ELSE holder[v]
  BY <1>1 DEF IInv, Types
<1>11. Types'
  <2>1. \A x \in Workers : attempt'[x].now <= clock' /\ attempt'[x].standing \in Standings
    <3> SUFFICES ASSUME NEW x \in Workers
                 PROVE  attempt'[x].now <= clock' /\ attempt'[x].standing \in Standings
      OBVIOUS
    <3>1. CASE x = w
      BY <1>1, <1>4, <1>7, <3>1, OneSignIn
    <3>2. CASE x # w
      BY <1>1, <1>6, <3>2 DEF IInv, Types, SignInTypeOK
    <3> QED BY <3>1, <3>2
  <2>2. ASSUME NEW v \in Users, holder'[v] # Nobody PROVE pc'[holder'[v]] = "register"
    <3>1. CASE v = u
      BY <1>9, <1>10, <3>1
    <3>2. CASE v # u
      <4>1. holder'[v] = holder[v]
        BY <1>10, <3>2
      <4>2. holder[v] \in Workers /\ pc[holder[v]] = "register"
        BY <2>2, <4>1 DEF IInv, Types, SignInTypeOK
      <4> QED BY <1>9, <4>1, <4>2
    <3> QED BY <3>1, <3>2
  <2>3. holder' \in [Users -> Workers \cup {Nobody}]
    BY <1>1 DEF IInv, Types
  <2> QED BY <1>1, <1>8, <2>1, <2>2, <2>3 DEF IInv, Types, SignInTypeOK
<1>12. LockoutInv' /\ LockedWhenDue'
  <2>1. \A v \in Users : Guessing(v)' \subseteq Guessing(v)
    BY <1>6, <1>9 DEF Guessing, UserOf
  <2> QED BY <1>1, <1>4, <1>11, <2>1, SameLockout
<1>13. ASSUME NEW x \in Workers, x # w PROVE Registering(x)'
  <2>1. /\ Registering(x) /\ attempt'[x] = attempt[x] /\ pc'[x] = pc[x] /\ UserOf(x)' = UserOf(x)
        /\ UserOf(x) \in Users
    BY <1>6, <1>9, <1>13, OneSignIn DEF IInv, SessionInv, UserOf
  <2>2. pc[x] = "register" => holder'[UserOf(x)] = holder[UserOf(x)]
    BY <1>1, <1>10, <1>13, <2>1 DEF Registering, SignInAssumption
  <2>3. Remaining(x)' = Remaining(x)
    BY <1>1, <2>1 DEF Remaining, LiveOf
  <2> QED BY <1>1, <2>1, <2>2, <2>3 DEF Registering
<1>14. Registering(w)'
  <2>1. UserOf(w)' = u
    BY <1>7 DEF UserOf
  <2>2. holder'[u] = w /\ attempt'[w].epoch = rotations'[u]
    BY <1>1, <1>7, <1>10
  <2>3. ASSUME Cap[st] > 0 PROVE Cardinality(Remaining(w)') <= Cap[st]
    <3>1. Remaining(w)' = (LiveOf(u) \cup {s}) \ E
      BY <1>1, <1>7, <2>1 DEF Remaining, LiveOf
    <3>2. DOMAIN rows(s) = LiveOf(u) \cup {s}
      OBVIOUS
    <3>3. Cardinality(DOMAIN rows(s) \ E) <= Cap[st]
      <4>1. IsFiniteSet(DOMAIN rows(s))
        BY <1>4, <3>2, FS_Subset DEF SignInAssumption
      <4> QED BY <1>3, <1>4, <2>3, <4>1, EvictionsRespectCap
    <3> QED BY <3>1, <3>2, <3>3
  <2> QED BY <1>1, <1>2, <1>7, <2>1, <2>2, <2>3 DEF Registering
<1>15. OwnSids'
  <2>1. \A x \in Workers : x # w => attempt'[x].sid # attempt'[w].sid
    BY <1>2, <1>6, <1>7
  <2>2. \A x, y \in Workers :
          (x # w /\ y # w /\ pc'[x] = "register" /\ pc'[y] = "register"
             /\ attempt'[x].sid = attempt'[y].sid) => x = y
    BY <1>6, <1>9 DEF IInv, SessionInv, OwnSids
  <2> QED BY <2>1, <2>2, Zenon DEF OwnSids
<1>16. CapByStanding' /\ RotationEndsSessions' /\ \A k \in Sids : SoundRow(sessions[k])'
  BY <1>1 DEF IInv, SessionInv, CapByStanding, LiveAs, LiveOf, RotationEndsSessions, SoundRow
<1>17. RequestInv'
  BY <1>1, <1>11, SameRequests DEF SameStanding
<1> QED BY <1>11, <1>12, <1>13, <1>14, <1>15, <1>16, <1>17 DEF IInv, SessionInv

(* What the commit of a registration makes of each row. *)
LEMMA RegisteredRows ==
  ASSUME SignInAssumption, IInv, NEW w \in Workers, Register(w), NEW s \in Sids,
         attempt[w].sid = {s}
  PROVE  /\ \A t \in Sids : sessions'[t] \in Session /\ SoundRow(sessions'[t])
         /\ \A t \in Sids : t # s => RowKept(sessions[t], sessions'[t])
         /\ \A t \in Sids : t \in attempt[w].evict => sessions'[t].state # "live"
         /\ sessions'[s].user = UserOf(w) /\ sessions'[s].standing = attempt[w].standing
         /\ sessions'[s].epoch = attempt[w].epoch
<1> DEFINE a == attempt[w]
           row(t) == IF t = s THEN NewRow(w, a.now) ELSE sessions[t]
<1>1. /\ a \in Attempt /\ clock \in Nat /\ UserOf(w) \in Users /\ Touch \in Nat
      /\ PurgeAfter \in Nat /\ a.now \in Nat /\ a.now <= clock /\ a.standing \in Standings /\ a.epoch \in Nat
  BY OneSignIn DEF SignInAssumption, Attempt
<1>2. /\ NewRow(w, a.now) \in Session /\ NewRow(w, a.now).state = "live"
      /\ NewRow(w, a.now).used = a.now /\ NewRow(w, a.now).seen = a.now
      /\ NewRow(w, a.now).user = UserOf(w) /\ NewRow(w, a.now).standing = a.standing
      /\ NewRow(w, a.now).epoch = a.epoch
  BY <1>1 DEF NewRow, Session
<1>3. ASSUME NEW t \in Sids
      PROVE  /\ row(t) \in Session /\ SoundRow(row(t))
             /\ sessions'[t] =
                  IF ~HasRow(row(t)) THEN row(t)
                  ELSE IF t \in a.evict THEN Ended(row(t), "ended", a.now)
                  ELSE IF row(t).seen + PurgeAfter < a.now THEN NoRow("purged")
                  ELSE row(t)
  <2>1. sessions[t] \in Session /\ SoundRow(sessions[t])
    BY DEF IInv, Types, SignInTypeOK, SessionInv
  <2>2. SoundRow(NewRow(w, a.now))
    BY <1>1, <1>2, SlackBounds DEF SoundRow
  <2>3. t \in attempt[w].sid <=> t = s
    OBVIOUS
  <2> QED BY <1>2, <2>1, <2>2, <2>3 DEF Register
<1> HIDE DEF row, a
<1>4. ASSUME NEW t \in Sids
      PROVE  \/ sessions'[t] = Ended(row(t), "ended", a.now) /\ row(t).state # "unused"
             \/ /\ sessions'[t] = NoRow("purged") /\ row(t).state # "unused"
                /\ row(t).seen + PurgeAfter < a.now
             \/ sessions'[t] = row(t) /\ ~(t \in a.evict /\ row(t).state = "live")
  BY <1>3 DEF HasRow
<1>5. ASSUME NEW t \in Sids
      PROVE  /\ Ended(row(t), "ended", a.now) \in Session /\ Ended(row(t), "ended", a.now).state = "ended"
             /\ Ended(row(t), "ended", a.now).user = row(t).user
             /\ Ended(row(t), "ended", a.now).standing = row(t).standing
             /\ Ended(row(t), "ended", a.now).epoch = row(t).epoch
             /\ NoRow("purged") \in Session /\ NoRow("purged").state = "purged"
  BY <1>1, <1>3, EmptyTypes DEF Ended, Session, NoRow
<1>6. ASSUME NEW t \in Sids
      PROVE  /\ sessions'[t] \in Session /\ SoundRow(sessions'[t])
             /\ RowKept(row(t), sessions'[t])
             /\ t \in a.evict => sessions'[t].state # "live"
  <2>1. CASE sessions'[t] = Ended(row(t), "ended", a.now) /\ row(t).state # "unused"
    BY <1>5, <2>1 DEF SoundRow, RowKept
  <2>2. CASE sessions'[t] = NoRow("purged") /\ row(t).state # "unused"
    BY <1>5, <2>2 DEF SoundRow, RowKept
  <2>3. CASE sessions'[t] = row(t) /\ ~(t \in a.evict /\ row(t).state = "live")
    <3>1. row(t).seen \in Nat
      BY <1>3 DEF Session
    <3> QED BY <1>3, <2>3, <3>1 DEF RowKept
  <2> QED BY <1>4, <2>1, <2>2, <2>3
<1>7. /\ sessions'[s].user = UserOf(w) /\ sessions'[s].standing = a.standing
      /\ sessions'[s].epoch = a.epoch
  <2>1. row(s) = NewRow(w, a.now)
    BY DEF row
  <2>2. ~(row(s).seen + PurgeAfter < a.now)
    BY <1>1, <1>2, <2>1 DEF a
  <2> QED BY <1>2, <1>4, <1>5, <2>1, <2>2
<1>8. \A t \in Sids : t # s => row(t) = sessions[t]
  BY DEF row
<1> QED BY <1>6, <1>7, <1>8 DEF a

(* The registration commits. *)
LEMMA RegisterStep ==
  ASSUME SignInAssumption, IInv, NEW w \in Workers, Register(w)
  PROVE  IInv'
<1>0. PICK u \in Users : u = UserOf(w)
  BY OneSignIn
<1> DEFINE st == attempt[w].standing
<1>1. /\ pc[w] = "register"
      /\ UNCHANGED <<account, fails, late, rotations, request, overdue, clock>>
      /\ holder' = [v \in Users |-> IF holder[v] = w THEN Nobody ELSE holder[v]]
      /\ sessions' = [t \in Sids |-> sessions'[t]]
  BY DEF Register, asking
<1>2. /\ Registering(w) /\ holder[u] = w /\ attempt[w].epoch = rotations[u]
      /\ attempt[w] \in Attempt /\ st \in Standings
  BY <1>0, <1>1, OneSignIn DEF IInv, SessionInv, Registering, Attempt
<1>3. PICK s \in Sids : attempt[w].sid = {s} /\ sessions[s].state = "unused"
  BY <1>1, <1>2 DEF Registering
<1>4. /\ \A t \in Sids : sessions'[t] \in Session /\ SoundRow(sessions'[t])
      /\ \A t \in Sids : t # s => RowKept(sessions[t], sessions'[t])
      /\ \A t \in Sids : t \in attempt[w].evict => sessions'[t].state # "live"
      /\ sessions'[s].user = u /\ sessions'[s].standing = st
      /\ sessions'[s].epoch = attempt[w].epoch
  BY <1>0, <1>3, RegisteredRows
<1>5. Moves(w, "idle")
  BY GivenUp DEF Register
<1>6. Types' /\ SameRegistrations
  <2>1. sessions' \in [Sids -> Session]
    BY <1>1, <1>4
  <2> QED BY <1>1, <1>5, <2>1, MoveTypes DEF IInv, Types, SignInTypeOK
<1>7. LockoutInv' /\ LockedWhenDue'
  <2>1. \A v \in Users : Guessing(v)' \subseteq Guessing(v)
    BY <1>5 DEF Moves, IInv, Types, SignInTypeOK, Guessing, UserOf
  <2> QED BY <1>1, <1>6, <2>1, SameLockout, OneSignIn
<1>8. ASSUME NEW v \in Users
      PROVE  /\ LiveOf(v) \subseteq Sids /\ LiveOf(v)' \subseteq LiveOf(v) \cup {s}
             /\ v # u => LiveOf(v)' \subseteq LiveOf(v)
  BY <1>4 DEF LiveOf, RowKept
<1>9. LiveOf(u)' \subseteq Remaining(w) /\ Remaining(w) \subseteq Sids
  BY <1>0, <1>3, <1>4, <1>8 DEF Remaining, LiveOf
<1>10. CapByStanding'
  <2> SUFFICES ASSUME NEW v \in Users, NEW other \in Standings, Cap[other] > 0
               PROVE  Cardinality(LiveAs(v, other)') <= Cap[other]
    BY DEF CapByStanding
  <2>1. Cap[other] \in Nat
    BY DEF SignInAssumption
  <2>2. CASE v = u /\ other = st
    <3>1. LiveAs(v, other)' \subseteq Remaining(w)
      BY <1>9, <2>2 DEF LiveAs
    <3>2. Cardinality(Remaining(w)) <= Cap[other]
      BY <1>1, <1>2, <2>2 DEF Registering
    <3>3. /\ Cardinality(LiveAs(v, other)') <= Cardinality(Remaining(w))
          /\ Cardinality(LiveAs(v, other)') \in Nat /\ Cardinality(Remaining(w)) \in Nat
      BY <1>9, <3>1, FewerSids
    <3> QED BY <2>1, <3>2, <3>3, AtMost
  <2>3. CASE ~(v = u /\ other = st)
    <3>1. LiveAs(v, other)' \subseteq LiveAs(v, other) /\ LiveAs(v, other) \subseteq Sids
      BY <1>4, <2>3 DEF LiveAs, LiveOf, RowKept
    <3>2. Cardinality(LiveAs(v, other)) <= Cap[other]
      BY DEF IInv, SessionInv, CapByStanding
    <3>3. /\ Cardinality(LiveAs(v, other)') <= Cardinality(LiveAs(v, other))
          /\ Cardinality(LiveAs(v, other)') \in Nat /\ Cardinality(LiveAs(v, other)) \in Nat
      BY <3>1, FewerSids
    <3> QED BY <2>1, <3>2, <3>3, AtMost
  <2> QED BY <2>2, <2>3
<1>11. RotationEndsSessions'
  <2> SUFFICES ASSUME NEW t \in Sids, sessions'[t].state = "live"
               PROVE  sessions'[t].epoch = rotations'[sessions'[t].user]
    BY DEF RotationEndsSessions
  <2>1. CASE t = s
    BY <1>1, <1>2, <1>4, <2>1
  <2>2. CASE t # s
    BY <1>1, <1>4, <2>2 DEF RowKept, IInv, SessionInv, RotationEndsSessions
  <2> QED BY <2>1, <2>2
<1>12. ASSUME NEW x \in Workers PROVE Registering(x)'
  <2> SUFFICES ASSUME pc'[x] = "register" PROVE Registering(x)'
    BY DEF Registering
  <2>1. /\ pc[x] = "register" /\ attempt'[x] = attempt[x] /\ UserOf(x)' = UserOf(x)
        /\ holder'[UserOf(x)] = holder[UserOf(x)] /\ x # w
    BY <1>5, <1>6 DEF SameRegistrations, UserOf, Moves, IInv, Types, SignInTypeOK
  <2>2. Registering(x) /\ attempt[x] \in Attempt /\ UserOf(x) \in Users /\ holder[UserOf(x)] = x
    BY <2>1, OneSignIn DEF IInv, SessionInv, Registering
  <2>3. UserOf(x) # u
    BY <1>2, <2>1, <2>2
  <2>4. \E t \in Sids : attempt'[x].sid = {t} /\ sessions'[t].state = "unused"
    <3>1. PICK t \in Sids : attempt[x].sid = {t} /\ sessions[t].state = "unused"
      BY <2>1, <2>2 DEF Registering
    <3>2. t # s
      BY <1>1, <1>3, <2>1, <3>1 DEF IInv, SessionInv, OwnSids
    <3> QED BY <1>4, <2>1, <3>1, <3>2 DEF RowKept
  <2>5. ASSUME Cap[attempt[x].standing] > 0
        PROVE  Cardinality(Remaining(x)') <= Cap[attempt[x].standing]
    <3>1. Remaining(x)' \subseteq Remaining(x) /\ Remaining(x) \subseteq Sids
      BY <1>8, <2>1, <2>2, <2>3 DEF Remaining, Attempt
    <3>2. Cardinality(Remaining(x)) <= Cap[attempt[x].standing]
      BY <2>1, <2>2, <2>5 DEF Registering
    <3>3. Cap[attempt[x].standing] \in Nat
      BY <2>2 DEF SignInAssumption, Attempt
    <3> QED BY <3>1, <3>2, <3>3, FewerSids
  <2> QED BY <1>1, <2>1, <2>2, <2>4, <2>5 DEF Registering
<1>13. OwnSids'
  BY <1>6 DEF IInv, SessionInv, OwnSids, SameRegistrations
<1>14. SessionInv'
  BY <1>1, <1>4, <1>10, <1>11, <1>12, <1>13 DEF SessionInv, SoundRow, Slack
<1>15. ASSUME NEW r \in Requests PROVE Judged(r)'
  <2>1. request[r].sid \subseteq Sids /\ s \notin request[r].sid
    BY <1>3 DEF IInv, Types, SignInTypeOK, Request, RequestInv, Judged
  <2> QED BY <1>1, <1>4, <1>6, <2>1, StillJudged
<1>16. ASSUME NEW t \in Sids PROVE Expected(t)'
  <2>1. Passing(t)' = Passing(t)
    BY <1>1 DEF Passing
  <2>2. CASE t = s
    BY <1>1, <1>3, <2>1, <2>2 DEF IInv, RequestInv, Expected
  <2>3. CASE t # s
    <3>1. Good(t)' => Good(t)
      BY <1>1, <1>4, <2>3 DEF Good, RowKept
    <3> QED BY <1>1, <1>4, <2>1, <2>3, <3>1, StillExpected DEF RowKept
  <2> QED BY <2>2, <2>3
<1> QED BY <1>6, <1>7, <1>14, <1>15, <1>16 DEF IInv, RequestInv

-----------------------------------------------------------------------------
(* validate_session and logout *)

(* A row at its end. *)
LEMMA EndedRow ==
  ASSUME NEW row \in Session, row.state = "live", NEW now \in Nat
  PROVE  /\ Ended(row, "ended", now) \in Session /\ RowKept(row, Ended(row, "ended", now))
         /\ Ended(row, "ended", now).state = "ended"
<1>1. /\ Ended(row, "ended", now) \in Session /\ Ended(row, "ended", now).state = "ended"
  BY DEF Ended, Session
<1> QED BY <1>1 DEF RowKept, SoundRow

(* Steps that write sessions and requests, and of the account at most what no
   lockout reads. *)
LEMMA SessionsOnly ==
  ASSUME SignInAssumption, IInv, sessions' \in [Sids -> Session],
         account' \in [Users -> Account], rotations' \in [Users -> Nat],
         request' \in [Requests -> Request], overdue' \in [Sids -> Nat],
         \A r \in Requests : request'[r].now <= clock,
         UNCHANGED <<holder, pc, attempt, fails, late, clock>>
  PROVE  /\ Types'
         /\ \A u \in Users : Guessing(u)' = Guessing(u)
         /\ UNCHANGED rotations => SameRegistrations
<1>1. Types'
  BY DEF IInv, Types, SignInTypeOK
<1>2. \A u \in Users : Guessing(u)' = Guessing(u)
  BY DEF Guessing, UserOf
<1> QED BY <1>1, <1>2 DEF SameRegistrations

(* Rows are written, and requests. *)
LEMMA RowsWritten ==
  ASSUME SignInAssumption, IInv, sessions' \in [Sids -> Session],
         \A s \in Sids : RowKept(sessions[s], sessions'[s]),
         request' \in [Requests -> Request], overdue' \in [Sids -> Nat],
         \A r \in Requests : request'[r].now <= clock,
         UNCHANGED <<people, signing, clock>>
  PROVE  Types' /\ LockoutInv' /\ LockedWhenDue' /\ SessionInv'
<1>1. /\ clock \in Nat
      /\ UNCHANGED <<account, holder, fails, late, rotations, pc, attempt>>
  BY DEF IInv, Types, SignInTypeOK, people, signing
<1>2. Types' /\ SameRegistrations /\ \A u \in Users : Guessing(u)' = Guessing(u)
  BY <1>1, SessionsOnly DEF IInv, Types, SignInTypeOK
<1>3. SessionInv'
  BY <1>1, <1>2, RowsWane
<1>4. LockoutInv' /\ LockedWhenDue'
  BY <1>1, <1>2, SameLockout
<1> QED BY <1>2, <1>3, <1>4

(* What the invariant says of one request and the session it is of. *)
LEMMA OneRequest ==
  ASSUME SignInAssumption, IInv, NEW r \in Requests
  PROVE  /\ request[r] \in Request /\ request[r].now \in Nat /\ request[r].used \in Nat
         /\ request[r].now <= clock /\ clock \in Nat /\ request[r].sid \subseteq Sids
         /\ \A s \in Sids : /\ sessions[s] \in Session /\ SoundRow(sessions[s])
                            /\ sessions[s].seen \in Nat /\ sessions[s].used \in Nat
                            /\ sessions[s].standing \in Standings
                            /\ Idle[sessions[s].standing] \in Nat
<1>1. /\ request[r] \in Request /\ request[r].now <= clock /\ clock \in Nat
      /\ \A s \in Sids : sessions[s] \in Session /\ SoundRow(sessions[s])
  BY DEF IInv, Types, SignInTypeOK, SessionInv
<1> QED BY <1>1 DEF Request, Session, SignInAssumption

(* The session and its account are read. *)
LEMMA LookStep ==
  ASSUME SignInAssumption, IInv, NEW r \in Requests, NEW s \in Sids, Look(r, s)
  PROVE  IInv'
<1>1. PICK verdict \in Verdicts(sessions[s]) :
        request' = [request EXCEPT ![r] = [verdict |-> verdict, sid |-> {s}, now |-> clock,
                                           used |-> sessions[s].used]]
  BY DEF Look
<1> DEFINE new == [verdict |-> verdict, sid |-> {s}, now |-> clock, used |-> sessions[s].used]
<1>2. /\ request[r] = NoRequest /\ sessions[s].state = "live"
      /\ UNCHANGED <<people, sessions, signing, overdue, clock>>
      /\ UNCHANGED account
  BY DEF Look, people
<1>3. /\ verdict \in {"ended", "idled", "touch", "pass"}
      /\ verdict \in {"touch", "pass"} => Entitled(sessions[s])
      /\ verdict = "pass" => ~Stale(sessions[s])
      /\ verdict = "idled" => IdleExpired(sessions[s])
  BY DEF Verdicts
<1>4. /\ new \in Request /\ new.now = clock /\ new.sid = {s} /\ new.verdict = verdict
      /\ new.used = sessions[s].used
  BY <1>3, OneRequest DEF Request
<1>5. request' = [request EXCEPT ![r] = new]
  BY <1>1
<1> HIDE DEF new
<1>6. /\ request'[r] = new /\ \A q \in Requests : q # r => request'[q] = request[q]
      /\ request' \in [Requests -> Request]
  BY <1>4, <1>5 DEF IInv, Types, SignInTypeOK
<1>7. \A q \in Requests : request'[q].now <= clock
  BY <1>4, <1>6, OneRequest
<1>8. Types' /\ LockoutInv' /\ LockedWhenDue' /\ SessionInv'
  <2>1. sessions' \in [Sids -> Session] /\ overdue' \in [Sids -> Nat]
    BY <1>2 DEF IInv, Types, SignInTypeOK
  <2> QED BY <1>2, <1>6, <1>7, <2>1, SameRows, RowsWritten
<1>9. ASSUME NEW q \in Requests PROVE Judged(q)'
  <2>1. CASE q = r
    <3>1. verdict = "pass" => clock <= sessions[s].seen + Slack
      BY <1>3, OneRequest, SlackBounds DEF Stale
    <3>2. verdict = "idled" => sessions[s].used + Idle[sessions[s].standing] < clock + Slack
      BY <1>2, <1>3, OneRequest, SlackBounds DEF IdleExpired, SoundRow
    <3>3. sessions'[s] = sessions[s] /\ sessions[s].state # "unused"
      BY <1>2
    <3> QED BY <1>4, <1>6, <2>1, <3>1, <3>2, <3>3 DEF Judged, Slack
  <2>2. CASE q # r
    BY <1>2, <1>6, <1>8, <2>2, SameRows, OneRequest, StillJudged
  <2> QED BY <2>1, <2>2
<1>10. ASSUME NEW t \in Sids PROVE Expected(t)'
  <2>1. Good(t)' = Good(t)
    BY <1>2 DEF Good
  <2>2. CASE t = s /\ verdict \in {"touch", "pass"}
    <3>1. Good(s)
      BY <1>2, <1>3, <2>2 DEF Good, Entitled
    <3>2. overdue'[s] = 0
      BY <1>2, <3>1 DEF IInv, RequestInv, Expected
    <3>3. Passing(s)' \subseteq Requests
      BY DEF Passing
    <3>4. Cardinality(Passing(s)') <= Cardinality(Requests) /\ Cardinality(Passing(s)') \in Nat
      BY <3>3, FewerRequests
    <3> QED BY <2>2, <3>2, <3>4 DEF Expected
  <2>3. CASE ~(t = s /\ verdict \in {"touch", "pass"})
    <3>1. Passing(t)' \subseteq Passing(t)
      BY <1>4, <1>6, <2>3 DEF Passing
    <3> QED BY <1>2, <2>1, <3>1, StillExpected
  <2> QED BY <2>2, <2>3
<1> QED BY <1>8, <1>9, <1>10 DEF IInv, RequestInv

(* A request is over. *)
LEMMA RequestOver ==
  ASSUME SignInAssumption, IInv, NEW r \in Requests, request' = [request EXCEPT ![r] = NoRequest]
  PROVE  /\ request' \in [Requests -> Request]
         /\ \A q \in Requests : request'[q].now <= clock
         /\ request'[r].sid = {} /\ \A q \in Requests : q # r => request'[q] = request[q]
         /\ \A s \in Sids : Passing(s)' \subseteq Passing(s) \ {r}
<1>1. /\ request' \in [Requests -> Request] /\ request'[r] = NoRequest
      /\ \A q \in Requests : q # r => request'[q] = request[q]
  BY EmptyTypes DEF IInv, Types, SignInTypeOK
<1>2. \A q \in Requests : request'[q].now <= clock
  BY <1>1, EmptyTypes, OneRequest
<1>3. \A s \in Sids : Passing(s)' \subseteq Passing(s) \ {r}
  BY <1>1, EmptyTypes DEF Passing
<1> QED BY <1>1, <1>2, <1>3, EmptyTypes

(* Once a request is over, what the others have read is as good as it was. *)
LEMMA OthersJudged ==
  ASSUME SignInAssumption, IInv, Types', NEW r \in Requests,
         request' = [request EXCEPT ![r] = NoRequest],
         \A s \in Sids : RowKept(sessions[s], sessions'[s])
  PROVE  \A q \in Requests : Judged(q)'
<1> SUFFICES ASSUME NEW q \in Requests PROVE Judged(q)'
  OBVIOUS
<1>1. CASE q = r
  BY <1>1, RequestOver DEF Judged
<1>2. CASE q # r
  BY <1>2, RequestOver, OneRequest, StillJudged
<1> QED BY <1>1, <1>2

(* The session is ended, unless it has ended meanwhile. *)
LEMMA EndStep ==
  ASSUME SignInAssumption, IInv, NEW r \in Requests, End(r)
  PROVE  IInv'
<1>1. /\ request[r].verdict \in {"ended", "idled"}
      /\ sessions' = [s \in Sids |-> IF s \in request[r].sid THEN EndSession(r, s) ELSE sessions[s]]
      /\ request' = [request EXCEPT ![r] = NoRequest]
      /\ UNCHANGED <<people, signing, overdue, clock>> /\ UNCHANGED account
  BY DEF End, people
<1>2. ASSUME NEW s \in Sids
      PROVE  sessions'[s] \in Session /\ RowKept(sessions[s], sessions'[s])
  <2> DEFINE row == sessions[s]
             how == request[r].verdict
             now == request[r].now
             new == [Ended(row, how, now) EXCEPT !.used = IF how = "idled" THEN request[r].used ELSE @]
  <2>1. CASE s \in request[r].sid /\ row.state = "live"
    <3>1. sessions'[s] = new
      BY <1>1, <2>1 DEF EndSession
    <3>2. /\ row \in Session /\ now \in Nat /\ request[r].used \in Nat
          /\ how \in {"ended", "idled"}
      BY <1>1, OneRequest
    <3>3. /\ new \in Session /\ new.state = how /\ new.standing = row.standing /\ new.seen = now
          /\ how = "idled" => new.used = request[r].used
      BY <3>2 DEF Ended, Session
    <3>4. how = "idled" => request[r].used + Idle[row.standing] < now + Slack
      BY <2>1 DEF IInv, RequestInv, Judged
    <3>5. SoundRow(new)
      <4> HIDE DEF new, row, how, now
      <4> QED BY <3>2, <3>3, <3>4 DEF SoundRow
    <3>6. new.state # "live" /\ new.state # "unused" /\ row.state # "unused"
      BY <2>1, <3>2, <3>3
    <3> HIDE DEF new, row
    <3>7. RowKept(row, new)
      BY <3>5, <3>6 DEF RowKept
    <3> QED BY <3>1, <3>3, <3>7 DEF row
  <2>2. CASE ~(s \in request[r].sid /\ row.state = "live")
    <3>1. sessions'[s] = sessions[s]
      BY <1>1, <2>2 DEF EndSession
    <3> QED BY <3>1, OneRequest DEF RowKept
  <2> QED BY <2>1, <2>2
<1>3. Types' /\ LockoutInv' /\ LockedWhenDue' /\ SessionInv'
  <2>1. sessions' \in [Sids -> Session] /\ overdue' \in [Sids -> Nat]
    BY <1>1, <1>2 DEF IInv, Types
  <2> QED BY <1>1, <1>2, <2>1, RequestOver, RowsWritten
<1>4. ASSUME NEW s \in Sids PROVE Expected(s)'
  <2>1. Good(s)' => Good(s)
    BY <1>1, <1>2 DEF Good, RowKept
  <2>2. Passing(s)' \subseteq Passing(s)
    BY <1>1, RequestOver
  <2> QED BY <1>1, <1>2, <2>1, <2>2, StillExpected DEF RowKept
<1> QED BY <1>1, <1>2, <1>3, <1>4, OthersJudged DEF IInv, RequestInv

(* What a request that is let through makes of the row of its session. *)
LEMMA PassedRow ==
  ASSUME SignInAssumption, IInv, NEW r \in Requests, NEW s \in request[r].sid,
         request[r].verdict \in {"touch", "pass"}, InTime(r)
  PROVE  LetThrough(r, s) \in Session /\ RowKept(sessions[s], LetThrough(r, s))
<1> DEFINE row == sessions[s]
           now == request[r].now
           seen == IF request[r].verdict = "touch" THEN now ELSE row.seen
           used == IF row.used < now THEN now ELSE row.used
           new == [row EXCEPT !.used = used, !.seen = seen]
<1>1. /\ s \in Sids /\ row \in Session /\ now \in Nat /\ now <= clock /\ clock \in Nat
      /\ row.seen \in Nat /\ row.used \in Nat /\ SoundRow(row)
  BY OneRequest
<1>2. CASE row.state = "live"
  <2>1. LetThrough(r, s) = new
    BY <1>2 DEF LetThrough
  <2>2. used \in Nat /\ seen \in Nat
    BY <1>1
  <2>3. /\ clock <= now + Timeout
        /\ request[r].verdict = "pass" => now <= row.seen + Slack
        /\ row.used <= row.seen + Slack /\ row.used <= clock
    BY <1>1, <1>2 DEF InTime, IInv, RequestInv, Judged, SoundRow
  <2>4. used <= clock /\ used <= seen + Slack
    <3>1. CASE request[r].verdict = "touch"
      BY <1>1, <2>3, <3>1, SlackBounds
    <3>2. CASE request[r].verdict = "pass"
      BY <1>1, <2>3, <3>2, SlackBounds
    <3> QED BY <3>1, <3>2
  <2>5. row.seen <= seen \/ clock <= seen + Timeout
    BY <1>1, <2>3
  <2> HIDE DEF used, seen
  <2>6. /\ new \in Session /\ new.state = "live" /\ new.used = used /\ new.seen = seen
        /\ new.user = row.user /\ new.standing = row.standing /\ new.epoch = row.epoch
    BY <1>1, <1>2, <2>2 DEF Session
  <2> HIDE DEF new, row
  <2>7. RowKept(row, new)
    BY <1>2, <2>4, <2>5, <2>6 DEF RowKept, SoundRow
  <2> QED BY <2>1, <2>6, <2>7 DEF row
<1>3. CASE row.state # "live"
  <2>1. LetThrough(r, s) = row
    BY <1>3 DEF LetThrough
  <2> QED BY <1>1, <2>1 DEF RowKept
<1> QED BY <1>2, <1>3

(* A request is let through, whatever has become of its session. *)
LEMMA PassStep ==
  ASSUME SignInAssumption, IInv, NEW r \in Requests, Pass(r)
  PROVE  IInv'
<1>1. /\ request[r].verdict \in {"touch", "pass"} /\ InTime(r)
      /\ sessions' = [s \in Sids |-> IF s \in request[r].sid THEN LetThrough(r, s) ELSE sessions[s]]
      /\ overdue' = [s \in Sids |-> IF s \in request[r].sid /\ ~Good(s) THEN overdue[s] + 1
                                                                  ELSE overdue[s]]
      /\ request' = [request EXCEPT ![r] = NoRequest]
      /\ UNCHANGED <<people, signing, clock>> /\ UNCHANGED account
  BY DEF Pass, people
<1>2. ASSUME NEW s \in Sids
      PROVE  sessions'[s] \in Session /\ RowKept(sessions[s], sessions'[s])
  <2>1. CASE s \in request[r].sid
    BY <1>1, <2>1, PassedRow
  <2>2. CASE s \notin request[r].sid
    BY <1>1, <2>2, OneRequest DEF RowKept
  <2> QED BY <2>1, <2>2
<1>3. overdue \in [Sids -> Nat] /\ overdue' \in [Sids -> Nat]
  BY <1>1 DEF IInv, Types
<1>4. Types' /\ LockoutInv' /\ LockedWhenDue' /\ SessionInv'
  <2>1. sessions' \in [Sids -> Session]
    BY <1>1, <1>2
  <2> QED BY <1>1, <1>2, <1>3, <2>1, RequestOver, RowsWritten
<1>5. ASSUME NEW s \in Sids PROVE Expected(s)'
  <2>1. Good(s)' => Good(s)
    BY <1>1, <1>2 DEF Good, RowKept
  <2>2. Passing(s)' \subseteq Passing(s) \ {r} /\ Passing(s) \subseteq Requests
    BY <1>1, RequestOver DEF Passing
  <2>3. CASE s \in request[r].sid /\ ~Good(s)
    <3>1. r \in Passing(s)
      BY <1>1, <2>3 DEF Passing
    <3>2. /\ Cardinality(Passing(s)') <= Cardinality(Passing(s) \ {r})
          /\ Cardinality(Passing(s)') \in Nat
      BY <2>2, FewerRequests
    <3>3. /\ Cardinality(Passing(s)) = Cardinality(Passing(s) \ {r}) + 1
          /\ Cardinality(Passing(s) \ {r}) \in Nat /\ Cardinality(Passing(s)) \in Nat
      BY <2>2, <3>1, RequestLeaves
    <3>4. overdue[s] + Cardinality(Passing(s)) <= Cardinality(Requests) /\ overdue[s] \in Nat
      BY <1>3 DEF IInv, RequestInv, Expected
    <3>5. Cardinality(Requests) \in Nat
      BY FewerRequests
    <3>6. overdue'[s] = overdue[s] + 1
      BY <1>1, <2>3
    <3>7. overdue'[s] + Cardinality(Passing(s)') <= Cardinality(Requests)
      BY <3>2, <3>3, <3>4, <3>5, <3>6
    <3>8. sessions'[s].state # "unused"
      BY <1>2, <2>3 DEF IInv, RequestInv, Judged, RowKept
    <3> QED BY <2>1, <2>3, <3>7, <3>8 DEF Expected
  <2>4. CASE ~(s \in request[r].sid /\ ~Good(s))
    <3>1. overdue'[s] = overdue[s]
      BY <1>1, <2>4
    <3> QED BY <1>2, <2>1, <2>2, <3>1, StillExpected DEF RowKept
  <2> QED BY <2>3, <2>4
<1> QED BY <1>1, <1>2, <1>4, <1>5, OthersJudged DEF IInv, RequestInv

(* A request is given up. *)
LEMMA DropStep ==
  ASSUME SignInAssumption, IInv, NEW r \in Requests, Drop(r)
  PROVE  IInv'
<1>1. /\ request' = [request EXCEPT ![r] = NoRequest]
      /\ UNCHANGED <<people, signing, sessions, overdue, clock>> /\ UNCHANGED account
  BY DEF Drop, people
<1>2. Types' /\ LockoutInv' /\ LockedWhenDue' /\ SessionInv'
  <2>1. sessions' \in [Sids -> Session] /\ overdue' \in [Sids -> Nat]
    BY <1>1 DEF IInv, Types, SignInTypeOK
  <2> QED BY <1>1, <2>1, SameRows, RequestOver, RowsWritten
<1>3. ASSUME NEW s \in Sids PROVE Expected(s)'
  <2>1. Good(s)' = Good(s)
    BY <1>1 DEF Good
  <2>2. Passing(s)' \subseteq Passing(s)
    BY <1>1, RequestOver
  <2> QED BY <1>1, <2>1, <2>2, StillExpected
<1> QED BY <1>1, <1>2, <1>3, SameRows, OthersJudged DEF IInv, RequestInv

(* A session is closed by its owner. *)
LEMMA LogoutStep ==
  ASSUME SignInAssumption, IInv, NEW s \in Sids, Logout(s)
  PROVE  IInv'
<1>1. /\ sessions[s] \in Session /\ sessions[s].state = "live" /\ clock \in Nat
      /\ UNCHANGED <<people, signing, asking, clock>> /\ UNCHANGED <<account, request, overdue>>
      /\ sessions' = [sessions EXCEPT ![s] = Ended(sessions[s], "ended", clock)]
  BY DEF Logout, IInv, Types, SignInTypeOK, people, asking
<1>2. \A t \in Sids : RowKept(sessions[t], sessions'[t])
  <2>1. \A t \in Sids : sessions[t].seen \in Nat
    BY DEF IInv, Types, SignInTypeOK, Session
  <2>2. \A t \in Sids : t # s => sessions'[t] = sessions[t]
    BY <1>1
  <2>3. RowKept(sessions[s], sessions'[s])
    BY <1>1, EndedRow DEF IInv, Types, SignInTypeOK
  <2> QED BY <2>1, <2>2, <2>3 DEF RowKept
<1>3. Types' /\ LockoutInv' /\ LockedWhenDue' /\ SessionInv'
  <2>1. /\ sessions' \in [Sids -> Session] /\ request' \in [Requests -> Request]
        /\ overdue' \in [Sids -> Nat] /\ \A r \in Requests : request'[r].now <= clock
    BY <1>1, EndedRow DEF IInv, Types, SignInTypeOK
  <2> QED BY <1>1, <1>2, <2>1, RowsWritten
<1>4. \A t \in Sids : Good(t)' => Good(t)
  BY <1>1, <1>2 DEF Good, RowKept
<1> QED BY <1>1, <1>2, <1>3, <1>4, RequestsWane DEF IInv

-----------------------------------------------------------------------------
(* user-passwd, user-deactivate and the owner's SQL *)

(* Ending every session of an account. *)
LEMMA AllEndedRows ==
  ASSUME SignInAssumption, IInv, NEW u \in Users, sessions' = AllEnded(u)
  PROVE  /\ sessions' \in [Sids -> Session]
         /\ \A s \in Sids : /\ RowKept(sessions[s], sessions'[s])
                            /\ sessions'[s].state = "live" => sessions[s].user # u
<1>1. ASSUME NEW s \in Sids
      PROVE  /\ sessions[s] \in Session /\ clock \in Nat
             /\ sessions'[s] = IF s \in LiveOf(u) THEN Ended(sessions[s], "ended", clock) ELSE sessions[s]
  BY DEF AllEnded, IInv, Types, SignInTypeOK
<1>2. ASSUME NEW s \in Sids
      PROVE  /\ sessions'[s] \in Session /\ RowKept(sessions[s], sessions'[s])
             /\ sessions'[s].state = "live" => sessions[s].user # u
  <2>1. CASE s \in LiveOf(u)
    <3>1. sessions[s].state = "live"
      BY <2>1 DEF LiveOf
    <3> QED BY <1>1, <2>1, <3>1, EndedRow
  <2>2. CASE s \notin LiveOf(u)
    <3>1. sessions[s].seen \in Nat
      BY <1>1 DEF Session
    <3> QED BY <1>1, <2>2, <3>1 DEF LiveOf, RowKept
  <2> QED BY <2>1, <2>2
<1> QED BY <1>2 DEF AllEnded

(* A password is rotated: no registration of the account is under way, because the
   row is free, and no session of it survives. *)
LEMMA RotateStep ==
  ASSUME SignInAssumption, IInv, NEW u \in Users, Rotate(u)
  PROVE  IInv'
<1>1. /\ holder[u] = Nobody /\ sessions' = AllEnded(u)
      /\ rotations' = [rotations EXCEPT ![u] = @ + 1]
      /\ account' = [account EXCEPT ![u] = Reset(@)]
      /\ fails' = [fails EXCEPT ![u] = <<>>] /\ late' = [late EXCEPT ![u] = 0]
      /\ UNCHANGED <<holder, pc, attempt, request, overdue, clock>>
  BY DEF Rotate, RowFree, signing, asking
<1>2. account[u] \in Account /\ clock \in Nat
  BY DEF IInv, Types, SignInTypeOK
<1>3. /\ Reset(account[u]) \in Account /\ Reset(account[u]).lockedUntil = 0
      /\ Reset(account[u]).active = account[u].active
      /\ Reset(account[u]).standing = account[u].standing
  BY <1>2 DEF Reset, Account
<1>4. /\ account' \in [Users -> Account] /\ account'[u].lockedUntil = 0
      /\ fails' \in [Users -> Seq(Nat)] /\ fails'[u] = <<>>
      /\ late' \in [Users -> Nat] /\ late'[u] = 0
      /\ \A v \in Users : v # u => /\ account'[v] = account[v] /\ fails'[v] = fails[v]
                                   /\ late'[v] = late[v]
  BY <1>1, <1>3 DEF IInv, Types, SignInTypeOK
<1>5. rotations' \in [Users -> Nat] /\ \A v \in Users : v # u => rotations'[v] = rotations[v]
  BY <1>1 DEF IInv, Types
<1>6. /\ sessions' \in [Sids -> Session]
      /\ \A s \in Sids : /\ RowKept(sessions[s], sessions'[s])
                         /\ sessions'[s].state = "live" => sessions[s].user # u
  BY <1>1, AllEndedRows
<1>7. Types'
  BY <1>1, <1>4, <1>5, <1>6 DEF IInv, Types, SignInTypeOK
<1>8. SameRegistrations
  <2> SUFFICES ASSUME NEW w \in Workers, pc'[w] = "register"
               PROVE  rotations'[attempt[w].user] = rotations[attempt[w].user]
    BY <1>1 DEF SameRegistrations
  <2>1. UserOf(w) \in Users /\ UserOf(w) # u
    BY <1>1, OneSignIn DEF IInv, SessionInv, Registering
  <2> QED BY <1>5, <2>1 DEF UserOf
<1>9. SessionInv'
  <2>1. \A s \in Sids : sessions[s].user \in Users
    BY DEF IInv, Types, SignInTypeOK, Session
  <2> QED BY <1>1, <1>2, <1>5, <1>6, <1>7, <1>8, <2>1, RowsWane
<1>11. RequestInv'
  <2>1. SameStanding
    BY <1>1, <1>3 DEF SameStanding, IInv, Types, SignInTypeOK
  <2>2. \A s \in Sids : sessions[s].user \in Users
    BY DEF IInv, Types, SignInTypeOK, Session
  <2>3. \A s \in Sids : Good(s)' => Good(s)
    BY <1>6, <2>1, <2>2 DEF Good, SameStanding, RowKept
  <2> QED BY <1>1, <1>6, <1>7, <2>3, RequestsWane
<1>10. ASSUME NEW v \in Users PROVE LockoutOf(v)'
  <2>1. Guessing(v)' = Guessing(v)
    BY <1>1 DEF Guessing, UserOf
  <2>2. CASE v = u
    BY <1>4, <1>7, <2>2, ClearedLockoutOf
  <2>3. CASE v # u
    BY <1>1, <1>2, <1>4, <1>7, <2>1, <2>3, SameLockoutOf
  <2> QED BY <2>2, <2>3
<1> QED BY <1>7, <1>9, <1>10, <1>11, LockoutByUser DEF IInv

(* The lockout reads nothing of what an account may do. *)
LEMMA Restood ==
  ASSUME SignInAssumption, IInv, NEW u \in Users, NEW active \in BOOLEAN, NEW st \in Standings,
         account' = [account EXCEPT ![u].active = active, ![u].standing = st]
  PROVE  /\ account' \in [Users -> Account]
         /\ \A v \in Users : /\ account'[v].count = account[v].count
                             /\ account'[v].lastFailed = account[v].lastFailed
                             /\ account'[v].lockedUntil = account[v].lockedUntil
                             /\ v # u => account'[v] = account[v]
         /\ account'[u].active = active /\ account'[u].standing = st
<1>1. account \in [Users -> Account]
  BY DEF IInv, Types, SignInTypeOK
<1> DEFINE new == [account[u] EXCEPT !.active = active, !.standing = st]
<1>2. /\ new \in Account /\ new.count = account[u].count
      /\ new.lastFailed = account[u].lastFailed /\ new.lockedUntil = account[u].lockedUntil
      /\ new.active = active /\ new.standing = st
  BY <1>1 DEF Account
<1>3. account' = [account EXCEPT ![u] = new]
  BY <1>1
<1> HIDE DEF new
<1>4. account'[u] = new /\ \A v \in Users : v # u => account'[v] = account[v]
  BY <1>1, <1>3
<1>5. account' \in [Users -> Account]
  BY <1>1, <1>2, <1>3
<1>6. ASSUME NEW v \in Users
      PROVE  /\ account'[v].count = account[v].count
             /\ account'[v].lastFailed = account[v].lastFailed
             /\ account'[v].lockedUntil = account[v].lockedUntil
  BY <1>2, <1>4
<1> QED BY <1>2, <1>4, <1>5, <1>6

(* The standing an account has is written again. *)
LEMMA SameStandingAgain ==
  ASSUME NEW row \in Account, NEW active \in BOOLEAN
  PROVE  [row EXCEPT !.active = active]
           = [row EXCEPT !.active = active, !.standing = row.standing]
BY DEF Account

(* An account is deactivated, and its sessions end. *)
LEMMA DeactivateStep ==
  ASSUME SignInAssumption, IInv, NEW u \in Users, Deactivate(u)
  PROVE  IInv'
<1>1. /\ sessions' = AllEnded(u) /\ account' = [account EXCEPT ![u].active = FALSE]
      /\ UNCHANGED <<holder, fails, late, rotations, pc, attempt, request, overdue, clock>>
  BY DEF Deactivate, signing, asking
<1>2. account[u] \in Account /\ account \in [Users -> Account] /\ clock \in Nat
  BY DEF IInv, Types, SignInTypeOK
<1>3. account' = [account EXCEPT ![u].active = FALSE, ![u].standing = account[u].standing]
  <2>1. [account[u] EXCEPT !.active = FALSE]
          = [account[u] EXCEPT !.active = FALSE, !.standing = account[u].standing]
    BY <1>2, SameStandingAgain
  <2>2. account' = [account EXCEPT ![u] = [account[u] EXCEPT !.active = FALSE]]
    BY <1>1, <1>2
  <2> QED BY <1>2, <2>1, <2>2
<1>4. /\ account' \in [Users -> Account]
      /\ \A v \in Users : /\ account'[v].count = account[v].count
                          /\ account'[v].lastFailed = account[v].lastFailed
                          /\ account'[v].lockedUntil = account[v].lockedUntil
                          /\ account'[v].active => account[v].active
                          /\ account'[v].standing = account[v].standing
  <2>1. account[u].standing \in Standings
    BY <1>2 DEF Account
  <2>2. /\ account' \in [Users -> Account]
        /\ \A v \in Users : /\ account'[v].count = account[v].count
                            /\ account'[v].lastFailed = account[v].lastFailed
                            /\ account'[v].lockedUntil = account[v].lockedUntil
                            /\ v # u => account'[v] = account[v]
        /\ account'[u].active = FALSE /\ account'[u].standing = account[u].standing
    BY <1>3, <2>1, Restood
  <2>3. ASSUME NEW v \in Users
        PROVE  /\ account'[v].active => account[v].active
               /\ account'[v].standing = account[v].standing
    BY <2>2
  <2> QED BY <2>2, <2>3
<1>5. /\ sessions' \in [Sids -> Session]
      /\ \A s \in Sids : RowKept(sessions[s], sessions'[s])
  BY <1>1, AllEndedRows
<1>6. Types' /\ SameRegistrations /\ \A v \in Users : Guessing(v)' = Guessing(v)
  BY <1>1, <1>4, <1>5, SessionsOnly DEF IInv, Types, SignInTypeOK
<1>7. SessionInv'
  BY <1>1, <1>2, <1>5, <1>6, RowsWane
<1>8. LockoutInv' /\ LockedWhenDue'
  BY <1>1, <1>2, <1>4, <1>6, SameLockout
<1>9. RequestInv'
  <2>1. \A s \in Sids : sessions[s].user \in Users
    BY DEF IInv, Types, SignInTypeOK, Session
  <2>2. \A s \in Sids : Good(s)' => Good(s)
    BY <1>4, <1>5, <2>1 DEF Good, RowKept
  <2> QED BY <1>1, <1>5, <1>6, <2>2, RequestsWane
<1> QED BY <1>6, <1>7, <1>8, <1>9 DEF IInv

(* The owner changes what an account may do. *)
LEMMA RestandStep ==
  ASSUME SignInAssumption, IInv, NEW u \in Users, NEW active \in BOOLEAN, NEW st \in Standings,
         Restand(u, active, st)
  PROVE  IInv'
<1>1. /\ account' = [account EXCEPT ![u].active = active, ![u].standing = st]
      /\ overdue' = [s \in Sids |-> IF Good(s)' THEN 0 ELSE overdue[s]]
      /\ UNCHANGED <<holder, fails, late, rotations, sessions, pc, attempt, request, clock>>
  BY DEF Restand, signing
<1>2. /\ account' \in [Users -> Account] /\ clock \in Nat
      /\ \A v \in Users : /\ account'[v].count = account[v].count
                          /\ account'[v].lastFailed = account[v].lastFailed
                          /\ account'[v].lockedUntil = account[v].lockedUntil
  BY <1>1, Restood DEF IInv, Types, SignInTypeOK
<1>3. Types' /\ SameRegistrations /\ \A v \in Users : Guessing(v)' = Guessing(v)
  <2>1. overdue' \in [Sids -> Nat]
    BY <1>1 DEF IInv, Types
  <2> QED BY <1>1, <1>2, <2>1, SessionsOnly DEF IInv, Types, SignInTypeOK
<1>4. SessionInv'
  BY <1>1, <1>2, <1>3, SameRows, RowsWane
<1>5. LockoutInv' /\ LockedWhenDue'
  BY <1>1, <1>2, <1>3, SameLockout
<1>6. ASSUME NEW s \in Sids PROVE Expected(s)'
  <2>1. Expected(s) /\ overdue[s] \in Nat /\ Passing(s)' = Passing(s) /\ Passing(s) \subseteq Requests
    BY <1>1 DEF IInv, RequestInv, Types, Passing
  <2>2. Cardinality(Passing(s)) \in Nat /\ Cardinality(Requests) \in Nat
    BY <2>1, FewerRequests
  <2>3. overdue'[s] = IF Good(s)' THEN 0 ELSE overdue[s]
    BY <1>1
  <2> QED BY <1>1, <2>1, <2>2, <2>3 DEF Expected
<1>7. ASSUME NEW r \in Requests PROVE Judged(r)'
  BY <1>1, <1>3, SameRows, OneRequest, StillJudged
<1> QED BY <1>3, <1>4, <1>5, <1>6, <1>7 DEF IInv, RequestInv

(* Time passes, or nothing does. *)
LEMMA TickStep ==
  ASSUME SignInAssumption, IInv, Tick \/ UNCHANGED vars
  PROVE  IInv'
<1>1. /\ clock \in Nat /\ clock' \in Nat /\ clock' >= clock
      /\ UNCHANGED <<account, holder, fails, late, rotations, sessions, pc, attempt, request, overdue>>
  BY DEF Tick, vars, people, signing, asking, IInv, Types, SignInTypeOK
<1>2. \A w \in Workers : attempt'[w].now <= clock'
  BY <1>1, OneSignIn
<1>3. Types' /\ SameRegistrations /\ \A v \in Users : Guessing(v)' = Guessing(v)
  <2>1. \A r \in Requests : request'[r].now <= clock'
    BY <1>1, OneRequest
  <2> QED BY <1>1, <1>2, <2>1 DEF IInv, Types, SignInTypeOK, SameRegistrations, Guessing, UserOf
<1>4. SessionInv' /\ RequestInv'
  BY <1>1, <1>3, SameSessions DEF SameStanding
<1>5. LockoutInv' /\ LockedWhenDue'
  BY <1>1, <1>3, SameLockout
<1> QED BY <1>3, <1>4, <1>5 DEF IInv

-----------------------------------------------------------------------------
(* Every step keeps the invariant. *)
LEMMA NextSound ==
  ASSUME SignInAssumption, IInv, [Next]_vars
  PROVE  IInv'
<1>1. ASSUME NEW w \in Workers, NEW u \in Users, NEW right \in BOOLEAN, Begin(w, u, right)
      PROVE  IInv'
  BY <1>1, BeginStep
<1>2. ASSUME NEW w \in Workers, Step(w) \/ Abandon(w) PROVE IInv'
  BY <1>2, CheckStep, FailStep, SucceedStep, OpenStep, InsertStep, RegisterStep, AbandonStep DEF Step
<1>3. ASSUME NEW s \in Sids, Logout(s) PROVE IInv'
  BY <1>3, LogoutStep
<1>7. ASSUME NEW r \in Requests, End(r) \/ Pass(r) \/ Drop(r) \/ \E s \in Sids : Look(r, s)
      PROVE  IInv'
  BY <1>7, EndStep, PassStep, DropStep, LookStep
<1>4. ASSUME NEW u \in Users, Rotate(u) \/ Deactivate(u) PROVE IInv'
  BY <1>4, RotateStep, DeactivateStep
<1>5. ASSUME NEW u \in Users, NEW active \in BOOLEAN, NEW st \in Standings,
             Restand(u, active, st)
      PROVE  IInv'
  BY <1>5, RestandStep
<1>6. ASSUME Tick \/ UNCHANGED vars PROVE IInv'
  BY <1>6, TickStep
<1> QED BY <1>1, <1>2, <1>3, <1>4, <1>5, <1>6, <1>7 DEF Next

(* The invariant holds of every reachable state. *)
LEMMA Invariance == Spec => []IInv
<1>1. Init => IInv
  BY InitSound, SignInAssumption
<1>2. IInv /\ [Next]_vars => IInv'
  BY NextSound, SignInAssumption
<1> QED BY <1>1, <1>2, PTL DEF Spec

(* Accounts, sessions and sign-ins stay well formed, and a row lock always belongs
   to a registration that will release it (register_session). *)
THEOREM TypeCorrect == Spec => []SignInTypeOK
<1>1. IInv => SignInTypeOK
  BY DEF IInv, Types
<1> QED BY <1>1, Invariance, PTL

(* "5 failures within 10 minutes" lock the account, for any threshold, window and
   length of lock and however the wrong passwords race (authenticate). *)
THEOREM LockoutExact == Spec => []LockedWhenDue
<1>1. IInv => LockedWhenDue
  BY DEF IInv
<1> QED BY <1>1, Invariance, PTL

(* A lock in force lets through no more guesses than sign-ins were under way when
   it was set: always fewer than there are workers (authenticate). *)
THEOREM GuessesBounded == Spec => []LockStopsGuessing
<1>1. IInv => LockStopsGuessing
  BY DEF IInv, LockoutInv, Watched, LockStopsGuessing
<1> QED BY <1>1, Invariance, PTL

(* "concurrent logins serialize and the cap is exact": for any cap of any standing
   and any number of concurrent registrations (register_session). *)
THEOREM CapExact == Spec => []SessionCap
<1>1. IInv => SessionCap
  <2> SUFFICES ASSUME IInv, NEW u \in Users, NEW st \in Standings, Cap[st] > 0,
                      \A s \in LiveOf(u) : sessions[s].standing = st
               PROVE  Cardinality(LiveOf(u)) <= Cap[st]
    BY DEF SessionCap
  <2>1. LiveAs(u, st) = LiveOf(u)
    BY DEF LiveAs
  <2> QED BY <2>1 DEF IInv, SessionInv, CapByStanding
<1> QED BY <1>1, Invariance, PTL

(* "a rotated password ends every live web session of the account" (user-passwd),
   the one whose registration was under way included. *)
THEOREM RotationEnds == Spec => []RotationEndsSessions
<1>1. IInv => RotationEndsSessions
  BY DEF IInv, SessionInv
<1> QED BY <1>1, Invariance, PTL

(* A session that a request ended as idle had not been used for its role's timeout
   when that request read it, but for touches saved or still under way
   (validate_session): for any timeouts, and however requests that read before
   each other's touch write after it. *)
THEOREM IdleUnused == Spec => []IdleMeansUnused
<1>1. IInv => IdleMeansUnused
  BY DEF IInv, SessionInv, SoundRow, IdleMeansUnused
<1> QED BY <1>1, Invariance, PTL

(* Once a session has ended, or its account was deactivated or stands otherwise,
   no more requests of it are let through than are checked at the same time
   (validate_session): those that had read it before, each once. *)
THEOREM EndsStopRequests == Spec => []EndStopsRequests
<1>1. ASSUME IInv PROVE EndStopsRequests
  <2> SUFFICES ASSUME NEW s \in Sids PROVE overdue[s] <= Cardinality(Requests)
    BY DEF EndStopsRequests
  <2>1. /\ overdue[s] \in Nat /\ overdue[s] + Cardinality(Passing(s)) <= Cardinality(Requests)
        /\ Passing(s) \subseteq Requests
    BY <1>1 DEF IInv, Types, RequestInv, Expected, Passing
  <2> QED BY <2>1, FewerRequests, SignInAssumption
<1> QED BY <1>1, Invariance, PTL
=============================================================================
