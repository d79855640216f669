--------------------------- MODULE OperatorSignIn ---------------------------
(***************************************************************************)
(* Operators sign in and work: authenticate with its lockout, the registry *)
(* of sessions with its cap, and the check that every request of a session *)
(* passes (security.py), against an administrator who rotates passwords,   *)
(* deactivates accounts and changes what they may do (polaris.py).         *)
(*                                                                         *)
(* The SELECTs of authenticate read committed rows without locking them,   *)
(* password hashing lies between them and the UPDATE, and CURRENT_TIMESTAMP*)
(* is the start of the transaction however long it waited.  An UPDATE of   *)
(* AppUser and its commit are one step, that waits for whoever holds the   *)
(* row; register_session holds it from its first statement to its commit.  *)
(* validate_session reads in one statement and writes in another, and what *)
(* others commit between the two is not looked at again.                   *)
(*                                                                         *)
(* The second factor lies between the right password and the session: here *)
(* it takes any time, or the sign-in is abandoned.                         *)
(***************************************************************************)
EXTENDS Naturals, Sequences, FiniteSets

CONSTANTS
  Users,       \* AppUser rows
  Workers,     \* sign-ins under way at the same time, at most one each
  Requests,    \* requests of sessions being checked at the same time
  Sids,        \* bound: session ids
  Standings,   \* what an account may do: its role and its authority binding
  Threshold,   \* LOGIN_FAILURE_THRESHOLD
  Window,      \* LOGIN_FAILURE_WINDOW_MIN
  LockFor,     \* ACCOUNT_LOCK_MIN
  Cap,         \* session_max_for_role, 0 for unlimited
  Idle,        \* session_idle_minutes_for_role, 0 for none
  Touch,       \* SESSION_TOUCH_SECONDS
  PurgeAfter,  \* SESSION_PURGE_DAYS
  Timeout,     \* POLARIS_TIMEOUT: a worker busy for longer is killed
  Scenarios,   \* bound: sets of operations, with or without a "race" of sign-ins
  MaxFails,    \* bound: wrong passwords since the last reset
  MaxRotations,\* bound: password rotations of one account
  MaxClock,    \* bound: the clock stops here
  Nobody       \* no worker

ASSUME SignInAssumption ==
  /\ Threshold \in Nat \ {0} /\ Window \in Nat /\ LockFor \in Nat \ {0}
  /\ Cap \in [Standings -> Nat] /\ Idle \in [Standings -> Nat]
  /\ Touch \in Nat /\ PurgeAfter \in Nat /\ Timeout \in Nat
  /\ MaxFails \in Nat /\ MaxRotations \in Nat /\ MaxClock \in Nat
  /\ Nobody \notin Workers
  /\ IsFiniteSet(Sids) /\ IsFiniteSet(Workers) /\ IsFiniteSet(Requests)
  /\ Users # {} /\ Workers # {} /\ Standings # {}

VARIABLES
  account,    \* AppUser as committed; 0 stands for NULL
  holder,     \* who holds the AppUser row FOR UPDATE
  sessions,   \* OperatorSession; a signed cookie says what its row does
  pc,         \* where each sign-in is
  attempt,    \* that sign-in
  request,    \* what each request of a session has read
  fails,      \* the wrong passwords counted since the last reset, by their now
  late,       \* wrong passwords judged while the present lock was in force
  rotations,  \* user -> password rotations so far
  overdue,    \* session -> requests let through since it ended, or its account fell
  allowed,    \* the operations of this behaviour
  clock

people == <<account, holder, fails, late, rotations>>
signing == <<pc, attempt>>
asking == <<request, overdue>>
vars == <<people, sessions, signing, asking, allowed, clock>>

Account == [active : BOOLEAN, standing : Standings, count : Nat,
            lastFailed : Nat, lockedUntil : Nat]

(* seen is COALESCE(revoked_at, last_seen_at).  No column keeps used, the start of
   the latest request let through (for a session ended as idle, as of the SELECT
   that found it so), nor epoch, the account's rotations before the row was
   written. *)
Session == [state : {"unused", "live", "idled", "ended", "purged"}, user : Users,
            standing : Standings, seen : Nat, created : Nat, used : Nat, epoch : Nat]

NoAttempt ==
  [user |-> CHOOSE u \in Users : TRUE, right |-> FALSE, now |-> 0, wasLocked |-> FALSE,
   standing |-> CHOOSE st \in Standings : TRUE, sid |-> {}, evict |-> {},
   epoch |-> 0]

(* The verdict of a SELECT: end the session, as idle or otherwise, let the request
   through, with a touch or without. *)
Request ==
  [verdict : {"none", "ended", "idled", "touch", "pass"}, sid : SUBSET Sids,
   now : Nat, used : Nat]

NoRequest == [verdict |-> "none", sid |-> {}, now |-> 0, used |-> 0]

-----------------------------------------------------------------------------
(* authenticate *)

UserOf(w) == attempt[w].user
RowFree(u) == holder[u] = Nobody

Goto(w, label) == pc' = [pc EXCEPT ![w] = label]

Finish(w) == Goto(w, "idle") /\ attempt' = [attempt EXCEPT ![w] = NoAttempt]

(* The transaction starts with the SELECT of the account; an inactive one is
   refused and nothing happens. *)
Begin(w, u, right) ==
  /\ pc[w] = "idle"
  /\ (IF right THEN "right" ELSE "wrong") \in allowed
  /\ "race" \in allowed \/ \A x \in Workers : pc[x] = "idle"
  /\ account[u].active
  /\ IF right THEN \E s \in Sids : sessions[s].state = "unused"
               ELSE Len(fails[u]) < MaxFails
  /\ Goto(w, "check")
  /\ attempt' = [attempt EXCEPT ![w] =
                   [NoAttempt EXCEPT !.user = u, !.right = right, !.now = clock,
                                     !.wasLocked = account[u].lockedUntil # 0,
                                     !.standing = account[u].standing]]
  /\ UNCHANGED <<people, sessions, asking, allowed, clock>>

(* Mutant: the lock is not looked at. *)
NeverLocked(w) == FALSE

(* user['locked_until'] and still_locked: one from each SELECT. *)
StillLocked(w) ==
  attempt[w].wasLocked /\ account[UserOf(w)].lockedUntil > attempt[w].now

Check(w) ==
  /\ pc[w] = "check"
  /\ \/ StillLocked(w) /\ Finish(w)
     \/ ~StillLocked(w) /\ Goto(w, "judge") /\ UNCHANGED attempt
  /\ UNCHANGED <<people, sessions, asking, allowed, clock>>

(* The count goes on while the last failure is within the window. *)
NewCount(row, now) ==
  IF row.lastFailed = 0 \/ row.lastFailed + Window > now THEN row.count + 1 ELSE 1

(* Mutant: only an account that was never locked can be locked. *)
NotLockedBefore(row, now) == row.lockedUntil = 0

(* A lock that is live at now is not extended, one that lapsed is replaced. *)
Lockable(row, now) == row.lockedUntil = 0 \/ row.lockedUntil <= now

Failed(row, now) ==
  LET n == NewCount(row, now)
  IN [row EXCEPT !.count = n, !.lastFailed = now,
                 !.lockedUntil = IF n >= Threshold /\ Lockable(row, now)
                                 THEN now + LockFor ELSE @]

Fail(w) ==
  LET u == UserOf(w)
      now == attempt[w].now
  IN /\ pc[w] = "judge" /\ ~attempt[w].right
     /\ RowFree(u)
     /\ account' = [account EXCEPT ![u] = Failed(@, now)]
     /\ fails' = [fails EXCEPT ![u] = Append(@, now)]
     /\ late' = [late EXCEPT ![u] = IF account[u].lockedUntil > clock THEN @ + 1 ELSE 0]
     /\ Finish(w)
     /\ UNCHANGED <<holder, sessions, rotations, asking, allowed, clock>>

Reset(row) == [row EXCEPT !.count = 0, !.lockedUntil = 0]

(* The right password: counter, lock and last failure are cleared. *)
Succeed(w) ==
  LET u == UserOf(w)
  IN /\ pc[w] = "judge" /\ attempt[w].right
     /\ RowFree(u)
     /\ account' = [account EXCEPT ![u] = [Reset(@) EXCEPT !.lastFailed = 0]]
     /\ fails' = [fails EXCEPT ![u] = <<>>]
     /\ late' = [late EXCEPT ![u] = 0]
     /\ Goto(w, "factor")
     /\ UNCHANGED <<holder, sessions, attempt, rotations, asking, allowed, clock>>

(* Mutant: the connection goes back to the pool with its transaction open. *)
AbandonOpen(w) ==
  /\ pc[w] # "idle"
  /\ Finish(w)
  /\ UNCHANGED <<people, sessions, asking, allowed, clock>>

(* The network policy or the second factor refuses, or the worker dies: an open
   transaction rolls back. *)
Abandon(w) ==
  /\ pc[w] # "idle"
  /\ holder' = [u \in Users |-> IF holder[u] = w THEN Nobody ELSE holder[u]]
  /\ Finish(w)
  /\ UNCHANGED <<account, fails, late, rotations, sessions, asking, allowed, clock>>

-----------------------------------------------------------------------------
(* register_session *)

LiveOf(u) == {s \in Sids : sessions[s].state = "live" /\ sessions[s].user = u}

SeenBefore(a, b) == a.seen < b.seen \/ (a.seen = b.seen /\ a.created <= b.created)

(* The rows beyond the cap, ordered by last_seen_at and created_at; rows holds
   the account's live rows, the new one among them. *)
Evictions(rows, cap) ==
  {E \in SUBSET DOMAIN rows :
     /\ cap = 0 => E = {}
     /\ cap > 0 => Cardinality(DOMAIN rows \ E) = cap
                     \/ (E = {} /\ Cardinality(DOMAIN rows) < cap)
     /\ \A e \in E, k \in DOMAIN rows \ E : SeenBefore(rows[e], rows[k])}

(* Both time columns default to the start of the transaction. *)
NewRow(w, now) ==
  [state |-> "live", user |-> UserOf(w), standing |-> attempt[w].standing,
   seen |-> now, created |-> now, used |-> now, epoch |-> attempt[w].epoch]

(* Mutant: the account row is not locked. *)
Unlocked(w, u) == UNCHANGED holder

(* SELECT ... FOR UPDATE *)
LockRow(w, u) == RowFree(u) /\ holder' = [holder EXCEPT ![u] = w]

(* The transaction starts, and with it its now(). *)
Open(w) ==
  /\ pc[w] = "factor" /\ "register" \in allowed
  /\ Goto(w, "lock")
  /\ attempt' = [attempt EXCEPT ![w].now = clock]
  /\ UNCHANGED <<people, sessions, asking, allowed, clock>>

(* With the account's row locked, the session is inserted and the evictions are
   chosen among it and what others have committed. *)
Insert(w) ==
  /\ pc[w] = "lock"
  /\ LockRow(w, UserOf(w))
  /\ \E s \in Sids :
       /\ sessions[s].state = "unused"
       /\ \A x \in Workers : attempt[x].sid # {s}
       /\ \E E \in Evictions([k \in LiveOf(UserOf(w)) \cup {s} |->
                                IF k = s THEN NewRow(w, attempt[w].now) ELSE sessions[k]],
                             Cap[attempt[w].standing]) :
            attempt' = [attempt EXCEPT ![w].sid = {s}, ![w].evict = E,
                                       ![w].epoch = rotations[UserOf(w)]]
  /\ Goto(w, "register")
  /\ UNCHANGED <<account, fails, late, rotations, sessions, asking, allowed, clock>>

(* revoked_at and its reason *)
Ended(row, how, now) == [row EXCEPT !.state = how, !.seen = now]

NoRow(state) ==
  [state |-> state, user |-> NoAttempt.user, standing |-> NoAttempt.standing,
   seen |-> 0, created |-> 0, used |-> 0, epoch |-> 0]

HasRow(row) == row.state \notin {"unused", "purged"}

(* Commit: rows unseen for PurgeAfter go as well. *)
Register(w) ==
  /\ pc[w] = "register"
  /\ sessions' = [s \in Sids |->
       LET row == IF s \in attempt[w].sid THEN NewRow(w, attempt[w].now) ELSE sessions[s]
       IN IF ~HasRow(row) THEN row
          ELSE IF s \in attempt[w].evict THEN Ended(row, "ended", attempt[w].now)
          ELSE IF row.seen + PurgeAfter < attempt[w].now THEN NoRow("purged")
          ELSE row]
  /\ holder' = [u \in Users |-> IF holder[u] = w THEN Nobody ELSE holder[u]]
  /\ Finish(w)
  /\ UNCHANGED <<account, fails, late, rotations, asking, allowed, clock>>

-----------------------------------------------------------------------------
(* validate_session, before every request of a session, and logout.  A cookie
   whose row is not live is cleared, and nothing happens. *)

(* Mutant: only is_active is read again. *)
ActiveOnly(row) == account[row.user].active

Entitled(row) == account[row.user].active /\ account[row.user].standing = row.standing

IdleExpired(row) ==
  Idle[row.standing] > 0 /\ row.seen + Idle[row.standing] < clock

(* Mutant: last_seen_at is held against the idle timeout. *)
StaleWhenIdle(row) == row.seen + Idle[row.standing] < clock

Stale(row) == row.seen + Touch < clock

(* A session that is entitled and not idle may still come from an address outside
   the network policy of its role. *)
Verdicts(row) ==
  IF ~Entitled(row) THEN {"ended"}
  ELSE IF IdleExpired(row) THEN {"idled"}
  ELSE {"ended", IF Stale(row) THEN "touch" ELSE "pass"}

(* The SELECT of the session and its account, both as committed, unlocked. *)
Look(r, s) ==
  /\ "request" \in allowed
  /\ request[r] = NoRequest
  /\ sessions[s].state = "live"
  /\ \E verdict \in Verdicts(sessions[s]) :
       request' = [request EXCEPT ![r] = [verdict |-> verdict, sid |-> {s}, now |-> clock,
                                          used |-> sessions[s].used]]
  /\ UNCHANGED <<people, sessions, signing, overdue, allowed, clock>>

(* gunicorn kills a sync worker that has been busy for longer than Timeout. *)
InTime(r) == clock <= request[r].now + Timeout

(* UPDATE ... WHERE revoked_at IS NULL: neither last_seen_at nor the account is
   looked at again. *)
EndSession(r, s) ==
  LET row == sessions[s]
      how == request[r].verdict
  IN IF row.state # "live" THEN row
     ELSE [Ended(row, how, request[r].now) EXCEPT !.used = IF how = "idled" THEN request[r].used ELSE @]

(* last_seen_at = now(), whatever it is by then; an ended row keeps its
   COALESCE(revoked_at, last_seen_at). *)
LetThrough(r, s) ==
  LET row == sessions[s]
      now == request[r].now
  IN IF row.state # "live" THEN row
     ELSE [row EXCEPT !.used = IF @ < now THEN now ELSE @,
                      !.seen = IF request[r].verdict = "touch" THEN now ELSE @]

(* A live session whose account is active and stands as it stood. *)
Good(s) ==
  /\ sessions[s].state = "live"
  /\ account[sessions[s].user].active
  /\ account[sessions[s].user].standing = sessions[s].standing

(* The UPDATE, if there is one, and its commit; the request is sent to /login, or
   goes on. *)
End(r) ==
  /\ request[r].verdict \in {"ended", "idled"} /\ InTime(r)
  /\ sessions' = [s \in Sids |-> IF s \in request[r].sid THEN EndSession(r, s) ELSE sessions[s]]
  /\ request' = [request EXCEPT ![r] = NoRequest]
  /\ UNCHANGED <<people, signing, overdue, allowed, clock>>

Pass(r) ==
  /\ request[r].verdict \in {"touch", "pass"} /\ InTime(r)
  /\ sessions' = [s \in Sids |-> IF s \in request[r].sid THEN LetThrough(r, s) ELSE sessions[s]]
  /\ overdue' = [s \in Sids |-> IF s \in request[r].sid /\ ~Good(s) THEN overdue[s] + 1
                                                              ELSE overdue[s]]
  /\ request' = [request EXCEPT ![r] = NoRequest]
  /\ UNCHANGED <<people, signing, allowed, clock>>

(* The worker is killed, or the connection lost, and nothing is committed. *)
Drop(r) ==
  /\ request[r] # NoRequest
  /\ request' = [request EXCEPT ![r] = NoRequest]
  /\ UNCHANGED <<people, sessions, signing, overdue, allowed, clock>>

Logout(s) ==
  /\ "request" \in allowed
  /\ sessions[s].state = "live"
  /\ sessions' = [sessions EXCEPT ![s] = Ended(@, "ended", clock)]
  /\ UNCHANGED <<people, signing, asking, allowed, clock>>

-----------------------------------------------------------------------------
(* user-passwd, user-deactivate; reactivation and changes of role or authority
   are the owner's own SQL.  Each is one step, with the time at which it gets the
   account's row. *)

AllEnded(u) ==
  [s \in Sids |-> IF s \in LiveOf(u) THEN Ended(sessions[s], "ended", clock) ELSE sessions[s]]

Rotate(u) ==
  /\ "rotate" \in allowed
  /\ RowFree(u)
  /\ rotations[u] < MaxRotations
  /\ rotations' = [rotations EXCEPT ![u] = @ + 1]
  /\ account' = [account EXCEPT ![u] = Reset(@)]
  /\ fails' = [fails EXCEPT ![u] = <<>>]
  /\ late' = [late EXCEPT ![u] = 0]
  /\ sessions' = AllEnded(u)
  /\ UNCHANGED <<holder, signing, asking, allowed, clock>>

Deactivate(u) ==
  /\ "standing" \in allowed
  /\ RowFree(u)
  /\ account' = [account EXCEPT ![u].active = FALSE]
  /\ sessions' = AllEnded(u)
  /\ UNCHANGED <<holder, fails, late, rotations, signing, asking, allowed, clock>>

Restand(u, active, st) ==
  /\ "standing" \in allowed
  /\ RowFree(u)
  /\ active \/ ~account[u].active
  /\ account' = [account EXCEPT ![u].active = active, ![u].standing = st]
  /\ UNCHANGED <<holder, fails, late, rotations, sessions, signing, request, allowed, clock>>
  /\ overdue' = [s \in Sids |-> IF Good(s)' THEN 0 ELSE overdue[s]]

Tick ==
  /\ clock < MaxClock
  /\ clock' = clock + 1
  /\ UNCHANGED <<people, sessions, signing, asking, allowed>>

-----------------------------------------------------------------------------
Init ==
  /\ account = [u \in Users |-> [active |-> TRUE, standing |-> NoAttempt.standing,
                                 count |-> 0, lastFailed |-> 0, lockedUntil |-> 0]]
  /\ holder = [u \in Users |-> Nobody]
  /\ sessions = [s \in Sids |-> NoRow("unused")]
  /\ pc = [w \in Workers |-> "idle"]
  /\ attempt = [w \in Workers |-> NoAttempt]
  /\ request = [r \in Requests |-> NoRequest]
  /\ overdue = [s \in Sids |-> 0]
  /\ fails = [u \in Users |-> <<>>]
  /\ late = [u \in Users |-> 0]
  /\ rotations = [u \in Users |-> 0]
  /\ allowed \in Scenarios
  /\ clock = 1

Step(w) == Check(w) \/ Fail(w) \/ Succeed(w) \/ Open(w) \/ Insert(w) \/ Register(w)

Next ==
  \/ \E w \in Workers, u \in Users, right \in BOOLEAN : Begin(w, u, right)
  \/ \E w \in Workers : Step(w) \/ Abandon(w)
  \/ \E r \in Requests, s \in Sids : Look(r, s)
  \/ \E r \in Requests : End(r) \/ Pass(r) \/ Drop(r)
  \/ \E s \in Sids : Logout(s)
  \/ \E u \in Users : Rotate(u) \/ Deactivate(u)
  \/ \E u \in Users, active \in BOOLEAN, st \in Standings : Restand(u, active, st)
  \/ Tick

Spec == Init /\ [][Next]_vars

-----------------------------------------------------------------------------
(* Accounts, sessions and sign-ins are well formed; above all a row lock belongs
   to a sign-in that will release it. *)
SignInTypeOK ==
  /\ account \in [Users -> Account]
  /\ sessions \in [Sids -> Session]
  /\ pc \in [Workers -> {"idle", "check", "judge", "factor", "lock", "register"}]
  /\ \A w \in Workers : attempt[w].now <= clock /\ attempt[w].standing \in Standings
  /\ \A u \in Users : holder[u] # Nobody => pc[holder[u]] = "register"
  /\ request \in [Requests -> Request] /\ \A r \in Requests : request[r].now <= clock
  /\ clock \in Nat

(* "5 failures within 10 minutes" lock the account, every time: when the last
   Threshold wrong passwords each came within the window of the one before, the
   account is locked past the last of them, though they raced and an earlier lock
   had lapsed (authenticate). *)
LockedWhenDue ==
  \A u \in Users :
    LET f == fails[u]
        n == Len(f)
    IN (n >= Threshold /\ \A i \in (n - Threshold + 2)..n : f[i - 1] + Window > f[i])
         => account[u].lockedUntil > f[n]

(* While a lock is in force only the sign-ins that were under way when it was set
   are still judged, one guess each. *)
LockStopsGuessing == \A u \in Users : late[u] < Cardinality(Workers)

(* "concurrent logins serialize and the cap is exact" (register_session). *)
SessionCap ==
  \A u \in Users, st \in Standings :
    (Cap[st] > 0 /\ \A s \in LiveOf(u) : sessions[s].standing = st)
      => Cardinality(LiveOf(u)) <= Cap[st]

(* "a rotated password ends every live web session of the account" (user-passwd),
   the one whose registration was under way included. *)
RotationEndsSessions ==
  \A s \in Sids :
    sessions[s].state = "live" => sessions[s].epoch = rotations[sessions[s].user]

(* How far last_seen_at can lag behind the last use. *)
Slack == IF Touch < Timeout THEN Timeout ELSE Touch

(* A session that a request ended as idle had not been used for its role's timeout
   when that request read it, but for touches saved or still under way: no request
   let through by then had started within the timeout less the longer of the two.
   Two requests write last_seen_at in any order, so it may step back. *)
IdleMeansUnused ==
  \A s \in Sids :
    sessions[s].state = "idled" =>
      sessions[s].used + Idle[sessions[s].standing] < sessions[s].seen + Slack

(* Once a session has ended, by whatever way, or its account was deactivated or
   stands otherwise, only requests that had read it before are still let through,
   one each, whatever order their writes and the end come in. *)
EndStopsRequests == \A s \in Sids : overdue[s] <= Cardinality(Requests)
=============================================================================
