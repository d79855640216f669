-------------------------- MODULE TokenTrailProofs --------------------------
(***************************************************************************)
(* What the procedures keep true of committed rows, for any number of      *)
(* tokens, holders, agencies and transactions: statuses move along the     *)
(* state machine only; the lifecycle log and the revocation list tell each *)
(* token's status; a token is succeeded at most once and never by itself;  *)
(* an agency revokes no more than its hourly allowance; and every commit   *)
(* is a step of IdentityRegister.                                          *)
(***************************************************************************)
EXTENDS TokenLifecycleProofs, FiniteSetTheorems

(* The log of a row: what may have been logged before the current status, the last
   event is the status', nothing twice. *)
Trail(r) ==
  /\ r.status = "RESERVE" => \A k \in DOMAIN r.events : r.events[k].type = "ISSUED"
  /\ r.status = "ACTIVE" => \A k \in DOMAIN r.events : r.events[k].type \in {"ISSUED", "ACTIVATED"}
  /\ r.status \notin {"NONE", "RESERVE"} =>
       r.events # <<>> /\ r.events[Len(r.events)].type = EventFor(r.status)
  /\ \A j, k \in DOMAIN r.events : r.events[j].type = r.events[k].type => j = k

Listed(r) ==
  /\ r.status = "REVOKED" => r.published > 0
  /\ r.published > 0 => r.status \in Terminal

(* A version of a row that statements can leave. *)
Sound(r) ==
  /\ r.status = "NONE" => r = NoRow
  /\ Trail(r)
  /\ Listed(r)

Moves(old, new) ==
  \/ old = new
  \/ <<old, new>> \in LegalMoves
  \/ old = "NONE" /\ new \in {"RESERVE", "ACTIVE"}

(* The rows x has locked, and what it has done to those it will write again. *)
Reading == {"idle", "transition", "uc4_holder", "uc4_lost", "uc8_lock", "uc8_check", "uc8_update",
            "uc9_insert_request"}

Locking == {"transition_index", "uc4_reserve", "uc4_swap"}

Drafted(t, from, to) == row[t].status = from /\ draft[t].status = to

WritesAgain(x) ==
  /\ pc[x] \in Reading => \A t \in Tokens : owner[t] # x
  /\ pc[x] \in Locking => \A t \in Tokens : owner[t] = x => draft[t] = row[t]
  /\ pc[x] = "transition_index" => draft[arg[x].tok].status = "RESERVE"
  /\ pc[x] = "bulk_activate" => \A t \in arg[x].batch : Drafted(t, "NONE", "RESERVE")
  /\ pc[x] \in {"uc9_lock", "uc9_request", "uc9_loop"} => Drafted(arg[x].tok, "NONE", "NONE")
  /\ pc[x] \in {"uc9_lock", "uc9_request"} => \A t \in Tokens : owner[t] = x => t = arg[x].tok
  /\ pc[x] = "uc9_loop" => \A t \in arg[x].batch : owner[t] # x
  /\ pc[x] = "uc9_issue" => Drafted(arg[x].tok, "NONE", "RESERVE")

(* The inductive invariant, next to the one of TokenLifecycleProofs. *)
TrailInv ==
  /\ \A t \in Tokens : Sound(row[t]) /\ Sound(draft[t]) /\ Moves(row[t].status, draft[t].status)
  /\ \A x \in Txns : WritesAgain(x)

-----------------------------------------------------------------------------
(* Versions of a row *)

(* A row without a token. *)
LEMMA NoRowSound == NoRow.status = "NONE" /\ Sound(NoRow)
BY DEF NoRow, Sound, Trail, Listed

(* An inserted row, with its ISSUED event or, as UC-9 leaves it, without one. *)
LEMMA IssuedSound ==
  ASSUME NEW now \in Nat
  PROVE  /\ Sound(Issued(NoRow, now)) /\ Sound([NoRow EXCEPT !.status = "RESERVE"])
         /\ Issued(NoRow, now).status = "RESERVE" /\ [NoRow EXCEPT !.status = "RESERVE"].status = "RESERVE"
<1> DEFINE e == [type |-> "ISSUED", reason |-> "ISSUE", at |-> now]
           bare == [NoRow EXCEPT !.status = "RESERVE"]
<1>1. Issued(NoRow, now).status = "RESERVE" /\ Issued(NoRow, now).published = 0
      /\ Issued(NoRow, now).events = Append(<<>>, e)
  BY DEF Issued, NoRow
<1>2. Append(<<>>, e) = <<e>> /\ e.type = "ISSUED"
  OBVIOUS
<1>3. bare.status = "RESERVE" /\ bare.published = 0 /\ bare.events = <<>>
  BY DEF NoRow
<1> HIDE DEF e, bare
<1>4. Sound(Issued(NoRow, now))
  BY <1>1, <1>2 DEF Sound, Trail, Listed
<1>5. Sound(bare)
  BY <1>3 DEF Sound, Trail, Listed
<1> QED BY <1>1, <1>3, <1>4, <1>5 DEF bare

(* An event of a new type can be logged next. *)
LEMMA AppendTrail ==
  ASSUME NEW es \in Seq(Event), NEW ev \in Event,
         \A k \in DOMAIN es : es[k].type # ev.type,
         \A j, k \in DOMAIN es : es[j].type = es[k].type => j = k
  PROVE  LET new == Append(es, ev) IN
         /\ new # <<>> /\ new[Len(new)].type = ev.type
         /\ \A j, k \in DOMAIN new : new[j].type = new[k].type => j = k
         /\ \A T : (\A k \in DOMAIN es : es[k].type \in T) /\ ev.type \in T
              => \A k \in DOMAIN new : new[k].type \in T
<1> DEFINE new == Append(es, ev)
<1>1. /\ DOMAIN es = 1..Len(es) /\ Len(es) \in Nat
      /\ DOMAIN new = 1..(Len(es) + 1) /\ Len(new) = Len(es) + 1
      /\ new[Len(es) + 1] = ev /\ \A k \in 1..Len(es) : new[k] = es[k]
  OBVIOUS
<1>2. new # <<>>
  BY <1>1
<1> HIDE DEF new
<1>3. \A k \in DOMAIN new : k = Len(es) + 1 \/ (k \in DOMAIN es /\ new[k] = es[k])
  BY <1>1
<1>4. \A j, k \in DOMAIN new : new[j].type = new[k].type => j = k
  BY <1>1, <1>3
<1>5. \A T : (\A k \in DOMAIN es : es[k].type \in T) /\ ev.type \in T
              => \A k \in DOMAIN new : new[k].type \in T
  BY <1>1, <1>3
<1> QED BY <1>1, <1>2, <1>4, <1>5 DEF new

(* The audit trigger logs every move of the state machine, once. *)
LEMMA SetStatusTrail ==
  ASSUME NEW r \in TokenRow, Sound(r), NEW s, NEW reason \in Reason, NEW now \in Nat,
         r.status = s \/ <<r.status, s>> \in LegalMoves
  PROVE  /\ Trail(SetStatus(r, s, reason, now)) /\ SetStatus(r, s, reason, now).status = s
         /\ SetStatus(r, s, reason, now).published = r.published
<1> DEFINE new == SetStatus(r, s, reason, now)
           ev == [type |-> EventFor(s), reason |-> reason, at |-> now]
<1>1. /\ new.status = s /\ new.published = r.published /\ new.events = Audited(r, s, reason, now)
      /\ r.events \in Seq(Event) /\ r.status \in Status
  BY DEF SetStatus, TokenRow
<1> HIDE DEF new
<1>2. CASE r.status = s
  <2>1. new.events = r.events
    BY <1>1, <1>2 DEF Audited
  <2> QED BY <1>1, <1>2, <2>1 DEF Sound, Trail, new
<1>3. CASE <<r.status, s>> \in LegalMoves
  <2>1. /\ r.status \in {"RESERVE", "ACTIVE"} /\ s \in {"ACTIVE", "DORMANT", "REVOKED", "LOST", "EXPIRED"}
        /\ r.status # s /\ (s = "ACTIVE" => r.status = "RESERVE")
    BY <1>3 DEF LegalMoves
  <2>2. EventFor(s) \in {"ACTIVATED", "DEACTIVATED", "REVOKED", "LOST", "EXPIRED"}
        /\ (EventFor(s) = "ACTIVATED" => s = "ACTIVE")
    BY <2>1 DEF EventFor
  <2>3. \A k \in DOMAIN r.events : r.events[k].type # EventFor(s)
    BY <2>1, <2>2 DEF Sound, Trail
  <2>4. new.events = Append(r.events, ev)
    BY <1>1, <2>1, <2>3 DEF Audited
  <2>5. ev \in Event /\ ev.type = EventFor(s)
    BY <2>2 DEF Event, EventType
  <2> HIDE DEF ev
  <2>6. \A j, k \in DOMAIN r.events : r.events[j].type = r.events[k].type => j = k
    BY DEF Sound, Trail
  <2>7. /\ new.events # <<>> /\ new.events[Len(new.events)].type = EventFor(s)
        /\ \A j, k \in DOMAIN new.events : new.events[j].type = new.events[k].type => j = k
        /\ \A T : (\A k \in DOMAIN r.events : r.events[k].type \in T) /\ EventFor(s) \in T
             => \A k \in DOMAIN new.events : new.events[k].type \in T
    BY <1>1, <2>3, <2>4, <2>5, <2>6, AppendTrail
  <2>8. s = "ACTIVE" => \A k \in DOMAIN new.events : new.events[k].type \in {"ISSUED", "ACTIVATED"}
    <3> SUFFICES ASSUME s = "ACTIVE" PROVE \A k \in DOMAIN new.events : new.events[k].type \in {"ISSUED", "ACTIVATED"}
      OBVIOUS
    <3>1. \A k \in DOMAIN r.events : r.events[k].type \in {"ISSUED", "ACTIVATED"}
      BY <2>1 DEF Sound, Trail
    <3>2. EventFor(s) \in {"ISSUED", "ACTIVATED"}
      BY DEF EventFor
    <3> QED BY <2>7, <3>1, <3>2
  <2>9. Trail(new)
    BY <1>1, <2>1, <2>7, <2>8 DEF Trail
  <2> QED BY <1>1, <2>9 DEF new
<1> QED BY <1>2, <1>3

(* An UPDATE to a status other than REVOKED, or that leaves the row as it is. *)
LEMMA SetStatusSound ==
  ASSUME NEW r \in TokenRow, Sound(r), NEW s, NEW reason \in Reason, NEW now \in Nat,
         r.status = s \/ <<r.status, s>> \in LegalMoves, s # "REVOKED" \/ r.status = "REVOKED"
  PROVE  Sound(SetStatus(r, s, reason, now)) /\ SetStatus(r, s, reason, now).status = s
<1> DEFINE new == SetStatus(r, s, reason, now)
<1>1. Trail(new) /\ new.status = s /\ new.published = r.published
  BY SetStatusTrail
<1>2. s = "NONE" => r.status = "NONE"
  BY DEF LegalMoves
<1>3. s = "NONE" => new = NoRow
  BY <1>2 DEF Sound, NoRow, SetStatus, Audited
<1> HIDE DEF new
<1>4. Listed(new)
  BY <1>1 DEF Sound, Listed, LegalMoves, Terminal
<1> QED BY <1>1, <1>3, <1>4 DEF Sound, new

(* An UPDATE to a terminal status with the publication. *)
LEMMA VoidedSound ==
  ASSUME NEW r \in TokenRow, Sound(r), NEW s \in Terminal, NEW reason \in Reason, NEW now \in Nat,
         r.status = s \/ <<r.status, s>> \in LegalMoves
  PROVE  LET new == Published(SetStatus(r, s, reason, now)) IN Sound(new) /\ new.status = s
<1> DEFINE set == SetStatus(r, s, reason, now)
           new == Published(set)
<1>1. Trail(set) /\ set.status = s /\ set.published \in Nat
  BY SetStatusTrail DEF TokenRow
<1>2. s \in Status /\ s # "NONE" /\ (r.status = s \/ EventFor(s) \in EventType)
  BY DEF Terminal, Status, EventFor, EventType
<1>3. set \in TokenRow
  BY <1>2, SetStatusType
<1> HIDE DEF set
<1>4. new.status = s /\ new.events = set.events /\ new.published = set.published + 1
  BY <1>1, <1>3 DEF Published, TokenRow
<1> HIDE DEF new
<1>5. Trail(new)
  BY <1>1, <1>4 DEF Trail
<1> QED BY <1>1, <1>2, <1>4, <1>5 DEF Sound, Listed, new, set

(* What a statement leaves of a row's log, when it is not UC-8's, and of its place
   in the succession, when it is not UC-4's. *)
Silent(old, new) ==
  /\ DOMAIN old.events \subseteq DOMAIN new.events
  /\ \A k \in DOMAIN old.events : new.events[k] = old.events[k]
  /\ \A k \in DOMAIN new.events \ DOMAIN old.events : new.events[k].reason # "UC8"

SameNumber(old, new) ==
  new.predecessor = old.predecessor /\ new.activation_sequence = old.activation_sequence

(* A row stays as it is. *)
LEMMA SameRow == \A r : Silent(r, r) /\ SameNumber(r, r)
BY DEF Silent, SameNumber

(* An insert logs nothing or its own event. *)
LEMMA IssuedQuiet ==
  ASSUME NEW now
  PROVE  /\ Silent(NoRow, Issued(NoRow, now)) /\ SameNumber(NoRow, Issued(NoRow, now))
         /\ Silent(NoRow, [NoRow EXCEPT !.status = "RESERVE"])
         /\ SameNumber(NoRow, [NoRow EXCEPT !.status = "RESERVE"])
<1> DEFINE e == [type |-> "ISSUED", reason |-> "ISSUE", at |-> now]
           new == Issued(NoRow, now)
           bare == [NoRow EXCEPT !.status = "RESERVE"]
<1>1. /\ new.events = <<e>> /\ new.predecessor = NoRow.predecessor
      /\ new.activation_sequence = NoRow.activation_sequence /\ NoRow.events = <<>>
  BY DEF Issued, NoRow
<1>2. e.reason # "UC8" /\ DOMAIN <<e>> = {1} /\ <<e>>[1] = e /\ DOMAIN <<>> = {}
  OBVIOUS
<1>3. /\ bare.events = <<>> /\ bare.predecessor = NoRow.predecessor
      /\ bare.activation_sequence = NoRow.activation_sequence
  BY DEF NoRow
<1> HIDE DEF e, new, bare
<1>4. Silent(NoRow, new) /\ SameNumber(NoRow, new)
  BY <1>1, <1>2 DEF Silent, SameNumber
<1>5. Silent(NoRow, bare) /\ SameNumber(NoRow, bare)
  BY <1>1, <1>2, <1>3 DEF Silent, SameNumber
<1> QED BY <1>4, <1>5 DEF new, bare

(* An UPDATE appends to the log what it does, if anything. *)
LEMMA SetStatusQuiet ==
  ASSUME NEW r \in TokenRow, NEW s, NEW reason, NEW now
  PROVE  /\ reason # "UC8" => Silent(r, SetStatus(r, s, reason, now))
         /\ SameNumber(r, SetStatus(r, s, reason, now))
<1> DEFINE e == [type |-> EventFor(s), reason |-> reason, at |-> now]
           new == SetStatus(r, s, reason, now)
<1>1. /\ new.events = Audited(r, s, reason, now) /\ r.events \in Seq(Event)
      /\ SameNumber(r, new)
  BY DEF SetStatus, TokenRow, SameNumber
<1>2. new.events = r.events \/ new.events = Append(r.events, e)
  BY <1>1 DEF Audited
<1>3. /\ DOMAIN r.events = 1..Len(r.events) /\ Len(r.events) \in Nat
      /\ DOMAIN Append(r.events, e) = 1..(Len(r.events) + 1)
      /\ Append(r.events, e)[Len(r.events) + 1] = e
      /\ \A k \in 1..Len(r.events) : Append(r.events, e)[k] = r.events[k]
  <2>1. \A ev : Len(Append(r.events, ev)) = Len(r.events) + 1 /\ Append(r.events, ev)[Len(r.events) + 1] = ev
    BY <1>1
  <2> HIDE DEF e
  <2> QED BY <1>1, <2>1
<1>4. e.reason = reason
  OBVIOUS
<1> HIDE DEF e, new
<1>5. reason # "UC8" => Silent(r, new)
  <2>1. CASE new.events = r.events
    BY <2>1 DEF Silent
  <2>2. CASE new.events = Append(r.events, e)
    <3>1. \A k \in DOMAIN new.events \ DOMAIN r.events : k = Len(r.events) + 1
      BY <1>3, <2>2
    <3> QED BY <1>3, <1>4, <2>2, <3>1 DEF Silent
  <2> QED BY <1>2, <2>1, <2>2
<1> QED BY <1>1, <1>5 DEF new

(* INSERT INTO RevocationList logs nothing. *)
LEMMA PublishedQuiet ==
  ASSUME NEW old, NEW set \in TokenRow
  PROVE  /\ Silent(old, set) => Silent(old, Published(set))
         /\ SameNumber(old, set) => SameNumber(old, Published(set))
<1>1. /\ Published(set).events = set.events /\ Published(set).predecessor = set.predecessor
      /\ Published(set).activation_sequence = set.activation_sequence
  BY DEF Published, TokenRow
<1> QED BY <1>1 DEF Silent, SameNumber

(* One quiet statement after another is quiet. *)
LEMMA QuietTwice ==
  ASSUME NEW r1, NEW r2, NEW r3, Silent(r1, r2), Silent(r2, r3), SameNumber(r1, r2), SameNumber(r2, r3)
  PROVE  Silent(r1, r3) /\ SameNumber(r1, r3)
BY DEF Silent, SameNumber

(* A reserve is activated. *)
LEMMA ActivatedRow ==
  ASSUME NEW r \in TokenRow, Sound(r), r.status = "RESERVE", NEW reason \in Reason, reason # "UC8",
         NEW now \in Nat
  PROVE  LET new == SetStatus(r, "ACTIVE", reason, now) IN
         new \in TokenRow /\ Sound(new) /\ new.status = "ACTIVE" /\ Silent(r, new) /\ SameNumber(r, new)
<1>1. <<r.status, "ACTIVE">> \in LegalMoves
  BY DEF LegalMoves
<1>2. SetStatus(r, "ACTIVE", reason, now) \in TokenRow
  BY SetStatusType, LoggedStatuses
<1>3. Sound(SetStatus(r, "ACTIVE", reason, now)) /\ SetStatus(r, "ACTIVE", reason, now).status = "ACTIVE"
  BY <1>1, SetStatusSound
<1> QED BY <1>2, <1>3, SetStatusQuiet

-----------------------------------------------------------------------------
(* What a transaction does to the rows *)

RowChange(x, t, new) ==
  /\ new \in TokenRow /\ RowFree(x, t) /\ Sound(new)
  /\ Moves(row[t].status, new.status) /\ Moves(draft[t].status, new.status)
  /\ pc[x] # "uc4_swap" => SameNumber(draft[t], new)
  /\ pc[x] # "uc8_update" => Silent(draft[t], new)

SoundWrite(x, S, version) ==
  /\ Write(x, S, version) /\ row' = row
  /\ \A t \in S \cap Tokens : RowChange(x, t, version[t])

TrailStep(x) ==
  \/ \E S : \E version : SoundWrite(x, S, version)
  \/ CommitRows(x)
  \/ RollbackRows(x)
  \/ UNCHANGED <<row, draft, owner>>

(* A row nobody has locked is as it was committed; one without a token is empty. *)
LEMMA FreeRow ==
  ASSUME IInv, TrailInv, NEW x \in Txns, NEW t \in Tokens, RowFree(x, t)
  PROVE  /\ owner[t] # x => draft[t] = row[t]
         /\ row[t].status = "NONE" => row[t] = NoRow
         /\ draft[t].status = "NONE" => draft[t] = NoRow
         /\ row[t] \in TokenRow /\ draft[t] \in TokenRow /\ Sound(row[t]) /\ Sound(draft[t])
BY DEF IInv, TypeOK, Versions, TrailInv, Sound, RowFree

(* Such a step keeps what the invariant says of rows. *)
LEMMA TrailStepRows ==
  ASSUME TrailInv, NEW x \in Txns, TrailStep(x), NEW t \in Tokens
  PROVE  Sound(row[t])' /\ Sound(draft[t])' /\ Moves(row[t].status, draft[t].status)'
<1>1. Sound(row[t]) /\ Sound(draft[t]) /\ Moves(row[t].status, draft[t].status)
  BY DEF TrailInv
<1>2. ASSUME NEW S, NEW version, SoundWrite(x, S, version)
      PROVE  Sound(row[t])' /\ Sound(draft[t])' /\ Moves(row[t].status, draft[t].status)'
  <2>1. row'[t] = row[t] /\ draft'[t] = IF t \in S THEN version[t] ELSE draft[t]
    BY <1>2 DEF SoundWrite, Write
  <2>2. t \in S => Sound(version[t]) /\ Moves(row[t].status, version[t].status)
    BY <1>2 DEF SoundWrite, RowChange
  <2>3. CASE t \in S
    BY <1>1, <2>1, <2>2, <2>3
  <2>4. CASE t \notin S
    BY <1>1, <2>1, <2>4
  <2> QED BY <2>3, <2>4
<1>3. CASE CommitRows(x)
  <2>1. row'[t] \in {row[t], draft[t]} /\ draft'[t] = draft[t]
    BY <1>3 DEF CommitRows
  <2> QED BY <1>1, <2>1 DEF Moves
<1>4. CASE RollbackRows(x)
  <2>1. draft'[t] \in {row[t], draft[t]} /\ row'[t] = row[t]
    BY <1>4 DEF RollbackRows
  <2> QED BY <1>1, <2>1 DEF Moves
<1>5. CASE UNCHANGED <<row, draft, owner>>
  BY <1>1, <1>5
<1> QED BY <1>2, <1>3, <1>4, <1>5 DEF TrailStep

(* And no step of x touches a row that another transaction has locked. *)
LEMMA OthersRows ==
  ASSUME StoreAssumption, IInv, NEW x \in Txns, TrailStep(x), NEW y \in Txns \ {x}, NEW t \in Tokens
  PROVE  /\ owner'[t] = y <=> owner[t] = y
         /\ owner[t] = y => row'[t] = row[t] /\ draft'[t] = draft[t]
<1>1. ASSUME NEW S, NEW version, SoundWrite(x, S, version)
      PROVE  /\ owner'[t] = y <=> owner[t] = y
             /\ owner[t] = y => row'[t] = row[t] /\ draft'[t] = draft[t]
  BY <1>1 DEF SoundWrite, Write, RowChange, RowFree, StoreAssumption
<1>2. CASE CommitRows(x)
  BY <1>2 DEF CommitRows, ReleaseRows, StoreAssumption
<1>3. CASE RollbackRows(x)
  BY <1>3 DEF RollbackRows, ReleaseRows, StoreAssumption
<1>4. CASE UNCHANGED <<row, draft, owner>>
  BY <1>4
<1> QED BY <1>1, <1>2, <1>3, <1>4 DEF TrailStep

(* A step keeps the invariant if its own transaction may go on from there. *)
LEMMA TrailKeeps ==
  ASSUME StoreAssumption, IInv, TrailInv, NEW x \in Txns, TrailStep(x), WritesAgain(x)',
         \A y \in Txns \ {x} : pc'[y] = pc[y] /\ arg'[y] = arg[y]
  PROVE  TrailInv'
<1>1. ASSUME NEW y \in Txns, y # x PROVE WritesAgain(y)'
  <2>1. WritesAgain(y) /\ OwnsAt(y) /\ pc'[y] = pc[y] /\ arg'[y] = arg[y]
    BY <1>1 DEF TrailInv, IInv, Owns
  <2>2. \A t \in Tokens : /\ owner'[t] = y <=> owner[t] = y
                          /\ owner[t] = y => row'[t] = row[t] /\ draft'[t] = draft[t]
    BY <1>1, OthersRows
  <2>3. arg[y] \in Arg
    BY DEF IInv, TypeOK
  <2>4. arg[y].batch \subseteq Tokens
    BY <2>3 DEF Arg
  <2>5. /\ pc[y] \in Reading => \A t \in Tokens : owner'[t] # y
        /\ pc[y] \in Locking => \A t \in Tokens : owner'[t] = y => draft'[t] = row'[t]
        /\ pc[y] \in {"uc9_lock", "uc9_request"} => \A t \in Tokens : owner'[t] = y => t = arg[y].tok
        /\ pc[y] = "uc9_loop" => \A t \in arg[y].batch : owner'[t] # y
    BY <2>1, <2>2, <2>4 DEF WritesAgain
  <2>6. pc[y] = "bulk_activate" => \A t \in arg[y].batch : row'[t].status = "NONE" /\ draft'[t].status = "RESERVE"
    BY <2>1, <2>2 DEF WritesAgain, Drafted, OwnsAt, Mine
  <2>7. pc[y] \in {"transition_index", "uc9_lock", "uc9_request", "uc9_loop", "uc9_issue"} =>
          row'[arg[y].tok] = row[arg[y].tok] /\ draft'[arg[y].tok] = draft[arg[y].tok]
    BY <2>1, <2>2 DEF OwnsAt, Mine
  <2> QED BY <2>1, <2>5, <2>6, <2>7 DEF WritesAgain, Drafted
<1>2. \A t \in Tokens : Sound(row[t])' /\ Sound(draft[t])' /\ Moves(row[t].status, draft[t].status)'
  BY TrailStepRows
<1> QED BY <1>1, <1>2 DEF TrailInv

(* A write of one row. *)
LEMMA OneRowChange ==
  ASSUME NEW x \in Txns, NEW t, NEW new, Write(x, {t}, [u \in {t} |-> new]), row' = row,
         t \in Tokens => RowChange(x, t, new)
  PROVE  TrailStep(x)
<1> DEFINE S == {t}
           f == [u \in {t} |-> new]
<1>1. f[t] = new
  OBVIOUS
<1>2. SoundWrite(x, S, f)
  BY <1>1 DEF SoundWrite
<1> QED BY <1>2 DEF TrailStep

-----------------------------------------------------------------------------
(* Every action *)

Keeps(x) == TrailStep(x) /\ WritesAgain(x)'

(* A transaction that ends has no row. *)
LEMMA EndingKeeps ==
  ASSUME StoreAssumption, IInv, NEW x \in Txns, Rollback(x) \/ Commit(x)
  PROVE  Keeps(x)
<1>1. pc'[x] = "idle"
  BY DEF Rollback, Commit, End, IInv, TypeOK
<1>2. \A t \in Tokens : owner'[t] # x
  BY DEF Rollback, Commit, RollbackRows, CommitRows, ReleaseRows, StoreAssumption
<1> QED BY <1>1, <1>2 DEF Rollback, Commit, Keeps, TrailStep, WritesAgain, Locking

(* A transaction that is about to commit writes nothing more. *)
LEMMA ToCommit ==
  ASSUME NEW x \in Txns, pc'[x] = "commit"
  PROVE  WritesAgain(x)'
BY DEF WritesAgain, Reading, Locking

(* A transaction that has no row and takes none. *)
LEMMA ReadingKeeps ==
  ASSUME TrailInv, NEW x \in Txns, UNCHANGED <<row, draft, owner>>, pc[x] \in Reading, pc'[x] \in Reading
  PROVE  Keeps(x)
<1>1. \A t \in Tokens : owner'[t] # x
  BY DEF TrailInv, WritesAgain
<1> QED BY <1>1 DEF Keeps, TrailStep, WritesAgain, Reading, Locking

(* The calls and the statements that only read or take other locks. *)
LEMMA ReadersKeep ==
  ASSUME StoreAssumption, IInv, TrailInv, NEW x \in Txns,
         \/ \E t \in Tokens, s \in Targets : Transition(x, t, s)
         \/ \E lost, reserve \in Tokens : \E reason : UC4(x, lost, reserve, reason)
         \/ \E t \in Tokens, cosigner \in Cosigners : UC8(x, t, cosigner)
         \/ \E t \in Tokens : UC9Initiate(x, t)
         \/ UC4LockHolder(x) \/ UC8Lock(x) \/ UC8Check(x) \/ UC9InsertRequest(x)
  PROVE  Keeps(x)
<1>1. CASE Rollback(x)
  BY <1>1, EndingKeeps
<1>2. CASE ~Rollback(x)
  <2>1. UNCHANGED <<row, draft, owner>>
    BY <1>2 DEF Transition, UC4, UC8, UC9Initiate, UC4LockHolder, UC8Lock, UC8Check, UC9InsertRequest, storeVars
  <2>2. pc[x] \in Reading
    BY DEF Transition, UC4, UC8, UC9Initiate, UC4LockHolder, UC8Lock, UC8Check, UC9InsertRequest, Begin, Reading
  <2>3. pc'[x] \in Reading
    BY <1>2 DEF Transition, UC4, UC8, UC9Initiate, UC4LockHolder, UC8Lock, UC8Check, UC9InsertRequest,
                Begin, Goto, End, Reading, IInv, TypeOK
  <2> QED BY <2>1, <2>2, <2>3, ReadingKeeps
<1> QED BY <1>1, <1>2

(* uc1_issue_and_activate *)
LEMMA UC1Keeps ==
  ASSUME StoreAssumption, LifecycleAssumption, IInv, TrailInv, NEW x \in Txns, NEW t \in Tokens, UC1(x, t)
  PROVE  Keeps(x)
<1> DEFINE issue == Issued(NoRow, clock)
           new == SetStatus(issue, "ACTIVE", "ISSUE", clock)
<1>1. /\ row[t].status = "NONE" /\ owner[t] = NoTxn /\ pc[x] = "idle" /\ pc'[x] = "commit"
      /\ Write(x, {t}, [u \in {t} |-> new]) /\ row' = row /\ clock \in Nat
  BY DEF UC1, FreshHolder, Begin, IInv, TypeOK, LifecycleAssumption
<1>2. draft[t] = NoRow /\ RowFree(x, t)
  BY <1>1, FreeRow DEF RowFree, StoreAssumption
<1>3. issue \in TokenRow /\ Sound(issue) /\ issue.status = "RESERVE" /\ Silent(NoRow, issue) /\ SameNumber(NoRow, issue)
  BY <1>1, IssuedType, IssuedSound, IssuedQuiet
<1> HIDE DEF issue
<1>4. /\ new \in TokenRow /\ Sound(new) /\ new.status = "ACTIVE"
      /\ Silent(issue, new) /\ SameNumber(issue, new)
  BY <1>1, <1>3, ActivatedRow, LoggedStatuses
<1> HIDE DEF new
<1>5. RowChange(x, t, new)
  BY <1>1, <1>2, <1>3, <1>4, QuietTwice, NoRowSound DEF RowChange, Moves
<1> QED BY <1>1, <1>5, OneRowChange, ToCommit DEF Keeps

(* uc_bulk_issue inserts the batch. *)
LEMMA BulkInsertKeeps ==
  ASSUME StoreAssumption, LifecycleAssumption, IInv, TrailInv, NEW x \in Txns,
         NEW S \in SUBSET Tokens, BulkInsert(x, S)
  PROVE  Keeps(x)
<1> DEFINE new == Issued(NoRow, clock)
           f == [t \in S |-> new]
           a == [NoArg EXCEPT !.batch = S]
<1>1. /\ \A t \in S : row[t].status = "NONE" /\ owner[t] = NoTxn
      /\ Write(x, S, f) /\ row' = row /\ clock \in Nat /\ Begin(x, "bulk_activate", a) /\ pc[x] = "idle"
  BY DEF BulkInsert, Begin, IInv, TypeOK, LifecycleAssumption
<1>2. a \in Arg /\ a.batch = S
  BY NoArgType DEF Arg
<1> HIDE DEF a
<1>3. pc'[x] = "bulk_activate" /\ arg'[x].batch = S
  BY <1>1, <1>2, BeginTypes DEF IInv, TypeOK, ProcTypes, PCs
<1>4. new \in TokenRow /\ Sound(new) /\ new.status = "RESERVE" /\ Silent(NoRow, new) /\ SameNumber(NoRow, new)
  BY <1>1, IssuedType, IssuedSound, IssuedQuiet
<1> HIDE DEF new
<1>5. ASSUME NEW t \in S PROVE RowChange(x, t, f[t])
  <2>1. draft[t] = NoRow /\ RowFree(x, t) /\ row[t].status = "NONE"
    BY <1>1, FreeRow DEF RowFree, StoreAssumption
  <2> QED BY <1>1, <1>4, <2>1, NoRowSound DEF RowChange, Moves
<1>6. SoundWrite(x, S, f)
  BY <1>1, <1>5 DEF SoundWrite
<1>7. \A t \in S : row'[t].status = "NONE" /\ draft'[t].status = "RESERVE"
  BY <1>1, <1>4 DEF Write
<1> QED BY <1>3, <1>6, <1>7 DEF Keeps, TrailStep, WritesAgain, Drafted, Reading, Locking

(* uc_bulk_issue activates the batch. *)
LEMMA BulkActivateKeeps ==
  ASSUME StoreAssumption, IInv, TrailInv, NEW x \in Txns, BulkActivate(x)
  PROVE  Keeps(x)
<1>1. CASE Rollback(x)
  BY <1>1, EndingKeeps
<1>2. CASE ~Rollback(x)
  <2> DEFINE S == arg[x].batch
             f == [t \in S |-> SetStatus(draft[t], "ACTIVE", "ISSUE", arg[x].start)]
  <2>1. Write(x, S, f) /\ row' = row /\ pc[x] = "bulk_activate" /\ pc'[x] = "commit"
    BY <1>2 DEF BulkActivate, Goto, IInv, TypeOK
  <2>2. arg[x].start \in Nat /\ S \subseteq Tokens
    BY DEF IInv, TypeOK, Arg
  <2>3. ASSUME NEW t \in S PROVE RowChange(x, t, f[t])
    <3>1. /\ t \in Tokens /\ owner[t] = x /\ row[t].status = "NONE" /\ draft[t].status = "RESERVE"
          /\ RowFree(x, t)
      BY <2>1 DEF IInv, Owns, OwnsAt, Mine, TrailInv, WritesAgain, Drafted, RowFree
    <3>2. draft[t] \in TokenRow /\ Sound(draft[t])
      BY <3>1, FreeRow
    <3> DEFINE old == draft[t]
               now == arg[x].start
    <3> HIDE DEF old, now
    <3>3. old \in TokenRow /\ Sound(old) /\ old.status = "RESERVE" /\ now \in Nat
      BY <2>2, <3>1, <3>2 DEF old, now
    <3> DEFINE new == SetStatus(old, "ACTIVE", "ISSUE", now)
    <3>4. /\ new \in TokenRow /\ Sound(new) /\ new.status = "ACTIVE"
          /\ Silent(old, new) /\ SameNumber(old, new)
      BY <3>3, ActivatedRow, LoggedStatuses
    <3>5. f[t] = new
      BY DEF old, now
    <3> HIDE DEF new
    <3>6. Moves(row[t].status, new.status) /\ Moves(draft[t].status, new.status)
      BY <3>1, <3>4 DEF Moves, LegalMoves
    <3> QED BY <2>1, <3>1, <3>4, <3>5, <3>6 DEF RowChange, old
  <2> HIDE DEF S, f
  <2>4. SoundWrite(x, S, f)
    BY <2>1, <2>3 DEF SoundWrite
  <2> QED BY <2>1, <2>4, ToCommit DEF Keeps, TrailStep
<1> QED BY <1>1, <1>2

(* An activation through the index, of a reserve. *)
LEMMA ActivateRowKeeps ==
  ASSUME StoreAssumption, IInv, TrailInv, NEW x \in Txns, NEW t \in Tokens, owner[t] = x,
         draft[t].status = "RESERVE", row[t].status \in {"NONE", "RESERVE"},
         pc[x] # "uc8_update", NEW reason \in Reason, reason # "UC8", ActivateRow(x, t, reason)
  PROVE  Keeps(x)
<1>1. CASE Rollback(x)
  BY <1>1, EndingKeeps
<1>2. CASE ~Rollback(x)
  <2> DEFINE old == draft[t]
             now == arg[x].start
  <2>1. /\ Write(x, {t}, [u \in {t} |-> SetStatus(old, "ACTIVE", reason, now)]) /\ row' = row
        /\ pc'[x] = "commit" /\ RowFree(x, t)
    BY <1>2 DEF ActivateRow, Goto, IInv, TypeOK, RowFree
  <2>2. old \in TokenRow /\ Sound(old) /\ old.status = "RESERVE" /\ now \in Nat
    BY <2>1, FreeRow DEF IInv, TypeOK, Arg
  <2> HIDE DEF old, now
  <2> DEFINE new == SetStatus(old, "ACTIVE", reason, now)
  <2>3. new \in TokenRow /\ Sound(new) /\ new.status = "ACTIVE" /\ Silent(old, new) /\ SameNumber(old, new)
    BY <2>2, ActivatedRow
  <2> HIDE DEF new
  <2>4. Moves(row[t].status, new.status) /\ Moves(draft[t].status, new.status)
    BY <2>3 DEF Moves, LegalMoves
  <2>5. RowChange(x, t, new)
    BY <2>1, <2>3, <2>4 DEF RowChange, old
  <2>6. Write(x, {t}, [u \in {t} |-> new]) /\ row' = row
    BY <2>1 DEF new
  <2> QED BY <2>1, <2>5, <2>6, OneRowChange, ToCommit DEF Keeps
<1> QED BY <1>1, <1>2

(* tokens_transition to ACTIVE: the row has been locked and read. *)
LEMMA TransitionActivateKeeps ==
  ASSUME StoreAssumption, IInv, TrailInv, NEW x \in Txns, TransitionActivate(x)
  PROVE  Keeps(x)
<1> DEFINE t == arg[x].tok
<1>1. pc[x] = "transition_index" /\ ActivateRow(x, t, "TRANSITION")
  BY DEF TransitionActivate
<1>2. t \in Tokens /\ owner[t] = x /\ draft[t].status = "RESERVE" /\ draft[t] = row[t]
  BY <1>1 DEF IInv, Owns, OwnsAt, Mine, TrailInv, WritesAgain, Locking
<1> QED BY <1>1, <1>2, ActivateRowKeeps, LoggedStatuses

(* uc9_complete_recovery activates the token it has inserted. *)
LEMMA UC9IssueKeeps ==
  ASSUME StoreAssumption, IInv, TrailInv, NEW x \in Txns, UC9Issue(x)
  PROVE  Keeps(x)
<1> DEFINE t == arg[x].tok
<1>1. pc[x] = "uc9_issue" /\ ActivateRow(x, t, "UC9")
  BY DEF UC9Issue
<1>2. t \in Tokens /\ owner[t] = x /\ draft[t].status = "RESERVE" /\ row[t].status = "NONE"
  BY <1>1 DEF IInv, Owns, OwnsAt, Mine, TrailInv, WritesAgain, Drafted
<1> QED BY <1>1, <1>2, ActivateRowKeeps, LoggedStatuses

(* The operator's UPDATE goes along the state machine, and never to REVOKED. *)
LEMMA TransitionUpdateKeeps ==
  ASSUME StoreAssumption, IInv, TrailInv, NEW x \in Txns, TransitionUpdate(x)
  PROVE  Keeps(x)
<1>1. CASE Rollback(x)
  BY <1>1, EndingKeeps
<1>2. CASE ~Rollback(x)
  <2> DEFINE t == arg[x].tok
             s == arg[x].status
             activates == s = "ACTIVE" /\ draft[t].status # "ACTIVE"
             old == draft[t]
             now == arg[x].start
             set == SetStatus(old, s, "TRANSITION", now)
             new == IF activates THEN old ELSE set
  <2>1. /\ TransitionAdmits(x) /\ Write(x, {t}, [u \in {t} |-> new]) /\ row' = row /\ arg' = arg
        /\ pc[x] = "transition" /\ pc'[x] = IF activates THEN "transition_index" ELSE "commit"
        /\ RowFree(x, t)
    BY <1>2 DEF TransitionUpdate, Goto, IInv, TypeOK
  <2>2. t \in Tokens /\ \A u \in Tokens : owner[u] # x
    BY <2>1 DEF IInv, Owns, OwnsAt, TrailInv, WritesAgain, Reading
  <2>3. old = row[t] /\ old \in TokenRow /\ Sound(old) /\ now \in Nat
    BY <2>1, <2>2, FreeRow DEF IInv, TypeOK, Arg
  <2>4. /\ old.status = s \/ <<old.status, s>> \in LegalMoves
        /\ s # "REVOKED" \/ old.status = "REVOKED"
    BY <2>1 DEF TransitionAdmits, StateMachineAdmits, VelocityAdmits
  <2>5. CASE activates
    <3>1. new = old
      BY <2>5
    <3>2. RowChange(x, t, old)
      BY <2>1, <2>3, SameRow DEF RowChange, Moves
    <3>3. Write(x, {t}, [u \in {t} |-> old])
      BY <2>1, <3>1
    <3>4. TrailStep(x)
      BY <2>1, <3>2, <3>3, OneRowChange
    <3>5. \A u \in Tokens : owner'[u] = x => u = t
      BY <2>2, <3>3 DEF Write
    <3>6. draft'[t] = old /\ row'[t] = old
      BY <2>1, <2>2, <2>3, <3>3 DEF Write
    <3>7. old.status = "RESERVE"
      BY <2>4, <2>5 DEF LegalMoves
    <3>8. pc'[x] = "transition_index" /\ arg'[x].tok = t
      BY <2>1, <2>5
    <3> HIDE DEF t, old
    <3>9. WritesAgain(x)'
      BY <3>5, <3>6, <3>7, <3>8 DEF WritesAgain, Reading, Locking
    <3> QED BY <3>4, <3>9 DEF Keeps
  <2>6. CASE ~activates
    <3>1. new = set /\ pc'[x] = "commit"
      BY <2>1, <2>6
    <3> HIDE DEF t, s, old, now
    <3>2. Sound(set) /\ set.status = s
      BY <2>3, <2>4, SetStatusSound, LoggedStatuses
    <3>3. set \in TokenRow
      <4>1. old.status \in Status
        BY <2>3 DEF TokenRow
      <4>2. s \in Status /\ (old.status = s \/ EventFor(s) \in EventType)
        BY <2>4, <4>1 DEF LegalMoves, Status, EventFor, EventType
      <4> QED BY <2>3, <4>2, SetStatusType, LoggedStatuses
    <3>4. Silent(old, set) /\ SameNumber(old, set)
      BY <2>3, SetStatusQuiet
    <3>5. Moves(old.status, set.status)
      BY <2>4, <3>2 DEF Moves
    <3> HIDE DEF set
    <3>6. RowChange(x, t, set)
      BY <2>1, <2>3, <3>2, <3>3, <3>4, <3>5 DEF RowChange, old
    <3>7. Write(x, {t}, [u \in {t} |-> set]) /\ row' = row
      BY <2>1, <3>1
    <3> QED BY <3>1, <3>6, <3>7, OneRowChange, ToCommit DEF Keeps
  <2> QED BY <2>5, <2>6
<1> QED BY <1>1, <1>2

(* SELECT ... FOR UPDATE by a transaction that has changed nothing. *)
LEMMA RelockKeeps ==
  ASSUME StoreAssumption, IInv, TrailInv, NEW x \in Txns, NEW t \in Tokens, NEW wanted,
         NEW label \in {"uc4_reserve", "uc4_swap"}, pc[x] \in {"uc4_lost", "uc4_reserve"},
         Relock(x, t, wanted, label)
  PROVE  Keeps(x)
<1>1. CASE Rollback(x)
  BY <1>1, EndingKeeps
<1>2. CASE ~Rollback(x)
  <2>1. /\ RowFree(x, t) /\ Write(x, {t}, [u \in {t} |-> draft[t]]) /\ row' = row
        /\ pc'[x] = label
    BY <1>2 DEF Relock, Goto, IInv, TypeOK
  <2>2. \A u \in Tokens : owner[u] = x => draft[u] = row[u]
    BY DEF TrailInv, WritesAgain, Reading, Locking
  <2>3. draft[t] = row[t] /\ draft[t] \in TokenRow /\ Sound(draft[t])
    BY <2>1, <2>2, FreeRow
  <2>4. RowChange(x, t, draft[t])
    BY <2>1, <2>3, SameRow DEF RowChange, Moves
  <2>5. TrailStep(x)
    BY <2>1, <2>4, OneRowChange, ZenonT(30)
  <2>6. \A u \in Tokens : owner'[u] = x => draft'[u] = row'[u]
    BY <2>1, <2>2, <2>3 DEF Write
  <2> QED BY <2>1, <2>5, <2>6 DEF Keeps, WritesAgain, Reading, Locking
<1> QED BY <1>1, <1>2

(* uc4_activate_reserve locks its two tokens. *)
LEMMA UC4LocksKeep ==
  ASSUME StoreAssumption, IInv, TrailInv, NEW x \in Txns, UC4LockLost(x) \/ UC4LockReserve(x)
  PROVE  Keeps(x)
<1>1. CASE UC4LockLost(x)
  <2>1. arg[x].tok \in Tokens
    BY <1>1 DEF UC4LockLost, IInv, Owns, OwnsAt
  <2> QED BY <1>1, <2>1, RelockKeeps DEF UC4LockLost
<1>2. CASE UC4LockReserve(x)
  <2>1. arg[x].alt \in Tokens
    BY <1>2 DEF UC4LockReserve, IInv, Owns, OwnsAt
  <2> QED BY <1>2, <2>1, RelockKeeps DEF UC4LockReserve
<1> QED BY <1>1, <1>2

(* The swap of uc4_activate_reserve. *)
LEMMA UC4SwapKeeps ==
  ASSUME StoreAssumption, IInv, TrailInv, NEW x \in Txns, UC4Swap(x)
  PROVE  Keeps(x)
<1>1. CASE Rollback(x)
  BY <1>1, EndingKeeps
<1>2. CASE ~Rollback(x)
  <2> DEFINE lost == arg[x].tok
             reserve == arg[x].alt
             end == arg[x].status
             now == arg[x].start
             out == SetStatus(draft[lost], end, "UC4", now)
             act == SetStatus(draft[reserve], "ACTIVE", "UC4", now)
  <2>1. SwapAdmits(x) /\ row' = row /\ pc[x] = "uc4_swap" /\ pc'[x] = "commit"
    BY <1>2 DEF UC4Swap, Goto, IInv, TypeOK
  <2>2. PICK m \in Tokens :
          Write(x, {lost, reserve}, [t \in {lost, reserve} |->
                  IF t = lost THEN SwappedOut(x)
                  ELSE SwappedIn(x, Visible(x, m).activation_sequence + 1)])
    BY <1>2 DEF UC4Swap
  <2> DEFINE seq == Visible(x, m).activation_sequence + 1
             f == [t \in {lost, reserve} |-> IF t = lost THEN SwappedOut(x) ELSE SwappedIn(x, seq)]
  <2>3. /\ lost \in Tokens /\ reserve \in Tokens /\ owner[lost] = x /\ owner[reserve] = x
        /\ now \in Nat /\ end \in {"LOST", "REVOKED"}
    BY <2>1 DEF IInv, TypeOK, Arg, Owns, OwnsAt, Mine
  <2>4. /\ draft[lost] = row[lost] /\ draft[reserve] = row[reserve]
        /\ draft[lost] \in TokenRow /\ draft[reserve] \in TokenRow /\ seq \in Nat
        /\ Sound(draft[lost]) /\ Sound(draft[reserve]) /\ RowFree(x, lost) /\ RowFree(x, reserve)
    <3>1. RowFree(x, lost) /\ RowFree(x, reserve)
      BY <2>3 DEF RowFree
    <3>2. seq \in Nat
      BY DEF Visible, IInv, TypeOK, TokenRow
    <3> QED BY <2>1, <2>3, <3>1, <3>2, FreeRow DEF TrailInv, WritesAgain, Locking
  <2>5. /\ draft[lost].status = end \/ <<draft[lost].status, end>> \in LegalMoves
        /\ draft[reserve].status = "ACTIVE" \/ <<draft[reserve].status, "ACTIVE">> \in LegalMoves
    BY <2>1 DEF SwapAdmits, StateMachineAdmits
  <2>6. RowChange(x, lost, SwappedOut(x))
    <3> DEFINE old == draft[lost]
    <3>1. old \in TokenRow /\ Sound(old) /\ (old.status = end \/ <<old.status, end>> \in LegalMoves)
      BY <2>4, <2>5
    <3>2. SwappedOut(x) = Published(SetStatus(old, end, "UC4", now))
      BY DEF SwappedOut
    <3>3. row[lost].status = old.status
      BY <2>4
    <3> HIDE DEF old, end, now
    <3> DEFINE new == Published(SetStatus(old, end, "UC4", now))
    <3>4. end \in Terminal /\ end \in Status /\ EventFor(end) \in EventType /\ "UC4" \in Reason
      BY <2>3, LoggedStatuses DEF Terminal
    <3>5. Sound(new) /\ new.status = end
      BY <2>3, <3>1, <3>4, VoidedSound
    <3>6. SetStatus(old, end, "UC4", now) \in TokenRow
      BY <2>3, <3>1, <3>4, SetStatusType
    <3>7. new \in TokenRow
      BY <3>6, PublishedType
    <3>8. Silent(old, SetStatus(old, end, "UC4", now))
      BY <3>1, SetStatusQuiet
    <3>9. Silent(old, new)
      BY <3>6, <3>8, PublishedQuiet
    <3> HIDE DEF new
    <3>10. Moves(row[lost].status, new.status)
      BY <3>1, <3>3, <3>5 DEF Moves
    <3>11. RowChange(x, lost, new)
      BY <2>1, <2>4, <3>5, <3>7, <3>9, <3>10 DEF RowChange, old
    <3> QED BY <3>2, <3>11 DEF new
  <2>7. RowChange(x, reserve, SwappedIn(x, seq))
    <3> DEFINE old == draft[reserve]
               new == SwappedIn(x, seq)
    <3>1. /\ old \in TokenRow /\ Sound(old) /\ old.status = row[reserve].status
          /\ old.status = "ACTIVE" \/ <<old.status, "ACTIVE">> \in LegalMoves
      BY <2>4, <2>5
    <3>2. new = [SetStatus(old, "ACTIVE", "UC4", now) EXCEPT !.predecessor = lost, !.activation_sequence = seq]
      BY DEF SwappedIn
    <3> HIDE DEF old, now, lost, seq, new
    <3> DEFINE set == SetStatus(old, "ACTIVE", "UC4", now)
    <3>3. Sound(set) /\ set.status = "ACTIVE" /\ set \in TokenRow /\ Silent(old, set)
      <4>1. Sound(set) /\ set.status = "ACTIVE"
        BY <2>3, <3>1, SetStatusSound, LoggedStatuses
      <4>2. set \in TokenRow
        BY <2>3, <3>1, SetStatusType, LoggedStatuses
      <4>3. Silent(old, set)
        BY <3>1, SetStatusQuiet
      <4> QED BY <4>1, <4>2, <4>3
    <3> HIDE DEF set
    <3>4. /\ new \in TokenRow /\ new.status = "ACTIVE" /\ new.events = set.events
          /\ new.published = set.published
      BY <2>3, <2>4, <3>2, <3>3 DEF TokenRow, set
    <3>5. Sound(new) /\ Silent(old, new)
      BY <3>3, <3>4 DEF Sound, Trail, Listed, Silent
    <3>6. Moves(row[reserve].status, new.status)
      BY <3>1, <3>4 DEF Moves
    <3>7. RowChange(x, reserve, new)
      BY <2>1, <2>4, <3>4, <3>5, <3>6 DEF RowChange, old
    <3> QED BY <3>7 DEF new, seq
  <2> HIDE DEF seq
  <2>8. SoundWrite(x, {lost, reserve}, f)
    <3>1. Write(x, {lost, reserve}, f)
      BY <2>2 DEF seq
    <3>2. \A t \in {lost, reserve} : RowChange(x, t, f[t])
      BY <2>6, <2>7
    <3> QED BY <2>1, <3>1, <3>2 DEF SoundWrite
  <2> QED BY <2>1, <2>8, ToCommit DEF Keeps, TrailStep
<1> QED BY <1>1, <1>2

(* A row is voided by a transaction that had not locked it. *)
LEMMA VoidRowKeeps ==
  ASSUME StoreAssumption, IInv, TrailInv, NEW x \in Txns, NEW t, t \in Tokens => owner[t] # x,
         NEW s \in {"REVOKED", "LOST"}, NEW reason \in Reason, reason # "UC8" \/ pc[x] = "uc8_update",
         pc[x] # "uc4_swap", NEW label, NEW rest, VoidRow(x, t, s, reason, label, rest), ~Rollback(x)
  PROVE  /\ TrailStep(x)
         /\ pc' = [pc EXCEPT ![x] = label] /\ arg' = [arg EXCEPT ![x].batch = rest]
         /\ row' = row /\ \A u \in Tokens : u # t => draft'[u] = draft[u] /\ owner'[u] = owner[u]
<1> DEFINE old == draft[t]
           now == arg[x].start
           new == Published(SetStatus(old, s, reason, now))
<1>1. /\ RowFree(x, t) /\ StateMachineAdmits(t, draft[t].status, s, arg[x].start)
      /\ Write(x, {t}, [u \in {t} |-> new]) /\ row' = row
      /\ pc' = [pc EXCEPT ![x] = label] /\ arg' = [arg EXCEPT ![x].batch = rest]
  BY DEF VoidRow
<1>2. ASSUME t \in Tokens PROVE RowChange(x, t, new)
  <2>1. old = row[t] /\ old \in TokenRow /\ Sound(old) /\ now \in Nat
    BY <1>1, <1>2, FreeRow DEF IInv, TypeOK, Arg
  <2>2. old.status = s \/ <<old.status, s>> \in LegalMoves
    BY <1>1 DEF StateMachineAdmits
  <2>3. s \in Terminal /\ s \in Status /\ EventFor(s) \in EventType
    BY LoggedStatuses DEF Terminal
  <2> HIDE DEF old, now
  <2>4. Sound(new) /\ new.status = s
    BY <2>1, <2>2, <2>3, VoidedSound
  <2>5. SetStatus(old, s, reason, now) \in TokenRow
    BY <2>1, <2>3, SetStatusType
  <2>6. new \in TokenRow
    BY <2>5, PublishedType
  <2>7. /\ reason # "UC8" => Silent(old, SetStatus(old, s, reason, now))
        /\ SameNumber(old, SetStatus(old, s, reason, now))
    BY <2>1, SetStatusQuiet
  <2>8. (reason # "UC8" => Silent(old, new)) /\ SameNumber(old, new)
    BY <2>5, <2>7, PublishedQuiet
  <2> HIDE DEF new
  <2>9. Moves(row[t].status, new.status) /\ Moves(draft[t].status, new.status)
    BY <2>1, <2>2, <2>4 DEF Moves, old
  <2> QED BY <1>1, <2>4, <2>6, <2>8, <2>9 DEF RowChange, old
<1> HIDE DEF new
<1>3. TrailStep(x)
  BY <1>1, <1>2, OneRowChange
<1> QED BY <1>1, <1>3 DEF Write

(* uc8_revoke_token *)
LEMMA UC8UpdateKeeps ==
  ASSUME StoreAssumption, IInv, TrailInv, NEW x \in Txns, UC8Update(x)
  PROVE  Keeps(x)
<1>1. CASE Rollback(x)
  BY <1>1, EndingKeeps
<1>2. CASE ~Rollback(x)
  <2>1. pc[x] = "uc8_update" /\ VoidRow(x, arg[x].tok, "REVOKED", arg[x].reason, "commit", {})
    BY DEF UC8Update
  <2>2. \A t \in Tokens : owner[t] # x
    BY <2>1 DEF TrailInv, WritesAgain, Reading
  <2>3. PICK t, reason : t = arg[x].tok /\ reason = arg[x].reason
    OBVIOUS
  <2>4. reason \in Reason
    BY <2>3 DEF IInv, TypeOK, Arg
  <2>5. TrailStep(x) /\ pc' = [pc EXCEPT ![x] = "commit"]
    <3>1. VoidRow(x, t, "REVOKED", reason, "commit", {})
      BY <2>1, <2>3
    <3>2. t \in Tokens => owner[t] # x
      BY <2>2
    <3> QED BY <1>2, <2>1, <2>4, <3>1, <3>2, VoidRowKeeps
  <2>6. pc'[x] = "commit"
    BY <2>5 DEF IInv, TypeOK
  <2> QED BY <2>5, <2>6, ToCommit DEF Keeps
<1> QED BY <1>1, <1>2

(* uc9_complete_recovery is called, takes its advisory lock and opens its query. *)
LEMMA UC9OpeningKeeps ==
  ASSUME StoreAssumption, LifecycleAssumption, IInv, TrailInv, NEW x \in Txns,
         \/ \E t \in Tokens, decision \in {"APPROVED", "REJECTED"} : UC9Complete(x, t, decision)
         \/ UC9Lock(x) \/ UC9Request(x)
  PROVE  Keeps(x)
<1>1. ASSUME NEW t \in Tokens, NEW decision \in {"APPROVED", "REJECTED"}, UC9Complete(x, t, decision)
      PROVE  Keeps(x)
  <2> DEFINE a == [NoArg EXCEPT !.tok = t, !.decision = decision]
  <2>1. /\ row[t].status = "NONE" /\ owner[t] = NoTxn /\ Begin(x, "uc9_lock", a)
        /\ Write(x, {t}, [u \in {t} |-> NoRow]) /\ row' = row /\ pc[x] = "idle"
    BY <1>1 DEF UC9Complete, Begin
  <2>2. a \in Arg /\ a.tok = t
    BY NoArgType DEF Arg, RequestStatus
  <2> HIDE DEF a
  <2>3. pc'[x] = "uc9_lock" /\ arg'[x].tok = t
    BY <2>1, <2>2, BeginTypes DEF IInv, TypeOK, ProcTypes, PCs
  <2>4. draft[t] = NoRow /\ row[t] = NoRow /\ RowFree(x, t) /\ NoRow \in TokenRow
    BY <2>1, FreeRow DEF RowFree, StoreAssumption
  <2>5. RowChange(x, t, NoRow)
    BY <2>4, SameRow, NoRowSound DEF RowChange, Moves
  <2>6. TrailStep(x)
    BY <2>1, <2>5, OneRowChange, ZenonT(30)
  <2>7. \A u \in Tokens : owner'[u] = x => u = t
    BY <2>1 DEF Write, TrailInv, WritesAgain, Reading
  <2>8. row'[t].status = "NONE" /\ draft'[t].status = "NONE"
    BY <2>1, NoRowSound DEF Write
  <2> QED BY <2>3, <2>6, <2>7, <2>8 DEF Keeps, WritesAgain, Drafted, Reading, Locking
<1>2. CASE UC9Lock(x)
  <2>1. /\ pc[x] = "uc9_lock" /\ pc'[x] = "uc9_request" /\ arg' = arg /\ UNCHANGED <<row, draft, owner>>
    BY <1>2 DEF UC9Lock, Goto, storeVars, IInv, TypeOK
  <2> QED BY <2>1 DEF Keeps, TrailStep, TrailInv, WritesAgain, Drafted, Reading, Locking
<1>3. CASE UC9Request(x) /\ ~Rollback(x)
  <2>1. /\ pc[x] = "uc9_request" /\ UNCHANGED <<row, draft, owner>>
        /\ pc'[x] \in {"uc9_loop", "commit"}
        /\ arg' = [arg EXCEPT ![x].batch = IF arg[x].decision = "APPROVED" THEN LiveOf(holder[arg[x].tok]) ELSE {},
                              ![x].seen = [t \in Tokens |-> row[t].status]]
    BY <1>3 DEF UC9Request, storeVars, IInv, TypeOK
  <2>2. arg \in [Txns -> Arg] /\ arg[x] \in Arg
    BY DEF IInv, TypeOK
  <2>3. arg'[x].tok = arg[x].tok /\ arg'[x].batch \subseteq LiveOf(holder[arg[x].tok])
    BY <2>1, <2>2 DEF Arg
  <2>4. row[arg[x].tok].status = "NONE" /\ draft[arg[x].tok].status = "NONE"
        /\ \A t \in Tokens : owner[t] = x => t = arg[x].tok
    BY <2>1 DEF TrailInv, WritesAgain, Drafted
  <2>5. \A t \in arg'[x].batch : owner'[t] # x
    BY <2>1, <2>3, <2>4 DEF LiveOf
  <2> QED BY <2>1, <2>3, <2>4, <2>5 DEF Keeps, TrailStep, WritesAgain, Drafted, Reading, Locking
<1>4. CASE Rollback(x)
  BY <1>4, EndingKeeps
<1> QED BY <1>1, <1>2, <1>3, <1>4

(* One round of the loop of uc9_complete_recovery. *)
LEMMA UC9VoidKeeps ==
  ASSUME StoreAssumption, IInv, TrailInv, NEW x \in Txns, NEW t \in Tokens, UC9Void(x, t)
  PROVE  Keeps(x)
<1>1. CASE Rollback(x)
  BY <1>1, EndingKeeps
<1>2. CASE ~Rollback(x)
  <2>1. PICK s, rest : s = (IF arg[x].seen[t] = "RESERVE" THEN "REVOKED" ELSE "LOST")
                       /\ rest = arg[x].batch \ {t}
    OBVIOUS
  <2>2. /\ pc[x] = "uc9_loop" /\ t \in arg[x].batch /\ s \in {"REVOKED", "LOST"}
        /\ VoidRow(x, t, s, "UC9", "uc9_loop", rest)
    BY <2>1 DEF UC9Void
  <2>3. /\ \A u \in arg[x].batch : owner[u] # x
        /\ row[arg[x].tok].status = "NONE" /\ draft[arg[x].tok].status = "NONE"
        /\ arg[x].tok \in Tokens /\ owner[arg[x].tok] = x
    BY <2>2 DEF TrailInv, WritesAgain, Drafted, IInv, Owns, OwnsAt, Mine
  <2>4. /\ TrailStep(x)
        /\ pc' = [pc EXCEPT ![x] = "uc9_loop"] /\ arg' = [arg EXCEPT ![x].batch = rest]
        /\ row' = row /\ \A u \in Tokens : u # t => draft'[u] = draft[u] /\ owner'[u] = owner[u]
    BY <1>2, <2>2, <2>3, VoidRowKeeps, LoggedStatuses
  <2>5. arg \in [Txns -> Arg] /\ arg[x] \in Arg /\ pc \in [Txns -> PCs]
    BY DEF IInv, TypeOK
  <2>6. pc'[x] = "uc9_loop" /\ arg'[x].tok = arg[x].tok /\ arg'[x].batch = rest
    BY <2>4, <2>5 DEF Arg
  <2>7. \A u \in rest : u \in Tokens /\ u \in arg[x].batch /\ u # t
    BY <2>1, <2>5 DEF Arg
  <2>8. \A u \in rest : owner'[u] # x
    BY <2>3, <2>4, <2>7
  <2>9. draft'[arg[x].tok].status = "NONE" /\ row'[arg[x].tok].status = "NONE"
    BY <2>2, <2>3, <2>4
  <2> QED BY <2>4, <2>6, <2>8, <2>9 DEF Keeps, WritesAgain, Drafted, Reading, Locking
<1> QED BY <1>1, <1>2

(* uc9_complete_recovery inserts the token whose id it has drawn. *)
LEMMA UC9InsertKeeps ==
  ASSUME StoreAssumption, IInv, TrailInv, NEW x \in Txns, UC9Insert(x)
  PROVE  Keeps(x)
<1> DEFINE new == [NoRow EXCEPT !.status = "RESERVE"]
<1>1. PICK t : t = arg[x].tok
  OBVIOUS
<1>2. /\ pc[x] = "uc9_loop" /\ pc'[x] = "uc9_issue" /\ arg'[x].tok = t /\ row' = row
      /\ Write(x, {t}, [u \in {t} |-> new])
  BY <1>1 DEF UC9Insert, Goto, IInv, TypeOK
<1>3. t \in Tokens /\ owner[t] = x /\ row[t].status = "NONE" /\ draft[t].status = "NONE" /\ RowFree(x, t)
  BY <1>1, <1>2 DEF TrailInv, WritesAgain, Drafted, IInv, Owns, OwnsAt, Mine, RowFree
<1>4. draft[t] = NoRow
  BY <1>3, FreeRow
<1>5. new \in TokenRow /\ Sound(new) /\ new.status = "RESERVE" /\ Silent(NoRow, new) /\ SameNumber(NoRow, new)
  <2>1. 0 \in Nat
    OBVIOUS
  <2> QED BY <2>1, IssuedType, IssuedSound, IssuedQuiet
<1> HIDE DEF new
<1>6. RowChange(x, t, new)
  BY <1>2, <1>3, <1>4, <1>5 DEF RowChange, Moves
<1>7. TrailStep(x)
  BY <1>2, <1>6, OneRowChange
<1>8. row'[t].status = "NONE" /\ draft'[t].status = "RESERVE"
  BY <1>2, <1>3, <1>5 DEF Write
<1> QED BY <1>2, <1>7, <1>8 DEF Keeps, WritesAgain, Drafted, Reading, Locking

(* Every call and every statement keeps the rows sound. *)
LEMMA TransactionKeeps ==
  ASSUME StoreAssumption, LifecycleAssumption, IInv, TrailInv, NEW x \in Txns,
         Call(x) \/ Step(x) \/ Crash(x) \/ DeadlockVictim(x)
  PROVE  Keeps(x)
<1>1. CASE Call(x)
  <2>1. ASSUME NEW t \in Tokens, UC1(x, t) PROVE Keeps(x)
    BY <2>1, UC1Keeps
  <2>2. ASSUME NEW S \in SUBSET Tokens, BulkInsert(x, S) PROVE Keeps(x)
    BY <2>2, BulkInsertKeeps
  <2>3. ASSUME NEW t \in Tokens, NEW decision \in {"APPROVED", "REJECTED"}, UC9Complete(x, t, decision)
        PROVE  Keeps(x)
    BY <2>3, UC9OpeningKeeps
  <2>4. CASE \/ \E t \in Tokens, s \in Targets : Transition(x, t, s)
             \/ \E lost, reserve \in Tokens : \E reason : UC4(x, lost, reserve, reason)
             \/ \E t \in Tokens, cosigner \in Cosigners : UC8(x, t, cosigner)
             \/ \E t \in Tokens : UC9Initiate(x, t)
    BY <2>4, ReadersKeep
  <2> QED BY <1>1, <2>1, <2>2, <2>3, <2>4 DEF Call
<1>2. CASE Step(x)
  <2>1. CASE UC4LockHolder(x) \/ UC8Lock(x) \/ UC8Check(x) \/ UC9InsertRequest(x)
    BY <2>1, ReadersKeep
  <2>2. CASE BulkActivate(x) \/ TransitionUpdate(x) \/ TransitionActivate(x)
    BY <2>2, BulkActivateKeeps, TransitionUpdateKeeps, TransitionActivateKeeps
  <2>3. CASE UC4LockLost(x) \/ UC4LockReserve(x) \/ UC4Swap(x)
    BY <2>3, UC4LocksKeep, UC4SwapKeeps
  <2>4. CASE UC8Update(x) \/ UC9Lock(x) \/ UC9Request(x)
    BY <2>4, UC8UpdateKeeps, UC9OpeningKeeps
  <2>5. ASSUME NEW t \in Tokens, UC9Void(x, t) PROVE Keeps(x)
    BY <2>5, UC9VoidKeeps
  <2>6. CASE UC9Insert(x) \/ UC9Issue(x) \/ Commit(x)
    BY <2>6, UC9InsertKeeps, UC9IssueKeeps, EndingKeeps
  <2> QED BY <1>2, <2>1, <2>2, <2>3, <2>4, <2>5, <2>6 DEF Step
<1>3. CASE Crash(x) \/ DeadlockVictim(x)
  BY <1>3, EndingKeeps DEF Crash, DeadlockVictim
<1> QED BY <1>1, <1>2, <1>3

(* And leaves the other transactions' variables alone. *)
LEMMA OthersWait ==
  ASSUME StoreAssumption, LifecycleAssumption, IInv, NEW x \in Txns,
         Call(x) \/ Step(x) \/ Crash(x) \/ DeadlockVictim(x)
  PROVE  \A y \in Txns \ {x} : pc'[y] = pc[y] /\ arg'[y] = arg[y]
<1>1. RowTypes /\ ProcTypes /\ Versions /\ ActiveVersions /\ OwnsAt(x)
  BY DEF IInv, TypeOK, RowTypes, ProcTypes, Owns
<1>2. CASE Call(x)
  BY <1>1, <1>2, CallStep DEF ProcStep
<1>3. CASE Step(x)
  BY <1>1, <1>3, StatementStep DEF ProcStep
<1>4. CASE Crash(x) \/ DeadlockVictim(x)
  BY <1>1, <1>4, RollbackStep DEF Crash, DeadlockVictim, ProcStep
<1> QED BY <1>2, <1>3, <1>4

(* The rows the database was loaded with are sound. *)
LEMMA TrailInit ==
  ASSUME StoreAssumption, LifecycleAssumption, Init
  PROVE  TrailInv
<1>1. ASSUME NEW t \in Tokens PROVE Sound(SeedRow(seed[t]))
  <2> DEFINE issue == Issued(NoRow, 0)
  <2>1. issue \in TokenRow /\ Sound(issue) /\ issue.status = "RESERVE"
    BY IssuedType, IssuedSound
  <2> HIDE DEF issue
  <2>2. Sound(SetStatus(issue, "ACTIVE", "ISSUE", 0))
    BY <2>1, ActivatedRow, LoggedStatuses
  <2>3. seed[t] \in {"NONE", "RESERVE", "ACTIVE"}
    BY DEF LifecycleAssumption
  <2> QED BY <2>1, <2>2, <2>3, NoRowSound DEF SeedRow, issue
<1>2. \A t \in Tokens : row[t] = SeedRow(seed[t]) /\ draft[t] = row[t] /\ owner[t] = NoTxn
  BY DEF Init
<1>3. \A t \in Tokens : Sound(row[t]) /\ Sound(draft[t]) /\ Moves(row[t].status, draft[t].status)
  BY <1>1, <1>2 DEF Moves
<1>4. \A x \in Txns : WritesAgain(x)
  BY <1>2 DEF Init, WritesAgain, Reading, Locking, StoreAssumption
<1> QED BY <1>3, <1>4 DEF TrailInv

(* No step of the system leaves the invariant. *)
LEMMA TrailNext ==
  ASSUME StoreAssumption, LifecycleAssumption, IInv, TrailInv, [Next]_vars
  PROVE  TrailInv'
<1>1. CASE UNCHANGED <<row, draft, owner, pc, arg>>
  BY <1>1 DEF TrailInv, WritesAgain, Drafted
<1>2. ASSUME NEW x \in Txns, Call(x) \/ Step(x) \/ Crash(x) \/ DeadlockVictim(x) PROVE TrailInv'
  BY <1>2, TransactionKeeps, OthersWait, TrailKeeps DEF Keeps
<1> QED BY <1>1, <1>2 DEF Next, Tick, vars, procVars

(* The strengthened invariant holds throughout. *)
LEMMA TrailInvariance == Spec => [](IInv /\ TrailInv)
<1>1. Init => IInv /\ TrailInv
  BY StoreAssumption, LifecycleAssumption, InitKeeps, TrailInit
<1>2. IInv /\ TrailInv /\ [Next]_vars => IInv' /\ TrailInv'
  BY StoreAssumption, LifecycleAssumption, NextKeeps, TrailNext
<1> QED BY <1>1, <1>2, PTL DEF Spec

-----------------------------------------------------------------------------
(* A REVOKED token is on the revocation list, and the list names dead tokens only,
   whoever revoked it and whatever raced (uc8_revoke_token, uc4_activate_reserve,
   uc9_complete_recovery, the velocity trigger). *)
THEOREM RevocationsListed == Spec => []RevocationListAgrees
<1>1. TrailInv => RevocationListAgrees
  BY DEF TrailInv, Sound, Listed, RevocationListAgrees
<1> QED BY <1>1, TrailInvariance, PTL

(* The last event of the lifecycle log is the one of the committed status, and no
   event is logged twice (audit_token_state_change and its skip). *)
THEOREM LogTellsStatus == Spec => []AuditTrailAgrees
<1>1. TrailInv => AuditTrailAgrees
  <2> SUFFICES ASSUME TrailInv, NEW t \in Tokens
               PROVE  LET e == row[t].events IN
                      /\ row[t].status \notin {"NONE", "RESERVE"} =>
                           e # <<>> /\ e[Len(e)].type = EventFor(row[t].status)
                      /\ row[t].status = "RESERVE" => \A k \in DOMAIN e : e[k].type = "ISSUED"
                      /\ \A j, k \in DOMAIN e : e[j].type = e[k].type => j = k
    BY DEF AuditTrailAgrees
  <2>1. Trail(row[t])
    BY DEF TrailInv, Sound
  <2> QED BY <2>1 DEF Trail
<1> QED BY <1>1, TrailInvariance, PTL

(* No commit moves a token along an edge the state machine does not have: a token
   that is REVOKED, LOST or EXPIRED never comes back (enforce_token_state_machine). *)
THEOREM LifecycleLegal == Spec => LegalLifecycle
<1> DEFINE Legal == \A t \in Tokens : row'[t].status # row[t].status =>
                      \/ <<row[t].status, row'[t].status>> \in LegalMoves
                      \/ row[t].status = "NONE" /\ row'[t].status \in {"RESERVE", "ACTIVE"}
<1>1. ASSUME IInv, TrailInv, [Next]_vars PROVE Legal
  <2>1. CASE UNCHANGED row
    BY <2>1
  <2>2. ASSUME NEW x \in Txns, Call(x) \/ Step(x) \/ Crash(x) \/ DeadlockVictim(x) PROVE Legal
    <3>1. TrailStep(x)
      BY <1>1, <2>2, TransactionKeeps, StoreAssumption, LifecycleAssumption DEF Keeps
    <3>2. CASE CommitRows(x)
      <4>1. \A t \in Tokens : row'[t] \in {row[t], draft[t]}
        BY <3>2 DEF CommitRows
      <4> QED BY <1>1, <4>1 DEF TrailInv, Moves
    <3>3. CASE ~CommitRows(x)
      BY <3>1, <3>3 DEF TrailStep, SoundWrite, RollbackRows
    <3> QED BY <3>2, <3>3
  <2> QED BY <1>1, <2>1, <2>2 DEF Next, Tick, vars
<1>2. IInv /\ TrailInv /\ [Next]_vars => [Legal]_vars
  BY <1>1
<1> QED BY <1>2, TrailInvariance, PTL DEF Spec, LegalLifecycle

-----------------------------------------------------------------------------
(* UC-4's succession *)

(* What follows t in versions f of the rows. *)
Follows(f, t, p) ==
  /\ p \in Tokens /\ SameHolder(t, p)
  /\ f[p].status \in Terminal
  /\ f[p].activation_sequence < f[t].activation_sequence
  /\ \A u \in Tokens \ {t} : SameHolder(t, u) /\ f[u].predecessor # NoToken =>
       /\ f[u].predecessor # p
       /\ f[u].activation_sequence # f[t].activation_sequence

ChainIn(f) == \A t \in Tokens : f[t].predecessor # NoToken => Follows(f, t, f[t].predecessor)

(* Only the transaction that has locked the holder renumbers the holder's tokens,
   and it has also locked the token that is succeeded. *)
Renumbered(t) ==
  ~SameNumber(row[t], draft[t]) =>
    /\ owner[t] \in Txns /\ holderLock[holder[t]] = owner[t]
    /\ draft[t].predecessor \in Tokens /\ owner[draft[t].predecessor] = owner[t]

AtUC4(x) ==
  /\ pc[x] \in {"uc4_holder", "uc4_lost", "uc4_reserve", "uc4_swap"} => SameHolder(arg[x].tok, arg[x].alt)
  /\ pc[x] \in {"uc4_lost", "uc4_reserve", "uc4_swap"} => holderLock[holder[arg[x].tok]] = x
  /\ pc[x] \in {"uc4_reserve", "uc4_swap"} => draft[arg[x].tok].status = "ACTIVE"
  /\ pc[x] = "uc4_swap" => draft[arg[x].alt].status = "RESERVE"

(* The inductive invariant of the succession, next to the two above. *)
ChainInv ==
  /\ ChainIn(row) /\ ChainIn(draft)
  /\ \A t \in Tokens : Renumbered(t)
  /\ \A x \in Txns : AtUC4(x)

(* Statuses that end a token's life are left by no statement. *)
LEMMA TerminalStays ==
  ASSUME NEW old, NEW new, Moves(old, new), old \in Terminal
  PROVE  new \in Terminal
BY DEF Moves, LegalMoves, Terminal

(* Versions with the same numbers whose dead tokens are dead too. *)
LEMMA SameChain ==
  ASSUME NEW f, NEW g, NEW t \in Tokens, NEW p, Follows(f, t, p), g[p].status \in Terminal,
         \A u \in Tokens : SameHolder(t, u) => SameNumber(f[u], g[u])
  PROVE  Follows(g, t, p)
<1>1. p \in Tokens /\ SameHolder(t, p) /\ SameHolder(t, t)
  BY DEF Follows, SameHolder
<1>2. SameNumber(f[p], g[p]) /\ SameNumber(f[t], g[t])
  BY <1>1
<1> QED BY <1>1, <1>2 DEF Follows, SameNumber

(* A number x has not changed is the committed one, of a predecessor dead in both. *)
LEMMA KeptNumber ==
  ASSUME TrailInv, ChainInv, NEW t \in Tokens, SameNumber(row[t], draft[t]), draft[t].predecessor # NoToken
  PROVE  /\ row[draft[t].predecessor].status \in Terminal
         /\ draft[draft[t].predecessor].status \in Terminal
<1>1. row[t].predecessor = draft[t].predecessor
  BY DEF SameNumber
<1> QED BY <1>1 DEF ChainInv, ChainIn, Follows

LocksKept(x) == \A i \in Individuals : holderLock[i] \in Txns => holderLock'[i] = holderLock[i]

(* A statement that renumbers nothing. *)
LEMMA ChainWrite ==
  ASSUME StoreAssumption, IInv, TrailInv, ChainInv, NEW x \in Txns, pc[x] # "uc4_swap", LocksKept(x),
         \/ \E S : \E version : SoundWrite(x, S, version)
         \/ UNCHANGED <<row, draft, owner>>
  PROVE  ChainIn(row)' /\ ChainIn(draft)' /\ \A t \in Tokens : Renumbered(t)'
<1>1. row' = row
  BY DEF SoundWrite
<1>2. ASSUME NEW t \in Tokens
      PROVE  /\ SameNumber(draft[t], draft'[t]) /\ Moves(draft[t].status, draft'[t].status)
             /\ owner[t] \in Txns => owner'[t] = owner[t]
  <2>1. CASE UNCHANGED <<row, draft, owner>>
    BY <2>1, SameRow DEF Moves
  <2>2. ASSUME NEW S, NEW version, SoundWrite(x, S, version)
        PROVE  /\ SameNumber(draft[t], draft'[t]) /\ Moves(draft[t].status, draft'[t].status)
               /\ owner[t] \in Txns => owner'[t] = owner[t]
    <3>1. CASE t \in S
      <4>1. draft'[t] = version[t] /\ owner'[t] = x /\ RowChange(x, t, version[t])
        BY <2>2, <3>1 DEF SoundWrite, Write
      <4> QED BY <4>1 DEF RowChange, RowFree, StoreAssumption
    <3>2. CASE t \notin S
      <4>1. draft'[t] = draft[t] /\ owner'[t] = owner[t]
        BY <2>2, <3>2 DEF SoundWrite, Write
      <4> QED BY <4>1, SameRow DEF Moves
    <3> QED BY <3>1, <3>2
  <2> QED BY <2>1, <2>2
<1>3. ChainIn(draft)'
  <2> SUFFICES ASSUME NEW t \in Tokens, draft'[t].predecessor # NoToken
               PROVE  Follows(draft', t, draft'[t].predecessor)
    BY DEF ChainIn
  <2>1. draft'[t].predecessor = draft[t].predecessor
    BY <1>2 DEF SameNumber
  <2>2. Follows(draft, t, draft[t].predecessor)
    BY <2>1 DEF ChainInv, ChainIn
  <2>3. draft'[draft[t].predecessor].status \in Terminal
    BY <1>2, <2>2, TerminalStays DEF Follows
  <2> QED BY <1>2, <2>1, <2>2, <2>3, SameChain
<1>4. ASSUME NEW t \in Tokens PROVE Renumbered(t)'
  <2> SUFFICES ASSUME ~SameNumber(row'[t], draft'[t])
               PROVE  /\ owner'[t] \in Txns /\ holderLock'[holder[t]] = owner'[t]
                      /\ draft'[t].predecessor \in Tokens /\ owner'[draft'[t].predecessor] = owner'[t]
    BY DEF Renumbered
  <2>1. ~SameNumber(row[t], draft[t])
    BY <1>1, <1>2 DEF SameNumber
  <2>2. /\ owner[t] \in Txns /\ holderLock[holder[t]] = owner[t]
        /\ draft[t].predecessor \in Tokens /\ owner[draft[t].predecessor] = owner[t]
    BY <2>1 DEF ChainInv, Renumbered
  <2>3. draft'[t].predecessor = draft[t].predecessor
    BY <1>2 DEF SameNumber
  <2>4. holder[t] \in Individuals
    BY DEF StoreAssumption
  <2> QED BY <1>2, <2>2, <2>3, <2>4 DEF LocksKept
<1> QED BY <1>1, <1>3, <1>4 DEF ChainInv, ChainIn, Follows

(* COMMIT: the numbers of a holder that x has locked are all x's, those of the other
   holders are as they were. *)
LEMMA ChainCommit ==
  ASSUME StoreAssumption, IInv, TrailInv, ChainInv, NEW x \in Txns, CommitRows(x)
  PROVE  ChainIn(row)' /\ ChainIn(draft)' /\ \A t \in Tokens : Renumbered(t)'
<1>1. /\ draft' = draft
      /\ \A t \in Tokens : row'[t] = IF owner[t] = x THEN draft[t] ELSE row[t]
      /\ \A t \in Tokens : owner'[t] = IF owner[t] = x THEN NoTxn ELSE owner[t]
      /\ \A i \in Individuals : holderLock'[i] = IF holderLock[i] = x THEN NoTxn ELSE holderLock[i]
  BY DEF CommitRows, ReleaseRows
<1>2. \A t \in Tokens : holder[t] \in Individuals /\ Moves(row[t].status, draft[t].status) /\ Renumbered(t)
  BY DEF StoreAssumption, TrailInv, ChainInv
<1>3. ASSUME NEW t \in Tokens PROVE Renumbered(t)'
  <2> SUFFICES ASSUME ~SameNumber(row'[t], draft'[t])
               PROVE  /\ owner'[t] \in Txns /\ holderLock'[holder[t]] = owner'[t]
                      /\ draft'[t].predecessor \in Tokens /\ owner'[draft'[t].predecessor] = owner'[t]
    BY DEF Renumbered
  <2>1. owner[t] # x /\ row'[t] = row[t]
    BY <1>1, SameRow
  <2>2. /\ owner[t] \in Txns /\ holderLock[holder[t]] = owner[t]
        /\ draft[t].predecessor \in Tokens /\ owner[draft[t].predecessor] = owner[t]
    BY <1>1, <1>2, <2>1 DEF Renumbered
  <2> QED BY <1>1, <1>2, <2>1, <2>2
<1>4. ASSUME NEW t \in Tokens, row'[t].predecessor # NoToken
      PROVE  Follows(row', t, row'[t].predecessor)
  <2>1. CASE holderLock[holder[t]] = x
    <3>1. \A u \in Tokens : SameHolder(t, u) => SameNumber(draft[u], row'[u])
      <4> SUFFICES ASSUME NEW u \in Tokens, SameHolder(t, u) PROVE SameNumber(draft[u], row'[u])
        OBVIOUS
      <4>1. owner[u] # x => SameNumber(row[u], draft[u])
        BY <1>2, <2>1 DEF Renumbered, SameHolder
      <4> QED BY <1>1, <4>1, SameRow DEF SameNumber
    <3>2. row'[t].predecessor = draft[t].predecessor
      BY <3>1 DEF SameNumber, SameHolder
    <3> DEFINE p == draft[t].predecessor
    <3>3. Follows(draft, t, p)
      BY <1>4, <3>2 DEF ChainInv, ChainIn
    <3>4. p \in Tokens /\ draft[p].status \in Terminal
      BY <3>3 DEF Follows
    <3>5. row'[p].status \in Terminal
      <4>1. CASE SameNumber(row[t], draft[t])
        <5>1. row[p].status \in Terminal
          BY <1>4, <3>2, <4>1, KeptNumber
        <5> QED BY <1>1, <3>4, <5>1
      <4>2. CASE ~SameNumber(row[t], draft[t])
        <5>1. owner[p] = x
          BY <1>2, <2>1, <4>2 DEF Renumbered
        <5> QED BY <1>1, <3>4, <5>1
      <4> QED BY <4>1, <4>2
    <3> QED BY <3>1, <3>2, <3>3, <3>5, SameChain
  <2>2. CASE holderLock[holder[t]] # x
    <3>1. \A u \in Tokens : SameHolder(t, u) => SameNumber(row[u], row'[u])
      <4> SUFFICES ASSUME NEW u \in Tokens, SameHolder(t, u) PROVE SameNumber(row[u], row'[u])
        OBVIOUS
      <4>1. owner[u] = x => SameNumber(row[u], draft[u])
        BY <1>2, <2>2 DEF Renumbered, SameHolder
      <4> QED BY <1>1, <4>1, SameRow
    <3>2. row'[t].predecessor = row[t].predecessor
      BY <3>1 DEF SameNumber, SameHolder
    <3> DEFINE p == row[t].predecessor
    <3>3. Follows(row, t, p)
      BY <1>4, <3>2 DEF ChainInv, ChainIn
    <3>4. p \in Tokens /\ row[p].status \in Terminal
      BY <3>3 DEF Follows
    <3>5. row'[p].status \in Terminal
      BY <1>1, <1>2, <3>4, TerminalStays
    <3> QED BY <3>1, <3>2, <3>3, <3>5, SameChain
  <2> QED BY <2>1, <2>2
<1> QED BY <1>1, <1>3, <1>4 DEF ChainIn, ChainInv, Follows

(* ROLLBACK: the numbers of a holder that x has locked are the committed ones again. *)
LEMMA ChainRollback ==
  ASSUME StoreAssumption, IInv, TrailInv, ChainInv, NEW x \in Txns, RollbackRows(x)
  PROVE  ChainIn(row)' /\ ChainIn(draft)' /\ \A t \in Tokens : Renumbered(t)'
<1>1. /\ row' = row
      /\ \A t \in Tokens : draft'[t] = IF owner[t] = x THEN row[t] ELSE draft[t]
      /\ \A t \in Tokens : owner'[t] = IF owner[t] = x THEN NoTxn ELSE owner[t]
      /\ \A i \in Individuals : holderLock'[i] = IF holderLock[i] = x THEN NoTxn ELSE holderLock[i]
  BY DEF RollbackRows, ReleaseRows
<1>2. \A t \in Tokens : holder[t] \in Individuals /\ Moves(row[t].status, draft[t].status) /\ Renumbered(t)
  BY DEF StoreAssumption, TrailInv, ChainInv
<1>3. ASSUME NEW t \in Tokens PROVE Renumbered(t)'
  <2> SUFFICES ASSUME ~SameNumber(row'[t], draft'[t])
               PROVE  /\ owner'[t] \in Txns /\ holderLock'[holder[t]] = owner'[t]
                      /\ draft'[t].predecessor \in Tokens /\ owner'[draft'[t].predecessor] = owner'[t]
    BY DEF Renumbered
  <2>1. owner[t] # x /\ draft'[t] = draft[t]
    BY <1>1, SameRow
  <2>2. /\ owner[t] \in Txns /\ holderLock[holder[t]] = owner[t]
        /\ draft[t].predecessor \in Tokens /\ owner[draft[t].predecessor] = owner[t]
    BY <1>1, <1>2, <2>1 DEF Renumbered
  <2> QED BY <1>1, <1>2, <2>1, <2>2
<1>4. ASSUME NEW t \in Tokens, draft'[t].predecessor # NoToken
      PROVE  Follows(draft', t, draft'[t].predecessor)
  <2>1. CASE holderLock[holder[t]] = x
    <3>1. \A u \in Tokens : SameHolder(t, u) => SameNumber(row[u], draft'[u])
      <4> SUFFICES ASSUME NEW u \in Tokens, SameHolder(t, u) PROVE SameNumber(row[u], draft'[u])
        OBVIOUS
      <4>1. owner[u] # x => SameNumber(row[u], draft[u])
        BY <1>2, <2>1 DEF Renumbered, SameHolder
      <4> QED BY <1>1, <4>1, SameRow
    <3>2. draft'[t].predecessor = row[t].predecessor
      BY <3>1 DEF SameNumber, SameHolder
    <3> DEFINE p == row[t].predecessor
    <3>3. Follows(row, t, p)
      BY <1>4, <3>2 DEF ChainInv, ChainIn
    <3>4. p \in Tokens /\ row[p].status \in Terminal
      BY <3>3 DEF Follows
    <3>5. draft'[p].status \in Terminal
      BY <1>1, <1>2, <3>4, TerminalStays
    <3> QED BY <3>1, <3>2, <3>3, <3>5, SameChain
  <2>2. CASE holderLock[holder[t]] # x
    <3>1. \A u \in Tokens : SameHolder(t, u) => SameNumber(draft[u], draft'[u])
      <4> SUFFICES ASSUME NEW u \in Tokens, SameHolder(t, u) PROVE SameNumber(draft[u], draft'[u])
        OBVIOUS
      <4>1. owner[u] = x => SameNumber(row[u], draft[u])
        BY <1>2, <2>2 DEF Renumbered, SameHolder
      <4> QED BY <1>1, <4>1, SameRow DEF SameNumber
    <3>2. draft'[t].predecessor = draft[t].predecessor
      BY <3>1 DEF SameNumber, SameHolder
    <3> DEFINE p == draft[t].predecessor
    <3>3. Follows(draft, t, p)
      BY <1>4, <3>2 DEF ChainInv, ChainIn
    <3>4. p \in Tokens /\ draft[p].status \in Terminal
      BY <3>3 DEF Follows
    <3>5. draft'[p].status \in Terminal
      <4>1. CASE SameNumber(row[t], draft[t])
        <5>1. row[p].status \in Terminal
          BY <1>4, <3>2, <4>1, KeptNumber
        <5> QED BY <1>1, <3>4, <5>1
      <4>2. CASE ~SameNumber(row[t], draft[t])
        <5>1. owner[p] # x
          BY <1>2, <2>2, <4>2 DEF Renumbered
        <5> QED BY <1>1, <3>4, <5>1
      <4> QED BY <4>1, <4>2
    <3> QED BY <3>1, <3>2, <3>3, <3>5, SameChain
  <2> QED BY <2>1, <2>2
<1> QED BY <1>1, <1>3, <1>4 DEF ChainIn, ChainInv, Follows

(* What the swap of uc4_activate_reserve writes. *)
LEMMA SwapWrites ==
  ASSUME StoreAssumption, IInv, TrailInv, ChainInv, NEW x \in Txns, UC4Swap(x), ~Rollback(x),
         NEW lost, NEW reserve, lost = arg[x].tok, reserve = arg[x].alt
  PROVE  /\ lost \in Tokens /\ reserve \in Tokens /\ lost # reserve /\ SameHolder(lost, reserve)
         /\ pc[x] = "uc4_swap" /\ pc'[x] = "commit" /\ row' = row /\ holderLock' = holderLock
         /\ draft[lost].status = "ACTIVE" /\ draft[reserve].status = "RESERVE"
         /\ draft'[lost].status \in {"LOST", "REVOKED"} /\ draft'[lost].status \in Terminal
         /\ SameNumber(draft[lost], draft'[lost])
         /\ draft'[reserve].predecessor = lost /\ draft'[reserve].status = "ACTIVE"
         /\ \E m \in Tokens : /\ LatestActivation(x, m, holder[lost])
                              /\ draft'[reserve].activation_sequence = Visible(x, m).activation_sequence + 1
         /\ \A u \in Tokens \ {lost, reserve} : draft'[u] = draft[u] /\ owner'[u] = owner[u]
         /\ owner[lost] = x /\ owner[reserve] = x /\ owner'[lost] = x /\ owner'[reserve] = x
<1> DEFINE end == arg[x].status
           now == arg[x].start
<1>1. /\ pc[x] = "uc4_swap" /\ pc'[x] = "commit" /\ row' = row /\ holderLock' = holderLock
  BY DEF UC4Swap, Goto, IInv, TypeOK
<1>2. /\ lost \in Tokens /\ reserve \in Tokens /\ owner[lost] = x /\ owner[reserve] = x
      /\ end \in {"LOST", "REVOKED"} /\ now \in Nat
  BY <1>1 DEF IInv, TypeOK, Arg, Owns, OwnsAt, Mine
<1>3. SameHolder(lost, reserve) /\ draft[lost].status = "ACTIVE" /\ draft[reserve].status = "RESERVE"
  BY <1>1 DEF ChainInv, AtUC4
<1>4. lost # reserve
  BY <1>3
<1>5. PICK m \in Tokens :
        /\ LatestActivation(x, m, holder[lost])
        /\ Write(x, {lost, reserve}, [t \in {lost, reserve} |->
                  IF t = lost THEN SwappedOut(x)
                  ELSE SwappedIn(x, Visible(x, m).activation_sequence + 1)])
  BY DEF UC4Swap
<1>6. /\ draft'[lost] = SwappedOut(x)
      /\ draft'[reserve] = SwappedIn(x, Visible(x, m).activation_sequence + 1)
      /\ owner'[lost] = x /\ owner'[reserve] = x
      /\ \A u \in Tokens \ {lost, reserve} : draft'[u] = draft[u] /\ owner'[u] = owner[u]
  BY <1>2, <1>4, <1>5 DEF Write
<1>7. /\ SwappedOut(x).status \in {"LOST", "REVOKED"} /\ SwappedOut(x).status \in Terminal
      /\ SameNumber(draft[lost], SwappedOut(x))
  <2> DEFINE old == draft[lost]
             set == SetStatus(old, end, "UC4", now)
  <2>1. SwappedOut(x) = Published(set) /\ old \in TokenRow
    BY <1>2 DEF SwappedOut, IInv, TypeOK
  <2> HIDE DEF old, end, now
  <2>2. end \in Status /\ EventFor(end) \in EventType /\ "UC4" \in Reason
    BY <1>2, LoggedStatuses
  <2>3. set \in TokenRow /\ set.status = end
    BY <1>2, <2>1, <2>2, SetStatusType
  <2>4. SameNumber(old, set)
    BY <2>1, SetStatusQuiet
  <2>5. SameNumber(old, Published(set))
    BY <2>3, <2>4, PublishedQuiet
  <2> HIDE DEF set
  <2>6. Published(set).status = end
    BY <2>3 DEF Published, TokenRow
  <2> QED BY <1>2, <2>1, <2>5, <2>6 DEF Terminal, old
<1>8. ASSUME NEW seq
      PROVE  /\ SwappedIn(x, seq).predecessor = lost /\ SwappedIn(x, seq).activation_sequence = seq
             /\ SwappedIn(x, seq).status = "ACTIVE"
  <2> DEFINE set == SetStatus(draft[reserve], "ACTIVE", "UC4", now)
  <2>1. draft[reserve] \in TokenRow
    BY <1>2 DEF IInv, TypeOK
  <2>2. set \in TokenRow
    BY <1>2, <2>1, SetStatusType, LoggedStatuses
  <2>3. set.status = "ACTIVE"
    BY <2>1 DEF SetStatus, TokenRow
  <2>4. SwappedIn(x, seq) = [set EXCEPT !.predecessor = lost, !.activation_sequence = seq]
    BY DEF SwappedIn
  <2> HIDE DEF set
  <2> QED BY <2>2, <2>3, <2>4 DEF TokenRow
<1>9. \E n \in Tokens : /\ LatestActivation(x, n, holder[lost])
                        /\ draft'[reserve].activation_sequence = Visible(x, n).activation_sequence + 1
  BY <1>5, <1>6, <1>8
<1> QED BY <1>1, <1>2, <1>3, <1>4, <1>6, <1>7, <1>8, <1>9

(* The swap gives the reserve a number above all of the holder's, whom x has locked. *)
LEMMA ChainSwap ==
  ASSUME StoreAssumption, IInv, TrailInv, ChainInv, NEW x \in Txns, UC4Swap(x), ~Rollback(x)
  PROVE  ChainIn(row)' /\ ChainIn(draft)' /\ \A t \in Tokens : Renumbered(t)'
<1>1. PICK lost, reserve : lost = arg[x].tok /\ reserve = arg[x].alt
  OBVIOUS
<1>2. /\ lost \in Tokens /\ reserve \in Tokens /\ lost # reserve /\ SameHolder(lost, reserve)
      /\ pc[x] = "uc4_swap" /\ row' = row /\ holderLock' = holderLock
      /\ draft[lost].status = "ACTIVE" /\ draft[reserve].status = "RESERVE"
      /\ draft'[lost].status \in Terminal /\ SameNumber(draft[lost], draft'[lost])
      /\ draft'[reserve].predecessor = lost
      /\ \A u \in Tokens \ {lost, reserve} : draft'[u] = draft[u] /\ owner'[u] = owner[u]
      /\ owner[lost] = x /\ owner[reserve] = x /\ owner'[lost] = x /\ owner'[reserve] = x
  BY <1>1, SwapWrites
<1>3. PICK m \in Tokens : /\ LatestActivation(x, m, holder[lost])
                          /\ draft'[reserve].activation_sequence = Visible(x, m).activation_sequence + 1
  BY <1>1, SwapWrites
<1>4. /\ holderLock[holder[lost]] = x
      /\ \A u \in Tokens : owner[u] = x => draft[u] = row[u]
      /\ \A u \in Tokens : Renumbered(u)
  BY <1>1, <1>2 DEF ChainInv, AtUC4, TrailInv, WritesAgain, Locking
<1>5. \A u \in Tokens : SameHolder(lost, u) => SameNumber(row[u], draft[u])
  BY <1>4, SameRow DEF Renumbered, SameHolder
<1>6. ASSUME NEW u \in Tokens, SameHolder(lost, u), row[u].status # "NONE"
      PROVE  /\ draft[u].activation_sequence \in Nat /\ draft'[reserve].activation_sequence \in Nat
             /\ draft[u].activation_sequence < draft'[reserve].activation_sequence
  <2>1. Visible(x, u).status # "NONE" /\ Visible(x, u).activation_sequence = draft[u].activation_sequence
    BY <1>4, <1>5, <1>6 DEF Visible, SameNumber
  <2>2. Visible(x, u).activation_sequence <= Visible(x, m).activation_sequence
    BY <1>3, <1>6, <2>1 DEF LatestActivation, SameHolder
  <2>3. draft[u].activation_sequence \in Nat /\ Visible(x, m).activation_sequence \in Nat
    BY DEF Visible, IInv, TypeOK, TokenRow
  <2> QED BY <1>3, <2>1, <2>2, <2>3
<1>7. \A u \in Tokens : SameHolder(lost, u) /\ draft[u].predecessor # NoToken => row[u].status # "NONE"
  <2> SUFFICES ASSUME NEW u \in Tokens, SameHolder(lost, u), draft[u].predecessor # NoToken, row[u].status = "NONE"
               PROVE  FALSE
    OBVIOUS
  <2>1. row[u] = NoRow /\ row[u].predecessor # NoToken
    BY <1>5 DEF TrailInv, Sound, SameNumber
  <2> QED BY <2>1 DEF NoRow
<1>8. \A u \in Tokens : u # reserve => SameNumber(draft[u], draft'[u])
  BY <1>2, SameRow
<1>9. ASSUME NEW t \in Tokens, t # reserve, draft'[t].predecessor # NoToken
      PROVE  Follows(draft', t, draft'[t].predecessor)
  <2> DEFINE p == draft[t].predecessor
  <2>1. p = draft'[t].predecessor /\ Follows(draft, t, p) /\ p \in Tokens /\ draft[p].status \in Terminal
    BY <1>8, <1>9 DEF SameNumber, ChainInv, ChainIn, Follows
  <2>2. p # lost /\ p # reserve /\ draft'[p] = draft[p]
    BY <1>2, <2>1 DEF Terminal
  <2>3. SameHolder(t, p) /\ draft[p].activation_sequence < draft[t].activation_sequence
    BY <2>1 DEF Follows
  <2>4. draft'[t].activation_sequence = draft[t].activation_sequence
    BY <1>8, <1>9 DEF SameNumber
  <2>5. ASSUME NEW u \in Tokens \ {t}, SameHolder(t, u), draft'[u].predecessor # NoToken
        PROVE  draft'[u].predecessor # p /\ draft'[u].activation_sequence # draft'[t].activation_sequence
    <3>1. CASE u = reserve
      <4>1. SameHolder(lost, t)
        BY <1>2, <2>5, <3>1 DEF SameHolder
      <4>2. row[t].status # "NONE"
        BY <1>7, <1>9, <2>1, <4>1
      <4>3. draft[t].activation_sequence < draft'[reserve].activation_sequence /\ draft[t].activation_sequence \in Nat
            /\ draft'[reserve].activation_sequence \in Nat
        BY <1>6, <4>1, <4>2
      <4> QED BY <1>2, <2>2, <2>4, <3>1, <4>3
    <3>2. CASE u # reserve
      <4>1. SameNumber(draft[u], draft'[u])
        BY <1>8, <3>2
      <4> QED BY <2>1, <2>4, <2>5, <4>1 DEF Follows, SameNumber
    <3> QED BY <3>1, <3>2
  <2> QED BY <2>1, <2>2, <2>3, <2>4, <2>5 DEF Follows
<1>10. Follows(draft', reserve, lost)
  <2>1. row[lost].status # "NONE" /\ SameHolder(lost, lost) /\ SameHolder(reserve, lost)
    BY <1>2, <1>4 DEF SameHolder
  <2>2. draft'[lost].activation_sequence < draft'[reserve].activation_sequence
    BY <1>2, <1>6, <2>1 DEF SameNumber
  <2>3. ASSUME NEW u \in Tokens \ {reserve}, SameHolder(reserve, u), draft'[u].predecessor # NoToken
        PROVE  /\ draft'[u].predecessor # lost
               /\ draft'[u].activation_sequence # draft'[reserve].activation_sequence
    <3>1. SameNumber(draft[u], draft'[u]) /\ SameHolder(lost, u)
      BY <1>2, <1>8, <2>3 DEF SameHolder
    <3>2. draft[u].predecessor # NoToken /\ draft[u].predecessor = draft'[u].predecessor
      BY <2>3, <3>1 DEF SameNumber
    <3>3. draft[draft[u].predecessor].status \in Terminal
      BY <3>2 DEF ChainInv, ChainIn, Follows
    <3>4. draft'[u].predecessor # lost
      BY <1>2, <3>2, <3>3 DEF Terminal
    <3>5. draft[u].activation_sequence < draft'[reserve].activation_sequence
          /\ draft[u].activation_sequence \in Nat /\ draft'[reserve].activation_sequence \in Nat
      BY <1>6, <1>7, <3>1, <3>2
    <3> QED BY <3>1, <3>4, <3>5 DEF SameNumber
  <2> QED BY <1>2, <2>1, <2>2, <2>3 DEF Follows
<1>11. ChainIn(draft)'
  BY <1>2, <1>9, <1>10 DEF ChainIn
<1>12. ASSUME NEW t \in Tokens PROVE Renumbered(t)'
  <2>1. CASE t = reserve
    BY <1>2, <1>4, <2>1 DEF Renumbered, SameHolder
  <2>2. CASE t = lost
    BY <1>2, <1>5, <2>2 DEF Renumbered, SameHolder, SameNumber
  <2>3. CASE t \notin {lost, reserve}
    <3> SUFFICES ASSUME ~SameNumber(row[t], draft[t])
                 PROVE  /\ owner'[t] \in Txns /\ holderLock'[holder[t]] = owner'[t]
                        /\ draft'[t].predecessor \in Tokens /\ owner'[draft'[t].predecessor] = owner'[t]
      BY <1>2, <2>3 DEF Renumbered
    <3>1. /\ owner[t] \in Txns /\ holderLock[holder[t]] = owner[t]
          /\ draft[t].predecessor \in Tokens /\ owner[draft[t].predecessor] = owner[t]
      BY <1>4 DEF Renumbered
    <3>2. draft'[t] = draft[t] /\ owner'[t] = owner[t]
      BY <1>2, <2>3
    <3>3. owner'[draft[t].predecessor] = owner[draft[t].predecessor]
      BY <1>2, <3>1
    <3> QED BY <1>2, <3>1, <3>2, <3>3
  <2> QED BY <2>1, <2>2, <2>3
<1>13. ChainIn(row)'
  BY <1>2 DEF ChainInv, ChainIn, Follows
<1> QED BY <1>11, <1>12, <1>13

UC4Labels == {"uc4_holder", "uc4_lost", "uc4_reserve", "uc4_swap"}

(* A call takes no lock on an Individual; UC-4's has two tokens of one holder. *)
LEMMA CallLocks ==
  ASSUME StoreAssumption, LifecycleAssumption, IInv, ChainInv, NEW x \in Txns, Call(x)
  PROVE  LocksKept(x) /\ AtUC4(x)'
<1>1. holderLock' = holderLock
  BY DEF Call, UC1, BulkInsert, Transition, UC4, UC8, UC9Initiate, UC9Complete, storeVars
<1>2. ASSUME NEW lost \in Tokens, NEW reserve \in Tokens, NEW reason, UC4(x, lost, reserve, reason)
      PROVE  AtUC4(x)'
  <2> DEFINE a == [NoArg EXCEPT !.tok = lost, !.alt = reserve, !.status = TerminalFor(reason)]
  <2>1. Begin(x, "uc4_holder", a) /\ SameHolder(lost, reserve)
    BY <1>2 DEF UC4
  <2>2. a \in Arg /\ a.tok = lost /\ a.alt = reserve
    BY NoArgType DEF Arg, TerminalFor, Status
  <2> HIDE DEF a
  <2>3. pc'[x] = "uc4_holder" /\ arg'[x] = [a EXCEPT !.start = clock]
    BY <2>1 DEF Begin, IInv, TypeOK
  <2>4. arg'[x].tok = lost /\ arg'[x].alt = reserve
    BY <2>2, <2>3 DEF Arg
  <2> QED BY <2>1, <2>3, <2>4 DEF AtUC4
<1>3. CASE pc'[x] \notin UC4Labels
  BY <1>1, <1>3 DEF AtUC4, UC4Labels, LocksKept
<1>4. pc'[x] \notin UC4Labels \/ \E lost, reserve \in Tokens : \E reason : UC4(x, lost, reserve, reason)
  BY DEF Call, UC1, BulkInsert, Transition, UC8, UC9Initiate, UC9Complete, Begin, UC4Labels, IInv, TypeOK
<1> QED BY <1>1, <1>2, <1>3, <1>4 DEF LocksKept

(* Only UC-4 locks an Individual, a free one, and keeps it; when it comes to the swap
   it has read both tokens again. *)
LEMMA StatementLocks ==
  ASSUME StoreAssumption, IInv, TrailInv, ChainInv, NEW x \in Txns, Step(x), ~Rollback(x), ~Commit(x)
  PROVE  LocksKept(x) /\ AtUC4(x)'
<1>1. CASE UC4LockHolder(x)
  <2>1. PICK lost : lost = arg[x].tok
    OBVIOUS
  <2>2. /\ pc[x] = "uc4_holder" /\ pc'[x] = "uc4_lost" /\ arg' = arg /\ holderLock[holder[lost]] \in {x, NoTxn}
        /\ holderLock' = [holderLock EXCEPT ![holder[lost]] = x]
    BY <1>1, <2>1 DEF UC4LockHolder, HolderLockable, LockHolder, Goto, IInv, TypeOK
  <2>3. lost \in Tokens /\ holder[lost] \in Individuals /\ holderLock \in [Individuals -> Txns \cup {NoTxn}]
    BY <2>1, <2>2 DEF IInv, TypeOK, Owns, OwnsAt, StoreAssumption
  <2>4. holderLock'[holder[lost]] = x /\ LocksKept(x)
    BY <2>2, <2>3 DEF LocksKept, StoreAssumption
  <2>5. SameHolder(lost, arg[x].alt)
    BY <2>1, <2>2 DEF ChainInv, AtUC4
  <2> QED BY <2>1, <2>2, <2>4, <2>5 DEF AtUC4
<1>2. CASE UC4LockLost(x)
  <2>1. PICK lost : lost = arg[x].tok
    OBVIOUS
  <2>2. /\ pc[x] = "uc4_lost" /\ pc'[x] = "uc4_reserve" /\ arg' = arg /\ holderLock' = holderLock
        /\ draft[lost].status = "ACTIVE" /\ Write(x, {lost}, [u \in {lost} |-> draft[lost]])
    BY <1>2, <2>1 DEF UC4LockLost, Relock, Goto, IInv, TypeOK
  <2>3. lost \in Tokens /\ SameHolder(lost, arg[x].alt) /\ holderLock[holder[lost]] = x
    BY <2>1, <2>2 DEF IInv, Owns, OwnsAt, ChainInv, AtUC4
  <2>4. draft'[lost].status = "ACTIVE"
    BY <2>2, <2>3 DEF Write
  <2> QED BY <2>1, <2>2, <2>3, <2>4 DEF AtUC4, LocksKept
<1>3. CASE UC4LockReserve(x)
  <2>1. PICK lost, reserve : lost = arg[x].tok /\ reserve = arg[x].alt
    OBVIOUS
  <2>2. /\ pc[x] = "uc4_reserve" /\ pc'[x] = "uc4_swap" /\ arg' = arg /\ holderLock' = holderLock
        /\ draft[reserve].status = "RESERVE" /\ Write(x, {reserve}, [u \in {reserve} |-> draft[reserve]])
    BY <1>3, <2>1 DEF UC4LockReserve, Relock, Goto, IInv, TypeOK
  <2>3. /\ lost \in Tokens /\ reserve \in Tokens /\ SameHolder(lost, reserve) /\ holderLock[holder[lost]] = x
        /\ draft[lost].status = "ACTIVE"
    BY <2>1, <2>2 DEF IInv, Owns, OwnsAt, ChainInv, AtUC4
  <2>4. draft'[lost].status = "ACTIVE" /\ draft'[reserve].status = "RESERVE"
    BY <2>2, <2>3 DEF Write
  <2> QED BY <2>1, <2>2, <2>3, <2>4 DEF AtUC4, LocksKept
<1>4. CASE /\ ~UC4LockHolder(x) /\ ~UC4LockLost(x) /\ ~UC4LockReserve(x)
  <2>2. \/ BulkActivate(x) \/ TransitionUpdate(x) \/ TransitionActivate(x) \/ UC4Swap(x)
        \/ UC8Lock(x) \/ UC8Check(x) \/ UC8Update(x) \/ UC9InsertRequest(x) \/ UC9Lock(x) \/ UC9Request(x)
        \/ (\E t \in Tokens : UC9Void(x, t)) \/ UC9Insert(x) \/ UC9Issue(x)
    BY <1>4 DEF Step
  <2>3. holderLock' = holderLock
    BY <2>2 DEF BulkActivate, TransitionUpdate, TransitionActivate, UC4Swap, UC8Lock, UC8Check, UC8Update,
                UC9InsertRequest, UC9Lock, UC9Request, UC9Void, UC9Insert, UC9Issue, ActivateRow, VoidRow, storeVars
  <2>4. pc'[x] \notin UC4Labels
    BY <2>2 DEF BulkActivate, TransitionUpdate, TransitionActivate, UC4Swap, UC8Lock, UC8Check, UC8Update,
                UC9InsertRequest, UC9Lock, UC9Request, UC9Void, UC9Insert, UC9Issue, ActivateRow, VoidRow,
                Goto, End, UC4Labels, IInv, TypeOK
  <2> QED BY <2>3, <2>4 DEF LocksKept, AtUC4, UC4Labels
<1> QED BY <1>1, <1>2, <1>3, <1>4

(* The succession stays a chain under every step of x. *)
LEMMA TransactionChain ==
  ASSUME StoreAssumption, LifecycleAssumption, IInv, TrailInv, ChainInv, NEW x \in Txns,
         Call(x) \/ Step(x) \/ Crash(x) \/ DeadlockVictim(x)
  PROVE  /\ ChainIn(row)' /\ ChainIn(draft)' /\ \A t \in Tokens : Renumbered(t)'
         /\ AtUC4(x)'
         /\ \A i \in Individuals : \A y \in Txns \ {x} : holderLock[i] = y => holderLock'[i] = y
<1>1. CASE Rollback(x) \/ Commit(x)
  <2>1. RollbackRows(x) \/ CommitRows(x)
    BY <1>1 DEF Rollback, Commit
  <2>2. pc'[x] = "idle"
    BY <1>1 DEF Rollback, Commit, End, IInv, TypeOK
  <2>3. \A i \in Individuals : \A y \in Txns \ {x} : holderLock[i] = y => holderLock'[i] = y
    BY <2>1 DEF RollbackRows, CommitRows, ReleaseRows
  <2> QED BY <2>1, <2>2, <2>3, ChainCommit, ChainRollback DEF AtUC4
<1>2. CASE ~Rollback(x) /\ ~Commit(x)
  <2>1. Call(x) \/ Step(x)
    BY <1>2 DEF Crash, DeadlockVictim
  <2>2. CASE CommitRows(x) \/ RollbackRows(x)
    <3>1. \A i \in Individuals : \A y \in Txns \ {x} : holderLock[i] = y => holderLock'[i] = y
      BY <2>2 DEF RollbackRows, CommitRows, ReleaseRows
    <3>2. AtUC4(x)'
      BY <1>2, <2>1, CallLocks, StatementLocks
    <3> QED BY <2>2, <3>1, <3>2, ChainCommit, ChainRollback
  <2>3. CASE ~CommitRows(x) /\ ~RollbackRows(x)
    <3>1. LocksKept(x) /\ AtUC4(x)'
      BY <1>2, <2>1, <2>3, CallLocks, StatementLocks
    <3>2. \A i \in Individuals : \A y \in Txns \ {x} : holderLock[i] = y => holderLock'[i] = y
      BY <3>1 DEF LocksKept
    <3>3. CASE pc[x] = "uc4_swap"
      <4>1. UC4Swap(x)
        BY <1>2, <2>1, <3>3 DEF Call, Step, UC1, BulkInsert, Transition, UC4, UC8, UC9Initiate, UC9Complete, Begin,
           BulkActivate, TransitionUpdate, TransitionActivate, UC4LockHolder, UC4LockLost, UC4LockReserve,
           UC8Lock, UC8Check, UC8Update, UC9InsertRequest, UC9Lock, UC9Request, UC9Void, UC9Insert, UC9Issue
      <4> QED BY <1>2, <3>1, <3>2, <4>1, ChainSwap
    <3>4. CASE pc[x] # "uc4_swap"
      <4>1. (\E S : \E version : SoundWrite(x, S, version)) \/ UNCHANGED <<row, draft, owner>>
        BY <2>1, <2>3, TransactionKeeps DEF Keeps, TrailStep
      <4> QED BY <3>1, <3>2, <3>4, <4>1, ChainWrite
    <3> QED BY <3>3, <3>4
  <2> QED BY <2>2, <2>3
<1> QED BY <1>1, <1>2

(* No step of the system breaks the succession. *)
LEMMA ChainNext ==
  ASSUME StoreAssumption, LifecycleAssumption, IInv, TrailInv, ChainInv, [Next]_vars
  PROVE  ChainInv'
<1>1. CASE UNCHANGED <<row, draft, owner, holderLock, pc, arg>>
  BY <1>1 DEF ChainInv, ChainIn, Follows, Renumbered, AtUC4
<1>2. ASSUME NEW x \in Txns, Call(x) \/ Step(x) \/ Crash(x) \/ DeadlockVictim(x) PROVE ChainInv'
  <2>1. /\ ChainIn(row)' /\ ChainIn(draft)' /\ \A t \in Tokens : Renumbered(t)'
        /\ AtUC4(x)'
        /\ \A i \in Individuals : \A y \in Txns \ {x} : holderLock[i] = y => holderLock'[i] = y
    BY <1>2, TransactionChain
  <2>2. ASSUME NEW y \in Txns, y # x PROVE AtUC4(y)'
    <3>1. AtUC4(y) /\ OwnsAt(y) /\ pc'[y] = pc[y] /\ arg'[y] = arg[y]
      BY <1>2, <2>2, OthersWait DEF ChainInv, IInv, Owns
    <3>2. \A t \in Tokens : owner[t] = y => draft'[t] = draft[t]
      BY <1>2, <2>2, OthersRows, TransactionKeeps DEF Keeps
    <3>3. pc[y] \in {"uc4_lost", "uc4_reserve", "uc4_swap"} => holderLock'[holder[arg[y].tok]] = y
      BY <2>1, <2>2, <3>1 DEF AtUC4, OwnsAt, StoreAssumption
    <3>4. /\ pc[y] \in {"uc4_reserve", "uc4_swap"} => draft'[arg[y].tok] = draft[arg[y].tok]
          /\ pc[y] = "uc4_swap" => draft'[arg[y].alt] = draft[arg[y].alt]
      BY <3>1, <3>2 DEF OwnsAt, Mine
    <3> QED BY <3>1, <3>3, <3>4 DEF AtUC4
  <2> QED BY <2>1, <2>2 DEF ChainInv
<1> QED BY <1>1, <1>2 DEF Next, Tick, vars, procVars

(* The database is loaded without successions. *)
LEMMA ChainInit ==
  ASSUME StoreAssumption, LifecycleAssumption, Init
  PROVE  ChainInv
<1>1. ASSUME NEW t \in Tokens PROVE SeedRow(seed[t]).predecessor = NoToken
  <2>1. Issued(NoRow, 0) \in TokenRow /\ SameNumber(NoRow, Issued(NoRow, 0)) /\ NoRow.predecessor = NoToken
    BY IssuedType, IssuedQuiet DEF NoRow
  <2>2. SameNumber(Issued(NoRow, 0), SetStatus(Issued(NoRow, 0), "ACTIVE", "ISSUE", 0))
    BY <2>1, SetStatusQuiet
  <2> QED BY <2>1, <2>2 DEF SeedRow, SameNumber
<1>2. draft = row /\ \A t \in Tokens : row[t] = SeedRow(seed[t])
  BY DEF Init
<1>3. \A x \in Txns : pc[x] = "idle"
  BY DEF Init
<1> QED BY <1>1, <1>2, <1>3, SameRow DEF ChainInv, ChainIn, Renumbered, AtUC4

(* Two concurrent reserve activations of one holder never give a token two successors
   or two successors one number: uc4_activate_reserve locks the Individual before it
   reads MAX(activation_sequence). *)
THEOREM SuccessionChain == Spec => []SuccessionIsAChain
<1>1. Init => IInv /\ TrailInv /\ ChainInv
  BY StoreAssumption, LifecycleAssumption, InitKeeps, TrailInit, ChainInit
<1>2. IInv /\ TrailInv /\ ChainInv /\ [Next]_vars => IInv' /\ TrailInv' /\ ChainInv'
  BY StoreAssumption, LifecycleAssumption, NextKeeps, TrailNext, ChainNext
<1>3. ChainInv => SuccessionIsAChain
  BY DEF ChainInv, ChainIn, Follows, SuccessionIsAChain
<1> QED BY <1>1, <1>2, <1>3, PTL DEF Spec

-----------------------------------------------------------------------------
(* The discretion policy *)

(* Events of r by which an agency revoked without a co-signer, in the window before now. *)
RowAlone(r, now) ==
  {k \in DOMAIN r.events :
     /\ r.events[k].type = "REVOKED" /\ r.events[k].reason = "UC8"
     /\ r.events[k].at <= now /\ r.events[k].at + Window > now}

Alone(a, now) ==
  {e \in Revocations(a) :
     LET ev == row[e[1]].events[e[2]] IN
     ev.reason = "UC8" /\ ev.at <= now /\ ev.at + Window > now}

Room(a, n) == n * 100 <= MaxPercent * Outstanding(a)

(* x has the agency's lock, and there is room for its revocation now and later. *)
MayAlone(x) ==
  LET a == issuer[arg[x].tok] IN
  /\ arg[x].tok \in Tokens /\ revokeLock[a] = x
  /\ \A now \in Nat : now >= arg[x].start => Room(a, Cardinality(Alone(a, now)) + 1)

(* new has at most one event more than old, at position k, logged now. *)
LogsOne(old, new, k, now) ==
  /\ \A j \in DOMAIN new.events : j # k => j \in DOMAIN old.events /\ new.events[j] = old.events[j]
  /\ k \in DOMAIN new.events => new.events[k].at = now

(* x has revoked t without a co-signer and is about to commit. *)
Revoking(x, t) ==
  /\ owner[t] = x /\ pc[x] = "commit" /\ arg[x].tok = t /\ arg[x].reason = "UC8"
  /\ MayAlone(x)
  /\ LogsOne(row[t], draft[t], Len(row[t].events) + 1, arg[x].start)

AtUC8(x) ==
  /\ pc[x] \in {"uc8_lock", "uc8_check", "uc8_update"} =>
       arg[x].tok \in Tokens /\ (arg[x].reason = "UC8" => arg[x].cosigner = "none")
  /\ pc[x] \in {"uc8_check", "uc8_update"} => revokeLock[issuer[arg[x].tok]] = x
  /\ pc[x] = "uc8_update" /\ arg[x].reason = "UC8" => MayAlone(x)

(* The inductive invariant of the policy, next to those above. *)
RateInv ==
  /\ \A a \in Agencies, now \in Nat : Room(a, Cardinality(Alone(a, now)))
  /\ \A t \in Tokens : Silent(row[t], draft[t]) \/ \E x \in Txns : Revoking(x, t)
  /\ \A x \in Txns : AtUC8(x)

(* More of an allowance is still an allowance. *)
LEMMA RoomArith ==
  ASSUME NEW p \in Nat, NEW m \in Nat, NEW n \in Nat, NEW i \in Nat, NEW j \in Nat, i <= j, m <= n,
         j * 100 <= p * m
  PROVE  i * 100 <= p * n
<1>1. PICK d \in Nat : n = m + d
  <2>1. n - m \in Nat /\ n = m + (n - m)
    OBVIOUS
  <2> QED BY <2>1
<1>2. p * n = p * m + p * d /\ p * d \in Nat /\ p * m \in Nat
  BY <1>1
<1> QED BY <1>2

(* An agency's revocations, row by row. *)
LEMMA AloneRows ==
  ASSUME NEW a, NEW now
  PROVE  \A e : e \in Alone(a, now) <=>
           \E t \in Tokens : \E k : e = <<t, k>> /\ issuer[t] = a /\ k \in RowAlone(row[t], now)
<1>1. \A e : e \in Revocations(a) <=>
        \E t \in Tokens : \E k \in DOMAIN row[t].events :
           e = <<t, k>> /\ issuer[t] = a /\ row[t].events[k].type = "REVOKED"
  BY DEF Revocations
<1> QED BY <1>1 DEF Alone, RowAlone

(* There are finitely many. *)
LEMMA RevocationsFinite ==
  ASSUME StoreAssumption, TypeOK, NEW a
  PROVE  IsFiniteSet(Revocations(a))
<1> DEFINE U == {u \in Tokens : issuer[u] = a}
           f == [t \in U |-> {t} \X DOMAIN row[t].events]
           F == {{t} \X DOMAIN row[t].events : t \in U}
<1>1. IsFiniteSet(U)
  <2>1. U \in SUBSET Tokens
    OBVIOUS
  <2> HIDE DEF U
  <2> QED BY <2>1, FS_Subset DEF StoreAssumption
<1>2. \A t \in U : IsFiniteSet({t} \X DOMAIN row[t].events)
  <2> SUFFICES ASSUME NEW t \in U PROVE IsFiniteSet({t} \X DOMAIN row[t].events)
    OBVIOUS
  <2>1. row[t].events \in Seq(Event)
    BY DEF TypeOK, TokenRow
  <2>2. DOMAIN row[t].events = 1..Len(row[t].events) /\ Len(row[t].events) \in Nat
    BY <2>1
  <2>3. IsFiniteSet(DOMAIN row[t].events)
    <3>1. PICK n : n \in Nat /\ DOMAIN row[t].events = 1..n
      BY <2>2
    <3>2. 1 \in Int /\ n \in Int
      BY <3>1
    <3>3. IsFiniteSet(1..n)
      BY <3>2, FS_Interval
    <3> QED BY <3>1, <3>3
  <2>4. IsFiniteSet({t})
    BY FS_Singleton
  <2> QED BY <2>3, <2>4, FS_Product
<1>3. IsFiniteSet(F)
  <2>1. f \in Surjection(U, F)
    BY DEF Surjection
  <2> HIDE DEF U, F, f
  <2> QED BY <1>1, <2>1, FS_Surjection
<1>4. \A T \in F : IsFiniteSet(T)
  BY <1>2
<1>5. IsFiniteSet(UNION F)
  <2> HIDE DEF F
  <2> QED BY <1>3, <1>4, FS_UNION
<1>6. Revocations(a) \in SUBSET UNION F
  BY DEF Revocations
<1> HIDE DEF F
<1> QED BY <1>5, <1>6, FS_Subset

(* And finitely many tokens. *)
LEMMA RateCounts ==
  ASSUME StoreAssumption, TypeOK, NEW a
  PROVE  /\ Outstanding(a) \in Nat
         /\ \A now : IsFiniteSet(Alone(a, now)) /\ Cardinality(Alone(a, now)) \in Nat
<1>1. Outstanding(a) \in Nat
  <2> DEFINE U == {t \in Tokens : issuer[t] = a /\ row[t].status # "NONE"}
  <2>1. U \in SUBSET Tokens /\ Outstanding(a) = Cardinality(U)
    BY DEF Outstanding
  <2> HIDE DEF U
  <2>2. IsFiniteSet(U)
    BY <2>1, FS_Subset DEF StoreAssumption
  <2> QED BY <2>1, <2>2, FS_CardinalityType
<1>2. ASSUME NEW now PROVE IsFiniteSet(Alone(a, now))
  <2>1. Alone(a, now) \in SUBSET Revocations(a)
    BY DEF Alone
  <2> QED BY <2>1, RevocationsFinite, FS_Subset
<1> QED BY <1>1, <1>2, FS_CardinalityType

(* A statement that is not UC-8's adds no such event. *)
LEMMA SilentAlone ==
  ASSUME NEW old, NEW new, Silent(old, new), NEW now
  PROVE  RowAlone(new, now) \subseteq RowAlone(old, now)
BY DEF Silent, RowAlone

(* UC-8's adds one, in the window of its own time only. *)
LEMMA LogsOneAlone ==
  ASSUME NEW old, NEW new, NEW k, NEW at \in Nat, LogsOne(old, new, k, at), NEW now \in Nat
  PROVE  /\ RowAlone(new, now) \subseteq RowAlone(old, now) \cup {k}
         /\ now < at => RowAlone(new, now) \subseteq RowAlone(old, now)
BY DEF LogsOne, RowAlone

(* One statement after another. *)
LEMMA SilentTwice ==
  ASSUME NEW r1, NEW r2, NEW r3, Silent(r1, r2), Silent(r2, r3)
  PROVE  Silent(r1, r3)
BY DEF Silent

(* No step takes a committed token away. *)
LEMMA OutstandingGrows ==
  ASSUME StoreAssumption, IInv, TypeOK', TrailInv, NEW x \in Txns, TrailStep(x), NEW a
  PROVE  Outstanding(a) <= Outstanding(a)' /\ Outstanding(a) \in Nat /\ Outstanding(a)' \in Nat
<1> DEFINE U == {t \in Tokens : issuer[t] = a /\ row[t].status # "NONE"}
<1>1. \A t \in Tokens : row'[t] = row[t] \/ row'[t] = draft[t]
  BY DEF TrailStep, SoundWrite, CommitRows, RollbackRows
<1>2. \A t \in Tokens : row[t].status # "NONE" => row'[t].status # "NONE"
  BY <1>1 DEF TrailInv, Moves, LegalMoves
<1>3. U \in SUBSET U' /\ U' \in SUBSET Tokens
  BY <1>2
<1>4. Outstanding(a) = Cardinality(U) /\ Outstanding(a)' = Cardinality(U')
  BY DEF Outstanding
<1> HIDE DEF U
<1>5. IsFiniteSet(U')
  BY <1>3, FS_Subset DEF StoreAssumption
<1>6. IsFiniteSet(U) /\ Cardinality(U) <= Cardinality(U')
  BY <1>3, <1>5, FS_Subset
<1> QED BY <1>4, <1>5, <1>6, FS_CardinalityType

-----------------------------------------------------------------------------
(* What a step of x publishes of the policy's events: nothing, or its own revocation. *)
Publishes(x, a, now) ==
  /\ MayAlone(x) /\ a = issuer[arg[x].tok] /\ now >= arg[x].start
  /\ \E e : Alone(a, now)' \subseteq Alone(a, now) \cup {e}

(* A commit publishes at most one. *)
LEMMA CommitPublishes ==
  ASSUME StoreAssumption, IInv, RateInv, NEW x \in Txns, CommitRows(x), NEW a \in Agencies, NEW now \in Nat
  PROVE  Alone(a, now)' \subseteq Alone(a, now) \/ Publishes(x, a, now)
<1> DEFINE t == arg[x].tok
           k == Len(row[t].events) + 1
           at == arg[x].start
<1>1. at \in Nat
  BY DEF IInv, TypeOK, Arg
<1>2. \A u \in Tokens : row'[u] = IF owner[u] = x THEN draft[u] ELSE row[u]
  BY DEF CommitRows
<1>3. ASSUME NEW u \in Tokens, owner[u] = x, ~Silent(row[u], draft[u])
      PROVE  u = t /\ MayAlone(x) /\ LogsOne(row[u], draft[u], k, at)
  <2>1. PICK y \in Txns : Revoking(y, u)
    BY <1>3 DEF RateInv
  <2>2. y = x /\ u = t
    BY <1>3, <2>1 DEF Revoking
  <2> QED BY <2>1, <2>2 DEF Revoking
<1> HIDE DEF t, k, at
<1>4. \A e : e \in Alone(a, now)' <=>
        \E u \in Tokens : \E j : e = <<u, j>> /\ issuer[u] = a /\ j \in RowAlone(row'[u], now)
  <2>1. \A e : e \in Revocations(a)' <=>
          \E u \in Tokens : \E j \in DOMAIN row'[u].events :
             e = <<u, j>> /\ issuer[u] = a /\ row'[u].events[j].type = "REVOKED"
    BY DEF Revocations
  <2> QED BY <2>1 DEF Alone, RowAlone
<1>5. \A u \in Tokens : Silent(row[u], row'[u]) => RowAlone(row'[u], now) \subseteq RowAlone(row[u], now)
  BY SilentAlone
<1>6. CASE \E u \in Tokens : owner[u] = x /\ ~Silent(row[u], draft[u]) /\ issuer[u] = a /\ now >= at
  <2>1. MayAlone(x) /\ a = issuer[t]
    BY <1>3, <1>6
  <2>2. ASSUME NEW u \in Tokens, NEW j, j \in RowAlone(row'[u], now), issuer[u] = a
        PROVE  j \in RowAlone(row[u], now) \/ <<u, j>> = <<t, k>>
    <3>1. CASE owner[u] # x \/ Silent(row[u], draft[u])
      BY <1>2, <1>5, <2>2, <3>1, SameRow
    <3>2. CASE owner[u] = x /\ ~Silent(row[u], draft[u])
      <4>1. u = t /\ LogsOne(row[u], row'[u], k, at)
        BY <1>2, <1>3, <3>2
      <4> QED BY <1>1, <2>2, <4>1, LogsOneAlone
    <3> QED BY <3>1, <3>2
  <2>3. Alone(a, now)' \subseteq Alone(a, now) \cup {<<t, k>>}
    BY <1>4, <2>2, AloneRows
  <2>4. now >= at
    BY <1>6
  <2> QED BY <2>1, <2>3, <2>4 DEF Publishes, t, at
<1>7. CASE ~\E u \in Tokens : owner[u] = x /\ ~Silent(row[u], draft[u]) /\ issuer[u] = a /\ now >= at
  <2>1. ASSUME NEW u \in Tokens, NEW j, j \in RowAlone(row'[u], now), issuer[u] = a
        PROVE  j \in RowAlone(row[u], now)
    <3>1. CASE owner[u] # x \/ Silent(row[u], draft[u])
      BY <1>2, <1>5, <2>1, <3>1, SameRow
    <3>2. CASE owner[u] = x /\ ~Silent(row[u], draft[u])
      <4>1. now < at /\ LogsOne(row[u], row'[u], k, at)
        BY <1>1, <1>2, <1>3, <1>7, <2>1, <3>2
      <4> QED BY <1>1, <2>1, <4>1, LogsOneAlone
    <3> QED BY <3>1, <3>2
  <2>2. Alone(a, now)' \subseteq Alone(a, now)
    BY <1>4, <2>1, AloneRows
  <2> QED BY <2>2
<1> QED BY <1>6, <1>7

(* So does every step. *)
LEMMA StepPublishes ==
  ASSUME StoreAssumption, IInv, RateInv, NEW x \in Txns, TrailStep(x), NEW a \in Agencies, NEW now \in Nat
  PROVE  Alone(a, now)' \subseteq Alone(a, now) \/ Publishes(x, a, now)
<1>1. CASE CommitRows(x)
  BY <1>1, CommitPublishes
<1>2. CASE row' = row
  BY <1>2 DEF Alone, Revocations
<1> QED BY <1>1, <1>2 DEF TrailStep, SoundWrite, RollbackRows

(* The allowance holds after the step. *)
LEMMA RoomKept ==
  ASSUME StoreAssumption, LifecycleAssumption, IInv, IInv', TrailInv, RateInv, NEW x \in Txns, TrailStep(x),
         NEW a \in Agencies, NEW now \in Nat
  PROVE  /\ Room(a, Cardinality(Alone(a, now)))'
         /\ Alone(a, now)' \subseteq Alone(a, now) /\ Room(a, Cardinality(Alone(a, now)) + 1)
              => Room(a, Cardinality(Alone(a, now)) + 1)'
<1>1. PICK A, B, m, n : /\ A = Alone(a, now) /\ B = Alone(a, now)'
                        /\ m = Outstanding(a) /\ n = Outstanding(a)'
  OBVIOUS
<1>2. m \in Nat /\ n \in Nat /\ m <= n /\ MaxPercent \in Nat
  BY <1>1, OutstandingGrows DEF IInv, LifecycleAssumption
<1>3. IsFiniteSet(A) /\ Cardinality(A) \in Nat
  BY <1>1, RateCounts DEF IInv
<1>4. Cardinality(A) * 100 <= MaxPercent * m
  BY <1>1 DEF RateInv, Room
<1>5. /\ Room(a, Cardinality(Alone(a, now)))' <=> Cardinality(B) * 100 <= MaxPercent * n
      /\ Room(a, Cardinality(Alone(a, now)) + 1) <=> (Cardinality(A) + 1) * 100 <= MaxPercent * m
      /\ Room(a, Cardinality(Alone(a, now)) + 1)' <=> (Cardinality(B) + 1) * 100 <= MaxPercent * n
  BY <1>1 DEF Room
<1>6. ASSUME B \subseteq A
      PROVE  /\ Cardinality(B) * 100 <= MaxPercent * n
             /\ (Cardinality(A) + 1) * 100 <= MaxPercent * m => (Cardinality(B) + 1) * 100 <= MaxPercent * n
  <2>1. IsFiniteSet(B) /\ Cardinality(B) <= Cardinality(A)
    BY <1>3, <1>6, FS_Subset
  <2>2. Cardinality(B) \in Nat
    BY <2>1, FS_CardinalityType
  <2>3. PICK i, j : i = Cardinality(B) /\ j = Cardinality(A)
    OBVIOUS
  <2>4. i \in Nat /\ j \in Nat /\ i <= j /\ i + 1 \in Nat /\ j + 1 \in Nat /\ i + 1 <= j + 1
    BY <1>3, <2>1, <2>2, <2>3
  <2>5. i * 100 <= MaxPercent * n
    BY <1>2, <1>4, <2>3, <2>4, RoomArith
  <2>6. (j + 1) * 100 <= MaxPercent * m => (i + 1) * 100 <= MaxPercent * n
    BY <1>2, <2>4, RoomArith
  <2> QED BY <2>3, <2>5, <2>6
<1>7. ASSUME Publishes(x, a, now)
      PROVE  Cardinality(B) * 100 <= MaxPercent * n
  <2>1. PICK e : B \subseteq A \cup {e}
    BY <1>1, <1>7 DEF Publishes
  <2>2. (Cardinality(A) + 1) * 100 <= MaxPercent * m
    BY <1>1, <1>7 DEF Publishes, MayAlone, Room
  <2>3. IsFiniteSet(A \cup {e}) /\ Cardinality(A \cup {e}) \in {Cardinality(A), Cardinality(A) + 1}
    BY <1>3, FS_AddElement
  <2>4. IsFiniteSet(B) /\ Cardinality(B) <= Cardinality(A \cup {e})
    BY <2>1, <2>3, FS_Subset
  <2>5. Cardinality(B) \in Nat
    BY <2>4, FS_CardinalityType
  <2>6. PICK i, j : i = Cardinality(B) /\ j = Cardinality(A) + 1
    OBVIOUS
  <2>7. i \in Nat /\ j \in Nat /\ i <= j
    BY <1>3, <2>3, <2>4, <2>5, <2>6
  <2> QED BY <1>2, <2>2, <2>6, <2>7, RoomArith
<1>8. B \subseteq A \/ Publishes(x, a, now)
  BY <1>1, StepPublishes
<1> QED BY <1>1, <1>5, <1>6, <1>7, <1>8

(* The agency's lock keeps the room another transaction has found. *)
LEMMA MayKept ==
  ASSUME StoreAssumption, LifecycleAssumption, IInv, IInv', TrailInv, RateInv, NEW x \in Txns, TrailStep(x),
         NEW y \in Txns, MayAlone(y), y # x \/ row' = row,
         arg'[y].tok = arg[y].tok, arg'[y].start = arg[y].start,
         \A a \in Agencies : revokeLock[a] = y => revokeLock'[a] = y
  PROVE  MayAlone(y)'
<1>1. PICK a, start : a = issuer[arg[y].tok] /\ start = arg[y].start
  OBVIOUS
<1>2. a \in Agencies /\ revokeLock[a] = y /\ arg[y].tok \in Tokens
      /\ \A now \in Nat : now >= start => Room(a, Cardinality(Alone(a, now)) + 1)
  BY <1>1 DEF MayAlone, StoreAssumption
<1>3. ASSUME NEW now \in Nat, now >= start PROVE Room(a, Cardinality(Alone(a, now)) + 1)'
  <2>1. Alone(a, now)' \subseteq Alone(a, now)
    <3>1. CASE row' = row
      BY <3>1 DEF Alone, Revocations
    <3>2. CASE y # x
      <4>1. ~Publishes(x, a, now)
        BY <1>2, <3>2 DEF Publishes, MayAlone
      <4> QED BY <1>2, <4>1, StepPublishes
    <3> QED BY <3>1, <3>2
  <2> QED BY <1>2, <1>3, <2>1, RoomKept
<1>4. issuer[arg'[y].tok] = a /\ arg'[y].start = start /\ arg'[y].tok \in Tokens /\ revokeLock'[a] = y
  BY <1>1, <1>2
<1> QED BY <1>3, <1>4 DEF MayAlone

(* Only UC-8 in its UPDATE logs a revocation by the agency alone. *)
LEMMA DraftsKept ==
  ASSUME StoreAssumption, LifecycleAssumption, IInv, IInv', TrailInv, RateInv, NEW x \in Txns, TrailStep(x),
         pc[x] \in {"commit", "uc8_update"} => CommitRows(x) \/ RollbackRows(x),
         \A y \in Txns \ {x} : pc'[y] = pc[y] /\ arg'[y] = arg[y],
         \A a \in Agencies : \A y \in Txns \ {x} : revokeLock[a] = y => revokeLock'[a] = y,
         NEW t \in Tokens
  PROVE  Silent(row'[t], draft'[t]) \/ \E y \in Txns : Revoking(y, t)'
<1>1. CASE owner[t] \in Txns \ {x}
  <2>1. row'[t] = row[t] /\ draft'[t] = draft[t] /\ owner'[t] = owner[t]
    BY <1>1, OthersRows
  <2>2. CASE Silent(row[t], draft[t])
    BY <2>1, <2>2
  <2>3. CASE ~Silent(row[t], draft[t])
    <3>1. PICK y \in Txns : Revoking(y, t)
      BY <2>3 DEF RateInv
    <3>2. y # x /\ pc'[y] = pc[y] /\ arg'[y] = arg[y] /\ owner'[t] = y
      BY <1>1, <2>1, <3>1 DEF Revoking
    <3>3. MayAlone(y)'
      <4>1. MayAlone(y) /\ arg'[y].tok = arg[y].tok /\ arg'[y].start = arg[y].start
        BY <3>1, <3>2 DEF Revoking
      <4>2. \A a \in Agencies : revokeLock[a] = y => revokeLock'[a] = y
        BY <3>2
      <4> QED BY <3>2, <4>1, <4>2, MayKept
    <3> QED BY <2>1, <3>1, <3>2, <3>3 DEF Revoking
  <2> QED BY <2>2, <2>3
<1>2. CASE owner[t] \in {x, NoTxn}
  <2>1. owner[t] = NoTxn => draft[t] = row[t]
    BY DEF IInv, Versions
  <2>2. CASE CommitRows(x) \/ RollbackRows(x)
    <3>1. row'[t] = draft'[t]
      BY <1>2, <2>1, <2>2 DEF CommitRows, RollbackRows
    <3> QED BY <3>1, SameRow
  <2>3. CASE ~CommitRows(x) /\ ~RollbackRows(x)
    <3>1. Silent(row[t], draft[t])
      <4>1. pc[x] # "commit"
        BY <2>3
      <4> QED BY <1>2, <2>1, <4>1, SameRow DEF RateInv, Revoking
    <3>2. CASE UNCHANGED <<row, draft, owner>>
      BY <3>1, <3>2
    <3>3. ASSUME NEW S, NEW version, SoundWrite(x, S, version) PROVE Silent(row'[t], draft'[t])
      <4>1. row'[t] = row[t] /\ draft'[t] = IF t \in S THEN version[t] ELSE draft[t]
        BY <3>3 DEF SoundWrite, Write
      <4>2. t \in S => Silent(draft[t], version[t])
        BY <2>3, <3>3 DEF SoundWrite, RowChange
      <4> QED BY <3>1, <4>1, <4>2, SilentTwice
    <3> QED BY <2>3, <3>2, <3>3 DEF TrailStep
  <2> QED BY <2>2, <2>3
<1> QED BY <1>1, <1>2 DEF IInv, TypeOK

(* UC-8's UPDATE logs one event, and only when the check has found room for it. *)
LEMMA RevokedRow ==
  ASSUME NEW r \in TokenRow, NEW reason, NEW now,
         SetStatus(r, "REVOKED", reason, now) \in TokenRow
  PROVE  LET new == Published(SetStatus(r, "REVOKED", reason, now)) IN
         /\ reason # "UC8" => Silent(r, new)
         /\ LogsOne(r, new, Len(r.events) + 1, now)
<1> DEFINE e == [type |-> EventFor("REVOKED"), reason |-> reason, at |-> now]
           set == SetStatus(r, "REVOKED", reason, now)
           new == Published(set)
<1>1. reason # "UC8" => Silent(r, new)
  BY SetStatusQuiet, PublishedQuiet
<1>2. new.events = set.events /\ r.events \in Seq(Event) /\ set.events = Audited(r, "REVOKED", reason, now)
  BY DEF Published, SetStatus, TokenRow
<1>3. set.events = r.events \/ set.events = Append(r.events, e)
  BY <1>2 DEF Audited
<1>4. /\ DOMAIN r.events = 1..Len(r.events) /\ Len(r.events) \in Nat
      /\ DOMAIN Append(r.events, e) = 1..(Len(r.events) + 1)
      /\ Append(r.events, e)[Len(r.events) + 1] = e
      /\ \A k \in 1..Len(r.events) : Append(r.events, e)[k] = r.events[k]
  <2>1. \A ev : Len(Append(r.events, ev)) = Len(r.events) + 1 /\ Append(r.events, ev)[Len(r.events) + 1] = ev
    BY <1>2
  <2> HIDE DEF e
  <2> QED BY <1>2, <2>1
<1>5. e.at = now
  OBVIOUS
<1> HIDE DEF e, set, new
<1>6. LogsOne(r, new, Len(r.events) + 1, now)
  <2>1. CASE set.events = r.events
    BY <1>2, <1>4, <2>1 DEF LogsOne
  <2>2. CASE set.events = Append(r.events, e)
    BY <1>2, <1>4, <1>5, <2>2 DEF LogsOne
  <2> QED BY <1>3, <2>1, <2>2
<1> QED BY <1>1, <1>6 DEF new, set

(* uc8_revoke_token writes the row. *)
LEMMA UC8Revokes ==
  ASSUME StoreAssumption, LifecycleAssumption, IInv, IInv', TrailInv, RateInv, NEW x \in Txns, TrailStep(x),
         UC8Update(x), ~Rollback(x), NEW t \in Tokens
  PROVE  Silent(row'[t], draft'[t]) \/ \E y \in Txns : Revoking(y, t)'
<1>1. PICK tok, reason, now : tok = arg[x].tok /\ reason = arg[x].reason /\ now = arg[x].start
  OBVIOUS
<1>2. /\ pc[x] = "uc8_update" /\ RowFree(x, tok)
      /\ StateMachineAdmits(tok, draft[tok].status, "REVOKED", now)
      /\ Write(x, {tok}, [u \in {tok} |-> Published(SetStatus(draft[tok], "REVOKED", reason, now))])
      /\ pc' = [pc EXCEPT ![x] = "commit"] /\ arg' = [arg EXCEPT ![x].batch = {}]
      /\ row' = row /\ revokeLock' = revokeLock
  BY <1>1 DEF UC8Update, VoidRow, advisoryLocks
<1>3. /\ pc'[x] = "commit" /\ arg'[x].tok = tok /\ arg'[x].reason = reason /\ arg'[x].start = now
      /\ now \in Nat /\ reason \in Reason
      /\ \A y \in Txns \ {x} : pc'[y] = pc[y] /\ arg'[y] = arg[y]
  <2>1. arg \in [Txns -> Arg] /\ arg[x] \in Arg /\ pc \in [Txns -> PCs]
    BY DEF IInv, TypeOK
  <2> QED BY <1>1, <1>2, <2>1 DEF Arg
<1>4. tok \in Tokens /\ \A u \in Tokens : owner[u] # x
  BY <1>1, <1>2 DEF RateInv, AtUC8, TrailInv, WritesAgain, Reading
<1>5. CASE t # tok
  <2>1. row'[t] = row[t] /\ draft'[t] = draft[t] /\ owner'[t] = owner[t]
    BY <1>2, <1>5 DEF Write
  <2>2. CASE Silent(row[t], draft[t])
    BY <2>1, <2>2
  <2>3. CASE ~Silent(row[t], draft[t])
    <3>1. PICK y \in Txns : Revoking(y, t)
      BY <2>3 DEF RateInv
    <3>2. y # x /\ pc'[y] = pc[y] /\ arg'[y] = arg[y] /\ owner'[t] = y
      BY <1>3, <1>4, <2>1, <3>1 DEF Revoking
    <3>3. MayAlone(y)'
      BY <1>2, <3>1, <3>2, MayKept DEF Revoking
    <3> QED BY <2>1, <3>1, <3>2, <3>3 DEF Revoking
  <2> QED BY <2>2, <2>3
<1>6. CASE t = tok
  <2> DEFINE new == Published(SetStatus(draft[tok], "REVOKED", reason, now))
  <2>1. draft[tok] = row[tok] /\ row[tok] \in TokenRow
    BY <1>2, <1>4, FreeRow
  <2>2. SetStatus(row[tok], "REVOKED", reason, now) \in TokenRow
    BY <1>3, <2>1, SetStatusType, LoggedStatuses
  <2>3. (reason # "UC8" => Silent(row[tok], new)) /\ LogsOne(row[tok], new, Len(row[tok].events) + 1, now)
    BY <2>1, <2>2, RevokedRow
  <2>4. draft'[tok] = new /\ owner'[tok] = x
    BY <1>2, <1>4 DEF Write
  <2> HIDE DEF new
  <2>5. CASE reason # "UC8"
    BY <1>2, <1>6, <2>3, <2>4, <2>5
  <2>6. CASE reason = "UC8"
    <3>1. MayAlone(x)
      BY <1>1, <1>2, <2>6 DEF RateInv, AtUC8
    <3>2. MayAlone(x)'
      BY <1>1, <1>2, <1>3, <3>1, MayKept
    <3>3. Revoking(x, tok)'
      BY <1>2, <1>3, <2>3, <2>4, <2>6, <3>2 DEF Revoking
    <3> QED BY <1>6, <3>3
  <2> QED BY <2>5, <2>6
<1> QED BY <1>5, <1>6

UC8Labels == {"uc8_lock", "uc8_check", "uc8_update"}

(* No step takes the agency's lock away from another transaction. *)
LEMMA AgencyLocks ==
  ASSUME StoreAssumption, IInv, NEW x \in Txns, Call(x) \/ Step(x) \/ Crash(x) \/ DeadlockVictim(x)
  PROVE  \A a \in Agencies : \A y \in Txns \ {x} : revokeLock[a] = y => revokeLock'[a] = y
<1>1. CASE Rollback(x) \/ Commit(x) \/ End(x)
  BY <1>1 DEF Rollback, Commit, End
<1>2. CASE UC8Lock(x)
  BY <1>2 DEF UC8Lock, StoreAssumption, IInv, TypeOK
<1>3. CASE revokeLock' = revokeLock
  BY <1>3
<1>4. Call(x) => revokeLock' = revokeLock
  BY DEF Call, UC1, BulkInsert, Transition, UC4, UC8, UC9Initiate, UC9Complete, advisoryLocks
<1>5. Step(x) => Rollback(x) \/ Commit(x) \/ End(x) \/ UC8Lock(x) \/ revokeLock' = revokeLock
  BY DEF Step, BulkActivate, TransitionUpdate, TransitionActivate, UC4LockHolder, UC4LockLost, UC4LockReserve, Relock,
         UC4Swap, UC8Check, UC8Update, UC9InsertRequest, UC9Lock, UC9Request, UC9Void, UC9Insert, UC9Issue,
         ActivateRow, VoidRow, advisoryLocks
<1> QED BY <1>1, <1>2, <1>3, <1>4, <1>5 DEF Crash, DeadlockVictim

(* uc8_revoke_token is called: without a co-signer its reason says so. *)
LEMMA CallUC8 ==
  ASSUME StoreAssumption, LifecycleAssumption, IInv, NEW x \in Txns, Call(x)
  PROVE  AtUC8(x)'
<1>1. ASSUME NEW t \in Tokens, NEW cosigner \in Cosigners, UC8(x, t, cosigner) PROVE AtUC8(x)'
  <2> DEFINE a == [NoArg EXCEPT !.tok = t, !.cosigner = cosigner,
                                !.reason = IF cosigner = "none" THEN "UC8" ELSE "UC8_COSIGN"]
  <2>1. Begin(x, "uc8_lock", a)
    BY <1>1 DEF UC8
  <2>2. a \in Arg /\ a.tok = t /\ (a.reason = "UC8" => a.cosigner = "none")
    BY NoArgType DEF Arg, Reason, LifecycleAssumption
  <2> HIDE DEF a
  <2>3. pc'[x] = "uc8_lock" /\ arg'[x] = [a EXCEPT !.start = clock]
    BY <2>1 DEF Begin, IInv, TypeOK
  <2>4. arg'[x].tok = t /\ arg'[x].reason = a.reason /\ arg'[x].cosigner = a.cosigner
    BY <2>2, <2>3 DEF Arg
  <2> QED BY <2>2, <2>3, <2>4 DEF AtUC8
<1>2. CASE pc'[x] \notin UC8Labels
  BY <1>2 DEF AtUC8, UC8Labels
<1>3. pc'[x] \notin UC8Labels \/ \E t \in Tokens, cosigner \in Cosigners : UC8(x, t, cosigner)
  BY DEF Call, UC1, BulkInsert, Transition, UC4, UC9Initiate, UC9Complete, Begin, UC8Labels, IInv, TypeOK
<1> QED BY <1>1, <1>2, <1>3

(* The check that lets a lone revocation through has counted it: later windows hold
   no more of the events there are now. *)
LEMMA CheckFindsRoom ==
  ASSUME StoreAssumption, LifecycleAssumption, IInv, NEW a \in Agencies, NEW start \in Nat,
         ~OverBound(a, start), NEW now \in Nat, now >= start
  PROVE  Room(a, Cardinality(Alone(a, now)) + 1)
<1> DEFINE recent == {e \in Revocations(a) : row[e[1]].events[e[2]].at + Window > start}
<1>1. Alone(a, now) \subseteq recent
  <2> SUFFICES ASSUME NEW e \in Alone(a, now) PROVE e \in recent
    OBVIOUS
  <2>1. e \in Revocations(a) /\ row[e[1]].events[e[2]].at + Window > now
    BY DEF Alone
  <2>2. e[1] \in Tokens /\ e[2] \in DOMAIN row[e[1]].events
    BY <2>1 DEF Revocations
  <2>3. row[e[1]].events \in Seq(Event)
    BY <2>2 DEF IInv, TypeOK, TokenRow
  <2>4. row[e[1]].events[e[2]] \in Event
    BY <2>2, <2>3
  <2>5. row[e[1]].events[e[2]].at \in Nat
    BY <2>4 DEF Event
  <2> QED BY <2>1, <2>5 DEF LifecycleAssumption
<1>2. IsFiniteSet(recent)
  <2>1. recent \in SUBSET Revocations(a)
    OBVIOUS
  <2> HIDE DEF recent
  <2> QED BY <2>1, RevocationsFinite, FS_Subset DEF IInv
<1>3. ~((Cardinality(recent) + 1) * 100 > MaxPercent * Outstanding(a))
  BY DEF OverBound, RecentRevokes
<1> HIDE DEF recent
<1>4. IsFiniteSet(Alone(a, now)) /\ Cardinality(Alone(a, now)) <= Cardinality(recent)
  BY <1>1, <1>2, FS_Subset
<1>5. Cardinality(Alone(a, now)) \in Nat /\ Cardinality(recent) \in Nat
  BY <1>2, <1>4, FS_CardinalityType
<1>6. PICK i, j, m : i = Cardinality(Alone(a, now)) + 1 /\ j = Cardinality(recent) + 1 /\ m = Outstanding(a)
  OBVIOUS
<1>7. i \in Nat /\ j \in Nat /\ i <= j
  BY <1>4, <1>5, <1>6
<1>8. m \in Nat /\ MaxPercent \in Nat
  BY <1>6, RateCounts DEF IInv, LifecycleAssumption
<1>9. j * 100 <= MaxPercent * m
  <2>1. j * 100 \in Nat /\ MaxPercent * m \in Nat
    BY <1>7, <1>8
  <2> QED BY <1>3, <1>6, <2>1
<1>10. i * 100 <= MaxPercent * m
  BY <1>7, <1>8, <1>9, RoomArith
<1> QED BY <1>6, <1>10 DEF Room

(* UC-8 takes its agency's lock when it is free, and checks under it. *)
LEMMA StatementUC8 ==
  ASSUME StoreAssumption, LifecycleAssumption, IInv, IInv', RateInv, NEW x \in Txns,
         Step(x), ~Rollback(x), ~Commit(x)
  PROVE  AtUC8(x)'
<1>1. PICK t, a, start : t = arg[x].tok /\ a = issuer[t] /\ start = arg[x].start
  OBVIOUS
<1>2. CASE UC8Lock(x)
  <2>1. /\ pc[x] = "uc8_lock" /\ pc'[x] = "uc8_check" /\ arg' = arg
        /\ revokeLock' = [revokeLock EXCEPT ![a] = x]
    BY <1>1, <1>2 DEF UC8Lock, Goto, IInv, TypeOK
  <2>2. t \in Tokens /\ (arg[x].reason = "UC8" => arg[x].cosigner = "none")
    BY <1>1, <2>1 DEF RateInv, AtUC8
  <2>3. a \in Agencies /\ revokeLock \in [Agencies -> Txns \cup {NoTxn}]
    BY <1>1, <2>2 DEF StoreAssumption, IInv, TypeOK
  <2>4. revokeLock'[a] = x
    BY <2>1, <2>3
  <2> QED BY <1>1, <2>1, <2>2, <2>4 DEF AtUC8
<1>3. CASE UC8Check(x)
  <2>1. /\ pc[x] = "uc8_check" /\ pc'[x] = "uc8_update" /\ arg' = arg /\ row' = row
        /\ revokeLock' = revokeLock /\ UC8Admits(x)
    BY <1>3 DEF UC8Check, Goto, storeVars, advisoryLocks, IInv, TypeOK
  <2>2. t \in Tokens /\ (arg[x].reason = "UC8" => arg[x].cosigner = "none") /\ revokeLock[a] = x
    BY <1>1, <2>1 DEF RateInv, AtUC8
  <2>3. a \in Agencies /\ start \in Nat
    BY <1>1, <2>2 DEF StoreAssumption, IInv, TypeOK, Arg
  <2>4. arg[x].reason = "UC8" => ~OverBound(a, start)
    BY <1>1, <2>1, <2>2 DEF UC8Admits
  <2>5. arg[x].reason = "UC8" => \A now \in Nat : now >= start => Room(a, Cardinality(Alone(a, now)) + 1)
    BY <2>3, <2>4, CheckFindsRoom
  <2>6. arg[x].reason = "UC8" => MayAlone(x)
    BY <1>1, <2>2, <2>5 DEF MayAlone
  <2>7. arg[x].reason = "UC8" => MayAlone(x)'
    BY <2>1, <2>6 DEF MayAlone, Room, Alone, Revocations, Outstanding
  <2> QED BY <1>1, <2>1, <2>2, <2>7 DEF AtUC8
<1>4. CASE ~UC8Lock(x) /\ ~UC8Check(x)
  <2>1. \/ BulkActivate(x) \/ TransitionUpdate(x) \/ TransitionActivate(x)
        \/ UC4LockHolder(x) \/ UC4LockLost(x) \/ UC4LockReserve(x) \/ UC4Swap(x)
        \/ UC8Update(x) \/ UC9InsertRequest(x) \/ UC9Lock(x) \/ UC9Request(x)
        \/ (\E u \in Tokens : UC9Void(x, u)) \/ UC9Insert(x) \/ UC9Issue(x)
    BY <1>4 DEF Step
  <2>2. pc'[x] \notin UC8Labels
    BY <2>1 DEF BulkActivate, TransitionUpdate, TransitionActivate, UC4LockHolder, UC4LockLost, UC4LockReserve,
                UC4Swap, Relock, UC8Update, UC9InsertRequest, UC9Lock, UC9Request, UC9Void, UC9Insert, UC9Issue,
                ActivateRow, VoidRow, Goto, End, UC8Labels, IInv, TypeOK
  <2> QED BY <2>2 DEF AtUC8, UC8Labels
<1> QED BY <1>2, <1>3, <1>4

(* The policy holds after every step of x. *)
LEMMA TransactionRate ==
  ASSUME StoreAssumption, LifecycleAssumption, IInv, IInv', TrailInv, RateInv, NEW x \in Txns,
         Call(x) \/ Step(x) \/ Crash(x) \/ DeadlockVictim(x)
  PROVE  RateInv'
<1>1. TrailStep(x)
  BY TransactionKeeps DEF Keeps
<1>2. \A a \in Agencies : \A y \in Txns \ {x} : revokeLock[a] = y => revokeLock'[a] = y
  BY AgencyLocks
<1>3. \A y \in Txns \ {x} : pc'[y] = pc[y] /\ arg'[y] = arg[y]
  BY OthersWait
<1>4. \A a \in Agencies, now \in Nat : Room(a, Cardinality(Alone(a, now)))'
  BY <1>1, RoomKept
<1>5. AtUC8(x)'
  <2>1. CASE Rollback(x) \/ Commit(x)
    <3>1. pc'[x] = "idle"
      BY <2>1 DEF Rollback, Commit, End, IInv, TypeOK
    <3> QED BY <3>1 DEF AtUC8
  <2>2. CASE ~Rollback(x) /\ ~Commit(x)
    BY <2>2, CallUC8, StatementUC8 DEF Crash, DeadlockVictim
  <2> QED BY <2>1, <2>2
<1>6. ASSUME NEW y \in Txns, y # x PROVE AtUC8(y)'
  <2>1. AtUC8(y) /\ pc'[y] = pc[y] /\ arg'[y] = arg[y] /\ \A a \in Agencies : revokeLock[a] = y => revokeLock'[a] = y
    BY <1>2, <1>3, <1>6 DEF RateInv
  <2>2. MayAlone(y) => MayAlone(y)'
    BY <1>1, <1>6, <2>1, MayKept
  <2> QED BY <2>1, <2>2 DEF AtUC8, StoreAssumption
<1>7. ASSUME NEW t \in Tokens PROVE Silent(row'[t], draft'[t]) \/ \E y \in Txns : Revoking(y, t)'
  <2>1. CASE pc[x] \in {"commit", "uc8_update"} => CommitRows(x) \/ RollbackRows(x)
    BY <1>1, <1>2, <1>3, <2>1, DraftsKept
  <2>2. CASE pc[x] \in {"commit", "uc8_update"} /\ ~CommitRows(x) /\ ~RollbackRows(x)
    <3>1. UC8Update(x) /\ ~Rollback(x)
      BY <2>2 DEF Call, Step, UC1, BulkInsert, Transition, UC4, UC8, UC9Initiate, UC9Complete, Begin, Crash,
           DeadlockVictim, Rollback, Commit, BulkActivate, TransitionUpdate, TransitionActivate, UC4LockHolder,
           UC4LockLost, UC4LockReserve, UC4Swap, UC8Lock, UC8Check, UC9InsertRequest, UC9Lock, UC9Request,
           UC9Void, UC9Insert, UC9Issue
    <3> QED BY <1>1, <3>1, UC8Revokes
  <2> QED BY <2>1, <2>2
<1> QED BY <1>4, <1>5, <1>6, <1>7 DEF RateInv

(* The policy holds of the loaded database. *)
LEMMA RateInit ==
  ASSUME StoreAssumption, LifecycleAssumption, Init
  PROVE  RateInv
<1>1. ASSUME NEW t \in Tokens PROVE \A k \in DOMAIN row[t].events : row[t].events[k].reason # "UC8"
  <2>1. /\ Issued(NoRow, 0) \in TokenRow /\ Silent(NoRow, Issued(NoRow, 0))
        /\ Silent(Issued(NoRow, 0), SetStatus(Issued(NoRow, 0), "ACTIVE", "ISSUE", 0))
    BY IssuedType, IssuedQuiet, SetStatusQuiet
  <2>2. Silent(NoRow, SeedRow(seed[t]))
    BY <2>1, SameRow, SilentTwice DEF SeedRow
  <2>3. DOMAIN NoRow.events = {}
    BY DEF NoRow
  <2>4. row[t] = SeedRow(seed[t])
    BY DEF Init
  <2> QED BY <2>2, <2>3, <2>4 DEF Silent
<1>2. ASSUME NEW a \in Agencies, NEW now \in Nat PROVE Room(a, Cardinality(Alone(a, now)))
  <2>1. Alone(a, now) = {}
    BY <1>1 DEF Alone, Revocations
  <2>2. Cardinality(Alone(a, now)) = 0
    BY <2>1, FS_EmptySet
  <2>3. PICK m : m = Outstanding(a)
    OBVIOUS
  <2>4. m \in Nat /\ MaxPercent \in Nat
    BY <2>3, InitKeeps, RateCounts DEF IInv, LifecycleAssumption
  <2> QED BY <2>2, <2>3, <2>4 DEF Room
<1>3. \A t \in Tokens : Silent(row[t], draft[t])
  BY SameRow DEF Init
<1>4. \A x \in Txns : AtUC8(x)
  BY DEF Init, AtUC8
<1> QED BY <1>2, <1>3, <1>4 DEF RateInv

(* The policy holds after every step. *)
LEMMA RateNext ==
  ASSUME StoreAssumption, LifecycleAssumption, IInv, IInv', TrailInv, RateInv, [Next]_vars
  PROVE  RateInv'
<1>1. CASE UNCHANGED <<row, draft, owner, pc, arg, revokeLock>>
  <2>1. \A a, now : Alone(a, now)' = Alone(a, now) /\ Outstanding(a)' = Outstanding(a)
    BY <1>1 DEF Alone, Revocations, Outstanding
  <2>2. \A x : MayAlone(x)' <=> MayAlone(x)
    BY <1>1, <2>1 DEF MayAlone, Room
  <2> QED BY <1>1, <2>1, <2>2 DEF RateInv, Room, Revoking, AtUC8
<1>2. ASSUME NEW x \in Txns, Call(x) \/ Step(x) \/ Crash(x) \/ DeadlockVictim(x) PROVE RateInv'
  BY <1>2, TransactionRate
<1> QED BY <1>1, <1>2 DEF Next, Tick, vars, procVars, advisoryLocks

(* However many agents revoke at once, no agency's revocations without a co-signer
   exceed its share in any window: uc8_revoke_token counts and commits under the
   agency's advisory lock. *)
THEOREM RateBounded == Spec => []RevocationRateBounded
<1>1. Init => IInv /\ TrailInv /\ RateInv
  BY StoreAssumption, LifecycleAssumption, InitKeeps, TrailInit, RateInit
<1>2. IInv /\ TrailInv /\ RateInv /\ [Next]_vars => IInv' /\ TrailInv' /\ RateInv'
  BY StoreAssumption, LifecycleAssumption, NextKeeps, TrailNext, RateNext
<1>3. IInv /\ RateInv => RevocationRateBounded
  <2> SUFFICES ASSUME IInv, RateInv, NEW a \in Agencies, NEW now \in 0..clock
               PROVE  Room(a, Cardinality(Alone(a, now)))
    BY DEF RevocationRateBounded, Room, Alone
  <2>1. now \in Nat
    BY LifecycleAssumption DEF IInv, TypeOK, LifecycleAssumption
  <2> QED BY <2>1 DEF RateInv
<1> QED BY <1>1, <1>2, <1>3, PTL DEF Spec

-----------------------------------------------------------------------------
(* The refinement of IdentityRegister *)

Same(t) == draft[t].status = row[t].status

(* The statuses x changes are those of tokens in S. *)
ChangesOnly(x, S) == \A t \in Tokens : owner[t] = x => t \in S \/ Same(t)

Moved(x, t) ==
  ChangesOnly(x, {t}) /\ owner[t] = x /\ <<row[t].status, draft[t].status>> \in LegalMoves

Swapped(x, lost, reserve) ==
  /\ ChangesOnly(x, {lost, reserve}) /\ owner[lost] = x /\ owner[reserve] = x
  /\ SameHolder(lost, reserve) /\ row[lost].status = "ACTIVE" /\ draft[lost].status \in {"LOST", "REVOKED"}
  /\ Drafted(reserve, "RESERVE", "ACTIVE")

(* What x is about to commit when it decides no recovery: one step of the register. *)
Effect(x) ==
  \/ ChangesOnly(x, {})
  \/ \A t \in Tokens : owner[t] = x => Same(t) \/ Drafted(t, "NONE", "ACTIVE")
  \/ \E t \in Tokens : Moved(x, t)
  \/ \E lost, reserve \in Tokens : Swapped(x, lost, reserve)

Deciding == {"uc9_lock", "uc9_request", "uc9_loop", "uc9_issue"}
Recovering(x) == pc[x] \in {"uc9_loop", "uc9_issue"}
Decides(x) == pc[x] = "commit" /\ arg[x].decision # "NONE"
Approves(x) == pc[x] = "commit" /\ arg[x].decision = "APPROVED"

DecisionKnown(x) ==
  /\ pc[x] \notin Deciding \cup {"commit"} => arg[x].decision = "NONE"
  /\ pc[x] \in Deciding => arg[x].decision \in {"APPROVED", "REJECTED"}
  /\ Recovering(x) => arg[x].decision = "APPROVED"
  /\ arg[x].decision # "PENDING"

(* A recovery keeps the person's advisory lock, and so its request pending. *)
RequestHeld(x) ==
  LET i == holder[arg[x].tok] IN
  /\ pc[x] = "uc9_request" \/ Recovering(x) \/ Decides(x) => arg[x].tok \in Tokens /\ recoveryLock[i] = x
  /\ Recovering(x) \/ Decides(x) => request[i] = "PENDING"

(* It has locked and voided the person's reserves, but for those it has still to
   void, and when the index has let its new token in, every live token. *)
TokensVoided(x) ==
  LET new == arg[x].tok IN
  /\ Recovering(x) \/ Approves(x) =>
       \A t \in Tokens : owner[t] = x => t = new \/ (SameHolder(new, t) /\ draft[t].status \in {"LOST", "REVOKED"})
  /\ Recovering(x) =>
       /\ \A t \in arg[x].batch : SameHolder(new, t)
       /\ \A t \in Tokens : SameHolder(new, t) /\ row[t].status = "RESERVE" =>
            owner[t] = x \/ (pc[x] = "uc9_loop" /\ t \in arg[x].batch)
  /\ Approves(x) =>
       /\ owner[new] = x /\ Drafted(new, "NONE", "ACTIVE")
       /\ \A t \in Tokens : SameHolder(new, t) /\ row[t].status \in {"RESERVE", "ACTIVE"} => owner[t] = x

EffectAt(x) ==
  /\ DecisionKnown(x) /\ RequestHeld(x) /\ TokensVoided(x)
  /\ pc[x] = "bulk_activate" => \A t \in Tokens : owner[t] = x => t \in arg[x].batch
  /\ pc[x] = "commit" /\ arg[x].decision = "NONE" => Effect(x)
  /\ pc[x] = "commit" /\ arg[x].decision = "REJECTED" => ChangesOnly(x, {})

(* The inductive invariant of the refinement, next to those above. *)
EffectInv == \A x \in Txns : EffectAt(x)

(* An UPDATE leaves the status it writes, published or not. *)
LEMMA StatusWritten ==
  ASSUME NEW r \in TokenRow, NEW s, NEW reason, NEW now
  PROVE  /\ SetStatus(r, s, reason, now).status = s
         /\ Published(SetStatus(r, s, reason, now)).status = s
BY DEF SetStatus, Published, TokenRow

(* Only a commit is seen from outside, but for the insert of a recovery request. *)
LEMMA SeenOnlyCommits ==
  ASSUME NEW x \in Txns, Call(x) \/ Step(x) \/ Crash(x) \/ DeadlockVictim(x), ~Commit(x)
  PROVE  /\ row' = row
         /\ request' = request \/ \E t : /\ request[holder[t]] # "PENDING"
                                         /\ t = arg[x].tok /\ pc[x] = "uc9_insert_request"
                                         /\ request' = [request EXCEPT ![holder[t]] = "PENDING"]
<1>1. CASE Rollback(x)
  BY <1>1 DEF Rollback, RollbackRows
<1>2. CASE Call(x)
  BY <1>2 DEF Call, UC1, BulkInsert, Transition, UC4, UC8, UC9Initiate, UC9Complete, storeVars
<1>3. CASE Step(x) /\ ~Rollback(x)
  <2>1. \/ BulkActivate(x) \/ TransitionUpdate(x) \/ TransitionActivate(x)
        \/ UC4LockHolder(x) \/ UC4LockLost(x) \/ UC4LockReserve(x) \/ UC4Swap(x)
        \/ UC8Lock(x) \/ UC8Check(x) \/ UC8Update(x) \/ UC9InsertRequest(x) \/ UC9Lock(x) \/ UC9Request(x)
        \/ (\E t \in Tokens : UC9Void(x, t)) \/ UC9Insert(x) \/ UC9Issue(x)
    BY <1>3 DEF Step
  <2>2. row' = row
    BY <1>3, <2>1 DEF BulkActivate, TransitionUpdate, TransitionActivate, UC4LockHolder, UC4LockLost,
           UC4LockReserve, UC4Swap, Relock, UC8Lock, UC8Check, UC8Update, UC9InsertRequest, UC9Lock, UC9Request,
           UC9Void, UC9Insert, UC9Issue, ActivateRow, VoidRow, storeVars
  <2>3. request' = request \/ UC9InsertRequest(x)
    BY <1>3, <2>1 DEF BulkActivate, TransitionUpdate, TransitionActivate, UC4LockHolder, UC4LockLost,
           UC4LockReserve, UC4Swap, Relock, UC8Lock, UC8Check, UC8Update, UC9Lock, UC9Request,
           UC9Void, UC9Insert, UC9Issue, ActivateRow, VoidRow
  <2> QED BY <1>3, <2>2, <2>3 DEF UC9InsertRequest
<1> QED BY <1>1, <1>2, <1>3 DEF Crash, DeadlockVictim

(* No step takes a person's lock away from another transaction. *)
LEMMA PersonLocks ==
  ASSUME StoreAssumption, IInv, NEW x \in Txns, Call(x) \/ Step(x) \/ Crash(x) \/ DeadlockVictim(x)
  PROVE  \A i \in Individuals : \A y \in Txns \ {x} : recoveryLock[i] = y => recoveryLock'[i] = y
<1>1. CASE Rollback(x) \/ Commit(x) \/ End(x)
  BY <1>1 DEF Rollback, Commit, End
<1>2. CASE UC9Lock(x)
  BY <1>2 DEF UC9Lock, StoreAssumption, IInv, TypeOK
<1>3. CASE recoveryLock' = recoveryLock
  BY <1>3
<1>4. Call(x) => recoveryLock' = recoveryLock
  BY DEF Call, UC1, BulkInsert, Transition, UC4, UC8, UC9Initiate, UC9Complete, advisoryLocks
<1>5. Step(x) => Rollback(x) \/ Commit(x) \/ End(x) \/ UC9Lock(x) \/ recoveryLock' = recoveryLock
  BY DEF Step, BulkActivate, TransitionUpdate, TransitionActivate, UC4LockHolder, UC4LockLost, UC4LockReserve, Relock,
         UC4Swap, UC8Lock, UC8Check, UC8Update, UC9InsertRequest, UC9Request, UC9Void, UC9Insert, UC9Issue,
         ActivateRow, VoidRow, advisoryLocks
<1> QED BY <1>1, <1>2, <1>3, <1>4, <1>5 DEF Crash, DeadlockVictim

(* What a commit makes of a row: no new reserve, and a new ACTIVE token was x's draft. *)
LEMMA CommittedRow ==
  ASSUME IInv, EffectInv, NEW x \in Txns, Commit(x), NEW t \in Tokens, row'[t] # row[t]
  PROVE  /\ row'[t] = draft[t] /\ owner[t] = x
         /\ row'[t].status = "RESERVE" => row[t].status = "RESERVE"
<1>1. row'[t] = draft[t] /\ owner[t] = x /\ pc[x] = "commit"
  BY DEF Commit, CommitRows
<1>2. CASE arg[x].decision = "NONE"
  BY <1>1, <1>2 DEF EffectInv, EffectAt, Effect, ChangesOnly, Moved, Swapped, Same, Drafted, LegalMoves
<1>3. CASE arg[x].decision = "REJECTED"
  BY <1>1, <1>3 DEF EffectInv, EffectAt, ChangesOnly, Same
<1>4. CASE arg[x].decision = "APPROVED"
  BY <1>1, <1>4 DEF EffectInv, EffectAt, TokensVoided, Approves, Drafted
<1>5. arg[x].decision \in {"NONE", "REJECTED", "APPROVED"}
  BY DEF EffectInv, EffectAt, DecisionKnown, IInv, TypeOK, Arg, RequestStatus
<1> QED BY <1>1, <1>2, <1>3, <1>4, <1>5

(* A person's pending request waits for the transaction that has the person's lock. *)
LEMMA RequestWaits ==
  ASSUME StoreAssumption, IInv, EffectInv, NEW x \in Txns, NEW y \in Txns \ {x}, NEW i \in Individuals,
         Call(x) \/ Step(x) \/ Crash(x) \/ DeadlockVictim(x), recoveryLock[i] = y, request[i] = "PENDING"
  PROVE  request'[i] = "PENDING"
<1>1. request \in [Individuals -> RequestStatus]
  BY DEF IInv, TypeOK
<1>2. CASE Commit(x)
  <2>1. CASE arg[x].decision = "NONE"
    BY <1>2, <2>1 DEF Commit
  <2>2. CASE arg[x].decision # "NONE"
    <3>1. recoveryLock[holder[arg[x].tok]] = x
      BY <1>2, <2>2 DEF Commit, EffectInv, EffectAt, RequestHeld, Decides
    <3>2. holder[arg[x].tok] # i
      BY <3>1
    <3> QED BY <1>1, <1>2, <2>2, <3>2 DEF Commit
  <2> QED BY <2>1, <2>2
<1>3. CASE ~Commit(x)
  BY <1>1, <1>3, SeenOnlyCommits
<1> QED BY <1>2, <1>3

(* What a waiting transaction is about to commit does not change under a step of x. *)
LEMMA OthersEffect ==
  ASSUME StoreAssumption, LifecycleAssumption, IInv, IInv', TrailInv, EffectInv,
         NEW x \in Txns, NEW y \in Txns, y # x, Call(x) \/ Step(x) \/ Crash(x) \/ DeadlockVictim(x)
  PROVE  EffectAt(y)'
<1>1. pc'[y] = pc[y] /\ arg'[y] = arg[y] /\ EffectAt(y)
  BY OthersWait DEF EffectInv
<1>2. \A t \in Tokens : /\ owner'[t] = y <=> owner[t] = y
                        /\ owner[t] = y => row'[t] = row[t] /\ draft'[t] = draft[t]
  BY OthersRows, TransactionKeeps DEF Keeps
<1>3. DecisionKnown(y)'
  BY <1>1 DEF EffectAt, DecisionKnown, Recovering
<1>4. RequestHeld(y)'
  <2>1. PICK new, i : new = arg[y].tok /\ i = holder[new]
    OBVIOUS
  <2>2. /\ pc[y] = "uc9_request" \/ Recovering(y) \/ Decides(y) => new \in Tokens /\ recoveryLock[i] = y
        /\ Recovering(y) \/ Decides(y) => request[i] = "PENDING"
    BY <1>1, <2>1 DEF EffectAt, RequestHeld
  <2>3. new \in Tokens => i \in Individuals
    BY <2>1 DEF StoreAssumption
  <2>4. new \in Tokens /\ recoveryLock[i] = y => recoveryLock'[i] = y
    BY <2>3, PersonLocks
  <2>5. new \in Tokens /\ recoveryLock[i] = y /\ request[i] = "PENDING" => request'[i] = "PENDING"
    BY <2>3, RequestWaits
  <2>6. (Recovering(y)' <=> Recovering(y)) /\ (Decides(y)' <=> Decides(y)) /\ arg'[y].tok = new
    BY <1>1, <2>1 DEF Recovering, Decides
  <2> QED BY <1>1, <2>1, <2>2, <2>4, <2>5, <2>6 DEF RequestHeld
<1>5. TokensVoided(y)'
  <2>1. PICK new : new = arg[y].tok
    OBVIOUS
  <2>2. (Recovering(y)' <=> Recovering(y)) /\ (Approves(y)' <=> Approves(y)) /\ arg'[y].tok = new
    BY <1>1, <2>1 DEF Recovering, Approves
  <2>3. /\ Recovering(y) \/ Approves(y) =>
             \A t \in Tokens : owner[t] = y => t = new \/ (SameHolder(new, t) /\ draft[t].status \in {"LOST", "REVOKED"})
        /\ Recovering(y) =>
             /\ \A t \in arg[y].batch : SameHolder(new, t)
             /\ \A t \in Tokens : SameHolder(new, t) /\ row[t].status = "RESERVE" =>
                  owner[t] = y \/ (pc[y] = "uc9_loop" /\ t \in arg[y].batch)
        /\ Approves(y) =>
             /\ new \in Tokens /\ owner[new] = y /\ Drafted(new, "NONE", "ACTIVE")
             /\ \A t \in Tokens : SameHolder(new, t) /\ row[t].status \in {"RESERVE", "ACTIVE"} => owner[t] = y
    <3>1. Approves(y) => new \in Tokens
      BY <1>1, <2>1 DEF EffectAt, RequestHeld, Approves, Decides
    <3> QED BY <1>1, <2>1, <3>1 DEF EffectAt, TokensVoided
  <2>4. \A t \in Tokens : row'[t].status = "RESERVE" => row[t].status = "RESERVE"
    <3>1. CASE Commit(x)
      BY <3>1, CommittedRow
    <3>2. CASE ~Commit(x)
      BY <3>2, SeenOnlyCommits
    <3> QED BY <3>1, <3>2
  <2>5. ASSUME Approves(y), NEW t \in Tokens, SameHolder(new, t), row'[t].status = "ACTIVE"
        PROVE  owner[t] = y
    <3>1. CASE row'[t] = row[t]
      BY <2>3, <2>5, <3>1
    <3>2. CASE row'[t] # row[t]
      <4>1. row'[t] = draft[t] /\ owner[t] = x
        BY <3>2, CommittedRow, SeenOnlyCommits
      <4>2. new \in Tokens /\ owner[new] = y /\ draft[new].status = "ACTIVE" /\ draft[t].status = "ACTIVE"
        BY <2>3, <2>5, <4>1 DEF Drafted
      <4>3. new = t
        BY <2>5, <4>2 DEF IInv, ActiveVersions
      <4> QED BY <4>1, <4>2, <4>3
    <3> QED BY <3>1, <3>2
  <2>6. Recovering(y) => \A t \in Tokens : SameHolder(new, t) /\ row'[t].status = "RESERVE" =>
                           owner'[t] = y \/ (pc[y] = "uc9_loop" /\ t \in arg[y].batch)
    BY <1>2, <2>3, <2>4
  <2>7. Approves(y) => /\ owner'[new] = y /\ row'[new].status = "NONE" /\ draft'[new].status = "ACTIVE"
                       /\ \A t \in Tokens : SameHolder(new, t) /\ row'[t].status \in {"RESERVE", "ACTIVE"} => owner'[t] = y
    BY <1>2, <2>3, <2>4, <2>5 DEF Drafted
  <2>8. Recovering(y) \/ Approves(y) =>
          \A t \in Tokens : owner'[t] = y => t = new \/ (SameHolder(new, t) /\ draft'[t].status \in {"LOST", "REVOKED"})
    BY <1>2, <2>3
  <2>9. Recovering(y) => \A t \in arg[y].batch : SameHolder(new, t)
    BY <2>3
  <2> QED BY <1>1, <2>2, <2>6, <2>7, <2>8, <2>9 DEF TokensVoided, Drafted, SameHolder
<1>6. pc[y] = "bulk_activate" => \A t \in Tokens : owner'[t] = y => t \in arg[y].batch
  BY <1>1, <1>2 DEF EffectAt
<1>7. ChangesOnly(y, {}) => ChangesOnly(y, {})'
  BY <1>2 DEF ChangesOnly, Same
<1>8. Effect(y) => Effect(y)'
  <2>1. \A t \in Tokens : Moved(y, t) => Moved(y, t)'
    BY <1>2 DEF Moved, ChangesOnly, Same
  <2>2. \A t, u \in Tokens : Swapped(y, t, u) => Swapped(y, t, u)'
    BY <1>2 DEF Swapped, ChangesOnly, Same, Drafted, SameHolder
  <2>3. (\A t \in Tokens : owner[t] = y => Same(t) \/ Drafted(t, "NONE", "ACTIVE"))
          => \A t \in Tokens : owner'[t] = y => Same(t)' \/ Drafted(t, "NONE", "ACTIVE")'
    BY <1>2 DEF Same, Drafted
  <2> QED BY <1>7, <2>1, <2>2, <2>3 DEF Effect
<1> QED BY <1>1, <1>3, <1>4, <1>5, <1>6, <1>7, <1>8 DEF EffectAt

(* A transaction that is neither issuing a batch nor deciding, and has not written. *)
LEMMA PlainEffect ==
  ASSUME NEW x \in Txns, pc'[x] \notin Deciding \cup {"commit", "bulk_activate"}, arg'[x].decision = "NONE"
  PROVE  EffectAt(x)'
BY DEF EffectAt, DecisionKnown, RequestHeld, TokensVoided, Recovering, Decides, Approves, Deciding

(* One that is about to commit, and decides nothing. *)
LEMMA CommitEffect ==
  ASSUME NEW x \in Txns, pc'[x] = "commit", arg'[x].decision = "NONE", Effect(x)'
  PROVE  EffectAt(x)'
BY DEF EffectAt, DecisionKnown, RequestHeld, TokensVoided, Recovering, Decides, Approves, Deciding

(* Every call. *)
LEMMA CallEffect ==
  ASSUME StoreAssumption, LifecycleAssumption, IInv, TrailInv, NEW x \in Txns, Call(x)
  PROVE  EffectAt(x)'
<1>1. pc[x] = "idle" /\ \A t \in Tokens : owner[t] # x
  <2>1. pc[x] = "idle"
    BY DEF Call, UC1, BulkInsert, Transition, UC4, UC8, UC9Initiate, UC9Complete, Begin
  <2> QED BY <2>1 DEF TrailInv, WritesAgain, Reading
<1>2. ASSUME NEW label, NEW a \in Arg, Begin(x, label, a)
      PROVE  pc'[x] = label /\ arg'[x].decision = a.decision /\ arg'[x].tok = a.tok /\ arg'[x].batch = a.batch
  <2>1. arg'[x] = [a EXCEPT !.start = clock] /\ pc'[x] = label
    BY <1>2 DEF Begin, IInv, TypeOK
  <2> QED BY <2>1 DEF Arg
<1>3. NoArg \in Arg /\ NoArg.decision = "NONE"
  BY NoArgType DEF NoArg
<1>4. ASSUME NEW t \in Tokens, UC1(x, t) PROVE EffectAt(x)'
  <2> DEFINE new == SetStatus(Issued(NoRow, clock), "ACTIVE", "ISSUE", clock)
  <2>1. Begin(x, "commit", NoArg) /\ Write(x, {t}, [u \in {t} |-> new]) /\ row' = row /\ row[t].status = "NONE"
    BY <1>4 DEF UC1, FreshHolder
  <2>2. new.status = "ACTIVE"
    BY IssuedType, StatusWritten DEF IInv, TypeOK, LifecycleAssumption
  <2> HIDE DEF new
  <2>3. \A u \in Tokens : owner'[u] = x => row'[u].status = "NONE" /\ draft'[u].status = "ACTIVE"
    BY <1>1, <2>1, <2>2 DEF Write
  <2>4. Effect(x)'
    BY <2>3 DEF Effect, Drafted
  <2> QED BY <1>2, <1>3, <2>1, <2>4, CommitEffect
<1>5. ASSUME NEW S \in SUBSET Tokens, BulkInsert(x, S) PROVE EffectAt(x)'
  <2> DEFINE a == [NoArg EXCEPT !.batch = S]
  <2>1. Begin(x, "bulk_activate", a) /\ \A u \in Tokens : owner'[u] = x => u \in S
    BY <1>1, <1>5 DEF BulkInsert, Write
  <2>2. a \in Arg /\ a.batch = S /\ a.decision = "NONE"
    BY <1>3 DEF Arg
  <2> HIDE DEF a
  <2>3. pc'[x] = "bulk_activate" /\ arg'[x].decision = "NONE" /\ arg'[x].batch = S
    BY <1>2, <2>1, <2>2
  <2> QED BY <2>1, <2>3 DEF EffectAt, DecisionKnown, RequestHeld, TokensVoided, Recovering, Decides, Approves, Deciding
<1>6. ASSUME NEW t \in Tokens, NEW decision \in {"APPROVED", "REJECTED"}, UC9Complete(x, t, decision)
      PROVE  EffectAt(x)'
  <2> DEFINE a == [NoArg EXCEPT !.tok = t, !.decision = decision]
  <2>1. Begin(x, "uc9_lock", a)
    BY <1>6 DEF UC9Complete
  <2>2. a \in Arg /\ a.decision = decision
    BY <1>3 DEF Arg, RequestStatus
  <2> HIDE DEF a
  <2>3. pc'[x] = "uc9_lock" /\ arg'[x].decision = decision
    BY <1>2, <2>1, <2>2
  <2> QED BY <2>3 DEF EffectAt, DecisionKnown, RequestHeld, TokensVoided, Recovering, Decides, Approves, Deciding
<1>7. ASSUME NEW t \in Tokens, NEW s \in Targets, Transition(x, t, s) PROVE EffectAt(x)'
  <2> DEFINE a == [NoArg EXCEPT !.tok = t, !.status = s]
  <2>1. Begin(x, "transition", a)
    BY <1>7 DEF Transition
  <2>2. a \in Arg /\ a.decision = "NONE"
    BY <1>3 DEF Arg, LifecycleAssumption
  <2> HIDE DEF a
  <2> QED BY <1>2, <2>1, <2>2, PlainEffect DEF Deciding
<1>8. ASSUME NEW lost \in Tokens, NEW reserve \in Tokens, NEW reason, UC4(x, lost, reserve, reason)
      PROVE  EffectAt(x)'
  <2> DEFINE a == [NoArg EXCEPT !.tok = lost, !.alt = reserve, !.status = TerminalFor(reason)]
  <2>1. Begin(x, "uc4_holder", a)
    BY <1>8 DEF UC4
  <2>2. a \in Arg /\ a.decision = "NONE"
    BY <1>3 DEF Arg, TerminalFor, Status
  <2> HIDE DEF a
  <2> QED BY <1>2, <2>1, <2>2, PlainEffect DEF Deciding
<1>9. ASSUME NEW t \in Tokens, NEW cosigner \in Cosigners, UC8(x, t, cosigner) PROVE EffectAt(x)'
  <2> DEFINE a == [NoArg EXCEPT !.tok = t, !.cosigner = cosigner,
                                !.reason = IF cosigner = "none" THEN "UC8" ELSE "UC8_COSIGN"]
  <2>1. Begin(x, "uc8_lock", a)
    BY <1>9 DEF UC8
  <2>2. a \in Arg /\ a.decision = "NONE"
    BY <1>3 DEF Arg, Reason, LifecycleAssumption
  <2> HIDE DEF a
  <2> QED BY <1>2, <2>1, <2>2, PlainEffect DEF Deciding
<1>10. ASSUME NEW t \in Tokens, UC9Initiate(x, t) PROVE EffectAt(x)'
  <2> DEFINE a == [NoArg EXCEPT !.tok = t]
  <2>1. Begin(x, "uc9_insert_request", a)
    BY <1>10 DEF UC9Initiate
  <2>2. a \in Arg /\ a.decision = "NONE"
    BY <1>3 DEF Arg
  <2> HIDE DEF a
  <2> QED BY <1>2, <2>1, <2>2, PlainEffect DEF Deciding
<1> QED BY <1>4, <1>5, <1>6, <1>7, <1>8, <1>9, <1>10 DEF Call

(* uc_bulk_issue has activated its batch. *)
LEMMA BulkEffect ==
  ASSUME StoreAssumption, IInv, TrailInv, EffectInv, NEW x \in Txns, BulkActivate(x), ~Rollback(x)
  PROVE  EffectAt(x)'
<1> DEFINE S == arg[x].batch
           f == [t \in S |-> SetStatus(draft[t], "ACTIVE", "ISSUE", arg[x].start)]
<1>1. /\ pc[x] = "bulk_activate" /\ pc'[x] = "commit" /\ arg' = arg /\ row' = row
      /\ Write(x, S, f)
  BY DEF BulkActivate, Goto, IInv, TypeOK
<1>2. arg[x].decision = "NONE" /\ \A t \in Tokens : owner[t] = x => t \in S
  BY <1>1 DEF EffectInv, EffectAt, DecisionKnown, Deciding
<1>3. \A t \in S : row[t].status = "NONE"
  BY <1>1 DEF TrailInv, WritesAgain, Drafted
<1>4. \A t \in S : t \in Tokens => f[t].status = "ACTIVE"
  BY StatusWritten DEF IInv, TypeOK
<1> HIDE DEF S, f
<1>5. \A t \in Tokens : owner'[t] = x => row'[t].status = "NONE" /\ draft'[t].status = "ACTIVE"
  BY <1>1, <1>2, <1>3, <1>4 DEF Write
<1>6. Effect(x)'
  BY <1>5 DEF Effect, Drafted
<1> QED BY <1>1, <1>2, <1>6, CommitEffect

(* One row is changed by a transaction whose other rows are as they were. *)
LEMMA MovedEffect ==
  ASSUME NEW x \in Txns, NEW t \in Tokens, NEW new, Write(x, {t}, [u \in {t} |-> new]), row' = row,
         row[t].status = new.status \/ <<row[t].status, new.status>> \in LegalMoves,
         \A u \in Tokens : owner[u] = x => draft[u] = row[u]
  PROVE  Effect(x)'
<1>1. draft'[t] = new /\ owner'[t] = x
  BY DEF Write
<1>2. \A u \in Tokens : owner'[u] = x => u = t \/ Same(u)'
  BY DEF Write, Same
<1>3. CASE row[t].status = new.status
  BY <1>1, <1>2, <1>3 DEF Effect, ChangesOnly, Same
<1>4. CASE <<row[t].status, new.status>> \in LegalMoves
  BY <1>1, <1>2, <1>4 DEF Effect, Moved, ChangesOnly
<1> QED BY <1>3, <1>4

(* The operator's UPDATE, to a status other than ACTIVE and to ACTIVE. *)
LEMMA TransitionEffect ==
  ASSUME StoreAssumption, IInv, TrailInv, EffectInv, NEW x \in Txns,
         TransitionUpdate(x) \/ TransitionActivate(x), ~Rollback(x)
  PROVE  EffectAt(x)'
<1>1. arg[x].decision = "NONE" /\ arg' = arg
  BY DEF TransitionUpdate, TransitionActivate, ActivateRow, Goto, EffectInv, EffectAt, DecisionKnown, Deciding
<1>2. PICK t, s, now : t = arg[x].tok /\ s = arg[x].status /\ now = arg[x].start
  OBVIOUS
<1>3. CASE TransitionUpdate(x) /\ pc'[x] = "transition_index"
  BY <1>1, <1>3, PlainEffect DEF Deciding
<1>4. CASE TransitionUpdate(x) /\ pc'[x] # "transition_index"
  <2>1. /\ pc[x] = "transition" /\ pc'[x] = "commit" /\ row' = row /\ TransitionAdmits(x) /\ RowFree(x, t)
        /\ Write(x, {t}, [u \in {t} |-> SetStatus(draft[t], s, "TRANSITION", now)])
    BY <1>2, <1>4 DEF TransitionUpdate, Goto, IInv, TypeOK
  <2>2. t \in Tokens /\ \A u \in Tokens : owner[u] # x
    BY <1>2, <2>1 DEF IInv, Owns, OwnsAt, TrailInv, WritesAgain, Reading
  <2>3. draft[t] = row[t] /\ draft[t] \in TokenRow
    BY <2>1, <2>2, FreeRow
  <2>4. draft[t].status = s \/ <<draft[t].status, s>> \in LegalMoves
    BY <1>2, <2>1 DEF TransitionAdmits, StateMachineAdmits
  <2>5. SetStatus(draft[t], s, "TRANSITION", now).status = s
    BY <2>3, StatusWritten
  <2>6. Effect(x)'
    BY <2>1, <2>2, <2>3, <2>4, <2>5, MovedEffect
  <2> QED BY <1>1, <2>1, <2>6, CommitEffect
<1>5. CASE TransitionActivate(x)
  <2>1. /\ pc[x] = "transition_index" /\ pc'[x] = "commit" /\ row' = row
        /\ Write(x, {t}, [u \in {t} |-> SetStatus(draft[t], "ACTIVE", "TRANSITION", now)])
    BY <1>2, <1>5 DEF TransitionActivate, ActivateRow, Goto, IInv, TypeOK
  <2>2. /\ t \in Tokens /\ owner[t] = x /\ draft[t].status = "RESERVE"
        /\ \A u \in Tokens : owner[u] = x => draft[u] = row[u]
    BY <1>2, <2>1 DEF IInv, Owns, OwnsAt, Mine, TrailInv, WritesAgain, Locking
  <2>3. draft[t] = row[t] /\ draft[t] \in TokenRow
    BY <2>2 DEF IInv, TypeOK
  <2>4. SetStatus(draft[t], "ACTIVE", "TRANSITION", now).status = "ACTIVE"
    BY <2>3, StatusWritten
  <2>5. <<row[t].status, "ACTIVE">> \in LegalMoves
    BY <2>2, <2>3 DEF LegalMoves
  <2>6. Effect(x)'
    BY <2>1, <2>2, <2>4, <2>5, MovedEffect
  <2> QED BY <1>1, <2>1, <2>6, CommitEffect
<1> QED BY <1>3, <1>4, <1>5

(* UC-8's revocation and UC-4's swap. *)
LEMMA RevokeEffect ==
  ASSUME StoreAssumption, IInv, TrailInv, ChainInv, RateInv, EffectInv, NEW x \in Txns,
         UC8Update(x) \/ UC4Swap(x), ~Rollback(x)
  PROVE  EffectAt(x)'
<1>1. CASE UC8Update(x)
  <2>1. PICK t, reason, now : t = arg[x].tok /\ reason = arg[x].reason /\ now = arg[x].start
    OBVIOUS
  <2>2. /\ pc[x] = "uc8_update" /\ row' = row /\ RowFree(x, t) /\ pc' = [pc EXCEPT ![x] = "commit"]
        /\ arg' = [arg EXCEPT ![x].batch = {}] /\ StateMachineAdmits(t, draft[t].status, "REVOKED", now)
        /\ Write(x, {t}, [u \in {t} |-> Published(SetStatus(draft[t], "REVOKED", reason, now))])
    BY <1>1, <2>1 DEF UC8Update, VoidRow
  <2>3. arg \in [Txns -> Arg] /\ arg[x] \in Arg /\ pc \in [Txns -> PCs]
    BY DEF IInv, TypeOK
  <2>4. pc'[x] = "commit" /\ arg'[x].decision = arg[x].decision
    BY <2>2, <2>3 DEF Arg
  <2>5. arg[x].decision = "NONE"
    BY <2>2 DEF EffectInv, EffectAt, DecisionKnown, Deciding
  <2>6. t \in Tokens /\ \A u \in Tokens : owner[u] # x
    BY <2>1, <2>2 DEF RateInv, AtUC8, TrailInv, WritesAgain, Reading
  <2>7. draft[t] = row[t] /\ draft[t] \in TokenRow
    BY <2>2, <2>6, FreeRow
  <2>8. draft[t].status = "REVOKED" \/ <<draft[t].status, "REVOKED">> \in LegalMoves
    BY <2>2 DEF StateMachineAdmits
  <2>9. Published(SetStatus(draft[t], "REVOKED", reason, now)).status = "REVOKED"
    BY <2>7, StatusWritten
  <2>10. Effect(x)'
    BY <2>2, <2>6, <2>7, <2>8, <2>9, MovedEffect
  <2> QED BY <2>4, <2>5, <2>10, CommitEffect
<1>2. CASE UC4Swap(x)
  <2>1. PICK lost, reserve : lost = arg[x].tok /\ reserve = arg[x].alt
    OBVIOUS
  <2>2. /\ lost \in Tokens /\ reserve \in Tokens /\ lost # reserve /\ SameHolder(lost, reserve)
        /\ pc[x] = "uc4_swap" /\ pc'[x] = "commit" /\ row' = row
        /\ draft[lost].status = "ACTIVE" /\ draft[reserve].status = "RESERVE"
        /\ draft'[lost].status \in {"LOST", "REVOKED"} /\ draft'[reserve].status = "ACTIVE"
        /\ \A u \in Tokens \ {lost, reserve} : draft'[u] = draft[u] /\ owner'[u] = owner[u]
        /\ owner[lost] = x /\ owner[reserve] = x /\ owner'[lost] = x /\ owner'[reserve] = x
    BY <1>2, <2>1, SwapWrites
  <2>3. arg' = arg
    BY <1>2 DEF UC4Swap, Goto
  <2>4. arg[x].decision = "NONE"
    BY <2>2 DEF EffectInv, EffectAt, DecisionKnown, Deciding
  <2>5. \A u \in Tokens : owner[u] = x => draft[u] = row[u]
    BY <2>2 DEF TrailInv, WritesAgain, Locking
  <2>6. Swapped(x, lost, reserve)'
    <3>1. ChangesOnly(x, {lost, reserve})'
      BY <2>2, <2>5 DEF ChangesOnly, Same
    <3>2. row'[lost].status = "ACTIVE" /\ row'[reserve].status = "RESERVE"
      BY <2>2, <2>5
    <3> QED BY <2>2, <3>1, <3>2 DEF Swapped, Drafted, SameHolder
  <2>7. Effect(x)'
    BY <2>2, <2>6 DEF Effect
  <2> QED BY <2>2, <2>3, <2>4, <2>7, CommitEffect
<1> QED BY <1>1, <1>2

(* uc9_complete_recovery takes the person's lock and opens its query. *)
LEMMA OpeningEffect ==
  ASSUME StoreAssumption, IInv, TrailInv, EffectInv, NEW x \in Txns, UC9Lock(x) \/ UC9Request(x), ~Rollback(x)
  PROVE  EffectAt(x)'
<1>1. PICK new, i, decision : new = arg[x].tok /\ i = holder[new] /\ decision = arg[x].decision
  OBVIOUS
<1>2. /\ pc[x] \in {"uc9_lock", "uc9_request"} /\ new \in Tokens /\ owner[new] = x /\ i \in Individuals
      /\ decision \in {"APPROVED", "REJECTED"} /\ Drafted(new, "NONE", "NONE")
      /\ \A t \in Tokens : owner[t] = x => t = new
  BY <1>1 DEF UC9Lock, UC9Request, IInv, Owns, OwnsAt, Mine, StoreAssumption, EffectInv, EffectAt, DecisionKnown,
              Deciding, TrailInv, WritesAgain
<1>3. CASE UC9Lock(x)
  <2>1. /\ pc'[x] = "uc9_request" /\ arg' = arg /\ recoveryLock' = [recoveryLock EXCEPT ![i] = x]
    BY <1>1, <1>3 DEF UC9Lock, Goto, IInv, TypeOK
  <2>2. recoveryLock'[i] = x
    BY <1>2, <2>1 DEF IInv, TypeOK
  <2> QED BY <1>1, <1>2, <2>1, <2>2
          DEF EffectAt, DecisionKnown, RequestHeld, TokensVoided, Recovering, Decides, Approves, Deciding
<1>4. CASE UC9Request(x)
  <2>1. /\ pc[x] = "uc9_request" /\ UNCHANGED <<row, draft, owner, recoveryLock, request>> /\ request[i] = "PENDING"
        /\ pc' = [pc EXCEPT ![x] = IF decision = "APPROVED" THEN "uc9_loop" ELSE "commit"]
        /\ arg' = [arg EXCEPT ![x].batch = IF decision = "APPROVED" THEN LiveOf(i) ELSE {},
                              ![x].seen = [t \in Tokens |-> row[t].status]]
    BY <1>1, <1>4 DEF UC9Request, storeVars, advisoryLocks
  <2>2. recoveryLock[i] = x
    BY <1>1, <2>1 DEF EffectInv, EffectAt, RequestHeld
  <2>3. arg \in [Txns -> Arg] /\ arg[x] \in Arg /\ pc \in [Txns -> PCs]
    BY DEF IInv, TypeOK
  <2>4. /\ pc'[x] = IF decision = "APPROVED" THEN "uc9_loop" ELSE "commit"
        /\ arg'[x].tok = new /\ arg'[x].decision = decision
        /\ arg'[x].batch = IF decision = "APPROVED" THEN LiveOf(i) ELSE {}
    BY <1>1, <2>1, <2>3 DEF Arg
  <2>5. CASE decision = "APPROVED"
    <3>1. PICK batch : batch = LiveOf(i)
      OBVIOUS
    <3>2. \A t \in batch : SameHolder(new, t)
      BY <1>1, <3>1 DEF LiveOf, SameHolder
    <3>3. \A t \in Tokens : SameHolder(new, t) /\ row[t].status = "RESERVE" => t \in batch
      BY <1>1, <3>1 DEF LiveOf, SameHolder
    <3>4. pc'[x] = "uc9_loop" /\ arg'[x].batch = batch /\ arg'[x].decision = "APPROVED"
      BY <2>4, <2>5, <3>1
    <3>5. DecisionKnown(x)' /\ RequestHeld(x)'
      BY <1>1, <1>2, <2>1, <2>2, <2>4, <3>4 DEF DecisionKnown, RequestHeld, Recovering, Decides, Deciding
    <3>6. TokensVoided(x)'
      BY <1>2, <2>1, <2>4, <3>2, <3>3, <3>4 DEF TokensVoided, Recovering, Approves, SameHolder
    <3> QED BY <3>4, <3>5, <3>6 DEF EffectAt
  <2>6. CASE decision = "REJECTED"
    <3>1. ChangesOnly(x, {})'
      BY <1>2, <2>1 DEF ChangesOnly, Same, Drafted
    <3> QED BY <1>1, <1>2, <2>1, <2>2, <2>4, <2>6, <3>1
            DEF EffectAt, DecisionKnown, RequestHeld, TokensVoided, Recovering, Decides, Approves, Deciding
  <2> QED BY <1>2, <2>5, <2>6
<1> QED BY <1>3, <1>4

(* One round of its loop, which voids one of the person's tokens. *)
LEMMA VoidEffect ==
  ASSUME StoreAssumption, IInv, TrailInv, EffectInv, NEW x \in Txns, NEW t \in Tokens, UC9Void(x, t), ~Rollback(x)
  PROVE  EffectAt(x)'
<1>1. PICK new, i, s, rest, now :
        /\ new = arg[x].tok /\ i = holder[new] /\ s = (IF arg[x].seen[t] = "RESERVE" THEN "REVOKED" ELSE "LOST")
        /\ rest = arg[x].batch \ {t} /\ now = arg[x].start
  OBVIOUS
<1>2. /\ pc[x] = "uc9_loop" /\ t \in arg[x].batch /\ s \in {"LOST", "REVOKED"}
      /\ Write(x, {t}, [u \in {t} |-> Published(SetStatus(draft[t], s, "UC9", now))])
      /\ pc' = [pc EXCEPT ![x] = "uc9_loop"] /\ arg' = [arg EXCEPT ![x].batch = rest]
      /\ UNCHANGED <<row, recoveryLock, request>>
  BY <1>1 DEF UC9Void, VoidRow, advisoryLocks
<1>3. pc'[x] = "uc9_loop" /\ arg'[x].tok = new /\ arg'[x].decision = arg[x].decision /\ arg'[x].batch = rest
  <2>1. arg \in [Txns -> Arg] /\ arg[x] \in Arg /\ pc \in [Txns -> PCs]
    BY DEF IInv, TypeOK
  <2> QED BY <1>1, <1>2, <2>1 DEF Arg
<1>4. /\ arg[x].decision = "APPROVED" /\ new \in Tokens /\ recoveryLock[i] = x /\ request[i] = "PENDING"
      /\ \A u \in arg[x].batch : SameHolder(new, u)
      /\ \A u \in Tokens : owner[u] = x => u = new \/ (SameHolder(new, u) /\ draft[u].status \in {"LOST", "REVOKED"})
      /\ \A u \in Tokens : SameHolder(new, u) /\ row[u].status = "RESERVE" => owner[u] = x \/ u \in arg[x].batch
  BY <1>1, <1>2 DEF EffectInv, EffectAt, DecisionKnown, RequestHeld, TokensVoided, Recovering
<1>5. Published(SetStatus(draft[t], s, "UC9", now)).status = s
  BY StatusWritten DEF IInv, TypeOK
<1>6. draft'[t].status = s /\ owner'[t] = x /\ \A u \in Tokens : u # t => draft'[u] = draft[u] /\ owner'[u] = owner[u]
  BY <1>2, <1>5 DEF Write
<1>7. \A u \in Tokens : owner'[u] = x => u = new \/ (SameHolder(new, u) /\ draft'[u].status \in {"LOST", "REVOKED"})
  BY <1>2, <1>4, <1>6
<1>8. \A u \in Tokens : SameHolder(new, u) /\ row'[u].status = "RESERVE" => owner'[u] = x \/ u \in rest
  BY <1>1, <1>2, <1>4, <1>6
<1>9. \A u \in rest : SameHolder(new, u)
  BY <1>1, <1>4
<1> QED BY <1>1, <1>2, <1>3, <1>4, <1>7, <1>8, <1>9
    DEF EffectAt, DecisionKnown, RequestHeld, TokensVoided, Recovering, Decides, Approves, Deciding, SameHolder

(* It inserts the new token when all are voided. *)
LEMMA InsertEffect ==
  ASSUME StoreAssumption, IInv, TrailInv, EffectInv, NEW x \in Txns, UC9Insert(x)
  PROVE  EffectAt(x)'
<1>1. PICK new, i : new = arg[x].tok /\ i = holder[new]
  OBVIOUS
<1>2. /\ pc[x] = "uc9_loop" /\ pc'[x] = "uc9_issue" /\ arg' = arg /\ arg[x].batch = {}
      /\ Write(x, {new}, [u \in {new} |-> [NoRow EXCEPT !.status = "RESERVE"]])
      /\ UNCHANGED <<row, recoveryLock, request>>
  BY <1>1 DEF UC9Insert, Goto, advisoryLocks, IInv, TypeOK
<1>3. /\ arg[x].decision = "APPROVED" /\ new \in Tokens /\ recoveryLock[i] = x /\ request[i] = "PENDING"
      /\ \A u \in Tokens : owner[u] = x => u = new \/ (SameHolder(new, u) /\ draft[u].status \in {"LOST", "REVOKED"})
      /\ \A u \in Tokens : SameHolder(new, u) /\ row[u].status = "RESERVE" => owner[u] = x
  BY <1>1, <1>2 DEF EffectInv, EffectAt, DecisionKnown, RequestHeld, TokensVoided, Recovering
<1>4. owner'[new] = x /\ \A u \in Tokens : u # new => draft'[u] = draft[u] /\ owner'[u] = owner[u]
  BY <1>2, <1>3 DEF Write
<1>5. \A u \in Tokens : owner'[u] = x => u = new \/ (SameHolder(new, u) /\ draft'[u].status \in {"LOST", "REVOKED"})
  BY <1>3, <1>4
<1>6. \A u \in Tokens : SameHolder(new, u) /\ row'[u].status = "RESERVE" => owner'[u] = x
  BY <1>2, <1>3, <1>4
<1> QED BY <1>1, <1>2, <1>3, <1>5, <1>6
    DEF EffectAt, DecisionKnown, RequestHeld, TokensVoided, Recovering, Decides, Approves, Deciding, SameHolder

(* And activates it: the index has seen no other live token of the person. *)
LEMMA IssueEffect ==
  ASSUME StoreAssumption, IInv, TrailInv, EffectInv, NEW x \in Txns, UC9Issue(x), ~Rollback(x)
  PROVE  EffectAt(x)'
<1>1. PICK new, i, now : new = arg[x].tok /\ i = holder[new] /\ now = arg[x].start
  OBVIOUS
<1>2. /\ pc[x] = "uc9_issue" /\ pc'[x] = "commit" /\ arg' = arg /\ IndexAdmits(x, new)
      /\ Write(x, {new}, [u \in {new} |-> SetStatus(draft[new], "ACTIVE", "UC9", now)])
      /\ UNCHANGED <<row, recoveryLock, request>>
  BY <1>1 DEF UC9Issue, ActivateRow, Goto, advisoryLocks, IInv, TypeOK
<1>3. /\ arg[x].decision = "APPROVED" /\ new \in Tokens /\ recoveryLock[i] = x /\ request[i] = "PENDING"
      /\ \A u \in Tokens : owner[u] = x => u = new \/ (SameHolder(new, u) /\ draft[u].status \in {"LOST", "REVOKED"})
      /\ \A u \in Tokens : SameHolder(new, u) /\ row[u].status = "RESERVE" => owner[u] = x
  BY <1>1, <1>2 DEF EffectInv, EffectAt, DecisionKnown, RequestHeld, TokensVoided, Recovering
<1>4. row[new].status = "NONE" /\ owner[new] = x
  BY <1>1, <1>2 DEF TrailInv, WritesAgain, Drafted, IInv, Owns, OwnsAt, Mine
<1>5. ASSUME NEW u \in Tokens, SameHolder(new, u), row[u].status = "ACTIVE" PROVE owner[u] = x
  <2>1. u # new /\ u \notin IndexEntries(x, new)
    BY <1>2, <1>4, <1>5 DEF IndexAdmits
  <2>2. IF InFlight(x, u) THEN "ACTIVE" \notin {row[u].status, draft[u].status}
                          ELSE Visible(x, u).status # "ACTIVE"
    BY <1>5, <2>1 DEF IndexEntries
  <2>3. ~InFlight(x, u) /\ Visible(x, u).status # "ACTIVE"
    BY <1>5, <2>2
  <2> QED BY <1>5, <2>3 DEF Visible
<1>6. SetStatus(draft[new], "ACTIVE", "UC9", now).status = "ACTIVE"
  BY <1>3, StatusWritten DEF IInv, TypeOK
<1>7. /\ owner'[new] = x /\ draft'[new].status = "ACTIVE"
      /\ \A u \in Tokens : u # new => draft'[u] = draft[u] /\ owner'[u] = owner[u]
  BY <1>2, <1>3, <1>6 DEF Write
<1>8. \A u \in Tokens : owner'[u] = x => u = new \/ (SameHolder(new, u) /\ draft'[u].status \in {"LOST", "REVOKED"})
  BY <1>3, <1>7
<1>9. \A u \in Tokens : SameHolder(new, u) /\ row'[u].status \in {"RESERVE", "ACTIVE"} => owner'[u] = x
  BY <1>2, <1>3, <1>5, <1>7
<1>10. row'[new].status = "NONE"
  BY <1>2, <1>4
<1> QED BY <1>1, <1>2, <1>3, <1>7, <1>8, <1>9, <1>10
    DEF EffectAt, DecisionKnown, RequestHeld, TokensVoided, Recovering, Decides, Approves, Deciding, SameHolder, Drafted

(* Every step of x. *)
LEMMA OwnEffect ==
  ASSUME StoreAssumption, LifecycleAssumption, IInv, TrailInv, ChainInv, RateInv, EffectInv, NEW x \in Txns,
         Call(x) \/ Step(x) \/ Crash(x) \/ DeadlockVictim(x)
  PROVE  EffectAt(x)'
<1>1. CASE Rollback(x) \/ Commit(x) \/ End(x)
  <2>1. End(x)
    BY <1>1 DEF Rollback, Commit
  <2>2. pc'[x] = "idle" /\ arg'[x] = NoArg
    BY <2>1 DEF End, IInv, TypeOK
  <2> QED BY <2>2, PlainEffect DEF NoArg, Deciding
<1>2. CASE Step(x) /\ ~Rollback(x) /\ ~Commit(x) /\ ~End(x)
  <2>1. \/ BulkActivate(x) \/ TransitionUpdate(x) \/ TransitionActivate(x)
        \/ UC4LockHolder(x) \/ UC4LockLost(x) \/ UC4LockReserve(x) \/ UC4Swap(x)
        \/ UC8Lock(x) \/ UC8Check(x) \/ UC8Update(x) \/ UC9InsertRequest(x) \/ UC9Lock(x) \/ UC9Request(x)
        \/ (\E t \in Tokens : UC9Void(x, t)) \/ UC9Insert(x) \/ UC9Issue(x)
    BY <1>2 DEF Step
  <2>2. CASE UC4LockHolder(x) \/ UC4LockLost(x) \/ UC4LockReserve(x) \/ UC8Lock(x) \/ UC8Check(x) \/ UC9InsertRequest(x)
    <3>1. /\ pc[x] \in {"uc4_holder", "uc4_lost", "uc4_reserve", "uc8_lock", "uc8_check"} /\ arg' = arg
          /\ pc'[x] \in {"uc4_lost", "uc4_reserve", "uc4_swap", "uc8_check", "uc8_update"}
      BY <1>2, <2>2 DEF UC4LockHolder, UC4LockLost, UC4LockReserve, Relock, UC8Lock, UC8Check, UC9InsertRequest, Goto,
                        IInv, TypeOK
    <3>2. arg[x].decision = "NONE"
      BY <3>1 DEF EffectInv, EffectAt, DecisionKnown, Deciding
    <3> QED BY <3>1, <3>2, PlainEffect DEF Deciding
  <2> QED BY <1>2, <2>1, <2>2, BulkEffect, TransitionEffect, RevokeEffect, OpeningEffect, VoidEffect, InsertEffect, IssueEffect
<1> QED BY <1>1, <1>2, CallEffect DEF Crash, DeadlockVictim

(* Together they keep the invariant. *)
LEMMA EffectNext ==
  ASSUME StoreAssumption, LifecycleAssumption, IInv, IInv', TrailInv, ChainInv, RateInv, EffectInv, [Next]_vars
  PROVE  EffectInv'
<1>1. CASE UNCHANGED <<row, draft, owner, pc, arg, recoveryLock, request>>
  <2> SUFFICES ASSUME NEW x \in Txns PROVE EffectAt(x)'
    BY DEF EffectInv
  <2>1. EffectAt(x)
    BY DEF EffectInv
  <2>2. DecisionKnown(x)' /\ RequestHeld(x)' /\ TokensVoided(x)'
    BY <1>1, <2>1 DEF EffectAt, DecisionKnown, RequestHeld, TokensVoided, Recovering, Decides, Approves, Drafted
  <2>3. \A S : ChangesOnly(x, S)' <=> ChangesOnly(x, S)
    BY <1>1 DEF ChangesOnly, Same
  <2>4. \A t, u : (Moved(x, t)' <=> Moved(x, t)) /\ (Swapped(x, t, u)' <=> Swapped(x, t, u))
    BY <1>1, <2>3 DEF Moved, Swapped, Drafted
  <2>5. Effect(x)' <=> Effect(x)
    BY <1>1, <2>3, <2>4 DEF Effect, Same, Drafted
  <2> QED BY <1>1, <2>1, <2>2, <2>3, <2>5 DEF EffectAt
<1>2. ASSUME NEW x \in Txns, Call(x) \/ Step(x) \/ Crash(x) \/ DeadlockVictim(x) PROVE EffectInv'
  BY <1>2, OwnEffect, OthersEffect DEF EffectInv
<1> QED BY <1>1, <1>2 DEF Next, Tick, vars, procVars, advisoryLocks

(* Nothing runs when the database is loaded. *)
LEMMA EffectInit ==
  ASSUME Init
  PROVE  EffectInv
<1>1. \A x \in Txns : pc[x] = "idle" /\ arg[x] = NoArg
  BY DEF Init
<1>2. NoArg.decision = "NONE"
  BY DEF NoArg
<1> QED BY <1>1, <1>2 DEF EffectInv, EffectAt, DecisionKnown, RequestHeld, TokensVoided, Recovering, Decides, Approves,
    Deciding

(* The index admits a new ACTIVE version only when the person has no committed ACTIVE
   token, unless the same transaction ends it. *)
LEMMA NoOtherActive ==
  ASSUME IInv, NEW t \in Tokens, NEW u \in Tokens, SameHolder(t, u), t # u,
         draft[t].status = "ACTIVE", row[u].status = "ACTIVE"
  PROVE  owner[u] = owner[t] /\ ~Same(u)
BY DEF IInv, ActiveVersions, Same

(* A commit that decides no recovery is one step of the register. *)
LEMMA EffectMaps ==
  ASSUME StoreAssumption, IInv, EffectInv, NEW x \in Txns, Commit(x), arg[x].decision = "NONE"
  PROVE  Register!Next \/ UNCHANGED Register!vars
<1> DEFINE status == [t \in Tokens |-> row[t].status]
<1>1. request' = request /\ Effect(x)
  BY DEF Commit, EffectInv, EffectAt
<1>2. \A t \in Tokens : row'[t] = IF owner[t] = x THEN draft[t] ELSE row[t]
  BY DEF Commit, CommitRows
<1>3. CASE ChangesOnly(x, {})
  <2>1. \A t \in Tokens : row'[t].status = row[t].status
    BY <1>2, <1>3 DEF ChangesOnly, Same
  <2> QED BY <1>1, <2>1 DEF Register!vars
<1>4. CASE \A t \in Tokens : owner[t] = x => Same(t) \/ Drafted(t, "NONE", "ACTIVE")
  <2>1. PICK S : S = {t \in Tokens : owner[t] = x /\ ~Same(t)}
    OBVIOUS
  <2>2. \A t \in S : t \in Tokens /\ owner[t] = x /\ row[t].status = "NONE" /\ draft[t].status = "ACTIVE"
    BY <1>4, <2>1 DEF Drafted
  <2>3. \A t \in Tokens : row'[t].status = IF t \in S THEN "ACTIVE" ELSE row[t].status
    BY <1>2, <2>1, <2>2 DEF Same
  <2>4. CASE S = {}
    BY <1>1, <2>3, <2>4 DEF Register!vars
  <2>5. CASE S # {}
    <3>1. \A t \in S : \A u \in Tokens : SameHolder(t, u) => row[u].status # "ACTIVE"
      <4> SUFFICES ASSUME NEW t \in S, NEW u \in Tokens, SameHolder(t, u), row[u].status = "ACTIVE" PROVE FALSE
        OBVIOUS
      <4>1. t # u /\ t \in Tokens /\ draft[t].status = "ACTIVE" /\ owner[t] = x
        BY <2>2
      <4>2. owner[u] = x /\ ~Same(u)
        BY <4>1, NoOtherActive
      <4> QED BY <2>1, <2>2, <4>2
    <3>2. \A t, u \in S : SameHolder(t, u) => t = u
      BY <2>2 DEF IInv, ActiveVersions
    <3>3. Register!Issue(S)
      BY <1>1, <2>2, <2>3, <2>5, <3>1, <3>2 DEF Register!Issue, Register!NoActive, Register!Of, SameHolder
    <3>4. S \in SUBSET Tokens
      BY <2>1
    <3> QED BY <3>3, <3>4 DEF Register!Next
  <2> QED BY <2>4, <2>5
<1>5. ASSUME NEW t \in Tokens, Moved(x, t) PROVE Register!Next
  <2>1. /\ owner[t] = x /\ <<row[t].status, draft[t].status>> \in LegalMoves
        /\ \A u \in Tokens : u # t => row'[u].status = row[u].status
        /\ row'[t].status = draft[t].status
    BY <1>2, <1>5 DEF Moved, ChangesOnly, Same
  <2>2. CASE row[t].status = "RESERVE" /\ draft[t].status = "ACTIVE"
    <3>1. \A u \in Tokens : SameHolder(t, u) => row[u].status # "ACTIVE"
      <4> SUFFICES ASSUME NEW u \in Tokens, SameHolder(t, u), row[u].status = "ACTIVE" PROVE FALSE
        OBVIOUS
      <4>1. owner[u] = x /\ ~Same(u) /\ u # t
        BY <2>1, <2>2, NoOtherActive
      <4> QED BY <1>5, <4>1 DEF Moved, ChangesOnly
    <3>2. Register!Activate(t)
      BY <1>1, <2>1, <2>2, <3>1 DEF Register!Activate, Register!NoActive, Register!Of, SameHolder
    <3> QED BY <3>2 DEF Register!Next
  <2>3. CASE row[t].status \in {"RESERVE", "ACTIVE"} /\ draft[t].status = "REVOKED"
    <3>1. Register!Revoke(t)
      BY <1>1, <2>1, <2>3 DEF Register!Revoke
    <3> QED BY <3>1 DEF Register!Next
  <2>4. CASE row[t].status = "ACTIVE" /\ draft[t].status \in {"DORMANT", "LOST", "EXPIRED"}
    <3>1. PICK s \in {"DORMANT", "LOST", "EXPIRED"} : s = draft[t].status
      BY <2>4
    <3>2. Register!Withdraw(t, s)
      BY <1>1, <2>1, <2>4, <3>1 DEF Register!Withdraw
    <3> QED BY <3>2 DEF Register!Next
  <2> QED BY <2>1, <2>2, <2>3, <2>4 DEF LegalMoves
<1>6. ASSUME NEW lost \in Tokens, NEW reserve \in Tokens, Swapped(x, lost, reserve) PROVE Register!Next
  <2>1. /\ row[lost].status = "ACTIVE" /\ row[reserve].status = "RESERVE" /\ SameHolder(lost, reserve)
        /\ row'[lost].status = draft[lost].status /\ row'[reserve].status = "ACTIVE"
        /\ \A u \in Tokens : u \notin {lost, reserve} => row'[u].status = row[u].status
    BY <1>2, <1>6 DEF Swapped, ChangesOnly, Same, Drafted
  <2>2. PICK s \in {"LOST", "REVOKED"} : s = draft[lost].status
    BY <1>6 DEF Swapped
  <2>3. Register!Replace(lost, reserve, s)
    BY <1>1, <2>1, <2>2 DEF Register!Replace, SameHolder
  <2> QED BY <2>3 DEF Register!Next
<1> QED BY <1>1, <1>3, <1>4, <1>5, <1>6 DEF Effect

(* One that does closes the request, and when it approves the recovery voids every
   token the person had as the new one starts. *)
LEMMA DecisionMaps ==
  ASSUME StoreAssumption, IInv, TrailInv, EffectInv, NEW x \in Txns, Commit(x), arg[x].decision # "NONE"
  PROVE  Register!Next
<1>1. PICK new, i, decision : new = arg[x].tok /\ i = holder[new] /\ decision = arg[x].decision
  OBVIOUS
<1>2. \A t \in Tokens : row'[t] = IF owner[t] = x THEN draft[t] ELSE row[t]
  BY DEF Commit, CommitRows
<1>3. /\ pc[x] = "commit" /\ new \in Tokens /\ i \in Individuals /\ request[i] = "PENDING"
      /\ request' = [request EXCEPT ![i] = decision]
  BY <1>1 DEF Commit, EffectInv, EffectAt, RequestHeld, Decides, StoreAssumption
<1>4. CASE decision = "REJECTED"
  <2>1. ChangesOnly(x, {})
    BY <1>1, <1>3, <1>4 DEF EffectInv, EffectAt
  <2>2. \A t \in Tokens : row'[t].status = row[t].status
    BY <1>2, <2>1 DEF ChangesOnly, Same
  <2>3. Register!Reject(i)
    BY <1>3, <1>4, <2>2 DEF Register!Reject
  <2> QED BY <1>3, <2>3 DEF Register!Next
<1>5. CASE decision = "APPROVED"
  <2>1. /\ owner[new] = x /\ row[new].status = "NONE" /\ draft[new].status = "ACTIVE"
        /\ \A t \in Tokens : owner[t] = x => t = new \/ (SameHolder(new, t) /\ draft[t].status \in {"LOST", "REVOKED"})
        /\ \A t \in Tokens : SameHolder(new, t) /\ row[t].status \in {"RESERVE", "ACTIVE"} => owner[t] = x
    <3>1. Approves(x) /\ TokensVoided(x)
      BY <1>1, <1>3, <1>5 DEF EffectInv, EffectAt, Approves
    <3> QED BY <1>1, <3>1 DEF TokensVoided, Drafted
  <2>2. PICK old : old = {t \in Tokens : holder[t] = i /\ row[t].status \in {"RESERVE", "ACTIVE"}}
    OBVIOUS
  <2>3. PICK dead : dead = [t \in old |-> draft[t].status]
    OBVIOUS
  <2>4. \A t \in old : t \in Tokens /\ t # new /\ owner[t] = x /\ draft[t].status \in {"LOST", "REVOKED"}
    BY <1>1, <2>1, <2>2 DEF SameHolder
  <2>5. dead \in [old -> {"LOST", "REVOKED"}]
    BY <2>3, <2>4
  <2>6. ASSUME NEW t \in Tokens
        PROVE  row'[t].status = IF t \in old THEN dead[t] ELSE IF t = new THEN "ACTIVE" ELSE row[t].status
    <3>1. CASE t \in old
      BY <1>2, <2>3, <2>4, <3>1
    <3>2. CASE t = new
      BY <1>2, <2>1, <2>4, <3>2
    <3>3. CASE t \notin old /\ t # new /\ owner[t] = x
      <4>1. row[t].status \notin {"RESERVE", "ACTIVE"} /\ draft[t].status \in {"LOST", "REVOKED"}
        BY <1>1, <2>1, <2>2, <3>3 DEF SameHolder
      <4>2. draft[t].status = row[t].status
        BY <4>1 DEF TrailInv, Moves, LegalMoves
      <4> QED BY <1>2, <3>3, <4>2
    <3>4. CASE t \notin old /\ t # new /\ owner[t] # x
      BY <1>2, <3>4
    <3> QED BY <3>1, <3>2, <3>3, <3>4
  <2>7. Register!Live(i) = old
    BY <2>2 DEF Register!Live, Register!Of
  <2>8. Register!Recover(new)
    BY <1>1, <1>3, <1>5, <2>1, <2>5, <2>6, <2>7 DEF Register!Recover
  <2> QED BY <1>3, <2>8 DEF Register!Next
<1>6. decision \in {"REJECTED", "APPROVED"}
  BY <1>1 DEF EffectInv, EffectAt, DecisionKnown, IInv, TypeOK, Arg, RequestStatus
<1> QED BY <1>4, <1>5, <1>6

(* A request is opened in one step, and the other steps are not seen. *)
LEMMA StepMaps ==
  ASSUME StoreAssumption, LifecycleAssumption, IInv, TrailInv, EffectInv, [Next]_vars
  PROVE  Register!Next \/ UNCHANGED Register!vars
<1>1. CASE UNCHANGED <<row, request>>
  BY <1>1 DEF Register!vars
<1>2. ASSUME NEW x \in Txns, Call(x) \/ Step(x) \/ Crash(x) \/ DeadlockVictim(x), ~Commit(x)
      PROVE  Register!Next \/ UNCHANGED Register!vars
  <2>1. row' = row
    BY <1>2, SeenOnlyCommits
  <2>2. ASSUME NEW t, request[holder[t]] # "PENDING", request' = [request EXCEPT ![holder[t]] = "PENDING"]
        PROVE  Register!Next \/ UNCHANGED <<row, request>>
    <3>1. PICK i : i = holder[t]
      OBVIOUS
    <3>2. CASE i \in Individuals
      <4>1. Register!OpenRecovery(i)
        BY <2>1, <2>2, <3>1 DEF Register!OpenRecovery
      <4> QED BY <3>2, <4>1 DEF Register!Next
    <3>3. CASE i \notin Individuals
      BY <2>1, <2>2, <3>1, <3>3 DEF IInv, TypeOK
    <3> QED BY <3>2, <3>3
  <2> QED BY <1>1, <1>2, <2>1, <2>2, SeenOnlyCommits
<1>3. ASSUME NEW x \in Txns, Commit(x) PROVE Register!Next \/ UNCHANGED Register!vars
  BY <1>3, EffectMaps, DecisionMaps
<1> QED BY <1>1, <1>2, <1>3 DEF Next, Tick, vars, procVars, advisoryLocks

(* Whatever procedures run together, what others see of them is a sequence of whole
   procedures: each takes effect when it commits, or not at all. *)
THEOREM RegisterImplemented == Spec => ImplementsRegister
<1>1. Init => IInv /\ TrailInv /\ ChainInv /\ RateInv /\ EffectInv
  BY StoreAssumption, LifecycleAssumption, InitKeeps, TrailInit, ChainInit, RateInit, EffectInit
<1>2. IInv /\ TrailInv /\ ChainInv /\ RateInv /\ EffectInv /\ [Next]_vars
        => IInv' /\ TrailInv' /\ ChainInv' /\ RateInv' /\ EffectInv'
  BY StoreAssumption, LifecycleAssumption, NextKeeps, TrailNext, ChainNext, RateNext, EffectNext
<1>3. Init => Register!Init
  <2> SUFFICES ASSUME Init PROVE Register!Init
    OBVIOUS
  <2>1. \A t \in Tokens : row[t].status = seed[t]
    <3>1. \A t \in Tokens : row[t] = SeedRow(seed[t])
      BY DEF Init
    <3>2. /\ NoRow.status = "NONE" /\ Issued(NoRow, 0).status = "RESERVE" /\ Issued(NoRow, 0) \in TokenRow
          /\ SetStatus(Issued(NoRow, 0), "ACTIVE", "ISSUE", 0).status = "ACTIVE"
      BY StoreAssumption, IssuedType, StatusWritten, NoRowSound
    <3> QED BY LifecycleAssumption, <3>1, <3>2 DEF SeedRow, LifecycleAssumption
  <2>2. [t \in Tokens |-> row[t].status] = seed
    BY LifecycleAssumption, <2>1 DEF LifecycleAssumption
  <2> QED BY <2>2 DEF Register!Init, Init
<1>4. IInv /\ TrailInv /\ EffectInv /\ [Next]_vars => Register!Next \/ UNCHANGED Register!vars
  BY StoreAssumption, LifecycleAssumption, StepMaps
<1> QED BY <1>1, <1>2, <1>3, <1>4, PTL DEF Spec, ImplementsRegister, Register!Spec
=============================================================================
