------------------------------ MODULE Inbound ------------------------------
(***************************************************************************)
(* Inbound messages of one sender: how an event becomes a claimed          *)
(* provider_messages row, a user and one run of the handler under the user *)
(* lock (bot/bot.go, store/messages.go, store/users.go), delivered by the  *)
(* webhook or the poll loop of cmd/api.                                    *)
(*                                                                         *)
(* An attempt is one call of HandleEvent.  It has one action per statement *)
(* or transaction up to the user lock; what happens under the lock is in   *)
(* Chat.  A message is a number and its content a kind of text or event.   *)
(* Users are numbered in the order of their creation, since a sender whose *)
(* account was deleted becomes a new user.                                 *)
(***************************************************************************)
EXTENDS Naturals, Sequences, FiniteSets

CONSTANTS
  MaxMessages, \* bound on the messages the sender writes
  Settings,    \* conversations to check: what is written, how it arrives, from whom, if
               \* the payload of a repeat may differ, and the bound on crashes, lost answers,
               \* lapsed leases and tombstones, failing statements
  Attempts,    \* calls of HandleEvent that may run at once
  MaxUsers,    \* bound on the users one sender becomes
  Nobody       \* the user lock is free

Messages == 1 .. MaxMessages
Users == 1 .. MaxUsers
NoUser == 0

(* What conversation.Parse makes of a text, as far as the handlers differ.  *)
(* An overflow is an entry whose amount fits in VND, the currency it tries, *)
(* and not in the minor units of the user's own.                            *)
ConsentRelated == {"start", "confirm", "privacy"}
Texts == ConsentRelated \cup {"discard", "edit", "value", "entry", "overflow", "recategory",
                              "delete_recent", "delete_data", "summary", "export", "command"}

(* Events that are no text, and an update that cannot be read. *)
Contents == Texts \cup {"image", "unsupported", "malformed"}

ASSUME InboundBounds ==
  MaxMessages \in Nat \ {0} /\ MaxUsers \in Nat \ {0}
ASSUME InboundSettings ==
  \A s \in Settings :
    /\ s.script \in Seq(Contents) /\ Len(s.script) \in Messages
    /\ s.mode \in {"webhook", "poll"} /\ s.allowed \in BOOLEAN /\ s.altered \in BOOLEAN
    /\ s.mode = "webhook" => \A i \in DOMAIN s.script : s.script[i] # "malformed"
    /\ s.first \in {"none", "active", "suspended"} /\ s.faults \in Nat
ASSUME NobodyIsNoAttempt == Nobody \notin Attempts

VARIABLES
  script, mode, allowed, altered, maxFaults, \* deployment and conversation, never changed
  msg,        \* [Messages -> row of provider_messages]
  acked,      \* [Messages -> BOOLEAN], the provider has seen its 200
  users,      \* [Users -> users.status or "none"]
  identity,   \* user behind the sender, or NoUser
  lock,       \* [Users -> attempt, worker or Nobody]
  at,         \* [Attempts -> step]
  cur,        \* [Attempts -> message in hand]
  redact,     \* [Attempts -> BOOLEAN], opts.Redact
  pm,         \* [Attempts -> id of the claimed row]
  who,        \* [Attempts -> resolved user]
  err,        \* [Attempts -> BOOLEAN], route returned an error
  crashes, lapses, errors, \* faults met so far
  handled,    \* [Messages -> BOOLEAN], some route ran to its end (history)
  consented   \* the sender has consented once (history)

setting == <<script, mode, allowed, altered, maxFaults>>
people == <<users, identity>>
local == <<cur, redact, pm, who, err>>
faults == <<crashes, lapses, errors>>
history == <<handled, consented>>
inboundVars == <<setting, msg, acked, people, lock, at, local, faults, history>>

NoRow == [id |-> 0, status |-> "none", leased |-> FALSE, owner |-> NoUser, raw |-> "none"]
Row(m) == msg[m].status # "none"
FaultAllowed == crashes + lapses + errors < maxFaults
Goto(h, step) == at' = [at EXCEPT ![h] = step]

(* The locals of a call that has returned. *)
Forget(h) ==
  /\ cur' = [cur EXCEPT ![h] = 1]
  /\ redact' = [redact EXCEPT ![h] = FALSE]
  /\ pm' = [pm EXCEPT ![h] = 0]
  /\ who' = [who EXCEPT ![h] = NoUser]
  /\ err' = [err EXCEPT ![h] = FALSE]

InboundInit ==
  /\ \E s \in Settings :
       /\ script = s.script /\ mode = s.mode /\ allowed = s.allowed /\ altered = s.altered
       /\ maxFaults = s.faults
       /\ users = [u \in Users |-> IF u = 1 THEN s.first ELSE "none"]
       /\ identity = IF s.first = "none" THEN NoUser ELSE 1
       /\ consented = (s.first # "none")
  /\ msg = [m \in Messages |-> NoRow]
  /\ acked = [m \in Messages |-> FALSE]
  /\ lock = [u \in Users |-> Nobody]
  /\ at = [h \in Attempts |-> "idle"]
  /\ cur = [h \in Attempts |-> 1]
  /\ redact = [h \in Attempts |-> FALSE]
  /\ pm = [h \in Attempts |-> 0]
  /\ who = [h \in Attempts |-> NoUser]
  /\ err = [h \in Attempts |-> FALSE]
  /\ crashes = 0 /\ lapses = 0 /\ errors = 0
  /\ handled = [m \in Messages |-> FALSE]

-----------------------------------------------------------------------------
(* Delivery.  The provider repeats a webhook call until it is answered with *)
(* 200, in any order and several at once.  The poll loop calls HandleEvent  *)
(* for one update at a time and does not move its offset past a failed one. *)

(* Mutant: the poll loop moves on past an update that failed. *)
DueAnyOrder(m) ==
  /\ m \in DOMAIN script /\ ~acked[m]
  /\ mode = "poll" => \A g \in Attempts : at[g] = "idle"

Due(m) ==
  /\ m \in DOMAIN script /\ ~acked[m]
  /\ mode = "poll" => /\ \A k \in 1 .. m - 1 : acked[k]
                      /\ \A g \in Attempts : at[g] = "idle"

(* Mutant: a sender who is not known yet is not redacted. *)
MustRedactKnownOnly(m) ==
  /\ script[m] \notin ConsentRelated
  /\ identity # NoUser /\ users[identity] = "pending"

MustRedact(m) ==
  /\ script[m] \notin ConsentRelated
  /\ identity = NoUser \/ users[identity] = "pending"

(* Calls are interchangeable: the next one is the first that is free. *)
Deliver(h, m) ==
  /\ at[h] = "idle"
  /\ h = CHOOSE g \in Attempts : at[g] = "idle"
  /\ Due(m) /\ script[m] # "malformed"
  /\ Goto(h, "claim")
  /\ cur' = [cur EXCEPT ![h] = m]
  /\ redact' = [redact EXCEPT ![h] = ~allowed \/ MustRedact(m)]
  /\ UNCHANGED <<setting, msg, acked, people, lock, pm, who, err, faults, history>>

(* GetUpdates moves the offset past an update it cannot read. *)
Quarantine(m) ==
  /\ Due(m) /\ script[m] = "malformed"
  /\ acked' = [acked EXCEPT ![m] = TRUE]
  /\ UNCHANGED <<setting, msg, people, lock, at, local, faults, history>>

(* HandleEvent returns: 200 moves the provider on, 500 makes it try again.  *)
Return(h, ok) ==
  /\ Goto(h, "idle") /\ Forget(h)
  /\ acked' = IF ok THEN [acked EXCEPT ![cur[h]] = TRUE] ELSE acked

(* route has ended; MarkProviderMessage is next. *)
EndRoute(h, failed) ==
  /\ Goto(h, "mark")
  /\ err' = [err EXCEPT ![h] = failed]
  /\ handled' = [handled EXCEPT ![cur[h]] = @ \/ ~failed]
  /\ UNCHANGED consented

-----------------------------------------------------------------------------
(* ClaimProviderMessageOpts: one transaction with the row locked. *)

(* Mutant: a received row counts as a duplicate. *)
ClaimableFailedOnly(m) == msg[m].status = "failed"

(* Mutant: the lease is not looked at. *)
ClaimableAnyTime(m) == msg[m].status \in {"received", "failed"}

Claimable(m) ==
  \/ msg[m].status = "failed"
  \/ msg[m].status = "received" /\ ~msg[m].leased

InsertMessage(h) ==
  LET m == cur[h] IN
  /\ ~Row(m)
  /\ msg' = [msg EXCEPT ![m] = [id |-> @.id + 1, status |-> "received", leased |-> TRUE,
                                owner |-> NoUser,
                                raw |-> IF redact[h] THEN "redacted" ELSE "kept"]]
  /\ pm' = [pm EXCEPT ![h] = msg[m].id + 1]
  /\ Goto(h, "resolve")
  /\ UNCHANGED <<acked, cur, redact, who, err>>

ReclaimMessage(h) ==
  LET m == cur[h] IN
  /\ Row(m) /\ Claimable(m)
  /\ msg' = [msg EXCEPT ![m].status = "received", ![m].leased = TRUE,
                        ![m].raw = IF redact[h] /\ allowed THEN "redacted" ELSE @]
  /\ pm' = [pm EXCEPT ![h] = msg[m].id]
  /\ Goto(h, "resolve")
  /\ UNCHANGED <<acked, cur, redact, who, err>>

(* Mutant: a message in work is acknowledged like a finished one. *)
AbsorbInWork(h) ==
  /\ Row(cur[h]) /\ ~Claimable(cur[h])
  /\ Return(h, TRUE)
  /\ UNCHANGED msg

(* A finished message is a duplicate; one in work is a conflict. *)
Absorb(h) ==
  /\ Row(cur[h]) /\ ~Claimable(cur[h])
  /\ Return(h, msg[cur[h]].status = "processed")
  /\ UNCHANGED msg

(* A repeat whose payload is not the one recorded is refused, whatever the  *)
(* status of the row; a tombstone has no hash to compare with.              *)
RefuseAltered(h) ==
  /\ altered /\ Row(cur[h]) /\ msg[cur[h]].raw # "none"
  /\ Return(h, FALSE)
  /\ UNCHANGED msg

ClaimProviderMessage(h) ==
  /\ at[h] = "claim"
  /\ InsertMessage(h) \/ ReclaimMessage(h) \/ Absorb(h) \/ RefuseAltered(h)
  /\ UNCHANGED <<setting, people, lock, faults, history>>

-----------------------------------------------------------------------------
(* resolveUser: a read, and the transaction that creates user and identity  *)
(* together; a concurrent first contact makes it fail and read again.       *)

ResolveUser(h) ==
  /\ at[h] = "resolve"
  /\ IF identity = NoUser
     THEN Goto(h, "create") /\ UNCHANGED who
     ELSE Goto(h, "own") /\ who' = [who EXCEPT ![h] = identity]
  /\ UNCHANGED <<setting, msg, acked, people, lock, cur, redact, pm, err, faults, history>>

NewUser == CHOOSE u \in Users : users[u] = "none" /\ \A v \in 1 .. u - 1 : users[v] # "none"

CreateUserWithIdentity(h) ==
  /\ at[h] = "create"
  /\ IF identity # NoUser
     THEN /\ who' = [who EXCEPT ![h] = identity]
          /\ UNCHANGED people
     ELSE /\ \E u \in Users : users[u] = "none"
          /\ who' = [who EXCEPT ![h] = NewUser]
          /\ users' = [users EXCEPT ![NewUser] = "pending"]
          /\ identity' = NewUser
  /\ Goto(h, "own")
  /\ UNCHANGED <<setting, msg, acked, lock, cur, redact, pm, err, faults, history>>

(* The claimed row may have been purged, or purged and inserted again.      *)
Mine(h) == Row(cur[h]) /\ msg[cur[h]].id = pm[h]

SetProviderMessageUser(h) ==
  /\ at[h] = "own"
  /\ IF Mine(h) /\ msg[cur[h]].owner \in {NoUser, who[h]}
     THEN /\ msg' = [msg EXCEPT ![cur[h]].owner = who[h]]
          /\ Goto(h, "enter")
          /\ UNCHANGED <<err, history>>
     ELSE EndRoute(h, TRUE) /\ UNCHANGED msg
  /\ UNCHANGED <<setting, acked, people, lock, cur, redact, pm, who, faults>>

-----------------------------------------------------------------------------
(* MarkProviderMessage writes by id, whatever the row says by now.          *)

(* A row that is gone is no failure if its user has been deleted. *)
MarkProviderMessage(h) ==
  LET status == IF err[h] THEN "failed" ELSE "processed" IN
  /\ at[h] = "mark"
  /\ IF Mine(h)
     THEN /\ msg' = [msg EXCEPT ![cur[h]].status = status, ![cur[h]].leased = FALSE]
          /\ Return(h, ~err[h])
     ELSE /\ UNCHANGED msg
          /\ Return(h, ~err[h] /\ users[who[h]] = "deleted")
  /\ UNCHANGED <<setting, people, lock, faults, history>>

-----------------------------------------------------------------------------
(* Faults. *)

Unlock(h) == lock' = [u \in Users |-> IF lock[u] = h THEN Nobody ELSE lock[u]]

(* The process dies, or its 200 gets lost; PostgreSQL frees the lock.        *)
Crash(h) ==
  /\ at[h] # "idle" /\ FaultAllowed
  /\ crashes' = crashes + 1
  /\ Goto(h, "idle") /\ Forget(h)
  /\ Unlock(h)
  /\ UNCHANGED <<setting, msg, acked, people, lapses, errors, history>>

AnswerLost(h) ==
  /\ at[h] = "mark" /\ ~err[h] /\ Mine(h) /\ FaultAllowed
  /\ crashes' = crashes + 1
  /\ msg' = [msg EXCEPT ![cur[h]].status = "processed", ![cur[h]].leased = FALSE]
  /\ Return(h, FALSE)
  /\ UNCHANGED <<setting, people, lock, lapses, errors, history>>

(* A statement fails.  Before the claim and in Mark that is a 500 at once;   *)
(* in route it is an error to be marked.                                    *)
StatementFails(h) ==
  /\ at[h] \in {"claim", "resolve", "create", "own", "enter", "mark"} /\ FaultAllowed
  /\ errors' = errors + 1
  /\ IF at[h] \in {"claim", "mark"}
     THEN Return(h, FALSE) /\ UNCHANGED history
     ELSE EndRoute(h, TRUE) /\ UNCHANGED <<acked, cur, redact, pm, who>>
  /\ UNCHANGED <<setting, msg, people, lock, crashes, lapses>>

AtWork(m) ==
  \E h \in Attempts : at[h] \notin {"idle", "claim"} /\ cur[h] = m /\ pm[h] = msg[m].id

(* The two minutes of a claim pass, and the attempt is dead ...              *)
ClaimExpires(m) ==
  /\ msg[m].status = "received" /\ msg[m].leased /\ ~AtWork(m)
  /\ msg' = [msg EXCEPT ![m].leased = FALSE]
  /\ UNCHANGED <<setting, acked, people, lock, at, local, faults, history>>

(* ... or still at work. *)
ClaimOutlived(m) ==
  /\ msg[m].status = "received" /\ msg[m].leased /\ AtWork(m) /\ FaultAllowed
  /\ lapses' = lapses + 1
  /\ msg' = [msg EXCEPT ![m].leased = FALSE]
  /\ UNCHANGED <<setting, acked, people, lock, at, local, crashes, errors, history>>

(* The sweep deletes the tombstone of a deletion after 24 hours; that matters *)
(* only to a provider that still repeats the message then.                   *)
DeleteExpiredTombstone(m) ==
  /\ Row(m) /\ msg[m].raw = "none" /\ ~AtWork(m) /\ FaultAllowed
  /\ lapses' = lapses + 1
  /\ msg' = [msg EXCEPT ![m] = [NoRow EXCEPT !.id = msg[m].id]]
  /\ UNCHANGED <<setting, acked, people, lock, at, local, crashes, errors, history>>

InboundStep(h) ==
  \/ ClaimProviderMessage(h) \/ ResolveUser(h) \/ CreateUserWithIdentity(h)
  \/ SetProviderMessageUser(h) \/ MarkProviderMessage(h)

InboundFault ==
  \/ \E h \in Attempts : Crash(h) \/ AnswerLost(h) \/ StatementFails(h)
  \/ \E m \in Messages : ClaimOutlived(m) \/ DeleteExpiredTombstone(m)
=============================================================================
