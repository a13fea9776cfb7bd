------------------------------- MODULE Outbox -------------------------------
(***************************************************************************)
(* The outbound outbox (internal/notify, internal/store/outbound.go): rows *)
(* of outbound_messages, the Enqueuer that writes them, and the Sender, the *)
(* only caller of Provider.Send, driven by the job queue of JobQueue.      *)
(*                                                                         *)
(* A member of Jobs is both an outbox row and its outbound_send job: the   *)
(* job's dedupe key is "outbound:" and the row's id.  The rows a reply is  *)
(* enqueued for are fixed beforehand; a replayed idempotency key finds the *)
(* row again.  One calendar month is modelled.                             *)
(***************************************************************************)
EXTENDS JobQueue

CONSTANTS
  Users,
  Owner,                \* [Jobs -> Users], user_id of the row
  Ephemeral,            \* rows written by DeletionConfirmation
  OutboundEnabled,      \* values of the kill switch among the processes
  MonthlyMessageLimit,  \* 0 means unlimited
  MaxErrors,            \* bound on failing store calls
  MaxLockLosses,        \* bound on advisory-lock sessions dying under a lane
  Nobody

ASSUME OwnerType == Owner \in [Jobs -> Users]
ASSUME EphemeralType == Ephemeral \subseteq Jobs
ASSUME LimitType == OutboundEnabled \subseteq BOOLEAN /\ MonthlyMessageLimit \in Nat
ASSUME BoundTypes == MaxErrors \in Nat /\ MaxLockLosses \in Nat
ASSUME NobodyIsNotALane == Nobody \notin Lanes

VARIABLES
  out,          \* [Jobs -> OutStatus]
  account,      \* [Users -> {"active", "deleted"}]
  lock,         \* [Users -> Lanes \cup {Nobody}], pg_advisory_lock
  at,           \* [Lanes -> Steps], where Sender.handleLocked stands
  attemptCount, \* usage counter zalo_message_attempts
  sentCount,    \* usage counter zalo_messages_sent
  calls,        \* [Jobs -> Nat], Provider.Send calls made (history)
  delivered,    \* [Jobs -> BOOLEAN], the provider delivered it (history)
  errors,       \* store calls that failed so far
  lockLosses    \* lock sessions lost so far

dataVars == <<out, account, attemptCount, sentCount, calls, delivered>>
controlVars == <<lock, at, errors, lockLosses>>
outboxVars == <<out, account, lock, at, attemptCount, sentCount, calls,
                delivered, errors, lockLosses>>
vars == <<queueVars, outboxVars>>

Terminal == {"sent", "failed", "ambiguous", "suppressed"}
OutStatus == {"none", "queued", "sending", "purged"} \cup Terminal
Steps == {"off", "start", "drop", "purge", "begin", "send", "complete",
          "ambiguous", "failed", "suppressed", "return"}

User(w) == Owner[held[w]]
Present(j) == out[j] \notin {"none", "purged"}

OutboxTypeOK ==
  /\ QueueTypeOK
  /\ out \in [Jobs -> OutStatus]
  /\ account \in [Users -> {"active", "deleted"}]
  /\ lock \in [Users -> Lanes \cup {Nobody}]
  /\ at \in [Lanes -> Steps]
  /\ attemptCount \in Nat /\ sentCount \in Nat
  /\ calls \in [Jobs -> Nat]
  /\ delivered \in [Jobs -> BOOLEAN]
  /\ errors \in Nat /\ lockLosses \in Nat

OutboxInit ==
  /\ QueueInit
  /\ out = [j \in Jobs |-> "none"]
  /\ account = [u \in Users |-> "active"]
  /\ lock = [u \in Users |-> Nobody]
  /\ at = [w \in Lanes |-> "off"]
  /\ attemptCount = 0 /\ sentCount = 0
  /\ calls = [j \in Jobs |-> 0]
  /\ delivered = [j \in Jobs |-> FALSE]
  /\ errors = 0 /\ lockLosses = 0

-----------------------------------------------------------------------------
(* Producers.  Every caller of the Enqueuer holds the user lock.           *)

(* EnqueueOutbound inserts the row; a deletion confirmation follows the    *)
(* purge of its user, every other reply is for a user that is not deleted. *)
EnqueueOutbound(j) ==
  /\ out[j] = "none"
  /\ lock[Owner[j]] = Nobody
  /\ (account[Owner[j]] = "deleted") <=> (j \in Ephemeral)
  /\ out' = [out EXCEPT ![j] = "queued"]
  /\ UNCHANGED <<queueVars, account, attemptCount, sentCount, calls, delivered,
                 controlVars>>

(* The second statement of Enqueuer.enqueue, which a replay of the reply    *)
(* repeats as long as the row is queued; an existing job is ErrDuplicate.   *)
EnqueueJob(j) ==
  /\ out[j] = "queued"
  /\ lock[Owner[j]] = Nobody
  /\ Enqueue(j)
  /\ UNCHANGED outboxVars

(* Mutant: the purge does not wait for the user lock. *)
PurgeWithoutLock(u) ==
  LET mine == {j \in Jobs : Owner[j] = u /\ Stored(j)} IN
  /\ account[u] = "active"
  /\ account' = [account EXCEPT ![u] = "deleted"]
  /\ out' = [j \in Jobs |-> IF Owner[j] = u /\ Present(j) THEN "purged" ELSE out[j]]
  /\ IF mine = {} THEN UNCHANGED queueVars ELSE Delete(mine)
  /\ UNCHANGED <<attemptCount, sentCount, calls, delivered, controlVars>>

(* PurgeAccountData, as far as the outbox sees it: the jobs and rows of the *)
(* user go and the user becomes a tombstone, in one transaction.            *)
PurgeAccountData(u) ==
  LET mine == {j \in Jobs : Owner[j] = u /\ Stored(j)} IN
  /\ account[u] = "active" /\ lock[u] = Nobody
  /\ account' = [account EXCEPT ![u] = "deleted"]
  /\ out' = [j \in Jobs |-> IF Owner[j] = u /\ Present(j) THEN "purged" ELSE out[j]]
  /\ IF mine = {} THEN UNCHANGED queueVars ELSE Delete(mine)
  /\ UNCHANGED <<attemptCount, sentCount, calls, delivered, controlVars>>

-----------------------------------------------------------------------------
(* Sender. *)

Goto(w, step) == at' = [at EXCEPT ![w] = step]

(* WithUserLock's deferred unlock; nothing to release once it was lost.    *)
Unlock(w) ==
  lock' = [u \in Users |-> IF lock[u] = w THEN Nobody ELSE lock[u]]

DeleteJob(j) == IF Stored(j) THEN Delete({j}) ELSE UNCHANGED queueVars

Claim(w, j) ==
  /\ Dequeue(w, j)
  /\ Goto(w, "start")
  /\ UNCHANGED <<dataVars, lock, errors, lockLosses>>

(* What handleLocked decides from the row and the user it has read.  The   *)
(* users row outlives its account, so GetUser finds it.                    *)
Decision(j, enabled) ==
  CASE ~Present(j)          -> "drop"
    [] out[j] = "sending"   -> IF j \in Ephemeral THEN "purge" ELSE "ambiguous"
    [] out[j] \in Terminal  -> "return"
    [] OTHER ->
         IF account[Owner[j]] = "deleted" /\ j \notin Ephemeral THEN "purge"
         ELSE IF enabled THEN "begin"
         ELSE IF j \in Ephemeral THEN "purge" ELSE "suppressed"

(* WithUserLock, GetOutbound and GetUser. *)
Inspect(w) ==
  /\ at[w] = "start"
  /\ lock[User(w)] = Nobody
  /\ lock' = [lock EXCEPT ![User(w)] = w]
  /\ \E enabled \in OutboundEnabled : Goto(w, Decision(held[w], enabled))
  /\ UNCHANGED <<queueVars, dataVars, errors, lockLosses>>

(* Mutant: one attempt over the limit. *)
QuotaLeftInclusive == MonthlyMessageLimit = 0 \/ attemptCount <= MonthlyMessageLimit

QuotaLeft == MonthlyMessageLimit = 0 \/ attemptCount < MonthlyMessageLimit

(* Mutant: a row found in sending is sent again on the charge it has. *)
BeginResumes(w) ==
  LET j == held[w] IN
  /\ at[w] = "begin"
  /\ IF out[j] = "sending" \/ (out[j] = "queued" /\ QuotaLeft)
     THEN /\ out' = [out EXCEPT ![j] = "sending"]
          /\ attemptCount' = IF out[j] = "queued" THEN attemptCount + 1 ELSE attemptCount
          /\ Goto(w, "send")
     ELSE Goto(w, "return") /\ UNCHANGED <<out, attemptCount>>
  /\ UNCHANGED <<queueVars, account, sentCount, calls, delivered, lock, errors, lockLosses>>

(* Mutant: a confirmation refused by the quota is not purged. *)
BeginKeepsRefused(w) ==
  LET j == held[w] IN
  /\ at[w] = "begin"
  /\ IF out[j] = "queued" /\ QuotaLeft
     THEN /\ out' = [out EXCEPT ![j] = "sending"]
          /\ attemptCount' = attemptCount + 1
          /\ Goto(w, "send")
     ELSE /\ out' = [out EXCEPT ![j] = IF @ = "queued" THEN "suppressed" ELSE @]
          /\ Goto(w, "return")
          /\ UNCHANGED attemptCount
  /\ UNCHANGED <<queueVars, account, sentCount, calls, delivered, lock, errors, lockLosses>>

(* BeginOutboundAttempt: one transaction with the row locked FOR UPDATE,   *)
(* and what the Sender does next.                                          *)
BeginOutboundAttempt(w) ==
  LET j == held[w]
      refused == IF j \in Ephemeral THEN "purge" ELSE "return" IN
  /\ at[w] = "begin"
  /\ \/ /\ ~Present(j)
        /\ Goto(w, "return")
        /\ UNCHANGED <<out, attemptCount>>
     \/ /\ Present(j) /\ out[j] # "queued"
        /\ Goto(w, refused)
        /\ UNCHANGED <<out, attemptCount>>
     \/ /\ out[j] = "queued" /\ ~QuotaLeft
        /\ out' = [out EXCEPT ![j] = "suppressed"]
        /\ Goto(w, refused)
        /\ UNCHANGED attemptCount
     \/ /\ out[j] = "queued" /\ QuotaLeft
        /\ out' = [out EXCEPT ![j] = "sending"]
        /\ attemptCount' = attemptCount + 1
        /\ Goto(w, "send")
  /\ UNCHANGED <<queueVars, account, sentCount, calls, delivered, lock, errors, lockLosses>>

(* Mutant: a retryable provider error is recorded as a failure. *)
SendTimeoutFails(w) ==
  LET j == held[w] IN
  /\ at[w] = "send"
  /\ calls' = [calls EXCEPT ![j] = @ + 1]
  /\ \E d \in BOOLEAN :
       /\ delivered' = [delivered EXCEPT ![j] = @ \/ d]
       /\ Goto(w, "failed")
  /\ UNCHANGED <<queueVars, out, account, attemptCount, sentCount, lock, errors, lockLosses>>

(* Provider.Send: accepted, refused for good, or a retryable error after   *)
(* which nobody knows whether the message was delivered.                   *)
Send(w) ==
  LET j == held[w]
      failed == IF j \in Ephemeral THEN "purge" ELSE "failed"
      unknown == IF j \in Ephemeral THEN "purge" ELSE "ambiguous" IN
  /\ at[w] = "send"
  /\ calls' = [calls EXCEPT ![j] = @ + 1]
  /\ \/ delivered' = [delivered EXCEPT ![j] = TRUE] /\ Goto(w, "complete")
     \/ UNCHANGED delivered /\ Goto(w, failed)
     \/ /\ \E d \in {TRUE, delivered[j]} : delivered' = [delivered EXCEPT ![j] = d]
        /\ Goto(w, unknown)
  /\ UNCHANGED <<queueVars, out, account, attemptCount, sentCount, lock, errors, lockLosses>>

(* CompleteOutboundSend: only a row still in sending is charged as sent;   *)
(* an ephemeral row leaves with its job in the same transaction.           *)
CompleteOutboundSend(w) ==
  LET j == held[w] IN
  /\ at[w] = "complete"
  /\ IF out[j] = "sending"
     THEN /\ out' = [out EXCEPT ![j] = IF j \in Ephemeral THEN "purged" ELSE "sent"]
          /\ sentCount' = sentCount + 1
          /\ IF j \in Ephemeral THEN DeleteJob(j) ELSE UNCHANGED queueVars
     ELSE UNCHANGED <<queueVars, out, sentCount>>
  /\ Goto(w, "return")
  /\ UNCHANGED <<account, attemptCount, calls, delivered, lock, errors, lockLosses>>

(* MarkOutboundStatus: by id, whatever the row's status is. *)
MarkOutboundStatus(w) ==
  LET j == held[w] IN
  /\ at[w] \in {"ambiguous", "failed", "suppressed"}
  /\ out' = IF Present(j) THEN [out EXCEPT ![j] = at[w]] ELSE out
  /\ Goto(w, "return")
  /\ UNCHANGED <<queueVars, account, attemptCount, sentCount, calls, delivered,
                 lock, errors, lockLosses>>

PurgeOutboundAndJob(w) ==
  LET j == held[w] IN
  /\ at[w] = "purge"
  /\ out' = IF Present(j) THEN [out EXCEPT ![j] = "purged"] ELSE out
  /\ DeleteJob(j)
  /\ Goto(w, "return")
  /\ UNCHANGED <<account, attemptCount, sentCount, calls, delivered,
                 lock, errors, lockLosses>>

DeleteQueueJob(w) ==
  /\ at[w] = "drop"
  /\ DeleteJob(held[w])
  /\ Goto(w, "return")
  /\ UNCHANGED <<dataVars, lock, errors, lockLosses>>

(* The handler returns nil, a Conflict or a NotFound: the worker Acks all  *)
(* three.  The Sender never returns CodeTransient.                         *)
HandlerReturns(w) ==
  /\ at[w] = "return"
  /\ Return(w, "ack")
  /\ Goto(w, "off")
  /\ Unlock(w)
  /\ UNCHANGED <<dataVars, errors, lockLosses>>

-----------------------------------------------------------------------------
(* Faults. *)

(* A statement, the lock or its pool connection fails before it takes       *)
(* effect.  The error is CodeInternal or has no code; the worker Acks it.   *)
StoreError(w) ==
  /\ at[w] \notin {"off", "return", "send"}
  /\ errors < MaxErrors
  /\ errors' = errors + 1
  /\ Return(w, "ack")
  /\ Goto(w, "off")
  /\ Unlock(w)
  /\ UNCHANGED <<dataVars, lockLosses>>

(* The session that holds the advisory lock dies; PostgreSQL frees the lock *)
(* while the callback runs on over other pool connections.                  *)
LockLost(w) ==
  /\ at[w] # "off"
  /\ lock[User(w)] = w
  /\ lockLosses < MaxLockLosses
  /\ lockLosses' = lockLosses + 1
  /\ lock' = [lock EXCEPT ![User(w)] = Nobody]
  /\ UNCHANGED <<queueVars, dataVars, at, errors>>

(* The process dies; its sessions, and so its advisory lock, go with it.   *)
LaneCrash(w) ==
  /\ Crash(w)
  /\ Goto(w, "off")
  /\ Unlock(w)
  /\ UNCHANGED <<dataVars, errors, lockLosses>>

-----------------------------------------------------------------------------
SenderStep(w) ==
  \/ \E j \in Jobs : Claim(w, j)
  \/ Inspect(w) \/ BeginOutboundAttempt(w) \/ Send(w) \/ CompleteOutboundSend(w)
  \/ MarkOutboundStatus(w) \/ PurgeOutboundAndJob(w) \/ DeleteQueueJob(w)
  \/ HandlerReturns(w)
  \/ (Ack(w) \/ Poll(w)) /\ UNCHANGED outboxVars

QueueStep ==
  /\ \/ \E w \in Lanes : Heartbeat(w) \/ Stall(w) \/ HeartbeatFails(w)
     \/ \E j \in Jobs : LeaseExpires(j)
  /\ UNCHANGED outboxVars

OutboxNext ==
  \/ \E j \in Jobs : EnqueueOutbound(j) \/ EnqueueJob(j)
  \/ \E u \in Users : PurgeAccountData(u)
  \/ \E w \in Lanes : SenderStep(w) \/ StoreError(w) \/ LockLost(w) \/ LaneCrash(w)
  \/ QueueStep

OutboxSpec == OutboxInit /\ [][OutboxNext]_vars

(* Lanes keep running, provider and database calls return, leases expire.  *)
(* The lock is granted in the end: PostgreSQL queues waiters, so each      *)
(* lane's Inspect is strongly fair.                                        *)
FairOutboxSpec ==
  /\ OutboxSpec
  /\ \A w \in Lanes : WF_vars(SenderStep(w)) /\ SF_vars(Inspect(w))
  /\ \A w \in Lanes : WF_vars(Heartbeat(w) /\ UNCHANGED outboxVars)
  /\ \A j \in Jobs : WF_vars(LeaseExpires(j) /\ UNCHANGED outboxVars)

-----------------------------------------------------------------------------
(* Properties. *)

(* notify.go: an uncertain attempt "is never automatically sent a second     *)
(* time".  At most one Provider.Send per row, through crashes, lapsed        *)
(* leases, two lanes on one job and the loss of the user lock.               *)
AtMostOneCall == \A j \in Jobs : calls[j] <= 1

(* The attempt counter is a hard cap on provider calls: each row called was  *)
(* charged first, and the charge never passes the limit.                     *)
CallsWithinQuota ==
  /\ Cardinality({j \in Jobs : calls[j] > 0}) <= attemptCount
  /\ MonthlyMessageLimit > 0 => attemptCount <= MonthlyMessageLimit

(* What the row says happened did happen: sent was delivered, failed and     *)
(* suppressed were not; and successes are never counted above attempts.  It  *)
(* needs the user lock: MarkOutboundStatus looks at no status, so a lane     *)
(* that lost its lock session can write its stale decision over a success.   *)
StatusIsHonest ==
  lockLosses = 0 =>
    /\ \A j \in Jobs : out[j] = "sent" => delivered[j]
    /\ \A j \in Jobs : out[j] \in {"failed", "suppressed"} => ~delivered[j]
    /\ sentCount <= attemptCount

(* Deletion silences a user: after the purge the provider is only called for *)
(* the deletion confirmation, even if a lane had claimed an older reply;     *)
(* unless a lock session was lost.                                           *)
DeletedUserIsSilent ==
  [][\A j \in Jobs : calls'[j] # calls[j] /\ account[Owner[j]] = "deleted" /\ lockLosses = 0
                        => j \in Ephemeral]_vars

(* notify.go: the deletion confirmation is "physically removed with its      *)
(* queue job after a terminal delivery attempt".  No attempt that runs to    *)
(* its end leaves it behind; a crash between the commit of a quota refusal   *)
(* and the purge does, since the replay takes the row for settled, and so    *)
(* does a statement that fails.                                              *)
ConfirmationRemoved ==
  errors = 0 /\ lockLosses = 0 =>
    \A j \in Ephemeral : status[j] = "done" /\ lost[j] = 0 => ~Present(j)

(* Every reply that got its job is decided in the end, as long as statements *)
(* do not fail: the worker Acks their errors.                                *)
EveryMessageDecided ==
  \A j \in Jobs :
    status[j] = "queued" ~> out[j] \notin {"queued", "sending"} \/ errors + lockLosses > 0
=============================================================================
