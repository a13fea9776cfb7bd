------------------------------- MODULE Chat -------------------------------
(***************************************************************************)
(* What a message does under the user lock (bot/bot.go route, bot/text.go, *)
(* bot/commands.go): consent, the pending action (the open question of the *)
(* chat), manual drafts, registration of images, deletion of an entry and  *)
(* of the account.  The receipt worker appears with the one step it shares *)
(* with the chat, the review card of a receipt; Receipts has the rest.     *)
(*                                                                         *)
(* A locked attempt has one action per statement or transaction that       *)
(* writes; what it only reads belongs to the action that takes the lock,   *)
(* since nobody else writes the user's rows before it is released.  A      *)
(* transaction and a receipt are named by the message they come from.      *)
(***************************************************************************)
EXTENDS Learning

CONSTANTS
  DailyLimit, \* cfg.PerUserDailyReceiptLimit, 0 for no limit
  Worker      \* holder of the user lock that is no attempt

ASSUME ChatSettings ==
  DailyLimit \in Nat /\ Worker \notin Attempts \cup {Nobody}

VARIABLES
  pending,   \* [Users -> open row of pending_actions]
  tx,        \* [Messages -> transaction]
  receipt,   \* [Messages -> receipt document and its job]
  used,      \* [Users -> usage counter of the day]
  outbox,    \* idempotency keys of the outbound rows
  asked,     \* the question last put to the sender
  say,       \* [Attempts -> what the reply step will send]
  review,    \* message whose review card the worker is sending, 0 for none
  acted,     \* [Messages -> transactions the message settled] (history)
  answered,  \* messages that led to an outbound row (history)
  erasedBy,  \* messages that deleted an account (history)
  reopenedBy \* those of them that gave consent afterwards (history)

NoQuestion == [kind |-> "none", tx |-> 0]
Notice == [kind |-> "notice", tx |-> 0]
Question(kind, t) == [kind |-> kind, tx |-> t]
NoPending == [kind |-> "none", tx |-> 0, expired |-> FALSE]
NoTx == [status |-> "none", owner |-> NoUser, ver |-> 0, category |-> "none"]
NoReceipt == [status |-> "none", owner |-> NoUser, job |-> FALSE]

records == <<pending, tx, receipt, used>>
speech == <<outbox, asked, review>>
deeds == <<acted, answered, erasedBy, reopenedBy>>
chatVars == <<records, memory, speech, say, deeds>>
vars == <<inboundVars, chatVars>>

ChatInit ==
  /\ InboundInit /\ LearningInit
  /\ pending = [u \in Users |-> NoPending]
  /\ tx = [m \in Messages |-> NoTx]
  /\ receipt = [m \in Messages |-> NoReceipt]
  /\ used = [u \in Users |-> 0]
  /\ outbox = {} /\ asked = NoQuestion /\ review = 0
  /\ say = [h \in Attempts |-> Notice]
  /\ acted = [m \in Messages |-> {}]
  /\ answered = {} /\ erasedBy = {} /\ reopenedBy = {}

-----------------------------------------------------------------------------
(* Routing: the first step that writes.  Slash commands bypass the question. *)

Slash == {"start", "command", "summary", "export", "delete_data"}

FreshStep(c) ==
  CASE c = "entry" -> "catalogue"
    [] c = "overflow" -> "reject"
    [] c = "summary" -> "persist"
    [] c = "export" -> "export"
    [] c = "delete_data" -> "askDelete"
    [] c = "delete_recent" -> "askDeleteRecent"
    [] c = "recategory" -> "recategorise"
    [] OTHER -> "reply"

ConfirmStep(c, t) ==
  CASE c = "confirm" -> IF tx[t].status = "awaiting" THEN "confirm" ELSE "clear"
    [] c = "discard" -> "discard"
    [] c = "edit" -> "askEdit"
    [] c = "value" -> "reshow"
    [] OTHER -> FreshStep(c)

TextStep(c, p) ==
  CASE c \in Slash \/ p.kind = "none" -> FreshStep(c)
    [] c \notin Slash /\ p.kind = "card" -> ConfirmStep(c, p.tx)
    [] c \notin Slash /\ p.kind = "edit" -> IF tx[p.tx].status = "awaiting" THEN "applyEdit" ELSE "clear"
    [] c \notin Slash /\ p.kind = "delaccount" -> IF c = "confirm" THEN "markDeleting" ELSE "clear"
    [] c \notin Slash /\ p.kind = "delrecent" -> IF c = "confirm" THEN "deleteRecent" ELSE "clear"

ConsentStep(c) == IF c \in {"confirm", "start"} THEN "consent" ELSE "reply"

ActiveStep(c, p) ==
  CASE c = "image" -> "register"
    [] c = "unsupported" -> "reply"
    [] OTHER -> TextStep(c, p)

(* GetPendingAction deletes an action that has expired. *)
Open(u) == IF pending[u].expired THEN NoPending ELSE pending[u]

RouteStep(m, u) ==
  CASE ~allowed \/ users[u] = "suspended" -> "reply"
    [] allowed /\ users[u] = "pending" -> ConsentStep(script[m])
    [] OTHER -> ActiveStep(script[m], Open(u))

(* Mutant: only a deletion under way stops an attempt. *)
GoneDeletingOnly(u) == users[u] = "deleting"

Gone(u) == users[u] \in {"deleting", "deleted"}

(* Nothing is done for a user who was deleted while the attempt waited for   *)
(* the lock; otherwise the attempt keeps it.                                 *)
Enter(h) ==
  LET u == who[h]
      m == cur[h]
      step == RouteStep(m, u) IN
  /\ at[h] = "enter" /\ lock[u] = Nobody
  /\ IF Gone(u)
     THEN /\ EndRoute(h, FALSE)
          /\ UNCHANGED <<lock, msg, pending, say>>
     ELSE /\ Goto(h, IF step = "reshow" THEN "reply" ELSE step)
          /\ lock' = [lock EXCEPT ![u] = h]
          /\ say' = [say EXCEPT ![h] = IF step = "reshow" THEN Question("card", pending[u].tx)
                                       ELSE Notice]
          /\ msg' = IF ~allowed /\ Mine(h) THEN [msg EXCEPT ![m].raw = "redacted"] ELSE msg
          /\ pending' = IF allowed /\ users[u] = "active" /\ script[m] \in Texts
                        THEN [pending EXCEPT ![u] = Open(u)] ELSE pending
          /\ UNCHANGED <<err, history>>
  /\ UNCHANGED <<setting, acked, people, cur, redact, pm, who, faults>>
  /\ UNCHANGED <<tx, receipt, used, memory, speech, deeds>>

-----------------------------------------------------------------------------
(* Frames of a locked step: go on to another one, or leave the lock.         *)

Then(h, step) ==
  /\ Goto(h, step)
  /\ UNCHANGED <<setting, acked, lock, local, faults>>

Leave(h, failed) ==
  /\ EndRoute(h, failed)
  /\ Unlock(h)
  /\ UNCHANGED <<setting, acked, cur, redact, pm, who>>

inboundRows == <<msg, people, history, memory>>
Silent == UNCHANGED <<speech, deeds>>
ReplyWith(h, q) == say' = [say EXCEPT ![h] = q]
OpenQuestion(u, kind, t) ==
  pending' = [pending EXCEPT ![u] = [kind |-> kind, tx |-> t, expired |-> FALSE]]
Settles(m, t) == acted' = [acted EXCEPT ![m] = @ \cup {t}]

(* Reply is idempotent: a key that exists adds no outbound row.  A card has   *)
(* the key of its transaction and version, other replies that of the message. *)
Key(q, m) ==
  IF q.kind = "card" THEN [kind |-> "card", of |-> q.tx, ver |-> tx[q.tx].ver]
                     ELSE [kind |-> q.kind, of |-> m, ver |-> 0]

Enqueue(q, m) ==
  /\ outbox' = outbox \cup {Key(q, m)}
  /\ IF Key(q, m) \in outbox
     THEN UNCHANGED <<asked, answered>>
     ELSE /\ answered' = answered \cup {m, Key(q, m).of}
          /\ asked' = IF q.kind = "notice" THEN asked ELSE q

Reply(h) ==
  /\ at[h] = "reply"
  /\ Leave(h, FALSE)
  /\ Enqueue(say[h], cur[h])
  /\ ReplyWith(h, Notice)
  /\ UNCHANGED <<msg, people, faults, records, memory, review, acted, erasedBy, reopenedBy>>

(* ClearPendingAction; its error is ignored. *)
ClearPendingAction(h) ==
  /\ at[h] = "clear"
  /\ pending' = [pending EXCEPT ![who[h]] = NoPending]
  /\ Then(h, "reply")
  /\ Silent /\ UNCHANGED <<inboundRows, say, tx, receipt, used>>

(* consentFlow *)
SetConsent(h) ==
  /\ at[h] = "consent"
  /\ users' = [users EXCEPT ![who[h]] = "active"]
  /\ consented' = TRUE
  /\ reopenedBy' = reopenedBy \cup ({cur[h]} \cap erasedBy)
  /\ Then(h, "reply")
  /\ UNCHANGED <<msg, identity, handled, records, memory, say, speech, acted, answered, erasedBy>>

-----------------------------------------------------------------------------
(* handleImage *)

(* A row of an earlier attempt is not charged again. *)
AfterRegister(status) ==
  CASE status = "received" -> "queue"
    [] status = "queued" -> "enqueue"
    [] OTHER -> "reply"

RegisterImage(h) ==
  LET m == cur[h] IN
  /\ at[h] = "register"
  /\ IF receipt[m].status = "none"
     THEN /\ receipt' = [receipt EXCEPT ![m] = [status |-> "received", owner |-> who[h], job |-> FALSE]]
          /\ Then(h, "charge")
     ELSE Then(h, AfterRegister(receipt[m].status)) /\ UNCHANGED receipt
  /\ Silent /\ UNCHANGED <<inboundRows, say, pending, tx, used>>

(* Mutant: the limit is compared before the increment. *)
OverLimitOldCount(u) == DailyLimit > 0 /\ used[u] > DailyLimit

OverLimit(u) == DailyLimit > 0 /\ used[u] + 1 > DailyLimit

IncrementUsage(h) ==
  LET u == who[h] IN
  /\ at[h] = "charge"
  /\ used' = [used EXCEPT ![u] = @ + 1]
  /\ Then(h, IF OverLimit(u) THEN "refuse" ELSE "queue")
  /\ Silent /\ UNCHANGED <<inboundRows, say, pending, tx, receipt>>

TransitionReceipt(h, step, from, to, next) ==
  /\ at[h] = step
  /\ IF receipt[cur[h]].status = from
     THEN /\ receipt' = [receipt EXCEPT ![cur[h]].status = to]
          /\ Then(h, next) /\ UNCHANGED history
     ELSE /\ Leave(h, TRUE)
          /\ UNCHANGED <<receipt, faults>>
  /\ Silent /\ UNCHANGED <<msg, people, memory, say, pending, tx, used>>

RefuseImage(h) == TransitionReceipt(h, "refuse", "received", "failed_permanent", "reply")
QueueImage(h) == TransitionReceipt(h, "queue", "received", "queued", "enqueue")

EnqueueReceiptJob(h) ==
  /\ at[h] = "enqueue"
  /\ receipt' = [receipt EXCEPT ![cur[h]].job = TRUE]
  /\ Then(h, "reply")
  /\ Silent /\ UNCHANGED <<inboundRows, say, pending, tx, used>>

(* DeleteReceivedReceipt after a failed charge; its error is ignored. *)
DeleteReceivedReceipt(h) ==
  /\ at[h] = "unregister"
  /\ receipt' = IF receipt[cur[h]].status = "received"
                THEN [receipt EXCEPT ![cur[h]] = NoReceipt] ELSE receipt
  /\ Leave(h, TRUE)
  /\ Silent /\ UNCHANGED <<msg, people, memory, faults, say, pending, tx, used>>

-----------------------------------------------------------------------------
(* The confirmation card. *)

(* ResolveMerchant: a merchant that is not found is created, then aliased.    *)
ResolveMerchant(h) ==
  /\ at[h] = "catalogue"
  /\ CreateMerchant
  /\ Then(h, IF Found THEN "draft" ELSE "alias")
  /\ Silent /\ UNCHANGED <<msg, people, history, rule, derived, lessons, say, records>>

AddMerchantAlias(h) ==
  /\ at[h] = "alias"
  /\ merchant' = "known"
  /\ Then(h, "draft")
  /\ Silent /\ UNCHANGED <<msg, people, history, rule, derived, lessons, say, records>>

(* manualEntry parses the amount again, in the user's currency: the error is  *)
(* that of the message, and comes back with every retry.                      *)
RejectEntry(h) ==
  /\ at[h] = "reject"
  /\ Leave(h, TRUE)
  /\ Silent /\ UNCHANGED <<msg, people, memory, faults, say, records>>

(* A new draft.  Versions go on counting when a transaction is replaced: a    *)
(* new one has new card keys.                                                 *)
Draft(t, u) ==
  [status |-> "awaiting", owner |-> u, ver |-> tx[t].ver + 1, category |-> SuggestCategory(u)]

(* A retry of the message finds its draft, whatever became of it, unless it   *)
(* is deleted, and points the pending action at it again.                     *)
CreateManualDraft(h) ==
  LET m == cur[h]
      u == who[h] IN
  /\ at[h] = "draft"
  /\ tx' = IF tx[m].status \in {"none", "deleted"}
           THEN [tx EXCEPT ![m] = Draft(m, u)]
           ELSE tx
  /\ OpenQuestion(u, "card", m)
  /\ ReplyWith(h, Question("card", m))
  /\ Then(h, "reply")
  /\ Silent /\ UNCHANGED <<inboundRows, receipt, used>>

ConfirmTransaction(h) ==
  LET t == pending[who[h]].tx IN
  /\ at[h] = "confirm"
  /\ tx' = [tx EXCEPT ![t].status = "confirmed", ![t].ver = @ + 1]
  /\ Settles(cur[h], t) /\ Teaches(who[h], tx[t].category)
  /\ Then(h, "settle")
  /\ UNCHANGED <<msg, people, history, merchant, rule, derived>>
  /\ UNCHANGED <<say, speech, pending, receipt, used, answered, erasedBy, reopenedBy>>

(* confirmTx: TransitionReceipt, a conflict or error of which is ignored. *)
SettleReceipt(h) ==
  LET t == pending[who[h]].tx IN
  /\ at[h] = "settle"
  /\ receipt' = IF receipt[t].status = "review" THEN [receipt EXCEPT ![t].status = "confirmed"] ELSE receipt
  /\ Then(h, "learn")
  /\ Silent /\ UNCHANGED <<inboundRows, say, pending, tx, used>>

(* LearnFromConfirmation of the entry confirmed, or of the one recategorised, *)
(* which the answer names; its error is ignored.                              *)
Learn(h) ==
  LET u == who[h]
      t == IF at[h] = "learn" THEN pending[u].tx ELSE say[h].tx IN
  /\ at[h] \in {"learn", "relearn"}
  /\ LearnFromConfirmation(u, tx[t].category)
  /\ Then(h, IF at[h] = "learn" THEN "clear" ELSE "reply")
  /\ Silent /\ UNCHANGED <<msg, people, history, merchant, derived, lessons, say, records>>

(* discardTx: the receipt first, then the transaction, whatever its status; a *)
(* transaction that is deleted already is answered like a stale question.     *)
DiscardReceipt(h) ==
  LET t == pending[who[h]].tx IN
  /\ at[h] = "discard"
  /\ receipt' = IF receipt[t].status = "review" THEN [receipt EXCEPT ![t].status = "deleted"] ELSE receipt
  /\ Then(h, IF tx[t].status = "deleted" THEN "clear" ELSE "softDelete")
  /\ Silent /\ UNCHANGED <<inboundRows, say, pending, tx, used>>

SoftDelete(h, step) ==
  LET t == pending[who[h]].tx IN
  /\ at[h] = step /\ tx[t].status # "deleted"
  /\ tx' = [tx EXCEPT ![t].status = "deleted", ![t].ver = @ + 1]
  /\ Settles(cur[h], t)
  /\ Then(h, "clear")
  /\ UNCHANGED <<inboundRows, say, speech, pending, receipt, used, answered, erasedBy, reopenedBy>>

DiscardTransaction(h) == SoftDelete(h, "softDelete")

(* resolveConfirm: one of the edit verbs. *)
AskEdit(h) ==
  LET u == who[h] IN
  /\ at[h] = "askEdit"
  /\ OpenQuestion(u, "edit", pending[u].tx)
  /\ ReplyWith(h, Question("edit", pending[u].tx))
  /\ Then(h, "reply")
  /\ Silent /\ UNCHANGED <<inboundRows, tx, receipt, used>>

(* resolveEdit: a value that does not parse is answered and changes nothing. *)
ApplyEdit(h) ==
  LET t == pending[who[h]].tx IN
  /\ at[h] = "applyEdit"
  /\ \E c \in {tx[t].category, "other"} :
       tx' = [tx EXCEPT ![t].ver = @ + 1, ![t].category = c]
  /\ Then(h, "showAgain")
  /\ Silent /\ UNCHANGED <<inboundRows, say, pending, receipt, used>>

RejectEdit(h) ==
  /\ at[h] = "applyEdit"
  /\ Then(h, "reply")
  /\ Silent /\ UNCHANGED <<inboundRows, say, records>>

ShowAgain(h) ==
  LET u == who[h] IN
  /\ at[h] = "showAgain"
  /\ OpenQuestion(u, "card", pending[u].tx)
  /\ ReplyWith(h, Question("card", pending[u].tx))
  /\ Then(h, "reply")
  /\ Silent /\ UNCHANGED <<inboundRows, tx, receipt, used>>

-----------------------------------------------------------------------------
(* Confirmed entries. *)

Confirmed(u) == {t \in Messages : tx[t].owner = u /\ tx[t].status \in {"confirmed", "amended"}}

(* LatestConfirmedTransaction orders by occurred_at, which users edit and     *)
(* receipts print: any confirmed entry may be the newest.                     *)
AskDeleteRecent(h) ==
  LET u == who[h] IN
  /\ at[h] = "askDeleteRecent"
  /\ \/ /\ Confirmed(u) = {}
        /\ UNCHANGED <<pending, say>>
     \/ \E t \in Confirmed(u) :
          /\ OpenQuestion(u, "delrecent", t)
          /\ ReplyWith(h, Question("delrecent", t))
  /\ Then(h, "reply")
  /\ Silent /\ UNCHANGED <<inboundRows, tx, receipt, used>>

DeleteRecent(h) == SoftDelete(h, "deleteRecent")

(* SoftDeleteTransaction refuses an entry that is deleted already. *)
DeleteRecentRefused(h) ==
  /\ at[h] = "deleteRecent" /\ tx[pending[who[h]].tx].status = "deleted"
  /\ Leave(h, TRUE)
  /\ Silent /\ UNCHANGED <<msg, people, memory, faults, say, records>>

(* summary, whose error to persist is ignored, and export. *)
PersistInsight(h) ==
  /\ at[h] = "persist"
  /\ Derives(who[h], "insight")
  /\ Then(h, "reply")
  /\ Silent /\ UNCHANGED <<msg, people, history, merchant, rule, lessons, say, records>>

WriteExport(h) ==
  /\ at[h] = "export"
  /\ Derives(who[h], "export")
  /\ Then(h, "reply")
  /\ Silent /\ UNCHANGED <<msg, people, history, merchant, rule, lessons, say, records>>

(* recategorise; a name that matches no category changes nothing. *)
Recategorise(h) ==
  /\ at[h] = "recategorise"
  /\ \/ /\ Then(h, "reply")
        /\ UNCHANGED <<tx, lessons, say>>
     \/ \E t \in Confirmed(who[h]), c \in Categories :
          /\ tx' = [tx EXCEPT ![t].status = "amended", ![t].ver = @ + 1, ![t].category = c]
          /\ Teaches(who[h], c)
          /\ ReplyWith(h, Question("notice", t))
          /\ Then(h, "relearn")
  /\ Silent /\ UNCHANGED <<msg, people, history, merchant, rule, derived, pending, receipt, used>>

-----------------------------------------------------------------------------
(* Deletion of the account. *)

AskDelete(h) ==
  /\ at[h] = "askDelete"
  /\ OpenQuestion(who[h], "delaccount", 0)
  /\ ReplyWith(h, Question("delaccount", 0))
  /\ Then(h, "reply")
  /\ Silent /\ UNCHANGED <<inboundRows, tx, receipt, used>>

BeginAccountDeletion(h) ==
  /\ at[h] = "markDeleting"
  /\ users' = [users EXCEPT ![who[h]] = "deleting"]
  /\ Then(h, "unexport")
  /\ Silent /\ UNCHANGED <<msg, identity, history, memory, say, records>>

(* The directory of the user's exports; the originals are in Receipts.        *)
RemoveExportArtifacts(h) ==
  /\ at[h] = "unexport"
  /\ derived' = [derived EXCEPT ![who[h]] = @ \ {"export"}]
  /\ Then(h, "purge")
  /\ Silent /\ UNCHANGED <<msg, people, history, merchant, rule, lessons, say, records>>

(* Rows of the user, and rows whose payload still names the sender. *)
Purged(m, h) == m # cur[h] /\ (msg[m].owner = who[h] \/ msg[m].raw = "kept")

(* Mutant: the row of the request is purged like the others. *)
TombstoneDropped(row) == [NoRow EXCEPT !.id = row.id]

Tombstone(row) == [row EXCEPT !.status = "processed", !.leased = FALSE, !.owner = NoUser, !.raw = "none"]

EraseRecords(u) ==
  /\ pending' = [pending EXCEPT ![u] = NoPending]
  /\ tx' = [m \in Messages |-> IF tx[m].owner = u THEN [NoTx EXCEPT !.ver = tx[m].ver] ELSE tx[m]]
  /\ receipt' = [m \in Messages |-> IF receipt[m].owner = u THEN NoReceipt ELSE receipt[m]]
  /\ used' = [used EXCEPT ![u] = 0]

(* The request itself stays as a tombstone without content, so that a repeat  *)
(* of it is a duplicate.                                                      *)
PurgeAccountData(h) ==
  LET u == who[h]
      trigger == cur[h] IN
  /\ at[h] = "purge"
  /\ IF Mine(h) /\ msg[trigger].owner = u
     THEN /\ EraseRecords(u) /\ ForgetUser(u)
          /\ msg' = [m \in Messages |->
                       CASE m = trigger -> Tombstone(msg[m])
                         [] Purged(m, h) -> [NoRow EXCEPT !.id = msg[m].id]
                         [] OTHER -> msg[m]]
          /\ identity' = NoUser
          /\ users' = [users EXCEPT ![u] = "deleted"]
          /\ outbox' = {}
          /\ handled' = [handled EXCEPT ![trigger] = TRUE]
          /\ erasedBy' = erasedBy \cup {trigger}
          /\ Then(h, "farewell") /\ UNCHANGED consented
     ELSE /\ Leave(h, TRUE)
          /\ UNCHANGED <<msg, people, faults, records, memory, outbox, erasedBy>>
  /\ UNCHANGED <<say, asked, review, acted, answered, reopenedBy>>

DeletionConfirmation(h) ==
  /\ at[h] = "farewell"
  /\ Leave(h, FALSE)
  /\ Enqueue(Notice, cur[h])
  /\ UNCHANGED <<msg, people, faults, records, memory, say, review, acted, erasedBy, reopenedBy>>

-----------------------------------------------------------------------------
(* The receipt worker, under the same lock. *)

ReviewOf(m) ==
  /\ receipt' = [receipt EXCEPT ![m].status = "review", ![m].job = FALSE]
  /\ tx' = [tx EXCEPT ![m] = Draft(m, receipt[m].owner)]
  /\ OpenQuestion(receipt[m].owner, "card", m)
  /\ merchant' = IF Found THEN merchant ELSE "known"
  /\ UNCHANGED <<rule, derived, lessons>>

(* The worker skips the receipts of deleted users, not of those in deletion.  *)
Reviewable(m) ==
  /\ review = 0 /\ receipt[m].status = "queued" /\ receipt[m].job
  /\ users[receipt[m].owner] \notin {"none", "deleted"} /\ msg[m].raw = "kept"

(* Mutant: the review is stored and its card sent outside the user lock. *)
FinalizeReceiptReviewUnlocked(m) ==
  /\ Reviewable(m)
  /\ review' = m
  /\ ReviewOf(m)
  /\ UNCHANGED <<inboundVars, used, say, outbox, asked, deeds>>

FinalizeReceiptReview(m) ==
  /\ Reviewable(m) /\ lock[receipt[m].owner] = Nobody
  /\ lock' = [lock EXCEPT ![receipt[m].owner] = Worker]
  /\ review' = m
  /\ ReviewOf(m)
  /\ UNCHANGED <<setting, msg, acked, people, at, local, faults, history>>
  /\ UNCHANGED <<used, say, outbox, asked, deeds>>

SendReviewCard ==
  /\ review # 0
  /\ Enqueue(Question("card", review), review)
  /\ review' = 0
  /\ Unlock(Worker)
  /\ UNCHANGED <<setting, msg, acked, people, at, local, faults, history>>
  /\ UNCHANGED <<records, memory, say, acted, erasedBy, reopenedBy>>

(* Fifteen minutes or a day without an answer. *)
PendingExpires(u) ==
  /\ pending[u].kind # "none" /\ ~pending[u].expired
  /\ pending' = [pending EXCEPT ![u].expired = TRUE]
  /\ UNCHANGED <<inboundVars, tx, receipt, used, memory, speech, say, deeds>>

(* A statement under the lock fails.  A failed charge takes the registration  *)
(* back; the errors of some are ignored; the others end route.                *)
LockedStatementFails(h) ==
  /\ \E u \in Users : lock[u] = h
  /\ FaultAllowed
  /\ errors' = errors + 1
  /\ CASE at[h] = "charge" -> Goto(h, "unregister") /\ UNCHANGED <<err, lock, history>>
       [] at[h] = "settle" -> Goto(h, "learn") /\ UNCHANGED <<err, lock, history>>
       [] at[h] = "learn" -> Goto(h, "clear") /\ UNCHANGED <<err, lock, history>>
       [] at[h] \in {"relearn", "persist", "clear"} -> Goto(h, "reply") /\ UNCHANGED <<err, lock, history>>
       [] OTHER -> EndRoute(h, TRUE) /\ Unlock(h)
  /\ \/ UNCHANGED derived
     \/ at[h] = "export" /\ Derives(who[h], "export")
  /\ UNCHANGED <<setting, msg, acked, people, cur, redact, pm, who, crashes, lapses>>
  /\ UNCHANGED <<records, merchant, rule, lessons, speech, say, deeds>>

-----------------------------------------------------------------------------
CardStep(h) ==
  \/ ConfirmTransaction(h) \/ SettleReceipt(h) \/ DiscardReceipt(h) \/ DiscardTransaction(h)
  \/ AskEdit(h) \/ ApplyEdit(h) \/ RejectEdit(h) \/ ShowAgain(h) \/ CreateManualDraft(h)
  \/ ResolveMerchant(h) \/ AddMerchantAlias(h) \/ Learn(h) \/ RejectEntry(h)

ImageStep(h) ==
  \/ RegisterImage(h) \/ IncrementUsage(h) \/ RefuseImage(h) \/ QueueImage(h)
  \/ EnqueueReceiptJob(h) \/ DeleteReceivedReceipt(h)

AccountStep(h) ==
  \/ SetConsent(h) \/ AskDelete(h) \/ BeginAccountDeletion(h) \/ RemoveExportArtifacts(h)
  \/ PurgeAccountData(h) \/ DeletionConfirmation(h)

EntryStep(h) ==
  \/ AskDeleteRecent(h) \/ DeleteRecent(h) \/ DeleteRecentRefused(h) \/ Recategorise(h)
  \/ PersistInsight(h) \/ WriteExport(h)

LockedStep(h) ==
  CardStep(h) \/ ImageStep(h) \/ AccountStep(h) \/ EntryStep(h)
  \/ ClearPendingAction(h) \/ Reply(h)

WorkerStep == (\E m \in Messages : FinalizeReceiptReview(m)) \/ SendReviewCard

(* What the world does: the provider, clocks and failures. *)
Inbox(A) == A /\ UNCHANGED chatVars
DeliverMessage(m) == Inbox(Quarantine(m) \/ \E h \in Attempts : Deliver(h, m))
AttemptStep(h) == Inbox(InboundStep(h)) \/ LockedStep(h)
LeaseLapses(m) == Inbox(ClaimExpires(m))
Failure == Inbox(InboundFault) \/ \E h \in Attempts : LockedStatementFails(h)

Next ==
  \/ \E m \in Messages : DeliverMessage(m) \/ LeaseLapses(m)
  \/ \E h \in Attempts : AttemptStep(h) \/ Enter(h)
  \/ \E u \in Users : PendingExpires(u)
  \/ WorkerStep
  \/ Failure

(* The provider repeats what was not answered with 200, PostgreSQL grants a   *)
(* lock in turn, a live process goes on, and clocks run.                      *)
Fairness ==
  /\ \A m \in Messages : SF_vars(DeliverMessage(m)) /\ WF_vars(LeaseLapses(m))
  /\ \A h \in Attempts : WF_vars(AttemptStep(h)) /\ SF_vars(Enter(h))
  /\ \A u \in Users : WF_vars(PendingExpires(u))
  /\ WF_vars(SendReviewCard)

Spec == ChatInit /\ [][Next]_vars /\ Fairness

-----------------------------------------------------------------------------
(* HandleEvent and ClaimProviderMessageOpts: a message the provider is told to *)
(* forget has been routed to the end once, or has deleted the account, and it  *)
(* has led to an outbound row, retries included.  A re-shown card of an        *)
(* unchanged draft reuses the key of the card and sends nothing; so do         *)
(* messages of an account on its way out.                                      *)
NoMessageLost ==
  \A m \in Messages :
    acked[m] => \/ script[m] = "malformed"
                \/ handled[m] /\ (m \in answered \/ script[m] = "value" \/ \E u \in Users : Gone(u))

(* bot.go HandleEvent, redaction in the claim: before the sender has consented *)
(* no content is stored except that of the consent dialogue.                   *)
NoContentBeforeConsent ==
  \A m \in Messages : msg[m].raw = "kept" => consented \/ script[m] \in ConsentRelated

(* PurgeAccountData and the check under the lock in route: once a user is      *)
(* deleted no attempt or worker leaves anything of theirs behind; a message    *)
(* row that still carries the user has no content.                             *)
ErasedUserHasNothing ==
  \A u \in Users : users[u] = "deleted" =>
    /\ pending[u] = NoPending /\ used[u] = 0 /\ rule[u] = NoRule /\ derived[u] = {}
    /\ \A m \in Messages : /\ tx[m].owner # u /\ receipt[m].owner # u
                           /\ msg[m].owner = u => msg[m].raw # "kept"

Admitted(u) ==
  {m \in Messages : receipt[m].owner = u
                    /\ receipt[m].status \in {"queued", "review", "confirmed", "deleted"}}

(* handleImage: retries never admit more images than the daily limit, except   *)
(* one for each crash or failed statement between registration and charge or   *)
(* refusal.                                                                    *)
DailyLimitHolds ==
  DailyLimit > 0 =>
    \A u \in Users : Cardinality(Admitted(u)) <= DailyLimit + crashes + errors

(* resolvePending: without faults, whatever a "yes" or a discard is about to   *)
(* change is the subject of the question last put to the sender, although the  *)
(* receipt worker and other messages replace the pending action.               *)
AnswerMeetsQuestion ==
  \A h \in Attempts :
    /\ crashes + lapses + errors = 0
    /\ at[h] \in {"confirm", "discard", "deleteRecent", "markDeleting"}
    => LET p == pending[who[h]] IN Question(p.kind, p.tx) = asked

(* handleText under pollLoop: because a failed update holds back the later     *)
(* ones, a retried answer never settles a second manual entry.                 *)
OneEntryPerAnswer ==
  mode = "poll" =>
    \A m \in Messages : Cardinality({t \in acted[m] : script[t] = "entry"}) <= 1

(* LearnFromConfirmation: a rule holds as many samples as the user has made    *)
(* decisions, and the last of them, although confirmations are retried; what   *)
(* crashes and failing statements lose only makes it weaker.  One decision     *)
(* alone never changes what is suggested: the code keeps to the comment on     *)
(* UserRuleApplyConfidence ("cautious after one correction"), against that on  *)
(* GuessCategoryKey ("override it after one confirmation").                    *)
LessonsLearned ==
  /\ \A u \in Users :
       /\ rule[u].n <= Len(lessons[u])
       /\ crashes + errors = 0 /\ lock[u] = Nobody =>
            /\ rule[u].n = Len(lessons[u])
            /\ lessons[u] # <<>> => rule[u].category = lessons[u][Len(lessons[u])]
  /\ \A t \in Messages :
       tx[t].ver = 1 /\ tx[t].category = "other" => Len(lessons[tx[t].owner]) > 1

(* PurgeAccountData's tombstone: however often the request that deleted an     *)
(* account is delivered again, it never opens a new account, unless the        *)
(* statement that sends the farewell fails, an attempt outlives its lease or   *)
(* the provider repeats the request after the tombstone's 24 hours.            *)
ErasureIsFinal == errors + lapses = 0 => reopenedBy = {}

(* MarkProviderMessage writes without a claim token: while no attempt outlives *)
(* its lease, a processed message is never taken up again; only the tombstone  *)
(* of a deletion can be.                                                       *)
SettledStays ==
  [][\A m \in Messages :
       (msg[m].status = "processed" /\ msg[m].raw # "none" /\ lapses = 0)
         => msg'[m].status \in {"processed", "none"}]_vars

(* An attempt at k has failed for a reason that a repeat does not remove.      *)
Refused(k) == ~acked[k] /\ Row(k) /\ (altered \/ script[k] = "overflow")

(* The provider and the poll loop repeat what failed: every message is         *)
(* acknowledged in the end, through crashes, conflicts, failing statements and *)
(* a deletion prompt that refuses until it expires, unless an error of         *)
(* manualEntry or of the payload hash comes back with every repeat; under the  *)
(* poll loop such a message also holds up all that follow it, and nothing else *)
(* does.                                                                       *)
EveryMessageAcked ==
  <>(\A m \in DOMAIN script :
       acked[m] \/ Refused(m) \/ (mode = "poll" /\ \E k \in 1 .. m - 1 : Refused(k)))
=============================================================================
