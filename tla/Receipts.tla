------------------------------ MODULE Receipts ------------------------------
(***************************************************************************)
(* The receipts of one user: the pipeline that turns an image into a draft *)
(* (internal/receipt/processor.go) driven by the job queue of JobQueue, the *)
(* answers to the card (bot/text.go), the retention sweep (sweeper.go) and *)
(* account deletion (account/delete.go, store/account.go).                 *)
(*                                                                         *)
(* A member of Jobs is a receipt_documents row and its receipt_process job *)
(* (dedupe key "receipt:" and the provider message).  The handler runs in  *)
(* blocks under the user lock with the download and the OCR call between   *)
(* them; a block with several commits has one action per commit, so that a *)
(* crash can fall between two of them.  One calendar month is modelled.    *)
(***************************************************************************)
EXTENDS JobQueue

CONSTANTS
  Image,             \* [Jobs -> images], the content behind the message
  ExtractionEnabled, \* values of the OCR kill switch among the processes
  MonthlyOCRLimit,   \* 0 means unlimited
  LeasesLapse,       \* may a lane that is alive lose its lease?
  MaxErrors,         \* bound on failing calls of media, OCR and object store
  MaxStoreErrors,    \* bound on failing statements of the database
  Nobody, Deleter    \* holders of the user lock besides the lanes

ASSUME SwitchType == ExtractionEnabled \subseteq BOOLEAN /\ LeasesLapse \in BOOLEAN
ASSUME ReceiptBounds ==
  MonthlyOCRLimit \in Nat /\ MaxErrors \in Nat /\ MaxStoreErrors \in Nat
ASSUME LockHolders == Nobody \notin Lanes /\ Deleter \notin Lanes /\ Nobody # Deleter

VARIABLES
  receipt,      \* [Jobs -> status of the row, "none" or "purged"]
  born,         \* [Jobs -> Nat], created_at of the row as a rank
  storageKey,   \* [Jobs -> BOOLEAN], storage_key is not empty
  sha256,       \* [Jobs -> BOOLEAN], sha256 is recorded
  object,       \* [Jobs -> BOOLEAN], the object store holds the original
  expired,      \* [Jobs -> BOOLEAN], delete_after has passed
  draft,        \* [Jobs -> TxStatus], the transaction made from the receipt
  pending,      \* receipt whose draft the user's pending action confirms
  told,         \* [Jobs -> BOOLEAN], card or failure notice is in the outbox
  account,      \* users.status
  ocrPages,     \* usage counter ocr_pages
  ocrCalls,     \* Extractor.Extract calls made (history)
  lock,         \* holder of the user lock
  at,           \* [Lanes -> step], where Processor.Handle stands
  fetched,      \* [Lanes -> BOOLEAN], prep.receipt.StorageKey is not empty
  result,       \* [Lanes -> outcome], outcome of the last external call
  batch,        \* what the sweep has listed and not finished
  keys,         \* what account deletion has listed and not deleted
  errors, storeErrors

meta == <<born, expired, account>>
image == <<storageKey, sha256, object>>
review == <<draft, pending, told>>
usage == <<ocrPages, ocrCalls>>
local == <<at, fetched, result>>
failures == <<errors, storeErrors>>
rowData == <<receipt, meta, image, review, usage>>
control == <<lock, local>>
others == <<batch, keys, failures>>
receiptVars == <<rowData, control, others>>
vars == <<queueVars, receiptVars>>

TerminalReceipt == {"review_required", "confirmed", "deleted", "failed_permanent"}
InFlight == {"queued", "downloading", "stored", "extracting", "failed_transient"}

Row(r) == receipt[r] \notin {"none", "purged"}

ReceiptsInit ==
  /\ QueueInit
  /\ receipt = [r \in Jobs |-> "none"]
  /\ born = [r \in Jobs |-> 0]
  /\ storageKey = [r \in Jobs |-> FALSE]
  /\ sha256 = [r \in Jobs |-> FALSE]
  /\ object = [r \in Jobs |-> FALSE]
  /\ expired = [r \in Jobs |-> FALSE]
  /\ draft = [r \in Jobs |-> "none"]
  /\ pending = NoJob
  /\ told = [r \in Jobs |-> FALSE]
  /\ account = "active"
  /\ ocrPages = 0 /\ ocrCalls = 0
  /\ lock = Nobody
  /\ at = [w \in Lanes |-> "off"]
  /\ fetched = [w \in Lanes |-> FALSE]
  /\ result = [w \in Lanes |-> "none"]
  /\ batch = {} /\ keys = {}
  /\ errors = 0 /\ storeErrors = 0

-----------------------------------------------------------------------------
(* The state machine of domain/state.go. *)

CanTransition(from, to) ==
  to \in CASE from = "queued"           -> {"downloading", "deleted"}
           [] from = "downloading"      -> {"stored", "failed_transient", "failed_permanent"}
           [] from = "stored"           -> {"extracting", "deleted", "failed_transient",
                                            "failed_permanent"}
           [] from = "extracting"       -> {"review_required", "failed_transient",
                                            "failed_permanent"}
           [] from = "review_required"  -> {"confirmed", "deleted"}
           [] from = "confirmed"        -> {"deleted"}
           [] from = "failed_transient" -> {"queued", "failed_permanent", "deleted"}
           [] from = "failed_permanent" -> {"deleted"}
           [] OTHER                     -> {}

SetStatus(r, s) == receipt' = [receipt EXCEPT ![r] = s]
Goto(w, step) == at' = [at EXCEPT ![w] = step]
Failing == errors < MaxErrors /\ errors' = errors + 1
StoreFailing == storeErrors < MaxStoreErrors /\ storeErrors' = storeErrors + 1

(* On to the next step, with the lock taken, kept or released.              *)
Continue(w, step, holder) ==
  /\ Goto(w, step)
  /\ lock' = holder
  /\ UNCHANGED <<queueVars, fetched, result>>

(* The end of Handle: what the worker does with its result.                 *)
Done(w, next) ==
  /\ Return(w, next)
  /\ Goto(w, "off")
  /\ lock' = IF lock = w THEN Nobody ELSE lock
  /\ fetched' = [fetched EXCEPT ![w] = FALSE]
  /\ result' = [result EXCEPT ![w] = "none"]

(* Mutant: a permanent failure is not answered. *)
FailWithSilently(w, next) ==
  /\ IF CanTransition(receipt[held[w]], "failed_permanent")
     THEN SetStatus(held[w], "failed_permanent") ELSE UNCHANGED receipt
  /\ Done(w, "ack")

(* failWith, under the lock: the answer follows in step next once the       *)
(* receipt is settled, be it by another lane; otherwise the job is retried. *)
FailWith(w, next) ==
  LET r == held[w] IN
  /\ receipt' = IF CanTransition(receipt[r], "failed_permanent")
                THEN [receipt EXCEPT ![r] = "failed_permanent"] ELSE receipt
  /\ IF receipt'[r] \in TerminalReceipt THEN Continue(w, next, w) ELSE Done(w, "nack")

(* Mutant: the job of a transient failure is Acked. *)
FailTransientAcked(w) ==
  /\ receipt' = [receipt EXCEPT ![held[w]] = "failed_transient"]
  /\ Done(w, "ack")

(* fail with a retryable cause: the error of TransitionReceipt is ignored.  *)
FailTransient(w) ==
  LET r == held[w] IN
  /\ receipt' = IF CanTransition(receipt[r], "failed_transient")
                THEN [receipt EXCEPT ![r] = "failed_transient"] ELSE receipt
  /\ Done(w, "nack")

-----------------------------------------------------------------------------
(* The webhook's handleImage, as far as the pipeline sees it. *)

RegisterReceipt(r) ==
  /\ receipt[r] = "none" /\ account = "active" /\ lock = Nobody
  /\ SetStatus(r, "queued")
  /\ born' = [born EXCEPT ![r] = 1 + Cardinality({i \in Jobs : born[i] > 0})]
  /\ UNCHANGED <<queueVars, image, expired, review, account, usage, control, others>>

EnqueueReceipt(r) ==
  /\ receipt[r] = "queued" /\ account = "active" /\ lock = Nobody
  /\ Enqueue(r)
  /\ UNCHANGED receiptVars

-----------------------------------------------------------------------------
(* Processor.Handle. *)

Claim(w, r) ==
  /\ Dequeue(w, r)
  /\ Goto(w, "prepare")
  /\ UNCHANGED <<rowData, lock, fetched, result, others>>

(* Mutant: failed_transient is skipped like the other failure. *)
PrepareSkipsFailed(w) ==
  /\ at[w] = "prepare" /\ lock = Nobody
  /\ IF receipt[held[w]] \in TerminalReceipt \cup {"failed_transient", "purged"}
     THEN Done(w, "ack")
     ELSE Continue(w, "download", w)
  /\ UNCHANGED <<rowData, others>>

(* prepareReceipt: skip what is deleted or settled; a failed_transient row  *)
(* is queued again first.  A user who is being deleted is not skipped.      *)
Prepare(w) ==
  LET r == held[w]
      skip == account = "deleted" \/ ~Row(r) \/ receipt[r] \in TerminalReceipt IN
  /\ at[w] = "prepare" /\ lock = Nobody
  /\ \/ skip /\ Done(w, "ack") /\ UNCHANGED receipt
     \/ /\ ~skip /\ receipt[r] = "failed_transient"
        /\ SetStatus(r, "queued")
        /\ Continue(w, "download", w)
     \/ /\ ~skip /\ receipt[r] # "failed_transient"
        /\ Continue(w, "download", w)
        /\ UNCHANGED receipt
  /\ UNCHANGED <<meta, image, review, usage, others>>

(* The rest of prepareReceipt; prep keeps the row's storage key.            *)
StartDownload(w) ==
  LET r == held[w] IN
  /\ at[w] = "download"
  /\ receipt' = [receipt EXCEPT ![r] = IF @ = "queued" THEN "downloading" ELSE @]
  /\ Goto(w, "load")
  /\ lock' = Nobody
  /\ fetched' = [fetched EXCEPT ![w] = storageKey[r]]
  /\ UNCHANGED <<queueVars, meta, image, review, usage, result, others>>

(* A load that failed, outside the lock. *)
LoadFailing(w, res) ==
  /\ result' = [result EXCEPT ![w] = res]
  /\ Goto(w, "fail")
  /\ UNCHANGED fetched

(* readStored: a failure is transient, a missing original too, except for   *)
(* an original over the size limit.                                         *)
ReadStored(w) ==
  /\ at[w] = "load" /\ fetched[w]
  /\ \/ object[held[w]] /\ Goto(w, "arm") /\ UNCHANGED <<fetched, result, errors>>
     \/ ~object[held[w]] /\ LoadFailing(w, "transient") /\ UNCHANGED errors
     \/ Failing /\ LoadFailing(w, "transient")
     \/ object[held[w]] /\ Failing /\ LoadFailing(w, "permanent")
  /\ UNCHANGED <<queueVars, rowData, lock, batch, keys, storeErrors>>

(* fetchAndValidate, then Put.  The media may be refused for good; a Put    *)
(* that reports an error may have stored it.                                *)
FetchAndPut(w) ==
  LET put == [object EXCEPT ![held[w]] = TRUE] IN
  /\ at[w] = "load" /\ ~fetched[w]
  /\ \/ /\ object' = put
        /\ fetched' = [fetched EXCEPT ![w] = TRUE]
        /\ Goto(w, "arm")
        /\ UNCHANGED <<result, errors>>
     \/ Failing /\ object' \in {object, put} /\ LoadFailing(w, "transient")
     \/ Failing /\ UNCHANGED object /\ LoadFailing(w, "permanent")
  /\ UNCHANGED <<queueVars, receipt, meta, storageKey, sha256, review, usage, lock,
                 batch, keys, storeErrors>>

(* withLockedReceipt after a failed load: it looks at no terminal status.   *)
LoadFailed(w) ==
  LET r == held[w] IN
  /\ at[w] = "fail" /\ lock = Nobody
  /\ \/ ~Row(r) /\ Done(w, "ack") /\ UNCHANGED receipt
     \/ Row(r) /\ result[w] = "transient" /\ FailTransient(w)
     \/ Row(r) /\ result[w] = "permanent" /\ FailWith(w, "answer")
  /\ UNCHANGED <<meta, image, review, usage, others>>

(* FindReceiptByHash returns the newest row of the user with this content   *)
(* that is not deleted.                                                     *)
SameContent(r) ==
  {i \in Jobs : Row(i) /\ receipt[i] # "deleted" /\ sha256[i] /\ Image[i] = Image[r]}

Duplicate(r) ==
  \E i \in SameContent(r) : i # r /\ \A k \in SameContent(r) : born[k] <= born[i]

(* Mutant: the block does not take the user lock. *)
ArmWithoutLock(w) ==
  /\ at[w] = "arm"
  /\ IF Row(held[w]) /\ receipt[held[w]] \notin TerminalReceipt /\ ~Duplicate(held[w])
     THEN Continue(w, "record", lock)
     ELSE Done(w, "ack")
  /\ UNCHANGED <<rowData, others>>

(* armExtraction up to the duplicate check. *)
Arm(w) ==
  LET r == held[w]
      skip == ~Row(r) \/ receipt[r] \in TerminalReceipt IN
  /\ at[w] = "arm" /\ lock = Nobody
  /\ \/ skip /\ Done(w, "ack") /\ UNCHANGED receipt
     \/ ~skip /\ Duplicate(r) /\ FailWith(w, "refuse")
     \/ ~skip /\ ~Duplicate(r) /\ Continue(w, "record", w) /\ UNCHANGED receipt
  /\ UNCHANGED <<meta, image, review, usage, others>>

(* Mutant: the key is not written with the hash. *)
SetHashOnly(w) ==
  /\ at[w] = "record"
  /\ sha256' = [sha256 EXCEPT ![held[w]] = TRUE]
  /\ Continue(w, "store", lock)
  /\ UNCHANGED <<receipt, meta, storageKey, object, review, usage, others>>

(* The key of the fetched original and its hash, if the row has none.       *)
SetReceiptStored(w) ==
  LET r == held[w] IN
  /\ at[w] = "record"
  /\ storageKey' = [storageKey EXCEPT ![r] = TRUE]
  /\ sha256' = [sha256 EXCEPT ![r] = TRUE]
  /\ Continue(w, "store", lock)
  /\ UNCHANGED <<receipt, meta, object, review, usage, others>>

(* downloading -> stored *)
MarkStored(w) ==
  LET r == held[w] IN
  /\ at[w] = "store"
  /\ receipt' = [receipt EXCEPT ![r] = IF @ = "downloading" THEN "stored" ELSE @]
  /\ Continue(w, "extracting", w)
  /\ UNCHANGED <<meta, image, review, usage, others>>

(* stored -> extracting; any other status is CodeInternal, which ackPolicy  *)
(* turns into a retry.                                                      *)
MarkExtracting(w) ==
  LET r == held[w] IN
  /\ at[w] = "extracting"
  /\ \/ /\ receipt[r] \in {"stored", "extracting"}
        /\ SetStatus(r, "extracting")
        /\ Continue(w, "charge", w)
     \/ /\ receipt[r] \notin {"stored", "extracting"}
        /\ Done(w, "nack")
        /\ UNCHANGED receipt
  /\ UNCHANGED <<meta, image, review, usage, others>>

(* Mutant: one call over the limit. *)
OverLimitLate(count) == MonthlyOCRLimit > 0 /\ count > MonthlyOCRLimit + 1

OverLimit(count) == MonthlyOCRLimit > 0 /\ count > MonthlyOCRLimit

IncrementUsage == ocrPages' = ocrPages + 1

(* The kill switch and IncrementUsage, whose failure is a permanent one.    *)
ChargeOCR(w) ==
  /\ at[w] = "charge"
  /\ \/ /\ FALSE \in ExtractionEnabled
        /\ FailWith(w, "refuse")
        /\ UNCHANGED <<ocrPages, storeErrors>>
     \/ /\ TRUE \in ExtractionEnabled
        /\ IncrementUsage
        /\ IF OverLimit(ocrPages')
           THEN FailWith(w, "refuse")
           ELSE Continue(w, "extract", Nobody) /\ UNCHANGED receipt
        /\ UNCHANGED storeErrors
     \/ /\ TRUE \in ExtractionEnabled
        /\ StoreFailing
        /\ FailWith(w, "refuse")
        /\ UNCHANGED ocrPages
  /\ UNCHANGED <<meta, image, review, ocrCalls, batch, keys, errors>>

(* Extractor.Extract, outside the lock. *)
Extract(w) ==
  /\ at[w] = "extract"
  /\ ocrCalls' = ocrCalls + 1
  /\ \E res \in {"ok", "transient", "permanent"} :
       /\ IF res = "ok" THEN UNCHANGED errors ELSE Failing
       /\ result' = [result EXCEPT ![w] = res]
  /\ Goto(w, "finish")
  /\ UNCHANGED <<queueVars, receipt, meta, image, review, ocrPages, lock, fetched,
                 batch, keys, storeErrors>>

(* Mutant: the draft is committed without the status. *)
FinishDraftOnly(w) ==
  /\ at[w] = "finish" /\ lock = Nobody
  /\ IF Row(held[w]) /\ result[w] = "ok"
     THEN /\ draft' = [draft EXCEPT ![held[w]] = "awaiting"]
          /\ pending' = held[w]
          /\ Continue(w, "answer", w)
     ELSE Done(w, "ack") /\ UNCHANGED <<draft, pending>>
  /\ UNCHANGED <<receipt, meta, image, told, usage, others>>

(* One transaction writes draft, status and pending action, which replaces  *)
(* the one the user had.                                                    *)
FinalizeReceiptReview(r) ==
  /\ receipt[r] = "extracting"
  /\ SetStatus(r, "review_required")
  /\ draft' = [draft EXCEPT ![r] = "awaiting"]
  /\ pending' = r

(* finishExtraction up to the reply.  A conflict of FinalizeReceiptReview   *)
(* is taken for the progress of another lane; its failure is permanent.     *)
Finish(w) ==
  LET r == held[w]
      skip == ~Row(r) \/ receipt[r] \in TerminalReceipt IN
  /\ at[w] = "finish" /\ lock = Nobody
  /\ \/ skip /\ Done(w, "ack") /\ UNCHANGED <<receipt, draft, pending, storeErrors>>
     \/ /\ ~skip /\ result[w] = "transient"
        /\ FailTransient(w)
        /\ UNCHANGED <<draft, pending, storeErrors>>
     \/ /\ ~skip /\ result[w] = "permanent"
        /\ FailWith(w, "answer")
        /\ UNCHANGED <<draft, pending, storeErrors>>
     \/ /\ ~skip /\ result[w] = "ok"
        /\ FinalizeReceiptReview(r)
        /\ Continue(w, "answer", w)
        /\ UNCHANGED storeErrors
     \/ /\ ~skip /\ result[w] = "ok" /\ receipt[r] # "extracting"
        /\ Done(w, "ack")
        /\ UNCHANGED <<receipt, draft, pending, storeErrors>>
     \/ /\ ~skip /\ result[w] = "ok"
        /\ StoreFailing
        /\ FailWith(w, "answer")
        /\ UNCHANGED <<draft, pending>>
  /\ UNCHANGED <<meta, image, told, usage, batch, keys, errors>>

(* Reply with the card or the failure notice.  The receipt is settled, so   *)
(* ackPolicy swallows an error of Reply.                                    *)
Answer(w) ==
  LET r == held[w] IN
  /\ at[w] = "answer"
  /\ \/ told' = [told EXCEPT ![r] = TRUE] /\ UNCHANGED storeErrors
     \/ StoreFailing /\ UNCHANGED told
  /\ Done(w, "ack")
  /\ UNCHANGED <<receipt, meta, image, draft, pending, usage, batch, keys, errors>>

(* The same Reply inside armExtraction.  An error that ackPolicy swallows   *)
(* leaves prep.skip unset: Handle goes on to Extract.                       *)
Refuse(w) ==
  LET r == held[w] IN
  /\ at[w] = "refuse"
  /\ \/ /\ told' = [told EXCEPT ![r] = TRUE]
        /\ Done(w, "ack")
        /\ UNCHANGED storeErrors
     \/ /\ StoreFailing
        /\ Continue(w, "extract", Nobody)
        /\ UNCHANGED told
  /\ UNCHANGED <<receipt, meta, image, draft, pending, usage, batch, keys, errors>>

(* Any other statement of a locked block fails.  ackPolicy asks for a retry *)
(* unless it reads that the receipt is settled: its own read may fail too,  *)
(* and the failures of fail and failWith are retried without it.            *)
StoreError(w) ==
  LET r == held[w] IN
  /\ at[w] \in {"prepare", "download", "fail", "arm", "record", "store", "extracting",
               "charge", "finish", "answer", "refuse"}
  /\ at[w] = "fail" => Row(r)
  /\ lock \in {Nobody, w}
  /\ StoreFailing
  /\ \/ Done(w, "nack")
     \/ receipt[r] \in TerminalReceipt /\ at[w] = "arm" /\ Continue(w, "extract", Nobody)
     \/ /\ receipt[r] \in TerminalReceipt /\ at[w] \notin {"fail", "arm", "answer", "refuse"}
        /\ Done(w, "ack")
  /\ UNCHANGED <<rowData, batch, keys, errors>>

(* WithUserLock fails before its callback runs, or withLockedReceipt cannot *)
(* read the row: the error has no code and the worker Acks it.              *)
LockError(w) ==
  /\ at[w] \in {"prepare", "fail", "arm", "finish"}
  /\ StoreFailing
  /\ Done(w, "ack")
  /\ UNCHANGED <<rowData, batch, keys, errors>>

LaneCrash(w) ==
  /\ Crash(w)
  /\ Goto(w, "off")
  /\ lock' = IF lock = w THEN Nobody ELSE lock
  /\ fetched' = [fetched EXCEPT ![w] = FALSE]
  /\ result' = [result EXCEPT ![w] = "none"]
  /\ UNCHANGED <<rowData, others>>

-----------------------------------------------------------------------------
(* The user answers the card.  Every answer runs under the user lock.       *)

UpdateTransaction(r) == draft' = [draft EXCEPT ![r] = "confirmed"]
SoftDeleteTransaction(r) == draft' = [draft EXCEPT ![r] = "deleted"]

(* confirmTx: three commits.  The errors of the second and the third are    *)
(* ignored, and a crash leaves what was not reached.                        *)
ConfirmTx(r) ==
  LET confirmed == [receipt EXCEPT ![r] = IF @ = "review_required" THEN "confirmed" ELSE @] IN
  /\ pending = r /\ account = "active" /\ lock = Nobody
  /\ \/ /\ draft[r] = "awaiting"
        /\ UpdateTransaction(r)
        /\ receipt' \in {receipt, confirmed}
        /\ pending' \in {r, NoJob}
        /\ IF receipt' = confirmed /\ pending' = NoJob THEN UNCHANGED errors ELSE Failing
     \/ /\ draft[r] # "awaiting"
        /\ pending' = NoJob
        /\ UNCHANGED <<draft, receipt, errors>>
  /\ UNCHANGED <<queueVars, meta, image, told, usage, control, batch, keys, storeErrors>>

(* discardTx: the receipt, then the transaction, then the pending action.   *)
DiscardTx(r) ==
  /\ pending = r /\ account = "active" /\ lock = Nobody
  /\ receipt' = [receipt EXCEPT ![r] = IF @ = "review_required" THEN "deleted" ELSE @]
  /\ \/ /\ SoftDeleteTransaction(r)
        /\ pending' \in {r, NoJob}
        /\ IF pending' = NoJob THEN UNCHANGED errors ELSE Failing
     \/ Failing /\ UNCHANGED <<draft, pending>>
  /\ UNCHANGED <<queueVars, meta, image, told, usage, control, batch, keys, storeErrors>>

(* GetPendingAction deletes an action whose 24 hours are over.              *)
PendingExpires ==
  /\ pending # NoJob
  /\ pending' = NoJob
  /\ UNCHANGED <<queueVars, receipt, meta, image, draft, told, usage, control, others>>

-----------------------------------------------------------------------------
(* The retention sweep.  It takes no user lock. *)

DeleteAfterPasses(r) ==
  /\ Row(r) /\ ~expired[r]
  /\ expired' = [expired EXCEPT ![r] = TRUE]
  /\ UNCHANGED <<queueVars, receipt, born, image, review, account, usage, control, others>>

(* Mutant: the status of an expired row is not looked at. *)
PendingDeletionAnyStatus(r) ==
  \/ expired[r] /\ Row(r)
  \/ receipt[r] = "deleted" /\ storageKey[r]

(* Mutant: delete_after is not looked at. *)
PendingDeletionAtOnce(r) ==
  \/ receipt[r] \in {"confirmed", "failed_permanent", "review_required"}
  \/ receipt[r] = "deleted" /\ storageKey[r]

(* Mutant: discarded receipts are not listed. *)
PendingDeletionExpiredOnly(r) ==
  expired[r] /\ receipt[r] \in {"confirmed", "failed_permanent", "review_required"}

PendingDeletion(r) ==
  \/ expired[r] /\ receipt[r] \in {"confirmed", "failed_permanent", "review_required"}
  \/ receipt[r] = "deleted" /\ storageKey[r]

ListReceiptsPendingDeletion ==
  /\ batch = {}
  /\ \E r \in Jobs : PendingDeletion(r)
  /\ batch' = {[id |-> r, status |-> receipt[r], key |-> storageKey[r], step |-> "object"] :
               r \in {i \in Jobs : PendingDeletion(i)}}
  /\ UNCHANGED <<queueVars, rowData, control, keys, failures>>

Step(x, step) == batch' = (batch \ {x}) \cup {[x EXCEPT !.step = step]}
Drop(x) == batch' = batch \ {x}

(* objects.Delete of the key the listing has read; a failure skips the row. *)
SweepObject(x) ==
  /\ x.step = "object"
  /\ \/ /\ object' = [object EXCEPT ![x.id] = @ /\ ~x.key]
        /\ Step(x, IF x.status = "deleted" THEN "clear" ELSE "row")
        /\ UNCHANGED errors
     \/ x.key /\ Failing /\ Drop(x) /\ UNCHANGED object
  /\ UNCHANGED <<receipt, storageKey, storeErrors>>

(* TransitionReceipt from the status the listing has read.                  *)
SweepRow(x) ==
  /\ x.step = "row"
  /\ IF receipt[x.id] = x.status
     THEN SetStatus(x.id, "deleted") /\ Step(x, "clear")
     ELSE UNCHANGED receipt /\ Drop(x)
  /\ UNCHANGED <<object, storageKey, failures>>

ClearReceiptStorageKey(x) ==
  /\ x.step = "clear"
  /\ storageKey' = [storageKey EXCEPT ![x.id] = FALSE]
  /\ Drop(x)
  /\ UNCHANGED <<object, receipt, failures>>

(* The sweep's process dies, or a statement of it fails. *)
SweepStops ==
  /\ batch # {} /\ batch' = {}
  /\ StoreFailing
  /\ UNCHANGED <<object, receipt, storageKey, errors>>

SweepStep ==
  /\ (\E x \in batch : SweepObject(x) \/ SweepRow(x) \/ ClearReceiptStorageKey(x))
  /\ UNCHANGED <<queueVars, meta, sha256, review, usage, control, keys>>

-----------------------------------------------------------------------------
(* Account deletion, under the user lock from its first step to its last.   *)

(* A user found in deleting is turned away by route (bot.go), so that only  *)
(* an active one gets here.                                                 *)
BeginAccountDeletion ==
  /\ account = "active" /\ lock = Nobody
  /\ account' = "deleting"
  /\ lock' = Deleter
  /\ keys' = {r \in Jobs : storageKey[r]}
  /\ UNCHANGED <<queueVars, receipt, born, image, expired, review, usage, local, batch, failures>>

DeleteOriginal(r) ==
  /\ lock = Deleter /\ r \in keys
  /\ object' = [object EXCEPT ![r] = FALSE]
  /\ keys' = keys \ {r}
  /\ UNCHANGED <<queueVars, receipt, meta, storageKey, sha256, review, usage, control,
                 batch, failures>>

(* An object cannot be deleted, or the process dies: the user stays deleting.*)
DeletionFails ==
  /\ lock = Deleter
  /\ Failing
  /\ lock' = Nobody
  /\ keys' = {}
  /\ UNCHANGED <<queueVars, rowData, local, batch, storeErrors>>

PurgeAccountData ==
  LET mine == {r \in Jobs : Stored(r)} IN
  /\ lock = Deleter /\ keys = {}
  /\ account' = "deleted"
  /\ receipt' = [r \in Jobs |-> IF Row(r) THEN "purged" ELSE receipt[r]]
  /\ storageKey' = [r \in Jobs |-> FALSE]
  /\ sha256' = [r \in Jobs |-> FALSE]
  /\ draft' = [r \in Jobs |-> "none"]
  /\ pending' = NoJob
  /\ IF mine = {} THEN UNCHANGED queueVars ELSE Delete(mine)
  /\ lock' = Nobody
  /\ UNCHANGED <<born, object, expired, told, usage, local, others>>

-----------------------------------------------------------------------------
ProcessorStep(w) ==
  \/ \E r \in Jobs : Claim(w, r)
  \/ Prepare(w) \/ StartDownload(w) \/ ReadStored(w) \/ FetchAndPut(w) \/ LoadFailed(w)
  \/ Arm(w) \/ SetReceiptStored(w) \/ MarkStored(w) \/ MarkExtracting(w) \/ ChargeOCR(w)
  \/ Refuse(w) \/ Extract(w) \/ Finish(w) \/ Answer(w)
  \/ (Ack(w) \/ Nack(w) \/ Poll(w)) /\ UNCHANGED receiptVars

QueueStep ==
  /\ \/ \E w \in Lanes : Heartbeat(w)
     \/ \E r \in Jobs : BackoffElapses(r) \/ LeaseExpires(r)
     \/ LeasesLapse /\ \E w \in Lanes : Stall(w) \/ HeartbeatFails(w)
  /\ UNCHANGED receiptVars

UserStep ==
  \/ \E r \in Jobs : RegisterReceipt(r) \/ EnqueueReceipt(r) \/ ConfirmTx(r) \/ DiscardTx(r)
  \/ PendingExpires

DeletionStep ==
  BeginAccountDeletion \/ (\E r \in Jobs : DeleteOriginal(r)) \/ PurgeAccountData

RetentionStep ==
  \/ ListReceiptsPendingDeletion
  \/ SweepStep
  \/ SweepStops /\ UNCHANGED <<queueVars, meta, sha256, review, usage, control, keys>>

ReceiptsNext ==
  \/ \E w \in Lanes : ProcessorStep(w) \/ StoreError(w) \/ LockError(w) \/ LaneCrash(w)
  \/ QueueStep
  \/ UserStep
  \/ \E r \in Jobs : DeleteAfterPasses(r)
  \/ RetentionStep
  \/ DeletionStep \/ DeletionFails

ReceiptsSpec == ReceiptsInit /\ [][ReceiptsNext]_vars

(* Lanes keep running and their calls return, PostgreSQL grants the lock to *)
(* every waiter in turn, time passes, the sweep is started every hour, and  *)
(* a deletion that was begun goes on until it fails.  The user need not act. *)
FairReceiptsSpec ==
  /\ ReceiptsSpec
  /\ \A w \in Lanes :
       /\ WF_vars(ProcessorStep(w))
       /\ SF_vars(Prepare(w) \/ LoadFailed(w) \/ Arm(w) \/ Finish(w))
       /\ WF_vars(Heartbeat(w) /\ UNCHANGED receiptVars)
  /\ \A r \in Jobs : WF_vars((BackoffElapses(r) \/ LeaseExpires(r)) /\ UNCHANGED receiptVars)
  /\ WF_vars(ListReceiptsPendingDeletion) /\ WF_vars(SweepStep)
  /\ WF_vars((\E r \in Jobs : DeleteOriginal(r)) \/ PurgeAccountData)
-----------------------------------------------------------------------------
(* Properties. *)

(* The duplicate check of armExtraction is a read followed by a write of    *)
(* sha256 in another statement: the user lock alone keeps two lanes from    *)
(* recording one image twice among the rows that are not deleted.           *)
OneReceiptPerImage ==
  \A r, i \in Jobs :
    r # i /\ Image[r] = Image[i] /\ sha256[r] /\ sha256[i]
      => "deleted" \in {receipt[r], receipt[i]}

(* processor.go: MonthlyOCRLimit "caps paid extraction calls per calendar   *)
(* month", whatever crashes, retries and overlapping lanes do.              *)
OCRWithinLimit ==
  /\ ocrCalls <= ocrPages
  /\ MonthlyOCRLimit > 0 => ocrCalls <= MonthlyOCRLimit

(* A receipt is reviewable exactly when its draft exists: no crash, retry   *)
(* or second lane leaves a card without a transaction, a draft of a receipt *)
(* still in work, or a confirmed receipt whose transaction never was.       *)
DraftMatchesReceipt ==
  \A r \in Jobs :
    /\ receipt[r] \in InFlight \cup {"failed_permanent"} => draft[r] = "none"
    /\ receipt[r] = "review_required" => draft[r] \in {"awaiting", "confirmed"}
    /\ receipt[r] = "confirmed" => draft[r] \in {"confirmed", "deleted"}

(* A retry that finds a storage key reads the original back instead of      *)
(* downloading it: as long as the receipt is in work and its user is not    *)
(* being deleted, the sweep has not taken it away.                          *)
OriginalAvailable ==
  \A r \in Jobs :
    receipt[r] \in InFlight /\ storageKey[r] /\ account = "active" => object[r]

(* The sweep acts on a listing that may be stale: it removes no original    *)
(* before delete_after, unless the user discarded the receipt or deletes    *)
(* the account.                                                             *)
SweptOnlyWhenDue ==
  [][\A r \in Jobs : object[r] /\ ~object'[r]
       => expired[r] \/ receipt[r] = "deleted" \/ account # "active"]_vars

(* worker.go: "the handler must persist a durable terminal outcome or       *)
(* return CodeTransient".  A job that is done has settled its receipt.      *)
DoneIsDurable ==
  \A r \in Jobs : status[r] = "done" => receipt[r] \in TerminalReceipt \cup {"purged"}

(* processor.go: failures are answered "so the user is never left silent".  *)
(* A receipt that was settled and whose job is done has had its card or     *)
(* notice, whatever other lanes did to it, unless its own claim was lost or *)
(* a statement failed between the settling commit and the reply.            *)
NeverSilent ==
  \A r \in Jobs :
    status[r] = "done" /\ receipt[r] \in TerminalReceipt /\ lost[r] = 0 /\ storeErrors = 0
      => told[r]

(* privacy-data-map.md: originals are "deleted by the retention sweep",     *)
(* which finds them by storage_key: a crash anywhere between Put and the    *)
(* commit of the key is made good by the retry.  Left out are a Put that    *)
(* reported an error, and a duplicate, whose original is Put before the     *)
(* check and never gets its key recorded.                                   *)
OriginalsAreTracked ==
  \A r \in Jobs :
    /\ receipt[r] \in TerminalReceipt
    /\ object[r]
    /\ errors = 0
    /\ (\A i \in Jobs \ {r} : Image[i] # Image[r])
    => storageKey[r]

(* delete.go: deletion "waits for in-flight work" and all receipts "are     *)
(* physically removed".                                                     *)
ErasedMeansErased ==
  account = "deleted" /\ (\A w \in Lanes : at[w] = "off") => \A r \in Jobs : ~object[r]

(* Crash recovery: a receipt whose job was enqueued is settled, purged with *)
(* its user, or dead-lettered after its last attempt.                       *)
EveryReceiptSettles ==
  \A r \in Jobs : status[r] = "queued" ~>
    receipt[r] \in TerminalReceipt \cup {"purged"} \/ status[r] = "dead"

(* Retention: a recorded original goes once delete_after has passed on a    *)
(* settled receipt, or once the user has discarded it.                      *)
ExpiredOriginalsGo ==
  \A r \in Jobs :
    storageKey[r] /\ (receipt[r] = "deleted" \/ (expired[r] /\ receipt[r] \in TerminalReceipt))
      ~> ~object[r]

(* privacy-data-map.md: "a failure leaves the database intact so deletion   *)
(* can be retried".  A deletion that was begun is completed.                *)
DeletionCompletes == account = "deleting" ~> account = "deleted"
=============================================================================
