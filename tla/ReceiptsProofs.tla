--------------------------- MODULE ReceiptsProofs ---------------------------
(* Proofs about Receipts for any number of receipts, lanes, faults and       *)
(* errors.  What depends on a lane keeping its lease, or on the database     *)
(* answering, says so in its theorem.                                        *)
EXTENDS Receipts, JobQueueProofs

Steps == {"off", "prepare", "download", "load", "fail", "arm", "record", "store",
          "extracting", "charge", "refuse", "extract", "finish", "answer"}

(* Where a lane stands inside a callback of WithUserLock. *)
LockedSteps == {"download", "record", "store", "extracting", "charge", "refuse", "answer"}

Settlement == TerminalReceipt \cup {"purged"}
ReceiptStatus == {"none"} \cup InFlight \cup Settlement
Listing == [id : Jobs, status : TerminalReceipt, key : BOOLEAN, step : {"object", "row", "clear"}]

ReceiptsTypeOK ==
  /\ QueueTypeOK
  /\ receipt \in [Jobs -> ReceiptStatus]
  /\ born \in [Jobs -> Nat]
  /\ storageKey \in [Jobs -> BOOLEAN] /\ sha256 \in [Jobs -> BOOLEAN]
  /\ object \in [Jobs -> BOOLEAN] /\ expired \in [Jobs -> BOOLEAN]
  /\ draft \in [Jobs -> {"none", "awaiting", "confirmed", "deleted"}]
  /\ pending \in Jobs \cup {NoJob}
  /\ told \in [Jobs -> BOOLEAN]
  /\ account \in {"active", "deleting", "deleted"}
  /\ ocrPages \in Nat /\ ocrCalls \in Nat
  /\ lock \in Lanes \cup {Nobody, Deleter}
  /\ at \in [Lanes -> Steps]
  /\ fetched \in [Lanes -> BOOLEAN]
  /\ result \in [Lanes -> {"none", "ok", "transient", "permanent"}]
  /\ batch \subseteq Listing /\ keys \subseteq Jobs
  /\ errors \in Nat /\ storeErrors \in Nat

(* A lane is inside Processor.Handle exactly while its loop runs a handler. *)
LaneInv == \A w \in Lanes : at[w] # "off" <=> phase[w] = "handling"

(* The user lock is held by the lane inside a locked block, if there is one, *)
(* or by the deletion, which owns its list of keys.                          *)
LockInv ==
  /\ \A w \in Lanes : at[w] \in LockedSteps <=> lock = w
  /\ keys # {} => lock = Deleter
  /\ lock = Deleter => account = "deleting"

PipelineInv == ReceiptsTypeOK /\ ClaimInv /\ LaneInv /\ LockInv

(* The steps of Processor.Handle between the claim and the return. *)
HandlerStep(w) ==
  \/ Prepare(w) \/ StartDownload(w) \/ ReadStored(w) \/ FetchAndPut(w) \/ LoadFailed(w)
  \/ Arm(w) \/ SetReceiptStored(w) \/ MarkStored(w) \/ MarkExtracting(w) \/ ChargeOCR(w)
  \/ Refuse(w) \/ Extract(w) \/ Finish(w) \/ Answer(w)
  \/ StoreError(w) \/ LockError(w)

-----------------------------------------------------------------------------
(* Inside the handler the lane holds a receipt. *)
LEMMA HeldReceipt ==
  ASSUME PipelineInv, NEW w \in Lanes, at[w] # "off"
  PROVE  held[w] \in Jobs
  BY NoJobIsNew DEF PipelineInv, ReceiptsTypeOK, QueueTypeOK, ClaimInv, LaneInv, Phase

(* What a step of the handler does to the lane, the lock and the queue: on   *)
(* to another step with the lock taken, kept or released, or back to the     *)
(* worker's loop without the lock.                                           *)
Moves(w, step) ==
  /\ UNCHANGED queueVars
  /\ at' = [at EXCEPT ![w] = step]
  /\ \/ step \in LockedSteps /\ lock \in {Nobody, w} /\ lock' = w
     \/ step \notin LockedSteps /\ lock' = IF lock = w THEN Nobody ELSE lock

Leaves(w, next) ==
  /\ Return(w, next)
  /\ at' = [at EXCEPT ![w] = "off"]
  /\ lock' = IF lock = w THEN Nobody ELSE lock

HandlerMoves(w) ==
  /\ at[w] # "off"
  /\ \/ \E step \in Steps \ {"off"} : Moves(w, step)
     \/ \E next \in {"ack", "nack"} : Leaves(w, next)

LEMMA HandlerShape ==
  ASSUME PipelineInv, NEW w \in Lanes, HandlerStep(w)
  PROVE  HandlerMoves(w)
  <1>l. at[w] \in LockedSteps <=> lock = w
    BY DEF PipelineInv, LockInv
  <1>0. /\ w # Nobody
        /\ \A next \in {"ack", "nack"} : Done(w, next) => Leaves(w, next)
        /\ \A step \in LockedSteps : lock \in {Nobody, w} /\ Continue(w, step, w) => Moves(w, step)
        /\ \A step \in Steps \ LockedSteps :
             lock \in {Nobody, w} /\ Continue(w, step, Nobody) => Moves(w, step)
    BY LockHolders DEF Done, Leaves, Continue, Moves, Goto, queueVars
  <1>f. \A step \in {"answer", "refuse"} : FailWith(w, step) /\ lock \in {Nobody, w} =>
          Moves(w, step) \/ Leaves(w, "nack")
    BY <1>0 DEF FailWith, LockedSteps
  <1>g. FailTransient(w) => Leaves(w, "nack")
    BY <1>0 DEF FailTransient
  <1> USE DEF HandlerMoves, LockedSteps, Steps
  <1>1. CASE Prepare(w)
    BY <1>1, <1>0 DEF Prepare
  <1>2. CASE StartDownload(w)
    <2>1. Moves(w, "load")
      BY <1>2, <1>l DEF StartDownload, Moves, Goto
    <2> QED BY <1>2, <2>1 DEF StartDownload
  <1>3. CASE ReadStored(w) \/ FetchAndPut(w)
    <2>1. lock # w /\ lock' = lock /\ UNCHANGED queueVars /\ at[w] # "off"
      BY <1>3, <1>l DEF ReadStored, FetchAndPut
    <2>2. \E step \in {"arm", "fail"} : at' = [at EXCEPT ![w] = step]
      BY <1>3 DEF ReadStored, FetchAndPut, LoadFailing, Goto
    <2> QED BY <2>1, <2>2 DEF Moves
  <1>4. CASE LoadFailed(w)
    BY <1>4, <1>0, <1>f, <1>g DEF LoadFailed
  <1>5. CASE Arm(w)
    BY <1>5, <1>0, <1>f DEF Arm
  <1>6. CASE SetReceiptStored(w) \/ MarkStored(w) \/ MarkExtracting(w)
    BY <1>6, <1>0, <1>l DEF SetReceiptStored, MarkStored, MarkExtracting
  <1>7. CASE ChargeOCR(w)
    BY <1>7, <1>0, <1>f, <1>l DEF ChargeOCR
  <1>8. CASE Refuse(w) \/ Answer(w)
    BY <1>8, <1>0, <1>l DEF Refuse, Answer
  <1>9. CASE Extract(w)
    <2>1. Moves(w, "finish")
      BY <1>9, <1>l DEF Extract, Moves, Goto
    <2> QED BY <1>9, <2>1 DEF Extract
  <1>10. CASE Finish(w)
    BY <1>10, <1>0, <1>f, <1>g DEF Finish
  <1>11. CASE StoreError(w) \/ LockError(w)
    BY <1>11, <1>0 DEF StoreError, LockError
  <1> QED BY <1>1, <1>2, <1>3, <1>4, <1>5, <1>6, <1>7, <1>8, <1>9, <1>10, <1>11 DEF HandlerStep

-----------------------------------------------------------------------------
(* The steps of a receipt's other actors: the webhook that registers it, the *)
(* user, the clock, the sweep and the account deletion.                      *)
UserActs ==
  \/ \E r \in Jobs : RegisterReceipt(r) \/ ConfirmTx(r) \/ DiscardTx(r) \/ DeleteAfterPasses(r)
  \/ PendingExpires

OutsideStep ==
  \/ UserActs
  \/ RetentionStep
  \/ DeletionStep \/ DeletionFails

(* Steps that the queue takes alone: no handler begins or ends in them, rows *)
(* are inserted for registered receipts and closed by the lane that Acks.    *)
QueueOnly ==
  /\ UNCHANGED <<receiptVars, attempts>>
  /\ [Next]_queueVars
  /\ \A j \in Jobs : status'[j] # status[j] =>
       /\ status[j] = "absent" => receipt[j] = "queued"
       /\ status'[j] = "done" => \E w \in Lanes : held[w] = j /\ phase[w] = "ack"
       /\ status'[j] # "deleted"
  /\ \A w \in Lanes : /\ phase[w] = "handling" <=> phase'[w] = "handling"
                      /\ phase'[w] # "idle" => phase'[w] = phase[w] /\ held'[w] = held[w]
                      /\ held'[w] \in {held[w], NoJob}
  /\ LeasesLapse \/ lost' = lost

LEMMA StepCases ==
  ASSUME PipelineInv, [ReceiptsNext]_vars
  PROVE  \/ \E w \in Lanes : \/ \E r \in Jobs : Claim(w, r)
                             \/ HandlerStep(w) \/ LaneCrash(w)
         \/ QueueOnly
         \/ OutsideStep
  <1>t. /\ phase \in [Lanes -> Phase] /\ held \in [Lanes -> Jobs \cup {NoJob}]
        /\ status \in [Jobs -> JobStatus]
    BY DEF PipelineInv, ReceiptsTypeOK, QueueTypeOK
  <1>1. ASSUME NEW w \in Lanes, (Ack(w) \/ Nack(w) \/ Poll(w)) /\ UNCHANGED receiptVars
        PROVE QueueOnly
    <2>1. [Next]_queueVars
      BY <1>1 DEF Next, LaneStep
    <2>2. \/ UNCHANGED <<phase, held>>
          \/ /\ phase[w] # "handling" /\ phase' = [phase EXCEPT ![w] = "idle"]
             /\ held' = [held EXCEPT ![w] = NoJob]
      BY <1>1 DEF Ack, Nack, Poll, Idle, queueVars
    <2>3. \/ status' = status
          \/ /\ phase[w] = "ack" /\ status[held[w]] = "running"
             /\ status' = [status EXCEPT ![held[w]] = "done"]
          \/ /\ status[held[w]] = "running"
             /\ \E s \in {"dead", "queued"} : status' = [status EXCEPT ![held[w]] = s]
      BY <1>1 DEF Ack, Nack, Poll, Owns, queueVars
    <2>4. UNCHANGED <<attempts, lost>>
      BY <1>1 DEF Ack, Nack, Poll, queueVars
    <2> QED BY <1>1, <2>1, <2>2, <2>3, <2>4, <1>t DEF QueueOnly
  <1>2. CASE QueueStep
    <2>1. [Next]_queueVars
      BY <1>2 DEF QueueStep, Next, Environment, Clock
    <2>2. UNCHANGED <<phase, held, status, attempts>> /\ (LeasesLapse \/ lost' = lost)
      BY <1>2 DEF QueueStep, Heartbeat, Stall, HeartbeatFails, LeaseExpires, BackoffElapses,
                  laneVars, rowVars
    <2> QED BY <1>2, <2>1, <2>2 DEF QueueOnly, QueueStep
  <1>3. ASSUME NEW r \in Jobs, EnqueueReceipt(r) PROVE QueueOnly
    BY <1>3, <1>t DEF EnqueueReceipt, Enqueue, QueueOnly, Next, Environment, laneVars
  <1>4. CASE UNCHANGED vars
    BY <1>4 DEF vars, queueVars, QueueOnly
  <1> QED BY <1>1, <1>2, <1>3, <1>4
          DEF ReceiptsNext, ProcessorStep, HandlerStep, UserStep, UserActs, OutsideStep

(* None of the other actors touches a lane. *)
LEMMA OutsideShape ==
  ASSUME OutsideStep
  PROVE  /\ UNCHANGED <<laneVars, lost, local>>
         /\ UNCHANGED queueVars \/ PurgeAccountData
         /\ [Next]_queueVars
         /\ \A j \in Jobs : status'[j] \in {status[j], "deleted"}
         /\ attempts' = attempts
  <1>1. CASE ~PurgeAccountData
    BY <1>1 DEF OutsideStep, UserActs, RegisterReceipt, ConfirmTx, DiscardTx, DeleteAfterPasses,
       PendingExpires, RetentionStep, ListReceiptsPendingDeletion, SweepStep,
       DeletionStep, BeginAccountDeletion, DeleteOriginal, DeletionFails, control, local,
       queueVars, laneVars
  <1>2. CASE PurgeAccountData
    <2> DEFINE mine == {r \in Jobs : Stored(r)}
    <2>1. (Delete(mine) \/ UNCHANGED queueVars) /\ UNCHANGED local
      BY <1>2 DEF PurgeAccountData
    <2>2. mine \in SUBSET Jobs
      OBVIOUS
    <2> HIDE DEF mine
    <2> QED BY <1>2, <2>1, <2>2 DEF Next, Environment, Delete, laneVars, queueVars
  <1> QED BY <1>1, <1>2

(* Seen from the queue, every step of the pipeline is a step of the queue. *)
LEMMA QueueStepOfReceipts == PipelineInv /\ [ReceiptsNext]_vars => [Next]_queueVars
  <1> SUFFICES ASSUME PipelineInv, [ReceiptsNext]_vars PROVE [Next]_queueVars
    OBVIOUS
  <1>1. ASSUME NEW w \in Lanes, NEW r \in Jobs, Claim(w, r) PROVE [Next]_queueVars
    BY <1>1 DEF Claim, Next, LaneStep
  <1>2. ASSUME NEW w \in Lanes, HandlerStep(w) PROVE [Next]_queueVars
    BY <1>2, HandlerShape DEF HandlerMoves, Moves, Leaves, Next, LaneStep
  <1>3. ASSUME NEW w \in Lanes, LaneCrash(w) PROVE [Next]_queueVars
    BY <1>3 DEF LaneCrash, Next, Environment
  <1> QED BY <1>1, <1>2, <1>3, StepCases, OutsideShape DEF QueueOnly

-----------------------------------------------------------------------------
(* Lanes, their handlers and the user lock stay in step. *)
LEMMA LaneLockStep == PipelineInv /\ [ReceiptsNext]_vars => LaneInv' /\ LockInv'
  <1> SUFFICES ASSUME PipelineInv, [ReceiptsNext]_vars PROVE LaneInv' /\ LockInv'
    OBVIOUS
  <1>t. /\ phase \in [Lanes -> Phase] /\ at \in [Lanes -> Steps]
        /\ lock \in Lanes \cup {Nobody, Deleter}
        /\ LaneInv /\ LockInv
    BY DEF PipelineInv, ReceiptsTypeOK, QueueTypeOK
  <1> USE LockHolders DEF LaneInv, LockInv, LockedSteps
  <1>1. ASSUME NEW w \in Lanes, NEW r \in Jobs, Claim(w, r) PROVE LaneInv' /\ LockInv'
    BY <1>1, <1>t DEF Claim, Dequeue, Goto, rowData, meta, others
  <1>2. ASSUME NEW w \in Lanes, HandlerStep(w) PROVE LaneInv' /\ LockInv'
    <2>1. UNCHANGED <<keys, account>>
      BY <1>2 DEF HandlerStep, Prepare, StartDownload, ReadStored, FetchAndPut, LoadFailed,
         Arm, SetReceiptStored, MarkStored, MarkExtracting, ChargeOCR, Refuse, Extract,
         Finish, Answer, StoreError, LockError, rowData, meta, others
    <2>2. HandlerMoves(w)
      BY <1>2, HandlerShape
    <2>3. ASSUME NEW step \in Steps \ {"off"}, Moves(w, step) PROVE LaneInv' /\ LockInv'
      BY <2>1, <2>2, <2>3, <1>t DEF HandlerMoves, Moves, queueVars
    <2>4. ASSUME NEW next \in {"ack", "nack"}, Leaves(w, next) PROVE LaneInv' /\ LockInv'
      BY <2>1, <2>2, <2>4, <1>t DEF HandlerMoves, Leaves, Return
    <2> QED BY <2>2, <2>3, <2>4 DEF HandlerMoves
  <1>3. ASSUME NEW w \in Lanes, LaneCrash(w) PROVE LaneInv' /\ LockInv'
    BY <1>3, <1>t DEF LaneCrash, Crash, Idle, Goto, rowData, meta, others
  <1>4. CASE QueueOnly
    BY <1>4, <1>t DEF QueueOnly, receiptVars, rowData, control, local, meta, others
  <1>5. CASE OutsideStep
    <2>1. UNCHANGED <<phase, at>>
      BY <1>5, OutsideShape DEF laneVars, local
    <2>2. \/ UNCHANGED <<lock, keys, account>>
          \/ /\ lock \in {Nobody, Deleter} /\ lock' \in {Nobody, Deleter}
             /\ keys' # {} => lock' = Deleter
             /\ lock' = Deleter => account' = "deleting"
      BY <1>5, <1>t DEF OutsideStep, UserActs, RegisterReceipt, ConfirmTx, DiscardTx,
         DeleteAfterPasses, PendingExpires, RetentionStep, ListReceiptsPendingDeletion,
         SweepStep, DeletionStep, BeginAccountDeletion, DeleteOriginal, PurgeAccountData,
         DeletionFails, control, others, meta, rowData
    <2> QED BY <2>1, <2>2, <1>t
  <1> QED BY <1>1, <1>2, <1>3, <1>4, <1>5, StepCases

-----------------------------------------------------------------------------
(* What a step of the handler does to the data: it moves the status of its   *)
(* own receipt, while that is in work, within the pipeline or to the         *)
(* permanent failure, and the draft comes with the last of these moves.      *)
StatusMoves(w, s) ==
  /\ receipt[held[w]] \in InFlight
  /\ receipt' = [receipt EXCEPT ![held[w]] = s]

Finalizes(w) ==
  /\ at[w] = "finish" /\ at' = [at EXCEPT ![w] = "answer"]
  /\ receipt[held[w]] = "extracting"
  /\ receipt' = [receipt EXCEPT ![held[w]] = "review_required"]
  /\ draft' = [draft EXCEPT ![held[w]] = "awaiting"]
  /\ pending' = held[w]

HandlerMovesReceipt(w) ==
  \/ UNCHANGED <<receipt, draft, pending>>
  \/ \E s \in InFlight : StatusMoves(w, s) /\ UNCHANGED <<draft, pending>>
  \/ /\ StatusMoves(w, "failed_permanent") /\ UNCHANGED <<draft, pending>>
     /\ at[w] \in {"fail", "arm", "charge", "finish"}
     /\ \E step \in {"answer", "refuse"} : at' = [at EXCEPT ![w] = step]
  \/ Finalizes(w)

LEMMA HandlerReceipt ==
  ASSUME PipelineInv, NEW w \in Lanes, HandlerStep(w)
  PROVE  HandlerMovesReceipt(w) /\ UNCHANGED <<born, expired, account, batch, keys>>
  <1>t. held[w] \in Jobs /\ receipt \in [Jobs -> ReceiptStatus]
    BY HeldReceipt, HandlerShape DEF HandlerMoves, PipelineInv, ReceiptsTypeOK
  <1>1. UNCHANGED <<born, expired, account, batch, keys>>
    BY DEF HandlerStep, Prepare, StartDownload, ReadStored, FetchAndPut, LoadFailed,
       Arm, SetReceiptStored, MarkStored, MarkExtracting, ChargeOCR, Refuse, Extract,
       Finish, Answer, StoreError, LockError, rowData, meta, others
  <1> SUFFICES HandlerMovesReceipt(w)
    BY <1>1
  <1>f. ASSUME NEW step \in {"answer", "refuse"}, FailWith(w, step), UNCHANGED <<draft, pending>>,
               at[w] \in {"fail", "arm", "charge", "finish"}
        PROVE  HandlerMovesReceipt(w)
    <2>1. CASE CanTransition(receipt[held[w]], "failed_permanent")
      <3>1. receipt[held[w]] \in InFlight
        BY <2>1, <1>t DEF CanTransition, InFlight
      <3>2. receipt' = [receipt EXCEPT ![held[w]] = "failed_permanent"]
        BY <2>1, <1>f DEF FailWith
      <3>3. receipt'[held[w]] \in TerminalReceipt
        BY <3>2, <1>t DEF TerminalReceipt
      <3>4. at' = [at EXCEPT ![w] = step]
        BY <1>f, <3>3 DEF FailWith, Continue, Goto
      <3> QED BY <1>f, <3>1, <3>2, <3>4 DEF StatusMoves, HandlerMovesReceipt
    <2>2. CASE ~CanTransition(receipt[held[w]], "failed_permanent")
      BY <1>f, <2>2 DEF FailWith, HandlerMovesReceipt
    <2> QED BY <2>1, <2>2
  <1>g. ASSUME FailTransient(w), UNCHANGED <<draft, pending>> PROVE HandlerMovesReceipt(w)
    <2>1. CanTransition(receipt[held[w]], "failed_transient") => receipt[held[w]] \in InFlight
      BY <1>t DEF CanTransition, InFlight
    <2> QED BY <1>g, <2>1 DEF FailTransient, HandlerMovesReceipt, StatusMoves, InFlight
  <1>2. CASE Prepare(w)
    BY <1>2, <1>t DEF Prepare, SetStatus, HandlerMovesReceipt, StatusMoves, InFlight, review
  <1>3. CASE StartDownload(w) \/ MarkStored(w)
    <2>1. /\ UNCHANGED <<draft, pending>>
          /\ \/ receipt' = receipt
             \/ /\ receipt[held[w]] \in {"queued", "downloading"}
                /\ \E s \in {"downloading", "stored"} : receipt' = [receipt EXCEPT ![held[w]] = s]
      BY <1>3, <1>t DEF StartDownload, MarkStored, review
    <2> QED BY <2>1 DEF HandlerMovesReceipt, StatusMoves, InFlight
  <1>4. CASE ReadStored(w) \/ FetchAndPut(w) \/ SetReceiptStored(w) \/ Extract(w)
             \/ Refuse(w) \/ Answer(w) \/ StoreError(w) \/ LockError(w)
    BY <1>4 DEF ReadStored, FetchAndPut, SetReceiptStored, Extract, Refuse, Answer,
                StoreError, LockError, HandlerMovesReceipt, rowData, review
  <1>5. CASE LoadFailed(w)
    BY <1>5, <1>f, <1>g DEF LoadFailed, HandlerMovesReceipt, review
  <1>6. CASE Arm(w)
    BY <1>6, <1>f DEF Arm, HandlerMovesReceipt, review
  <1>7. CASE MarkExtracting(w)
    BY <1>7, <1>t DEF MarkExtracting, SetStatus, HandlerMovesReceipt, StatusMoves, InFlight,
       review
  <1>8. CASE ChargeOCR(w)
    BY <1>8, <1>f DEF ChargeOCR, HandlerMovesReceipt, review
  <1>9. CASE Finish(w)
    <2>1. CASE FinalizeReceiptReview(held[w]) /\ Continue(w, "answer", w)
      BY <1>9, <2>1 DEF Finish, FinalizeReceiptReview, SetStatus, Continue, Goto, Finalizes,
                        HandlerMovesReceipt
    <2>2. CASE UNCHANGED <<draft, pending>> /\ (FailWith(w, "answer") \/ FailTransient(w))
      BY <1>9, <2>2, <1>f, <1>g DEF Finish
    <2>3. CASE UNCHANGED <<receipt, draft, pending>>
      BY <2>3 DEF HandlerMovesReceipt
    <2> QED BY <1>9, <2>1, <2>2, <2>3 DEF Finish
  <1> QED BY <1>2, <1>3, <1>4, <1>5, <1>6, <1>7, <1>8, <1>9 DEF HandlerStep

(* Every variable of the pipeline keeps its type. *)
LEMMA ReceiptsTypeStep == PipelineInv /\ [ReceiptsNext]_vars => ReceiptsTypeOK'
  <1> SUFFICES ASSUME PipelineInv, [ReceiptsNext]_vars PROVE ReceiptsTypeOK'
    OBVIOUS
  <1>q. QueueTypeOK'
    BY QueueStepOfReceipts, TypeStep DEF PipelineInv, ReceiptsTypeOK
  <1> DEFINE Rows == /\ receipt \in [Jobs -> ReceiptStatus]
                     /\ born \in [Jobs -> Nat] /\ expired \in [Jobs -> BOOLEAN]
                     /\ draft \in [Jobs -> {"none", "awaiting", "confirmed", "deleted"}]
                     /\ pending \in Jobs \cup {NoJob}
                     /\ account \in {"active", "deleting", "deleted"}
                     /\ batch \subseteq Listing /\ keys \subseteq Jobs
             Flags == /\ storageKey \in [Jobs -> BOOLEAN] /\ sha256 \in [Jobs -> BOOLEAN]
                      /\ object \in [Jobs -> BOOLEAN] /\ told \in [Jobs -> BOOLEAN]
             Counts == /\ ocrPages \in Nat /\ ocrCalls \in Nat
                       /\ errors \in Nat /\ storeErrors \in Nat
             Places == /\ lock \in Lanes \cup {Nobody, Deleter} /\ at \in [Lanes -> Steps]
                       /\ fetched \in [Lanes -> BOOLEAN]
                       /\ result \in [Lanes -> {"none", "ok", "transient", "permanent"}]
  <1>t. Rows /\ Flags /\ Counts /\ Places
    BY DEF PipelineInv, ReceiptsTypeOK
  <1>r. ASSUME UNCHANGED <<receipt, born, expired, draft, pending, account, batch, keys>>
        PROVE  Rows'
    BY <1>r, <1>t
  <1>f. ASSUME UNCHANGED <<storageKey, sha256, object, told>> PROVE Flags'
    BY <1>f, <1>t
  <1>c. ASSUME UNCHANGED <<ocrPages, ocrCalls, errors, storeErrors>> PROVE Counts'
    BY <1>c, <1>t
  <1>p. ASSUME UNCHANGED <<lock, at, fetched, result>> PROVE Places'
    BY <1>p, <1>t
  <1> SUFFICES Rows' /\ Flags' /\ Counts' /\ Places'
    BY <1>q DEF ReceiptsTypeOK
  <1> HIDE DEF Rows, Flags, Counts, Places
  <1>1. ASSUME NEW w \in Lanes, NEW r \in Jobs, Claim(w, r) PROVE Rows' /\ Flags' /\ Counts' /\ Places'
    BY <1>1, <1>t DEF Claim, Goto, Steps, rowData, meta, image, review, usage, others,
       failures, Rows, Flags, Counts, Places
  <1>2. ASSUME NEW w \in Lanes, HandlerStep(w) PROVE Rows' /\ Flags' /\ Counts' /\ Places'
    <2>h. held[w] \in Jobs
      BY <1>2, HeldReceipt, HandlerShape DEF HandlerMoves
    <2>1. Rows'
      <3>1. \/ UNCHANGED <<receipt, draft, pending>>
            \/ /\ \E s \in InFlight \cup {"failed_permanent"} :
                    receipt' = [receipt EXCEPT ![held[w]] = s]
               /\ UNCHANGED <<draft, pending>>
            \/ /\ receipt' = [receipt EXCEPT ![held[w]] = "review_required"]
               /\ draft' = [draft EXCEPT ![held[w]] = "awaiting"] /\ pending' = held[w]
        BY <1>2, HandlerReceipt DEF HandlerMovesReceipt, StatusMoves, Finalizes
      <3>2. UNCHANGED <<born, expired, account, batch, keys>>
        BY <1>2, HandlerReceipt
      <3> QED BY <2>h, <3>1, <3>2, <1>t DEF ReceiptStatus, Settlement, TerminalReceipt, Rows,
         Flags, Counts, Places
    <2>2. Flags' /\ Counts'
      <3>1. /\ storageKey' \in {storageKey, [storageKey EXCEPT ![held[w]] = TRUE]}
            /\ sha256' \in {sha256, [sha256 EXCEPT ![held[w]] = TRUE]}
            /\ object' \in {object, [object EXCEPT ![held[w]] = TRUE]}
            /\ told' \in {told, [told EXCEPT ![held[w]] = TRUE]}
        BY <1>2 DEF HandlerStep, Prepare, StartDownload, ReadStored, FetchAndPut, LoadFailed,
           Arm, SetReceiptStored, MarkStored, MarkExtracting, ChargeOCR, Refuse, Extract,
           Finish, Answer, StoreError, LockError, rowData, image, review
      <3>2. /\ ocrPages' \in {ocrPages, ocrPages + 1} /\ ocrCalls' \in {ocrCalls, ocrCalls + 1}
            /\ errors' \in {errors, errors + 1} /\ storeErrors' \in {storeErrors, storeErrors + 1}
        BY <1>2 DEF HandlerStep, Prepare, StartDownload, ReadStored, FetchAndPut, LoadFailed,
           Arm, SetReceiptStored, MarkStored, MarkExtracting, ChargeOCR, Refuse, Extract,
           Finish, Answer, StoreError, LockError, rowData, usage, others, failures, Failing,
           StoreFailing, IncrementUsage
      <3>3. Flags'
        BY <2>h, <3>1, <1>t DEF Flags
      <3>4. Counts'
        BY <3>2, <1>t DEF Counts
      <3> QED BY <3>3, <3>4
    <2>3. Places'
      <3>0. storageKey[held[w]] \in BOOLEAN
        BY <2>h, <1>t DEF Flags
      <3>1. fetched' = fetched \/ \E b \in BOOLEAN : fetched' = [fetched EXCEPT ![w] = b]
        BY <1>2, <3>0 DEF HandlerStep, Prepare, StartDownload, ReadStored, FetchAndPut,
           LoadFailed, LoadFailing, FailWith, FailTransient, Continue, Done,
           Arm, SetReceiptStored, MarkStored, MarkExtracting, ChargeOCR, Refuse, Extract,
           Finish, Answer, StoreError, LockError, Places
      <3>2. result' = result \/ \E s \in {"none", "ok", "transient", "permanent"} :
                                  result' = [result EXCEPT ![w] = s]
        BY <1>2 DEF HandlerStep, Prepare, StartDownload, ReadStored, FetchAndPut,
           LoadFailed, LoadFailing, FailWith, FailTransient, Continue, Done,
           Arm, SetReceiptStored, MarkStored, MarkExtracting, ChargeOCR, Refuse, Extract,
           Finish, Answer, StoreError, LockError
      <3>3. \E step \in Steps : at' = [at EXCEPT ![w] = step]
        BY <1>2, HandlerShape DEF HandlerMoves, Moves, Leaves, Steps
      <3>4. lock' \in {lock, w, Nobody}
        BY <1>2, HandlerShape DEF HandlerMoves, Moves, Leaves
      <3> QED BY <3>1, <3>2, <3>3, <3>4, <1>t DEF Rows, Flags, Counts, Places
    <2> QED BY <2>1, <2>2, <2>3
  <1>3. ASSUME NEW w \in Lanes, LaneCrash(w) PROVE Rows' /\ Flags' /\ Counts' /\ Places'
    BY <1>3, <1>t DEF LaneCrash, Goto, Steps, rowData, meta, image, review, usage, others,
       failures, Rows, Flags, Counts, Places
  <1>4. CASE QueueOnly
    BY <1>4, <1>r, <1>f, <1>c, <1>p DEF QueueOnly, receiptVars, rowData, meta, image, review,
       usage, control, local, others, failures
  <1>5. CASE UserActs
    <2>1. ASSUME NEW r \in Jobs, RegisterReceipt(r) PROVE Rows' /\ Flags' /\ Counts' /\ Places'
      <3>1. Cardinality({i \in Jobs : born[i] > 0}) \in Nat
        BY JobsFinite, FS_Subset, FS_CardinalityType
      <3> QED BY <2>1, <3>1, <1>t DEF RegisterReceipt, SetStatus, ReceiptStatus, InFlight,
              image, review, usage, control, local, others, failures, Rows, Flags, Counts, Places
    <2>2. ASSUME NEW r \in Jobs, ConfirmTx(r) \/ DiscardTx(r) PROVE Rows' /\ Flags' /\ Counts' /\ Places'
      BY <2>2, <1>t DEF ConfirmTx, DiscardTx, UpdateTransaction, SoftDeleteTransaction,
         ReceiptStatus, Settlement, TerminalReceipt, Failing, meta, image, usage, control,
         local, Rows, Flags, Counts, Places
    <2>3. ASSUME NEW r \in Jobs, DeleteAfterPasses(r) PROVE Rows' /\ Flags' /\ Counts' /\ Places'
      BY <2>3, <1>t DEF DeleteAfterPasses, image, review, usage, control, local, others,
         failures, Rows, Flags, Counts, Places
    <2>4. CASE PendingExpires
      <3>1. Rows'
        BY <2>4, <1>t DEF PendingExpires, meta, others, Rows
      <3> QED BY <2>4, <3>1, <1>f, <1>c, <1>p
              DEF PendingExpires, meta, image, usage, control, local, others, failures
    <2> QED BY <1>5, <2>1, <2>2, <2>3, <2>4 DEF UserActs
  <1>6. CASE RetentionStep
    <2>1. CASE ListReceiptsPendingDeletion
      <3>1. batch' \subseteq Listing
        <4> SUFFICES ASSUME NEW x \in batch' PROVE x \in Listing
          OBVIOUS
        <4>1. PICK r \in Jobs : /\ PendingDeletion(r)
                                /\ x = [id |-> r, status |-> receipt[r], key |-> storageKey[r],
                                        step |-> "object"]
          BY <2>1 DEF ListReceiptsPendingDeletion
        <4>2. receipt[r] \in TerminalReceipt /\ storageKey[r] \in BOOLEAN
          BY <1>t, <4>1 DEF PendingDeletion, TerminalReceipt, Flags
        <4> QED BY <4>1, <4>2 DEF Listing
      <3>2. UNCHANGED <<rowData, control, keys, failures>>
        BY <2>1 DEF ListReceiptsPendingDeletion
      <3>3. Rows'
        BY <3>1, <3>2, <1>t DEF rowData, meta, review, Rows
      <3> QED BY <3>2, <3>3, <1>f, <1>c, <1>p
              DEF rowData, meta, image, review, usage, control, local, failures
    <2>2. CASE SweepStep
      <3>1. PICK x \in batch : SweepObject(x) \/ SweepRow(x) \/ ClearReceiptStorageKey(x)
        BY <2>2 DEF SweepStep
      <3>2. /\ x \in Listing /\ x.id \in Jobs /\ x.key \in BOOLEAN
            /\ \A step \in {"row", "clear"} : [x EXCEPT !.step = step] \in Listing
        BY <1>t DEF Listing, Rows
      <3>3. batch' \subseteq Listing
        BY <3>1, <3>2, <1>t DEF SweepObject, SweepRow, ClearReceiptStorageKey, Step, Drop, Rows
      <3>4. receipt' \in [Jobs -> ReceiptStatus]
        BY <3>1, <3>2, <1>t DEF SweepObject, SweepRow, ClearReceiptStorageKey, SetStatus,
           ReceiptStatus, Settlement, TerminalReceipt, Rows
      <3>5. storageKey' \in [Jobs -> BOOLEAN]
        BY <3>1, <3>2, <1>t DEF SweepObject, SweepRow, ClearReceiptStorageKey, Flags
      <3>6. object' \in [Jobs -> BOOLEAN]
        <4>1. \/ object' = object
              \/ \E b \in BOOLEAN : object' = [object EXCEPT ![x.id] = b]
          BY <3>1, <3>2, <1>t DEF SweepObject, SweepRow, ClearReceiptStorageKey, Flags
        <4> QED BY <3>2, <4>1, <1>t DEF Rows, Flags, Counts, Places
      <3>7. errors' \in Nat /\ storeErrors' \in Nat
        BY <3>1, <1>t DEF SweepObject, SweepRow, ClearReceiptStorageKey, Failing, failures, Counts
      <3>8. UNCHANGED <<meta, sha256, review, usage, control, keys>>
        BY <2>2 DEF SweepStep
      <3>9. Rows' /\ Counts'
        BY <3>3, <3>4, <3>7, <3>8, <1>t DEF meta, review, usage, Rows, Counts
      <3>10. Flags' /\ Places'
        BY <3>5, <3>6, <3>8, <1>t, <1>p DEF review, control, local, Flags, Places
      <3> QED BY <3>9, <3>10
    <2>3. CASE SweepStops /\ UNCHANGED <<queueVars, meta, sha256, review, usage, control, keys>>
      <3>1. Rows' /\ Counts'
        BY <2>3, <1>t DEF SweepStops, StoreFailing, meta, review, usage, Rows, Counts
      <3> QED BY <2>3, <3>1, <1>f, <1>p DEF SweepStops, review, control, local
    <2> QED BY <1>6, <2>1, <2>2, <2>3 DEF RetentionStep
  <1>7. CASE DeletionStep \/ DeletionFails
    <2> USE DEF rowData, meta, image, review, usage, control, local, others, failures
    <2>1. CASE BeginAccountDeletion
      <3>1. Rows' /\ Places'
        BY <2>1, <1>t DEF BeginAccountDeletion, Rows, Places
      <3> QED BY <2>1, <3>1, <1>f, <1>c DEF BeginAccountDeletion
    <2>2. ASSUME NEW r \in Jobs, DeleteOriginal(r) PROVE Rows' /\ Flags' /\ Counts' /\ Places'
      <3>1. Rows'
        BY <2>2, <1>t DEF DeleteOriginal, Rows
      <3>2. Flags'
        BY <2>2, <1>t DEF DeleteOriginal, Flags
      <3> QED BY <2>2, <3>1, <3>2, <1>c, <1>p DEF DeleteOriginal
    <2>3. CASE PurgeAccountData
      <3>1. Rows'
        BY <2>3, <1>t DEF PurgeAccountData, ReceiptStatus, Settlement, Rows
      <3>2. Flags'
        BY <2>3, <1>t DEF PurgeAccountData, Flags
      <3>3. Places'
        BY <2>3, <1>t DEF PurgeAccountData, Places
      <3> QED BY <2>3, <3>1, <3>2, <3>3, <1>c DEF PurgeAccountData
    <2>4. CASE DeletionFails
      <3>1. Rows' /\ Counts' /\ Places'
        BY <2>4, <1>t DEF DeletionFails, Failing, Rows, Counts, Places
      <3> QED BY <2>4, <3>1, <1>f DEF DeletionFails
    <2> QED BY <1>7, <2>1, <2>2, <2>3, <2>4 DEF DeletionStep
  <1> QED BY <1>1, <1>2, <1>3, <1>4, <1>5, <1>6, <1>7, StepCases DEF OutsideStep

LEMMA PipelineInvSafe == ReceiptsSpec => []PipelineInv
  <1>1. ReceiptsInit => PipelineInv
    BY ClaimInit, LockHolders
       DEF ReceiptsInit, QueueInit, PipelineInv, ReceiptsTypeOK, QueueTypeOK, LaneInv, LockInv,
           JobStatus, Phase, ReceiptStatus, Steps, LockedSteps
  <1>2. PipelineInv /\ [ReceiptsNext]_vars => PipelineInv'
    BY QueueStepOfReceipts, ReceiptsTypeStep, LaneLockStep, ClaimStep
       DEF PipelineInv, ReceiptsTypeOK
  <1> QED BY <1>1, <1>2, PTL DEF ReceiptsSpec

(* The pipeline's rows, lanes, listings and counters keep their types. *)
THEOREM ReceiptsTypeSafe == ReceiptsSpec => []ReceiptsTypeOK
  <1>1. PipelineInv => ReceiptsTypeOK
    BY DEF PipelineInv
  <1> QED BY <1>1, PipelineInvSafe, PTL

(* The pipeline uses the queue as the queue is meant to be used: what is     *)
(* proved of JobQueue holds of the receipts' jobs.                           *)
THEOREM ReceiptsUseQueue == ReceiptsSpec => Spec
  <1>1. ReceiptsInit => QueueInit
    BY DEF ReceiptsInit
  <1> QED BY <1>1, QueueStepOfReceipts, PipelineInvSafe, PTL DEF ReceiptsSpec, Spec

-----------------------------------------------------------------------------
(* The life of a receipt: registered once, in work until it is settled once, *)
(* then only confirmed, deleted or purged.                                   *)
Lives(r) ==
  \/ receipt'[r] = receipt[r]
  \/ receipt[r] = "none" /\ receipt'[r] = "queued" /\ account = "active"
  \/ receipt[r] \in InFlight /\ receipt'[r] \in InFlight \cup {"failed_permanent", "review_required"}
  \/ receipt[r] = "review_required" /\ receipt'[r] = "confirmed"
  \/ receipt[r] \in TerminalReceipt /\ receipt'[r] = "deleted"
  \/ receipt'[r] = "purged" /\ PurgeAccountData

RegisteredOrSwept(r) ==
  \/ receipt'[r] = receipt[r]
  \/ receipt[r] = "none" /\ receipt'[r] = "queued" /\ account = "active"
  \/ receipt[r] \in TerminalReceipt /\ receipt'[r] = "deleted"

(* Besides the handler, the user's answers and the purge of the account,     *)
(* only the registration and the sweep move a receipt.                       *)
LEMMA OtherReceiptSteps ==
  ASSUME PipelineInv, [ReceiptsNext]_vars,
         ~ \E w \in Lanes : HandlerStep(w),
         ~ \E i \in Jobs : ConfirmTx(i) \/ DiscardTx(i),
         ~ PurgeAccountData
  PROVE  /\ draft' = draft /\ pending' \in {pending, NoJob}
         /\ \A r \in Jobs : RegisteredOrSwept(r)
  <1>t. receipt \in [Jobs -> ReceiptStatus] /\ batch \subseteq Listing
    BY DEF PipelineInv, ReceiptsTypeOK
  <1>1. draft' = draft /\ pending' \in {pending, NoJob}
    BY StepCases DEF OutsideStep, UserActs, RegisterReceipt, DeleteAfterPasses,
       PendingExpires, RetentionStep, ListReceiptsPendingDeletion, SweepStep, SweepStops,
       DeletionStep, BeginAccountDeletion, DeleteOriginal, DeletionFails, Claim, LaneCrash,
       QueueOnly, receiptVars, rowData, review
  <1> SUFFICES ASSUME NEW r \in Jobs PROVE RegisteredOrSwept(r)
    BY <1>1
  <1>2. ASSUME NEW i \in Jobs, RegisterReceipt(i) PROVE RegisteredOrSwept(r)
    BY <1>2, <1>t DEF RegisterReceipt, SetStatus, RegisteredOrSwept
  <1>3. ASSUME NEW x \in batch, SweepRow(x) PROVE RegisteredOrSwept(r)
    <2>1. x.id \in Jobs /\ x.status \in TerminalReceipt
      BY <1>t DEF Listing
    <2> QED BY <1>3, <2>1, <1>t DEF SweepRow, SetStatus, RegisteredOrSwept
  <1>4. ASSUME ~ \E i \in Jobs : RegisterReceipt(i), ~ \E x \in batch : SweepRow(x)
        PROVE  receipt' = receipt
    BY <1>4, StepCases DEF OutsideStep, UserActs, DeleteAfterPasses, PendingExpires,
       RetentionStep, ListReceiptsPendingDeletion, SweepStep, SweepObject, ClearReceiptStorageKey,
       SweepStops, DeletionStep, BeginAccountDeletion, DeleteOriginal, DeletionFails, Claim,
       LaneCrash, QueueOnly, receiptVars, rowData
  <1> QED BY <1>2, <1>3, <1>4 DEF RegisteredOrSwept

LEMMA ReceiptLife ==
  ASSUME PipelineInv, [ReceiptsNext]_vars
  PROVE  \A r \in Jobs : Lives(r)
  <1> SUFFICES ASSUME NEW r \in Jobs PROVE Lives(r)
    OBVIOUS
  <1>t. receipt \in [Jobs -> ReceiptStatus]
    BY DEF PipelineInv, ReceiptsTypeOK
  <1> USE DEF Lives
  <1>1. ASSUME NEW w \in Lanes, HandlerStep(w) PROVE Lives(r)
    BY <1>1, <1>t, HandlerReceipt DEF HandlerMovesReceipt, StatusMoves, Finalizes, InFlight
  <1>2. ASSUME NEW i \in Jobs, ConfirmTx(i) \/ DiscardTx(i) PROVE Lives(r)
    BY <1>2, <1>t DEF ConfirmTx, DiscardTx, TerminalReceipt
  <1>3. CASE PurgeAccountData
    BY <1>3, <1>t DEF PurgeAccountData
  <1> QED BY <1>1, <1>2, <1>3, OtherReceiptSteps DEF RegisteredOrSwept

-----------------------------------------------------------------------------
(* Drafts.  DraftMatchesReceipt needs to know that the pending action is     *)
(* about a receipt that has had its draft, and that no row comes with one.   *)
DraftInv ==
  /\ DraftMatchesReceipt
  /\ \A r \in Jobs : receipt[r] = "none" => draft[r] = "none"
  /\ pending # NoJob => receipt[pending] \in {"review_required", "confirmed", "deleted"}

LEMMA DraftStep == PipelineInv /\ DraftInv /\ [ReceiptsNext]_vars => DraftInv'
  <1> SUFFICES ASSUME PipelineInv, DraftInv, [ReceiptsNext]_vars PROVE DraftInv'
    OBVIOUS
  <1>t. /\ receipt \in [Jobs -> ReceiptStatus] /\ pending \in Jobs \cup {NoJob}
        /\ draft \in [Jobs -> {"none", "awaiting", "confirmed", "deleted"}]
    BY DEF PipelineInv, ReceiptsTypeOK
  <1> USE NoJobIsNew DEF DraftInv, DraftMatchesReceipt
  <1>0. ASSUME draft' = draft, pending' \in {pending, NoJob},
               \A r \in Jobs : \/ receipt'[r] = receipt[r]
                               \/ receipt[r] = "none" /\ receipt'[r] = "queued"
                               \/ receipt[r] \in InFlight /\ receipt'[r] \in InFlight \cup {"failed_permanent"}
                               \/ receipt'[r] = "deleted"
        PROVE  DraftInv'
    BY <1>0, <1>t DEF InFlight
  <1>1. ASSUME NEW w \in Lanes, HandlerStep(w) PROVE DraftInv'
    <2>h. held[w] \in Jobs
      BY <1>1, HeldReceipt, HandlerShape DEF HandlerMoves
    <2>1. CASE Finalizes(w)
      BY <2>1, <2>h, <1>t DEF Finalizes, InFlight
    <2>2. CASE ~Finalizes(w)
      BY <1>0, <1>1, <2>2, <2>h, <1>t, HandlerReceipt DEF HandlerMovesReceipt, StatusMoves
    <2> QED BY <2>1, <2>2
  <1>2. ASSUME NEW i \in Jobs, ConfirmTx(i) PROVE DraftInv'
    BY <1>2, <1>t DEF ConfirmTx, UpdateTransaction, InFlight
  <1>3. ASSUME NEW i \in Jobs, DiscardTx(i) PROVE DraftInv'
    BY <1>3, <1>t DEF DiscardTx, SoftDeleteTransaction, InFlight
  <1>4. CASE PurgeAccountData
    BY <1>4, <1>t DEF PurgeAccountData, Row, InFlight
  <1>5. ASSUME ~ \E w \in Lanes : HandlerStep(w),
               ~ \E i \in Jobs : ConfirmTx(i) \/ DiscardTx(i),
               ~ PurgeAccountData
        PROVE  DraftInv'
    BY <1>0, <1>5, OtherReceiptSteps DEF RegisteredOrSwept
  <1> QED BY <1>1, <1>2, <1>3, <1>4, <1>5

(* A receipt is reviewable exactly when its draft exists, through any crash, *)
(* retry, lapsed lease or store error.                                       *)
THEOREM DraftMatchesReceiptSafe == ReceiptsSpec => []DraftMatchesReceipt
  <1>1. ReceiptsInit => DraftInv
    BY DEF ReceiptsInit, DraftInv, DraftMatchesReceipt
  <1>2. DraftInv => DraftMatchesReceipt
    BY DEF DraftInv
  <1> QED BY <1>1, <1>2, DraftStep, PipelineInvSafe, PTL DEF ReceiptsSpec

-----------------------------------------------------------------------------
(* A receipt's job is enqueued after its row is written, and the row never   *)
(* comes back to none: whoever holds a job holds a registered receipt.       *)
Known == \A r \in Jobs : status[r] # "absent" \/ attempts[r] > 0 => receipt[r] # "none"

LEMMA KnownStep == PipelineInv /\ Known /\ [ReceiptsNext]_vars => Known'
  <1> SUFFICES ASSUME PipelineInv, Known, [ReceiptsNext]_vars, NEW r \in Jobs,
                      status'[r] # "absent" \/ attempts'[r] > 0, receipt[r] = "none"
               PROVE  receipt'[r] # "none"
    BY ReceiptLife DEF Known, Lives, InFlight, TerminalReceipt
  <1>t. status \in [Jobs -> JobStatus] /\ attempts \in [Jobs -> Nat]
    BY DEF PipelineInv, ReceiptsTypeOK, QueueTypeOK
  <1>0. status[r] = "absent" /\ attempts[r] = 0
    BY <1>t DEF Known
  <1>1. ASSUME NEW w \in Lanes, NEW i \in Jobs, Claim(w, i) PROVE FALSE
    BY <1>1, <1>0, <1>t DEF Claim, Dequeue, Ready
  <1>2. ASSUME NEW w \in Lanes, HandlerStep(w) PROVE FALSE
    BY <1>2, <1>0, HandlerShape DEF HandlerMoves, Moves, Leaves, Return, queueVars, rowVars
  <1>3. ASSUME NEW w \in Lanes, LaneCrash(w) PROVE FALSE
    BY <1>3, <1>0 DEF LaneCrash, Crash, rowVars
  <1>4. CASE QueueOnly
    BY <1>4, <1>0 DEF QueueOnly
  <1>5. ASSUME OutsideStep PROVE FALSE
    <2>1. attempts' = attempts /\ (UNCHANGED queueVars \/ PurgeAccountData)
      BY <1>5, OutsideShape
    <2>2. status'[r] = "absent"
      BY <2>1, <1>0 DEF PurgeAccountData, Delete, Stored, queueVars
    <2> QED BY <1>0, <2>1, <2>2
  <1> QED BY <1>1, <1>2, <1>3, <1>4, <1>5, StepCases

LEMMA HeldIsKnown ==
  ASSUME PipelineInv, Known, NEW w \in Lanes, held[w] # NoJob
  PROVE  held[w] \in Jobs /\ receipt[held[w]] # "none"
  <1>1. held[w] \in Jobs /\ claim[w] \in 1..attempts[held[w]] /\ attempts[held[w]] \in Nat
    BY DEF PipelineInv, ReceiptsTypeOK, QueueTypeOK, ClaimInv
  <1> QED BY <1>1 DEF Known

-----------------------------------------------------------------------------
(* What a step of the handler does to the image: the original is put while   *)
(* it loads, the key and the hash are recorded under the lock.               *)
HandlerMovesImage(w) ==
  /\ \/ object' = object
     \/ at[w] = "load" /\ ~fetched[w] /\ object' = [object EXCEPT ![held[w]] = TRUE]
  /\ \/ UNCHANGED <<storageKey, sha256>>
     \/ /\ at[w] = "record" /\ receipt' = receipt
        /\ storageKey' = [storageKey EXCEPT ![held[w]] = TRUE]
        /\ sha256' = [sha256 EXCEPT ![held[w]] = TRUE]
  /\ at'[w] = "arm" => at[w] = "load" /\ object'[held[w]]
  /\ at'[w] = "record" => /\ at[w] = "arm" /\ lock = Nobody /\ receipt' = receipt
                          /\ Row(held[w]) /\ receipt[held[w]] \notin TerminalReceipt
                          /\ ~Duplicate(held[w])
                          /\ UNCHANGED <<object, storageKey, sha256>>

LEMMA HandlerImage ==
  ASSUME PipelineInv, NEW w \in Lanes, HandlerStep(w)
  PROVE  HandlerMovesImage(w)
  <1>t. /\ held[w] \in Jobs /\ object \in [Jobs -> BOOLEAN] /\ at \in [Lanes -> Steps]
    BY HeldReceipt, HandlerShape DEF HandlerMoves, PipelineInv, ReceiptsTypeOK
  <1>1. CASE ReadStored(w)
    BY <1>1, <1>t DEF ReadStored, LoadFailing, Goto, HandlerMovesImage, rowData, image
  <1>2. CASE FetchAndPut(w)
    BY <1>2, <1>t DEF FetchAndPut, LoadFailing, Goto, HandlerMovesImage
  <1>3. CASE SetReceiptStored(w)
    BY <1>3, <1>t DEF SetReceiptStored, Continue, Goto, HandlerMovesImage
  <1>4. CASE Arm(w)
    <2>1. CASE Continue(w, "record", w) /\ UNCHANGED receipt
      BY <1>4, <2>1, <1>t DEF Arm, Continue, Goto, HandlerMovesImage, image, FailWith, Done
    <2>2. CASE Done(w, "ack") \/ FailWith(w, "refuse")
      BY <1>4, <2>2, <1>t DEF Arm, FailWith, Continue, Done, Goto, HandlerMovesImage, image
    <2> QED BY <1>4, <2>1, <2>2 DEF Arm
  <1>5. CASE Prepare(w) \/ StartDownload(w) \/ LoadFailed(w) \/ MarkStored(w) \/ MarkExtracting(w)
             \/ ChargeOCR(w) \/ Refuse(w) \/ Extract(w) \/ Finish(w) \/ Answer(w)
             \/ StoreError(w) \/ LockError(w)
    <2>1. UNCHANGED <<object, storageKey, sha256>>
      BY <1>5 DEF Prepare, StartDownload, LoadFailed, MarkStored, MarkExtracting, ChargeOCR,
         Refuse, Extract, Finish, Answer, StoreError, LockError, rowData, image
    <2>2. at'[w] \notin {"arm", "record"}
      BY <1>5, <1>t DEF Prepare, StartDownload, LoadFailed, MarkStored, MarkExtracting, ChargeOCR,
         Refuse, Extract, Finish, Answer, StoreError, LockError, FailWith, FailTransient,
         Continue, Done, Goto
    <2> QED BY <2>1, <2>2 DEF HandlerMovesImage
  <1> QED BY <1>1, <1>2, <1>3, <1>4, <1>5 DEF HandlerStep

(* The sweep works on a listing.  Whatever has happened since it was read,   *)
(* the receipts on it stay settled, and due or discarded or erased.          *)
ListedInv ==
  \A x \in batch :
    /\ receipt[x.id] \in Settlement
    /\ expired[x.id] \/ receipt[x.id] = "deleted" \/ account # "active"

LEMMA ListedStep == PipelineInv /\ ListedInv /\ [ReceiptsNext]_vars => ListedInv'
  <1> SUFFICES ASSUME PipelineInv, ListedInv, [ReceiptsNext]_vars PROVE ListedInv'
    OBVIOUS
  <1>t. /\ batch \subseteq Listing /\ expired \in [Jobs -> BOOLEAN]
        /\ receipt \in [Jobs -> ReceiptStatus]
    BY DEF PipelineInv, ReceiptsTypeOK
  <1>1. \A r \in Jobs : /\ receipt[r] \in Settlement => receipt'[r] \in Settlement
                        /\ expired[r] => expired'[r]
                        /\ receipt[r] = "deleted" => receipt'[r] = "deleted" \/ account' # "active"
    <2>1. expired' = expired \/ \E i \in Jobs : expired' = [expired EXCEPT ![i] = TRUE]
      BY StepCases, HandlerReceipt DEF OutsideStep, UserActs, RegisterReceipt, ConfirmTx,
         DiscardTx, DeleteAfterPasses, PendingExpires, RetentionStep,
         ListReceiptsPendingDeletion, SweepStep, DeletionStep, BeginAccountDeletion,
         DeleteOriginal, PurgeAccountData, DeletionFails, Claim, LaneCrash, QueueOnly,
         receiptVars, rowData, meta
    <2>2. PurgeAccountData => account' = "deleted"
      BY DEF PurgeAccountData
    <2> QED BY <2>1, <2>2, <1>t, ReceiptLife
            DEF Lives, Settlement, TerminalReceipt, InFlight
  <1>2. account # "active" => account' # "active"
    BY StepCases, HandlerReceipt DEF OutsideStep, UserActs, RegisterReceipt, ConfirmTx,
       DiscardTx, DeleteAfterPasses, PendingExpires, RetentionStep,
       ListReceiptsPendingDeletion, SweepStep, DeletionStep, BeginAccountDeletion,
       DeleteOriginal, PurgeAccountData, DeletionFails, Claim, LaneCrash, QueueOnly,
       receiptVars, rowData, meta
  <1>3. ASSUME \A x \in batch' : \E y \in batch : y.id = x.id PROVE ListedInv'
    BY <1>1, <1>2, <1>3, <1>t DEF ListedInv, Listing
  <1>4. CASE ListReceiptsPendingDeletion
    <2> SUFFICES ASSUME NEW x \in batch'
                 PROVE /\ receipt'[x.id] \in Settlement
                       /\ expired'[x.id] \/ receipt'[x.id] = "deleted"
      BY DEF ListedInv
    <2>1. /\ UNCHANGED <<receipt, expired>>
          /\ \E r \in Jobs : x.id = r /\ PendingDeletion(r)
      BY <1>4 DEF ListReceiptsPendingDeletion, rowData, meta
    <2> QED BY <2>1 DEF PendingDeletion, Settlement, TerminalReceipt
  <1>5. CASE SweepStep
    <2>1. PICK y \in batch : SweepObject(y) \/ SweepRow(y) \/ ClearReceiptStorageKey(y)
      BY <1>5 DEF SweepStep
    <2>2. \A step \in {"row", "clear"} : [y EXCEPT !.step = step].id = y.id
      BY <1>t DEF Listing
    <2>3. \/ batch' \subseteq batch
          \/ \E step \in {"row", "clear"} : batch' \subseteq batch \cup {[y EXCEPT !.step = step]}
      BY <2>1 DEF SweepObject, SweepRow, ClearReceiptStorageKey, Step, Drop
    <2>4. ASSUME NEW x \in batch' PROVE \E z \in batch : z.id = x.id
      BY <2>2, <2>3
    <2> QED BY <1>3, <2>4
  <1>6. CASE batch' \subseteq batch
    BY <1>3, <1>6
  <1>7. ASSUME ~ListReceiptsPendingDeletion, ~SweepStep PROVE batch' \subseteq batch
    BY <1>7, StepCases, HandlerReceipt DEF OutsideStep, UserActs, RegisterReceipt, ConfirmTx,
       DiscardTx, DeleteAfterPasses, PendingExpires, RetentionStep, SweepStops,
       DeletionStep, BeginAccountDeletion, DeleteOriginal, PurgeAccountData, DeletionFails,
       Claim, LaneCrash, QueueOnly, receiptVars, others
  <1> QED BY <1>4, <1>5, <1>6, <1>7

(* What the other steps do to lanes and images: no lane moves on inside its  *)
(* handler, originals go by the sweep's listing or by the deletion, and keys *)
(* and hashes are only ever cleared.                                         *)
LEMMA OtherLanes ==
  ASSUME PipelineInv, [ReceiptsNext]_vars, ~ \E w \in Lanes : HandlerStep(w)
  PROVE  \A w \in Lanes :
           at'[w] \notin {"off", "prepare"} =>
             /\ at'[w] = at[w] /\ held'[w] = held[w]
             /\ result'[w] = result[w] /\ fetched'[w] = fetched[w]
  <1>t. /\ at \in [Lanes -> Steps] /\ held \in [Lanes -> Jobs \cup {NoJob}] /\ LaneInv
        /\ fetched \in [Lanes -> BOOLEAN]
        /\ result \in [Lanes -> {"none", "ok", "transient", "permanent"}]
    BY DEF PipelineInv, ReceiptsTypeOK, QueueTypeOK
  <1> SUFFICES ASSUME NEW v \in Lanes, at'[v] \notin {"off", "prepare"}
               PROVE  /\ at'[v] = at[v] /\ held'[v] = held[v]
                      /\ result'[v] = result[v] /\ fetched'[v] = fetched[v]
    OBVIOUS
  <1>1. ASSUME NEW w \in Lanes, NEW i \in Jobs, Claim(w, i)
        PROVE  /\ at'[v] = at[v] /\ held'[v] = held[v]
               /\ result'[v] = result[v] /\ fetched'[v] = fetched[v]
    <2>1. v # w
      BY <1>1, <1>t DEF Claim, Goto
    <2> QED BY <1>1, <2>1, <1>t DEF Claim, Dequeue, Goto
  <1>2. ASSUME NEW w \in Lanes, LaneCrash(w)
        PROVE  /\ at'[v] = at[v] /\ held'[v] = held[v]
               /\ result'[v] = result[v] /\ fetched'[v] = fetched[v]
    <2>1. v # w
      BY <1>2, <1>t DEF LaneCrash, Goto
    <2> QED BY <1>2, <2>1, <1>t DEF LaneCrash, Crash, Idle, Goto
  <1>3. CASE QueueOnly
    BY <1>3, <1>t DEF QueueOnly, LaneInv, receiptVars, control, local
  <1>4. CASE OutsideStep
    BY <1>4, OutsideShape DEF laneVars, local
  <1> QED BY <1>1, <1>2, <1>3, <1>4, StepCases

LEMMA OtherImages ==
  ASSUME PipelineInv, [ReceiptsNext]_vars, ~ \E w \in Lanes : HandlerStep(w)
  PROVE  /\ \A r \in Jobs :
              /\ object'[r] # object[r] =>
                   ~object'[r] /\ (lock = Deleter \/ \E x \in batch : x.id = r /\ SweepObject(x))
              /\ storageKey'[r] => storageKey[r]
         /\ sha256' = sha256 \/ PurgeAccountData
         /\ account # "active" => account' # "active"
  <1>t. /\ object \in [Jobs -> BOOLEAN] /\ storageKey \in [Jobs -> BOOLEAN] /\ batch \subseteq Listing
    BY DEF PipelineInv, ReceiptsTypeOK
  <1>1. sha256' = sha256 \/ PurgeAccountData
    BY StepCases DEF OutsideStep, UserActs, RegisterReceipt, ConfirmTx,
       DiscardTx, DeleteAfterPasses, PendingExpires, RetentionStep,
       ListReceiptsPendingDeletion, SweepStep, DeletionStep, BeginAccountDeletion,
       DeleteOriginal, DeletionFails, Claim, LaneCrash, QueueOnly, receiptVars, rowData, image
  <1>2. account # "active" => account' # "active"
    BY StepCases DEF OutsideStep, UserActs, RegisterReceipt, ConfirmTx,
       DiscardTx, DeleteAfterPasses, PendingExpires, RetentionStep,
       ListReceiptsPendingDeletion, SweepStep, DeletionStep, BeginAccountDeletion,
       DeleteOriginal, PurgeAccountData, DeletionFails, Claim, LaneCrash, QueueOnly,
       receiptVars, rowData, meta
  <1> SUFFICES ASSUME NEW r \in Jobs
               PROVE  /\ object'[r] # object[r] =>
                           ~object'[r] /\ (lock = Deleter \/ \E x \in batch : x.id = r /\ SweepObject(x))
                      /\ storageKey'[r] => storageKey[r]
    BY <1>1, <1>2
  <1>3. ASSUME NEW x \in batch, SweepObject(x) \/ SweepRow(x) \/ ClearReceiptStorageKey(x)
        PROVE  /\ object'[r] # object[r] => ~object'[r] /\ x.id = r /\ SweepObject(x)
               /\ storageKey'[r] => storageKey[r]
    <2>1. x.id \in Jobs /\ x.key \in BOOLEAN
      BY <1>t DEF Listing
    <2>2. CASE SweepObject(x)
      <3>1. storageKey' = storageKey
        BY <2>2 DEF SweepObject
      <3>2. object' = object \/ object' = [object EXCEPT ![x.id] = @ /\ ~x.key]
        BY <2>2 DEF SweepObject
      <3>3. object'[r] # object[r] => x.id = r /\ object'[r] = (object[r] /\ ~x.key)
        BY <3>2, <2>1, <1>t
      <3>4. object'[r] # object[r] => ~object'[r]
        BY <3>3, <2>1, <1>t
      <3> QED BY <2>2, <3>1, <3>3, <3>4
    <2>3. CASE SweepRow(x) \/ ClearReceiptStorageKey(x)
      BY <2>1, <2>3, <1>t DEF SweepRow, ClearReceiptStorageKey
    <2> QED BY <1>3, <2>2, <2>3
  <1>4. ASSUME NEW i \in Jobs, DeleteOriginal(i)
        PROVE  /\ object'[r] # object[r] => ~object'[r] /\ lock = Deleter
               /\ storageKey'[r] => storageKey[r]
    BY <1>4, <1>t DEF DeleteOriginal
  <1>5. CASE PurgeAccountData
    BY <1>5 DEF PurgeAccountData
  <1>6. ASSUME ~SweepStep, ~ \E i \in Jobs : DeleteOriginal(i), ~PurgeAccountData
        PROVE  UNCHANGED <<object, storageKey>>
    BY <1>6, StepCases DEF OutsideStep, UserActs, RegisterReceipt, ConfirmTx,
       DiscardTx, DeleteAfterPasses, PendingExpires, RetentionStep, SweepStops,
       ListReceiptsPendingDeletion, DeletionStep, BeginAccountDeletion, DeletionFails, Claim,
       LaneCrash, QueueOnly, receiptVars, rowData, image
  <1> QED BY <1>3, <1>4, <1>5, <1>6 DEF SweepStep

(* A lane's view of its own step: the lane keeps its job and no other lane   *)
(* moves.                                                                    *)
LEMMA OwnLaneOnly ==
  ASSUME PipelineInv, NEW w \in Lanes, HandlerStep(w)
  PROVE  /\ held' = held /\ at[w] # "off"
         /\ \A v \in Lanes \ {w} : at'[v] = at[v] /\ phase'[v] = phase[v]
         /\ UNCHANGED <<status, attempts, lost>>
  BY HandlerShape DEF HandlerMoves, Moves, Leaves, Return, rowVars, queueVars, PipelineInv,
     ReceiptsTypeOK, QueueTypeOK

-----------------------------------------------------------------------------
(* Originals.  Between the load and the commit of its key the original of a  *)
(* receipt in work is there, and no row comes with a key.                    *)
AvailableInv ==
  /\ \A w \in Lanes :
       at[w] \in {"arm", "record"} /\ receipt[held[w]] \in InFlight /\ account = "active"
         => object[held[w]]
  /\ \A r \in Jobs : receipt[r] = "none" => ~storageKey[r]
  /\ OriginalAvailable

LEMMA AvailableStep ==
  PipelineInv /\ Known /\ ListedInv /\ AvailableInv /\ [ReceiptsNext]_vars => AvailableInv'
  <1> SUFFICES ASSUME PipelineInv, Known, ListedInv, AvailableInv, [ReceiptsNext]_vars
               PROVE  AvailableInv'
    OBVIOUS
  <1>t. /\ receipt \in [Jobs -> ReceiptStatus] /\ object \in [Jobs -> BOOLEAN]
        /\ storageKey \in [Jobs -> BOOLEAN] /\ at \in [Lanes -> Steps]
    BY DEF PipelineInv, ReceiptsTypeOK
  <1>1. ASSUME NEW w \in Lanes, HandlerStep(w) PROVE AvailableInv'
    <2>1. /\ held' = held /\ at[w] # "off" /\ held[w] \in Jobs /\ receipt[held[w]] # "none"
          /\ \A v \in Lanes \ {w} : at'[v] = at[v]
      BY <1>1, OwnLaneOnly, HeldReceipt, HeldIsKnown, NoJobIsNew
    <2>2. /\ HandlerMovesImage(w) /\ account' = account
          /\ \A r \in Jobs : /\ receipt'[r] \in InFlight => receipt[r] \in InFlight
                             /\ receipt'[r] = "none" => receipt[r] = "none"
      BY <1>1, <1>t, HandlerImage, HandlerReceipt
         DEF HandlerMovesReceipt, StatusMoves, Finalizes, InFlight
    <2>3. \A r \in Jobs : object[r] => object'[r]
      BY <2>1, <2>2, <1>t DEF HandlerMovesImage
    <2>4. ASSUME NEW v \in Lanes, at'[v] \in {"arm", "record"}, receipt'[held[v]] \in InFlight,
                 account = "active"
          PROVE  object'[held[v]]
      <3>1. CASE v = w
        BY <2>1, <2>2, <2>3, <2>4, <3>1 DEF HandlerMovesImage, AvailableInv
      <3>2. CASE v # w
        <4>1. held[v] \in Jobs /\ at[v] \in {"arm", "record"}
          BY <2>1, <2>4, <3>2, HeldReceipt
        <4> QED BY <2>2, <2>3, <2>4, <4>1 DEF AvailableInv
      <3> QED BY <3>1, <3>2
    <2>5. ASSUME NEW r \in Jobs, storageKey'[r], ~storageKey[r]
          PROVE  r = held[w] /\ at[w] = "record"
      BY <2>1, <2>2, <2>5, <1>t DEF HandlerMovesImage
    <2>6. ASSUME NEW r \in Jobs, receipt'[r] = "none" PROVE ~storageKey'[r]
      BY <2>1, <2>2, <2>5, <2>6 DEF AvailableInv
    <2>7. ASSUME NEW r \in Jobs, receipt'[r] \in InFlight, storageKey'[r], account = "active"
          PROVE  object'[r]
      BY <2>2, <2>3, <2>5, <2>7 DEF AvailableInv, OriginalAvailable
    <2> QED BY <2>1, <2>2, <2>4, <2>6, <2>7 DEF AvailableInv, OriginalAvailable
  <1>2. ASSUME ~ \E w \in Lanes : HandlerStep(w) PROVE AvailableInv'
    <2>1. \A r \in Jobs : /\ receipt'[r] \in InFlight => receipt[r] \in InFlight \cup {"none"}
                          /\ receipt'[r] = "none" => receipt[r] = "none"
      BY <1>t, ReceiptLife DEF Lives, InFlight, TerminalReceipt
    <2>2. account' = "active" => account = "active"
      BY <1>2, OtherImages
    <2>3. ASSUME NEW r \in Jobs, receipt[r] \in InFlight, account = "active", object[r]
          PROVE  object'[r]
      <3>1. lock # Deleter /\ \A x \in batch : x.id # r
        BY <2>3 DEF PipelineInv, LockInv, ListedInv, Settlement, TerminalReceipt, InFlight
      <3> QED BY <1>2, <2>3, <3>1, OtherImages
    <2>4. ASSUME NEW v \in Lanes, at'[v] \in {"arm", "record"}, receipt'[held'[v]] \in InFlight,
                 account' = "active"
          PROVE  object'[held'[v]]
      <3>1. at'[v] = at[v] /\ held'[v] = held[v]
        BY <1>2, <2>4, OtherLanes
      <3>2. held[v] \in Jobs /\ receipt[held[v]] # "none"
        BY <2>4, <3>1, HeldReceipt, HeldIsKnown, NoJobIsNew
      <3> QED BY <2>1, <2>2, <2>3, <2>4, <3>1, <3>2 DEF AvailableInv
    <2>5. ASSUME NEW r \in Jobs, receipt'[r] = "none" PROVE ~storageKey'[r]
      BY <1>2, <2>1, <2>5, OtherImages DEF AvailableInv
    <2>6. ASSUME NEW r \in Jobs, receipt'[r] \in InFlight, storageKey'[r], account' = "active"
          PROVE  object'[r]
      <3>1. storageKey[r] /\ receipt[r] \in InFlight
        BY <1>2, <2>1, <2>6, OtherImages DEF AvailableInv
      <3> QED BY <2>2, <2>3, <2>6, <3>1 DEF AvailableInv, OriginalAvailable
    <2> QED BY <2>4, <2>5, <2>6 DEF AvailableInv, OriginalAvailable
  <1> QED BY <1>1, <1>2

LEMMA ListedInvSafe == ReceiptsSpec => [](Known /\ ListedInv)
  <1>1. ReceiptsInit => Known /\ ListedInv
    BY DEF ReceiptsInit, QueueInit, Known, ListedInv
  <1> QED BY <1>1, KnownStep, ListedStep, PipelineInvSafe, PTL DEF ReceiptsSpec

(* A receipt in work whose key is recorded has its original, as long as its  *)
(* user is not being deleted, whatever lanes crash, lapse or fail.           *)
THEOREM OriginalAvailableSafe == ReceiptsSpec => []OriginalAvailable
  <1>1. ReceiptsInit => AvailableInv
    BY DEF ReceiptsInit, AvailableInv, OriginalAvailable
  <1>2. AvailableInv => OriginalAvailable
    BY DEF AvailableInv
  <1> QED BY <1>1, <1>2, AvailableStep, ListedInvSafe, PipelineInvSafe, PTL DEF ReceiptsSpec

(* However stale its listing is, the sweep removes no original before its    *)
(* time, unless the receipt was discarded or the account goes.               *)
THEOREM SweptOnlyWhenDueSafe == ReceiptsSpec => SweptOnlyWhenDue
  <1> DEFINE Due == \A r \in Jobs : object[r] /\ ~object'[r]
                      => expired[r] \/ receipt[r] = "deleted" \/ account # "active"
  <1>1. PipelineInv /\ ListedInv /\ [ReceiptsNext]_vars => [Due]_vars
    <2> SUFFICES ASSUME PipelineInv, ListedInv, [ReceiptsNext]_vars PROVE Due
      OBVIOUS
    <2>1. ASSUME NEW w \in Lanes, HandlerStep(w) PROVE Due
      <3>1. held[w] \in Jobs /\ object \in [Jobs -> BOOLEAN] /\ HandlerMovesImage(w)
        BY <2>1, OwnLaneOnly, HeldReceipt, HandlerImage DEF PipelineInv, ReceiptsTypeOK
      <3> QED BY <3>1 DEF HandlerMovesImage
    <2>2. ASSUME ~ \E w \in Lanes : HandlerStep(w) PROVE Due
      BY <2>2, OtherImages DEF ListedInv, PipelineInv, LockInv
    <2> QED BY <2>1, <2>2
  <1>2. ReceiptsSpec => [][Due]_vars
    BY <1>1, ListedInvSafe, PipelineInvSafe, PTL DEF ReceiptsSpec
  <1> QED BY <1>2 DEF SweptOnlyWhenDue

-----------------------------------------------------------------------------
(* Duplicates.  A lane about to record a hash has found, under the lock it   *)
(* still holds, that no other live row has it.                               *)
DuplicateInv ==
  /\ \A r \in Jobs : sha256[r] => Row(r)
  /\ \A w \in Lanes : at[w] = "record" =>
       /\ Row(held[w])
       /\ \A i \in Jobs : i # held[w] /\ Image[i] = Image[held[w]] /\ sha256[i]
                            => receipt[i] = "deleted"
  /\ OneReceiptPerImage

(* At most one live row of an image has its hash, so that the newest one     *)
(* FindReceiptByHash returns is the only one.                                *)
LEMMA NoDuplicate ==
  ASSUME PipelineInv, DuplicateInv, NEW r \in Jobs, ~Duplicate(r), receipt[r] # "deleted"
  PROVE  \A i \in Jobs : i # r /\ Image[i] = Image[r] /\ sha256[i] => receipt[i] = "deleted"
  <1> SUFFICES ASSUME NEW i \in Jobs, i # r, Image[i] = Image[r], sha256[i],
                      receipt[i] # "deleted"
               PROVE  FALSE
    OBVIOUS
  <1>1. i \in SameContent(r)
    BY DEF DuplicateInv, SameContent
  <1>2. ASSUME NEW k \in SameContent(r) PROVE born[k] <= born[i]
    <2>1. k = i
      BY <1>1 DEF SameContent, DuplicateInv, OneReceiptPerImage
    <2> QED BY <2>1 DEF PipelineInv, ReceiptsTypeOK
  <1> QED BY <1>1, <1>2 DEF Duplicate

LEMMA DuplicateStep == PipelineInv /\ DuplicateInv /\ [ReceiptsNext]_vars => DuplicateInv'
  <1> SUFFICES ASSUME PipelineInv, DuplicateInv, [ReceiptsNext]_vars PROVE DuplicateInv'
    OBVIOUS
  <1>t. /\ receipt \in [Jobs -> ReceiptStatus] /\ sha256 \in [Jobs -> BOOLEAN]
        /\ at \in [Lanes -> Steps]
    BY DEF PipelineInv, ReceiptsTypeOK
  <1>l. \A v, w \in Lanes : at[v] \in LockedSteps /\ at[w] \in LockedSteps => v = w
    BY DEF PipelineInv, LockInv
  <1>1. ASSUME NEW w \in Lanes, HandlerStep(w) PROVE DuplicateInv'
    <2>1. /\ held' = held /\ at[w] # "off" /\ held[w] \in Jobs
          /\ \A v \in Lanes \ {w} : at'[v] = at[v]
      BY <1>1, OwnLaneOnly, HeldReceipt
    <2>2. /\ HandlerMovesImage(w)
          /\ \A r \in Jobs : /\ receipt[r] = "deleted" => receipt'[r] = "deleted"
                             /\ Row(r) <=> receipt'[r] \notin {"none", "purged"}
      BY <1>1, <2>1, <1>t, HandlerImage, HandlerReceipt
         DEF HandlerMovesReceipt, StatusMoves, Finalizes, InFlight, Row
    <2>3. ASSUME NEW v \in Lanes, at'[v] = "record"
          PROVE  /\ Row(held[v]) /\ sha256' = sha256
                 /\ \A i \in Jobs : i # held[v] /\ Image[i] = Image[held[v]] /\ sha256[i]
                                      => receipt[i] = "deleted"
      <3>1. CASE v = w
        <4>1. /\ Row(held[w]) /\ ~Duplicate(held[w]) /\ sha256' = sha256
              /\ receipt[held[w]] # "deleted"
          BY <2>2, <2>3, <3>1 DEF HandlerMovesImage, TerminalReceipt
        <4> QED BY <2>1, <3>1, <4>1, NoDuplicate
      <3>2. CASE v # w
        <4>1. at[v] = "record" /\ at[w] # "record"
          BY <2>1, <2>3, <3>2, <1>l DEF LockedSteps
        <4> QED BY <2>2, <4>1 DEF HandlerMovesImage, DuplicateInv
      <3> QED BY <3>1, <3>2
    <2>4. \A v \in Lanes : at'[v] = "record" => held[v] \in Jobs
      BY <2>1, HeldReceipt
    <2>5. CASE sha256' = sha256
      <3>1. \A r \in Jobs : sha256'[r] => Row(r)'
        BY <2>2, <2>5 DEF DuplicateInv, Row
      <3>2. OneReceiptPerImage'
        BY <2>2, <2>5 DEF DuplicateInv, OneReceiptPerImage
      <3> QED BY <2>1, <2>2, <2>3, <2>4, <2>5, <3>1, <3>2 DEF DuplicateInv, Row
    <2>6. CASE sha256' = [sha256 EXCEPT ![held[w]] = TRUE] /\ at[w] = "record"
      <3>1. \A r \in Jobs : sha256'[r] => Row(r)'
        BY <2>1, <2>2, <2>6, <1>t DEF DuplicateInv, Row
      <3>2. OneReceiptPerImage'
        BY <2>1, <2>2, <2>6, <1>t DEF DuplicateInv, OneReceiptPerImage
      <3>3. \A v \in Lanes : at'[v] # "record"
        BY <2>1, <2>2, <2>6, <1>l DEF HandlerMovesImage, LockedSteps
      <3> QED BY <3>1, <3>2, <3>3 DEF DuplicateInv
    <2> QED BY <2>2, <2>5, <2>6 DEF HandlerMovesImage
  <1>2. CASE PurgeAccountData
    <2>1. \A w \in Lanes : at'[w] # "record"
      BY <1>2, LockHolders DEF PurgeAccountData, PipelineInv, LockInv, LockedSteps, local
    <2>2. \A r \in Jobs : ~sha256'[r]
      BY <1>2 DEF PurgeAccountData
    <2> QED BY <2>1, <2>2 DEF DuplicateInv, OneReceiptPerImage
  <1>3. ASSUME ~ \E w \in Lanes : HandlerStep(w), ~PurgeAccountData PROVE DuplicateInv'
    <2>1. /\ sha256' = sha256
          /\ \A w \in Lanes : at'[w] = "record" => at[w] = "record" /\ held'[w] = held[w]
      BY <1>3, OtherImages, OtherLanes
    <2>2. \A r \in Jobs : /\ receipt[r] = "deleted" => receipt'[r] = "deleted"
                          /\ Row(r) => Row(r)'
      BY <1>3, <1>t, ReceiptLife DEF Lives, InFlight, Row
    <2>3. \A w \in Lanes : at[w] = "record" => held[w] \in Jobs
      BY HeldReceipt
    <2>4. OneReceiptPerImage'
      BY <2>1, <2>2 DEF DuplicateInv, OneReceiptPerImage
    <2> QED BY <2>1, <2>2, <2>3, <2>4 DEF DuplicateInv
  <1> QED BY <1>1, <1>2, <1>3

(* Of the rows with one content at most one is live, however many lanes work *)
(* on them at once: the user lock spans the check and the write.             *)
THEOREM OneReceiptPerImageSafe == ReceiptsSpec => []OneReceiptPerImage
  <1>1. ReceiptsInit => DuplicateInv
    BY DEF ReceiptsInit, DuplicateInv, OneReceiptPerImage
  <1>2. DuplicateInv => OneReceiptPerImage
    BY DEF DuplicateInv
  <1> QED BY <1>1, <1>2, DuplicateStep, PipelineInvSafe, PTL DEF ReceiptsSpec

-----------------------------------------------------------------------------
(* Faults are only ever counted up. *)
LEMMA ReceiptFaultsCount ==
  ASSUME PipelineInv, [ReceiptsNext]_vars
  PROVE  /\ storeErrors' = 0 => storeErrors = 0
         /\ errors' = 0 => errors = 0
         /\ \A r \in Jobs : lost'[r] = 0 => lost[r] = 0
  <1>1. /\ storeErrors' \in {storeErrors, storeErrors + 1}
        /\ errors' \in {errors, errors + 1}
    <2>1. ASSUME NEW w \in Lanes, HandlerStep(w)
          PROVE  /\ storeErrors' \in {storeErrors, storeErrors + 1}
                 /\ errors' \in {errors, errors + 1}
      BY <2>1 DEF HandlerStep, Prepare, StartDownload, ReadStored, FetchAndPut, LoadFailed,
         Arm, SetReceiptStored, MarkStored, MarkExtracting, ChargeOCR, Refuse, Extract,
         Finish, Answer, StoreError, LockError, others, failures, Failing, StoreFailing
    <2>2. ASSUME ~ \E w \in Lanes : HandlerStep(w)
          PROVE  /\ storeErrors' \in {storeErrors, storeErrors + 1}
                 /\ errors' \in {errors, errors + 1}
      BY <2>2, StepCases DEF OutsideStep, UserActs, RegisterReceipt, ConfirmTx,
         DiscardTx, DeleteAfterPasses, PendingExpires, RetentionStep, SweepStops, SweepStep,
         SweepObject, SweepRow, ClearReceiptStorageKey, ListReceiptsPendingDeletion,
         DeletionStep, BeginAccountDeletion, DeleteOriginal, PurgeAccountData, DeletionFails,
         Claim, LaneCrash, QueueOnly, receiptVars, others, failures, Failing, StoreFailing
    <2> QED BY <2>1, <2>2
  <1>2. lost' = lost \/ \E i : lost' = [lost EXCEPT ![i] = @ + 1]
    BY QueueStepOfReceipts
       DEF Next, LaneStep, Environment, Clock, Enqueue, Dequeue, Poll, Heartbeat, Return,
           Ack, Nack, Delete, BackoffElapses, LeaseExpires, Stall, HeartbeatFails, Crash, Fault, queueVars
  <1> QED BY <1>1, <1>2 DEF PipelineInv, ReceiptsTypeOK, QueueTypeOK

(* Only the handler settles a receipt and answers the user. *)
LEMMA OtherSettlements ==
  ASSUME PipelineInv, [ReceiptsNext]_vars, ~ \E w \in Lanes : HandlerStep(w)
  PROVE  /\ \A r \in Jobs : receipt'[r] \in TerminalReceipt => receipt[r] \in TerminalReceipt
         /\ UNCHANGED <<told, usage>>
  <1>t. receipt \in [Jobs -> ReceiptStatus]
    BY DEF PipelineInv, ReceiptsTypeOK
  <1>1. UNCHANGED <<told, usage>>
    BY StepCases DEF OutsideStep, UserActs, RegisterReceipt, ConfirmTx,
       DiscardTx, DeleteAfterPasses, PendingExpires, RetentionStep,
       ListReceiptsPendingDeletion, SweepStep, DeletionStep, BeginAccountDeletion,
       DeleteOriginal, PurgeAccountData, DeletionFails, Claim, LaneCrash, QueueOnly,
       receiptVars, rowData, review
  <1> SUFFICES ASSUME NEW r \in Jobs, receipt'[r] \in TerminalReceipt
               PROVE  receipt[r] \in TerminalReceipt
    BY <1>1
  <1>2. ASSUME NEW i \in Jobs, ConfirmTx(i) \/ DiscardTx(i) PROVE receipt[r] \in TerminalReceipt
    BY <1>2, <1>t DEF ConfirmTx, DiscardTx, TerminalReceipt
  <1>3. CASE PurgeAccountData
    BY <1>3 DEF PurgeAccountData, TerminalReceipt
  <1> QED BY <1>2, <1>3, OtherReceiptSteps DEF RegisteredOrSwept, TerminalReceipt

(* Answers.  A receipt that is settled was answered, or the lane that        *)
(* settled it is about to.                                                   *)
AnswerInv ==
  storeErrors = 0 =>
    \A r \in Jobs : lost[r] = 0 /\ receipt[r] \in TerminalReceipt =>
      told[r] \/ \E w \in Lanes : held[w] = r /\ at[w] \in {"refuse", "answer"}

LEMMA AnswerStep == PipelineInv /\ AnswerInv /\ [ReceiptsNext]_vars => AnswerInv'
  <1> SUFFICES ASSUME PipelineInv, AnswerInv, [ReceiptsNext]_vars, storeErrors' = 0,
                      NEW r \in Jobs, lost'[r] = 0, receipt'[r] \in TerminalReceipt
               PROVE  told'[r] \/ \E w \in Lanes : held'[w] = r /\ at'[w] \in {"refuse", "answer"}
    BY DEF AnswerInv
  <1>t. /\ receipt \in [Jobs -> ReceiptStatus] /\ told \in [Jobs -> BOOLEAN]
        /\ at \in [Lanes -> Steps] /\ held \in [Lanes -> Jobs \cup {NoJob}]
        /\ storeErrors \in Nat /\ lost \in [Jobs -> Nat]
    BY DEF PipelineInv, ReceiptsTypeOK, QueueTypeOK
  <1>0. /\ storeErrors = 0 /\ lost[r] = 0
        /\ receipt[r] \in TerminalReceipt =>
             told[r] \/ \E w \in Lanes : held[w] = r /\ at[w] \in {"refuse", "answer"}
    BY ReceiptFaultsCount DEF AnswerInv
  <1>1. ASSUME NEW w \in Lanes, HandlerStep(w)
        PROVE  told'[r] \/ \E v \in Lanes : held'[v] = r /\ at'[v] \in {"refuse", "answer"}
    <2>1. /\ held' = held /\ held[w] \in Jobs
          /\ \A v \in Lanes \ {w} : at'[v] = at[v]
      BY <1>1, OwnLaneOnly, HeldReceipt
    <2>2. CASE receipt[r] \notin TerminalReceipt
      <3>1. held[w] = r /\ at'[w] \in {"refuse", "answer"}
        BY <1>1, <2>1, <2>2, <1>t, HandlerReceipt
           DEF HandlerMovesReceipt, StatusMoves, Finalizes, TerminalReceipt, InFlight
      <3> QED BY <2>1, <3>1
    <2>3. CASE told[r]
      <3>1. told' = told \/ told' = [told EXCEPT ![held[w]] = TRUE]
        BY <1>1 DEF HandlerStep, Prepare, StartDownload, ReadStored, FetchAndPut, LoadFailed,
           Arm, SetReceiptStored, MarkStored, MarkExtracting, ChargeOCR, Refuse, Extract,
           Finish, Answer, StoreError, LockError, rowData, review
      <3> QED BY <2>1, <2>3, <3>1, <1>t
    <2>4. ASSUME NEW v \in Lanes, held[v] = r, at[v] \in {"refuse", "answer"}
          PROVE  told'[r] \/ at'[v] \in {"refuse", "answer"}
      <3>1. CASE v = w
        <4>0. ~StoreError(w)
          BY <1>0 DEF StoreError, StoreFailing
        <4>1. Refuse(w) \/ Answer(w)
          BY <1>1, <2>4, <3>1, <4>0 DEF HandlerStep, Prepare, StartDownload, ReadStored, FetchAndPut,
             LoadFailed, Arm, SetReceiptStored, MarkStored, MarkExtracting, ChargeOCR, Extract,
             Finish, LockError
        <4> QED BY <4>1, <2>4, <3>1, <1>0, <1>t DEF Refuse, Answer, StoreFailing
      <3> QED BY <2>1, <2>4, <3>1
    <2> QED BY <2>1, <2>2, <2>3, <2>4, <1>0
  <1>2. ASSUME ~ \E w \in Lanes : HandlerStep(w)
        PROVE  told'[r] \/ \E v \in Lanes : held'[v] = r /\ at'[v] \in {"refuse", "answer"}
    <2>1. told' = told /\ receipt[r] \in TerminalReceipt
      BY <1>2, OtherSettlements
    <2>2. ASSUME NEW v \in Lanes, held[v] = r, at[v] \in {"refuse", "answer"}
          PROVE  held'[v] = r /\ at'[v] = at[v]
      <3>1. ASSUME NEW w \in Lanes, NEW i \in Jobs, Claim(w, i) PROVE held'[v] = r /\ at'[v] = at[v]
        BY <3>1, <2>2, <1>t DEF Claim, Dequeue, Goto, PipelineInv, LaneInv
      <3>2. ASSUME NEW w \in Lanes, LaneCrash(w) PROVE held'[v] = r /\ at'[v] = at[v]
        <4>1. v # w
          BY <3>2, <2>2, <1>0, <1>t DEF LaneCrash, Crash, Fault
        <4> QED BY <3>2, <4>1, <2>2, <1>t DEF LaneCrash, Crash, Idle, Goto
      <3>3. CASE QueueOnly
        BY <3>3, <2>2 DEF QueueOnly, receiptVars, control, local, PipelineInv, LaneInv
      <3>4. CASE OutsideStep
        BY <3>4, <2>2, OutsideShape DEF laneVars, local
      <3> QED BY <1>2, <3>1, <3>2, <3>3, <3>4, StepCases
    <2> QED BY <2>1, <2>2, <1>0
  <1> QED BY <1>1, <1>2

(* A user whose receipt was settled by a job that is done has had the card   *)
(* or the notice, unless a claim of the job or a statement was lost.         *)
THEOREM NeverSilentSafe == ReceiptsSpec => []NeverSilent
  <1>1. ReceiptsInit => AnswerInv
    BY DEF ReceiptsInit, AnswerInv, TerminalReceipt
  <1>2. PipelineInv /\ LoneHolder /\ AnswerInv => NeverSilent
    BY DEF LoneHolder, Undisturbed, Owns, AnswerInv, NeverSilent
  <1>3. ReceiptsSpec => []LoneHolder
    BY ReceiptsUseQueue, LoneHolderSafe, PTL
  <1> QED BY <1>1, <1>2, <1>3, AnswerStep, PipelineInvSafe, PTL DEF ReceiptsSpec

-----------------------------------------------------------------------------
(* The OCR budget.  A lane on its way to the extractor has paid: the calls   *)
(* made and those about to be made are covered by what was counted, and the  *)
(* count was within the limit when the last of them was let through.         *)
Extracting == {w \in Lanes : at[w] = "extract"}

BudgetInv ==
  /\ IsFiniteSet(Extracting)
  /\ storeErrors = 0 =>
       /\ ocrCalls + Cardinality(Extracting) <= ocrPages
       /\ MonthlyOCRLimit > 0 => ocrCalls + Cardinality(Extracting) <= MonthlyOCRLimit

(* The handler reaches the extractor through the charge, or past a failing   *)
(* statement, and each visit is one call.                                    *)
HandlerMovesBudget(w) ==
  \/ /\ at[w] = "extract" /\ at'[w] = "finish"
     /\ ocrCalls' = ocrCalls + 1 /\ ocrPages' = ocrPages
  \/ /\ at[w] = "charge" /\ at'[w] = "extract"
     /\ ocrCalls' = ocrCalls /\ ocrPages' = ocrPages + 1 /\ ~OverLimit(ocrPages + 1)
  \/ /\ at[w] # "extract"
     /\ at'[w] = "extract" => storeErrors' = storeErrors + 1
     /\ ocrCalls' = ocrCalls /\ ocrPages' \in {ocrPages, ocrPages + 1}

LEMMA HandlerBudget ==
  ASSUME PipelineInv, NEW w \in Lanes, HandlerStep(w)
  PROVE  HandlerMovesBudget(w)
  <1>t. at \in [Lanes -> Steps]
    BY DEF PipelineInv, ReceiptsTypeOK
  <1>f. \A step \in Steps : FailWith(w, step) => at'[w] \in {step, "off"}
    BY <1>t DEF FailWith, Continue, Done, Goto
  <1>1. CASE Extract(w)
    BY <1>1, <1>t DEF Extract, Goto, HandlerMovesBudget
  <1>2. CASE ChargeOCR(w)
    <2>1. ASSUME FailWith(w, "refuse"), ocrPages' \in {ocrPages, ocrPages + 1}
          PROVE  HandlerMovesBudget(w)
      <3>1. at'[w] \in {"refuse", "off"} /\ at[w] = "charge" /\ ocrCalls' = ocrCalls
        BY <1>2, <2>1, <1>f DEF ChargeOCR, Steps
      <3> QED BY <2>1, <3>1 DEF HandlerMovesBudget
    <2>2. ASSUME Continue(w, "extract", Nobody), IncrementUsage, ~OverLimit(ocrPages')
          PROVE  HandlerMovesBudget(w)
      BY <1>2, <2>2, <1>t DEF ChargeOCR, Continue, Goto, IncrementUsage, HandlerMovesBudget
    <2> QED BY <1>2, <2>1, <2>2 DEF ChargeOCR, IncrementUsage
  <1>3. CASE Refuse(w) \/ StoreError(w)
    <2>1. at[w] # "extract" /\ UNCHANGED <<ocrCalls, ocrPages>>
      BY <1>3 DEF Refuse, StoreError, rowData, usage
    <2>2. at'[w] = "extract" => storeErrors' = storeErrors + 1
      BY <1>3, <1>t DEF Refuse, StoreError, StoreFailing, Done, Goto
    <2> QED BY <2>1, <2>2 DEF HandlerMovesBudget
  <1>4. CASE Prepare(w) \/ StartDownload(w) \/ ReadStored(w) \/ FetchAndPut(w) \/ LoadFailed(w)
             \/ Arm(w) \/ SetReceiptStored(w) \/ MarkStored(w) \/ MarkExtracting(w) \/ Finish(w)
             \/ Answer(w) \/ LockError(w)
    <2>1. at[w] # "extract" /\ UNCHANGED <<ocrCalls, ocrPages>>
      BY <1>4 DEF Prepare, StartDownload, ReadStored, FetchAndPut, LoadFailed, Arm,
         SetReceiptStored, MarkStored, MarkExtracting, Finish, Answer, LockError, rowData, usage
    <2>2. at'[w] # "extract"
      BY <1>4, <1>t, <1>f DEF Prepare, StartDownload, ReadStored, FetchAndPut, LoadFailed,
         LoadFailing, Arm, SetReceiptStored, MarkStored, MarkExtracting, Finish, Answer,
         LockError, FailTransient, Continue, Done, Goto, Steps
    <2> QED BY <2>1, <2>2 DEF HandlerMovesBudget
  <1> QED BY <1>1, <1>2, <1>3, <1>4 DEF HandlerStep

LEMMA BudgetStep == PipelineInv /\ BudgetInv /\ [ReceiptsNext]_vars => BudgetInv'
  <1> SUFFICES ASSUME PipelineInv, BudgetInv, [ReceiptsNext]_vars PROVE BudgetInv'
    OBVIOUS
  <1>t. /\ ocrPages \in Nat /\ ocrCalls \in Nat /\ storeErrors \in Nat
        /\ MonthlyOCRLimit \in Nat /\ IsFiniteSet(Extracting)
    BY ReceiptBounds DEF PipelineInv, ReceiptsTypeOK, BudgetInv
  <1>e. storeErrors' = 0 => storeErrors = 0
    BY ReceiptFaultsCount
  <1>s. ASSUME Extracting' \subseteq Extracting, ocrCalls' = ocrCalls,
               ocrPages' \in {ocrPages, ocrPages + 1}
        PROVE  BudgetInv'
    <2>1. /\ IsFiniteSet(Extracting') /\ Cardinality(Extracting') \in Nat
          /\ Cardinality(Extracting) \in Nat
          /\ Cardinality(Extracting') <= Cardinality(Extracting)
      BY <1>s, <1>t, CardinalityShrinks
    <2> HIDE DEF Extracting
    <2> QED BY <2>1, <1>s, <1>t, <1>e DEF BudgetInv
  <1>1. ASSUME NEW w \in Lanes, HandlerStep(w) PROVE BudgetInv'
    <2>1. \A v \in Lanes \ {w} : at'[v] = at[v]
      BY <1>1, OwnLaneOnly
    <2>2. HandlerMovesBudget(w)
      BY <1>1, HandlerBudget
    <2>3. CASE at[w] = "extract" /\ at'[w] = "finish" /\ ocrCalls' = ocrCalls + 1 /\ ocrPages' = ocrPages
      <3>1. w \in Extracting /\ Extracting' = Extracting \ {w}
        BY <2>1, <2>3 DEF Extracting
      <3>2. /\ IsFiniteSet(Extracting') /\ Cardinality(Extracting') = Cardinality(Extracting) - 1
            /\ Cardinality(Extracting) \in Nat
        BY <3>1, <1>t, FS_RemoveElement, FS_CardinalityType
      <3> HIDE DEF Extracting
      <3> QED BY <2>3, <3>2, <1>t, <1>e DEF BudgetInv
    <2>4. CASE at[w] = "charge" /\ at'[w] = "extract" /\ ocrCalls' = ocrCalls
               /\ ocrPages' = ocrPages + 1 /\ ~OverLimit(ocrPages + 1)
      <3>1. Extracting' \subseteq Extracting \cup {w}
        BY <2>1 DEF Extracting
      <3>2. /\ IsFiniteSet(Extracting') /\ Cardinality(Extracting') \in Nat
            /\ Cardinality(Extracting) \in Nat
            /\ Cardinality(Extracting') <= Cardinality(Extracting) + 1
        BY <3>1, <1>t, CardinalityGrows
      <3> HIDE DEF Extracting
      <3> QED BY <2>4, <3>2, <1>t, <1>e DEF BudgetInv, OverLimit
    <2>5. CASE at'[w] # "extract" /\ ocrCalls' = ocrCalls /\ ocrPages' \in {ocrPages, ocrPages + 1}
      <3>1. Extracting' \subseteq Extracting
        BY <2>1, <2>5 DEF Extracting
      <3> QED BY <2>5, <3>1, <1>s
    <2>6. CASE storeErrors' = storeErrors + 1
      <3>1. Extracting' \subseteq Extracting \cup {w}
        BY <2>1 DEF Extracting
      <3>2. IsFiniteSet(Extracting')
        BY <3>1, <1>t, CardinalityGrows
      <3> QED BY <2>6, <3>2, <1>t DEF BudgetInv
    <2> QED BY <2>2, <2>3, <2>4, <2>5, <2>6 DEF HandlerMovesBudget
  <1>2. ASSUME ~ \E w \in Lanes : HandlerStep(w) PROVE BudgetInv'
    <2>1. Extracting' \subseteq Extracting
      BY <1>2, OtherLanes DEF Extracting
    <2>2. UNCHANGED <<ocrCalls, ocrPages>>
      BY <1>2, OtherSettlements DEF usage
    <2> QED BY <2>1, <2>2, <1>s
  <1> QED BY <1>1, <1>2

(* As long as the database answers, the extractor is never called more often *)
(* than was counted, nor more often than the limit of the month allows, by   *)
(* any number of lanes.  (A failing statement can lead a lane past the       *)
(* charge: the run ReceiptsUncappedOCR shows it.)                            *)
THEOREM OCRWithinLimitSafe == ReceiptsSpec => [](storeErrors = 0 => OCRWithinLimit)
  <1>1. ReceiptsInit => BudgetInv
    <2>1. ReceiptsInit => Extracting = {}
      BY DEF ReceiptsInit, Extracting
    <2> HIDE DEF Extracting
    <2> QED BY <2>1, FS_EmptySet, ReceiptBounds DEF ReceiptsInit, BudgetInv
  <1>2. PipelineInv /\ BudgetInv => (storeErrors = 0 => OCRWithinLimit)
    <2> SUFFICES ASSUME PipelineInv, BudgetInv, storeErrors = 0 PROVE OCRWithinLimit
      OBVIOUS
    <2>1. Cardinality(Extracting) \in Nat /\ ocrPages \in Nat /\ ocrCalls \in Nat
      BY FS_CardinalityType DEF BudgetInv, PipelineInv, ReceiptsTypeOK
    <2> HIDE DEF Extracting
    <2> QED BY <2>1, ReceiptBounds DEF BudgetInv, OCRWithinLimit
  <1> QED BY <1>1, <1>2, BudgetStep, PipelineInvSafe, PTL DEF ReceiptsSpec

-----------------------------------------------------------------------------
(* Durability.  As long as no living lane loses its lease, every job has at  *)
(* most the one lane that owns it.                                           *)
CalmInv == LeasesLapse \/ \A j \in Jobs : Undisturbed(j)

LEMMA CalmStep == PipelineInv /\ CalmInv /\ [ReceiptsNext]_vars => CalmInv'
  <1> SUFFICES ASSUME PipelineInv, \A j \in Jobs : Undisturbed(j), [ReceiptsNext]_vars,
                      ~LeasesLapse, NEW j \in Jobs
               PROVE  Undisturbed(j)'
    BY DEF CalmInv
  <1>t. /\ lost \in [Jobs -> Nat] /\ phase \in [Lanes -> Phase]
        /\ ClaimedInv
    BY DEF PipelineInv, ReceiptsTypeOK, QueueTypeOK, ClaimedInv
  <1>1. lost' = lost \/ phase' # phase
    <2>1. ASSUME NEW w \in Lanes, NEW r \in Jobs, Claim(w, r) PROVE lost' = lost
      BY <2>1 DEF Claim, Dequeue
    <2>2. ASSUME NEW w \in Lanes, HandlerStep(w) PROVE lost' = lost
      BY <2>2, OwnLaneOnly
    <2>3. ASSUME NEW w \in Lanes, LaneCrash(w) PROVE phase' # phase
      BY <2>3, <1>t DEF LaneCrash, Crash, Idle
    <2> QED BY <2>1, <2>2, <2>3, StepCases, OutsideShape DEF QueueOnly
  <1>2. ASSUME NEW w \in Lanes, held[w] = j, Stall(w) \/ HeartbeatFails(w) PROVE FALSE
    BY <1>1, <1>2, <1>t DEF Stall, HeartbeatFails, Fault, laneVars
  <1> QED BY <1>2, <1>t, QueueStepOfReceipts, UndisturbedStep

(* How far a lane has brought its receipt when it stands at a step, and what *)
(* is settled when it Acks.                                                  *)
Earned(w) ==
  /\ at[w] \in {"charge", "extract", "finish"} => receipt[held[w]] \in {"extracting"} \cup Settlement
  /\ at[w] \in {"refuse", "answer"} => receipt[held[w]] \in Settlement
  /\ phase[w] = "ack" => receipt[held[w]] \in Settlement

ErasedInv ==
  /\ account = "deleted" => \A r \in Jobs : ~Row(r)
  /\ \A r \in Jobs : status[r] = "deleted" => receipt[r] = "purged"

DurableInv ==
  storeErrors = 0 /\ ~LeasesLapse =>
    /\ \A w \in Lanes : Earned(w)
    /\ DoneIsDurable

LEMMA ErasedStep == PipelineInv /\ Known /\ ErasedInv /\ [ReceiptsNext]_vars => ErasedInv'
  <1> SUFFICES ASSUME PipelineInv, Known, ErasedInv, [ReceiptsNext]_vars PROVE ErasedInv'
    OBVIOUS
  <1>t. receipt \in [Jobs -> ReceiptStatus] /\ status \in [Jobs -> JobStatus]
    BY DEF PipelineInv, ReceiptsTypeOK, QueueTypeOK
  <1>1. CASE PurgeAccountData
    <2> SUFFICES ASSUME NEW r \in Jobs
                 PROVE  ~Row(r)' /\ (status'[r] = "deleted" => receipt'[r] = "purged")
      BY DEF ErasedInv
    <2>1. receipt'[r] = IF Row(r) THEN "purged" ELSE receipt[r]
      BY <1>1 DEF PurgeAccountData
    <2>2. status'[r] = "deleted" => status[r] # "absent"
      BY <1>1, <1>t DEF PurgeAccountData, Delete, Stored, queueVars
    <2> QED BY <2>1, <2>2 DEF Row, Known
  <1>2. ASSUME ~PurgeAccountData PROVE ErasedInv'
    <2>1. account' = "deleted" => account = "deleted"
      BY <1>2, StepCases, HandlerReceipt DEF OutsideStep, UserActs, RegisterReceipt, ConfirmTx,
         DiscardTx, DeleteAfterPasses, PendingExpires, RetentionStep,
         ListReceiptsPendingDeletion, SweepStep, DeletionStep, BeginAccountDeletion,
         DeleteOriginal, DeletionFails, Claim, LaneCrash, QueueOnly,
         receiptVars, rowData, meta
    <2>2. \A r \in Jobs : /\ Row(r)' => Row(r) \/ account = "active"
                          /\ receipt[r] = "purged" => receipt'[r] = "purged"
      BY <1>2, <1>t, ReceiptLife DEF Lives, Row, InFlight, TerminalReceipt
    <2>3. \A r \in Jobs : status'[r] = "deleted" => status[r] = "deleted"
      <3>1. ASSUME NEW w \in Lanes, NEW i \in Jobs, Claim(w, i), NEW r \in Jobs,
                   status'[r] = "deleted"
            PROVE  status[r] = "deleted"
        BY <3>1, <1>t DEF Claim, Dequeue
      <3>2. ASSUME NEW w \in Lanes, HandlerStep(w) \/ LaneCrash(w) PROVE status' = status
        BY <3>2, OwnLaneOnly DEF LaneCrash, Crash, rowVars
      <3>3. OutsideStep => status' = status
        BY <1>2, OutsideShape DEF queueVars
      <3> QED BY <3>1, <3>2, <3>3, StepCases DEF QueueOnly
    <2> QED BY <2>1, <2>2, <2>3 DEF ErasedInv
  <1> QED BY <1>1, <1>2

(* Every way through the handler earns its Ack: one step of the lane itself. *)
LEMMA EarnedStep ==
  ASSUME PipelineInv, Known, ErasedInv, NEW w \in Lanes, HandlerStep(w), Earned(w),
         storeErrors' = storeErrors
  PROVE  Earned(w)'
  <1>t. /\ receipt \in [Jobs -> ReceiptStatus] /\ at \in [Lanes -> Steps]
        /\ phase \in [Lanes -> Phase] /\ storeErrors \in Nat
        /\ held' = held /\ held[w] \in Jobs /\ at[w] # "off" /\ phase[w] = "handling"
        /\ receipt[held[w]] # "none"
    BY OwnLaneOnly, HeldReceipt, HeldIsKnown, NoJobIsNew
       DEF PipelineInv, ReceiptsTypeOK, QueueTypeOK, LaneInv
  <1>r. ~Row(held[w]) => receipt[held[w]] \in Settlement
    BY <1>t DEF Row, Settlement
  <1>d. account = "deleted" => ~Row(held[w])
    BY <1>t DEF ErasedInv
  <1>n. Done(w, "nack") => Earned(w)'
    BY <1>t DEF Done, Return, Goto, Earned
  <1>a. Done(w, "ack") /\ receipt'[held[w]] \in Settlement => Earned(w)'
    BY <1>t DEF Done, Return, Goto, Earned
  <1>c. \A l : \A step \in Steps : Continue(w, step, l)
          /\ (step \in {"charge", "extract", "finish"} => receipt'[held[w]] \in {"extracting"} \cup Settlement)
          /\ (step \in {"refuse", "answer"} => receipt'[held[w]] \in Settlement)
          => Earned(w)'
    BY <1>t DEF Continue, Goto, Earned, queueVars
  <1>g. \A step \in Steps \ {"charge", "extract", "finish", "refuse", "answer"} :
          at' = [at EXCEPT ![w] = step] /\ phase' = phase => Earned(w)'
    BY <1>t DEF Earned
  <1>f. \A step \in {"answer", "refuse"} : FailWith(w, step) => Earned(w)'
    BY <1>n, <1>c DEF FailWith, Settlement, Steps
  <1>1. CASE Prepare(w)
    BY <1>1, <1>a, <1>c, <1>r, <1>d DEF Prepare, Settlement, Steps
  <1>2. CASE StartDownload(w) \/ ReadStored(w) \/ FetchAndPut(w)
    BY <1>2, <1>g DEF StartDownload, ReadStored, FetchAndPut, LoadFailing, Goto, queueVars, Steps
  <1>3. CASE LoadFailed(w)
    BY <1>3, <1>a, <1>n, <1>r, <1>f DEF LoadFailed, FailTransient
  <1>4. CASE Arm(w)
    BY <1>4, <1>a, <1>c, <1>r, <1>f DEF Arm, Settlement, Steps
  <1>5. CASE SetReceiptStored(w) \/ MarkStored(w)
    BY <1>5, <1>c DEF SetReceiptStored, MarkStored, Steps
  <1>6. CASE MarkExtracting(w)
    BY <1>6, <1>t, <1>c, <1>n DEF MarkExtracting, SetStatus, Steps
  <1>7. CASE ChargeOCR(w)
    BY <1>7, <1>f, <1>c DEF ChargeOCR, Earned, Steps
  <1>8. CASE Extract(w)
    BY <1>8, <1>t DEF Extract, Goto, Earned, queueVars
  <1>9. CASE Finish(w)
    <2>1. receipt[held[w]] \in {"extracting"} \cup Settlement
      BY <1>9 DEF Finish, Earned
    <2>2. FinalizeReceiptReview(held[w]) => receipt'[held[w]] \in Settlement
      BY <1>t DEF FinalizeReceiptReview, SetStatus, Settlement, TerminalReceipt
    <2> QED BY <1>9, <2>1, <2>2, <1>a, <1>c, <1>f, <1>n, <1>r
            DEF Finish, FailTransient, Settlement, Steps, Row
  <1>10. CASE Refuse(w) \/ Answer(w)
    BY <1>10, <1>t, <1>a DEF Refuse, Answer, StoreFailing, Earned
  <1>11. CASE StoreError(w) \/ LockError(w)
    BY <1>11, <1>t DEF StoreError, LockError, StoreFailing
  <1> QED BY <1>1, <1>2, <1>3, <1>4, <1>5, <1>6, <1>7, <1>8, <1>9, <1>10, <1>11 DEF HandlerStep

LEMMA DurableStep ==
  PipelineInv /\ Known /\ CalmInv /\ ErasedInv /\ DurableInv /\ [ReceiptsNext]_vars => DurableInv'
  <1> SUFFICES ASSUME PipelineInv, Known, CalmInv, ErasedInv, DurableInv, [ReceiptsNext]_vars,
                      storeErrors' = 0, ~LeasesLapse
               PROVE  (\A w \in Lanes : Earned(w)') /\ DoneIsDurable'
    BY DEF DurableInv
  <1>t. /\ receipt \in [Jobs -> ReceiptStatus] /\ at \in [Lanes -> Steps]
        /\ phase \in [Lanes -> Phase] /\ status \in [Jobs -> JobStatus]
        /\ held \in [Lanes -> Jobs \cup {NoJob}]
    BY DEF PipelineInv, ReceiptsTypeOK, QueueTypeOK
  <1>0. /\ storeErrors = 0 /\ DoneIsDurable
        /\ \A w \in Lanes : Earned(w)
        /\ \A j \in Jobs : Undisturbed(j)
    BY ReceiptFaultsCount DEF DurableInv, CalmInv
  <1>s. \A r \in Jobs : receipt[r] \in Settlement => receipt'[r] \in Settlement
    BY <1>t, ReceiptLife DEF Lives, Settlement, TerminalReceipt, InFlight
  <1>h. \A w \in Lanes : at[w] # "off" \/ phase[w] = "ack" => held[w] \in Jobs
    BY NoJobIsNew DEF PipelineInv, ReceiptsTypeOK, QueueTypeOK, ClaimInv, LaneInv, Phase
  <1>1. ASSUME NEW w \in Lanes, HandlerStep(w) PROVE (\A v \in Lanes : Earned(v)') /\ DoneIsDurable'
    <2>1. /\ held' = held /\ at[w] # "off" /\ status' = status
          /\ \A v \in Lanes \ {w} : at'[v] = at[v] /\ phase'[v] = phase[v]
      BY <1>1, OwnLaneOnly
    <2>2. Earned(w)'
      BY <1>1, <1>0, EarnedStep
    <2>3. ASSUME NEW v \in Lanes, v # w PROVE Earned(v)'
      <3>1. ASSUME held[v] \in Jobs, receipt[held[v]] = "extracting"
            PROVE  receipt'[held[v]] = "extracting"
        <4>1. held[v] # held[w]
          BY <2>3, <3>1, <1>0 DEF Undisturbed, ErasedInv
        <4> QED BY <1>1, <3>1, <4>1, <1>t, HandlerReceipt
                DEF HandlerMovesReceipt, StatusMoves, Finalizes
      <3> QED BY <2>1, <2>3, <3>1, <1>0, <1>s, <1>h DEF Earned
    <2>4. DoneIsDurable'
      BY <2>1, <1>0, <1>s DEF DoneIsDurable, Settlement
    <2> QED BY <2>2, <2>3, <2>4
  <1>2. ASSUME ~ \E w \in Lanes : HandlerStep(w)
        PROVE (\A v \in Lanes : Earned(v)') /\ DoneIsDurable'
    <2>1. \A r \in Jobs : receipt[r] = "extracting" => receipt'[r] \in {"extracting", "purged"}
      <3>1. ASSUME NEW i \in Jobs, ConfirmTx(i) \/ DiscardTx(i), NEW r \in Jobs,
                   receipt[r] = "extracting"
            PROVE  receipt'[r] = "extracting"
        BY <3>1, <1>t DEF ConfirmTx, DiscardTx
      <3>2. ASSUME PurgeAccountData, NEW r \in Jobs, receipt[r] = "extracting"
            PROVE  receipt'[r] = "purged"
        BY <3>2 DEF PurgeAccountData, Row
      <3> QED BY <1>2, <3>1, <3>2, OtherReceiptSteps DEF RegisteredOrSwept, TerminalReceipt
    <2>2. ASSUME NEW v \in Lanes, phase'[v] = "ack" PROVE phase[v] = "ack" /\ held'[v] = held[v]
      <3>1. ASSUME NEW w \in Lanes, NEW i \in Jobs, Claim(w, i)
            PROVE  phase[v] = "ack" /\ held'[v] = held[v]
        BY <3>1, <2>2, <1>t DEF Claim, Dequeue
      <3>2. ASSUME NEW w \in Lanes, LaneCrash(w) PROVE phase[v] = "ack" /\ held'[v] = held[v]
        BY <3>2, <2>2, <1>t DEF LaneCrash, Crash, Idle
      <3>3. CASE QueueOnly
        BY <3>3, <2>2 DEF QueueOnly
      <3>4. CASE OutsideStep
        BY <3>4, <2>2, OutsideShape DEF laneVars
      <3> QED BY <1>2, <3>1, <3>2, <3>3, <3>4, StepCases
    <2>3. ASSUME NEW v \in Lanes PROVE Earned(v)'
      <3>1. at'[v] \notin {"off", "prepare"} => at'[v] = at[v] /\ held'[v] = held[v]
        BY <1>2, OtherLanes
      <3> QED BY <2>1, <2>2, <3>1, <1>0, <1>s, <1>h DEF Earned, Settlement
    <2>4. ASSUME NEW r \in Jobs, status'[r] = "done" PROVE receipt'[r] \in Settlement
      <3>1. ASSUME NEW w \in Lanes, NEW i \in Jobs, Claim(w, i) PROVE status[r] = "done"
        BY <3>1, <2>4, <1>t DEF Claim, Dequeue
      <3>2. ASSUME NEW w \in Lanes, LaneCrash(w) PROVE status[r] = "done"
        BY <3>2, <2>4 DEF LaneCrash, Crash, rowVars
      <3>3. ASSUME QueueOnly PROVE receipt[r] \in Settlement
        BY <3>3, <2>4, <1>0 DEF QueueOnly, Earned, DoneIsDurable, Settlement
      <3>4. OutsideStep => status[r] = "done"
        BY <2>4, OutsideShape
      <3>5. receipt[r] \in Settlement
        BY <1>2, <3>1, <3>2, <3>3, <3>4, <1>0, StepCases DEF DoneIsDurable, Settlement
      <3> QED BY <3>5, <1>s
    <2> QED BY <2>3, <2>4 DEF DoneIsDurable, Settlement
  <1> QED BY <1>1, <1>2

LEMMA CalmInvSafe == ReceiptsSpec => [](CalmInv /\ ErasedInv)
  <1>1. ReceiptsInit => CalmInv /\ ErasedInv
    BY NoJobIsNew DEF ReceiptsInit, QueueInit, CalmInv, Undisturbed, ErasedInv
  <1> QED BY <1>1, CalmStep, ErasedStep, ListedInvSafe, PipelineInvSafe, PTL DEF ReceiptsSpec

(* A job that is done has settled its receipt, through any crash of any lane *)
(* and any failure of media, OCR and object store, as long as the database   *)
(* answers and no living lane loses its lease.                               *)
THEOREM DoneIsDurableSafe == ReceiptsSpec => [](storeErrors = 0 /\ ~LeasesLapse => DoneIsDurable)
  <1>1. ReceiptsInit => DurableInv
    BY DEF ReceiptsInit, QueueInit, DurableInv, Earned, DoneIsDurable
  <1>2. DurableInv => (storeErrors = 0 /\ ~LeasesLapse => DoneIsDurable)
    BY DEF DurableInv
  <1> QED BY <1>1, <1>2, DurableStep, CalmInvSafe, ListedInvSafe, PipelineInvSafe, PTL
          DEF ReceiptsSpec

-----------------------------------------------------------------------------
(* Originals and their keys.  What a lane on its way through the handler     *)
(* carries: its receipt is in work, or purged, until it has been armed; from *)
(* then on its key is recorded; and a load that failed without an error of   *)
(* the media or the object store is a transient failure.                     *)
Carries(w) ==
  /\ at[w] \in {"download", "load", "fail", "arm", "record", "store", "extracting"}
       => receipt[held[w]] \in InFlight \cup {"purged"}
  /\ at[w] \in {"store", "extracting", "charge", "extract", "finish"}
       /\ receipt[held[w]] \in InFlight => storageKey[held[w]]
  /\ at[w] = "fail" => result[w] = "transient"

Alone(r) == \A i \in Jobs \ {r} : Image[i] # Image[r]

(* Without faults of the kinds OriginalsAreTracked leaves out: lanes carry   *)
(* what they should, settled originals have their key, and the sweep clears  *)
(* no key before the original is gone.                                       *)
TrackedInv ==
  storeErrors = 0 /\ errors = 0 /\ ~LeasesLapse =>
    /\ \A w \in Lanes : Carries(w)
    /\ \A r \in Jobs : Alone(r) /\ receipt[r] \in TerminalReceipt /\ object[r] => storageKey[r]
    /\ \A x \in batch :
         /\ Alone(x.id) /\ receipt[x.id] \in TerminalReceipt
         /\ x.step # "object" \/ ~x.key
         => ~object[x.id]

LEMMA CarriesStep ==
  ASSUME PipelineInv, Known, NEW w \in Lanes, HandlerStep(w), Carries(w),
         storeErrors' = storeErrors, errors' = errors
  PROVE  Carries(w)'
  <1>t. /\ receipt \in [Jobs -> ReceiptStatus] /\ at \in [Lanes -> Steps]
        /\ storageKey \in [Jobs -> BOOLEAN] /\ storeErrors \in Nat /\ errors \in Nat
        /\ result \in [Lanes -> {"none", "ok", "transient", "permanent"}]
        /\ held' = held /\ held[w] \in Jobs /\ receipt[held[w]] # "none"
    BY OwnLaneOnly, HeldReceipt, HeldIsKnown, NoJobIsNew
       DEF PipelineInv, ReceiptsTypeOK
  <1>e. ~Failing /\ ~StoreFailing
    BY <1>t DEF Failing, StoreFailing
  <1>d. \A step \in {"off", "refuse", "answer"} : at' = [at EXCEPT ![w] = step] => Carries(w)'
    BY <1>t DEF Carries
  <1>f. \A step \in {"refuse", "answer"} : FailWith(w, step) => Carries(w)'
    BY <1>d DEF FailWith, Continue, Done, Goto
  <1>n. \A next : Done(w, next) => Carries(w)'
    BY <1>d DEF Done, Goto
  <1>1. CASE Prepare(w)
    <2>1. ASSUME Continue(w, "download", w), receipt'[held[w]] \in InFlight PROVE Carries(w)'
      BY <2>1, <1>t DEF Continue, Goto, Carries
    <2>2. Row(held[w]) /\ receipt[held[w]] \notin TerminalReceipt => receipt[held[w]] \in InFlight
      BY <1>t DEF Row, ReceiptStatus, Settlement
    <2> QED BY <1>1, <2>1, <2>2, <1>n, <1>t DEF Prepare, SetStatus, InFlight
  <1>2. CASE StartDownload(w)
    BY <1>2, <1>t DEF StartDownload, Goto, Carries, InFlight
  <1>3. CASE ReadStored(w) \/ FetchAndPut(w)
    <2>1. /\ at[w] = "load" /\ UNCHANGED <<receipt, storageKey>>
          /\ \/ at' = [at EXCEPT ![w] = "arm"]
             \/ at' = [at EXCEPT ![w] = "fail"] /\ result' = [result EXCEPT ![w] = "transient"]
      BY <1>3, <1>e DEF ReadStored, FetchAndPut, LoadFailing, Goto, rowData, image
    <2> QED BY <2>1, <1>t DEF Carries
  <1>4. CASE LoadFailed(w)
    BY <1>4, <1>n, <1>f DEF LoadFailed, FailTransient
  <1>5. CASE Arm(w)
    <2>1. ASSUME Continue(w, "record", w), UNCHANGED receipt PROVE Carries(w)'
      BY <1>5, <2>1, <1>t DEF Arm, Continue, Goto, Carries
    <2> QED BY <1>5, <2>1, <1>n, <1>f DEF Arm
  <1>6. CASE SetReceiptStored(w)
    BY <1>6, <1>t DEF SetReceiptStored, Continue, Goto, Carries
  <1>7. CASE MarkStored(w)
    BY <1>7, <1>t DEF MarkStored, Continue, Goto, Carries, InFlight, image
  <1>8. CASE MarkExtracting(w)
    <2>1. ASSUME Continue(w, "charge", w), receipt[held[w]] \in {"stored", "extracting"}
          PROVE  Carries(w)'
      <3>1. storageKey'[held[w]] /\ at' = [at EXCEPT ![w] = "charge"]
        BY <1>8, <2>1 DEF MarkExtracting, Continue, Goto, Carries, InFlight, image
      <3> QED BY <3>1, <1>t DEF Carries
    <2> QED BY <1>8, <2>1, <1>n DEF MarkExtracting
  <1>9. CASE ChargeOCR(w)
    <2>1. ASSUME Continue(w, "extract", Nobody), UNCHANGED receipt PROVE Carries(w)'
      BY <1>9, <2>1, <1>t DEF ChargeOCR, Continue, Goto, Carries, image
    <2> QED BY <1>9, <2>1, <1>f DEF ChargeOCR
  <1>10. CASE Extract(w)
    BY <1>10, <1>t DEF Extract, Goto, Carries, image
  <1>11. CASE Finish(w)
    <2>1. Continue(w, "answer", w) => Carries(w)'
      BY <1>d DEF Continue, Goto
    <2> QED BY <1>11, <2>1, <1>n, <1>f DEF Finish, FailTransient
  <1>12. CASE Refuse(w) \/ Answer(w) \/ StoreError(w) \/ LockError(w)
    BY <1>12, <1>e, <1>n DEF Refuse, Answer, StoreError, LockError
  <1> QED BY <1>1, <1>2, <1>3, <1>4, <1>5, <1>6, <1>7, <1>8, <1>9, <1>10, <1>11, <1>12
          DEF HandlerStep

(* The lane that settles a receipt of its own image has recorded its key. *)
LEMMA SettlesTracked ==
  ASSUME PipelineInv, NEW w \in Lanes, HandlerStep(w), Carries(w),
         NEW r \in Jobs, Alone(r), receipt[r] \notin TerminalReceipt, receipt'[r] \in TerminalReceipt
  PROVE  storageKey[r]
  <1>t. /\ receipt \in [Jobs -> ReceiptStatus] /\ held[w] \in Jobs
    BY OwnLaneOnly, HeldReceipt DEF PipelineInv, ReceiptsTypeOK
  <1>1. /\ held[w] = r /\ receipt[r] \in InFlight
        /\ at[w] \in {"fail", "arm", "charge", "finish"}
    BY <1>t, HandlerReceipt
       DEF HandlerMovesReceipt, StatusMoves, Finalizes, TerminalReceipt, InFlight
  <1>2. ~Duplicate(r)
    BY DEF Duplicate, SameContent, Alone
  <1>3. CASE at[w] = "fail"
    <2>1. LoadFailed(w)
      BY <1>3 DEF HandlerStep, Prepare, StartDownload, ReadStored, FetchAndPut, Arm,
         SetReceiptStored, MarkStored, MarkExtracting, ChargeOCR, Refuse, Extract, Finish,
         Answer, StoreError, LockError, rowData
    <2> QED BY <1>1, <1>3, <2>1, <1>t DEF LoadFailed, FailTransient, Carries, TerminalReceipt
  <1>4. CASE at[w] = "arm"
    <2>1. Arm(w) \/ receipt' = receipt
      BY <1>4 DEF HandlerStep, Prepare, StartDownload, ReadStored, FetchAndPut, LoadFailed,
         SetReceiptStored, MarkStored, MarkExtracting, ChargeOCR, Refuse, Extract, Finish,
         Answer, StoreError, LockError, rowData
    <2> QED BY <1>1, <1>2, <2>1 DEF Arm
  <1> QED BY <1>1, <1>3, <1>4 DEF Carries

(* Only the sweep's last step and the purge take a key away. *)
LEMMA OtherKeys ==
  ASSUME PipelineInv, [ReceiptsNext]_vars, ~ \E w \in Lanes : HandlerStep(w), ~PurgeAccountData,
         NEW r \in Jobs, storageKey[r], ~storageKey'[r]
  PROVE  \E x \in batch : x.id = r /\ x.step = "clear"
  <1>t. storageKey \in [Jobs -> BOOLEAN] /\ batch \subseteq Listing
    BY DEF PipelineInv, ReceiptsTypeOK
  <1>1. \E x \in batch : ClearReceiptStorageKey(x)
    BY StepCases DEF OutsideStep, UserActs, RegisterReceipt, ConfirmTx, DiscardTx,
       DeleteAfterPasses, PendingExpires, RetentionStep, SweepStops, SweepStep, SweepObject,
       SweepRow, ListReceiptsPendingDeletion, DeletionStep, BeginAccountDeletion,
       DeleteOriginal, DeletionFails, Claim, LaneCrash, QueueOnly, receiptVars, rowData, image
  <1> QED BY <1>1, <1>t DEF ClearReceiptStorageKey, Listing

LEMMA TrackedStep ==
  /\ PipelineInv /\ Known /\ ListedInv /\ CalmInv /\ ErasedInv /\ TrackedInv
  /\ [ReceiptsNext]_vars
  => TrackedInv'
  <1> DEFINE Keyed(r) == Alone(r) /\ receipt[r] \in TerminalReceipt /\ object[r] => storageKey[r]
             Swept(x) == /\ Alone(x.id) /\ receipt[x.id] \in TerminalReceipt
                         /\ x.step # "object" \/ ~x.key
                         => ~object[x.id]
  <1> SUFFICES ASSUME PipelineInv, Known, ListedInv, CalmInv, ErasedInv, TrackedInv,
                      [ReceiptsNext]_vars, storeErrors' = 0, errors' = 0, ~LeasesLapse
               PROVE  /\ \A w \in Lanes : Carries(w)'
                      /\ \A r \in Jobs : Keyed(r)'
                      /\ \A x \in batch' : Swept(x)'
    BY DEF TrackedInv
  <1>t. /\ receipt \in [Jobs -> ReceiptStatus] /\ at \in [Lanes -> Steps]
        /\ storageKey \in [Jobs -> BOOLEAN] /\ object \in [Jobs -> BOOLEAN]
        /\ result \in [Lanes -> {"none", "ok", "transient", "permanent"}]
        /\ batch \subseteq Listing
    BY DEF PipelineInv, ReceiptsTypeOK
  <1>0. /\ storeErrors = 0 /\ errors = 0
        /\ \A w \in Lanes : Carries(w)
        /\ \A r \in Jobs : Keyed(r)
        /\ \A x \in batch : Swept(x)
        /\ \A j \in Jobs : Undisturbed(j)
    BY ReceiptFaultsCount DEF TrackedInv, CalmInv
  <1>p. \A r \in Jobs : receipt[r] = "purged" => receipt'[r] = "purged"
    BY <1>t, ReceiptLife DEF Lives, InFlight, TerminalReceipt
  <1>b. \A x \in batch : x.id \in Jobs /\ x.key \in BOOLEAN /\ receipt[x.id] \in Settlement
    BY <1>t DEF Listing, ListedInv
  <1>k. \A x \in batch : receipt'[x.id] \in TerminalReceipt => receipt[x.id] \in TerminalReceipt
    BY <1>b, <1>p DEF Settlement, TerminalReceipt
  <1> HIDE DEF Keyed, Swept
  <1>1. ASSUME NEW w \in Lanes, HandlerStep(w)
        PROVE  /\ \A v \in Lanes : Carries(v)'
               /\ \A r \in Jobs : Keyed(r)'
               /\ \A x \in batch' : Swept(x)'
    <2>1. /\ held' = held /\ held[w] \in Jobs /\ batch' = batch
          /\ \A v \in Lanes \ {w} : at'[v] = at[v]
      BY <1>1, OwnLaneOnly, HeldReceipt, HandlerReceipt
    <2>2. \A v \in Lanes \ {w} : result'[v] = result[v]
      BY <1>1, <1>t DEF HandlerStep, Prepare, StartDownload, ReadStored, FetchAndPut,
         LoadFailed, LoadFailing, FailWith, FailTransient, Continue, Done,
         Arm, SetReceiptStored, MarkStored, MarkExtracting, ChargeOCR, Refuse, Extract,
         Finish, Answer, StoreError, LockError
    <2>3. \A r \in Jobs : storageKey[r] => storageKey'[r]
      BY <1>1, <2>1, <1>t, HandlerImage DEF HandlerMovesImage
    <2>4. \A r \in Jobs : receipt[r] \in TerminalReceipt /\ object'[r] => object[r]
      <3>1. \/ object' = object
            \/ /\ object' = [object EXCEPT ![held[w]] = TRUE]
               /\ receipt[held[w]] \in InFlight \cup {"purged"}
        BY <1>1, <1>0, HandlerImage DEF HandlerMovesImage, Carries
      <3> QED BY <3>1, <2>1, <1>t DEF InFlight, TerminalReceipt
    <2>5. ASSUME NEW v \in Lanes PROVE Carries(v)'
      <3>1. CASE v = w
        BY <1>1, <1>0, <3>1, CarriesStep
      <3>2. CASE v # w
        <4>1. at[v] # "off" => held[v] \in Jobs
          BY HeldReceipt
        <4>2. ASSUME held[v] \in Jobs, receipt'[held[v]] # receipt[held[v]] PROVE FALSE
          <5>1. receipt[held[v]] \in InFlight /\ held[v] = held[w]
            BY <1>1, <4>2, <2>1, <1>t, HandlerReceipt
               DEF HandlerMovesReceipt, StatusMoves, Finalizes, InFlight
          <5> QED BY <3>2, <4>2, <5>1, <1>0 DEF Undisturbed, ErasedInv, InFlight
        <4> QED BY <2>1, <2>2, <2>3, <3>2, <4>1, <4>2, <1>0 DEF Carries
      <3> QED BY <3>1, <3>2
    <2>6. ASSUME NEW r \in Jobs, Alone(r), receipt'[r] \in TerminalReceipt, object'[r]
          PROVE  storageKey'[r]
      <3>1. CASE receipt[r] \in TerminalReceipt
        BY <2>3, <2>4, <2>6, <3>1, <1>0 DEF Keyed
      <3>2. CASE receipt[r] \notin TerminalReceipt
        BY <1>1, <1>0, <2>3, <2>6, <3>2, SettlesTracked
      <3> QED BY <3>1, <3>2
    <2>7. ASSUME NEW x \in batch PROVE Swept(x)'
      BY <2>4, <1>b, <1>k, <1>0 DEF Swept, Alone
    <2> QED BY <2>1, <2>5, <2>6, <2>7 DEF Keyed, Alone
  <1>2. ASSUME ~ \E w \in Lanes : HandlerStep(w)
        PROVE  /\ \A v \in Lanes : Carries(v)'
               /\ \A r \in Jobs : Keyed(r)'
               /\ \A x \in batch' : Swept(x)'
    <2>1. \A r \in Jobs : /\ object'[r] => object[r]
                          /\ receipt'[r] \in TerminalReceipt => receipt[r] \in TerminalReceipt
      BY <1>2, <1>t, OtherImages, OtherSettlements
    <2>2. \A r \in Jobs : receipt[r] \in InFlight => receipt'[r] \in {receipt[r], "purged"}
      <3>1. ASSUME NEW i \in Jobs, ConfirmTx(i) \/ DiscardTx(i), NEW r \in Jobs,
                   receipt[r] \in InFlight
            PROVE  receipt'[r] = receipt[r]
        BY <3>1, <1>t DEF ConfirmTx, DiscardTx, InFlight
      <3>2. ASSUME PurgeAccountData, NEW r \in Jobs PROVE receipt'[r] \in {receipt[r], "purged"}
        BY <3>2 DEF PurgeAccountData
      <3> QED BY <1>2, <3>1, <3>2, OtherReceiptSteps DEF RegisteredOrSwept, TerminalReceipt,
         InFlight
    <2>3. ASSUME NEW r \in Jobs, storageKey[r], ~storageKey'[r], Row(r)'
          PROVE  \E x \in batch : x.id = r /\ x.step = "clear"
      <3>1. ~PurgeAccountData
        BY <2>3 DEF PurgeAccountData, Row
      <3> QED BY <1>2, <2>3, <3>1, OtherKeys
    <2>4. ASSUME NEW v \in Lanes PROVE Carries(v)'
      <3>1. CASE at'[v] \notin {"off", "prepare"}
        <4>1. /\ at'[v] = at[v] /\ held'[v] = held[v] /\ result'[v] = result[v]
              /\ held[v] \in Jobs
          BY <1>2, <3>1, OtherLanes, HeldReceipt
        <4>2. ASSUME receipt'[held[v]] \in InFlight, storageKey[held[v]], receipt[held[v]] \in InFlight
              PROVE  storageKey'[held[v]]
          BY <2>3, <4>1, <4>2, <1>b DEF Row, InFlight, Settlement, TerminalReceipt
        <4>3. at[v] # "prepare" => receipt[held[v]] # "none"
          BY <4>1, HeldIsKnown, NoJobIsNew
        <4>4. receipt'[held[v]] \in InFlight => receipt[held[v]] \in InFlight
          BY <3>1, <4>1, <4>3, <1>t, ReceiptLife DEF Lives, InFlight, TerminalReceipt
        <4> QED BY <2>2, <4>1, <4>2, <4>4, <1>0, <1>p DEF Carries
      <3> QED BY <3>1 DEF Carries
    <2>5. ASSUME NEW r \in Jobs PROVE Keyed(r)'
      <3> SUFFICES ASSUME Alone(r), receipt'[r] \in TerminalReceipt, object'[r]
                   PROVE  storageKey'[r]
        BY DEF Keyed, Alone
      <3>1. storageKey[r] /\ object[r] /\ receipt[r] \in TerminalReceipt
        BY <2>1, <1>0 DEF Keyed
      <3>2. Row(r)'
        BY DEF Row, TerminalReceipt
      <3> QED BY <2>3, <3>1, <3>2, <1>0 DEF Swept
    <2>6. ASSUME NEW x \in batch PROVE Swept(x)'
      BY <2>1, <1>b, <1>k, <1>0 DEF Swept, Alone
    <2>7. CASE ListReceiptsPendingDeletion
      <3> SUFFICES ASSUME NEW x \in batch' PROVE Swept(x)'
        BY <2>4, <2>5
      <3>1. /\ UNCHANGED <<receipt, object, storageKey>>
            /\ x.id \in Jobs /\ x.key = storageKey[x.id] /\ x.step = "object"
        BY <2>7 DEF ListReceiptsPendingDeletion, rowData, image
      <3> QED BY <3>1, <1>0 DEF Keyed, Swept, Alone
    <2>8. CASE SweepStep
      <3> SUFFICES ASSUME NEW x \in batch', x \notin batch PROVE Swept(x)'
        BY <2>4, <2>5, <2>6
      <3>1. PICK y \in batch : SweepObject(y) \/ SweepRow(y) \/ ClearReceiptStorageKey(y)
        BY <2>8 DEF SweepStep
      <3>2. \A step \in {"row", "clear"} : [y EXCEPT !.step = step].id = y.id
        BY <1>t DEF Listing
      <3>3. x.id = y.id /\ (SweepObject(y) \/ SweepRow(y))
        BY <3>1, <3>2 DEF SweepObject, SweepRow, ClearReceiptStorageKey, Step, Drop
      <3> SUFFICES ASSUME Alone(y.id), receipt'[y.id] \in TerminalReceipt PROVE ~object'[y.id]
        BY <3>3 DEF Swept, Alone
      <3>4. receipt[y.id] \in TerminalReceipt
        BY <1>k
      <3>5. CASE y.step # "object" \/ ~y.key
        BY <3>4, <3>5, <2>1, <1>b, <1>0 DEF Swept
      <3>6. CASE y.step = "object" /\ y.key
        <4>1. object' = [object EXCEPT ![y.id] = @ /\ ~y.key]
          BY <3>1, <3>6, <1>0 DEF SweepObject, SweepRow, ClearReceiptStorageKey, Failing
        <4> QED BY <4>1, <3>6, <1>b, <1>t
      <3> QED BY <3>5, <3>6
    <2>9. ASSUME ~ListReceiptsPendingDeletion, ~SweepStep PROVE batch' \subseteq batch
      BY <1>2, <2>9, StepCases DEF OutsideStep, UserActs, RegisterReceipt, ConfirmTx,
         DiscardTx, DeleteAfterPasses, PendingExpires, RetentionStep, SweepStops,
         DeletionStep, BeginAccountDeletion, DeleteOriginal, PurgeAccountData, DeletionFails,
         Claim, LaneCrash, QueueOnly, receiptVars, others
    <2> QED BY <2>4, <2>5, <2>6, <2>7, <2>8, <2>9
  <1> QED BY <1>1, <1>2

(* The original of a settled receipt can be found by the sweep, whatever     *)
(* lanes crash between Put and the commit of the key, as long as the         *)
(* database answers and no living lane loses its lease.                      *)
THEOREM OriginalsAreTrackedSafe ==
  ReceiptsSpec => [](storeErrors = 0 /\ ~LeasesLapse => OriginalsAreTracked)
  <1>1. ReceiptsInit => TrackedInv
    BY DEF ReceiptsInit, TrackedInv, Carries, TerminalReceipt
  <1>2. TrackedInv => (storeErrors = 0 /\ ~LeasesLapse => OriginalsAreTracked)
    BY DEF TrackedInv, OriginalsAreTracked, Alone
  <1> QED BY <1>1, <1>2, TrackedStep, CalmInvSafe, ListedInvSafe, PipelineInvSafe, PTL
          DEF ReceiptsSpec
=============================================================================
