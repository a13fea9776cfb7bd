---------------------------- MODULE OutboxProofs ----------------------------
(* Proofs about Outbox for any number of rows, users, lanes, faults, store   *)
(* errors and lost locks.  The first ones do not rely on the user lock; what *)
(* does is proved as long as no lock session was lost.                       *)
EXTENDS Outbox, JobQueueProofs

(* A lane is inside Sender.Handle exactly while its loop runs a handler. *)
LaneInv == \A w \in Lanes : at[w] # "off" <=> phase[w] = "handling"

Sending(w, j) == at[w] = "send" /\ held[w] = j

(* What AtMostOneCall needs to be inductive: a row that still is queued was *)
(* never called and nobody is about to; the one lane between the commit of  *)
(* BeginOutboundAttempt and Provider.Send is alone there and is the first.  *)
CallInv ==
  /\ \A j \in Jobs : out[j] \in {"none", "queued"} =>
       calls[j] = 0 /\ \A w \in Lanes : ~Sending(w, j)
  /\ \A w \in Lanes : \A j \in Jobs : Sending(w, j) => calls[j] = 0
  /\ \A v, w \in Lanes : \A j \in Jobs : Sending(v, j) /\ Sending(w, j) => v = w
  /\ AtMostOneCall

(* Rows whose attempt has been charged, called or about to be. *)
Charged == {j \in Jobs : calls[j] > 0 \/ \E w \in Lanes : Sending(w, j)}

ChargeInv ==
  /\ Cardinality(Charged) <= attemptCount
  /\ MonthlyMessageLimit > 0 => attemptCount <= MonthlyMessageLimit

SenderInv == OutboxTypeOK /\ ClaimInv /\ LaneInv

-----------------------------------------------------------------------------
(* Inside the handler the lane holds a row. *)
LEMMA HeldRow ==
  ASSUME SenderInv, NEW w \in Lanes, at[w] # "off"
  PROVE  held[w] \in Jobs
  BY NoJobIsNew DEF SenderInv, OutboxTypeOK, QueueTypeOK, ClaimInv, LaneInv, Phase

LEMMA DeleteJobIsQueueStep ==
  ASSUME NEW j \in Jobs, DeleteJob(j)
  PROVE  [Next]_queueVars
  <1>1. CASE Stored(j)
    BY <1>1 DEF DeleteJob, Next, Environment
  <1>2. CASE ~Stored(j)
    BY <1>2 DEF DeleteJob
  <1> QED BY <1>1, <1>2

(* Seen from the queue, every step of the outbox is a step of the queue. *)
LEMMA QueueStepOfOutbox == SenderInv /\ [OutboxNext]_vars => [Next]_queueVars
  <1> SUFFICES ASSUME SenderInv, [OutboxNext]_vars PROVE [Next]_queueVars
    OBVIOUS
  <1>1. ASSUME NEW j \in Jobs, EnqueueOutbound(j) \/ EnqueueJob(j)
        PROVE [Next]_queueVars
    BY <1>1 DEF EnqueueOutbound, EnqueueJob, Next, Environment
  <1>2. ASSUME NEW u \in Users, PurgeAccountData(u) PROVE [Next]_queueVars
    <2> DEFINE mine == {j \in Jobs : Owner[j] = u /\ Stored(j)}
    <2>1. Delete(mine) \/ UNCHANGED queueVars
      BY <1>2 DEF PurgeAccountData
    <2>2. mine \in SUBSET Jobs
      OBVIOUS
    <2> HIDE DEF mine
    <2> QED BY <2>1, <2>2 DEF Next, Environment
  <1>3. ASSUME NEW w \in Lanes, SenderStep(w) PROVE [Next]_queueVars
    <2>1. CASE \/ \E j \in Jobs : Claim(w, j)
               \/ (Ack(w) \/ Poll(w)) /\ UNCHANGED outboxVars
      BY <2>1 DEF Claim, Next, LaneStep
    <2>2. CASE Inspect(w) \/ BeginOutboundAttempt(w) \/ Send(w) \/ MarkOutboundStatus(w)
      BY <2>2 DEF Inspect, BeginOutboundAttempt, Send, MarkOutboundStatus
    <2>3. CASE CompleteOutboundSend(w)
      <3>1. held[w] \in Jobs
        BY <2>3, HeldRow DEF CompleteOutboundSend
      <3>2. DeleteJob(held[w]) \/ UNCHANGED queueVars
        BY <2>3 DEF CompleteOutboundSend
      <3> QED BY <3>1, <3>2, DeleteJobIsQueueStep
    <2>4. CASE PurgeOutboundAndJob(w) \/ DeleteQueueJob(w)
      <3>1. held[w] \in Jobs
        BY <2>4, HeldRow DEF PurgeOutboundAndJob, DeleteQueueJob
      <3>2. DeleteJob(held[w])
        BY <2>4 DEF PurgeOutboundAndJob, DeleteQueueJob
      <3> QED BY <3>1, <3>2, DeleteJobIsQueueStep
    <2>5. CASE HandlerReturns(w)
      BY <2>5 DEF HandlerReturns, Next, LaneStep
    <2> QED BY <1>3, <2>1, <2>2, <2>3, <2>4, <2>5 DEF SenderStep
  <1>4. ASSUME NEW w \in Lanes, StoreError(w) \/ LockLost(w) \/ LaneCrash(w)
        PROVE [Next]_queueVars
    BY <1>4 DEF StoreError, LockLost, LaneCrash, Next, LaneStep, Environment
  <1>5. CASE QueueStep
    BY <1>5 DEF QueueStep, Next, Environment, Clock
  <1>6. CASE UNCHANGED vars
    BY <1>6 DEF vars
  <1> QED BY <1>1, <1>2, <1>3, <1>4, <1>5, <1>6 DEF OutboxNext

-----------------------------------------------------------------------------
(* Lanes and the handlers they run stay in step. *)
LEMMA LaneStepInv == SenderInv /\ [OutboxNext]_vars => LaneInv'
  <1> SUFFICES ASSUME SenderInv, [OutboxNext]_vars PROVE LaneInv'
    OBVIOUS
  <1> USE DEF SenderInv, OutboxTypeOK, QueueTypeOK, LaneInv, laneVars, Goto, Phase, Steps
  <1>1. ASSUME NEW j \in Jobs, EnqueueOutbound(j) \/ EnqueueJob(j) PROVE LaneInv'
    BY <1>1 DEF EnqueueOutbound, EnqueueJob, Enqueue, queueVars, outboxVars, controlVars
  <1>2. ASSUME NEW u \in Users, PurgeAccountData(u) PROVE LaneInv'
    BY <1>2 DEF PurgeAccountData, Delete, queueVars, controlVars
  <1>3. ASSUME NEW w \in Lanes, SenderStep(w) PROVE LaneInv'
    <2>1. CASE \E j \in Jobs : Claim(w, j)
      BY <2>1 DEF Claim, Dequeue
    <2>2. CASE (Ack(w) \/ Poll(w)) /\ UNCHANGED outboxVars
      BY <2>2 DEF Ack, Poll, Idle, queueVars, outboxVars
    <2>3. ASSUME at[w] # "off", phase' = phase,
                 \E step \in Steps \ {"off"} : at' = [at EXCEPT ![w] = step]
          PROVE LaneInv'
      BY <2>3
    <2>4. CASE Inspect(w)
      BY <2>4, <2>3 DEF Inspect, Decision, queueVars
    <2>5. CASE BeginOutboundAttempt(w) \/ Send(w)
      BY <2>5, <2>3 DEF BeginOutboundAttempt, Send, queueVars
    <2>6. CASE \/ CompleteOutboundSend(w) \/ MarkOutboundStatus(w)
               \/ PurgeOutboundAndJob(w) \/ DeleteQueueJob(w)
      <3>1. phase' = phase
        BY <2>6 DEF CompleteOutboundSend, MarkOutboundStatus, PurgeOutboundAndJob,
                    DeleteQueueJob, DeleteJob, Delete, queueVars
      <3> QED BY <2>6, <3>1, <2>3
              DEF CompleteOutboundSend, MarkOutboundStatus, PurgeOutboundAndJob, DeleteQueueJob
    <2>7. CASE HandlerReturns(w)
      BY <2>7 DEF HandlerReturns, Return
    <2> QED BY <1>3, <2>1, <2>2, <2>4, <2>5, <2>6, <2>7 DEF SenderStep
  <1>4. ASSUME NEW w \in Lanes, StoreError(w) \/ LockLost(w) \/ LaneCrash(w)
        PROVE LaneInv'
    BY <1>4 DEF StoreError, LockLost, LaneCrash, Return, Crash, Idle, queueVars
  <1>5. CASE QueueStep
    BY <1>5 DEF QueueStep, Heartbeat, Stall, HeartbeatFails, LeaseExpires, outboxVars
  <1>6. CASE UNCHANGED vars
    BY <1>6 DEF vars, queueVars, outboxVars
  <1> QED BY <1>1, <1>2, <1>3, <1>4, <1>5, <1>6 DEF OutboxNext

(* Every variable of the outbox keeps its type. *)
LEMMA OutboxTypeStep == SenderInv /\ [OutboxNext]_vars => OutboxTypeOK'
  <1> SUFFICES ASSUME SenderInv, [OutboxNext]_vars PROVE OutboxTypeOK'
    OBVIOUS
  <1>q. QueueTypeOK'
    BY QueueStepOfOutbox, TypeStep DEF SenderInv, OutboxTypeOK
  <1> DEFINE Mine == /\ out \in [Jobs -> OutStatus]
                     /\ account \in [Users -> {"active", "deleted"}]
                     /\ lock \in [Users -> Lanes \cup {Nobody}]
                     /\ at \in [Lanes -> Steps]
                     /\ attemptCount \in Nat /\ sentCount \in Nat
                     /\ calls \in [Jobs -> Nat]
                     /\ delivered \in [Jobs -> BOOLEAN]
                     /\ errors \in Nat /\ lockLosses \in Nat
  <1>m. Mine
    BY DEF SenderInv, OutboxTypeOK
  <1> USE DEF Goto, OutStatus, Terminal, Steps, dataVars, controlVars
  <1>1. ASSUME NEW j \in Jobs, EnqueueOutbound(j) \/ EnqueueJob(j) PROVE Mine'
    BY <1>1, <1>m DEF EnqueueOutbound, EnqueueJob, outboxVars
  <1>2. ASSUME NEW u \in Users, PurgeAccountData(u) PROVE Mine'
    BY <1>2, <1>m DEF PurgeAccountData
  <1>3. ASSUME NEW w \in Lanes, SenderStep(w) PROVE Mine'
    <2>1. CASE \E j \in Jobs : Claim(w, j)
      BY <2>1, <1>m DEF Claim
    <2>2. CASE (Ack(w) \/ Poll(w)) /\ UNCHANGED outboxVars
      BY <2>2, <1>m DEF outboxVars
    <2>4. CASE Inspect(w)
      BY <2>4, <1>m DEF Inspect, Decision
    <2>5. CASE BeginOutboundAttempt(w)
      BY <2>5, <1>m DEF BeginOutboundAttempt
    <2>6. CASE Send(w)
      <3>1. held[w] \in Jobs
        BY <2>6, HeldRow DEF Send
      <3>2. calls' \in [Jobs -> Nat]
        BY <2>6, <3>1, <1>m DEF Send
      <3>3. delivered' \in [Jobs -> BOOLEAN]
        BY <2>6, <3>1, <1>m DEF Send
      <3> QED BY <2>6, <3>2, <3>3, <1>m DEF Send
    <2>7. CASE CompleteOutboundSend(w)
      BY <2>7, <1>m DEF CompleteOutboundSend
    <2>8. CASE MarkOutboundStatus(w) \/ PurgeOutboundAndJob(w) \/ DeleteQueueJob(w)
      BY <2>8, <1>m DEF MarkOutboundStatus, PurgeOutboundAndJob, DeleteQueueJob
    <2>9. CASE HandlerReturns(w)
      BY <2>9, <1>m DEF HandlerReturns, Unlock
    <2> QED BY <1>3, <2>1, <2>2, <2>4, <2>5, <2>6, <2>7, <2>8, <2>9 DEF SenderStep
  <1>4. ASSUME NEW w \in Lanes, StoreError(w) \/ LockLost(w) \/ LaneCrash(w)
        PROVE Mine'
    BY <1>4, <1>m DEF StoreError, LockLost, LaneCrash, Unlock
  <1>5. ASSUME QueueStep \/ UNCHANGED vars PROVE Mine'
    BY <1>5, <1>m DEF QueueStep, outboxVars, vars
  <1>6. Mine'
    BY <1>1, <1>2, <1>3, <1>4, <1>5 DEF OutboxNext
  <1> QED BY <1>q, <1>6 DEF OutboxTypeOK

LEMMA SenderInvSafe == OutboxSpec => []SenderInv
  <1>1. OutboxInit => SenderInv
    BY ClaimInit DEF OutboxInit, QueueInit, SenderInv, OutboxTypeOK, QueueTypeOK, LaneInv,
       JobStatus, Phase, OutStatus, Steps, Terminal
  <1>2. SenderInv /\ [OutboxNext]_vars => SenderInv'
    BY QueueStepOfOutbox, OutboxTypeStep, LaneStepInv, ClaimStep
       DEF SenderInv, OutboxTypeOK
  <1> QED BY <1>1, <1>2, PTL DEF OutboxSpec

(* The outbox's rows, counters and lanes keep their types. *)
THEOREM OutboxTypeSafe == OutboxSpec => []OutboxTypeOK
  <1>1. SenderInv => OutboxTypeOK
    BY DEF SenderInv
  <1> QED BY <1>1, SenderInvSafe, PTL

(* The sender uses the queue as the queue is meant to be used: what is      *)
(* proved of JobQueue holds of the outbox's jobs.                           *)
THEOREM OutboxUsesQueue == OutboxSpec => Spec
  <1>1. OutboxInit => QueueInit
    BY DEF OutboxInit
  <1> QED BY <1>1, QueueStepOfOutbox, SenderInvSafe, PTL DEF OutboxSpec, Spec

-----------------------------------------------------------------------------
(* What the steps other than BeginOutboundAttempt and Send may do to the    *)
(* attempts: nothing, except that a lane may give one up.                   *)
CallsKept ==
  /\ calls' = calls /\ attemptCount' = attemptCount
  /\ \A w \in Lanes : \A j \in Jobs : Sending(w, j)' => Sending(w, j)
  /\ \A j \in Jobs : out'[j] \in {"none", "queued"} => out[j] \in {"none", "queued"}

LEMMA OtherStepsKeepCalls ==
  ASSUME SenderInv, [OutboxNext]_vars,
         ~ \E w \in Lanes : BeginOutboundAttempt(w) \/ Send(w)
  PROVE  CallsKept
  <1> USE DEF SenderInv, OutboxTypeOK, QueueTypeOK, CallsKept, Sending, Goto,
              dataVars, controlVars, laneVars
  <1>1. ASSUME NEW j \in Jobs, EnqueueOutbound(j) \/ EnqueueJob(j) PROVE CallsKept
    BY <1>1 DEF EnqueueOutbound, EnqueueJob, Enqueue, queueVars, outboxVars
  <1>2. ASSUME NEW u \in Users, PurgeAccountData(u) PROVE CallsKept
    BY <1>2 DEF PurgeAccountData, Delete, queueVars
  <1>3. ASSUME NEW w \in Lanes, SenderStep(w), ~BeginOutboundAttempt(w), ~Send(w)
        PROVE CallsKept
    <2>1. CASE \E j \in Jobs : Claim(w, j)
      BY <2>1 DEF Claim, Dequeue
    <2>2. CASE (Ack(w) \/ Poll(w)) /\ UNCHANGED outboxVars
      BY <2>2 DEF Ack, Poll, Idle, LaneInv, Phase, queueVars, outboxVars
    <2>3. CASE Inspect(w)
      BY <2>3 DEF Inspect, Decision, queueVars
    <2>4. CASE CompleteOutboundSend(w)
      BY <2>4 DEF CompleteOutboundSend, DeleteJob, Delete, queueVars
    <2>5. CASE MarkOutboundStatus(w)
      BY <2>5 DEF MarkOutboundStatus, queueVars
    <2>6. CASE PurgeOutboundAndJob(w) \/ DeleteQueueJob(w)
      BY <2>6 DEF PurgeOutboundAndJob, DeleteQueueJob, DeleteJob, Delete, queueVars
    <2>7. CASE HandlerReturns(w)
      BY <2>7 DEF HandlerReturns, Return
    <2> QED BY <1>3, <2>1, <2>2, <2>3, <2>4, <2>5, <2>6, <2>7 DEF SenderStep
  <1>4. ASSUME NEW w \in Lanes, StoreError(w) \/ LockLost(w) \/ LaneCrash(w)
        PROVE CallsKept
    BY <1>4 DEF StoreError, LockLost, LaneCrash, Return, Crash, Idle, queueVars
  <1>5. CASE QueueStep
    BY <1>5 DEF QueueStep, Heartbeat, Stall, HeartbeatFails, LeaseExpires, outboxVars
  <1>6. CASE UNCHANGED vars
    BY <1>6 DEF vars, queueVars, outboxVars
  <1> QED BY <1>1, <1>2, <1>3, <1>4, <1>5, <1>6 DEF OutboxNext

(* The transaction of BeginOutboundAttempt, whoever runs it: it starts an   *)
(* attempt of a queued row and charges it, or it starts none.               *)
LEMMA BeginCases ==
  ASSUME SenderInv, NEW w \in Lanes, BeginOutboundAttempt(w)
  PROVE  \/ CallsKept
         \/ /\ held[w] \in Jobs /\ out[held[w]] = "queued" /\ QuotaLeft
            /\ out' = [out EXCEPT ![held[w]] = "sending"]
            /\ at' = [at EXCEPT ![w] = "send"]
            /\ attemptCount' = attemptCount + 1
            /\ calls' = calls /\ held' = held
  <1>1. held[w] \in Jobs
    BY HeldRow DEF BeginOutboundAttempt
  <1> QED BY <1>1 DEF SenderInv, OutboxTypeOK, QueueTypeOK, BeginOutboundAttempt, CallsKept,
                      Sending, Goto, Present, queueVars

LEMMA SendCase ==
  ASSUME SenderInv, NEW w \in Lanes, Send(w)
  PROVE  /\ Sending(w, held[w]) /\ held[w] \in Jobs
         /\ out' = out /\ held' = held /\ attemptCount' = attemptCount
         /\ \E step \in Steps \ {"send"} : at' = [at EXCEPT ![w] = step]
         /\ calls' = [calls EXCEPT ![held[w]] = @ + 1]
  <1>1. held[w] \in Jobs
    BY HeldRow DEF Send
  <1> QED BY <1>1 DEF Send, Sending, Goto, Steps, queueVars

(* No step breaks the order queued, charged, called. *)
LEMMA CallStep == SenderInv /\ CallInv /\ [OutboxNext]_vars => CallInv'
  <1> SUFFICES ASSUME SenderInv, CallInv, [OutboxNext]_vars PROVE CallInv'
    OBVIOUS
  <1>t. /\ calls \in [Jobs -> Nat] /\ out \in [Jobs -> OutStatus]
        /\ at \in [Lanes -> Steps] /\ held \in [Lanes -> Jobs \cup {NoJob}]
    BY DEF SenderInv, OutboxTypeOK, QueueTypeOK
  <1>1. CASE CallsKept
    BY <1>1 DEF CallsKept, CallInv, AtMostOneCall
  <1>2. ASSUME NEW w \in Lanes, BeginOutboundAttempt(w) PROVE CallInv'
    BY <1>1, <1>2, <1>t, BeginCases DEF CallInv, AtMostOneCall, Sending
  <1>3. ASSUME NEW w \in Lanes, Send(w) PROVE CallInv'
    BY <1>3, <1>t, SendCase DEF CallInv, AtMostOneCall, Sending
  <1> QED BY <1>1, <1>2, <1>3, OtherStepsKeepCalls

LEMMA CallInvSafe == OutboxSpec => []CallInv
  <1>1. OutboxInit => CallInv
    BY DEF OutboxInit, CallInv, AtMostOneCall, Sending
  <1> QED BY <1>1, CallStep, SenderInvSafe, PTL DEF OutboxSpec

(* A row is given to the provider at most once, however often its job is   *)
(* claimed, its lanes crash or its user lock is lost.                       *)
THEOREM AtMostOneCallSafe == OutboxSpec => []AtMostOneCall
  <1>1. CallInv => AtMostOneCall
    BY DEF CallInv
  <1> QED BY <1>1, CallInvSafe, PTL

-----------------------------------------------------------------------------
LEMMA ChargedFinite == IsFiniteSet(Charged) /\ Cardinality(Charged) \in Nat
  <1>1. IsFiniteSet(Charged)
    BY JobsFinite, FS_Subset DEF Charged
  <1> QED BY <1>1, FS_CardinalityType

(* A row joins the charged ones only with an increment of the counter. *)
LEMMA ChargeStep == SenderInv /\ CallInv /\ ChargeInv /\ [OutboxNext]_vars => ChargeInv'
  <1> SUFFICES ASSUME SenderInv, CallInv, ChargeInv, [OutboxNext]_vars PROVE ChargeInv'
    OBVIOUS
  <1>t. /\ calls \in [Jobs -> Nat] /\ attemptCount \in Nat /\ attemptCount' \in Nat
        /\ at \in [Lanes -> Steps] /\ held \in [Lanes -> Jobs \cup {NoJob}]
    BY OutboxTypeStep DEF SenderInv, OutboxTypeOK, QueueTypeOK
  <1>f. Cardinality(Charged) \in Nat /\ Cardinality(Charged') \in Nat /\ IsFiniteSet(Charged)
    BY ChargedFinite, JobsFinite, FS_Subset, FS_CardinalityType DEF Charged
  <1>0. ASSUME Charged' \subseteq Charged, attemptCount' = attemptCount PROVE ChargeInv'
    <2>1. Cardinality(Charged') <= Cardinality(Charged)
      BY <1>0, <1>f, FS_Subset
    <2> QED BY <1>0, <1>f, <1>t, <2>1 DEF ChargeInv
  <1>1. CASE CallsKept
    <2>1. Charged' \subseteq Charged
      BY <1>1 DEF CallsKept, Charged
    <2> QED BY <1>0, <1>1, <2>1 DEF CallsKept
  <1>2. ASSUME NEW w \in Lanes, BeginOutboundAttempt(w), ~CallsKept PROVE ChargeInv'
    <2>1. /\ held[w] \in Jobs /\ QuotaLeft
          /\ at' = [at EXCEPT ![w] = "send"] /\ attemptCount' = attemptCount + 1
          /\ calls' = calls /\ held' = held
      BY <1>2, BeginCases
    <2>2. Charged' \subseteq Charged \cup {held[w]}
      BY <2>1, <1>t DEF Charged, Sending
    <2>3. /\ IsFiniteSet(Charged \cup {held[w]})
          /\ Cardinality(Charged \cup {held[w]}) \in Nat
          /\ Cardinality(Charged \cup {held[w]}) <= Cardinality(Charged) + 1
      <3>1. /\ IsFiniteSet(Charged \cup {held[w]})
            /\ \/ Cardinality(Charged \cup {held[w]}) = Cardinality(Charged)
               \/ Cardinality(Charged \cup {held[w]}) = Cardinality(Charged) + 1
        BY <1>f, FS_AddElement, Zenon
      <3> QED BY <3>1, <1>f
    <2>4. Cardinality(Charged') <= Cardinality(Charged \cup {held[w]})
      BY <2>2, <2>3, FS_Subset
    <2>5. Cardinality(Charged') <= attemptCount'
      BY <2>1, <2>3, <2>4, <1>f, <1>t DEF ChargeInv
    <2>6. MonthlyMessageLimit > 0 => attemptCount' <= MonthlyMessageLimit
      BY <2>1, <1>t, LimitType DEF QuotaLeft
    <2> QED BY <2>5, <2>6 DEF ChargeInv
  <1>3. ASSUME NEW w \in Lanes, Send(w) PROVE ChargeInv'
    <2>1. Charged' \subseteq Charged
      BY <1>3, <1>t, SendCase DEF Charged, Sending
    <2> QED BY <1>0, <1>3, <2>1, SendCase
  <1> QED BY <1>1, <1>2, <1>3, OtherStepsKeepCalls

(* The monthly limit caps provider calls: each row called was charged first *)
(* and the charge never passes the limit, whatever lanes race or crash.     *)
THEOREM CallsWithinQuotaSafe == OutboxSpec => []CallsWithinQuota
  <1>1. OutboxInit => ChargeInv
    <2> SUFFICES ASSUME OutboxInit PROVE ChargeInv
      OBVIOUS
    <2>1. Charged = {}
      BY DEF OutboxInit, Charged, Sending
    <2> QED BY <2>1, FS_EmptySet, LimitType DEF OutboxInit, ChargeInv
  <1>2. SenderInv /\ ChargeInv => CallsWithinQuota
    <2> SUFFICES ASSUME SenderInv, ChargeInv PROVE CallsWithinQuota
      OBVIOUS
    <2> DEFINE called == {j \in Jobs : calls[j] > 0}
    <2>1. called \subseteq Charged
      BY DEF Charged
    <2>2. Cardinality(called) \in Nat /\ Cardinality(called) <= Cardinality(Charged)
      BY <2>1, ChargedFinite, FS_Subset, FS_CardinalityType
    <2> QED BY <2>2, ChargedFinite DEF ChargeInv, CallsWithinQuota, SenderInv, OutboxTypeOK
  <1> QED BY <1>1, <1>2, ChargeStep, CallInvSafe, SenderInvSafe, PTL DEF OutboxSpec

-----------------------------------------------------------------------------
(* The user lock.  While no session of it is lost, what a lane has decided   *)
(* under the lock stays true until it acts on it.                            *)
LaneDecision(w) ==
  /\ at[w] \notin {"off", "start"} => lock[User(w)] = w
  /\ at[w] \in {"begin", "suppressed"} => out[held[w]] = "queued"
  /\ at[w] \in {"send", "complete", "failed", "ambiguous"} => out[held[w]] = "sending"
  /\ at[w] \in {"begin", "send"} /\ account[User(w)] = "deleted" => held[w] \in Ephemeral
  /\ at[w] = "complete" => delivered[held[w]]
  /\ at[w] = "failed" => ~delivered[held[w]]

DecisionInv == \A w \in Lanes : LaneDecision(w)

HonestRows ==
  \A j \in Jobs : /\ out[j] = "sent" => delivered[j]
                  /\ out[j] \in {"failed", "suppressed"} => ~delivered[j]

LockedInv == lockLosses = 0 => DecisionInv /\ HonestRows

DeliveredInv == \A j \in Jobs : delivered[j] => calls[j] > 0

LEMMA DeliveredStep == SenderInv /\ DeliveredInv /\ [OutboxNext]_vars => DeliveredInv'
  <1> SUFFICES ASSUME SenderInv, DeliveredInv, [OutboxNext]_vars PROVE DeliveredInv'
    OBVIOUS
  <1>1. ASSUME NEW w \in Lanes, Send(w) PROVE DeliveredInv'
    BY <1>1, HeldRow DEF Send, DeliveredInv, SenderInv, OutboxTypeOK
  <1>2. CASE ~ \E w \in Lanes : Send(w)
    <2>1. calls' = calls /\ delivered' = delivered
      BY <1>2 DEF OutboxNext, EnqueueOutbound, EnqueueJob, PurgeAccountData, SenderStep, Claim,
             Inspect, BeginOutboundAttempt, CompleteOutboundSend, MarkOutboundStatus,
             PurgeOutboundAndJob, DeleteQueueJob, HandlerReturns, StoreError, LockLost,
             LaneCrash, QueueStep, dataVars, outboxVars, vars
    <2> QED BY <2>1 DEF DeliveredInv
  <1> QED BY <1>1, <1>2

(* Two lanes under the lock of one user are one lane. *)
LEMMA OneLaneUnderLock ==
  ASSUME DecisionInv, NEW v \in Lanes, NEW w \in Lanes,
         at[v] \notin {"off", "start"}, at[w] \notin {"off", "start"}, held[v] = held[w]
  PROVE  v = w
  BY DEF DecisionInv, LaneDecision, User

(* What a lane does to its own row under the lock disturbs no other lane.    *)
LEMMA OthersUndisturbed ==
  ASSUME SenderInv, DecisionInv, NEW w \in Lanes, at[w] \notin {"off", "start"},
         held' = held, account' = account,
         \A v \in Lanes \ {w} : at'[v] = at[v],
         \A u \in Users : lock[u] # w => lock'[u] = lock[u],
         \A j \in Jobs : j # held[w] => out'[j] = out[j] /\ delivered'[j] = delivered[j]
  PROVE  \A v \in Lanes \ {w} : LaneDecision(v)'
  <1> TAKE v \in Lanes \ {w}
  <1>1. CASE at[v] \in {"off", "start"}
    BY <1>1 DEF LaneDecision
  <1>2. CASE at[v] \notin {"off", "start"}
    <2>1. held[v] \in Jobs /\ held[v] # held[w] /\ Owner[held[v]] \in Users
      BY <1>2, HeldRow, OneLaneUnderLock, OwnerType
    <2>2. out'[held[v]] = out[held[v]] /\ delivered'[held[v]] = delivered[held[v]]
      BY <2>1
    <2>3. lock[Owner[held[v]]] = v /\ lock'[Owner[held[v]]] = v
      BY <1>2, <2>1 DEF DecisionInv, LaneDecision, User
    <2> QED BY <2>1, <2>2, <2>3 DEF DecisionInv, LaneDecision, User
  <1> QED BY <1>1, <1>2

(* While no lock session is lost, no step belies a decision made under the   *)
(* lock or an outcome that was recorded.                                     *)
LEMMA LockedStep ==
  ASSUME SenderInv, CallInv, DeliveredInv, DecisionInv, HonestRows, [OutboxNext]_vars,
         lockLosses' = lockLosses
  PROVE  DecisionInv' /\ HonestRows'
  <1>t. /\ out \in [Jobs -> OutStatus] /\ delivered \in [Jobs -> BOOLEAN]
        /\ at \in [Lanes -> Steps] /\ lock \in [Users -> Lanes \cup {Nobody}]
        /\ account \in [Users -> {"active", "deleted"}]
        /\ held \in [Lanes -> Jobs \cup {NoJob}]
    BY DEF SenderInv, OutboxTypeOK, QueueTypeOK
  <1>n. \A j \in Jobs : out[j] = "queued" => ~delivered[j]
    BY DEF CallInv, DeliveredInv
  <1> USE NobodyIsNotALane, OwnerType, EphemeralType
  <1>0. ASSUME NEW w \in Lanes, at[w] \notin {"off", "start"},
               held' = held, account' = account,
               \A v \in Lanes \ {w} : at'[v] = at[v],
               \A u \in Users : lock[u] # w => lock'[u] = lock[u],
               \A j \in Jobs : j # held[w] => out'[j] = out[j] /\ delivered'[j] = delivered[j],
               LaneDecision(w)',
               \/ out'[held[w]] = out[held[w]] /\ delivered'[held[w]] = delivered[held[w]]
               \/ out'[held[w]] \in {"queued", "sending", "purged", "ambiguous"}
               \/ out'[held[w]] = "sent" /\ delivered'[held[w]]
               \/ out'[held[w]] \in {"failed", "suppressed"} /\ ~delivered'[held[w]]
        PROVE  DecisionInv' /\ HonestRows'
    <2>1. \A v \in Lanes \ {w} : LaneDecision(v)'
      BY <1>0, OthersUndisturbed
    <2>2. HonestRows'
      BY <1>0 DEF HonestRows
    <2> QED BY <1>0, <2>1, <2>2 DEF DecisionInv
  <1>1. ASSUME NEW j \in Jobs, EnqueueOutbound(j) \/ EnqueueJob(j)
        PROVE  DecisionInv' /\ HonestRows'
    BY <1>1, <1>t, HeldRow
       DEF EnqueueOutbound, EnqueueJob, Enqueue, DecisionInv, LaneDecision, HonestRows, User,
           queueVars, laneVars, outboxVars, controlVars
  <1>2. ASSUME NEW u \in Users, PurgeAccountData(u) PROVE DecisionInv' /\ HonestRows'
    <2>0. /\ at' = at /\ lock' = lock /\ held' = held /\ delivered' = delivered
          /\ lock[u] = Nobody /\ account' = [account EXCEPT ![u] = "deleted"]
          /\ \A j \in Jobs : out'[j] = IF Owner[j] = u /\ Present(j) THEN "purged" ELSE out[j]
      BY <1>2 DEF PurgeAccountData, Delete, queueVars, laneVars, controlVars
    <2>1. ASSUME NEW v \in Lanes PROVE LaneDecision(v)'
      <3>1. CASE at[v] \in {"off", "start"}
        BY <2>0, <3>1 DEF LaneDecision
      <3>2. CASE at[v] \notin {"off", "start"}
        <4>1. held[v] \in Jobs /\ lock[Owner[held[v]]] = v
          BY <3>2, HeldRow DEF DecisionInv, LaneDecision, User
        <4>2. Owner[held[v]] # u
          BY <4>1, <2>0
        <4>3. out'[held[v]] = out[held[v]] /\ account'[Owner[held[v]]] = account[Owner[held[v]]]
          BY <4>1, <4>2, <2>0, <1>t
        <4> QED BY <4>1, <4>3, <2>0 DEF DecisionInv, LaneDecision, User
      <3> QED BY <3>1, <3>2
    <2> QED BY <2>0, <2>1 DEF DecisionInv, HonestRows
  <1>3. ASSUME NEW w \in Lanes, \E j \in Jobs : Claim(w, j) PROVE DecisionInv' /\ HonestRows'
    BY <1>3, <1>t DEF Claim, Dequeue, Goto, DecisionInv, LaneDecision, HonestRows, User, dataVars
  <1>4. ASSUME NEW w \in Lanes, (Ack(w) \/ Poll(w)) /\ UNCHANGED outboxVars
        PROVE  DecisionInv' /\ HonestRows'
    <2>1. at[w] = "off" /\ \A v \in Lanes \ {w} : held'[v] = held[v]
      BY <1>4, <1>t DEF Ack, Poll, Idle, SenderInv, LaneInv, queueVars
    <2> QED BY <1>4, <2>1 DEF DecisionInv, LaneDecision, HonestRows, User, outboxVars
  <1>5. ASSUME NEW w \in Lanes, Inspect(w) PROVE DecisionInv' /\ HonestRows'
    <2>1. held[w] \in Jobs /\ held' = held /\ out' = out /\ account' = account
          /\ delivered' = delivered
      BY <1>5, HeldRow DEF Inspect, queueVars, dataVars
    <2>2. PICK enabled \in OutboundEnabled :
            at' = [at EXCEPT ![w] = Decision(held[w], enabled)]
      BY <1>5 DEF Inspect, Goto
    <2>3. at'[w] = Decision(held[w], enabled)
      BY <2>2, <1>t
    <2>4. LaneDecision(w)'
      <3>1. lock'[User(w)] = w
        BY <1>5, <1>t, <2>1 DEF Inspect, User
      <3>2. /\ at'[w] \in {"begin", "suppressed"} => out[held[w]] = "queued"
            /\ at'[w] \in {"begin", "send"} /\ account[User(w)] = "deleted"
                 => held[w] \in Ephemeral
            /\ at'[w] = "ambiguous" => out[held[w]] = "sending"
            /\ at'[w] \notin {"send", "complete", "failed"}
        BY <2>1, <2>3, <1>t DEF Decision, Present, Terminal, OutStatus, User
      <3> QED BY <2>1, <3>1, <3>2 DEF LaneDecision, User
    <2>5. ASSUME NEW v \in Lanes \ {w} PROVE LaneDecision(v)'
      <3>1. at'[v] = at[v]
        BY <2>2, <1>t
      <3>2. \A u \in Users : lock[u] = v => lock'[u] = v
        BY <1>5, <1>t DEF Inspect
      <3>3. at[v] \notin {"off", "start"} => held[v] \in Jobs /\ Owner[held[v]] \in Users
        BY HeldRow
      <3> QED BY <2>1, <3>1, <3>2, <3>3 DEF DecisionInv, LaneDecision, User
    <2> QED BY <2>1, <2>4, <2>5 DEF DecisionInv, HonestRows
  <1>6. ASSUME NEW w \in Lanes, BeginOutboundAttempt(w) PROVE DecisionInv' /\ HonestRows'
    <2>1. held[w] \in Jobs /\ out[held[w]] = "queued" /\ LaneDecision(w)
      BY <1>6, HeldRow DEF BeginOutboundAttempt, DecisionInv, LaneDecision
    <2>2. LaneDecision(w)'
      BY <1>6, <2>1, <1>t DEF BeginOutboundAttempt, LaneDecision, Goto, Present, User, queueVars
    <2> QED BY <1>6, <1>0, <2>1, <2>2, <1>t, <1>n
            DEF BeginOutboundAttempt, Goto, Present, queueVars
  <1>7. ASSUME NEW w \in Lanes, Send(w) PROVE DecisionInv' /\ HonestRows'
    <2>1. /\ held[w] \in Jobs /\ out[held[w]] = "sending" /\ LaneDecision(w)
          /\ ~delivered[held[w]]
      BY <1>7, HeldRow DEF Send, DecisionInv, LaneDecision, CallInv, DeliveredInv, Sending
    <2>2. LaneDecision(w)'
      BY <1>7, <2>1, <1>t DEF Send, LaneDecision, Goto, User, queueVars
    <2> QED BY <1>7, <1>0, <2>1, <2>2, <1>t DEF Send, Goto, queueVars
  <1>8. ASSUME NEW w \in Lanes,
               CompleteOutboundSend(w) \/ MarkOutboundStatus(w) \/ PurgeOutboundAndJob(w)
                 \/ DeleteQueueJob(w)
        PROVE  DecisionInv' /\ HonestRows'
    <2>1. held[w] \in Jobs /\ LaneDecision(w) /\ at[w] \notin {"off", "start"}
      BY <1>8, HeldRow
         DEF CompleteOutboundSend, MarkOutboundStatus, PurgeOutboundAndJob, DeleteQueueJob,
             DecisionInv
    <2>2. /\ held' = held /\ account' = account /\ lock' = lock /\ delivered' = delivered
          /\ at' = [at EXCEPT ![w] = "return"]
      BY <1>8 DEF CompleteOutboundSend, MarkOutboundStatus, PurgeOutboundAndJob,
                  DeleteQueueJob, DeleteJob, Delete, Goto, queueVars, laneVars, dataVars
    <2>3. LaneDecision(w)'
      BY <2>1, <2>2, <1>t DEF LaneDecision, User
    <2>4. /\ \A j \in Jobs : j # held[w] => out'[j] = out[j]
          /\ \/ out'[held[w]] = out[held[w]]
             \/ out'[held[w]] \in {"purged", "ambiguous"}
             \/ out'[held[w]] = "sent" /\ delivered[held[w]]
             \/ out'[held[w]] \in {"failed", "suppressed"} /\ ~delivered[held[w]]
      BY <1>8, <2>1, <1>t, <1>n DEF CompleteOutboundSend, MarkOutboundStatus,
         PurgeOutboundAndJob, DeleteQueueJob, LaneDecision, dataVars
    <2> QED BY <1>0, <2>1, <2>2, <2>3, <2>4, <1>t
  <1>9. ASSUME NEW w \in Lanes, HandlerReturns(w) \/ StoreError(w) \/ LaneCrash(w)
        PROVE  DecisionInv' /\ HonestRows'
    <2>1. /\ out' = out /\ account' = account /\ delivered' = delivered
          /\ at' = [at EXCEPT ![w] = "off"]
          /\ \A v \in Lanes \ {w} : held'[v] = held[v]
          /\ \A u \in Users : lock[u] # w => lock'[u] = lock[u]
      BY <1>9, <1>t DEF HandlerReturns, StoreError, LaneCrash, Return, Crash, Idle, Goto,
                        Unlock, dataVars
    <2>2. ASSUME NEW v \in Lanes \ {w} PROVE LaneDecision(v)'
      <3>1. at[v] \notin {"off", "start"} => held[v] \in Jobs /\ Owner[held[v]] \in Users
        BY HeldRow
      <3> QED BY <2>1, <3>1, <1>t DEF DecisionInv, LaneDecision, User
    <2>3. LaneDecision(w)'
      BY <2>1, <1>t DEF LaneDecision
    <2> QED BY <2>1, <2>2, <2>3 DEF DecisionInv, HonestRows
  <1>10. CASE QueueStep \/ UNCHANGED vars
    <2>1. held' = held /\ UNCHANGED outboxVars
      BY <1>10 DEF QueueStep, Heartbeat, Stall, HeartbeatFails, LeaseExpires, laneVars,
                   queueVars, vars
    <2> QED BY <2>1 DEF DecisionInv, LaneDecision, HonestRows, User, outboxVars
  <1>11. ASSUME NEW w \in Lanes PROVE ~LockLost(w)
    BY DEF LockLost, SenderInv, OutboxTypeOK
  <1> QED BY <1>1, <1>2, <1>3, <1>4, <1>5, <1>6, <1>7, <1>8, <1>9, <1>10, <1>11
          DEF OutboxNext, SenderStep

LEMMA LockLossesCount ==
  SenderInv /\ [OutboxNext]_vars => lockLosses' \in {lockLosses, lockLosses + 1}
  BY DEF OutboxNext, EnqueueOutbound, EnqueueJob, PurgeAccountData, SenderStep, Claim,
         Inspect, BeginOutboundAttempt, Send, CompleteOutboundSend, MarkOutboundStatus,
         PurgeOutboundAndJob, DeleteQueueJob, HandlerReturns, StoreError, LockLost,
         LaneCrash, QueueStep, controlVars, outboxVars, vars

LEMMA LockedInvSafe == OutboxSpec => [](DeliveredInv /\ LockedInv)
  <1>1. OutboxInit => DeliveredInv /\ LockedInv
    BY DEF OutboxInit, DeliveredInv, LockedInv, DecisionInv, LaneDecision, HonestRows
  <1>2. SenderInv /\ CallInv /\ DeliveredInv /\ LockedInv /\ [OutboxNext]_vars => LockedInv'
    <2> SUFFICES ASSUME SenderInv, CallInv, DeliveredInv, LockedInv, [OutboxNext]_vars,
                        lockLosses' = 0
                 PROVE  DecisionInv' /\ HonestRows'
      BY DEF LockedInv
    <2>1. lockLosses = 0
      BY LockLossesCount DEF SenderInv, OutboxTypeOK
    <2> QED BY <2>1, LockedStep DEF LockedInv
  <1> QED BY <1>1, <1>2, DeliveredStep, CallInvSafe, SenderInvSafe, PTL DEF OutboxSpec

(* Attempts that were charged, as successes or as rows still in sending.  No *)
(* lock is needed: only BeginOutboundAttempt makes a row sending.            *)
InSending == {j \in Jobs : out[j] = "sending"}
SentInv == sentCount + Cardinality(InSending) <= attemptCount

LEMMA SendingFinite == IsFiniteSet(InSending) /\ Cardinality(InSending) \in Nat
  <1>1. IsFiniteSet(InSending)
    BY JobsFinite, FS_Subset DEF InSending
  <1> QED BY <1>1, FS_CardinalityType

LEMMA SentStep == SenderInv /\ SentInv /\ [OutboxNext]_vars => SentInv'
  <1> SUFFICES ASSUME SenderInv, SentInv, [OutboxNext]_vars PROVE SentInv'
    OBVIOUS
  <1>t. /\ out \in [Jobs -> OutStatus] /\ attemptCount \in Nat /\ sentCount \in Nat
        /\ at \in [Lanes -> Steps] /\ held \in [Lanes -> Jobs \cup {NoJob}]
    BY DEF SenderInv, OutboxTypeOK, QueueTypeOK
  <1>f. IsFiniteSet(InSending) /\ Cardinality(InSending) \in Nat
    BY SendingFinite
  <1>1. ASSUME InSending' \subseteq InSending, sentCount' = sentCount,
               attemptCount' = attemptCount
        PROVE  SentInv'
    <2>1. Cardinality(InSending') \in Nat /\ Cardinality(InSending') <= Cardinality(InSending)
      BY <1>1, <1>f, CardinalityShrinks
    <2> QED BY <1>1, <1>f, <1>t, <2>1 DEF SentInv
  <1>2. ASSUME NEW w \in Lanes, BeginOutboundAttempt(w) PROVE SentInv'
    <2>0. held[w] \in Jobs /\ sentCount' = sentCount
      BY <1>2, HeldRow DEF BeginOutboundAttempt
    <2>1. CASE InSending' \subseteq InSending /\ attemptCount' = attemptCount
      BY <1>1, <2>0, <2>1
    <2>2. CASE InSending' \subseteq InSending \cup {held[w]} /\ attemptCount' = attemptCount + 1
      <3>1. /\ Cardinality(InSending') \in Nat
            /\ Cardinality(InSending') <= Cardinality(InSending) + 1
        BY <2>2, <1>f, CardinalityGrows
      <3> QED BY <2>0, <2>2, <3>1, <1>f, <1>t DEF SentInv
    <2> QED BY <1>2, <2>0, <2>1, <2>2, <1>t DEF BeginOutboundAttempt, InSending
  <1>3. ASSUME NEW w \in Lanes, CompleteOutboundSend(w) PROVE SentInv'
    <2>0. held[w] \in Jobs /\ attemptCount' = attemptCount
      BY <1>3, HeldRow DEF CompleteOutboundSend
    <2>1. CASE out[held[w]] = "sending"
      <3>1. /\ held[w] \in InSending /\ sentCount' = sentCount + 1
            /\ InSending' \subseteq InSending \ {held[w]}
        BY <1>3, <2>0, <2>1, <1>t DEF CompleteOutboundSend, InSending
      <3>2. /\ IsFiniteSet(InSending \ {held[w]})
            /\ Cardinality(InSending \ {held[w]}) = Cardinality(InSending) - 1
        BY <3>1, <1>f, FS_RemoveElement
      <3>3. /\ Cardinality(InSending') \in Nat
            /\ Cardinality(InSending') <= Cardinality(InSending \ {held[w]})
        BY <3>1, <3>2, CardinalityShrinks
      <3> QED BY <2>0, <3>1, <3>2, <3>3, <1>f, <1>t DEF SentInv
    <2>2. CASE out[held[w]] # "sending"
      BY <1>1, <1>3, <2>0, <2>2 DEF CompleteOutboundSend, InSending
    <2> QED BY <2>1, <2>2
  <1>4. CASE ~ \E w \in Lanes : BeginOutboundAttempt(w) \/ CompleteOutboundSend(w)
    <2>1. sentCount' = sentCount /\ attemptCount' = attemptCount
      BY <1>4 DEF OutboxNext, EnqueueOutbound, EnqueueJob, PurgeAccountData, SenderStep, Claim,
         Inspect, Send, MarkOutboundStatus, PurgeOutboundAndJob, DeleteQueueJob,
         HandlerReturns, StoreError, LockLost, LaneCrash, QueueStep, dataVars, outboxVars, vars
    <2>2. InSending' \subseteq InSending
      BY <1>4, <1>t DEF OutboxNext, EnqueueOutbound, EnqueueJob, PurgeAccountData, SenderStep,
         Claim, Inspect, Send, MarkOutboundStatus, PurgeOutboundAndJob, DeleteQueueJob,
         HandlerReturns, StoreError, LockLost, LaneCrash, QueueStep, dataVars, outboxVars,
         vars, InSending
    <2> QED BY <1>1, <2>1, <2>2
  <1> QED BY <1>2, <1>3, <1>4

(* As long as no lock session is lost: what a row says of its delivery is    *)
(* true, and successes are never counted above attempts.                     *)
THEOREM StatusIsHonestSafe == OutboxSpec => []StatusIsHonest
  <1>1. OutboxInit => SentInv
    <2> SUFFICES ASSUME OutboxInit PROVE InSending = {} /\ sentCount = 0 /\ attemptCount = 0
      BY FS_EmptySet DEF SentInv
    <2> QED BY DEF OutboxInit, InSending
  <1>2. SenderInv /\ SentInv /\ LockedInv => StatusIsHonest
    BY SendingFinite DEF SentInv, LockedInv, HonestRows, StatusIsHonest, SenderInv, OutboxTypeOK
  <1> QED BY <1>1, <1>2, SentStep, LockedInvSafe, SenderInvSafe, PTL DEF OutboxSpec

(* As long as no lock session is lost under its holder, the provider is      *)
(* never called for a user whose purge has committed, except to confirm it.  *)
THEOREM DeletedUserIsSilentSafe == OutboxSpec => DeletedUserIsSilent
  <1> DEFINE Quiet == \A j \in Jobs : calls'[j] # calls[j] /\ account[Owner[j]] = "deleted"
                                          /\ lockLosses = 0
                                        => j \in Ephemeral
  <1>1. SenderInv /\ LockedInv /\ [OutboxNext]_vars => [Quiet]_vars
    <2> SUFFICES ASSUME SenderInv, DecisionInv, OutboxNext PROVE Quiet
      BY DEF LockedInv
    <2>1. ASSUME NEW w \in Lanes, Send(w) PROVE Quiet
      BY <2>1, HeldRow DEF Send, SenderInv, OutboxTypeOK, DecisionInv, LaneDecision, User
    <2>2. CASE ~ \E w \in Lanes : Send(w)
      BY <2>2 DEF OutboxNext, EnqueueOutbound, EnqueueJob, PurgeAccountData, SenderStep, Claim,
         Inspect, BeginOutboundAttempt, CompleteOutboundSend, MarkOutboundStatus,
         PurgeOutboundAndJob, DeleteQueueJob, HandlerReturns, StoreError, LockLost, LaneCrash,
         QueueStep, dataVars, outboxVars
    <2> QED BY <2>1, <2>2
  <1>2. OutboxSpec => [][Quiet]_vars
    BY <1>1, LockedInvSafe, SenderInvSafe, PTL DEF OutboxSpec
  <1> QED BY <1>2 DEF DeletedUserIsSilent

-----------------------------------------------------------------------------
(* The deletion confirmation.  A row without a job was not even written; and *)
(* the outcomes that keep a row are never decided for an ephemeral one.      *)
RowsFirst ==
  /\ \A j \in Jobs : out[j] = "none" => status[j] = "absent"
  /\ \A w \in Lanes : at[w] \in {"ambiguous", "failed", "suppressed"} => held[w] \notin Ephemeral

(* An attempt on the confirmation that has an outcome is still in the hands  *)
(* of the lane that will purge the row; a lane that is past it leaves none.  *)
Removed(j) ==
  /\ out[j] \in Terminal => \E w \in Lanes : held[w] = j /\ at[w] = "purge"
  /\ out[j] = "sending" =>
       \E w \in Lanes : held[w] = j /\ at[w] \in {"send", "complete", "purge"}
  /\ \A w \in Lanes :
       held[w] = j /\ (at[w] \in {"return", "drop"} \/ phase[w] = "ack") => ~Present(j)
  /\ status[j] = "done" => ~Present(j)

RemovedInv ==
  errors = 0 /\ lockLosses = 0 => \A j \in Ephemeral : lost[j] = 0 => Removed(j)

LEMMA RowsFirstStep == SenderInv /\ RowsFirst /\ [OutboxNext]_vars => RowsFirst'
  <1> SUFFICES ASSUME SenderInv, RowsFirst, [OutboxNext]_vars PROVE RowsFirst'
    OBVIOUS
  <1> USE NoJobIsNew, EphemeralType
      DEF SenderInv, OutboxTypeOK, QueueTypeOK, RowsFirst, Goto, dataVars, controlVars,
          laneVars, rowVars, queueVars
  <1>1. ASSUME NEW j \in Jobs, EnqueueOutbound(j) \/ EnqueueJob(j) PROVE RowsFirst'
    BY <1>1 DEF EnqueueOutbound, EnqueueJob, Enqueue, outboxVars
  <1>2. ASSUME NEW u \in Users, PurgeAccountData(u) PROVE RowsFirst'
    <2>1. UNCHANGED <<at, held>> /\ \A j \in Jobs : out'[j] = "none" => out[j] = "none"
      BY <1>2 DEF PurgeAccountData, Delete, Present
    <2>2. \A j \in Jobs : status[j] = "absent" => status'[j] = "absent"
      BY <1>2 DEF PurgeAccountData, Delete, Stored
    <2> QED BY <2>1, <2>2
  <1>3. ASSUME NEW w \in Lanes, SenderStep(w) PROVE RowsFirst'
    <2>1. CASE \E j \in Jobs : Claim(w, j)
      BY <2>1 DEF Claim, Dequeue, Ready
    <2>2. CASE (Ack(w) \/ Poll(w)) /\ UNCHANGED outboxVars
      BY <2>2 DEF Ack, Poll, Idle, Owns, outboxVars
    <2>3. CASE Inspect(w)
      BY <2>3 DEF Inspect, Decision, Terminal, OutStatus, Present
    <2>4. CASE BeginOutboundAttempt(w) \/ Send(w)
      BY <2>4 DEF BeginOutboundAttempt, Send
    <2>5. CASE \/ CompleteOutboundSend(w) \/ MarkOutboundStatus(w)
               \/ PurgeOutboundAndJob(w) \/ DeleteQueueJob(w)
      BY <2>5 DEF CompleteOutboundSend, MarkOutboundStatus, PurgeOutboundAndJob,
                  DeleteQueueJob, DeleteJob, Delete, Present, Stored
    <2>6. CASE HandlerReturns(w)
      BY <2>6 DEF HandlerReturns, Return
    <2> QED BY <1>3, <2>1, <2>2, <2>3, <2>4, <2>5, <2>6 DEF SenderStep
  <1>4. ASSUME NEW w \in Lanes, StoreError(w) \/ LockLost(w) \/ LaneCrash(w)
        PROVE RowsFirst'
    BY <1>4 DEF StoreError, LockLost, LaneCrash, Return, Crash, Idle
  <1>5. CASE QueueStep \/ UNCHANGED vars
    BY <1>5 DEF QueueStep, Heartbeat, Stall, HeartbeatFails, LeaseExpires, outboxVars, vars
  <1> QED BY <1>1, <1>2, <1>3, <1>4, <1>5 DEF OutboxNext

(* Short of a store error, a lost lock or a lost claim of the row, every     *)
(* step of an attempt on the confirmation leads to its removal.              *)
LEMMA RemovedStep ==
  ASSUME SenderInv, DecisionInv, RowsFirst, NEW j \in Ephemeral, Undisturbed(j), Removed(j),
         [OutboxNext]_vars, errors' = errors, lockLosses' = lockLosses, lost'[j] = lost[j]
  PROVE  Removed(j)'
  <1>t. /\ out \in [Jobs -> OutStatus] /\ at \in [Lanes -> Steps]
        /\ held \in [Lanes -> Jobs \cup {NoJob}] /\ phase \in [Lanes -> Phase]
        /\ status \in [Jobs -> JobStatus] /\ lost \in [Jobs -> Nat]
        /\ errors \in Nat /\ lockLosses \in Nat /\ j \in Jobs
    BY EphemeralType DEF SenderInv, OutboxTypeOK, QueueTypeOK
  <1>u. \A v, w \in Lanes : held[v] = j /\ held[w] = j => v = w
    BY DEF Undisturbed
  <1>l. \A w \in Lanes : /\ at[w] # "off" <=> phase[w] = "handling"
                         /\ phase[w] = "idle" <=> held[w] = NoJob
    BY DEF SenderInv, LaneInv, ClaimInv
  <1> USE NoJobIsNew
  <1>1. ASSUME NEW i \in Jobs, EnqueueOutbound(i) PROVE Removed(j)'
    <2>1. /\ UNCHANGED <<status, held, phase, at>> /\ out' = [out EXCEPT ![i] = "queued"]
          /\ out[i] = "none"
      BY <1>1 DEF EnqueueOutbound, queueVars, controlVars
    <2>2. CASE i = j
      <3>1. status[j] = "absent"
        BY <2>1, <2>2, <1>t DEF RowsFirst
      <3>2. \A w \in Lanes : held[w] # j
        BY <3>1 DEF Undisturbed, Owns
      <3> QED BY <2>1, <2>2, <3>1, <3>2, <1>t DEF Removed, Terminal
    <2>3. CASE i # j
      BY <2>1, <2>3, <1>t DEF Removed, Present
    <2> QED BY <2>2, <2>3
  <1>2. ASSUME NEW i \in Jobs, EnqueueJob(i) PROVE Removed(j)'
    BY <1>2, <1>t DEF EnqueueJob, Enqueue, Removed, Present, outboxVars, laneVars
  <1>3. ASSUME NEW u \in Users, PurgeAccountData(u) PROVE Removed(j)'
    BY <1>3, <1>t DEF PurgeAccountData, Delete, Removed, Present, Terminal, queueVars,
                      laneVars, controlVars
  <1>4. ASSUME NEW w \in Lanes, NEW i \in Jobs, Claim(w, i) PROVE Removed(j)'
    BY <1>4, <1>t, <1>l DEF Claim, Dequeue, Goto, Removed, Present, dataVars
  <1>5. ASSUME NEW w \in Lanes, (Ack(w) \/ Poll(w)) /\ UNCHANGED outboxVars
        PROVE Removed(j)'
    BY <1>5, <1>t, <1>l DEF Ack, Poll, Idle, Owns, Removed, Present, queueVars, outboxVars
  <1>6. ASSUME NEW w \in Lanes, HandlerReturns(w) PROVE Removed(j)'
    BY <1>6, <1>t DEF HandlerReturns, Return, Goto, Removed, Present, dataVars, rowVars
  <1>7. ASSUME NEW w \in Lanes, LaneCrash(w) PROVE Removed(j)'
    <2>1. held[w] # j
      BY <1>7, <1>t DEF LaneCrash, Crash, Fault
    <2> QED BY <1>7, <2>1, <1>t DEF LaneCrash, Crash, Idle, Goto, Removed, Present, dataVars,
                                    rowVars
  <1>8. CASE QueueStep \/ UNCHANGED vars
    <2>1. UNCHANGED <<status, held, phase, at, out>>
      BY <1>8 DEF QueueStep, Heartbeat, Stall, HeartbeatFails, LeaseExpires, laneVars,
                  rowVars, queueVars, outboxVars, vars
    <2> QED BY <2>1 DEF Removed, Present
  <1>9. ASSUME NEW w \in Lanes, at[w] # "off", held' = held, phase' = phase,
               \A v \in Lanes \ {w} : at'[v] = at[v],
               status'[j] \in {status[j], "deleted"},
               \/ held[w] # j /\ out'[j] = out[j]
               \/ held[w] = j /\ out'[j] \in Terminal /\ at'[w] = "purge"
               \/ held[w] = j /\ out'[j] = "sending" /\ at'[w] \in {"send", "complete", "purge"}
               \/ held[w] = j /\ out'[j] \in {"none", "purged"}
               \/ /\ held[w] = j /\ out'[j] = "queued" /\ out[j] = "queued"
                  /\ at'[w] \notin {"return", "drop"}
        PROVE Removed(j)'
    <2>1. CASE held[w] # j
      BY <1>9, <2>1, <1>t DEF Removed, Present
    <2>2. CASE held[w] = j
      <3>1. status[j] # "done" /\ phase[w] # "ack" /\ \A v \in Lanes : held[v] = j => v = w
        BY <1>9, <2>2, <1>u, <1>l DEF Undisturbed, Owns
      <3> QED BY <1>9, <2>2, <3>1, <1>t DEF Removed, Present, Terminal
    <2> QED BY <2>1, <2>2
  <1>10. ASSUME NEW w \in Lanes, Inspect(w) PROVE Removed(j)'
    <2>1. UNCHANGED <<held, phase, status, out>> /\ at[w] = "start"
      BY <1>10 DEF Inspect, queueVars, dataVars
    <2>2. PICK enabled \in OutboundEnabled :
            at' = [at EXCEPT ![w] = Decision(held[w], enabled)]
      BY <1>10 DEF Inspect, Goto
    <2>3. held[w] = j => out[j] \notin Terminal \cup {"sending"}
      BY <2>1, <1>u DEF Removed
    <2>4. held[w] = j => \/ out[j] \in {"none", "purged"}
                         \/ out[j] = "queued" /\ at'[w] \notin {"return", "drop"}
      BY <2>2, <2>3, <1>t DEF Decision, Present, OutStatus
    <2> QED BY <1>9, <2>1, <2>2, <2>4, <1>t
  <1>11. ASSUME NEW w \in Lanes, BeginOutboundAttempt(w) PROVE Removed(j)'
    <2>1. held[w] \in Jobs /\ out[held[w]] = "queued" /\ UNCHANGED <<held, phase, status>>
      BY <1>11, HeldRow DEF BeginOutboundAttempt, DecisionInv, LaneDecision, queueVars
    <2> QED BY <1>9, <1>11, <2>1, <1>t DEF BeginOutboundAttempt, Goto, Present, Terminal
  <1>12. ASSUME NEW w \in Lanes, Send(w) PROVE Removed(j)'
    <2>1. held[w] \in Jobs /\ out[held[w]] = "sending" /\ UNCHANGED <<held, phase, status, out>>
      BY <1>12, HeldRow DEF Send, DecisionInv, LaneDecision, queueVars
    <2> QED BY <1>9, <1>12, <2>1, <1>t DEF Send, Goto
  <1>13. ASSUME NEW w \in Lanes,
                CompleteOutboundSend(w) \/ MarkOutboundStatus(w) \/ PurgeOutboundAndJob(w)
                  \/ DeleteQueueJob(w)
         PROVE Removed(j)'
    <2>1. /\ at[w] # "off" /\ held[w] \in Jobs /\ at' = [at EXCEPT ![w] = "return"]
          /\ UNCHANGED <<held, phase>> /\ status'[j] \in {status[j], "deleted"}
      BY <1>13, HeldRow, <1>t
         DEF CompleteOutboundSend, MarkOutboundStatus, PurgeOutboundAndJob, DeleteQueueJob,
             DeleteJob, Delete, Goto, queueVars, laneVars
    <2>2. held[w] # j => out'[j] = out[j]
      BY <1>13, <2>1, <1>t
         DEF CompleteOutboundSend, MarkOutboundStatus, PurgeOutboundAndJob, DeleteQueueJob,
             dataVars
    <2>3. held[w] = j => out'[j] \in {"none", "purged"}
      <3>1. CASE CompleteOutboundSend(w)
        BY <3>1, <2>1, <1>t DEF CompleteOutboundSend, DecisionInv, LaneDecision
      <3>2. CASE MarkOutboundStatus(w)
        BY <3>2 DEF MarkOutboundStatus, RowsFirst
      <3>3. CASE PurgeOutboundAndJob(w)
        BY <3>3, <1>t DEF PurgeOutboundAndJob, Present
      <3>4. CASE DeleteQueueJob(w)
        BY <3>4, <1>t DEF DeleteQueueJob, Removed, Present, dataVars
      <3> QED BY <1>13, <3>1, <3>2, <3>3, <3>4
    <2> QED BY <1>9, <2>1, <2>2, <2>3, <1>t
  <1>14. ASSUME NEW w \in Lanes PROVE ~StoreError(w) /\ ~LockLost(w)
    BY <1>t DEF StoreError, LockLost
  <1> QED BY <1>1, <1>2, <1>3, <1>4, <1>5, <1>6, <1>7, <1>8, <1>10, <1>11, <1>12, <1>13, <1>14
          DEF OutboxNext, SenderStep

(* Errors and lost claims are only ever counted up. *)
LEMMA FaultsCount ==
  ASSUME SenderInv, [OutboxNext]_vars
  PROVE  /\ errors' \in {errors, errors + 1}
         /\ \A j \in Jobs : lost'[j] \in {lost[j], lost[j] + 1}
  <1>1. errors' \in {errors, errors + 1}
    BY DEF OutboxNext, EnqueueOutbound, EnqueueJob, PurgeAccountData, SenderStep, Claim,
           Inspect, BeginOutboundAttempt, Send, CompleteOutboundSend, MarkOutboundStatus,
           PurgeOutboundAndJob, DeleteQueueJob, HandlerReturns, StoreError, LockLost,
           LaneCrash, QueueStep, controlVars, outboxVars, vars
  <1>2. lost' = lost \/ \E i : lost' = [lost EXCEPT ![i] = @ + 1]
    BY QueueStepOfOutbox
       DEF Next, LaneStep, Environment, Clock, Enqueue, Dequeue, Poll, Heartbeat, Return,
           Ack, Nack, Delete, BackoffElapses, LeaseExpires, Stall, HeartbeatFails, Crash,
           Fault, queueVars
  <1> QED BY <1>1, <1>2 DEF SenderInv, OutboxTypeOK, QueueTypeOK

(* As long as no store statement fails and no lock session is lost: once the *)
(* job of a deletion confirmation is done, the confirmation is gone, unless  *)
(* a claim of that very job was lost on the way.                             *)
THEOREM ConfirmationRemovedSafe == OutboxSpec => []ConfirmationRemoved
  <1>1. OutboxInit => RowsFirst /\ RemovedInv
    BY EphemeralType, NoJobIsNew
       DEF OutboxInit, QueueInit, RowsFirst, RemovedInv, Removed, Present, Terminal
  <1>2. SenderInv /\ LoneHolder /\ LockedInv /\ RowsFirst /\ RemovedInv /\ [OutboxNext]_vars
          => RemovedInv'
    <2> SUFFICES ASSUME SenderInv, LoneHolder, LockedInv, RowsFirst, RemovedInv,
                        [OutboxNext]_vars, errors' = 0, lockLosses' = 0,
                        NEW j \in Ephemeral, lost'[j] = 0
                 PROVE  Removed(j)'
      BY DEF RemovedInv
    <2>1. /\ errors = 0 /\ lockLosses = 0 /\ lost[j] = 0 /\ j \in Jobs
      BY FaultsCount, LockLossesCount, EphemeralType
         DEF SenderInv, OutboxTypeOK, QueueTypeOK
    <2> QED BY <2>1, RemovedStep DEF LoneHolder, LockedInv, RemovedInv
  <1>3. RemovedInv => ConfirmationRemoved
    BY DEF RemovedInv, Removed, ConfirmationRemoved
  <1>4. OutboxSpec => []LoneHolder
    BY OutboxUsesQueue, LoneHolderSafe, PTL
  <1> QED BY <1>1, <1>2, <1>3, <1>4, RowsFirstStep, LockedInvSafe, SenderInvSafe, PTL
          DEF OutboxSpec
=============================================================================
