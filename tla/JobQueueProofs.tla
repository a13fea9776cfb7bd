--------------------------- MODULE JobQueueProofs ---------------------------
(* Proofs about JobQueue for any number of rows and lanes, any max_attempts *)
(* and any number of faults.                                                *)
EXTENDS JobQueue, FiniteSetTheorems, TLAPS

(* Facts about claims that make LatestClaimKeepsJob inductive: the token of *)
(* a running row is its latest claim number, a busy lane holds a claim that *)
(* was really made, and no two lanes hold the same one.                     *)
ClaimInv ==
  /\ \A j \in Jobs : status[j] = "running" => token[j] = attempts[j]
  /\ \A w \in Lanes : phase[w] = "idle" <=> held[w] = NoJob
  /\ \A w \in Lanes : beating[w] => phase[w] = "handling"
  /\ \A w \in Lanes : \A j \in Jobs : held[w] = j => claim[w] \in 1..attempts[j]
  /\ \A v, w \in Lanes :
       held[v] # NoJob /\ held[v] = held[w] /\ claim[v] = claim[w] => v = w
  /\ LatestClaimKeepsJob

ClaimedInv == QueueTypeOK /\ ClaimInv

LEMMA RankType ==
  Cardinality({i \in Jobs : status[i] # "absent"}) \in Nat
  <1>1. IsFiniteSet({i \in Jobs : status[i] # "absent"})
    BY JobsFinite, FS_Subset
  <1> QED BY <1>1, FS_CardinalityType

(* Every variable of the queue keeps its type. *)
LEMMA TypeStep == QueueTypeOK /\ [Next]_queueVars => QueueTypeOK'
  <1> SUFFICES ASSUME QueueTypeOK, [Next]_queueVars PROVE QueueTypeOK'
    OBVIOUS
  <1> USE DEF QueueTypeOK, rowVars, laneVars, JobStatus, Phase
  <1>1. ASSUME NEW j \in Jobs, Enqueue(j) PROVE QueueTypeOK'
    BY <1>1, RankType DEF Enqueue
  <1>2. ASSUME NEW w \in Lanes, NEW j \in Jobs, Dequeue(w, j) PROVE QueueTypeOK'
    BY <1>2 DEF Dequeue
  <1>3. ASSUME NEW w \in Lanes, Heartbeat(w) PROVE QueueTypeOK'
    BY <1>3 DEF Heartbeat
  <1>4. ASSUME NEW w \in Lanes, NEW next \in {"ack", "nack"}, Return(w, next)
        PROVE QueueTypeOK'
    BY <1>4 DEF Return
  <1>5. ASSUME NEW w \in Lanes, Ack(w) PROVE QueueTypeOK'
    BY <1>5 DEF Ack, Idle
  <1>6. ASSUME NEW w \in Lanes, Nack(w) PROVE QueueTypeOK'
    <2>1. CASE Owns(w, held[w])
      <3> DEFINE rest == IF attempts[held[w]] >= MaxAttempts THEN "dead" ELSE "queued"
      <3>1. rest \in JobStatus
        OBVIOUS
      <3>2. status' = [status EXCEPT ![held[w]] = rest]
        BY <1>6, <2>1 DEF Nack
      <3>3. status' \in [Jobs -> JobStatus]
        BY <3>1, <3>2
      <3>4. /\ token' = [token EXCEPT ![held[w]] = 0]
            /\ due' = [due EXCEPT ![held[w]] = FALSE]
            /\ Idle(w)
            /\ UNCHANGED <<attempts, created, lost>>
        BY <1>6, <2>1 DEF Nack
      <3> HIDE DEF rest
      <3> QED BY <3>3, <3>4 DEF Idle
    <2>2. CASE ~Owns(w, held[w])
      BY <1>6, <2>2 DEF Nack, Idle
    <2> QED BY <2>1, <2>2
  <1>7. ASSUME NEW j \in Jobs, BackoffElapses(j) \/ LeaseExpires(j)
        PROVE QueueTypeOK'
    BY <1>7 DEF BackoffElapses, LeaseExpires
  <1>10. ASSUME NEW S \in SUBSET Jobs, Delete(S) PROVE QueueTypeOK'
    BY <1>10 DEF Delete, Stored
  <1>8. ASSUME NEW w \in Lanes, Stall(w) \/ HeartbeatFails(w) \/ Crash(w)
        PROVE QueueTypeOK'
    <2>0. lost' \in [Jobs -> Nat]
      <3>1. lost' = [lost EXCEPT ![held[w]] = @ + 1]
        BY <1>8 DEF Stall, HeartbeatFails, Crash, Fault
      <3>2. CASE held[w] \in Jobs
        BY <3>1, <3>2
      <3>3. CASE held[w] \notin Jobs
        BY <3>1, <3>3
      <3> QED BY <3>2, <3>3
    <2>1. CASE Stall(w)
      BY <2>0, <2>1 DEF Stall
    <2>2. CASE HeartbeatFails(w)
      BY <2>0, <2>2 DEF HeartbeatFails
    <2>3. CASE Crash(w)
      BY <2>0, <2>3 DEF Crash, Idle
    <2> QED BY <1>8, <2>1, <2>2, <2>3
  <1>9. CASE UNCHANGED queueVars
    BY <1>9 DEF queueVars
  <1> QED
    BY <1>1, <1>2, <1>3, <1>4, <1>5, <1>6, <1>7, <1>8, <1>9, <1>10
       DEF Next, LaneStep, Environment, Clock, Poll

(* The queue's variables keep their types in every behaviour. *)
THEOREM QueueTypeSafe == Spec => []QueueTypeOK
  <1>1. QueueInit => QueueTypeOK
    BY DEF QueueInit, QueueTypeOK, JobStatus, Phase
  <1> QED BY <1>1, TypeStep, PTL DEF Spec

-----------------------------------------------------------------------------
LEMMA ClaimInit == QueueInit => ClaimInv
  BY NoJobIsNew DEF QueueInit, ClaimInv, LatestClaimKeepsJob

(* No step hands out a claim twice or settles a row over its latest claim. *)
LEMMA ClaimStep == QueueTypeOK /\ ClaimInv /\ [Next]_queueVars => ClaimInv'
  <1> SUFFICES ASSUME QueueTypeOK, ClaimInv, [Next]_queueVars PROVE ClaimInv'
    OBVIOUS
  <1> USE NoJobIsNew DEF QueueTypeOK, ClaimInv, LatestClaimKeepsJob,
                         rowVars, laneVars, JobStatus, Phase
  <1>1. ASSUME NEW j \in Jobs, Enqueue(j) PROVE ClaimInv'
    BY <1>1 DEF Enqueue
  <1>2. ASSUME NEW w \in Lanes, NEW j \in Jobs, Dequeue(w, j) PROVE ClaimInv'
    BY <1>2 DEF Dequeue, Ready
  <1>3. ASSUME NEW w \in Lanes, Heartbeat(w) PROVE ClaimInv'
    BY <1>3 DEF Heartbeat
  <1>4. ASSUME NEW w \in Lanes, NEW next \in {"ack", "nack"}, Return(w, next)
        PROVE ClaimInv'
    BY <1>4 DEF Return
  <1>5. ASSUME NEW w \in Lanes, Ack(w) PROVE ClaimInv'
    BY <1>5 DEF Ack, Idle, Owns
  <1>6. ASSUME NEW w \in Lanes, Nack(w) PROVE ClaimInv'
    BY <1>6 DEF Nack, Idle, Owns
  <1>7. ASSUME NEW j \in Jobs, BackoffElapses(j) \/ LeaseExpires(j)
        PROVE ClaimInv'
    BY <1>7 DEF BackoffElapses, LeaseExpires
  <1>10. ASSUME NEW S \in SUBSET Jobs, Delete(S) PROVE ClaimInv'
    BY <1>10 DEF Delete, Stored
  <1>8. ASSUME NEW w \in Lanes, Stall(w) \/ HeartbeatFails(w) \/ Crash(w)
        PROVE ClaimInv'
    <2>1. CASE Stall(w)
      BY <2>1 DEF Stall
    <2>2. CASE HeartbeatFails(w)
      BY <2>2 DEF HeartbeatFails
    <2>3. CASE Crash(w)
      BY <2>3 DEF Crash, Idle
    <2> QED BY <1>8, <2>1, <2>2, <2>3
  <1>9. CASE UNCHANGED queueVars
    BY <1>9 DEF queueVars
  <1> QED
    BY <1>1, <1>2, <1>3, <1>4, <1>5, <1>6, <1>7, <1>8, <1>9, <1>10
       DEF Next, LaneStep, Environment, Clock, Poll

LEMMA ClaimSafe == Spec => []ClaimedInv
  <1>1. QueueInit => ClaimedInv
    BY ClaimInit DEF QueueInit, QueueTypeOK, JobStatus, Phase, ClaimedInv
  <1>2. ClaimedInv /\ [Next]_queueVars => ClaimedInv'
    BY TypeStep, ClaimStep DEF ClaimedInv
  <1> QED BY <1>1, <1>2, PTL DEF Spec

(* For every number of lanes and faults: the lane with the latest claim of a *)
(* row never finds the row settled or put back by a claimant that came late. *)
THEOREM LatestClaimSafe == Spec => []LatestClaimKeepsJob
  <1>1. ClaimedInv => LatestClaimKeepsJob
    BY DEF ClaimedInv, ClaimInv
  <1> QED BY <1>1, ClaimSafe, PTL

-----------------------------------------------------------------------------
(* A done or dead row stays so until it is deleted, in every behaviour. *)
THEOREM SettledRowsStay == Spec => SettledForGood
  <1> DEFINE Kept == \A j \in Jobs : status[j] \in {"done", "dead"}
                       => status'[j] \in {status[j], "deleted"}
  <1>1. QueueTypeOK /\ [Next]_queueVars => [Kept]_queueVars
    <2> SUFFICES ASSUME QueueTypeOK, Next PROVE Kept
      OBVIOUS
    <2> USE DEF QueueTypeOK, rowVars
    <2>1. ASSUME NEW w \in Lanes, LaneStep(w) \/ Heartbeat(w) PROVE Kept
      <3>1. CASE Ack(w)
        BY <3>1 DEF Ack, Owns
      <3>2. CASE Nack(w)
        BY <3>2 DEF Nack, Owns
      <3>3. CASE \E j \in Jobs : Dequeue(w, j)
        BY <3>3 DEF Dequeue, Ready
      <3>4. CASE Poll(w) \/ Heartbeat(w) \/ \E next \in {"ack", "nack"} : Return(w, next)
        BY <3>4 DEF Poll, Heartbeat, Return, queueVars
      <3> QED BY <2>1, <3>1, <3>2, <3>3, <3>4 DEF LaneStep
    <2>2. ASSUME NEW j \in Jobs, Enqueue(j) PROVE Kept
      BY <2>2 DEF Enqueue
    <2>3. ASSUME NEW S \in SUBSET Jobs, Delete(S) PROVE Kept
      BY <2>3 DEF Delete
    <2>4. CASE Clock \/ \E w \in Lanes : Stall(w) \/ HeartbeatFails(w) \/ Crash(w)
      BY <2>4 DEF Clock, BackoffElapses, LeaseExpires, Stall, HeartbeatFails, Crash
    <2> QED BY <2>1, <2>2, <2>3, <2>4 DEF Next, Environment
  <1>2. Spec => [][Kept]_queueVars
    BY <1>1, QueueTypeSafe, PTL DEF Spec
  <1> QED BY <1>2 DEF SettledForGood

-----------------------------------------------------------------------------
(* What ReceivesAccounted needs to be inductive: a row that may be received *)
(* once more (queued, expired, or running with nobody renewing the lease)   *)
(* has a receive left, one having been added by each lost claim.            *)
MayBeReceived(j) ==
  \/ status[j] = "queued"
  \/ status[j] = "running" /\ due[j]
  \/ status[j] = "running" /\ \A w \in Lanes : Owns(w, j) => ~Live(w)

ReceiveInv ==
  /\ ReceivesAccounted
  /\ \A j \in Jobs : status[j] = "absent" => attempts[j] = 0
  /\ \A j \in Jobs : MayBeReceived(j) => attempts[j] < MaxAttempts + lost[j]

(* Each action pays for the receive it makes possible. *)
LEMMA ReceiveStep ==
  QueueTypeOK /\ ClaimInv /\ ReceiveInv /\ [Next]_queueVars => ReceiveInv'
  <1> SUFFICES ASSUME QueueTypeOK, ClaimInv, ReceiveInv, [Next]_queueVars
               PROVE ReceiveInv'
    OBVIOUS
  <1> USE NoJobIsNew, MaxAttemptsPositive
          DEF QueueTypeOK, ClaimInv, ReceiveInv, ReceivesAccounted, MayBeReceived,
              Owns, Live, rowVars, laneVars, JobStatus, Phase
  <1>1. ASSUME NEW j \in Jobs, Enqueue(j) PROVE ReceiveInv'
    <2>1. /\ UNCHANGED <<attempts, lost, token, held, claim, phase, beating>>
          /\ \A i \in Jobs \ {j} : status'[i] = status[i] /\ due'[i] = due[i]
          /\ status[j] = "absent" /\ status'[j] = "queued"
      BY <1>1 DEF Enqueue
    <2>2. \A i \in Jobs \ {j} : MayBeReceived(i)' => MayBeReceived(i)
      BY <2>1
    <2>3. attempts[j] = 0 /\ lost[j] \in Nat
      BY <2>1
    <2> QED BY <2>1, <2>2, <2>3
  <1>2. ASSUME NEW w \in Lanes, NEW j \in Jobs, Dequeue(w, j) PROVE ReceiveInv'
    BY <1>2 DEF Dequeue, Ready
  <1>3. ASSUME NEW w \in Lanes, Heartbeat(w) PROVE ReceiveInv'
    BY <1>3 DEF Heartbeat
  <1>4. ASSUME NEW w \in Lanes, NEW next \in {"ack", "nack"}, Return(w, next)
        PROVE ReceiveInv'
    BY <1>4 DEF Return
  <1>5. ASSUME NEW w \in Lanes, Ack(w) PROVE ReceiveInv'
    BY <1>5 DEF Ack, Idle
  <1>6. ASSUME NEW w \in Lanes, Nack(w) PROVE ReceiveInv'
    BY <1>6 DEF Nack, Idle
  <1>7. ASSUME NEW j \in Jobs, BackoffElapses(j) \/ LeaseExpires(j)
        PROVE ReceiveInv'
    BY <1>7 DEF BackoffElapses, LeaseExpires
  <1>10. ASSUME NEW S \in SUBSET Jobs, Delete(S) PROVE ReceiveInv'
    BY <1>10 DEF Delete, Stored
  <1>8. ASSUME NEW w \in Lanes, Stall(w) \/ HeartbeatFails(w) \/ Crash(w)
        PROVE ReceiveInv'
    BY <1>8 DEF Stall, HeartbeatFails, Crash, Fault, Idle
  <1>9. CASE UNCHANGED queueVars
    BY <1>9 DEF queueVars
  <1> QED
    BY <1>1, <1>2, <1>3, <1>4, <1>5, <1>6, <1>7, <1>8, <1>9, <1>10
       DEF Next, LaneStep, Environment, Clock, Poll

(* A row is received at most max_attempts times plus once per lost claim. *)
THEOREM ReceivesSafe == Spec => []ReceivesAccounted
  <1>1. QueueInit => ReceiveInv
    BY MaxAttemptsPositive
       DEF QueueInit, ReceiveInv, ReceivesAccounted, MayBeReceived
  <1>2. ClaimedInv /\ ReceiveInv /\ [Next]_queueVars => ReceiveInv'
    BY ReceiveStep DEF ClaimedInv
  <1>3. ReceiveInv => ReceivesAccounted
    BY DEF ReceiveInv
  <1> QED BY <1>1, <1>2, <1>3, ClaimSafe, PTL DEF Spec

-----------------------------------------------------------------------------
(* Row j before a fault takes one of its claims away: one lane at most holds *)
(* it, owns it, renews the lease or is about to settle it, and is not late.  *)
Undisturbed(j) ==
  /\ \A w \in Lanes :
       held[w] = j /\ status[j] # "deleted" => Owns(w, j) /\ Live(w) /\ ~due[j]
  /\ \A v, w \in Lanes : held[v] = j /\ held[w] = j => v = w

(* Stalls and lost heartbeats alone end it; a crash leaves no second lane.   *)
LEMMA UndisturbedStep ==
  ASSUME ClaimedInv, NEW j \in Jobs, Undisturbed(j), [Next]_queueVars,
         ~ \E w \in Lanes : held[w] = j /\ (Stall(w) \/ HeartbeatFails(w))
  PROVE  Undisturbed(j)'
  <1> USE NoJobIsNew DEF ClaimedInv, QueueTypeOK, ClaimInv, Undisturbed, Owns, Live,
                         rowVars, laneVars
  <1>1. ASSUME NEW i \in Jobs, Enqueue(i) PROVE Undisturbed(j)'
    BY <1>1 DEF Enqueue
  <1>2. ASSUME NEW w \in Lanes, NEW i \in Jobs, Dequeue(w, i) PROVE Undisturbed(j)'
    BY <1>2 DEF Dequeue, Ready
  <1>3. ASSUME NEW w \in Lanes, Heartbeat(w) PROVE Undisturbed(j)'
    BY <1>3 DEF Heartbeat
  <1>4. ASSUME NEW w \in Lanes, NEW next \in {"ack", "nack"}, Return(w, next)
        PROVE Undisturbed(j)'
    BY <1>4 DEF Return
  <1>5. ASSUME NEW w \in Lanes, Ack(w) \/ Nack(w) PROVE Undisturbed(j)'
    BY <1>5 DEF Ack, Nack, Idle
  <1>6. ASSUME NEW i \in Jobs, BackoffElapses(i) \/ LeaseExpires(i)
        PROVE Undisturbed(j)'
    BY <1>6 DEF BackoffElapses, LeaseExpires
  <1>7. ASSUME NEW S \in SUBSET Jobs, Delete(S) PROVE Undisturbed(j)'
    BY <1>7 DEF Delete, Stored
  <1>8. ASSUME NEW w \in Lanes, Stall(w) \/ HeartbeatFails(w), held[w] # j
        PROVE Undisturbed(j)'
    BY <1>8 DEF Stall, HeartbeatFails
  <1>9. ASSUME NEW w \in Lanes, Crash(w) PROVE Undisturbed(j)'
    BY <1>9 DEF Crash, Idle
  <1>10. CASE UNCHANGED queueVars
    BY <1>10 DEF queueVars
  <1> QED
    BY <1>1, <1>2, <1>3, <1>4, <1>5, <1>6, <1>7, <1>8, <1>9, <1>10
       DEF Next, LaneStep, Environment, Clock, Poll

(* Until the first fault of a row, whoever holds it is its only holder. *)
LoneHolder == \A j \in Jobs : lost[j] = 0 => Undisturbed(j)

LEMMA LoneHolderStep == ClaimedInv /\ LoneHolder /\ [Next]_queueVars => LoneHolder'
  <1> SUFFICES ASSUME ClaimedInv, LoneHolder, [Next]_queueVars,
                      NEW j \in Jobs, lost'[j] = 0
               PROVE  Undisturbed(j)'
    BY DEF LoneHolder
  <1>0. lost \in [Jobs -> Nat]
    BY DEF ClaimedInv, QueueTypeOK
  <1>1. lost[j] = 0
    <2>1. lost' = lost \/ \E i : lost' = [lost EXCEPT ![i] = @ + 1]
      BY DEF Next, LaneStep, Environment, Clock, Enqueue, Dequeue, Poll, Heartbeat, Return,
             Ack, Nack, Delete, BackoffElapses, LeaseExpires, Stall, HeartbeatFails, Crash,
             Fault, queueVars
    <2> QED BY <1>0, <2>1
  <1>2. ASSUME NEW w \in Lanes, held[w] = j, Stall(w) \/ HeartbeatFails(w) PROVE FALSE
    <2>1. lost' = [lost EXCEPT ![j] = @ + 1]
      BY <1>2 DEF Stall, HeartbeatFails, Fault
    <2> QED BY <1>0, <1>1, <2>1
  <1> QED BY <1>1, <1>2, UndisturbedStep DEF LoneHolder

LEMMA LoneHolderSafe == Spec => []LoneHolder
  <1>1. QueueInit => LoneHolder
    BY NoJobIsNew DEF QueueInit, LoneHolder, Undisturbed
  <1> QED BY <1>1, LoneHolderStep, ClaimSafe, PTL DEF Spec

-----------------------------------------------------------------------------
(* Counting. *)
LEMMA CardinalityGrows ==
  ASSUME NEW T, IsFiniteSet(T), NEW x, NEW S, S \subseteq T \cup {x}
  PROVE  /\ IsFiniteSet(S) /\ Cardinality(S) \in Nat /\ Cardinality(T) \in Nat
         /\ Cardinality(S) <= Cardinality(T) + 1
  <1>1. Cardinality(T) \in Nat
    BY FS_CardinalityType
  <1>2. /\ IsFiniteSet(T \cup {x})
        /\ \/ Cardinality(T \cup {x}) = Cardinality(T)
           \/ Cardinality(T \cup {x}) = Cardinality(T) + 1
    BY FS_AddElement, Zenon
  <1>3. /\ IsFiniteSet(S) /\ Cardinality(S) <= Cardinality(T \cup {x})
    BY <1>2, FS_Subset
  <1>4. Cardinality(S) \in Nat
    BY <1>3, FS_CardinalityType
  <1> QED BY <1>1, <1>2, <1>3, <1>4

LEMMA CardinalityShrinks ==
  ASSUME NEW T, IsFiniteSet(T), NEW S, S \subseteq T
  PROVE  /\ IsFiniteSet(S) /\ Cardinality(S) \in Nat /\ Cardinality(T) \in Nat
         /\ Cardinality(S) <= Cardinality(T)
  BY FS_Subset, FS_CardinalityType

(* The lanes that work on row j, and those of them that have lost it to a    *)
(* fault: what ExclusiveHandling needs to be inductive is that a fault is    *)
(* counted for each of the latter.  A deleted row is not handed out again.   *)
Handling(j) == {w \in Lanes : held[w] = j /\ phase[w] = "handling"}
Stale(j) == {w \in Handling(j) : ~(Owns(w, j) /\ beating[w] /\ ~due[j])}

OverlapInv ==
  \A j \in Jobs :
    /\ IsFiniteSet(Handling(j))
    /\ Cardinality(Handling(j)) <= 1 + lost[j]
    /\ status[j] # "deleted" => Cardinality(Stale(j)) <= lost[j]

(* A lane joins a row only by Dequeue, and becomes stale only by a fault.    *)
HandlingKept(j) ==
  /\ \/ Handling(j)' \subseteq Handling(j)
     \/ status'[j] # "deleted" /\ \E w \in Lanes : Handling(j)' \subseteq Handling(j) \cup {w}
  /\ status'[j] # "deleted" =>
       /\ status[j] # "deleted"
       /\ \/ Stale(j)' \subseteq Stale(j) /\ lost'[j] = lost[j]
          \/ /\ lost'[j] = lost[j] + 1
             /\ \E w \in Lanes : Stale(j)' \subseteq Stale(j) \cup {w}
  /\ lost'[j] \in {lost[j], lost[j] + 1}

LEMMA HandlingStep ==
  ASSUME ClaimedInv, [Next]_queueVars, NEW j \in Jobs
  PROVE  HandlingKept(j)
  <1> USE NoJobIsNew DEF ClaimedInv, QueueTypeOK, ClaimInv, HandlingKept, Handling, Stale,
                         Owns, Live, rowVars, laneVars
  <1>1. ASSUME NEW i \in Jobs, Enqueue(i) PROVE HandlingKept(j)
    BY <1>1 DEF Enqueue
  <1>2. ASSUME NEW w \in Lanes, NEW i \in Jobs, Dequeue(w, i) PROVE HandlingKept(j)
    BY <1>2 DEF Dequeue, Ready
  <1>3. ASSUME NEW w \in Lanes, Heartbeat(w) PROVE HandlingKept(j)
    BY <1>3 DEF Heartbeat
  <1>4. ASSUME NEW w \in Lanes, NEW next \in {"ack", "nack"}, Return(w, next)
        PROVE HandlingKept(j)
    BY <1>4 DEF Return
  <1>5. ASSUME NEW w \in Lanes, Ack(w) \/ Nack(w) PROVE HandlingKept(j)
    BY <1>5 DEF Ack, Nack, Idle
  <1>6. ASSUME NEW i \in Jobs, BackoffElapses(i) \/ LeaseExpires(i)
        PROVE HandlingKept(j)
    BY <1>6 DEF BackoffElapses, LeaseExpires
  <1>7. ASSUME NEW S \in SUBSET Jobs, Delete(S) PROVE HandlingKept(j)
    BY <1>7 DEF Delete, Stored
  <1>8. ASSUME NEW w \in Lanes, Stall(w) \/ HeartbeatFails(w) \/ Crash(w)
        PROVE HandlingKept(j)
    <2>1. CASE Stall(w)
      BY <2>1 DEF Stall, Fault
    <2>2. CASE HeartbeatFails(w)
      BY <2>2 DEF HeartbeatFails, Fault
    <2>3. CASE Crash(w)
      BY <2>3 DEF Crash, Idle, Fault
    <2> QED BY <1>8, <2>1, <2>2, <2>3
  <1>9. CASE UNCHANGED queueVars
    BY <1>9 DEF queueVars
  <1> QED
    BY <1>1, <1>2, <1>3, <1>4, <1>5, <1>6, <1>7, <1>8, <1>9
       DEF Next, LaneStep, Environment, Clock, Poll

LEMMA OverlapStep == ClaimedInv /\ OverlapInv /\ [Next]_queueVars => OverlapInv'
  <1> SUFFICES ASSUME ClaimedInv, OverlapInv, [Next]_queueVars, NEW j \in Jobs
               PROVE  /\ IsFiniteSet(Handling(j)')
                      /\ Cardinality(Handling(j)') <= 1 + lost'[j]
                      /\ status'[j] # "deleted" => Cardinality(Stale(j)') <= lost'[j]
    BY DEF OverlapInv
  <1>0. lost[j] \in Nat /\ HandlingKept(j) /\ ClaimedInv'
    BY HandlingStep, TypeStep, ClaimStep DEF ClaimedInv, QueueTypeOK
  <1>1. /\ IsFiniteSet(Handling(j)) /\ Cardinality(Handling(j)) <= 1 + lost[j]
        /\ status[j] # "deleted" => Cardinality(Stale(j)) <= lost[j]
    BY DEF OverlapInv
  <1>2. IsFiniteSet(Stale(j))
    BY <1>1, CardinalityShrinks DEF Stale
  <1>3. CASE Handling(j)' \subseteq Handling(j) /\ status'[j] = "deleted"
    <2>1. /\ IsFiniteSet(Handling(j)') /\ Cardinality(Handling(j)') \in Nat
          /\ Cardinality(Handling(j)) \in Nat
          /\ Cardinality(Handling(j)') <= Cardinality(Handling(j))
      BY <1>1, <1>3, CardinalityShrinks
    <2> QED BY <1>0, <1>1, <1>3, <2>1 DEF HandlingKept
  <1>4. CASE status'[j] # "deleted"
    <2>1. IsFiniteSet(Stale(j)') /\ Cardinality(Stale(j)') \in Nat
          /\ Cardinality(Stale(j)') <= lost'[j]
      <3>1. CASE Stale(j)' \subseteq Stale(j) /\ lost'[j] = lost[j]
        <4>1. /\ IsFiniteSet(Stale(j)') /\ Cardinality(Stale(j)') \in Nat
              /\ Cardinality(Stale(j)) \in Nat
              /\ Cardinality(Stale(j)') <= Cardinality(Stale(j))
          BY <3>1, <1>2, CardinalityShrinks
        <4> QED BY <4>1, <3>1, <1>0, <1>1, <1>4 DEF HandlingKept
      <3>2. ASSUME NEW w \in Lanes, Stale(j)' \subseteq Stale(j) \cup {w},
                   lost'[j] = lost[j] + 1
            PROVE  IsFiniteSet(Stale(j)') /\ Cardinality(Stale(j)') \in Nat
                   /\ Cardinality(Stale(j)') <= lost'[j]
        <4>1. /\ IsFiniteSet(Stale(j)') /\ Cardinality(Stale(j)') \in Nat
              /\ Cardinality(Stale(j)) \in Nat
              /\ Cardinality(Stale(j)') <= Cardinality(Stale(j)) + 1
          BY <3>2, <1>2, CardinalityGrows
        <4> QED BY <4>1, <3>2, <1>0, <1>1, <1>4 DEF HandlingKept
      <3> QED BY <3>1, <3>2, <1>0, <1>4 DEF HandlingKept
    <2>2. \E x : Handling(j)' \subseteq Stale(j)' \cup {x}
      <3>0. \A v, w \in Lanes :
              held'[v] # NoJob /\ held'[v] = held'[w] /\ claim'[v] = claim'[w] => v = w
        BY <1>0 DEF ClaimedInv, ClaimInv
      <3>1. \A v, w \in Lanes : Owns(v, j)' /\ Owns(w, j)' => v = w
        BY <3>0, NoJobIsNew DEF Owns
      <3>2. CASE Handling(j)' \subseteq Stale(j)'
        BY <3>2
      <3>3. ASSUME NEW x \in Handling(j)', x \notin Stale(j)'
            PROVE  Handling(j)' \subseteq Stale(j)' \cup {x}
        BY <3>1, <3>3 DEF Handling, Stale
      <3> QED BY <3>2, <3>3
    <2>3. /\ IsFiniteSet(Handling(j)') /\ Cardinality(Handling(j)') \in Nat
          /\ Cardinality(Handling(j)') <= Cardinality(Stale(j)') + 1
      BY <2>1, <2>2, CardinalityGrows
    <2>4. lost'[j] \in Nat
      BY <1>0 DEF HandlingKept
    <2> QED BY <2>1, <2>3, <2>4
  <1> QED BY <1>0, <1>3, <1>4 DEF HandlingKept

(* For every number of lanes and rows: a second lane works on a row only     *)
(* after a fault of an earlier claim, one more lane per fault.               *)
THEOREM ExclusiveHandlingSafe == Spec => []ExclusiveHandling
  <1>1. QueueInit => OverlapInv
    <2> SUFFICES ASSUME QueueInit, NEW j \in Jobs
                 PROVE  /\ Handling(j) = {} /\ Stale(j) = {} /\ lost[j] = 0
      BY FS_EmptySet DEF OverlapInv
    <2> QED BY NoJobIsNew DEF QueueInit, Handling, Stale
  <1>2. OverlapInv => ExclusiveHandling
    BY DEF OverlapInv, ExclusiveHandling, Handling
  <1> QED BY <1>1, <1>2, OverlapStep, ClaimSafe, PTL DEF Spec

-----------------------------------------------------------------------------
(* Refinement.  The mapping as state functions of their own. *)
Stages == [j \in Jobs |-> StageOf(j)]
Holders == [j \in Jobs |-> HolderOf(j)]

(* The stage is a function of the status alone. *)
LEMMA StageValues ==
  ASSUME QueueTypeOK, NEW j \in Jobs
  PROVE  /\ status[j] = "absent" => Stages[j] = "absent"
         /\ status[j] = "queued" => Stages[j] = "waiting"
         /\ status[j] = "running" => Stages[j] = "leased"
         /\ status[j] \in {"done", "dead"} => Stages[j] = "closed"
         /\ status[j] = "deleted" => Stages[j] = "cancelled"
  BY DEF Stages, StageOf

(* The holder the mapping chooses is the only owner there is. *)
LEMMA HolderIsOwner ==
  ASSUME QueueTypeOK, ClaimInv, NEW j \in Jobs
  PROVE  /\ Holders[j] \in Lanes \cup {NoJob}
         /\ \A w \in Lanes : Holders[j] = w <=> Owns(w, j)
  BY NoJobIsNew DEF Holders, HolderOf, Owns, ClaimInv

(* The two lemmas in the form LeaseStep cites, for a state and the next. *)
MappingFacts ==
  \A j \in Jobs :
    /\ status[j] = "absent" => Stages[j] = "absent"
    /\ status[j] = "queued" => Stages[j] = "waiting"
    /\ status[j] = "running" => Stages[j] = "leased"
    /\ status[j] \in {"done", "dead"} => Stages[j] = "closed"
    /\ status[j] = "deleted" => Stages[j] = "cancelled"
    /\ Holders[j] \in Lanes \cup {NoJob}
    /\ \A w \in Lanes :
         Holders[j] = w <=> held[w] = j /\ status[j] = "running" /\ token[j] = claim[w]

LEMMA Mapping == ClaimedInv => MappingFacts
  BY StageValues, HolderIsOwner DEF ClaimedInv, MappingFacts, Owns

LEMMA MappingPrimed == ClaimedInv' => MappingFacts'
  BY Mapping, PTL

(* Every step of the queue is a step of the contract, or leaves it alone. *)
LEMMA LeaseStep ==
  ClaimedInv /\ ClaimedInv' /\ [Next]_queueVars
    => [Contract!Next]_(Contract!contractVars)
  <1> SUFFICES ASSUME ClaimedInv, ClaimedInv', [Next]_queueVars
               PROVE Contract!Next \/ UNCHANGED Contract!contractVars
    OBVIOUS
  <1> DEFINE Same(i) == Stages'[i] = Stages[i] /\ Holders'[i] = Holders[i]
  <1>d. /\ Stages = [i \in Jobs |-> Stages[i]] /\ Stages' = [i \in Jobs |-> Stages'[i]]
        /\ Holders = [i \in Jobs |-> Holders[i]] /\ Holders' = [i \in Jobs |-> Holders'[i]]
    BY DEF Stages, Holders
  <1>m. MappingFacts /\ MappingFacts'
    BY Mapping, MappingPrimed
  <1>a. (\A i \in Jobs : Same(i)) => Stages' = Stages /\ Holders' = Holders
    BY <1>d
  <1>b. ASSUME NEW i \in Jobs, status'[i] = status[i],
               \A w \in Lanes :
                 (held'[w] = i /\ status'[i] = "running" /\ token'[i] = claim'[w])
                 <=> (held[w] = i /\ status[i] = "running" /\ token[i] = claim[w])
        PROVE Same(i)
    <2>1. status[i] \in JobStatus
      BY DEF ClaimedInv, QueueTypeOK
    <2>2. Stages'[i] = Stages[i]
      BY <1>b, <1>m, <2>1 DEF MappingFacts, JobStatus
    <2>3. \A w \in Lanes : Holders'[i] = w <=> Holders[i] = w
      BY <1>b, <1>m DEF MappingFacts
    <2>4. Holders[i] \in Lanes \cup {NoJob} /\ Holders'[i] \in Lanes \cup {NoJob}
      BY <1>m DEF MappingFacts
    <2>5. Holders'[i] = Holders[i]
      BY <2>3, <2>4
    <2> QED BY <2>2, <2>5
  <1>c. ASSUME NEW i \in Jobs, status'[i] # "running" PROVE Holders'[i] = NoJob
    BY <1>c, <1>m DEF MappingFacts
  <1>e. ASSUME NEW i \in Jobs, status[i] # "running" PROVE Holders[i] = NoJob
    BY <1>e, <1>m DEF MappingFacts
  <1>u. ASSUME Stages' = Stages, Holders' = Holders
        PROVE UNCHANGED Contract!contractVars
    BY <1>u DEF Contract!contractVars, Stages, Holders
  <1>f. ASSUME NEW j \in Jobs, \A i \in Jobs \ {j} : Same(i)
        PROVE /\ Stages' = [Stages EXCEPT ![j] = Stages'[j]]
              /\ Holders' = [Holders EXCEPT ![j] = Holders'[j]]
    BY <1>f, <1>d
  <1> USE NoJobIsNew DEF ClaimedInv, QueueTypeOK, ClaimInv, rowVars, laneVars
  <1>1. ASSUME NEW j \in Jobs, Enqueue(j) PROVE Contract!Submit(j)
    <2>1. Stages[j] = "absent" /\ Stages'[j] = "waiting"
      BY <1>1, <1>m DEF Enqueue, MappingFacts
    <2>2. Holders'[j] = Holders[j]
      BY <1>1, <1>c, <1>e DEF Enqueue
    <2>3. \A i \in Jobs \ {j} : Same(i)
      BY <1>1, <1>b DEF Enqueue
    <2>4. /\ Stages[j] = "absent" /\ Stages' = [Stages EXCEPT ![j] = "waiting"]
          /\ Holders' = Holders
      BY <2>1, <2>2, <2>3, <1>f, <1>d
    <2> QED BY <2>4 DEF Contract!Submit, Stages, Holders
  <1>2. ASSUME NEW w \in Lanes, NEW j \in Jobs, Dequeue(w, j) PROVE Contract!Lease(j, w)
    <2>1. Stages[j] \in {"waiting", "leased"} /\ Stages'[j] = "leased"
      BY <1>2, <1>m DEF Dequeue, Ready, MappingFacts
    <2>2. Holders'[j] = w
      BY <1>2, <1>m DEF Dequeue, MappingFacts
    <2>3. \A i \in Jobs \ {j} : Same(i)
      BY <1>2, <1>b DEF Dequeue
    <2>4. \A i \in Jobs : Holders[i] # w
      BY <1>2, <1>m DEF Dequeue, MappingFacts
    <2>5. /\ Stages' = [Stages EXCEPT ![j] = "leased"]
          /\ Holders' = [Holders EXCEPT ![j] = w]
      BY <2>1, <2>2, <2>3, <1>f
    <2> QED BY <2>1, <2>4, <2>5 DEF Contract!Lease, Stages, Holders
  <1>3. ASSUME NEW w \in Lanes, Ack(w) \/ Nack(w), Owns(w, held[w])
        PROVE \E j \in Jobs : Contract!Close(j, w) \/ Contract!PutBack(j, w)
    <2>0. PICK j \in Jobs : j = held[w]
      BY <1>3 DEF Ack, Nack
    <2>1. Stages[j] = "leased" /\ Holders[j] = w
      BY <1>3, <2>0, <1>m DEF Owns, MappingFacts
    <2>2. status'[j] \in {"done", "dead", "queued"}
      BY <1>3, <2>0 DEF Ack, Nack
    <2>3. Stages'[j] \in {"waiting", "closed"} /\ Holders'[j] = NoJob
      BY <2>2, <1>c, <1>m DEF MappingFacts
    <2>4. \A i \in Jobs \ {j} : Same(i)
      BY <1>3, <2>0, <1>b DEF Ack, Nack, Idle
    <2>5. /\ Stages' = [Stages EXCEPT ![j] = Stages'[j]]
          /\ Holders' = [Holders EXCEPT ![j] = NoJob]
      BY <2>3, <2>4, <1>f
    <2>6. \/ Stages' = [Stages EXCEPT ![j] = "waiting"]
          \/ Stages' = [Stages EXCEPT ![j] = "closed"]
      BY <2>3, <2>5
    <2> QED BY <2>1, <2>5, <2>6 DEF Contract!Close, Contract!PutBack, Stages, Holders
  <1>4. ASSUME NEW w \in Lanes, Ack(w) \/ Nack(w) \/ Crash(w), ~Owns(w, held[w])
        PROVE UNCHANGED Contract!contractVars
    <2>1. \A i \in Jobs : Same(i)
      BY <1>4, <1>b DEF Ack, Nack, Crash, Idle, Owns
    <2> QED BY <2>1, <1>a, <1>u
  <1>5. ASSUME NEW w \in Lanes, Crash(w), Owns(w, held[w])
        PROVE \E j \in Jobs : Contract!Abandon(j)
    <2>0. PICK j \in Jobs : j = held[w]
      BY <1>5 DEF Crash
    <2>1. Stages[j] = "leased" /\ Holders[j] = w
      BY <1>5, <2>0, <1>m DEF Owns, MappingFacts
    <2>2. Stages'[j] = Stages[j]
      BY <1>5, <2>0, <1>m DEF Crash, Owns, MappingFacts
    <2>3. Holders'[j] = NoJob
      BY <1>5, <2>0, <1>m DEF Crash, Idle, Owns, MappingFacts
    <2>4. \A i \in Jobs \ {j} : Same(i)
      BY <1>5, <2>0, <1>b DEF Crash, Idle
    <2>5. /\ Stages[j] = "leased" /\ Holders[j] # NoJob
          /\ Stages' = Stages /\ Holders' = [Holders EXCEPT ![j] = NoJob]
      BY <2>1, <2>2, <2>3, <2>4, <1>f, <1>d
    <2> QED BY <2>5 DEF Contract!Abandon, Stages, Holders
  <1>6. ASSUME NEW S \in SUBSET Jobs, Delete(S) PROVE Contract!Cancel(S)
    <2>1. \A j \in S : Stages[j] \in {"waiting", "leased", "closed"}
      BY <1>6, <1>m DEF Delete, Stored, JobStatus, MappingFacts
    <2>2. \A j \in S : Stages'[j] = "cancelled" /\ Holders'[j] = NoJob
      BY <1>6, <1>c, <1>m DEF Delete, MappingFacts
    <2>3. \A i \in Jobs \ S : Same(i)
      BY <1>6, <1>b DEF Delete
    <2>4. /\ Stages' = [j \in Jobs |-> IF j \in S THEN "cancelled" ELSE Stages[j]]
          /\ Holders' = [j \in Jobs |-> IF j \in S THEN NoJob ELSE Holders[j]]
      BY <2>2, <2>3, <1>d
    <2> QED BY <2>1, <2>4 DEF Contract!Cancel, Stages, Holders
  <1>7. ASSUME status' = status, token' = token, held' = held, claim' = claim
        PROVE UNCHANGED Contract!contractVars
    <2>1. \A i \in Jobs : Same(i)
      BY <1>7, <1>b
    <2> QED BY <2>1, <1>a, <1>u
  <1>8. ASSUME NEW w \in Lanes, LaneStep(w) \/ Heartbeat(w) \/ Stall(w)
                                 \/ HeartbeatFails(w) \/ Crash(w)
        PROVE Contract!Next \/ UNCHANGED Contract!contractVars
    <2>1. CASE (Ack(w) \/ Nack(w) \/ Crash(w)) /\ Owns(w, held[w])
      BY <2>1, <1>3, <1>5 DEF Contract!Next
    <2>2. CASE (Ack(w) \/ Nack(w) \/ Crash(w)) /\ ~Owns(w, held[w])
      BY <2>2, <1>4
    <2>3. CASE \E j \in Jobs : Dequeue(w, j)
      BY <2>3, <1>2 DEF Contract!Next
    <2>4. CASE \/ Poll(w) \/ Heartbeat(w) \/ Stall(w) \/ HeartbeatFails(w)
               \/ \E next \in {"ack", "nack"} : Return(w, next)
      BY <2>4, <1>7 DEF Poll, Heartbeat, Stall, HeartbeatFails, Return, queueVars
    <2> QED BY <1>8, <2>1, <2>2, <2>3, <2>4 DEF LaneStep
  <1>9. CASE (\E j \in Jobs : Enqueue(j)) \/ \E S \in SUBSET Jobs : Delete(S)
    BY <1>9, <1>1, <1>6 DEF Contract!Next
  <1>10. CASE Clock \/ UNCHANGED queueVars
    BY <1>10, <1>7 DEF Clock, BackoffElapses, LeaseExpires, queueVars
  <1> QED BY <1>8, <1>9, <1>10 DEF Next, Environment

(* The queue implements the lease contract, for every number of rows, lanes *)
(* and faults: only the current holder of a row closes it or puts it back.  *)
THEOREM QueueImplementsLease == Spec => ImplementsLease
  <1>1. QueueInit => Contract!Init
    BY DEF QueueInit, Contract!Init, StageOf, HolderOf, Owns
  <1>2. Spec => Contract!Spec
    BY <1>1, LeaseStep, ClaimSafe, PTL DEF Spec, Contract!Spec
  <1> QED BY <1>2 DEF ImplementsLease
=============================================================================
