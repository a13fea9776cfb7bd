------------------------------ MODULE JobQueue ------------------------------
(***************************************************************************)
(* The PostgreSQL job queue (internal/platform/queue) together with the    *)
(* worker lanes that drain it (internal/worker).                           *)
(*                                                                         *)
(* A member of Jobs is one queue_jobs row: its id is a fresh uuid, so a row *)
(* is inserted at most once.  A claim token is a fresh uuid; here it is the *)
(* number of the claim (attempts is incremented by the same UPDATE that     *)
(* writes the token, so the number is fresh for the row).  Time is kept as  *)
(* one bit per row, due: the deadline that guards the next Dequeue has      *)
(* passed (run_after of a queued row, visible_at of a running one).         *)
(***************************************************************************)
EXTENDS Naturals, FiniteSets

CONSTANTS
  Jobs,         \* queue_jobs rows that may be inserted
  Lanes,        \* worker goroutines: every lane of every process of a role
  DedupeKey,    \* [Jobs -> keys], the dedupe_key a row is inserted with
  MaxAttempts,  \* max_attempts of every row
  MaxFaults,    \* bound on the claims of one row that are lost to a fault
  NoJob         \* what an idle lane holds

ASSUME JobsFinite == IsFiniteSet(Jobs)
ASSUME NoJobIsNew == NoJob \notin Jobs /\ NoJob \notin Lanes
ASSUME MaxAttemptsPositive == MaxAttempts \in Nat \ {0}
ASSUME MaxFaultsNat == MaxFaults \in Nat

VARIABLES
  status,       \* [Jobs -> JobStatus]
  attempts,     \* [Jobs -> Nat], claims made so far
  token,        \* [Jobs -> Nat], claim_token; 0 is NULL
  due,          \* [Jobs -> BOOLEAN], the deadline of the row has passed
  created,      \* [Jobs -> Nat], created_at as an insertion rank; 0 before it
  lost,         \* [Jobs -> Nat], faults met by claims of the row (history)
  phase,        \* [Lanes -> Phase], where the lane's loop stands
  held,         \* [Lanes -> Jobs \cup {NoJob}], the job variable of the loop
  claim,        \* [Lanes -> Nat], job.ClaimToken of the loop
  beating       \* [Lanes -> BOOLEAN], the heartbeat goroutine is running

rowVars  == <<status, attempts, token, due, created>>
laneVars == <<phase, held, claim, beating>>
queueVars == <<status, attempts, token, due, created, lost,
               phase, held, claim, beating>>

JobStatus == {"absent", "queued", "running", "done", "dead", "deleted"}
Phase == {"idle", "handling", "ack", "nack"}

(* Rows a unique dedupe key and a SELECT can see. *)
Stored(j) == status[j] \notin {"absent", "deleted"}
Settled(j) == status[j] \in {"done", "dead", "deleted"}

QueueTypeOK ==
  /\ status \in [Jobs -> JobStatus]
  /\ attempts \in [Jobs -> Nat]
  /\ token \in [Jobs -> Nat]
  /\ due \in [Jobs -> BOOLEAN]
  /\ created \in [Jobs -> Nat]
  /\ lost \in [Jobs -> Nat]
  /\ phase \in [Lanes -> Phase]
  /\ held \in [Lanes -> Jobs \cup {NoJob}]
  /\ claim \in [Lanes -> Nat]
  /\ beating \in [Lanes -> BOOLEAN]

QueueInit ==
  /\ status = [j \in Jobs |-> "absent"]
  /\ attempts = [j \in Jobs |-> 0]
  /\ token = [j \in Jobs |-> 0]
  /\ due = [j \in Jobs |-> FALSE]
  /\ created = [j \in Jobs |-> 0]
  /\ lost = [j \in Jobs |-> 0]
  /\ phase = [w \in Lanes |-> "idle"]
  /\ held = [w \in Lanes |-> NoJob]
  /\ claim = [w \in Lanes |-> 0]
  /\ beating = [w \in Lanes |-> FALSE]

-----------------------------------------------------------------------------
(* The claim of lane w still owns row j: the WHERE clause shared by        *)
(* Heartbeat, Ack and Nack.                                                *)
Owns(w, j) ==
  /\ held[w] = j
  /\ status[j] = "running"
  /\ token[j] = claim[w]

(* While one of these holds the lease is renewed, or about to be settled.  *)
Live(w) == beating[w] \/ phase[w] \in {"ack", "nack"}

(* Mutant: rows whose lease expired are not picked up again. *)
ReadyQueuedOnly(j) == status[j] = "queued" /\ due[j]

Ready(j) == status[j] \in {"queued", "running"} /\ due[j]

Oldest(j) == \A i \in Jobs : Ready(i) => created[j] <= created[i]

(* Mutant: the insert writes a status the table does not know. *)
EnqueuePending(j) ==
  /\ status[j] = "absent"
  /\ status' = [status EXCEPT ![j] = "pending"]
  /\ UNCHANGED <<attempts, token, due, created, lost, laneVars>>

(* PG.Enqueue: the unique index refuses a second stored row of a key.  The *)
(* new row is due at once (run_after defaults to now).                     *)
Enqueue(j) ==
  /\ status[j] = "absent"
  /\ \A i \in Jobs : Stored(i) => DedupeKey[i] # DedupeKey[j]
  /\ status' = [status EXCEPT ![j] = "queued"]
  /\ due' = [due EXCEPT ![j] = TRUE]
  /\ created' = [created EXCEPT
       ![j] = 1 + Cardinality({i \in Jobs : status[i] # "absent"})]
  /\ UNCHANGED <<attempts, token, lost, laneVars>>

(* Mutant: the handler runs without a heartbeat goroutine. *)
DequeueNoHeartbeat(w, j) ==
  /\ phase[w] = "idle" /\ Ready(j) /\ Oldest(j)
  /\ status' = [status EXCEPT ![j] = "running"]
  /\ attempts' = [attempts EXCEPT ![j] = @ + 1]
  /\ token' = [token EXCEPT ![j] = attempts[j] + 1]
  /\ due' = [due EXCEPT ![j] = FALSE]
  /\ phase' = [phase EXCEPT ![w] = "handling"]
  /\ held' = [held EXCEPT ![w] = j]
  /\ claim' = [claim EXCEPT ![w] = attempts[j] + 1]
  /\ UNCHANGED <<created, lost, beating>>

(* PG.Dequeue called by an idle lane, and the start of its handler and of  *)
(* its heartbeat goroutine.                                                *)
Dequeue(w, j) ==
  /\ phase[w] = "idle"
  /\ Ready(j)
  /\ Oldest(j)
  /\ status' = [status EXCEPT ![j] = "running"]
  /\ attempts' = [attempts EXCEPT ![j] = @ + 1]
  /\ token' = [token EXCEPT ![j] = attempts[j] + 1]
  /\ due' = [due EXCEPT ![j] = FALSE]
  /\ phase' = [phase EXCEPT ![w] = "handling"]
  /\ held' = [held EXCEPT ![w] = j]
  /\ claim' = [claim EXCEPT ![w] = attempts[j] + 1]
  /\ beating' = [beating EXCEPT ![w] = TRUE]
  /\ UNCHANGED <<created, lost>>

(* ErrEmpty: no row is ready and the lane sleeps until its next poll. *)
Poll(w) ==
  /\ phase[w] = "idle"
  /\ \A j \in Jobs : ~Ready(j)
  /\ UNCHANGED queueVars

(* One tick of the heartbeat goroutine: it renews the lease of the claim   *)
(* that owns the row, and stops at the first ErrStaleClaim.                *)
Heartbeat(w) ==
  /\ beating[w]
  /\ IF Owns(w, held[w])
     THEN due' = [due EXCEPT ![held[w]] = FALSE] /\ UNCHANGED beating
     ELSE beating' = [beating EXCEPT ![w] = FALSE] /\ UNCHANGED due
  /\ UNCHANGED <<status, attempts, token, created, lost, phase, held, claim>>

(* The handler returned; runWithHeartbeat cancels the heartbeat.  next is  *)
(* "nack" for CodeTransient and "ack" for nil and for every other error.   *)
Return(w, next) ==
  /\ phase[w] = "handling"
  /\ phase' = [phase EXCEPT ![w] = next]
  /\ beating' = [beating EXCEPT ![w] = FALSE]
  /\ UNCHANGED <<rowVars, lost, held, claim>>

(* The loop forgets the job and turns to the next Dequeue. *)
Idle(w) ==
  /\ phase' = [phase EXCEPT ![w] = "idle"]
  /\ held' = [held EXCEPT ![w] = NoJob]
  /\ claim' = [claim EXCEPT ![w] = 0]
  /\ beating' = [beating EXCEPT ![w] = FALSE]

(* Mutant: Ack matches the row by id alone. *)
AckById(w) ==
  /\ phase[w] = "ack"
  /\ status' = [status EXCEPT ![held[w]] = "done"]
  /\ token' = [token EXCEPT ![held[w]] = 0]
  /\ Idle(w)
  /\ UNCHANGED <<attempts, due, created, lost>>

(* PG.Ack; ErrStaleClaim changes no row and the loop ignores it. *)
Ack(w) ==
  /\ phase[w] = "ack"
  /\ IF Owns(w, held[w])
     THEN /\ status' = [status EXCEPT ![held[w]] = "done"]
          /\ token' = [token EXCEPT ![held[w]] = 0]
     ELSE UNCHANGED <<status, token>>
  /\ Idle(w)
  /\ UNCHANGED <<attempts, due, created, lost>>

(* Mutant: Nack matches the row by id alone. *)
NackById(w) ==
  /\ phase[w] = "nack"
  /\ status' = [status EXCEPT ![held[w]] =
       IF attempts[held[w]] >= MaxAttempts THEN "dead" ELSE "queued"]
  /\ token' = [token EXCEPT ![held[w]] = 0]
  /\ due' = [due EXCEPT ![held[w]] = FALSE]
  /\ Idle(w)
  /\ UNCHANGED <<attempts, created, lost>>

(* Mutant: one retry too many. *)
NackOneMore(w) ==
  /\ phase[w] = "nack"
  /\ IF Owns(w, held[w])
     THEN /\ status' = [status EXCEPT ![held[w]] =
               IF attempts[held[w]] > MaxAttempts THEN "dead" ELSE "queued"]
          /\ token' = [token EXCEPT ![held[w]] = 0]
          /\ due' = [due EXCEPT ![held[w]] = FALSE]
     ELSE UNCHANGED <<status, token, due>>
  /\ Idle(w)
  /\ UNCHANGED <<attempts, created, lost>>

(* PG.Nack: back to the queue behind a backoff deadline, or dead once the  *)
(* attempts are used up.                                                   *)
Nack(w) ==
  /\ phase[w] = "nack"
  /\ IF Owns(w, held[w])
     THEN /\ status' = [status EXCEPT ![held[w]] =
               IF attempts[held[w]] >= MaxAttempts THEN "dead" ELSE "queued"]
          /\ token' = [token EXCEPT ![held[w]] = 0]
          /\ due' = [due EXCEPT ![held[w]] = FALSE]
     ELSE UNCHANGED <<status, token, due>>
  /\ Idle(w)
  /\ UNCHANGED <<attempts, created, lost>>

(* DeleteQueueJob and the DELETEs on queue_jobs of the purges: whole sets   *)
(* of rows in one transaction, by id or by user, whoever holds them.        *)
Delete(S) ==
  /\ S # {} /\ \A j \in S : Stored(j)
  /\ status' = [j \in Jobs |-> IF j \in S THEN "deleted" ELSE status[j]]
  /\ UNCHANGED <<attempts, token, due, created, lost, laneVars>>

-----------------------------------------------------------------------------
(* Time and faults. *)

(* run_after of a Nacked row passes. *)
BackoffElapses(j) ==
  /\ status[j] = "queued" /\ ~due[j]
  /\ due' = [due EXCEPT ![j] = TRUE]
  /\ UNCHANGED <<status, attempts, token, created, lost, laneVars>>

(* visible_at passes on a row nobody renews: the lane died, gave the row up *)
(* or lost its heartbeat goroutine.                                         *)
LeaseExpires(j) ==
  /\ status[j] = "running" /\ ~due[j]
  /\ \A w \in Lanes : Owns(w, j) => ~Live(w)
  /\ due' = [due EXCEPT ![j] = TRUE]
  /\ UNCHANGED <<status, attempts, token, created, lost, laneVars>>

Fault(j) ==
  /\ lost[j] < MaxFaults
  /\ lost' = [lost EXCEPT ![j] = @ + 1]

(* The process is paused, or the database is slow, past visible_at while   *)
(* the lane believes it owns the row.                                      *)
Stall(w) ==
  /\ Live(w) /\ Owns(w, held[w]) /\ ~due[held[w]]
  /\ Fault(held[w])
  /\ due' = [due EXCEPT ![held[w]] = TRUE]
  /\ UNCHANGED <<status, attempts, token, created, laneVars>>

(* A Heartbeat statement fails; the goroutine returns and the handler runs *)
(* on without it.                                                          *)
HeartbeatFails(w) ==
  /\ beating[w]
  /\ Fault(held[w])
  /\ beating' = [beating EXCEPT ![w] = FALSE]
  /\ UNCHANGED <<rowVars, phase, held, claim>>

(* The process dies, or is stopped and its Ack/Nack runs on a cancelled    *)
(* context, or the Ack/Nack statement fails: the row is left running.      *)
Crash(w) ==
  /\ phase[w] # "idle"
  /\ Fault(held[w])
  /\ Idle(w)
  /\ UNCHANGED rowVars

-----------------------------------------------------------------------------
LaneStep(w) ==
  \/ \E j \in Jobs : Dequeue(w, j)
  \/ Poll(w)
  \/ \E next \in {"ack", "nack"} : Return(w, next)
  \/ Ack(w)
  \/ Nack(w)

Environment ==
  \/ \E j \in Jobs : Enqueue(j)
  \/ \E S \in SUBSET Jobs : Delete(S)
  \/ \E w \in Lanes : Stall(w) \/ HeartbeatFails(w) \/ Crash(w)

Clock == \E j \in Jobs : BackoffElapses(j) \/ LeaseExpires(j)

Next ==
  \/ \E w \in Lanes : LaneStep(w) \/ Heartbeat(w)
  \/ Clock
  \/ Environment

Spec == QueueInit /\ [][Next]_queueVars

(* Lanes poll for ever, handlers return (every external call has a         *)
(* timeout), heartbeats tick and time passes.  Faults are never forced.    *)
Fairness ==
  /\ \A w \in Lanes : WF_queueVars(LaneStep(w)) /\ WF_queueVars(Heartbeat(w))
  /\ \A j \in Jobs : WF_queueVars(BackoffElapses(j) \/ LeaseExpires(j))

FairSpec == Spec /\ Fairness
-----------------------------------------------------------------------------
(* Properties. *)

(* A lane whose claim is the latest one made on its row finds the row still *)
(* running (or deleted by id): no earlier claimant that woke up late, after *)
(* its lease had lapsed, can Ack or Nack the row under the lane now working *)
(* on it (queue.go: "only that token may Ack/Nack/Heartbeat the job").      *)
LatestClaimKeepsJob ==
  \A w \in Lanes : \A j \in Jobs :
    held[w] = j /\ claim[w] = attempts[j] => status[j] \in {"running", "deleted"}

(* runWithHeartbeat's promise, that long work "cannot expire visibility and *)
(* let a second worker steal the job": a second lane handles a row only     *)
(* after a fault of an earlier claim, one more lane per fault.              *)
ExclusiveHandling ==
  \A j \in Jobs :
    Cardinality({w \in Lanes : held[w] = j /\ phase[w] = "handling"}) <= 1 + lost[j]

(* What is left of "max receives" (package comment of queue.go): only Nack  *)
(* looks at the limit, so a row is received at most max_attempts times plus *)
(* once per claim that was lost to a crash or a lapsed lease.               *)
ReceivesAccounted == \A j \in Jobs : attempts[j] <= MaxAttempts + lost[j]

(* A row that is done or dead is never handed out again.                   *)
SettledForGood ==
  [][\A j \in Jobs : status[j] \in {"done", "dead"}
                       => status'[j] \in {status[j], "deleted"}]_queueVars

(* Crash recovery: as long as lanes keep polling, a row that was enqueued  *)
(* is settled in the end, whatever finitely many faults hit its claims.    *)
EveryJobSettles == \A j \in Jobs : status[j] = "queued" ~> Settled(j)

(* The lane the lease contract calls the holder of row j.                  *)
HolderOf(j) ==
  IF \E w \in Lanes : Owns(w, j) THEN CHOOSE w \in Lanes : Owns(w, j) ELSE NoJob

StageOf(j) ==
  CASE status[j] = "absent"  -> "absent"
    [] status[j] = "queued"  -> "waiting"
    [] status[j] = "running" -> "leased"
    [] status[j] = "deleted" -> "cancelled"
    [] OTHER                 -> "closed"

Contract == INSTANCE LeaseContract WITH
  Nobody <- NoJob,
  stage  <- [j \in Jobs |-> StageOf(j)],
  holder <- [j \in Jobs |-> HolderOf(j)]

(* The queue implements the lease contract: a row is closed or put back    *)
(* only by the one lane that holds its current claim (or deleted by id).   *)
ImplementsLease == Contract!Spec
=============================================================================
