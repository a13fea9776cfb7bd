------------------------------ MODULE UserLock ------------------------------
(***************************************************************************)
(* WithUserLock (platform/postgres/userlock.go) on bounded connection      *)
(* pools: a caller takes a slot of its pool's semaphore, a connection for  *)
(* the session that holds the advisory lock, waits for the lock, and runs  *)
(* its callback, whose queries take a second connection of the same pool.  *)
(* Pools belong to processes and share the locks of one database.  Callers *)
(* also query without a lock.  A nested call for the same user runs its    *)
(* callback at once (UserLockHeld) and takes no step here.                 *)
(***************************************************************************)
EXTENDS Integers, FiniteSets

CONSTANTS
  Callers,   \* goroutines
  Pools,     \* one connection pool per process
  PoolOf,    \* [Callers -> Pools]
  UserOf,    \* [Callers -> Users], whose lock the goroutine is after
  MaxConns,  \* [Pools -> pool.Config().MaxConns], 10 in Connect
  Users,
  MaxFaults, \* bound on failing unlocks and on lock sessions that end early
  Nobody,    \* the lock is free
  Lost       \* the lock is held by a session nobody uses any more

ASSUME CallersFinite == IsFiniteSet(Callers)
ASSUME CallerType == PoolOf \in [Callers -> Pools] /\ UserOf \in [Callers -> Users]
ASSUME MaxConnsType == MaxConns \in [Pools -> Int] /\ \A p \in Pools : MaxConns[p] > 1
ASSUME NoCallers == Nobody \notin Callers /\ Lost \notin Callers /\ Nobody # Lost
ASSUME FaultBound == MaxFaults \in Nat

VARIABLES
  pc,       \* [Callers -> Steps]
  slots,    \* [Pools -> SUBSET Callers], who occupies the semaphore
  sessions, \* [Pools -> SUBSET Callers], connections of lock sessions
  queries,  \* [Pools -> SUBSET Callers], connections of queries
  owner,    \* [Users -> Callers \cup {Nobody, Lost}], the advisory locks
  dead,     \* callers whose lock session has ended under them
  faults

vars == <<pc, slots, sessions, queries, owner, dead, faults>>
held == <<slots, sessions, queries>>

Steps == {"idle", "slot", "conn", "wait", "callback", "want", "query", "unlock",
          "ask", "plain"}
SlotSteps == {"conn", "wait", "callback", "want", "query", "unlock"}
SessionSteps == SlotSteps \ {"conn"}
LockedSteps == SessionSteps \ {"wait"}

Init ==
  /\ pc = [c \in Callers |-> "idle"]
  /\ slots = [p \in Pools |-> {}]
  /\ sessions = [p \in Pools |-> {}]
  /\ queries = [p \in Pools |-> {}]
  /\ owner = [u \in Users |-> Nobody]
  /\ dead = {}
  /\ faults = 0

Goto(c, step) == pc' = [pc EXCEPT ![c] = step]
Take(r, c) == [r EXCEPT ![PoolOf[c]] = @ \cup {c}]
Give(r, c) == [r EXCEPT ![PoolOf[c]] = @ \ {c}]

(* Mutant: every connection of the pool may hold a lock. *)
CapacityWhole(p) == MaxConns[p]

(* userLockSemaphore: half of the pool, at least one. *)
Capacity(p) == IF MaxConns[p] \div 2 < 1 THEN 1 ELSE MaxConns[p] \div 2

SlotFree(p) == Cardinality(slots[p]) < Capacity(p)
ConnFree(p) == Cardinality(sessions[p]) + Cardinality(queries[p]) < MaxConns[p]

-----------------------------------------------------------------------------
WithUserLock(c) ==
  /\ pc[c] = "idle"
  /\ Goto(c, "slot")
  /\ UNCHANGED <<held, owner, dead, faults>>

TakeSlot(c) ==
  /\ pc[c] = "slot" /\ SlotFree(PoolOf[c])
  /\ slots' = Take(slots, c)
  /\ Goto(c, "conn")
  /\ UNCHANGED <<sessions, queries, owner, dead, faults>>

Acquire(c) ==
  /\ pc[c] = "conn" /\ ConnFree(PoolOf[c])
  /\ sessions' = Take(sessions, c)
  /\ Goto(c, "wait")
  /\ UNCHANGED <<slots, queries, owner, dead, faults>>

(* pg_advisory_lock returns. *)
Grant(c) ==
  /\ pc[c] = "wait" /\ owner[UserOf[c]] = Nobody
  /\ owner' = [owner EXCEPT ![UserOf[c]] = c]
  /\ Goto(c, "callback")
  /\ UNCHANGED <<held, dead, faults>>

(* A query of the callback, or of a goroutine without a lock. *)
WantQuery(c) ==
  /\ pc[c] \in {"callback", "idle"}
  /\ Goto(c, IF pc[c] = "callback" THEN "want" ELSE "ask")
  /\ UNCHANGED <<held, owner, dead, faults>>

BeginQuery(c) ==
  /\ pc[c] \in {"want", "ask"} /\ ConnFree(PoolOf[c])
  /\ queries' = Take(queries, c)
  /\ Goto(c, IF pc[c] = "want" THEN "query" ELSE "plain")
  /\ UNCHANGED <<slots, sessions, owner, dead, faults>>

EndQuery(c) ==
  /\ pc[c] \in {"query", "plain"}
  /\ queries' = Give(queries, c)
  /\ Goto(c, IF pc[c] = "query" THEN "callback" ELSE "idle")
  /\ UNCHANGED <<slots, sessions, owner, dead, faults>>

CallbackReturns(c) ==
  /\ pc[c] = "callback"
  /\ Goto(c, "unlock")
  /\ UNCHANGED <<held, owner, dead, faults>>

(* The deferred calls: unlock, Release of the connection, the slot. *)
Return(c) ==
  /\ slots' = Give(slots, c)
  /\ sessions' = Give(sessions, c)
  /\ Goto(c, "idle")
  /\ UNCHANGED queries

Unlock(c) ==
  /\ pc[c] = "unlock" /\ c \notin dead
  /\ owner' = [owner EXCEPT ![UserOf[c]] = Nobody]
  /\ Return(c)
  /\ UNCHANGED <<dead, faults>>

(* pg_advisory_unlock fails: Hijack takes the connection out of the pool and   *)
(* the lock goes only when the server sees its session end.                    *)
UnlockFails(c) ==
  /\ pc[c] = "unlock" /\ c \notin dead /\ faults < MaxFaults
  /\ faults' = faults + 1
  /\ owner' = [owner EXCEPT ![UserOf[c]] = Lost]
  /\ Return(c)
  /\ UNCHANGED dead

(* The lock session ends while the caller goes on: the server frees the lock,  *)
(* and nothing looks at the connection before the callback has returned.       *)
SessionLost(c) ==
  /\ pc[c] \in LockedSteps /\ c \notin dead /\ faults < MaxFaults
  /\ faults' = faults + 1
  /\ dead' = dead \cup {c}
  /\ owner' = [owner EXCEPT ![UserOf[c]] = Nobody]
  /\ UNCHANGED <<pc, held>>

(* Mutant: the key is unlocked whichever session holds it now. *)
UnlockAnyonesKey(c) ==
  /\ pc[c] = "unlock" /\ c \in dead
  /\ dead' = dead \ {c}
  /\ owner' = [owner EXCEPT ![UserOf[c]] = Nobody]
  /\ Return(c)
  /\ UNCHANGED faults

(* pg_advisory_unlock on a session that has ended: an error, then Hijack.      *)
UnlockGone(c) ==
  /\ pc[c] = "unlock" /\ c \in dead
  /\ dead' = dead \ {c}
  /\ Return(c)
  /\ UNCHANGED <<owner, faults>>

(* A session behind a failed unlock ends: pgconn has closed the connection if  *)
(* the statement timed out or its I/O failed; otherwise the socket, which      *)
(* nothing refers to after Hijack, is closed by Go's finalizer.                *)
SessionEnds(u) ==
  /\ owner[u] = Lost
  /\ owner' = [owner EXCEPT ![u] = Nobody]
  /\ UNCHANGED <<pc, held, dead, faults>>

(* Mutant: giving up on Acquire keeps the slot. *)
CancelKeepsSlot(c) ==
  \/ /\ pc[c] \in {"slot", "conn", "wait"}
     /\ sessions' = Give(sessions, c)
     /\ Goto(c, "idle")
     /\ UNCHANGED <<slots, queries, owner, dead, faults>>
  \/ /\ pc[c] \in {"want", "ask"}
     /\ Goto(c, IF pc[c] = "want" THEN "callback" ELSE "idle")
     /\ UNCHANGED <<held, owner, dead, faults>>

(* The context is cancelled, or the session breaks, while the caller waits;   *)
(* the session pgconn closes for it may just have been granted the lock.      *)
Cancel(c) ==
  \/ /\ pc[c] \in {"slot", "conn", "wait"}
     /\ Return(c)
     /\ UNCHANGED <<owner, dead, faults>>
  \/ /\ pc[c] = "wait" /\ owner[UserOf[c]] = Nobody /\ faults < MaxFaults
     /\ faults' = faults + 1
     /\ owner' = [owner EXCEPT ![UserOf[c]] = Lost]
     /\ Return(c)
     /\ UNCHANGED dead
  \/ /\ pc[c] \in {"want", "ask"}
     /\ Goto(c, IF pc[c] = "want" THEN "callback" ELSE "idle")
     /\ UNCHANGED <<held, owner, dead, faults>>

Progress(c) ==
  \/ TakeSlot(c) \/ Acquire(c) \/ Grant(c) \/ BeginQuery(c) \/ EndQuery(c)
  \/ CallbackReturns(c) \/ Unlock(c) \/ UnlockGone(c)

Next ==
  \/ \E c \in Callers :
       \/ WithUserLock(c) \/ Progress(c) \/ WantQuery(c) \/ UnlockFails(c) \/ Cancel(c)
       \/ SessionLost(c)
  \/ \E u \in Users : SessionEnds(u)

(* The channel, pgxpool and PostgreSQL serve those who wait in turn, callbacks *)
(* end, and so do the sessions of failed unlocks (SessionEnds).                *)
Fairness ==
  /\ \A c \in Callers : SF_vars(Progress(c)) /\ SF_vars(CallbackReturns(c))
  /\ \A u \in Users : WF_vars(SessionEnds(u))

Spec == Init /\ [][Next]_vars /\ Fairness

-----------------------------------------------------------------------------
(* Type invariant: every slot and connection belongs to a caller of the pool  *)
(* that is at a step where WithUserLock has it and has not given it back.     *)
UserLockTypeOK ==
  /\ pc \in [Callers -> Steps]
  /\ slots \in [Pools -> SUBSET Callers]
  /\ sessions \in [Pools -> SUBSET Callers]
  /\ queries \in [Pools -> SUBSET Callers]
  /\ owner \in [Users -> Callers \cup {Nobody, Lost}]
  /\ dead \in SUBSET {c \in Callers : pc[c] \in LockedSteps}
  /\ faults \in Nat
  /\ \A p \in Pools : \A c \in Callers :
       /\ c \in slots[p] <=> PoolOf[c] = p /\ pc[c] \in SlotSteps
       /\ c \in sessions[p] <=> PoolOf[c] = p /\ pc[c] \in SessionSteps
       /\ c \in queries[p] <=> PoolOf[c] = p /\ pc[c] \in {"query", "plain"}

(* WithUserLock: two callbacks of one user overlap only after the lock session *)
(* of one of them has ended under it; a caller whose session lives excludes    *)
(* every later one, the stragglers that unlock a lock they lost included.  The  *)
(* comment of WithUserLock, which "serializes all work that can mutate one     *)
(* user's data", does not mention the exception.                               *)
MutualExclusion ==
  \A c, d \in Callers \ dead :
    pc[c] \in LockedSteps /\ pc[d] \in LockedSteps /\ UserOf[c] = UserOf[d] => c = d

(* userLockSemaphore: lock sessions leave half of the pool to queries.        *)
HalfOfPoolLeft == \A p \in Pools : 2 * Cardinality(sessions[p]) <= MaxConns[p]

Runnable(c) ==
  CASE pc[c] = "slot" -> SlotFree(PoolOf[c])
    [] pc[c] \in {"conn", "want", "ask"} -> ConnFree(PoolOf[c])
    [] pc[c] = "wait" -> owner[UserOf[c]] = Nobody
    [] OTHER -> pc[c] # "idle"

(* userLockSemaphore: callers never all wait for slots, connections and locks *)
(* of one another, even while every lock session wants a second connection.   *)
NoGridlock ==
  \/ \A c \in Callers : pc[c] = "idle"
  \/ \E c \in Callers : Runnable(c)
  \/ \E u \in Users : owner[u] = Lost

(* WithUserLock: every call returns. *)
EveryCallReturns == \A c \in Callers : pc[c] = "slot" ~> pc[c] = "idle"
=============================================================================
