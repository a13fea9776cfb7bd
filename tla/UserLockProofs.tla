--------------------------- MODULE UserLockProofs ---------------------------
(* Proofs about UserLock for any number of callers, users and pools and any   *)
(* pool size from two connections up.                                         *)
EXTENDS UserLock, FiniteSetTheorems, TLAPS

(* The locks as PostgreSQL keeps them and as the callers see them agree, but  *)
(* for the callers whose session has ended under them.                        *)
OwnerInv ==
  /\ \A c \in Callers : pc[c] \in LockedSteps /\ c \notin dead => owner[UserOf[c]] = c
  /\ \A u \in Users : owner[u] \in Callers =>
       /\ UserOf[owner[u]] = u /\ pc[owner[u]] \in LockedSteps /\ owner[u] \notin dead

SlotInv == \A p \in Pools : Cardinality(slots[p]) <= Capacity(p)

LockInv == UserLockTypeOK /\ OwnerInv /\ SlotInv

-----------------------------------------------------------------------------
(* Half of a pool, and of two connections at least one. *)
LEMMA CapacityBounds ==
  ASSUME NEW p \in Pools
  PROVE  Capacity(p) \in Nat /\ Capacity(p) > 0 /\ 2 * Capacity(p) <= MaxConns[p]
  BY MaxConnsType DEF Capacity

LEMMA FiniteHeld ==
  ASSUME UserLockTypeOK, NEW p \in Pools
  PROVE  /\ IsFiniteSet(slots[p]) /\ Cardinality(slots[p]) \in Nat
         /\ IsFiniteSet(sessions[p]) /\ Cardinality(sessions[p]) \in Nat
         /\ Cardinality(sessions[p]) <= Cardinality(slots[p])
  <1>1. slots[p] \in SUBSET Callers
    BY DEF UserLockTypeOK
  <1>2. IsFiniteSet(slots[p])
    BY <1>1, CallersFinite, FS_Subset
  <1>3. sessions[p] \in SUBSET slots[p]
    BY DEF UserLockTypeOK, SlotSteps, SessionSteps
  <1>4. IsFiniteSet(sessions[p]) /\ Cardinality(sessions[p]) <= Cardinality(slots[p])
    BY <1>2, <1>3, FS_Subset
  <1> QED BY <1>2, <1>4, FS_CardinalityType

LEMMA InitLockInv == Init => LockInv
  <1> SUFFICES ASSUME Init PROVE LockInv
    OBVIOUS
  <1>1. UserLockTypeOK
    BY DEF Init, UserLockTypeOK, Steps, SlotSteps, SessionSteps, LockedSteps
  <1>2. OwnerInv
    BY CallerType, NoCallers DEF Init, OwnerInv, LockedSteps, SessionSteps, SlotSteps
  <1>3. SlotInv
    BY FS_EmptySet, CapacityBounds DEF Init, SlotInv
  <1> QED BY <1>1, <1>2, <1>3 DEF LockInv

(* r2 is r1 except that c is in the set of its pool exactly if b. *)
Moved(r1, r2, c, b) ==
  /\ r2 \in [Pools -> SUBSET Callers]
  /\ \A p \in Pools : \A d \in Callers :
       d \in r2[p] <=> IF d = c THEN p = PoolOf[c] /\ b ELSE d \in r1[p]

(* c is in no set but that of its own pool. *)
AtHome(r, c) == \A p \in Pools : c \in r[p] => p = PoolOf[c]

LEMMA TakeMoves ==
  ASSUME NEW r \in [Pools -> SUBSET Callers], NEW c \in Callers, AtHome(r, c)
  PROVE  Moved(r, Take(r, c), c, TRUE)
  BY CallerType DEF Take, Moved, AtHome

LEMMA GiveMoves ==
  ASSUME NEW r \in [Pools -> SUBSET Callers], NEW c \in Callers, AtHome(r, c)
  PROVE  Moved(r, Give(r, c), c, FALSE)
  BY CallerType DEF Give, Moved, AtHome

LEMMA KeepMoves ==
  ASSUME NEW r \in [Pools -> SUBSET Callers], NEW c \in Callers, AtHome(r, c), NEW b \in BOOLEAN,
         c \in r[PoolOf[c]] <=> b
  PROVE  Moved(r, r, c, b)
  BY CallerType DEF Moved, AtHome

LEMMA Books ==
  ASSUME UserLockTypeOK, NEW c \in Callers
  PROVE  /\ slots \in [Pools -> SUBSET Callers] /\ AtHome(slots, c)
         /\ sessions \in [Pools -> SUBSET Callers] /\ AtHome(sessions, c)
         /\ queries \in [Pools -> SUBSET Callers] /\ AtHome(queries, c)
         /\ c \in slots[PoolOf[c]] <=> pc[c] \in SlotSteps
         /\ c \in sessions[PoolOf[c]] <=> pc[c] \in SessionSteps
         /\ c \in queries[PoolOf[c]] <=> pc[c] \in {"query", "plain"}
  BY CallerType DEF UserLockTypeOK, AtHome

(* A step of c that leaves c with what its next step has. *)
LEMMA BooksStep ==
  ASSUME UserLockTypeOK, NEW c \in Callers, NEW step \in Steps,
         pc' = [pc EXCEPT ![c] = step],
         NEW slot \in BOOLEAN, slot <=> step \in SlotSteps, Moved(slots, slots', c, slot),
         NEW session \in BOOLEAN, session <=> step \in SessionSteps,
         Moved(sessions, sessions', c, session),
         NEW query \in BOOLEAN, query <=> step \in {"query", "plain"},
         Moved(queries, queries', c, query),
         owner' \in [Users -> Callers \cup {Nobody, Lost}], faults' \in Nat,
         dead' \in SUBSET dead, step \in LockedSteps \/ c \notin dead'
  PROVE  UserLockTypeOK'
  <1>1. pc \in [Callers -> Steps] /\ pc' \in [Callers -> Steps]
    BY DEF UserLockTypeOK
  <1>d. dead' \in SUBSET {d \in Callers : pc'[d] \in LockedSteps}
    BY <1>1 DEF UserLockTypeOK
  <1> SUFFICES ASSUME NEW p \in Pools, NEW d \in Callers
               PROVE /\ d \in slots'[p] <=> PoolOf[d] = p /\ pc'[d] \in SlotSteps
                     /\ d \in sessions'[p] <=> PoolOf[d] = p /\ pc'[d] \in SessionSteps
                     /\ d \in queries'[p] <=> PoolOf[d] = p /\ pc'[d] \in {"query", "plain"}
    BY <1>1, <1>d DEF UserLockTypeOK, Moved
  <1>2. CASE d = c
    BY <1>1, <1>2 DEF Moved
  <1>3. CASE d # c
    <2>1. pc'[d] = pc[d]
      BY <1>1, <1>3
    <2> QED BY <1>3, <2>1 DEF Moved, UserLockTypeOK
  <1> QED BY <1>2, <1>3

(* Slots and connections are taken and given back where the steps say. *)
LEMMA TypeStep ==
  ASSUME LockInv, [Next]_vars
  PROVE  UserLockTypeOK'
  <1>0. /\ UserLockTypeOK
        /\ owner \in [Users -> Callers \cup {Nobody, Lost}] /\ faults \in Nat
        /\ \A c \in Callers : pc[c] \notin LockedSteps => c \notin dead
    BY DEF LockInv, UserLockTypeOK
  <1> USE DEF Goto, Steps, SlotSteps, SessionSteps, LockedSteps
  <1>1. ASSUME NEW c \in Callers, NEW step \in Steps, pc' = [pc EXCEPT ![c] = step],
               UNCHANGED <<slots, sessions, queries>>,
               step \in SlotSteps <=> pc[c] \in SlotSteps,
               step \in SessionSteps <=> pc[c] \in SessionSteps,
               step \in {"query", "plain"} <=> pc[c] \in {"query", "plain"},
               owner' \in [Users -> Callers \cup {Nobody, Lost}], UNCHANGED <<dead, faults>>,
               pc[c] \in LockedSteps => step \in LockedSteps
        PROVE  UserLockTypeOK'
    <2>1. pc \in [Callers -> Steps] /\ pc' \in [Callers -> Steps]
      BY <1>0, <1>1 DEF UserLockTypeOK
    <2>2. slots' = slots /\ sessions' = sessions /\ queries' = queries /\ faults' = faults
      BY <1>1
    <2>d. dead' \in SUBSET {d \in Callers : pc'[d] \in LockedSteps}
      BY <1>0, <1>1, <2>1 DEF UserLockTypeOK
    <2> SUFFICES ASSUME NEW p \in Pools, NEW d \in Callers
                 PROVE /\ d \in slots[p] <=> PoolOf[d] = p /\ pc'[d] \in SlotSteps
                       /\ d \in sessions[p] <=> PoolOf[d] = p /\ pc'[d] \in SessionSteps
                       /\ d \in queries[p] <=> PoolOf[d] = p /\ pc'[d] \in {"query", "plain"}
      BY <1>0, <1>1, <2>1, <2>2, <2>d DEF UserLockTypeOK
    <2>3. CASE d = c
      BY <1>0, <1>1, <2>1, <2>3 DEF UserLockTypeOK
    <2>4. CASE d # c
      <3>1. pc'[d] = pc[d]
        BY <1>1, <2>1, <2>4
      <3> QED BY <1>0, <3>1 DEF UserLockTypeOK
    <2> QED BY <2>3, <2>4
  <1>2. ASSUME NEW c \in Callers, TakeSlot(c) PROVE UserLockTypeOK'
    <2>1. /\ Moved(slots, slots', c, TRUE) /\ Moved(sessions, sessions', c, FALSE)
          /\ Moved(queries, queries', c, FALSE)
      BY <1>0, <1>2, Books, TakeMoves, KeepMoves DEF TakeSlot
    <2>2. /\ pc' = [pc EXCEPT ![c] = "conn"] /\ owner' = owner /\ faults' = faults
          /\ dead' = dead /\ c \notin dead
      BY <1>0, <1>2 DEF TakeSlot
    <2> QED BY <1>0, <2>1, <2>2, BooksStep
  <1>3. ASSUME NEW c \in Callers, Acquire(c) PROVE UserLockTypeOK'
    <2>1. /\ Moved(slots, slots', c, TRUE) /\ Moved(sessions, sessions', c, TRUE)
          /\ Moved(queries, queries', c, FALSE)
      BY <1>0, <1>3, Books, TakeMoves, KeepMoves DEF Acquire
    <2>2. /\ pc' = [pc EXCEPT ![c] = "wait"] /\ owner' = owner /\ faults' = faults
          /\ dead' = dead /\ c \notin dead
      BY <1>0, <1>3 DEF Acquire
    <2> QED BY <1>0, <2>1, <2>2, BooksStep
  <1>4. ASSUME NEW c \in Callers,
               Grant(c) \/ WithUserLock(c) \/ WantQuery(c) \/ CallbackReturns(c)
        PROVE UserLockTypeOK'
    <2>1. owner' \in [Users -> Callers \cup {Nobody, Lost}] /\ faults' = faults
          /\ dead' = dead /\ UNCHANGED <<slots, sessions, queries>>
      BY <1>0, <1>4 DEF Grant, WithUserLock, WantQuery, CallbackReturns, held
    <2>2. CASE Grant(c)
      BY <1>1, <2>1, <2>2 DEF Grant
    <2>3. CASE WithUserLock(c)
      BY <1>1, <2>1, <2>3 DEF WithUserLock
    <2>4. CASE WantQuery(c)
      BY <1>1, <2>1, <2>4 DEF WantQuery
    <2>5. CASE CallbackReturns(c)
      BY <1>1, <2>1, <2>5 DEF CallbackReturns
    <2> QED BY <1>4, <2>2, <2>3, <2>4, <2>5
  <1>5. ASSUME NEW c \in Callers, BeginQuery(c) PROVE UserLockTypeOK'
    <2>1. /\ Moved(queries, queries', c, TRUE)
          /\ owner' = owner /\ faults' = faults /\ dead' = dead
      BY <1>0, <1>5, Books, TakeMoves DEF BeginQuery
    <2>2. CASE pc[c] = "want"
      <3>1. Moved(slots, slots', c, TRUE) /\ Moved(sessions, sessions', c, TRUE)
        BY <1>0, <1>5, <2>2, Books, KeepMoves DEF BeginQuery
      <3>2. pc' = [pc EXCEPT ![c] = "query"]
        BY <1>5, <2>2 DEF BeginQuery
      <3> QED BY <1>0, <2>1, <3>1, <3>2, BooksStep
    <2>3. CASE pc[c] = "ask"
      <3>1. Moved(slots, slots', c, FALSE) /\ Moved(sessions, sessions', c, FALSE)
        BY <1>0, <1>5, <2>3, Books, KeepMoves DEF BeginQuery
      <3>2. pc' = [pc EXCEPT ![c] = "plain"] /\ c \notin dead
        BY <1>0, <1>5, <2>3 DEF BeginQuery
      <3> QED BY <1>0, <2>1, <3>1, <3>2, BooksStep
    <2> QED BY <1>5, <2>2, <2>3 DEF BeginQuery
  <1>6. ASSUME NEW c \in Callers, EndQuery(c) PROVE UserLockTypeOK'
    <2>1. /\ Moved(queries, queries', c, FALSE)
          /\ owner' = owner /\ faults' = faults /\ dead' = dead
      BY <1>0, <1>6, Books, GiveMoves DEF EndQuery
    <2>2. CASE pc[c] = "query"
      <3>1. Moved(slots, slots', c, TRUE) /\ Moved(sessions, sessions', c, TRUE)
        BY <1>0, <1>6, <2>2, Books, KeepMoves DEF EndQuery
      <3>2. pc' = [pc EXCEPT ![c] = "callback"]
        BY <1>6, <2>2 DEF EndQuery
      <3> QED BY <1>0, <2>1, <3>1, <3>2, BooksStep
    <2>3. CASE pc[c] = "plain"
      <3>1. Moved(slots, slots', c, FALSE) /\ Moved(sessions, sessions', c, FALSE)
        BY <1>0, <1>6, <2>3, Books, KeepMoves DEF EndQuery
      <3>2. pc' = [pc EXCEPT ![c] = "idle"] /\ c \notin dead
        BY <1>0, <1>6, <2>3 DEF EndQuery
      <3> QED BY <1>0, <2>1, <3>1, <3>2, BooksStep
    <2> QED BY <1>6, <2>2, <2>3 DEF EndQuery
  <1>7. ASSUME NEW c \in Callers, Return(c), pc[c] \in {"slot", "conn", "wait", "unlock"},
               owner' \in [Users -> Callers \cup {Nobody, Lost}], faults' \in Nat,
               dead' \in SUBSET dead, c \notin dead'
        PROVE UserLockTypeOK'
    <2>1. Moved(slots, slots', c, FALSE) /\ Moved(sessions, sessions', c, FALSE)
      BY <1>0, <1>7, Books, GiveMoves DEF Return
    <2>2. Moved(queries, queries', c, FALSE) /\ pc' = [pc EXCEPT ![c] = "idle"]
      BY <1>0, <1>7, Books, KeepMoves DEF Return
    <2> QED BY <1>0, <1>7, <2>1, <2>2, BooksStep
  <1>8. ASSUME NEW c \in Callers, Unlock(c) \/ UnlockFails(c) \/ UnlockGone(c)
        PROVE UserLockTypeOK'
    <2>1. /\ owner' \in [Users -> Callers \cup {Nobody, Lost}] /\ faults' \in Nat
          /\ dead' \in SUBSET dead /\ c \notin dead'
      BY <1>0, <1>8 DEF Unlock, UnlockFails, UnlockGone
    <2> QED BY <1>7, <1>8, <2>1 DEF Unlock, UnlockFails, UnlockGone
  <1>9. ASSUME NEW c \in Callers, Cancel(c) PROVE UserLockTypeOK'
    <2>1. CASE pc[c] \in {"slot", "conn", "wait"}
      <3>1. /\ owner' \in [Users -> Callers \cup {Nobody, Lost}] /\ faults' \in Nat
            /\ dead' = dead /\ c \notin dead /\ Return(c)
        BY <1>0, <1>9, <2>1 DEF Cancel
      <3> QED BY <1>7, <2>1, <3>1
    <2>2. CASE pc[c] \in {"want", "ask"}
      <3>1. owner' = owner /\ UNCHANGED <<dead, faults>> /\ UNCHANGED <<slots, sessions, queries>>
        BY <1>9, <2>2 DEF Cancel, held
      <3>2. pc' = [pc EXCEPT ![c] = IF pc[c] = "want" THEN "callback" ELSE "idle"]
        BY <1>9, <2>2 DEF Cancel
      <3> QED BY <1>0, <1>1, <2>2, <3>1, <3>2
    <2> QED BY <1>9, <2>1, <2>2 DEF Cancel
  <1>10. ASSUME NEW u \in Users, SessionEnds(u) PROVE UserLockTypeOK'
    BY <1>0, <1>10 DEF SessionEnds, held, UserLockTypeOK
  <1>11. ASSUME UNCHANGED vars PROVE UserLockTypeOK'
    BY <1>0, <1>11 DEF vars, UserLockTypeOK
  <1>12. ASSUME NEW c \in Callers, SessionLost(c) PROVE UserLockTypeOK'
    <2>1. /\ pc' = pc /\ slots' = slots /\ sessions' = sessions /\ queries' = queries
          /\ dead' = dead \cup {c} /\ pc[c] \in LockedSteps
      BY <1>12 DEF SessionLost, held
    <2>2. owner' \in [Users -> Callers \cup {Nobody, Lost}] /\ faults' \in Nat
      <3>1. owner' = [owner EXCEPT ![UserOf[c]] = Nobody] /\ faults' = faults + 1
        BY <1>12 DEF SessionLost
      <3>2. owner \in [Users -> Callers \cup {Nobody, Lost}] /\ faults \in Nat
        BY <1>0
      <3>3. owner' \in [Users -> Callers \cup {Nobody, Lost}]
        BY <3>1, <3>2
      <3>4. faults' \in Nat
        BY <3>1, <3>2
      <3> QED BY <3>3, <3>4
    <2>3. dead' \in SUBSET {d \in Callers : pc'[d] \in LockedSteps}
      BY <1>0, <2>1 DEF UserLockTypeOK
    <2> QED BY <1>0, <2>1, <2>2, <2>3 DEF UserLockTypeOK
  <1> QED
    BY <1>2, <1>3, <1>4, <1>5, <1>6, <1>8, <1>9, <1>10, <1>11, <1>12 DEF Next, Progress

(* A lock changes hands only from nobody to a waiting caller, from the caller *)
(* that unlocks, and from the caller whose session ends.                      *)
LEMMA OwnerStep ==
  ASSUME LockInv, [Next]_vars
  PROVE  OwnerInv'
  <1> USE DEF LockInv, OwnerInv, LockedSteps, SessionSteps, SlotSteps, Goto
  <1>0. /\ pc \in [Callers -> Steps] /\ owner \in [Users -> Callers \cup {Nobody, Lost}]
        /\ \A c \in Callers : pc[c] \notin LockedSteps => c \notin dead
    BY DEF UserLockTypeOK
  <1>1. ASSUME NEW c \in Callers, pc[c] \notin LockedSteps, UNCHANGED <<owner, dead>>,
               \E step \in Steps \ LockedSteps : pc' = [pc EXCEPT ![c] = step]
        PROVE OwnerInv'
    BY <1>0, <1>1 DEF Steps
  <1>2. ASSUME NEW c \in Callers, pc[c] \in LockedSteps, UNCHANGED <<owner, dead>>,
               \E step \in LockedSteps : pc' = [pc EXCEPT ![c] = step]
        PROVE OwnerInv'
    BY <1>0, <1>2 DEF Steps
  <1>3. ASSUME NEW c \in Callers, Grant(c) PROVE OwnerInv'
    <2>1. /\ pc' = [pc EXCEPT ![c] = "callback"] /\ owner' = [owner EXCEPT ![UserOf[c]] = c]
          /\ dead' = dead /\ c \notin dead
      BY <1>0, <1>3 DEF Grant
    <2>2. UserOf[c] \in Users /\ owner[UserOf[c]] \notin Callers
      BY <1>3, CallerType, NoCallers DEF Grant
    <2>3. ASSUME NEW d \in Callers, pc'[d] \in LockedSteps, d \notin dead'
          PROVE  owner'[UserOf[d]] = d
      <3>1. CASE d = c
        BY <1>0, <2>1, <2>2, <3>1
      <3>2. CASE d # c
        <4>1. pc[d] \in LockedSteps /\ d \notin dead
          BY <1>0, <2>1, <2>3, <3>2
        <4>2. owner[UserOf[d]] = d /\ UserOf[d] \in Users
          BY <4>1, CallerType
        <4> QED BY <1>0, <2>1, <2>2, <4>2
      <3> QED BY <3>1, <3>2
    <2>4. ASSUME NEW u \in Users, owner'[u] \in Callers
          PROVE  UserOf[owner'[u]] = u /\ pc'[owner'[u]] \in LockedSteps /\ owner'[u] \notin dead'
      <3>1. CASE u = UserOf[c]
        BY <1>0, <2>1, <2>2, <3>1
      <3>2. CASE u # UserOf[c]
        BY <1>0, <2>1, <2>4, <3>2
      <3> QED BY <3>1, <3>2
    <2> QED BY <2>3, <2>4
  <1>4. ASSUME NEW c \in Callers, Unlock(c) \/ UnlockFails(c) PROVE OwnerInv'
    <2>1. pc[c] = "unlock" /\ pc' = [pc EXCEPT ![c] = "idle"] /\ c \notin dead /\ dead' = dead
      BY <1>4 DEF Unlock, UnlockFails, Return
    <2>2. \E x \in {Nobody, Lost} : owner' = [owner EXCEPT ![UserOf[c]] = x]
      BY <1>4 DEF Unlock, UnlockFails
    <2>3. owner[UserOf[c]] = c /\ UserOf[c] \in Users
      BY <2>1, CallerType
    <2> QED BY <1>0, <2>1, <2>2, <2>3, CallerType, NoCallers DEF Steps
  <1>5. ASSUME NEW u \in Users, SessionEnds(u) PROVE OwnerInv'
    BY <1>0, <1>5, NoCallers DEF SessionEnds
  <1>6. ASSUME UNCHANGED vars PROVE OwnerInv'
    BY <1>6 DEF vars
  <1>7. ASSUME NEW c \in Callers,
               \/ WithUserLock(c) \/ TakeSlot(c) \/ Acquire(c) \/ BeginQuery(c) \/ EndQuery(c)
               \/ CallbackReturns(c) \/ WantQuery(c) \/ (Cancel(c) /\ UNCHANGED owner)
        PROVE OwnerInv'
    <2>1. CASE pc[c] \in LockedSteps
      <3>1. /\ UNCHANGED <<owner, dead>>
            /\ \E step \in LockedSteps : pc' = [pc EXCEPT ![c] = step]
        BY <1>7, <2>1 DEF WithUserLock, TakeSlot, Acquire, BeginQuery, EndQuery,
           CallbackReturns, WantQuery, Cancel
      <3> QED BY <1>2, <2>1, <3>1
    <2>2. CASE pc[c] \notin LockedSteps
      <3>1. /\ UNCHANGED <<owner, dead>>
            /\ \E step \in Steps \ LockedSteps : pc' = [pc EXCEPT ![c] = step]
        BY <1>7, <2>2 DEF WithUserLock, TakeSlot, Acquire, BeginQuery, EndQuery,
           CallbackReturns, WantQuery, Cancel, Return, Steps
      <3> QED BY <1>1, <2>2, <3>1
    <2> QED BY <2>1, <2>2
  <1>8. ASSUME NEW c \in Callers, Cancel(c), owner' # owner PROVE OwnerInv'
    <2>1. /\ pc[c] = "wait" /\ owner[UserOf[c]] = Nobody /\ dead' = dead
          /\ owner' = [owner EXCEPT ![UserOf[c]] = Lost] /\ pc' = [pc EXCEPT ![c] = "idle"]
      BY <1>8 DEF Cancel, Return
    <2> QED BY <1>0, <2>1, CallerType, NoCallers DEF Steps
  <1>9. ASSUME NEW c \in Callers, SessionLost(c) PROVE OwnerInv'
    <2>1. /\ owner' = [owner EXCEPT ![UserOf[c]] = Nobody] /\ pc' = pc
          /\ dead' = dead \cup {c} /\ owner[UserOf[c]] = c /\ UserOf[c] \in Users
      BY <1>9, CallerType DEF SessionLost
    <2> QED BY <1>0, <2>1, CallerType, NoCallers
  <1>10. ASSUME NEW c \in Callers, UnlockGone(c) PROVE OwnerInv'
    <2>1. /\ owner' = owner /\ pc[c] = "unlock" /\ pc' = [pc EXCEPT ![c] = "idle"]
          /\ c \in dead /\ dead' = dead \ {c}
      BY <1>10 DEF UnlockGone, Return
    <2>2. \A u \in Users : owner[u] # c
      BY <2>1
    <2>3. ASSUME NEW d \in Callers, pc'[d] \in LockedSteps, d \notin dead'
          PROVE  owner'[UserOf[d]] = d
      <3>1. d # c
        BY <1>0, <2>1, <2>3
      <3> QED BY <1>0, <2>1, <2>3, <3>1
    <2>4. ASSUME NEW u \in Users, owner'[u] \in Callers
          PROVE  UserOf[owner'[u]] = u /\ pc'[owner'[u]] \in LockedSteps /\ owner'[u] \notin dead'
      BY <1>0, <2>1, <2>2, <2>4
    <2> QED BY <2>3, <2>4
  <1> QED BY <1>3, <1>4, <1>5, <1>6, <1>7, <1>8, <1>9, <1>10 DEF Next, Progress

(* Only TakeSlot adds to a semaphore, and only while there is room. *)
LEMMA SlotStep ==
  ASSUME LockInv, [Next]_vars
  PROVE  SlotInv'
  <1> USE DEF LockInv
  <1>0. slots \in [Pools -> SUBSET Callers]
    BY DEF UserLockTypeOK
  <1>1. ASSUME NEW c \in Callers, TakeSlot(c) PROVE SlotInv'
    <2> SUFFICES ASSUME NEW p \in Pools PROVE Cardinality(slots'[p]) <= Capacity(p)
      BY DEF SlotInv, Capacity
    <2>1. CASE p = PoolOf[c]
      <3>1. slots'[p] = slots[p] \cup {c}
        BY <1>0, <1>1, <2>1 DEF TakeSlot, Take
      <3>2. Cardinality(slots[p]) < Capacity(p)
        BY <1>1, <2>1 DEF TakeSlot, SlotFree
      <3>3. IsFiniteSet(slots[p]) /\ Cardinality(slots[p]) \in Nat
        BY FiniteHeld
      <3>4. Cardinality(slots[p] \cup {c}) <= Cardinality(slots[p]) + 1
        BY <3>3, FS_AddElement
      <3>5. IsFiniteSet(slots[p] \cup {c})
        BY <3>3, FS_AddElement
      <3>6. Cardinality(slots[p] \cup {c}) \in Nat
        BY <3>5, FS_CardinalityType
      <3> QED BY <3>1, <3>2, <3>3, <3>4, <3>6, CapacityBounds
    <2>2. CASE p # PoolOf[c]
      BY <1>0, <1>1, <2>2 DEF TakeSlot, Take, SlotInv
    <2> QED BY <2>1, <2>2
  <1>2. ASSUME NEW c \in Callers, slots' = Give(slots, c) PROVE SlotInv'
    <2> SUFFICES ASSUME NEW p \in Pools PROVE Cardinality(slots'[p]) <= Capacity(p)
      BY DEF SlotInv, Capacity
    <2>1. slots'[p] \in SUBSET slots[p]
      BY <1>0, <1>2 DEF Give
    <2>2. Cardinality(slots'[p]) <= Cardinality(slots[p]) /\ Cardinality(slots'[p]) \in Nat
      BY <2>1, FiniteHeld, FS_Subset, FS_CardinalityType
    <2>3. Cardinality(slots[p]) <= Capacity(p)
      BY DEF SlotInv
    <2> QED BY <2>2, <2>3, FiniteHeld, CapacityBounds
  <1>3. ASSUME UNCHANGED slots PROVE SlotInv'
    BY <1>3 DEF SlotInv, Capacity
  <1>4. \/ \E c \in Callers : TakeSlot(c) \/ slots' = Give(slots, c)
        \/ UNCHANGED slots
    BY DEF Next, Progress, WithUserLock, Acquire, Grant, WantQuery, BeginQuery, EndQuery,
       CallbackReturns, Unlock, UnlockFails, UnlockGone, Cancel, Return, SessionLost, SessionEnds,
       vars, held
  <1> QED BY <1>1, <1>2, <1>3, <1>4

LEMMA LockInvariant == Spec => []LockInv
  <1>1. LockInv /\ [Next]_vars => LockInv'
    BY TypeStep, OwnerStep, SlotStep DEF LockInv
  <1> QED BY <1>1, InitLockInv, PTL DEF Spec

-----------------------------------------------------------------------------
(* WithUserLock keeps its books: no path, cancellation and failed unlock       *)
(* included, leaks a slot or a connection.                                     *)
THEOREM UserLockTypeCorrect == Spec => []UserLockTypeOK
  BY LockInvariant, PTL DEF LockInv

(* WithUserLock: callbacks of one user whose sessions live exclude each other  *)
(* across all pools, also while callers that lost theirs run on and unlock.    *)
THEOREM MutualExclusionHolds == Spec => []MutualExclusion
  <1>1. LockInv => MutualExclusion
    BY DEF LockInv, OwnerInv, MutualExclusion
  <1> QED BY <1>1, LockInvariant, PTL

(* userLockSemaphore: half of every pool is left to the queries of callbacks.  *)
THEOREM HalfOfPoolLeftHolds == Spec => []HalfOfPoolLeft
  <1>1. LockInv => HalfOfPoolLeft
    <2> SUFFICES ASSUME LockInv, NEW p \in Pools
                 PROVE 2 * Cardinality(sessions[p]) <= MaxConns[p]
      BY DEF HalfOfPoolLeft
    <2>1. Cardinality(slots[p]) <= Capacity(p)
      BY DEF LockInv, SlotInv
    <2> QED BY <2>1, FiniteHeld, CapacityBounds, MaxConnsType DEF LockInv
  <1> QED BY <1>1, LockInvariant, PTL

(* When nothing but waiting is left, a pool has a connection to give. *)
LEMMA ConnLeft ==
  ASSUME LockInv, NEW p \in Pools, queries[p] = {}
  PROVE  ConnFree(p)
  <1>1. Cardinality(slots[p]) <= Capacity(p)
    BY DEF LockInv, SlotInv
  <1>2. Cardinality(sessions[p]) < MaxConns[p]
    BY <1>1, FiniteHeld, CapacityBounds, MaxConnsType DEF LockInv
  <1> QED BY <1>2, FS_EmptySet, FiniteHeld DEF ConnFree, LockInv

(* userLockSemaphore: the wait for slots, connections and locks has no cycle,  *)
(* for every size of the pools from two up.                                    *)
THEOREM NoGridlockHolds == Spec => []NoGridlock
  <1>1. LockInv => NoGridlock
    <2> SUFFICES ASSUME LockInv, NEW c \in Callers, pc[c] # "idle",
                        \A d \in Callers : ~Runnable(d),
                        \A u \in Users : owner[u] # Lost
                 PROVE FALSE
      BY DEF NoGridlock
    <2>0. pc \in [Callers -> Steps] /\ \A d \in Callers : PoolOf[d] \in Pools /\ UserOf[d] \in Users
      BY CallerType DEF LockInv, UserLockTypeOK
    <2>1. \A d \in Callers : pc[d] \in {"idle", "slot", "conn", "want", "ask", "wait"}
      BY <2>0 DEF Runnable, Steps
    <2>2. \A p \in Pools : queries[p] = {}
      BY <2>1 DEF LockInv, UserLockTypeOK
    <2>3. \A d \in Callers : pc[d] \notin {"conn", "want", "ask"}
      BY <2>0, <2>2, ConnLeft DEF Runnable
    <2>4. \A d \in Callers : pc[d] # "wait"
      <3> SUFFICES ASSUME NEW d \in Callers, pc[d] = "wait" PROVE FALSE
        OBVIOUS
      <3>1. owner[UserOf[d]] # Nobody
        BY DEF Runnable
      <3>2. owner[UserOf[d]] \in Callers
        BY <2>0, <3>1 DEF LockInv, UserLockTypeOK
      <3>3. pc[owner[UserOf[d]]] \in LockedSteps
        BY <2>0, <3>2 DEF LockInv, OwnerInv
      <3> QED BY <2>1, <2>3, <3>2, <3>3 DEF LockedSteps, SessionSteps, SlotSteps
    <2>5. pc[c] = "slot"
      BY <2>1, <2>3, <2>4
    <2>6. slots[PoolOf[c]] = {}
      BY <2>0, <2>1, <2>3, <2>4 DEF LockInv, UserLockTypeOK, SlotSteps
    <2>7. SlotFree(PoolOf[c])
      BY <2>0, <2>6, FS_EmptySet, CapacityBounds DEF SlotFree
    <2> QED BY <2>5, <2>7 DEF Runnable
  <1> QED BY <1>1, LockInvariant, PTL
=============================================================================
