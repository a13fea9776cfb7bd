-------------------------- MODULE ChatRecordsProofs --------------------------
(* Proofs about what the chat keeps for its users: the images admitted under  *)
(* the daily limit, the rules learned from their decisions and the entries    *)
(* their answers settle.                                                      *)
EXTENDS ChatProofs

-----------------------------------------------------------------------------
(* The daily limit.  An image counts from the moment its registration is     *)
(* charged, or its attempt has died before that.                             *)
Charged == {"queued", "review", "confirmed", "deleted"}
Uncharged == {"charge", "refuse", "unregister"}
Charging(m) == \E h \in Attempts : cur[h] = m /\ at[h] \in Uncharged

Counted(u) ==
  {m \in Messages : /\ receipt[m].owner = u
                    /\ \/ receipt[m].status \in Charged
                       \/ receipt[m].status = "received" /\ ~Charging(m)}

Least(a, b) == IF a < b THEN a ELSE b
Allowance(u) == Least(used[u], DailyLimit) + crashes + errors

(* While an attempt is between registration and charge, its row is as it     *)
(* left it.                                                                  *)
BudgetInv ==
  /\ \A u \in Users : DailyLimit > 0 => Cardinality(Counted(u)) <= Allowance(u)
  /\ \A h \in Attempts :
       at[h] \in Uncharged => receipt[cur[h]].status = "received" /\ receipt[cur[h]].owner = who[h]

LEMMA LeastGrows ==
  ASSUME NEW a \in Nat, NEW b \in Nat, NEW d \in Nat
  PROVE  /\ Least(a, d) \in Nat /\ Least(a, d) <= d
         /\ a <= b => Least(a, d) <= Least(b, d)
         /\ a + 1 <= d => Least(a + 1, d) = Least(a, d) + 1
<1>1. /\ a < d => Least(a, d) = a
      /\ ~(a < d) => Least(a, d) = d
      /\ b < d => Least(b, d) = b
      /\ ~(b < d) => Least(b, d) = d
      /\ a + 1 < d => Least(a + 1, d) = a + 1
      /\ ~(a + 1 < d) => Least(a + 1, d) = d
  BY DEF Least
<1> QED BY <1>1

LEMMA SumsGrow ==
  /\ \A a, b, c, d \in Nat : a <= c /\ b <= d => a + b <= c + d
  /\ \A a, b, c, d \in Nat : c + d = a + b + 1 => a + b + 1 <= c + d
  /\ \A a \in Nat : a <= a /\ a <= a + 1
  OBVIOUS

LEMMA SumGrows ==
  ASSUME NEW x \in Nat, NEW y \in Nat, NEW c \in Nat, NEW d \in Nat, NEW e \in Nat, NEW f \in Nat
  PROVE  /\ x + c + d \in Nat /\ y + e + f \in Nat
         /\ x <= y /\ c + d <= e + f => x + c + d <= y + e + f
         /\ x <= y /\ c + d + 1 <= e + f => x + c + d + 1 <= y + e + f
         /\ y = x + 1 /\ c + d <= e + f => x + c + d + 1 <= y + e + f
  OBVIOUS

LEMMA AllowanceGrows ==
  ASSUME CoreInv, CoreInv', NEW u \in Users
  PROVE  /\ Allowance(u) \in Nat /\ Allowance(u)' \in Nat
         /\ used[u] <= used'[u] /\ crashes + errors <= crashes' + errors' => Allowance(u) <= Allowance(u)'
         /\ used[u] <= used'[u] /\ crashes + errors + 1 <= crashes' + errors' => Allowance(u) + 1 <= Allowance(u)'
         /\ used'[u] = used[u] + 1 /\ used[u] + 1 <= DailyLimit /\ crashes + errors <= crashes' + errors'
              => Allowance(u) + 1 <= Allowance(u)'
<1>1. used[u] \in Nat /\ crashes \in Nat /\ errors \in Nat /\ DailyLimit \in Nat
  BY ChatSettings DEF CoreInv, ChatTypeOK, InboundTypeOK, RecordsTypeOK
<1>2. used'[u] \in Nat /\ crashes' \in Nat /\ errors' \in Nat
  BY DEF CoreInv, ChatTypeOK, InboundTypeOK, RecordsTypeOK
<1>3. Least(used[u], DailyLimit) \in Nat /\ Least(used'[u], DailyLimit) \in Nat
  BY <1>1, <1>2, LeastGrows
<1>4. Allowance(u) = Least(used[u], DailyLimit) + crashes + errors
  BY DEF Allowance
<1>5. Allowance(u)' = Least(used'[u], DailyLimit) + crashes' + errors'
  BY DEF Allowance, Least
<1>6. /\ used[u] <= used'[u] => Least(used[u], DailyLimit) <= Least(used'[u], DailyLimit)
      /\ used'[u] = used[u] + 1 /\ used[u] + 1 <= DailyLimit
           => Least(used'[u], DailyLimit) = Least(used[u], DailyLimit) + 1
  BY <1>1, <1>2, LeastGrows
<1>7. PICK x \in Nat : x = Least(used[u], DailyLimit)
  BY <1>3
<1>8. PICK y \in Nat : y = Least(used'[u], DailyLimit)
  BY <1>3
<1>9. /\ used[u] <= used'[u] => x <= y
      /\ used'[u] = used[u] + 1 /\ used[u] + 1 <= DailyLimit => y = x + 1
  BY <1>6, <1>7, <1>8
<1>10. Allowance(u) = x + crashes + errors /\ Allowance(u)' = y + crashes' + errors'
  BY <1>4, <1>5, <1>7, <1>8
<1>11. /\ x + crashes + errors \in Nat /\ y + crashes' + errors' \in Nat
       /\ x <= y /\ crashes + errors <= crashes' + errors' => x + crashes + errors <= y + crashes' + errors'
       /\ x <= y /\ crashes + errors + 1 <= crashes' + errors' => x + crashes + errors + 1 <= y + crashes' + errors'
       /\ y = x + 1 /\ crashes + errors <= crashes' + errors' => x + crashes + errors + 1 <= y + crashes' + errors'
  BY <1>1, <1>2, SumGrows, Zenon
<1> QED BY <1>9, <1>10, <1>11, Zenon

LEMMA CountGrows ==
  ASSUME CoreInv, CoreInv', NEW u \in Users, Cardinality(Counted(u)) <= Allowance(u),
         \/ Counted(u)' \subseteq Counted(u) /\ Allowance(u) <= Allowance(u)'
         \/ \E m \in Messages : Counted(u)' \subseteq Counted(u) \cup {m} /\ Allowance(u) + 1 <= Allowance(u)'
  PROVE  Cardinality(Counted(u)') <= Allowance(u)'
<1>1. IsFiniteSet(Messages)
  BY InboundBounds, FS_Interval DEF Messages
<1>2. IsFiniteSet(Counted(u)) /\ IsFiniteSet(Counted(u)')
  BY <1>1, FS_Subset DEF Counted
<1>3. Allowance(u) \in Nat /\ Allowance(u)' \in Nat
  BY AllowanceGrows
<1>4. Cardinality(Counted(u)) \in Nat /\ Cardinality(Counted(u)') \in Nat
  BY <1>2, FS_CardinalityType
<1>5. CASE Counted(u)' \subseteq Counted(u) /\ Allowance(u) <= Allowance(u)'
  <2>1. Cardinality(Counted(u)') <= Cardinality(Counted(u))
    BY <1>2, <1>5, FS_Subset
  <2> QED BY <1>3, <1>4, <1>5, <2>1
<1>6. ASSUME NEW m \in Messages, Counted(u)' \subseteq Counted(u) \cup {m}, Allowance(u) + 1 <= Allowance(u)'
      PROVE  Cardinality(Counted(u)') <= Allowance(u)'
  <2>1. /\ IsFiniteSet(Counted(u) \cup {m})
        /\ Cardinality(Counted(u) \cup {m}) <= Cardinality(Counted(u)) + 1
        /\ Cardinality(Counted(u) \cup {m}) \in Nat
    <3>1. /\ IsFiniteSet(Counted(u) \cup {m})
          /\ Cardinality(Counted(u) \cup {m}) = IF m \in Counted(u) THEN Cardinality(Counted(u))
                                                ELSE Cardinality(Counted(u)) + 1
      BY <1>2, FS_AddElement
    <3> QED BY <1>4, <3>1
  <2>2. Cardinality(Counted(u)') <= Cardinality(Counted(u) \cup {m})
    BY <1>6, <2>1, FS_Subset
  <2> QED BY <1>3, <1>4, <1>6, <2>1, <2>2
<1> QED BY <1>5, <1>6

(* Under the lock only the attempt that moves can be at a charge. *)
LEMMA LockedCharge ==
  ASSUME CoreInv, NEW h \in Attempts, at[h] \in LockedSteps, at[h] # "farewell", UNCHANGED cur,
         \A g \in Attempts : g # h => at'[g] = at[g]
  PROVE  /\ \A g \in Attempts : g # h => at[g] \notin Uncharged /\ at'[g] \notin Uncharged
         /\ \A m \in Messages : /\ Charging(m) <=> cur[h] = m /\ at[h] \in Uncharged
                                /\ Charging(m)' <=> cur[h] = m /\ at'[h] \in Uncharged
<1>1. \A g \in Attempts : g # h => at[g] \notin Uncharged /\ at'[g] \notin Uncharged
  BY LoneHolder DEF Uncharged, LockedSteps, ActiveSteps, CardSteps, EditSteps
<1> QED BY <1>1 DEF Charging

(* What a step may do to an image that leaves the count alone: it keeps its  *)
(* owner, and is admitted only when it counted already.                      *)
Tame(m) ==
  /\ receipt'[m].owner = receipt[m].owner
  /\ \/ receipt'[m].status = receipt[m].status
     \/ /\ receipt'[m].status \in Charged
        /\ receipt[m].status \in Charged \/ (receipt[m].status = "received" /\ ~Charging(m))

LEMMA BudgetKept ==
  ASSUME CoreInv, CoreInv', BudgetInv, UNCHANGED used, crashes <= crashes', errors <= errors',
         \A m \in Messages : Tame(m),
         \A g \in Attempts : at[g] \in Uncharged <=> at'[g] \in Uncharged,
         \A g \in Attempts : at[g] \in Uncharged => cur'[g] = cur[g] /\ who'[g] = who[g]
  PROVE  BudgetInv'
<1>1. \A m \in Messages : Charging(m) <=> Charging(m)'
  <2>1. ASSUME NEW m \in Messages, NEW g \in Attempts
        PROVE  (cur[g] = m /\ at[g] \in Uncharged) <=> (cur'[g] = m /\ at'[g] \in Uncharged)
    OBVIOUS
  <2> QED BY <2>1 DEF Charging
<1>2. ASSUME NEW u \in Users, DailyLimit > 0
      PROVE  Cardinality(Counted(u)') <= Allowance(u)'
  <2>1. Counted(u)' \subseteq Counted(u)
    BY <1>1 DEF Counted, Tame, Charged
  <2>2. Allowance(u) <= Allowance(u)'
    <3>1. used[u] \in Nat /\ crashes \in Nat /\ errors \in Nat
      BY DEF CoreInv, ChatTypeOK, InboundTypeOK, RecordsTypeOK
    <3>2. crashes' \in Nat /\ errors' \in Nat
      BY DEF CoreInv, ChatTypeOK, InboundTypeOK
    <3>3. used[u] <= used'[u]
      BY <3>1
    <3>4. crashes + errors <= crashes' + errors'
      BY <3>1, <3>2, SumsGrow
    <3> QED BY <3>3, <3>4, AllowanceGrows
  <2>3. Cardinality(Counted(u)) <= Allowance(u)
    BY <1>2 DEF BudgetInv
  <2> QED BY <2>1, <2>2, <2>3, CountGrows
<1>3. ASSUME NEW g \in Attempts, at'[g] \in Uncharged
      PROVE  receipt'[cur'[g]].status = "received" /\ receipt'[cur'[g]].owner = who'[g]
  <2>1. at[g] \in Uncharged /\ cur'[g] = cur[g] /\ who'[g] = who[g] /\ cur[g] \in Messages
    BY <1>3 DEF CoreInv, ChatTypeOK, InboundTypeOK
  <2>2. receipt[cur[g]].status = "received" /\ receipt[cur[g]].owner = who[g]
    BY <2>1 DEF BudgetInv
  <2>3. Tame(cur[g]) /\ Charging(cur[g])
    BY <2>1 DEF Charging
  <2> QED BY <2>1, <2>2, <2>3 DEF Tame, Charged
<1> QED BY <1>2, <1>3 DEF BudgetInv

(* A fault that takes an attempt away from its charge makes its image count. *)
LEMMA ChargeAbandoned ==
  ASSUME CoreInv, CoreInv', BudgetInv, NEW h \in Attempts, UNCHANGED <<used, receipt>>,
         crashes' + errors' = crashes + errors + 1,
         at'[h] \notin Uncharged,
         \A g \in Attempts : g # h => at'[g] = at[g] /\ cur'[g] = cur[g] /\ who'[g] = who[g]
  PROVE  BudgetInv'
<1>1. cur[h] \in Messages
  BY DEF CoreInv, ChatTypeOK, InboundTypeOK
<1>2. \A m \in Messages : m # cur[h] => (Charging(m) <=> Charging(m)')
  <2>1. ASSUME NEW m \in Messages, m # cur[h], NEW g \in Attempts
        PROVE  (cur[g] = m /\ at[g] \in Uncharged) <=> (cur'[g] = m /\ at'[g] \in Uncharged)
    BY <2>1
  <2> QED BY <2>1 DEF Charging
<1>3. ASSUME NEW u \in Users, DailyLimit > 0
      PROVE  Cardinality(Counted(u)') <= Allowance(u)'
  <2>1. Counted(u)' \subseteq Counted(u) \cup {cur[h]}
    BY <1>2 DEF Counted
  <2>2. Allowance(u) + 1 <= Allowance(u)'
    <3>1. used[u] \in Nat /\ crashes \in Nat /\ errors \in Nat
      BY DEF CoreInv, ChatTypeOK, InboundTypeOK, RecordsTypeOK
    <3>2. crashes' \in Nat /\ errors' \in Nat
      BY DEF CoreInv, ChatTypeOK, InboundTypeOK
    <3>3. used[u] <= used'[u]
      BY <3>1
    <3>4. crashes + errors + 1 <= crashes' + errors'
      BY <3>1, <3>2, SumsGrow
    <3> QED BY <3>3, <3>4, AllowanceGrows
  <2>3. Cardinality(Counted(u)) <= Allowance(u)
    BY <1>3 DEF BudgetInv
  <2> QED BY <1>1, <2>1, <2>2, <2>3, CountGrows
<1>4. \A g \in Attempts : at'[g] \in Uncharged =>
        receipt'[cur'[g]].status = "received" /\ receipt'[cur'[g]].owner = who'[g]
  BY DEF BudgetInv
<1> QED BY <1>3, <1>4 DEF BudgetInv

-----------------------------------------------------------------------------
(* Steps of an image. *)

LEMMA RegisterBudget ==
  ASSUME CoreInv, CoreInv', BudgetInv, NEW h \in Attempts, RegisterImage(h)
  PROVE  BudgetInv'
<1> DEFINE n == cur[h]
<1>0. /\ at \in [Attempts -> ChatSteps] /\ n \in Messages /\ receipt \in [Messages -> Document]
      /\ crashes \in Nat /\ errors \in Nat
  BY DEF CoreInv, ChatTypeOK, InboundTypeOK, RecordsTypeOK
<1>1. /\ at[h] = "register" /\ UNCHANGED <<used, crashes, errors, cur, who>>
      /\ \E s : at' = [at EXCEPT ![h] = s]
  BY DEF RegisterImage, Then, Goto, faults, local
<1>2. at[h] \in LockedSteps /\ at[h] # "farewell" /\ at[h] \notin Uncharged
  BY <1>1 DEF LockedSteps, ActiveSteps, Uncharged
<1>3. \A g \in Attempts : g # h => at'[g] = at[g]
  BY <1>0, <1>1
<1>4. CASE receipt[n].status # "none"
  <2>1. UNCHANGED receipt /\ at'[h] = AfterRegister(receipt[n].status)
    BY <1>0, <1>4 DEF RegisterImage, Then, Goto
  <2>2. at'[h] \notin Uncharged
    BY <2>1 DEF AfterRegister, Uncharged
  <2>3. \A m \in Messages : Tame(m)
    BY <2>1 DEF Tame
  <2> QED BY <1>0, <1>1, <1>2, <1>3, <2>2, <2>3, BudgetKept
<1>5. CASE receipt[n].status = "none"
  <2>1. /\ receipt' = [receipt EXCEPT ![n] = [status |-> "received", owner |-> who[h], job |-> FALSE]]
        /\ at' = [at EXCEPT ![h] = "charge"]
    BY <1>5 DEF RegisterImage, Then, Goto
  <2>2. /\ receipt'[n].status = "received" /\ receipt'[n].owner = who[h]
        /\ \A m \in Messages : m # n => receipt'[m] = receipt[m]
    BY <1>0, <2>1
  <2>3. at'[h] = "charge"
    BY <1>0, <2>1
  <2>4. \A m \in Messages : /\ Charging(m) <=> n = m /\ at[h] \in Uncharged
                            /\ Charging(m)' <=> n = m /\ at'[h] \in Uncharged
    BY <1>1, <1>2, <1>3, LockedCharge
  <2>5. \A g \in Attempts : g # h => at'[g] \notin Uncharged
    BY <1>1, <1>2, <1>3, LockedCharge
  <2> HIDE DEF n
  <2>6. ASSUME NEW u \in Users, DailyLimit > 0
        PROVE  Cardinality(Counted(u)') <= Allowance(u)'
    <3>1. Counted(u)' \subseteq Counted(u)
      BY <1>2, <2>2, <2>3, <2>4 DEF Counted, Charged, Uncharged
    <3>2. used[u] \in Nat
      BY DEF CoreInv, ChatTypeOK, RecordsTypeOK
    <3>3. Allowance(u) <= Allowance(u)'
      BY <1>0, <1>1, <3>2, SumsGrow, AllowanceGrows
    <3> QED BY <2>6, <3>1, <3>3, CountGrows DEF BudgetInv
  <2> QED BY <1>1, <2>2, <2>5, <2>6 DEF BudgetInv, n
<1> QED BY <1>4, <1>5

(* An image that is refused, or taken back, no longer counts. *)
LEMMA ImageLeaves ==
  ASSUME CoreInv, CoreInv', BudgetInv, NEW h \in Attempts, RefuseImage(h) \/ DeleteReceivedReceipt(h)
  PROVE  BudgetInv'
<1> DEFINE n == cur[h]
<1>0. /\ at \in [Attempts -> ChatSteps] /\ n \in Messages /\ receipt \in [Messages -> Document]
      /\ crashes \in Nat /\ errors \in Nat
  BY DEF CoreInv, ChatTypeOK, InboundTypeOK, RecordsTypeOK
<1>1. at[h] \in {"refuse", "unregister"}
  BY DEF RefuseImage, TransitionReceipt, DeleteReceivedReceipt
<1>2. receipt[n].status = "received"
  BY <1>1 DEF BudgetInv, Uncharged
<1>3. UNCHANGED <<used, crashes, errors, cur, who>> /\ at'[h] \in {"reply", "mark"}
      /\ \E s : at' = [at EXCEPT ![h] = s]
  BY <1>0, <1>2 DEF RefuseImage, TransitionReceipt, DeleteReceivedReceipt, Then, Leave, EndRoute, Goto, faults, local
<1>4. /\ receipt'[n].status \in {"none", "failed_permanent"}
      /\ \A m \in Messages : m # n => receipt'[m] = receipt[m]
  <2>1. CASE RefuseImage(h)
    <3>1. receipt' = [receipt EXCEPT ![n].status = "failed_permanent"]
      BY <1>2, <2>1 DEF RefuseImage, TransitionReceipt
    <3>2. receipt[n] \in [status : ReceiptStatus, owner : Users, job : BOOLEAN]
      BY <1>0, <1>2 DEF Document
    <3> HIDE DEF n
    <3> QED BY <1>0, <3>1, <3>2
  <2>2. CASE DeleteReceivedReceipt(h)
    <3>1. receipt' = [receipt EXCEPT ![n] = NoReceipt]
      BY <1>2, <2>2 DEF DeleteReceivedReceipt
    <3> HIDE DEF n
    <3> QED BY <1>0, <3>1 DEF NoReceipt
  <2> QED BY <2>1, <2>2
<1>5. /\ \A m \in Messages : (Charging(m) <=> n = m /\ at[h] \in Uncharged) /\ ~Charging(m)'
      /\ \A g \in Attempts : at'[g] \notin Uncharged
  <2>1. at[h] \in LockedSteps /\ at[h] # "farewell" /\ at'[h] \notin Uncharged
    BY <1>1, <1>3 DEF LockedSteps, ActiveSteps, Uncharged
  <2>2. \A g \in Attempts : g # h => at'[g] = at[g]
    BY <1>0, <1>3
  <2> QED BY <1>3, <2>1, <2>2, LockedCharge
<1> HIDE DEF n
<1>6. ASSUME NEW u \in Users, DailyLimit > 0
      PROVE  Cardinality(Counted(u)') <= Allowance(u)'
  <2>1. Counted(u)' \subseteq Counted(u)
    BY <1>4, <1>5 DEF Counted, Charged
  <2>2. Allowance(u) <= Allowance(u)'
    <3>1. used[u] \in Nat
      BY DEF CoreInv, ChatTypeOK, RecordsTypeOK
    <3> QED BY <1>0, <1>3, <3>1, SumsGrow, AllowanceGrows
  <2> QED BY <1>6, <2>1, <2>2, CountGrows DEF BudgetInv
<1> QED BY <1>5, <1>6 DEF BudgetInv

(* The charge: an image within the limit counts from here on, and so does    *)
(* the counter.                                                              *)
LEMMA ChargeBudget ==
  ASSUME CoreInv, CoreInv', BudgetInv, NEW h \in Attempts, IncrementUsage(h)
  PROVE  BudgetInv'
<1> DEFINE n == cur[h]
           v == who[h]
<1>0. /\ at \in [Attempts -> ChatSteps] /\ n \in Messages /\ used \in [Users -> Nat]
      /\ crashes \in Nat /\ errors \in Nat
  BY DEF CoreInv, ChatTypeOK, InboundTypeOK, RecordsTypeOK
<1>1. /\ at[h] = "charge" /\ UNCHANGED <<receipt, crashes, errors, cur, who>>
      /\ used' = [used EXCEPT ![v] = @ + 1]
      /\ at' = [at EXCEPT ![h] = IF OverLimit(v) THEN "refuse" ELSE "queue"]
  BY DEF IncrementUsage, Then, Goto, faults, local
<1>2. at[h] \in LockedSteps /\ at[h] # "farewell" /\ at[h] \in Uncharged
  BY <1>1 DEF LockedSteps, ActiveSteps, Uncharged
<1>3. \A g \in Attempts : g # h => at'[g] = at[g]
  BY <1>0, <1>1
<1>4. at'[h] = IF OverLimit(v) THEN "refuse" ELSE "queue"
  BY <1>0, <1>1
<1>5. receipt[n].status = "received" /\ receipt[n].owner = v /\ v \in Users
  BY <1>2, LoneHolder DEF BudgetInv
<1>6. \A m \in Messages : /\ Charging(m) <=> n = m /\ at[h] \in Uncharged
                          /\ Charging(m)' <=> n = m /\ at'[h] \in Uncharged
  BY <1>1, <1>2, <1>3, LockedCharge
<1>7. \A g \in Attempts : g # h => at'[g] \notin Uncharged
  BY <1>1, <1>2, <1>3, LockedCharge
<1>8. \A g \in Attempts : at'[g] \in Uncharged =>
        receipt'[cur'[g]].status = "received" /\ receipt'[cur'[g]].owner = who'[g]
  BY <1>1, <1>5, <1>7
<1> HIDE DEF n, v
<1>9. ASSUME NEW u \in Users, DailyLimit > 0
      PROVE  Cardinality(Counted(u)') <= Allowance(u)'
  <2>0. used[u] \in Nat /\ used'[u] \in {used[u], used[u] + 1} /\ (u = v => used'[u] = used[u] + 1)
    BY <1>0, <1>1
  <2>1. used[u] <= used'[u]
    BY <2>0
  <2>2. crashes + errors <= crashes' + errors'
    BY <1>0, <1>1, SumsGrow
  <2>3. CASE u # v \/ OverLimit(v)
    <3>1. Counted(u)' \subseteq Counted(u)
      BY <1>1, <1>2, <1>4, <1>5, <1>6, <2>3 DEF Counted, Charged, Uncharged
    <3> QED BY <1>9, <2>1, <2>2, <3>1, AllowanceGrows, CountGrows DEF BudgetInv
  <2>4. CASE u = v /\ ~OverLimit(v)
    <3>1. Counted(u)' \subseteq Counted(u) \cup {n}
      BY <1>1, <1>6 DEF Counted
    <3>2. used[u] + 1 <= DailyLimit
      BY <1>9, <2>0, <2>4, ChatSettings DEF OverLimit
    <3>3. Allowance(u) + 1 <= Allowance(u)'
      BY <2>0, <2>2, <2>4, <3>2, AllowanceGrows
    <3> QED BY <1>0, <1>9, <3>1, <3>3, CountGrows DEF BudgetInv
  <2> QED BY <2>3, <2>4
<1> QED BY <1>8, <1>9 DEF BudgetInv

(* What is queued has counted before. *)
LEMMA QueueBudget ==
  ASSUME CoreInv, CoreInv', BudgetInv, NEW h \in Attempts, QueueImage(h) \/ EnqueueReceiptJob(h)
  PROVE  BudgetInv'
<1> DEFINE n == cur[h]
<1>0. /\ at \in [Attempts -> ChatSteps] /\ n \in Messages /\ receipt \in [Messages -> Document]
      /\ crashes \in Nat /\ errors \in Nat
  BY DEF CoreInv, ChatTypeOK, InboundTypeOK, RecordsTypeOK
<1>1. at[h] \in {"queue", "enqueue"}
  BY DEF QueueImage, TransitionReceipt, EnqueueReceiptJob
<1>2. /\ UNCHANGED <<used, crashes, errors, cur, who>> /\ at'[h] \in {"enqueue", "reply", "mark"}
      /\ \E s : at' = [at EXCEPT ![h] = s]
  BY <1>0 DEF QueueImage, TransitionReceipt, EnqueueReceiptJob, Then, Leave, EndRoute, Goto, faults, local
<1>3. at[h] \in LockedSteps /\ at[h] # "farewell" /\ at[h] \notin Uncharged /\ at'[h] \notin Uncharged
  BY <1>1, <1>2 DEF LockedSteps, ActiveSteps, Uncharged
<1>4. \A g \in Attempts : g # h => at'[g] = at[g]
  BY <1>0, <1>2
<1>5. \A m \in Messages : ~Charging(m)
  BY <1>2, <1>3, <1>4, LockedCharge
<1>6. ASSUME NEW m \in Messages PROVE Tame(m)
  <2>1. receipt'[m].owner = receipt[m].owner
    <3>1. \/ receipt' = receipt
          \/ receipt' = [receipt EXCEPT ![n].status = "queued"]
          \/ receipt' = [receipt EXCEPT ![n].job = TRUE]
      BY DEF QueueImage, TransitionReceipt, EnqueueReceiptJob
    <3> HIDE DEF n
    <3>2. [receipt EXCEPT ![n].status = "queued"][m].owner = receipt[m].owner
      BY <1>0, ReceiptOwners
    <3>3. [receipt EXCEPT ![n].job = TRUE][m].owner = receipt[m].owner
      BY <1>0, ReceiptOwners
    <3> QED BY <3>1, <3>2, <3>3
  <2>2. receipt[m] \in [status : ReceiptStatus \cup {"none"}, owner : Owners, job : BOOLEAN]
    BY <1>0 DEF Document, Owners
  <2>3. CASE QueueImage(h) /\ receipt[n].status = "received"
    <3>1. receipt' = [receipt EXCEPT ![n].status = "queued"]
      BY <2>3 DEF QueueImage, TransitionReceipt
    <3> HIDE DEF n
    <3>2. receipt'[m].status = receipt[m].status \/ (m = n /\ receipt'[m].status = "queued")
      BY <1>0, <2>2, <3>1
    <3> QED BY <1>5, <2>1, <2>3, <3>2 DEF Tame, Charged
  <2>4. CASE QueueImage(h) /\ receipt[n].status # "received"
    BY <2>4 DEF Tame, QueueImage, TransitionReceipt
  <2>5. CASE EnqueueReceiptJob(h)
    <3>1. receipt' = [receipt EXCEPT ![n].job = TRUE]
      BY <2>5 DEF EnqueueReceiptJob
    <3> HIDE DEF n
    <3>2. receipt'[m].status = receipt[m].status
      BY <1>0, <2>2, <3>1
    <3> QED BY <2>1, <3>2 DEF Tame
  <2> QED BY <2>3, <2>4, <2>5
<1> QED BY <1>0, <1>2, <1>3, <1>4, <1>6, BudgetKept

-----------------------------------------------------------------------------
(* The other steps. *)

(* Away from images the chat only closes the review of a receipt. *)
LEMMA OtherReceipts ==
  ASSUME CoreInv, NEW h \in Attempts, OrdinaryStep(h), ~ImageStep(h), ~LockedStatementFails(h)
  PROVE  /\ UNCHANGED used /\ \A m \in Messages : Tame(m)
         /\ at[h] \notin Uncharged /\ at'[h] \notin Uncharged
<1>0. at \in [Attempts -> ChatSteps] /\ receipt \in [Messages -> Document]
  BY DEF CoreInv, ChatTypeOK, InboundTypeOK, RecordsTypeOK
<1>1. CASE SettleReceipt(h) \/ DiscardReceipt(h)
  <2> DEFINE t == pending[who[h]].tx
  <2>1. /\ UNCHANGED used
        /\ at[h] \in {"settle", "discard"} /\ \E s \in {"learn", "clear", "softDelete"} : at' = [at EXCEPT ![h] = s]
        /\ \/ receipt' = receipt
           \/ receipt[t].status = "review" /\ \E s \in {"confirmed", "deleted"} : receipt' = [receipt EXCEPT ![t].status = s]
    BY <1>1 DEF SettleReceipt, DiscardReceipt, Then, Goto
  <2> HIDE DEF t
  <2>2. CASE receipt' = receipt
    BY <1>0, <2>1, <2>2 DEF Tame, Uncharged
  <2>3. ASSUME NEW s \in {"confirmed", "deleted"}, receipt[t].status = "review",
               receipt' = [receipt EXCEPT ![t].status = s], NEW m \in Messages
        PROVE  Tame(m)
    <3>1. receipt'[m].owner = receipt[m].owner
      BY <1>0, <2>3, ReceiptOwners
    <3>2. receipt[m] \in [status : ReceiptStatus \cup {"none"}, owner : Owners, job : BOOLEAN]
      BY <1>0 DEF Document, Owners
    <3>3. receipt'[m].status = receipt[m].status \/ (m = t /\ receipt'[m].status = s)
      BY <1>0, <2>3, <3>2
    <3> QED BY <2>3, <3>1, <3>3 DEF Tame, Charged
  <2> QED BY <1>0, <2>1, <2>2, <2>3 DEF Uncharged
<1>2. CASE ~(SettleReceipt(h) \/ DiscardReceipt(h))
  <2>1. UNCHANGED <<receipt, used>>
    BY <1>2, Zenon DEF OrdinaryStep, CardStep, ConfirmTransaction, DiscardTransaction, SoftDelete, AskEdit,
       ApplyEdit, RejectEdit, ShowAgain, CreateManualDraft, ResolveMerchant, AddMerchantAlias, Learn,
       RejectEntry, EntryStep, AskDeleteRecent, DeleteRecent, DeleteRecentRefused, Recategorise, PersistInsight,
       WriteExport, ClearPendingAction, Reply, AskDelete, RemoveExportArtifacts, DeletionConfirmation, records
  <2>2. at[h] \notin Uncharged /\ at'[h] \notin Uncharged
    <3>1. CASE CardStep(h)
      BY <1>0, <3>1 DEF CardStep, ConfirmTransaction, SettleReceipt, DiscardReceipt, DiscardTransaction, SoftDelete,
         AskEdit, ApplyEdit, RejectEdit, ShowAgain, CreateManualDraft, ResolveMerchant, AddMerchantAlias, Learn,
         RejectEntry, Then, Leave, EndRoute, Goto, Uncharged
    <3>2. CASE EntryStep(h)
      BY <1>0, <3>2 DEF EntryStep, AskDeleteRecent, DeleteRecent, SoftDelete, DeleteRecentRefused, Recategorise,
         PersistInsight, WriteExport, Then, Leave, EndRoute, Goto, Uncharged
    <3>3. CASE ClearPendingAction(h) \/ Reply(h) \/ AskDelete(h) \/ RemoveExportArtifacts(h) \/ DeletionConfirmation(h)
      BY <1>0, <3>3 DEF ClearPendingAction, Reply, AskDelete, RemoveExportArtifacts, DeletionConfirmation,
         Then, Leave, EndRoute, Goto, Uncharged
    <3> QED BY <3>1, <3>2, <3>3 DEF OrdinaryStep
  <2> QED BY <2>1, <2>2 DEF Tame
<1> QED BY <1>1, <1>2

LEMMA FailureBudget ==
  ASSUME CoreInv, CoreInv', BudgetInv, NEW h \in Attempts, LockedStatementFails(h)
  PROVE  BudgetInv'
<1>0. at \in [Attempts -> ChatSteps] /\ crashes \in Nat /\ errors \in Nat
  BY DEF CoreInv, ChatTypeOK, InboundTypeOK
<1>1. /\ UNCHANGED <<receipt, used, cur, who, crashes>> /\ errors' = errors + 1
      /\ \E s : at' = [at EXCEPT ![h] = s]
  BY DEF LockedStatementFails, records, Goto, EndRoute
<1>2. IF at[h] = "charge" THEN at'[h] = "unregister" ELSE at'[h] \in {"learn", "clear", "reply", "mark"}
  BY <1>0 DEF LockedStatementFails, Goto, EndRoute
<1>3. \A g \in Attempts : g # h => at'[g] = at[g]
  BY <1>0, <1>1
<1>4. CASE at[h] \in Uncharged /\ at[h] # "charge"
  <2>1. at'[h] \notin Uncharged
    BY <1>2, <1>4 DEF Uncharged
  <2>2. crashes' + errors' = crashes + errors + 1
    BY <1>0, <1>1
  <2> QED BY <1>1, <1>3, <2>1, <2>2, ChargeAbandoned
<1>5. CASE ~(at[h] \in Uncharged /\ at[h] # "charge")
  <2>1. at[h] \in Uncharged <=> at'[h] \in Uncharged
    BY <1>2, <1>5 DEF Uncharged
  <2>2. crashes <= crashes' /\ errors <= errors'
    BY <1>0, <1>1
  <2>3. \A m \in Messages : Tame(m)
    BY <1>1 DEF Tame
  <2> QED BY <1>1, <1>3, <2>1, <2>2, <2>3, BudgetKept
<1> QED BY <1>4, <1>5

LEMMA OrdinaryBudget ==
  ASSUME CoreInv, CoreInv', BudgetInv, NEW h \in Attempts, OrdinaryStep(h)
  PROVE  BudgetInv'
<1>1. CASE ImageStep(h)
  BY <1>1, RegisterBudget, ChargeBudget, ImageLeaves, QueueBudget DEF ImageStep
<1>2. CASE LockedStatementFails(h)
  BY <1>2, FailureBudget
<1>3. CASE ~ImageStep(h) /\ ~LockedStatementFails(h)
  <2>1. /\ UNCHANGED used /\ \A m \in Messages : Tame(m)
        /\ at[h] \notin Uncharged /\ at'[h] \notin Uncharged
    BY <1>3, OtherReceipts
  <2>2. Ordinary(h)
    BY OrdinaryMoves
  <2>3. UNCHANGED <<cur, who, crashes>> /\ \A g \in Attempts : g # h => at'[g] = at[g]
    BY <2>2 DEF Ordinary, GoesOn, EndsRoute, Goto, CoreInv, ChatTypeOK, InboundTypeOK
  <2>4. crashes <= crashes' /\ errors <= errors'
    <3>1. crashes \in Nat /\ errors \in Nat /\ errors' \in {errors, errors + 1}
      BY <2>2 DEF Ordinary, CoreInv, ChatTypeOK, InboundTypeOK
    <3> QED BY <2>3, <3>1
  <2> QED BY <2>1, <2>3, <2>4, BudgetKept
<1> QED BY <1>1, <1>2, <1>3

(* No message leads straight into the middle of a handler. *)
Inner == Uncharged \cup {"settle", "learn", "relearn"}

LEMMA RoutedOutside ==
  ASSUME CoreInv, NEW u \in Users, NEW m \in DOMAIN script, users[u] \in {"pending", "active", "suspended"}
  PROVE  RouteStep(m, u) \notin Inner
<1>1. script[m] \in Contents
  BY DEF CoreInv, ChatTypeOK, InboundTypeOK
<1>2. Open(u).kind \in About \cup {"none", "delaccount"}
  BY DEF CoreInv, ChatTypeOK, RecordsTypeOK, Open, PendingRow, NoPending, About
<1>3. FreshStep(script[m]) \notin Inner
  BY <1>1 DEF FreshStep, Inner, Uncharged
<1>4. ConfirmStep(script[m], Open(u).tx) \notin Inner
  BY <1>1, <1>3 DEF ConfirmStep, Inner, Uncharged
<1>5. TextStep(script[m], Open(u))
        \in {FreshStep(script[m]), "clear", "markDeleting", ConfirmStep(script[m], Open(u).tx), "applyEdit", "deleteRecent"}
  BY <1>2, AnsweredStep
<1>6. RouteStep(m, u) \in {"reply", "consent", "register", TextStep(script[m], Open(u))}
  <2>1. CASE ~allowed \/ users[u] = "suspended"
    BY <2>1 DEF RouteStep
  <2>2. CASE allowed /\ users[u] = "pending"
    BY <2>2 DEF RouteStep, ConsentStep
  <2>3. CASE allowed /\ users[u] = "active"
    <3>1. RouteStep(m, u) = ActiveStep(script[m], Open(u))
      BY <2>3 DEF RouteStep
    <3>2. ActiveStep(script[m], Open(u)) \in {"register", "reply", TextStep(script[m], Open(u))}
      BY DEF ActiveStep
    <3> QED BY <3>1, <3>2
  <2> QED BY <2>1, <2>2, <2>3
<1> HIDE DEF RouteStep, TextStep, ConfirmStep, FreshStep, Open
<1> QED BY <1>3, <1>4, <1>5, <1>6 DEF Inner, Uncharged

(* A purge leaves its user without images and without a count. *)
LEMMA PurgeBudget ==
  ASSUME CoreInv, CoreInv', BudgetInv, NEW h \in Attempts, Purges(h)
  PROVE  BudgetInv'
<1> DEFINE v == who[h]
<1>0. /\ at \in [Attempts -> ChatSteps] /\ receipt \in [Messages -> Document] /\ used \in [Users -> Nat]
      /\ cur \in [Attempts -> Messages]
  BY DEF CoreInv, ChatTypeOK, InboundTypeOK, RecordsTypeOK
<1>1. /\ at[h] = "purge" /\ UNCHANGED <<cur, who, crashes, errors>> /\ at' = [at EXCEPT ![h] = "farewell"]
      /\ used' = [used EXCEPT ![v] = 0]
      /\ receipt' = [m \in Messages |-> IF receipt[m].owner = v THEN NoReceipt ELSE receipt[m]]
  BY DEF Purges, EraseRecords, local, faults, Goto
<1>2. at[h] \in LockedSteps /\ at[h] # "farewell" /\ at[h] \notin Uncharged
  BY <1>1 DEF LockedSteps, GoingSteps, Uncharged
<1>3. \A g \in Attempts : g # h => at'[g] = at[g]
  BY <1>0, <1>1
<1>4. /\ \A g \in Attempts : at[g] \notin Uncharged /\ at'[g] \notin Uncharged
      /\ \A m \in Messages : ~Charging(m) /\ ~Charging(m)'
  <2>1. at'[h] = "farewell"
    BY <1>0, <1>1
  <2> QED BY <1>1, <1>2, <1>3, <2>1, LockedCharge DEF Uncharged
<1>5. v \in Users /\ NoUser \notin Users
  BY <1>2, LoneHolder DEF Users, NoUser
<1> HIDE DEF v
<1>6. ASSUME NEW u \in Users, DailyLimit > 0
      PROVE  Cardinality(Counted(u)') <= Allowance(u)'
  <2>1. Counted(u)' = IF u = v THEN {} ELSE Counted(u)
    BY <1>1, <1>4, <1>5 DEF Counted, NoReceipt
  <2>2. CASE u = v
    <3>1. Counted(u)' = {}
      BY <2>1, <2>2
    <3>2. Cardinality(Counted(u)') = 0
      BY <3>1, FS_EmptySet
    <3>3. Allowance(u)' \in Nat
      BY AllowanceGrows
    <3> QED BY <3>2, <3>3
  <2>3. CASE u # v
    <3>1. crashes \in Nat /\ errors \in Nat /\ used[u] \in Nat /\ used'[u] = used[u]
      BY <1>0, <1>1, <2>3 DEF CoreInv, ChatTypeOK, InboundTypeOK
    <3>2. Allowance(u) <= Allowance(u)'
      BY <1>1, <3>1, SumsGrow, AllowanceGrows
    <3>3. Counted(u)' \subseteq Counted(u)
      BY <2>1, <2>3
    <3> QED BY <1>6, <3>2, <3>3, CountGrows DEF BudgetInv
  <2> QED BY <2>2, <2>3
<1> QED BY <1>4, <1>6 DEF BudgetInv

(* Outside the lock only a crash takes an attempt away from its charge. *)
LEMMA OutsideBudget ==
  ASSUME CoreInv, CoreInv', BudgetInv, NEW h \in Attempts, OutsideStep(h), UNCHANGED chatVars
  PROVE  BudgetInv'
<1>0. at \in [Attempts -> ChatSteps] /\ crashes \in Nat /\ errors \in Nat
  BY DEF CoreInv, ChatTypeOK, InboundTypeOK
<1>1. UNCHANGED <<used, receipt>>
  BY DEF chatVars, records
<1>2. /\ at'[h] \in OpenSteps
      /\ \A g \in Attempts : g # h => at'[g] = at[g] /\ cur'[g] = cur[g] /\ who'[g] = who[g]
  BY <1>0, OutsideMoves DEF Outside, Goto
<1>3. at'[h] \notin Uncharged
  BY <1>2 DEF OpenSteps, Uncharged
<1>4. CASE at[h] \in Uncharged
  <2>1. Crash(h)
    BY <1>4 DEF OutsideStep, Deliver, InboundStep, ClaimProviderMessage, ResolveUser, CreateUserWithIdentity,
       SetProviderMessageUser, MarkProviderMessage, AnswerLost, StatementFails, Uncharged
  <2>2. crashes' = crashes + 1 /\ errors' = errors
    BY <2>1 DEF Crash
  <2>3. crashes' + errors' = crashes + errors + 1
    BY <1>0, <2>2
  <2> QED BY <1>1, <1>2, <1>3, <2>3, ChargeAbandoned
<1>5. CASE at[h] \notin Uncharged
  <2>1. errors' \in {errors, errors + 1} /\ crashes' \in {crashes, crashes + 1}
    BY OutsideRows
  <2>2. crashes <= crashes' /\ errors <= errors'
    BY <1>0, <2>1
  <2>3. \A m \in Messages : Tame(m)
    BY <1>1 DEF Tame
  <2> QED BY <1>1, <1>2, <1>3, <1>5, <2>2, <2>3, BudgetKept
<1> QED BY <1>4, <1>5

(* A step that touches no image and no attempt at a charge. *)
LEMMA BudgetStays ==
  ASSUME CoreInv, CoreInv', BudgetInv, UNCHANGED <<used, receipt, cur, who, crashes, errors>>,
         \A g \in Attempts : at[g] \in Uncharged <=> at'[g] \in Uncharged
  PROVE  BudgetInv'
<1>1. crashes <= crashes' /\ errors <= errors'
  <2>1. crashes \in Nat /\ errors \in Nat
    BY DEF CoreInv, ChatTypeOK, InboundTypeOK
  <2> QED BY <2>1
<1>2. \A m \in Messages : Tame(m)
  BY DEF Tame
<1> QED BY <1>1, <1>2, BudgetKept

LEMMA EnterBudget ==
  ASSUME CoreInv, CoreInv', BudgetInv, NEW h \in Attempts, Enter(h)
  PROVE  BudgetInv'
<1>0. at \in [Attempts -> ChatSteps]
  BY DEF CoreInv, ChatTypeOK, InboundTypeOK
<1>1. /\ at[h] = "enter" /\ who[h] \in Users /\ cur[h] \in DOMAIN script
      /\ Enters(h) \/ PassesBy(h)
      /\ UNCHANGED <<used, receipt, cur, who, crashes, errors>>
  BY EnterMoves DEF faults
<1>2. at'[h] \notin Uncharged /\ \A g \in Attempts : g # h => at'[g] = at[g]
  <2>1. CASE PassesBy(h)
    BY <1>0, <2>1 DEF PassesBy, Uncharged
  <2>2. CASE Enters(h)
    <3>1. ~Gone(who[h]) /\ users[who[h]] \in {"pending", "active", "suspended"}
      BY <2>2 DEF Enters, Gone
    <3> DEFINE step == RouteStep(cur[h], who[h])
    <3>2. step \notin Uncharged
      BY <1>1, <3>1, RoutedOutside DEF Inner
    <3>3. Goto(h, IF step = "reshow" THEN "reply" ELSE step)
      BY <3>1 DEF Enter
    <3> HIDE DEF step
    <3> QED BY <1>0, <3>2, <3>3 DEF Goto, Uncharged
  <2> QED BY <1>1, <2>1, <2>2
<1>3. at[h] \notin Uncharged
  BY <1>1 DEF Uncharged
<1> QED BY <1>1, <1>2, <1>3, BudgetStays

(* The review of a queued image. *)
LEMMA WorkerBudget ==
  ASSUME CoreInv, CoreInv', BudgetInv, WorkerStep
  PROVE  BudgetInv'
<1>1. CASE SendReviewCard
  BY <1>1, BudgetStays DEF SendReviewCard, records, local, faults
<1>2. ASSUME NEW n \in Messages, FinalizeReceiptReview(n)
      PROVE  BudgetInv'
  <2>1. /\ UNCHANGED <<used, cur, who, at, crashes, errors>> /\ receipt[n].status = "queued"
        /\ receipt' = [receipt EXCEPT ![n].status = "review", ![n].job = FALSE]
    BY <1>2 DEF FinalizeReceiptReview, Reviewable, ReviewOf, local, faults
  <2>2. receipt \in [Messages -> Document] /\ crashes \in Nat /\ errors \in Nat
    BY DEF CoreInv, ChatTypeOK, InboundTypeOK, RecordsTypeOK
  <2>3. ASSUME NEW m \in Messages PROVE Tame(m)
    <3>1. receipt[m] \in [status : ReceiptStatus \cup {"none"}, owner : Owners, job : BOOLEAN]
      BY <2>2 DEF Document, Owners
    <3>2. CASE m = n
      <4>1. receipt'[m] = [receipt[m] EXCEPT !.status = "review", !.job = FALSE]
        BY <2>1, <2>2, <3>2
      <4>2. receipt'[m].status = "review" /\ receipt'[m].owner = receipt[m].owner
        BY <3>1, <4>1
      <4> QED BY <2>1, <3>2, <4>2 DEF Tame, Charged
    <3>3. CASE m # n
      BY <2>1, <2>2, <3>3 DEF Tame
    <3> QED BY <3>2, <3>3
  <2>4. crashes <= crashes' /\ errors <= errors'
    BY <2>1, <2>2
  <2> QED BY <2>1, <2>3, <2>4, BudgetKept
<1> QED BY <1>1, <1>2 DEF WorkerStep

LEMMA BudgetStep ==
  ASSUME CoreInv, CoreInv', BudgetInv, [Next]_vars
  PROVE  BudgetInv'
<1>0. at \in [Attempts -> ChatSteps]
  BY DEF CoreInv, ChatTypeOK, InboundTypeOK
<1>1. ASSUME NEW m \in Messages, Quarantine(m) \/ ClaimExpires(m) \/ ClaimOutlived(m) \/ DeleteExpiredTombstone(m), UNCHANGED chatVars
      PROVE  BudgetInv'
  <2>1. UNCHANGED <<used, receipt, cur, who, at, crashes, errors>>
    BY <1>1 DEF Quarantine, ClaimExpires, ClaimOutlived, DeleteExpiredTombstone, local, faults, chatVars, records
  <2> QED BY <2>1, BudgetStays
<1>2. ASSUME NEW h \in Attempts, SetConsent(h) \/ BeginAccountDeletion(h)
      PROVE  BudgetInv'
  <2>1. UNCHANGED <<used, receipt, cur, who, crashes, errors>>
    BY <1>2, NewStatusMoves DEF NewStatus, local, faults, records
  <2>2. at[h] \notin Uncharged /\ at'[h] \notin Uncharged /\ \A g \in Attempts : g # h => at'[g] = at[g]
    BY <1>0, <1>2, NewStatusMoves DEF NewStatus, Goto, Uncharged
  <2> QED BY <2>1, <2>2, BudgetStays
<1>3. ASSUME NEW h \in Attempts, PurgeAccountData(h)
      PROVE  BudgetInv'
  <2>1. CASE Purges(h)
    BY <2>1, PurgeBudget
  <2>2. CASE Ordinary(h) /\ EndsRoute(h) /\ at[h] = "purge" /\ UNCHANGED <<chatVars, errors>>
    <3>1. UNCHANGED <<used, receipt, cur, who, crashes, errors>>
      BY <2>2 DEF Ordinary, chatVars, records
    <3>2. at[h] \notin Uncharged /\ at'[h] \notin Uncharged /\ \A g \in Attempts : g # h => at'[g] = at[g]
      BY <1>0, <2>2 DEF EndsRoute, Uncharged
    <3> QED BY <3>1, <3>2, BudgetStays
  <2> QED BY <1>3, <2>1, <2>2, PurgeMoves
<1>4. ASSUME NEW u \in Users, PendingExpires(u)
      PROVE  BudgetInv'
  <2>1. UNCHANGED <<used, receipt, cur, who, at, crashes, errors>>
    BY <1>4 DEF PendingExpires, inboundVars, local, faults
  <2> QED BY <2>1, BudgetStays
<1>5. CASE UNCHANGED vars
  <2>1. UNCHANGED <<used, receipt, cur, who, at, crashes, errors>>
    BY <1>5 DEF vars, inboundVars, chatVars, records, local, faults
  <2> QED BY <2>1, BudgetStays
<1>6. CASE Next
  BY <1>1, <1>2, <1>3, <1>4, <1>6, StepKinds, OutsideBudget, EnterBudget, OrdinaryBudget, WorkerBudget
<1> QED BY <1>5, <1>6

LEMMA BudgetInit ==
  ASSUME ChatInit
  PROVE  BudgetInv
<1>1. \A h \in Attempts : at[h] = "idle"
  BY DEF ChatInit, InboundInit
<1>2. ASSUME NEW u \in Users
      PROVE  Cardinality(Counted(u)) <= Allowance(u)
  <2>1. Counted(u) = {}
    BY DEF ChatInit, NoReceipt, Counted, Charged
  <2>2. Cardinality(Counted(u)) = 0
    BY <2>1, FS_EmptySet
  <2>3. used[u] = 0 /\ crashes = 0 /\ errors = 0 /\ DailyLimit \in Nat
    BY ChatSettings DEF ChatInit, InboundInit
  <2>4. Allowance(u) = 0
    BY <2>3 DEF Allowance, Least
  <2> QED BY <2>2, <2>4
<1> QED BY <1>1, <1>2 DEF BudgetInv, Uncharged

(* handleImage and IncrementUsage: however attempts are repeated, a user has *)
(* no more images admitted in a day than the limit allows, but for one image *)
(* for each crash or failed statement.                                       *)
THEOREM DailyLimitSafe == Spec => []DailyLimitHolds
<1>1. ASSUME CoreInv, BudgetInv
      PROVE  DailyLimitHolds
  <2> SUFFICES ASSUME DailyLimit > 0, NEW u \in Users
               PROVE  Cardinality(Admitted(u)) <= DailyLimit + crashes + errors
    BY DEF DailyLimitHolds
  <2>1. Admitted(u) \subseteq Counted(u)
    BY DEF Admitted, Counted, Charged
  <2>2. IsFiniteSet(Counted(u))
    <3>1. IsFiniteSet(Messages)
      BY InboundBounds, FS_Interval DEF Messages
    <3> QED BY <3>1, FS_Subset DEF Counted
  <2>3. Cardinality(Admitted(u)) <= Cardinality(Counted(u))
    BY <2>1, <2>2, FS_Subset
  <2>4. Cardinality(Admitted(u)) \in Nat /\ Cardinality(Counted(u)) \in Nat
    BY <2>1, <2>2, FS_Subset, FS_CardinalityType
  <2>5. Cardinality(Counted(u)) <= Least(used[u], DailyLimit) + crashes + errors
    BY <1>1 DEF BudgetInv, Allowance
  <2>6. used[u] \in Nat /\ crashes \in Nat /\ errors \in Nat /\ DailyLimit \in Nat
    BY <1>1, ChatSettings DEF CoreInv, ChatTypeOK, InboundTypeOK, RecordsTypeOK
  <2>7. Least(used[u], DailyLimit) \in Nat /\ Least(used[u], DailyLimit) <= DailyLimit
    BY <2>6, LeastGrows
  <2>8. \A a, b, x, d, c, e \in Nat : a <= b /\ b <= x + c + e /\ x <= d => a <= d + c + e
    OBVIOUS
  <2> HIDE DEF Least
  <2> QED BY <2>3, <2>4, <2>5, <2>6, <2>7, <2>8, Zenon
<1>2. Spec => [](CoreInv /\ BudgetInv)
  <2>1. ChatInit => CoreInv /\ BudgetInv
    BY CoreInit, BudgetInit
  <2>2. CoreInv /\ BudgetInv /\ [Next]_vars => (CoreInv /\ BudgetInv)'
    BY CoreStep, BudgetStep
  <2> QED BY <2>1, <2>2, PTL DEF Spec
<1> QED BY <1>1, <1>2, PTL

-----------------------------------------------------------------------------
(* What is learned.  An attempt owes a lesson from the decision it commits   *)
(* until the rule is stored.                                                 *)
Teaching == {"settle", "learn", "relearn"}
Taught(h) == IF at[h] = "relearn" THEN say[h].tx ELSE pending[who[h]].tx
Faultless == crashes + errors = 0

UpToDate(u) ==
  /\ rule[u].n = Len(lessons[u])
  /\ lessons[u] # <<>> => rule[u].category = lessons[u][Len(lessons[u])]

RuleInv(u) ==
  /\ rule[u].n <= Len(lessons[u])
  /\ rule[u].n < 2 => rule[u].confidence < UserRuleApplyConfidence
  /\ Faultless => UpToDate(u) \/ \E h \in Attempts : at[h] \in Teaching /\ who[h] = u

OweInv(h) ==
  at[h] \in Teaching =>
    /\ rule[who[h]].n < Len(lessons[who[h]])
    /\ Faultless => rule[who[h]].n + 1 = Len(lessons[who[h]])
    /\ lessons[who[h]][Len(lessons[who[h]])] = tx[Taught(h)].category

(* A draft has version one, and an entry that was decided a higher one. *)
DraftInv(t) ==
  /\ tx[t].status # "none" => tx[t].ver > 0
  /\ tx[t].ver = 1 /\ tx[t].category = "other" => tx[t].owner \in Users /\ Len(lessons[tx[t].owner]) > 1

LessonInv ==
  /\ \A u \in Users : RuleInv(u)
  /\ \A h \in Attempts : OweInv(h)
  /\ \A t \in Messages : DraftInv(t)
  /\ \A u \in Users : pending[u].kind \in About => tx[pending[u].tx].ver > 0

LEMMA LessonsOf ==
  ASSUME CoreInv, NEW u \in Users
  PROVE  /\ Len(lessons[u]) \in Nat /\ rule[u].n \in Nat /\ crashes \in Nat /\ errors \in Nat
         /\ lessons[u] \in Seq(Categories \cup {"none"}) /\ rule[u].confidence \in Int
  BY DEF CoreInv, ChatTypeOK, InboundTypeOK, MemoryTypeOK, Rule

LEMMA TeachingHolds ==
  ASSUME CoreInv, NEW h \in Attempts, at[h] \in Teaching
  PROVE  /\ at[h] \in LockedSteps /\ at[h] # "farewell" /\ who[h] \in Users
         /\ Taught(h) \in Messages
<1>1. at[h] \in LockedSteps /\ at[h] # "farewell"
  BY DEF Teaching, LockedSteps, ActiveSteps, CardSteps
<1>2. who[h] \in Users
  BY <1>1, LoneHolder
<1>3. at[h] = "relearn" => say[h].tx \in Messages
  BY DEF CoreInv, QuestionInv
<1>4. at[h] # "relearn" => pending[who[h]].tx \in Messages
  BY SubjectKnown DEF Teaching, CardSteps
<1> QED BY <1>1, <1>2, <1>3, <1>4 DEF Taught

LEMMA FaultsCount ==
  ASSUME CoreInv, CoreInv'
  PROVE  /\ Faultless <=> crashes = 0 /\ errors = 0
         /\ Faultless' <=> crashes' = 0 /\ errors' = 0
         /\ crashes \in Nat /\ errors \in Nat
<1>1. crashes \in Nat /\ errors \in Nat
  BY DEF CoreInv, ChatTypeOK, InboundTypeOK
<1>2. crashes' \in Nat /\ errors' \in Nat
  BY DEF CoreInv, ChatTypeOK, InboundTypeOK
<1>3. \A a, b \in Nat : a + b = 0 <=> a = 0 /\ b = 0
  OBVIOUS
<1>4. Faultless' <=> crashes' + errors' = 0
  BY DEF Faultless
<1> QED BY <1>1, <1>2, <1>3, <1>4 DEF Faultless

(* What a step may do to an entry: leave it, decide on it, or draft it. *)
Mild(t) ==
  \/ tx'[t] = tx[t]
  \/ tx'[t].ver > 1
  \/ tx'[t].status = "none" /\ tx'[t].category = "none"
  \/ \E u \in Users : tx'[t] = Draft(t, u)

LEMMA MildKeeps ==
  ASSUME CoreInv, CoreInv', LessonInv, NEW t \in Messages, Mild(t),
         \A u \in Users : tx[t].owner = u => Len(lessons[u]) <= Len(lessons'[u]),
         \A u \in Users : rule[u].n <= Len(lessons'[u]) \/ tx'[t] # Draft(t, u)
  PROVE  DraftInv(t)'
<1>0. /\ tx[t].ver \in Nat /\ tx'[t].ver \in Nat
      /\ \A u \in Users : Len(lessons[u]) \in Nat /\ Len(lessons'[u]) \in Nat /\ rule[u].n \in Nat
      /\ \A u \in Users : rule[u].confidence \in Int
  BY LessonsOf DEF CoreInv, ChatTypeOK, RecordsTypeOK, MemoryTypeOK, Entry
<1>1. CASE tx'[t] = tx[t]
  <2>1. DraftInv(t)
    BY DEF LessonInv
  <2> QED BY <1>0, <1>1, <2>1 DEF DraftInv
<1>2. CASE tx'[t].ver > 1
  BY <1>0, <1>2 DEF DraftInv
<1>3. CASE tx'[t].status = "none" /\ tx'[t].category = "none"
  BY <1>3 DEF DraftInv
<1>4. ASSUME NEW u \in Users, tx'[t] = Draft(t, u)
      PROVE  DraftInv(t)'
  <2>1. tx'[t].owner = u /\ tx'[t].category = SuggestCategory(u) /\ tx'[t].ver = tx[t].ver + 1
    BY <1>4 DEF Draft
  <2>2. SuggestCategory(u) = "other" => rule[u].confidence >= UserRuleApplyConfidence
    BY DEF SuggestCategory
  <2>3. SuggestCategory(u) = "other" => rule[u].n >= 2
    BY <1>0, <2>2 DEF LessonInv, RuleInv, UserRuleApplyConfidence
  <2>4. SuggestCategory(u) = "other" => Len(lessons'[u]) > 1
    <3>1. rule[u].n <= Len(lessons'[u])
      BY <1>4
    <3> QED BY <1>0, <2>3, <3>1
  <2> QED BY <1>0, <1>4, <2>1, <2>4 DEF DraftInv
<1> QED BY <1>1, <1>2, <1>3, <1>4 DEF Mild

(* Steps that teach nothing and learn nothing. *)
LEMMA LessonsKept ==
  ASSUME CoreInv, CoreInv', LessonInv, UNCHANGED <<rule, lessons>>, Faultless' => Faultless,
         \A t \in Messages : Mild(t),
         \A u \in Users : pending'[u].kind \in About => tx'[pending'[u].tx].ver > 0,
         \A g \in Attempts : at[g] \in Teaching => who'[g] = who[g],
         \A g \in Attempts : at[g] \in Teaching /\ Faultless' => at'[g] \in Teaching,
         \A g \in Attempts : at'[g] \in Teaching =>
            at[g] \in Teaching /\ Taught(g)' = Taught(g) /\ tx'[Taught(g)].category = tx[Taught(g)].category
  PROVE  LessonInv'
<1>1. ASSUME NEW u \in Users
      PROVE  RuleInv(u)'
  <2>1. RuleInv(u)
    BY DEF LessonInv
  <2>2. UpToDate(u)' <=> UpToDate(u)
    BY DEF UpToDate
  <2> QED BY <2>1, <2>2 DEF RuleInv
<1>2. ASSUME NEW g \in Attempts, at'[g] \in Teaching
      PROVE  OweInv(g)'
  <2>1. at[g] \in Teaching /\ OweInv(g) /\ who'[g] = who[g]
    BY <1>2 DEF LessonInv
  <2>2. tx'[Taught(g)'].category = tx[Taught(g)].category
    BY <1>2
  <2> QED BY <2>1, <2>2 DEF OweInv
<1>3. ASSUME NEW t \in Messages PROVE DraftInv(t)'
  <2>1. \A u \in Users : Len(lessons[u]) <= Len(lessons'[u]) /\ rule[u].n <= Len(lessons'[u])
    BY LessonsOf DEF LessonInv, RuleInv
  <2> QED BY <2>1, MildKeeps
<1>4. \A g \in Attempts : OweInv(g)'
  BY <1>2 DEF OweInv
<1> QED BY <1>1, <1>3, <1>4 DEF LessonInv

(* Under the lock nobody else owes a lesson. *)
LEMMA OthersOweNothing ==
  ASSUME CoreInv, NEW h \in Attempts, at[h] \in LockedSteps, at[h] # "farewell"
  PROVE  \A g \in Attempts : g # h => at[g] \notin Teaching
  BY LoneHolder, TeachingHolds

(* A decision is committed. *)
LEMMA LessonTaught ==
  ASSUME CoreInv, CoreInv', LessonInv, NEW h \in Attempts, at[h] \in LockedSteps, at[h] # "farewell",
         at[h] \notin Teaching, at'[h] \in Teaching, \A g \in Attempts : g # h => at'[g] = at[g],
         UNCHANGED <<rule, who, crashes, errors>>,
         NEW c \in Categories \cup {"none"}, lessons' = [lessons EXCEPT ![who[h]] = Append(@, c)],
         tx'[Taught(h)'].category = c,
         \A t \in Messages : Mild(t),
         \A u \in Users : pending'[u].kind \in About => tx'[pending'[u].tx].ver > 0
  PROVE  LessonInv'
<1> DEFINE v == who[h]
<1>0. v \in Users /\ \A g \in Attempts : at[g] \notin Teaching
  BY LoneHolder, OthersOweNothing
<1>1. \A u \in Users : /\ Len(lessons[u]) \in Nat /\ rule[u].n \in Nat
                       /\ lessons[u] \in Seq(Categories \cup {"none"})
  BY LessonsOf
<1>2. lessons \in [Users -> Seq(Categories \cup {"none"})]
  BY DEF CoreInv, ChatTypeOK, MemoryTypeOK
<1>3. lessons'[v] = Append(lessons[v], c)
  BY <1>0, <1>2
<1>4. Len(lessons'[v]) = Len(lessons[v]) + 1 /\ lessons'[v][Len(lessons'[v])] = c
  BY <1>0, <1>1, <1>3
<1>5. \A u \in Users : u # v => lessons'[u] = lessons[u]
  BY <1>2
<1>6. UNCHANGED Faultless
  BY DEF Faultless
<1>7. ASSUME NEW u \in Users PROVE RuleInv(u)'
  <2>0. RuleInv(u)
    BY DEF LessonInv
  <2>1. CASE u = v
    <3>1. rule[v].n <= Len(lessons'[v])
      BY <1>0, <1>1, <1>4, <2>0, <2>1 DEF RuleInv
    <3> QED BY <2>0, <2>1, <3>1 DEF RuleInv
  <2>2. CASE u # v
    <3>1. UpToDate(u)' <=> UpToDate(u)
      BY <1>5, <2>2 DEF UpToDate
    <3> QED BY <1>0, <1>5, <1>6, <2>0, <2>2, <3>1 DEF RuleInv
  <2> QED BY <2>1, <2>2
<1>8. OweInv(h)'
  <2>1. RuleInv(v)
    BY <1>0 DEF LessonInv
  <2>2. Faultless => rule[v].n = Len(lessons[v])
    BY <1>0, <2>1 DEF RuleInv, UpToDate
  <2>3. rule[v].n < Len(lessons'[v])
    BY <1>0, <1>1, <1>4, <2>1 DEF RuleInv
  <2>4. Faultless => rule[v].n + 1 = Len(lessons'[v])
    BY <1>4, <2>2
  <2> QED BY <1>4, <1>6, <2>3, <2>4 DEF OweInv
<1>9. \A g \in Attempts : g # h => OweInv(g)'
  BY <1>0 DEF OweInv
<1>10. ASSUME NEW t \in Messages PROVE DraftInv(t)'
  <2>1. \A u \in Users : Len(lessons[u]) <= Len(lessons'[u])
    BY <1>1, <1>4, <1>5
  <2>2. \A u \in Users : rule[u].n <= Len(lessons'[u])
    BY <1>7 DEF RuleInv
  <2> QED BY <2>1, <2>2, MildKeeps
<1> QED BY <1>7, <1>8, <1>9, <1>10 DEF LessonInv

(* LearnFromConfirmation stores the lesson that is owed. *)
LEMMA LessonLearned ==
  ASSUME CoreInv, CoreInv', LessonInv, NEW h \in Attempts, Learn(h)
  PROVE  LessonInv'
<1> DEFINE v == who[h]
           c == tx[Taught(h)].category
<1>0. at \in [Attempts -> ChatSteps] /\ rule \in [Users -> Rule]
  BY DEF CoreInv, ChatTypeOK, InboundTypeOK, MemoryTypeOK
<1>1. /\ at[h] \in {"learn", "relearn"} /\ UNCHANGED <<lessons, tx, pending, who, crashes, errors>>
      /\ rule' = [rule EXCEPT ![v] = [[n |-> 1, confidence |-> ruleConfidence(rule[v].n + 1), category |-> c]
                                        EXCEPT !.n = rule[v].n + 1]]
      /\ at' = [at EXCEPT ![h] = IF at[h] = "learn" THEN "clear" ELSE "reply"]
  BY DEF Learn, LearnFromConfirmation, UpsertUserMerchantRule, Then, Goto, records, local, faults, Taught
<1>2. at[h] \in Teaching
  BY <1>1 DEF Teaching
<1>3. v \in Users /\ at[h] \in LockedSteps /\ at[h] # "farewell"
  BY <1>2, TeachingHolds
<1>4. \A g \in Attempts : at'[g] \notin Teaching
  BY <1>0, <1>1, <1>3, OthersOweNothing DEF Teaching
<1>5. \A u \in Users : u # v => rule'[u] = rule[u]
  BY <1>0, <1>1
<1>6. OweInv(h) /\ RuleInv(v)
  BY <1>3 DEF LessonInv
<1>7. rule'[v].n = rule[v].n + 1 /\ rule'[v].category = c /\ rule'[v].confidence = ruleConfidence(rule[v].n + 1)
  BY <1>0, <1>1, <1>3
<1>8. /\ rule[v].n \in Nat /\ rule[v].n < Len(lessons[v]) /\ Len(lessons[v]) \in Nat
      /\ Faultless => rule[v].n + 1 = Len(lessons[v])
      /\ lessons[v][Len(lessons[v])] = c
  BY <1>2, <1>3, <1>6, LessonsOf DEF OweInv
<1>9. UNCHANGED Faultless
  BY <1>1 DEF Faultless
<1> HIDE DEF v, c
<1>10. ASSUME NEW u \in Users, u = v PROVE RuleInv(u)'
  <2>0. /\ rule'[u].n = rule[u].n + 1 /\ rule'[u].category = c /\ lessons' = lessons
        /\ rule'[u].confidence = ruleConfidence(rule[u].n + 1)
        /\ rule[u].n \in Nat /\ rule[u].n < Len(lessons[u]) /\ Len(lessons[u]) \in Nat
        /\ Faultless => rule[u].n + 1 = Len(lessons[u])
        /\ lessons[u][Len(lessons[u])] = c
    BY <1>1, <1>7, <1>8, <1>10
  <2>1. rule'[u].n <= Len(lessons'[u])
    BY <2>0
  <2>2. rule'[u].n < 2 => rule'[u].confidence < UserRuleApplyConfidence
    BY <2>0 DEF ruleConfidence, UserRuleApplyConfidence
  <2>3. Faultless => UpToDate(u)'
    BY <2>0 DEF UpToDate
  <2> QED BY <1>9, <2>1, <2>2, <2>3 DEF RuleInv
<1>11. ASSUME NEW u \in Users, u # v PROVE RuleInv(u)'
  <2>1. RuleInv(u)
    BY DEF LessonInv
  <2>2. UpToDate(u)' <=> UpToDate(u)
    BY <1>1, <1>5, <1>11 DEF UpToDate
  <2>3. \A g \in Attempts : at[g] \in Teaching => who[g] = v
    BY <1>3, OthersOweNothing DEF v
  <2> QED BY <1>1, <1>5, <1>9, <1>11, <2>1, <2>2, <2>3 DEF RuleInv
<1>12. \A g \in Attempts : OweInv(g)'
  BY <1>4 DEF OweInv
<1>13. \A t \in Messages : DraftInv(t)'
  BY <1>1 DEF LessonInv, DraftInv
<1>14. \A u \in Users : pending'[u].kind \in About => tx'[pending'[u].tx].ver > 0
  <2>1. UNCHANGED <<tx, pending>>
    BY <1>1
  <2> QED BY <2>1 DEF LessonInv
<1>15. \A u \in Users : RuleInv(u)'
  BY <1>10, <1>11
<1> QED BY <1>12, <1>13, <1>14, <1>15 DEF LessonInv

(* The steps under the lock that neither decide nor learn. *)
Steady(h) ==
  /\ UNCHANGED <<rule, lessons>>
  /\ \A t \in Messages : Mild(t)
  /\ \A u \in Users : pending'[u].kind \in About => tx'[pending'[u].tx].ver > 0
  /\ at'[h] \in Teaching => at[h] = "settle" /\ at'[h] = "learn" /\ UNCHANGED <<tx, pending>>
  /\ at[h] \in Teaching => at'[h] \in Teaching \/ errors' = errors + 1

(* An entry that is decided on, or edited, was there before. *)
LEMMA EntryMoved ==
  ASSUME CoreInv, LessonInv, NEW n \in Messages, tx[n].ver > 0, UNCHANGED pending,
         \A t \in Messages : t # n => tx'[t] = tx[t], tx'[n].ver = tx[n].ver + 1
  PROVE  /\ \A t \in Messages : Mild(t)
         /\ \A u \in Users : pending'[u].kind \in About => tx'[pending'[u].tx].ver > 0
<1>0. \A t \in Messages : tx[t].ver \in Nat
  BY DEF CoreInv, ChatTypeOK, RecordsTypeOK, Entry
<1>1. tx'[n].ver > 1
  BY <1>0
<1>2. ASSUME NEW u \in Users, pending'[u].kind \in About
      PROVE  tx'[pending'[u].tx].ver > 0
  <2>1. pending[u] \in PendingRow /\ pending[u].kind \in About
    BY <1>2 DEF CoreInv, ChatTypeOK, RecordsTypeOK
  <2>2. pending[u].tx \in Messages /\ tx[pending[u].tx].ver > 0
    BY <2>1 DEF PendingRow, About, LessonInv
  <2>3. tx'[n].ver > 0
    BY <1>0
  <2> QED BY <2>2, <2>3
<1> QED BY <1>1, <1>2 DEF Mild

LEMMA QuestionMoved ==
  ASSUME CoreInv, LessonInv, UNCHANGED tx, NEW v \in Users, NEW k, NEW n, OpenQuestion(v, k, n),
         k \in About => tx[n].ver > 0
  PROVE  /\ \A t \in Messages : Mild(t)
         /\ \A u \in Users : pending'[u].kind \in About => tx'[pending'[u].tx].ver > 0
<1>1. \A u \in Users : pending'[u] = IF u = v THEN [kind |-> k, tx |-> n, expired |-> FALSE] ELSE pending[u]
  BY DEF OpenQuestion, CoreInv, ChatTypeOK, RecordsTypeOK
<1>2. ASSUME NEW u \in Users, pending'[u].kind \in About
      PROVE  tx'[pending'[u].tx].ver > 0
  <2>1. CASE u = v
    BY <1>1, <1>2, <2>1
  <2>2. CASE u # v
    BY <1>1, <1>2, <2>2 DEF LessonInv
  <2> QED BY <2>1, <2>2
<1> QED BY <1>2 DEF Mild

LEMMA NothingMoved ==
  ASSUME LessonInv, UNCHANGED <<tx, pending>>
  PROVE  /\ \A t \in Messages : Mild(t)
         /\ \A u \in Users : pending'[u].kind \in About => tx'[pending'[u].tx].ver > 0
  BY DEF LessonInv, Mild

LEMMA CardSteady ==
  ASSUME CoreInv, LessonInv, NEW h \in Attempts, CardStep(h), ~ConfirmTransaction(h), ~Learn(h)
  PROVE  Steady(h)
<1> USE DEF Then, Goto, Silent, inboundRows, records, memory
<1>0. /\ at \in [Attempts -> ChatSteps] /\ tx \in [Messages -> Entry] /\ cur[h] \in Messages
      /\ \A t \in Messages : tx[t].ver \in Nat
  BY DEF CoreInv, ChatTypeOK, InboundTypeOK, RecordsTypeOK, Entry
<1>1. CASE SettleReceipt(h)
  <2>1. UNCHANGED <<rule, lessons, tx, pending>> /\ at[h] = "settle" /\ at' = [at EXCEPT ![h] = "learn"]
    BY <1>1 DEF SettleReceipt
  <2> QED BY <1>0, <2>1, NothingMoved DEF Steady, Teaching
<1>2. CASE DiscardReceipt(h) \/ RejectEdit(h) \/ ResolveMerchant(h) \/ AddMerchantAlias(h)
  <2>1. /\ UNCHANGED <<rule, lessons, tx, pending>>
        /\ at[h] \in {"discard", "applyEdit", "catalogue", "alias"}
        /\ \E s \in {"clear", "softDelete", "reply", "draft", "alias"} : at' = [at EXCEPT ![h] = s]
    BY <1>2 DEF DiscardReceipt, RejectEdit, ResolveMerchant, AddMerchantAlias
  <2> QED BY <1>0, <2>1, NothingMoved DEF Steady, Teaching
<1>3. CASE DiscardTransaction(h)
  <2> DEFINE n == pending[who[h]].tx
  <2>1. /\ UNCHANGED <<rule, lessons, pending>> /\ at[h] = "softDelete" /\ at' = [at EXCEPT ![h] = "clear"]
        /\ tx' = [tx EXCEPT ![n].status = "deleted", ![n].ver = @ + 1]
    BY <1>3 DEF DiscardTransaction, SoftDelete
  <2>2. n \in Messages /\ tx[n].ver > 0
    <3>1. at[h] \in CardSteps
      BY <2>1 DEF CardSteps
    <3> QED BY <3>1, SubjectKnown DEF LessonInv, CoreInv, QuestionInv, About
  <2> HIDE DEF n
  <2>3. (\A t \in Messages : t # n => tx'[t] = tx[t]) /\ tx'[n].ver = tx[n].ver + 1
    BY <1>0, <2>1, <2>2 DEF Entry
  <2> QED BY <1>0, <2>1, <2>2, <2>3, EntryMoved DEF Steady, Teaching
<1>4. CASE ApplyEdit(h)
  <2> DEFINE n == pending[who[h]].tx
  <2>1. PICK c \in {tx[n].category, "other"} : tx' = [tx EXCEPT ![n].ver = @ + 1, ![n].category = c]
    BY <1>4, Zenon DEF ApplyEdit
  <2>2. UNCHANGED <<rule, lessons, pending>> /\ at[h] = "applyEdit" /\ at' = [at EXCEPT ![h] = "showAgain"]
    BY <1>4 DEF ApplyEdit
  <2>3. n \in Messages /\ tx[n].ver > 0
    <3>1. at[h] \in EditSteps
      BY <2>2 DEF EditSteps
    <3> QED BY <3>1, SubjectKnown DEF LessonInv, CoreInv, QuestionInv, About
  <2> HIDE DEF n
  <2>4. (\A t \in Messages : t # n => tx'[t] = tx[t]) /\ tx'[n].ver = tx[n].ver + 1
    BY <1>0, <2>1, <2>3 DEF Entry
  <2> QED BY <1>0, <2>2, <2>3, <2>4, EntryMoved DEF Steady, Teaching
<1>5. CASE AskEdit(h) \/ ShowAgain(h)
  <2> DEFINE n == pending[who[h]].tx
  <2>1. /\ UNCHANGED <<rule, lessons, tx>> /\ at[h] \in {"askEdit", "showAgain"} /\ at' = [at EXCEPT ![h] = "reply"]
        /\ \E k \in {"edit", "card"} : OpenQuestion(who[h], k, n)
    BY <1>5 DEF AskEdit, ShowAgain
  <2>2. who[h] \in Users /\ tx[n].ver > 0
    <3>1. at[h] \in CardSteps \cup EditSteps
      BY <2>1 DEF CardSteps, EditSteps
    <3> QED BY <3>1, SubjectKnown DEF LessonInv, CoreInv, QuestionInv, About
  <2> HIDE DEF n
  <2> QED BY <1>0, <2>1, <2>2, QuestionMoved DEF Steady, Teaching
<1>6. CASE CreateManualDraft(h)
  <2> DEFINE n == cur[h]
  <2>1. /\ UNCHANGED <<rule, lessons>> /\ at[h] = "draft" /\ at' = [at EXCEPT ![h] = "reply"]
        /\ OpenQuestion(who[h], "card", n)
        /\ tx' = IF tx[n].status \in {"none", "deleted"} THEN [tx EXCEPT ![n] = Draft(n, who[h])] ELSE tx
    BY <1>6 DEF CreateManualDraft
  <2>2. who[h] \in Users
    BY <2>1, LoneHolder DEF LockedSteps, ActiveSteps
  <2>3. CASE tx' = tx
    <3>1. tx[n].ver > 0
      <4>1. CASE tx[n].status # "none"
        BY <1>0, <4>1 DEF LessonInv, DraftInv
      <4>2. CASE tx[n].status = "none"
        <5>1. tx'[n] = Draft(n, who[h])
          BY <1>0, <2>1, <4>2
        <5>2. tx[n].ver = tx[n].ver + 1
          BY <2>3, <5>1 DEF Draft
        <5> QED BY <1>0, <5>2
      <4> QED BY <4>1, <4>2
    <3> QED BY <1>0, <2>1, <2>2, <2>3, <3>1, QuestionMoved DEF Steady, Teaching
  <2>4. CASE tx' = [tx EXCEPT ![n] = Draft(n, who[h])]
    <3>1. tx'[n] = Draft(n, who[h]) /\ \A t \in Messages : t # n => tx'[t] = tx[t]
      BY <1>0, <2>4
    <3>2. tx'[n].ver > 0
      BY <1>0, <3>1 DEF Draft
    <3>3. \A t \in Messages : Mild(t)
      BY <2>2, <3>1 DEF Mild
    <3>4. \A u \in Users : pending'[u] = IF u = who[h] THEN [kind |-> "card", tx |-> n, expired |-> FALSE] ELSE pending[u]
      BY <2>1 DEF OpenQuestion, CoreInv, ChatTypeOK, RecordsTypeOK
    <3>5. ASSUME NEW u \in Users, pending'[u].kind \in About
          PROVE  tx'[pending'[u].tx].ver > 0
      <4>1. CASE u = who[h]
        BY <3>2, <3>4, <4>1
      <4>2. CASE u # who[h]
        <5>1. pending'[u] = pending[u] /\ pending[u] \in PendingRow
          BY <3>4, <4>2 DEF CoreInv, ChatTypeOK, RecordsTypeOK
        <5>2. pending[u].tx \in Messages
          BY <3>5, <5>1 DEF PendingRow, About
        <5> QED BY <3>1, <3>2, <3>5, <5>1, <5>2 DEF LessonInv
      <4> QED BY <4>1, <4>2
    <3> QED BY <1>0, <2>1, <3>3, <3>5 DEF Steady, Teaching
  <2> QED BY <2>1, <2>3, <2>4
<1>7. CASE RejectEntry(h)
  <2>1. UNCHANGED <<rule, lessons, tx, pending>> /\ at[h] = "reject" /\ at' = [at EXCEPT ![h] = "mark"]
    BY <1>7 DEF RejectEntry, Leave, EndRoute
  <2> QED BY <1>0, <2>1, NothingMoved DEF Steady, Teaching
<1> QED BY <1>1, <1>2, <1>3, <1>4, <1>5, <1>6, <1>7 DEF CardStep

LEMMA OtherSteady ==
  ASSUME CoreInv, LessonInv, NEW h \in Attempts, OrdinaryStep(h), ~CardStep(h),
         ~(Recategorise(h) /\ at'[h] = "relearn")
  PROVE  Steady(h)
<1> USE DEF Then, Goto, Silent, inboundRows, records, memory
<1>0. /\ at \in [Attempts -> ChatSteps] /\ tx \in [Messages -> Entry]
      /\ \A t \in Messages : tx[t].ver \in Nat
  BY DEF CoreInv, ChatTypeOK, InboundTypeOK, RecordsTypeOK, Entry
<1>1. CASE ImageStep(h)
  <2>1. UNCHANGED <<rule, lessons, tx, pending>>
    BY <1>1 DEF ImageStep, RegisterImage, IncrementUsage, RefuseImage, QueueImage, TransitionReceipt,
       EnqueueReceiptJob, DeleteReceivedReceipt
  <2>2. at[h] \notin Teaching /\ at'[h] \notin Teaching
    BY <1>0, <1>1 DEF ImageStep, RegisterImage, AfterRegister, IncrementUsage, RefuseImage, QueueImage,
       TransitionReceipt, EnqueueReceiptJob, DeleteReceivedReceipt, Leave, EndRoute, Teaching
  <2> QED BY <2>1, <2>2, NothingMoved DEF Steady
<1>2. CASE AskDeleteRecent(h)
  <2>1. UNCHANGED <<rule, lessons, tx>> /\ at[h] = "askDeleteRecent" /\ at' = [at EXCEPT ![h] = "reply"]
    BY <1>2 DEF AskDeleteRecent
  <2>2. \/ UNCHANGED pending
        \/ \E t \in Confirmed(who[h]) : OpenQuestion(who[h], "delrecent", t)
    BY <1>2 DEF AskDeleteRecent
  <2>3. ASSUME NEW t \in Confirmed(who[h]) PROVE tx[t].ver > 0
    <3>1. t \in Messages /\ tx[t].status # "none"
      BY <2>3 DEF Confirmed
    <3> QED BY <3>1 DEF LessonInv, DraftInv
  <2>4. who[h] \in Users
    BY <2>1, LoneHolder DEF LockedSteps, ActiveSteps
  <2> QED BY <1>0, <2>1, <2>2, <2>3, <2>4, NothingMoved, QuestionMoved DEF Steady, Teaching
<1>3. CASE DeleteRecent(h)
  <2> DEFINE n == pending[who[h]].tx
  <2>1. /\ UNCHANGED <<rule, lessons, pending>> /\ at[h] = "deleteRecent" /\ at' = [at EXCEPT ![h] = "clear"]
        /\ tx' = [tx EXCEPT ![n].status = "deleted", ![n].ver = @ + 1]
    BY <1>3 DEF DeleteRecent, SoftDelete
  <2>2. n \in Messages /\ tx[n].ver > 0
    BY <2>1, SubjectKnown DEF LessonInv, CoreInv, QuestionInv, About
  <2> HIDE DEF n
  <2>3. (\A t \in Messages : t # n => tx'[t] = tx[t]) /\ tx'[n].ver = tx[n].ver + 1
    BY <1>0, <2>1, <2>2 DEF Entry
  <2> QED BY <1>0, <2>1, <2>2, <2>3, EntryMoved DEF Steady, Teaching
<1>4. CASE Recategorise(h)
  <2>1. /\ at[h] = "recategorise" /\ UNCHANGED <<rule, pending>>
        /\ \/ UNCHANGED <<tx, lessons>> /\ at' = [at EXCEPT ![h] = "reply"]
           \/ at' = [at EXCEPT ![h] = "relearn"]
    BY <1>4, Zenon DEF Recategorise
  <2>2. UNCHANGED <<tx, lessons>> /\ at' = [at EXCEPT ![h] = "reply"]
    BY <1>0, <1>4, <2>1
  <2> QED BY <1>0, <2>1, <2>2, NothingMoved DEF Steady, Teaching
<1>5. CASE DeleteRecentRefused(h) \/ Reply(h) \/ DeletionConfirmation(h)
  <2>1. /\ UNCHANGED <<rule, lessons, tx, pending>> /\ at[h] \in {"deleteRecent", "reply", "farewell"}
        /\ at' = [at EXCEPT ![h] = "mark"]
    BY <1>5 DEF DeleteRecentRefused, Reply, DeletionConfirmation, Leave, EndRoute
  <2> QED BY <1>0, <2>1, NothingMoved DEF Steady, Teaching
<1>6. CASE PersistInsight(h) \/ WriteExport(h) \/ RemoveExportArtifacts(h)
  <2>1. /\ UNCHANGED <<rule, lessons, tx, pending>> /\ at[h] \in {"persist", "export", "unexport"}
        /\ \E s \in {"reply", "purge"} : at' = [at EXCEPT ![h] = s]
    BY <1>6 DEF PersistInsight, WriteExport, RemoveExportArtifacts
  <2> QED BY <1>0, <2>1, NothingMoved DEF Steady, Teaching
<1>7. CASE ClearPendingAction(h)
  <2>1. /\ UNCHANGED <<rule, lessons, tx>> /\ at[h] = "clear" /\ at' = [at EXCEPT ![h] = "reply"]
        /\ pending' = [pending EXCEPT ![who[h]] = NoPending]
    BY <1>7 DEF ClearPendingAction
  <2>2. \A u \in Users : pending'[u] = NoPending \/ pending'[u] = pending[u]
    BY <2>1 DEF CoreInv, ChatTypeOK, RecordsTypeOK
  <2>3. \A u \in Users : pending'[u].kind \in About => tx'[pending'[u].tx].ver > 0
    BY <2>1, <2>2 DEF LessonInv, NoPending, About
  <2> QED BY <1>0, <2>1, <2>3 DEF Steady, Teaching, Mild
<1>8. CASE AskDelete(h)
  <2>1. /\ UNCHANGED <<rule, lessons, tx>> /\ at[h] = "askDelete" /\ at' = [at EXCEPT ![h] = "reply"]
        /\ OpenQuestion(who[h], "delaccount", 0)
    BY <1>8 DEF AskDelete
  <2>2. who[h] \in Users /\ "delaccount" \notin About
    BY <2>1, LoneHolder DEF LockedSteps, ActiveSteps, About
  <2> QED BY <1>0, <2>1, <2>2, QuestionMoved DEF Steady, Teaching
<1>9. CASE LockedStatementFails(h)
  <2>1. UNCHANGED <<rule, lessons, tx, pending>> /\ errors' = errors + 1
    BY <1>9 DEF LockedStatementFails
  <2>2. \/ at[h] = "settle" /\ at'[h] = "learn"
        \/ at'[h] \in {"unregister", "clear", "reply", "mark"}
    BY <1>0, <1>9 DEF LockedStatementFails, EndRoute
  <2> QED BY <2>1, <2>2, NothingMoved DEF Steady, Teaching
<1> QED BY <1>1, <1>2, <1>3, <1>4, <1>5, <1>6, <1>7, <1>8, <1>9 DEF OrdinaryStep, EntryStep

(* A confirmation, or a new category of a confirmed entry. *)
LEMMA DecisionTeaches ==
  ASSUME CoreInv, CoreInv', LessonInv, NEW h \in Attempts,
         ConfirmTransaction(h) \/ (Recategorise(h) /\ at'[h] = "relearn")
  PROVE  LessonInv'
<1> USE DEF Then, Goto, Silent, inboundRows, records, memory
<1>0. /\ at \in [Attempts -> ChatSteps] /\ tx \in [Messages -> Entry] /\ say \in [Attempts -> Saying]
      /\ \A t \in Messages : tx[t].ver \in Nat
  BY DEF CoreInv, ChatTypeOK, InboundTypeOK, RecordsTypeOK, SpeechTypeOK, Entry
<1>1. CASE ConfirmTransaction(h)
  <2> DEFINE n == pending[who[h]].tx
  <2>1. /\ UNCHANGED <<rule, pending, who, crashes, errors>> /\ at[h] = "confirm" /\ at' = [at EXCEPT ![h] = "settle"]
        /\ tx' = [tx EXCEPT ![n].status = "confirmed", ![n].ver = @ + 1]
        /\ lessons' = [lessons EXCEPT ![who[h]] = Append(@, tx[n].category)]
    BY <1>1 DEF ConfirmTransaction, Teaches, local, faults
  <2>2. n \in Messages /\ tx[n].ver > 0 /\ tx[n] \in Entry
    <3>1. at[h] \in CardSteps
      BY <2>1 DEF CardSteps
    <3> QED BY <3>1, SubjectKnown DEF LessonInv, CoreInv, QuestionInv, About
  <2>3. Taught(h)' = n
    BY <1>0, <2>1 DEF Taught
  <2> HIDE DEF n
  <2>4. /\ \A t \in Messages : t # n => tx'[t] = tx[t]
        /\ tx'[n].ver = tx[n].ver + 1 /\ tx'[n].category = tx[n].category
    BY <1>0, <2>1, <2>2 DEF Entry
  <2>5. tx[n].category \in Categories \cup {"none"}
    BY <2>2 DEF Entry
  <2>6. /\ at[h] \in LockedSteps /\ at[h] # "farewell" /\ at[h] \notin Teaching /\ at'[h] \in Teaching
        /\ \A g \in Attempts : g # h => at'[g] = at[g]
    BY <1>0, <2>1 DEF LockedSteps, ActiveSteps, CardSteps, Teaching
  <2>7. tx'[Taught(h)'].category = tx[n].category
    BY <2>3, <2>4
  <2>8. /\ \A t \in Messages : Mild(t)
        /\ \A u \in Users : pending'[u].kind \in About => tx'[pending'[u].tx].ver > 0
    BY <2>1, <2>2, <2>4, EntryMoved
  <2>9. PICK c \in Categories \cup {"none"} : c = tx[n].category
    BY <2>5
  <2> QED BY <2>1, <2>6, <2>7, <2>8, <2>9, LessonTaught
<1>2. CASE Recategorise(h) /\ at'[h] = "relearn"
  <2>1. UNCHANGED <<rule, pending, who, crashes, errors>> /\ at[h] = "recategorise"
    BY <1>2, Zenon DEF Recategorise, local, faults
  <2>2. ~(at' = [at EXCEPT ![h] = "reply"])
    BY <1>0, <1>2
  <2>3. PICK n \in Confirmed(who[h]), c \in Categories :
             /\ tx' = [tx EXCEPT ![n].status = "amended", ![n].ver = @ + 1, ![n].category = c]
             /\ lessons' = [lessons EXCEPT ![who[h]] = Append(@, c)]
             /\ say' = [say EXCEPT ![h] = [kind |-> "notice", tx |-> n]]
             /\ at' = [at EXCEPT ![h] = "relearn"]
    BY <1>2, <2>2, Zenon DEF Recategorise, Teaches, ReplyWith, Question
  <2>4. n \in Messages /\ tx[n].status # "none"
    BY DEF Confirmed
  <2>5. tx[n].ver > 0
    BY <2>4 DEF LessonInv, DraftInv
  <2>6. Taught(h)' = n
    BY <1>0, <1>2, <2>3 DEF Taught
  <2>7. /\ \A t \in Messages : t # n => tx'[t] = tx[t]
        /\ tx'[n].ver = tx[n].ver + 1 /\ tx'[n].category = c
    <3> DEFINE f == [tx EXCEPT ![n].status = "amended", ![n].ver = @ + 1]
    <3>1. f \in [Messages -> Entry]
      BY <1>0, <2>4, SettledEntry DEF TxStatus
    <3>2. f[n].ver = tx[n].ver + 1 /\ \A t \in Messages : t # n => f[t] = tx[t]
      BY <1>0, <2>4 DEF Entry
    <3>3. tx' = [f EXCEPT ![n].category = c]
      BY <2>3
    <3> HIDE DEF f
    <3> QED BY <2>4, <3>1, <3>2, <3>3 DEF Entry
  <2>8. /\ at[h] \in LockedSteps /\ at[h] # "farewell" /\ at[h] \notin Teaching /\ at'[h] \in Teaching
        /\ \A g \in Attempts : g # h => at'[g] = at[g]
    BY <1>0, <1>2, <2>1, <2>3 DEF LockedSteps, ActiveSteps, Teaching
  <2>9. /\ \A t \in Messages : Mild(t)
        /\ \A u \in Users : pending'[u].kind \in About => tx'[pending'[u].tx].ver > 0
    BY <2>1, <2>4, <2>5, <2>7, EntryMoved
  <2>10. c \in Categories \cup {"none"} /\ tx'[Taught(h)'].category = c
    BY <2>6, <2>7
  <2> QED BY <2>1, <2>3, <2>8, <2>9, <2>10, LessonTaught
<1> QED BY <1>1, <1>2

LEMMA OrdinaryLessons ==
  ASSUME CoreInv, CoreInv', LessonInv, NEW h \in Attempts, OrdinaryStep(h)
  PROVE  LessonInv'
<1>1. CASE ConfirmTransaction(h) \/ (Recategorise(h) /\ at'[h] = "relearn")
  BY <1>1, DecisionTeaches
<1>2. CASE Learn(h)
  BY <1>2, LessonLearned
<1>3. CASE ~ConfirmTransaction(h) /\ ~(Recategorise(h) /\ at'[h] = "relearn") /\ ~Learn(h)
  <2>1. Steady(h)
    BY <1>3, CardSteady, OtherSteady
  <2>2. Ordinary(h)
    BY OrdinaryMoves
  <2>3. /\ UNCHANGED <<who, crashes>> /\ at[h] \in LockedSteps
        /\ \A g \in Attempts : g # h => at'[g] = at[g]
    BY <2>2 DEF Ordinary, GoesOn, EndsRoute, Goto, CoreInv, ChatTypeOK, InboundTypeOK, LockedSteps, GoingSteps
  <2>4. crashes \in Nat /\ errors \in Nat /\ errors' \in {errors, errors + 1}
    BY <2>2 DEF Ordinary, CoreInv, ChatTypeOK, InboundTypeOK
  <2>5. (Faultless' => Faultless) /\ (errors' = errors + 1 => ~Faultless')
    BY <2>3, <2>4, FaultsCount
  <2>6. ASSUME NEW g \in Attempts, g # h, at[g] \in Teaching
        PROVE  UNCHANGED <<tx, pending, say>>
    <3>1. at[h] = "farewell"
      BY <2>3, <2>6, OthersOweNothing
    <3> QED BY <2>2, <3>1 DEF Ordinary, records
  <2>7. ASSUME NEW g \in Attempts, at'[g] \in Teaching
        PROVE  at[g] \in Teaching /\ Taught(g)' = Taught(g) /\ tx'[Taught(g)].category = tx[Taught(g)].category
    <3>1. CASE g = h
      BY <2>1, <2>3, <2>7, <3>1 DEF Steady, Taught, Teaching
    <3>2. CASE g # h
      BY <2>3, <2>6, <2>7, <3>2 DEF Taught
    <3> QED BY <3>1, <3>2
  <2>8. \A g \in Attempts : at[g] \in Teaching /\ Faultless' => at'[g] \in Teaching
    BY <2>1, <2>3, <2>5 DEF Steady
  <2> QED BY <2>1, <2>3, <2>5, <2>7, <2>8, LessonsKept DEF Steady
<1> QED BY <1>1, <1>2, <1>3

LEMMA PurgeLessons ==
  ASSUME CoreInv, CoreInv', LessonInv, NEW h \in Attempts, Purges(h)
  PROVE  LessonInv'
<1> DEFINE v == who[h]
<1>0. /\ at \in [Attempts -> ChatSteps] /\ rule \in [Users -> Rule] /\ pending \in [Users -> PendingRow]
      /\ lessons \in [Users -> Seq(Categories \cup {"none"})]
      /\ \A t \in Messages : tx[t].ver \in Nat
  BY DEF CoreInv, ChatTypeOK, InboundTypeOK, RecordsTypeOK, MemoryTypeOK, Entry
<1>1. /\ at[h] = "purge" /\ UNCHANGED <<crashes, errors>> /\ at' = [at EXCEPT ![h] = "farewell"]
      /\ pending' = [pending EXCEPT ![v] = NoPending]
      /\ tx' = [m \in Messages |-> IF tx[m].owner = v THEN [NoTx EXCEPT !.ver = tx[m].ver] ELSE tx[m]]
      /\ rule' = [rule EXCEPT ![v] = NoRule] /\ lessons' = [lessons EXCEPT ![v] = <<>>]
  BY DEF Purges, EraseRecords, ForgetUser, faults, Goto
<1>2. at[h] \in LockedSteps /\ at[h] # "farewell" /\ at[h] \notin Teaching
  BY <1>1 DEF LockedSteps, GoingSteps, Teaching
<1>3. \A g \in Attempts : at[g] \notin Teaching /\ at'[g] \notin Teaching
  BY <1>0, <1>1, <1>2, OthersOweNothing DEF Teaching
<1>4. UNCHANGED Faultless
  BY <1>1 DEF Faultless
<1> HIDE DEF v
<1>5. ASSUME NEW u \in Users PROVE RuleInv(u)'
  <2>0. RuleInv(u)
    BY DEF LessonInv
  <2>1. CASE u = v
    <3>1. rule'[u] = NoRule /\ lessons'[u] = <<>>
      BY <1>0, <1>1, <2>1
    <3>2. Len(lessons'[u]) = 0 /\ rule'[u].n = 0 /\ rule'[u].confidence = 0
      BY <3>1 DEF NoRule
    <3> QED BY <3>1, <3>2 DEF RuleInv, UpToDate, UserRuleApplyConfidence
  <2>2. CASE u # v
    <3>1. rule'[u] = rule[u] /\ lessons'[u] = lessons[u]
      BY <1>0, <1>1, <2>2
    <3>2. UpToDate(u)' <=> UpToDate(u)
      BY <3>1 DEF UpToDate
    <3> QED BY <1>3, <1>4, <2>0, <3>1, <3>2 DEF RuleInv
  <2> QED BY <2>1, <2>2
<1>6. ASSUME NEW t \in Messages PROVE DraftInv(t)' /\ tx'[t].ver = tx[t].ver
  <2>1. CASE tx[t].owner = v
    <3>1. tx'[t] = [NoTx EXCEPT !.ver = tx[t].ver]
      BY <1>1, <2>1
    <3>2. tx'[t].status = "none" /\ tx'[t].category = "none" /\ tx'[t].ver = tx[t].ver
      BY <3>1 DEF NoTx
    <3> QED BY <3>2 DEF DraftInv
  <2>2. CASE tx[t].owner # v
    <3>1. tx'[t] = tx[t]
      BY <1>1, <2>2
    <3>2. tx[t].owner \in Users => lessons'[tx[t].owner] = lessons[tx[t].owner]
      BY <1>0, <1>1, <2>2
    <3> QED BY <3>1, <3>2 DEF LessonInv, DraftInv
  <2> QED BY <2>1, <2>2
<1>7. ASSUME NEW u \in Users, pending'[u].kind \in About
      PROVE  tx'[pending'[u].tx].ver > 0
  <2>1. pending'[u] = pending[u]
    BY <1>0, <1>1, <1>7 DEF NoPending, About
  <2>2. pending[u].tx \in Messages /\ tx[pending[u].tx].ver > 0
    BY <1>0, <1>7, <2>1 DEF PendingRow, About, LessonInv
  <2> QED BY <1>6, <2>1, <2>2
<1>8. \A g \in Attempts : OweInv(g)'
  BY <1>3 DEF OweInv
<1> QED BY <1>5, <1>6, <1>7, <1>8 DEF LessonInv

(* A step outside the lock, or one that only enters it, or that changes what *)
(* no lesson depends on.                                                     *)
LEMMA LessonsStay ==
  ASSUME CoreInv, CoreInv', LessonInv, UNCHANGED <<rule, lessons, tx>>, Faultless' => Faultless,
         \A u \in Users : pending'[u].kind \in About =>
            pending[u].kind \in About /\ pending'[u].tx = pending[u].tx,
         \A g \in Attempts : at[g] \in Teaching =>
            who'[g] = who[g] /\ say'[g] = say[g] /\ pending'[who[g]].tx = pending[who[g]].tx,
         \A g \in Attempts : at'[g] \in Teaching => at'[g] = at[g],
         \A g \in Attempts : at[g] \in Teaching => at'[g] = at[g] \/ ~Faultless'
  PROVE  LessonInv'
<1>1. \A t \in Messages : Mild(t)
  BY DEF Mild
<1>2. \A u \in Users : pending'[u].kind \in About => tx'[pending'[u].tx].ver > 0
  BY DEF LessonInv
<1>3. ASSUME NEW g \in Attempts, at'[g] \in Teaching
      PROVE  at[g] \in Teaching /\ Taught(g)' = Taught(g) /\ tx'[Taught(g)].category = tx[Taught(g)].category
  BY <1>3 DEF Taught
<1> QED BY <1>1, <1>2, <1>3, LessonsKept

LEMMA OutsideLessons ==
  ASSUME CoreInv, CoreInv', LessonInv, NEW h \in Attempts, OutsideStep(h), UNCHANGED chatVars
  PROVE  LessonInv'
<1>0. at \in [Attempts -> ChatSteps]
  BY DEF CoreInv, ChatTypeOK, InboundTypeOK
<1>1. UNCHANGED <<rule, lessons, tx, pending, say>>
  BY DEF chatVars, records, memory
<1>2. /\ at'[h] \in OpenSteps
      /\ \A g \in Attempts : g # h => at'[g] = at[g] /\ who'[g] = who[g]
  BY <1>0, OutsideMoves DEF Outside, Goto
<1>3. at'[h] \notin Teaching
  BY <1>2 DEF OpenSteps, Teaching
<1>4. /\ crashes \in Nat /\ errors \in Nat
      /\ errors' \in {errors, errors + 1} /\ crashes' \in {crashes, crashes + 1}
  BY OutsideRows DEF CoreInv, ChatTypeOK, InboundTypeOK
<1>5. Faultless' => Faultless
  BY <1>4, FaultsCount
<1>6. CASE at[h] \notin Teaching
  BY <1>1, <1>2, <1>3, <1>5, <1>6, LessonsStay
<1>7. CASE at[h] \in Teaching
  <2>1. Crash(h)
    BY <1>7 DEF OutsideStep, Deliver, InboundStep, ClaimProviderMessage, ResolveUser, CreateUserWithIdentity,
       SetProviderMessageUser, MarkProviderMessage, AnswerLost, StatementFails, Teaching
  <2>2. crashes' = crashes + 1 /\ who'[h] \in Owners
    BY <2>1 DEF Crash, CoreInv, ChatTypeOK, InboundTypeOK
  <2>3. ~Faultless'
    BY <1>4, <2>2, FaultsCount
  <2>4. ASSUME NEW u \in Users PROVE RuleInv(u)'
    <3>1. RuleInv(u)
      BY DEF LessonInv
    <3> QED BY <1>1, <2>3, <3>1 DEF RuleInv
  <2>5. ASSUME NEW g \in Attempts PROVE OweInv(g)'
    <3>1. CASE g = h
      BY <1>3, <3>1 DEF OweInv
    <3>2. CASE g # h
      <4>1. OweInv(g) /\ Taught(g)' = Taught(g) /\ at'[g] = at[g] /\ who'[g] = who[g]
        BY <1>1, <1>2, <3>2 DEF LessonInv, Taught
      <4> QED BY <1>1, <2>3, <4>1 DEF OweInv
    <3> QED BY <3>1, <3>2
  <2>6. \A t \in Messages : DraftInv(t)'
    BY <1>1 DEF LessonInv, DraftInv
  <2>7. \A u \in Users : pending'[u].kind \in About => tx'[pending'[u].tx].ver > 0
    BY <1>1 DEF LessonInv
  <2> QED BY <2>4, <2>5, <2>6, <2>7 DEF LessonInv
<1> QED BY <1>6, <1>7

LEMMA EnterLessons ==
  ASSUME CoreInv, CoreInv', LessonInv, NEW h \in Attempts, Enter(h)
  PROVE  LessonInv'
<1> DEFINE v == who[h]
<1>0. at \in [Attempts -> ChatSteps] /\ pending \in [Users -> PendingRow] /\ say \in [Attempts -> Saying]
  BY DEF CoreInv, ChatTypeOK, InboundTypeOK, RecordsTypeOK, SpeechTypeOK
<1>1. /\ at[h] = "enter" /\ v \in Users /\ cur[h] \in DOMAIN script
      /\ Enters(h) \/ PassesBy(h)
      /\ UNCHANGED <<rule, lessons, tx, who, crashes, errors>>
  BY EnterMoves DEF faults, memory
<1>2. at'[h] \notin Teaching /\ \A g \in Attempts : g # h => at'[g] = at[g] /\ say'[g] = say[g]
  <2>1. CASE PassesBy(h)
    BY <1>0, <2>1 DEF PassesBy, Teaching
  <2>2. CASE Enters(h)
    <3>1. ~Gone(v) /\ users[v] \in {"pending", "active", "suspended"}
      BY <2>2 DEF Enters, Gone
    <3> DEFINE step == RouteStep(cur[h], v)
    <3>2. step \notin Teaching
      BY <1>1, <3>1, RoutedOutside DEF Inner, Teaching
    <3>3. Goto(h, IF step = "reshow" THEN "reply" ELSE step) /\ \E q \in Saying : say' = [say EXCEPT ![h] = q]
      BY <2>2, <3>1 DEF Enter, Enters
    <3> HIDE DEF step
    <3> QED BY <1>0, <3>2, <3>3 DEF Goto, Teaching
  <2> QED BY <1>1, <2>1, <2>2
<1>3. \A u \in Users : pending'[u] = pending[u] \/ pending'[u].kind = "none"
  BY <1>0, <1>1 DEF Enters, PassesBy, Open, NoPending
<1>4. \A u \in Users : u # v => pending'[u] = pending[u]
  BY <1>0, <1>1 DEF Enters, PassesBy
<1>5. \A g \in Attempts : at[g] \in Teaching => g # h /\ who[g] \in Users /\ who[g] # v
  <2>1. lock[v] = Nobody
    BY DEF Enter
  <2>2. at[h] \notin Teaching
    BY <1>1 DEF Teaching
  <2>3. \A g \in Attempts : at[g] \in Teaching => who[g] \in Users /\ lock[who[g]] = g
    BY TeachingHolds, LoneHolder
  <2> QED BY <2>1, <2>2, <2>3, NobodyIsNoAttempt
<1>6. UNCHANGED Faultless
  BY <1>1 DEF Faultless
<1>7. \A u \in Users : pending'[u].kind \in About => pending[u].kind \in About /\ pending'[u].tx = pending[u].tx
  BY <1>3 DEF About
<1>8. \A g \in Attempts : at[g] \in Teaching =>
        who'[g] = who[g] /\ say'[g] = say[g] /\ pending'[who[g]].tx = pending[who[g]].tx /\ at'[g] = at[g]
  BY <1>1, <1>2, <1>4, <1>5
<1>9. \A g \in Attempts : at'[g] \in Teaching => at'[g] = at[g]
  BY <1>2
<1> QED BY <1>1, <1>6, <1>7, <1>8, <1>9, LessonsStay

LEMMA WorkerLessons ==
  ASSUME CoreInv, CoreInv', LessonInv, WorkerStep
  PROVE  LessonInv'
<1>1. CASE SendReviewCard
  <2>1. UNCHANGED <<rule, lessons, tx, pending, say, at, who, crashes, errors>>
    BY <1>1 DEF SendReviewCard, records, memory, local, faults
  <2>2. UNCHANGED Faultless
    BY <2>1 DEF Faultless
  <2> QED BY <2>1, <2>2, LessonsStay
<1>2. ASSUME NEW n \in Messages, FinalizeReceiptReview(n)
      PROVE  LessonInv'
  <2> DEFINE v == receipt[n].owner
  <2>1. /\ UNCHANGED <<rule, lessons, at, who, crashes, errors>>
        /\ users[v] \notin {"none", "deleted"} /\ lock[v] = Nobody /\ receipt[n].status = "queued"
        /\ tx' = [tx EXCEPT ![n] = Draft(n, v)] /\ OpenQuestion(v, "card", n)
    BY <1>2 DEF FinalizeReceiptReview, Reviewable, ReviewOf, local, faults
  <2>2. tx \in [Messages -> Entry] /\ pending \in [Users -> PendingRow] /\ tx[n].ver \in Nat /\ receipt[n] \in Document
    BY DEF CoreInv, ChatTypeOK, RecordsTypeOK, Entry
  <2>3. v \in Users
    BY <2>1, <2>2 DEF Document
  <2>4. \A g \in Attempts : at[g] \notin Teaching
    <3>1. identity = v
      BY <2>1, <2>3 DEF CoreInv, UserInv
    <3>2. \A g \in Attempts : at[g] \in Teaching => identity = who[g] /\ lock[who[g]] = g
      BY TeachingHolds, LoneHolder
    <3> QED BY <2>1, <3>1, <3>2, NobodyIsNoAttempt
  <2> HIDE DEF v
  <2>5. tx'[n] = Draft(n, v) /\ \A t \in Messages : t # n => tx'[t] = tx[t]
    BY <2>1, <2>2
  <2>6. \A t \in Messages : Mild(t)
    BY <2>3, <2>5 DEF Mild
  <2>7. tx'[n].ver > 0
    BY <2>2, <2>5 DEF Draft
  <2>8. ASSUME NEW u \in Users, pending'[u].kind \in About
        PROVE  tx'[pending'[u].tx].ver > 0
    <3>1. CASE u = v
      <4>1. pending'[u].tx = n
        BY <2>1, <2>2, <3>1 DEF OpenQuestion
      <4> QED BY <2>7, <4>1
    <3>2. CASE u # v
      <4>1. pending'[u] = pending[u] /\ pending[u] \in PendingRow
        BY <2>1, <2>2, <3>2 DEF OpenQuestion
      <4>2. pending[u].tx \in Messages
        BY <2>8, <4>1 DEF PendingRow, About
      <4> QED BY <2>5, <2>7, <2>8, <4>1, <4>2 DEF LessonInv
    <3> QED BY <3>1, <3>2
  <2>9. UNCHANGED Faultless
    BY <2>1 DEF Faultless
  <2> QED BY <2>1, <2>4, <2>6, <2>8, <2>9, LessonsKept
<1> QED BY <1>1, <1>2 DEF WorkerStep

LEMMA LessonStep ==
  ASSUME CoreInv, CoreInv', LessonInv, [Next]_vars
  PROVE  LessonInv'
<1>0. at \in [Attempts -> ChatSteps]
  BY DEF CoreInv, ChatTypeOK, InboundTypeOK
<1>a. ASSUME UNCHANGED <<rule, lessons, tx, pending, say, at, who, crashes, errors>>
      PROVE  LessonInv'
  <2>1. UNCHANGED Faultless
    BY <1>a DEF Faultless
  <2> QED BY <1>a, <2>1, LessonsStay
<1>1. ASSUME NEW m \in Messages, Quarantine(m) \/ ClaimExpires(m) \/ ClaimOutlived(m) \/ DeleteExpiredTombstone(m), UNCHANGED chatVars
      PROVE  LessonInv'
  <2>1. UNCHANGED <<rule, lessons, tx, pending, say, at, who, crashes, errors>>
    BY <1>1 DEF Quarantine, ClaimExpires, ClaimOutlived, DeleteExpiredTombstone, local, faults, chatVars, records, memory
  <2> QED BY <1>a, <2>1
<1>2. ASSUME NEW h \in Attempts, SetConsent(h) \/ BeginAccountDeletion(h)
      PROVE  LessonInv'
  <2>1. UNCHANGED <<rule, lessons, tx, pending, say, who, crashes, errors>>
    BY <1>2, NewStatusMoves DEF NewStatus, local, faults, records, memory
  <2>2. at[h] \notin Teaching /\ at'[h] \notin Teaching /\ \A g \in Attempts : g # h => at'[g] = at[g]
    BY <1>0, <1>2, NewStatusMoves DEF NewStatus, Goto, Teaching
  <2>3. UNCHANGED Faultless
    BY <2>1 DEF Faultless
  <2> QED BY <2>1, <2>2, <2>3, LessonsStay
<1>3. ASSUME NEW h \in Attempts, PurgeAccountData(h)
      PROVE  LessonInv'
  <2>1. CASE Purges(h)
    BY <2>1, PurgeLessons
  <2>2. CASE Ordinary(h) /\ EndsRoute(h) /\ at[h] = "purge" /\ UNCHANGED <<chatVars, errors>>
    <3>1. UNCHANGED <<rule, lessons, tx, pending, say, who, crashes, errors>>
      BY <2>2 DEF Ordinary, chatVars, records, memory
    <3>2. at[h] \notin Teaching /\ at'[h] \notin Teaching /\ \A g \in Attempts : g # h => at'[g] = at[g]
      BY <1>0, <2>2 DEF EndsRoute, Teaching
    <3>3. UNCHANGED Faultless
      BY <3>1 DEF Faultless
    <3> QED BY <3>1, <3>2, <3>3, LessonsStay
  <2> QED BY <1>3, <2>1, <2>2, PurgeMoves
<1>4. ASSUME NEW u \in Users, PendingExpires(u)
      PROVE  LessonInv'
  <2>1. /\ UNCHANGED <<rule, lessons, tx, say, at, who, crashes, errors>>
        /\ pending' = [pending EXCEPT ![u].expired = TRUE]
    BY <1>4 DEF PendingExpires, inboundVars, local, faults, memory
  <2>2. \A w \in Users : pending'[w].kind = pending[w].kind /\ pending'[w].tx = pending[w].tx
    <3>1. pending \in [Users -> PendingRow]
      BY DEF CoreInv, ChatTypeOK, RecordsTypeOK
    <3> QED BY <2>1, <3>1 DEF PendingRow
  <2>3. UNCHANGED Faultless
    BY <2>1 DEF Faultless
  <2>4. \A g \in Attempts : at[g] \in Teaching => who[g] \in Users
    BY TeachingHolds
  <2> QED BY <2>1, <2>2, <2>3, <2>4, LessonsStay
<1>5. CASE UNCHANGED vars
  <2>1. UNCHANGED <<rule, lessons, tx, pending, say, at, who, crashes, errors>>
    BY <1>5 DEF vars, inboundVars, chatVars, records, memory, local, faults
  <2> QED BY <1>a, <2>1
<1>6. CASE Next
  BY <1>1, <1>2, <1>3, <1>4, <1>6, StepKinds, OutsideLessons, EnterLessons, OrdinaryLessons, WorkerLessons
<1> QED BY <1>5, <1>6

LEMMA LessonInit ==
  ASSUME ChatInit
  PROVE  LessonInv
<1>1. \A h \in Attempts : at[h] = "idle"
  BY DEF ChatInit, InboundInit
<1>2. ASSUME NEW u \in Users PROVE RuleInv(u)
  <2>1. rule[u] = NoRule /\ lessons[u] = <<>>
    BY DEF ChatInit, LearningInit
  <2>2. Len(lessons[u]) = 0 /\ rule[u].n = 0 /\ rule[u].confidence = 0
    BY <2>1 DEF NoRule
  <2> QED BY <2>1, <2>2 DEF RuleInv, UpToDate, UserRuleApplyConfidence
<1>3. \A t \in Messages : DraftInv(t)
  BY DEF ChatInit, NoTx, DraftInv
<1>4. \A u \in Users : pending[u].kind \notin About
  BY DEF ChatInit, NoPending, About
<1> QED BY <1>1, <1>2, <1>3, <1>4 DEF LessonInv, OweInv, Teaching

(* LearnFromConfirmation: a rule never holds more samples than the user made *)
(* decisions; without faults it holds all of them, and the last category,    *)
(* whenever the user lock is free; and a single decision never changes what  *)
(* is suggested.                                                             *)
THEOREM LessonsLearnedSafe == Spec => []LessonsLearned
<1>1. ASSUME CoreInv, LessonInv
      PROVE  LessonsLearned
  <2>1. ASSUME NEW u \in Users, crashes + errors = 0, lock[u] = Nobody
        PROVE  UpToDate(u)
    <3>1. \A h \in Attempts : at[h] \in Teaching => lock[who[h]] = h
      BY <1>1, TeachingHolds, LoneHolder
    <3>2. ~ \E h \in Attempts : at[h] \in Teaching /\ who[h] = u
      BY <2>1, <3>1, NobodyIsNoAttempt
    <3> QED BY <1>1, <2>1, <3>2 DEF LessonInv, RuleInv, Faultless
  <2>2. \A u \in Users : rule[u].n <= Len(lessons[u])
    BY <1>1 DEF LessonInv, RuleInv
  <2>3. \A t \in Messages : tx[t].ver = 1 /\ tx[t].category = "other" => Len(lessons[tx[t].owner]) > 1
    BY <1>1 DEF LessonInv, DraftInv
  <2> QED BY <2>1, <2>2, <2>3 DEF LessonsLearned, UpToDate
<1>2. Spec => [](CoreInv /\ LessonInv)
  <2>1. ChatInit => CoreInv /\ LessonInv
    BY CoreInit, LessonInit
  <2>2. CoreInv /\ LessonInv /\ [Next]_vars => (CoreInv /\ LessonInv)'
    BY CoreStep, LessonStep
  <2> QED BY <2>1, <2>2, PTL DEF Spec
<1> QED BY <1>1, <1>2, PTL

-----------------------------------------------------------------------------
(* One entry per answer.  A step fits the message it works on, a receipt     *)
(* comes from an image, and only the user behind the sender has an open      *)
(* question.                                                                 *)
DraftSteps == {"catalogue", "alias", "draft"}
ImageSteps == {"register", "charge", "refuse", "queue", "enqueue", "unregister"}
SettleSteps == {"confirm", "discard", "softDelete", "deleteRecent"}
Answers == {"confirm", "discard"}

StepFits(h) ==
  /\ at[h] \in DraftSteps => script[cur[h]] = "entry"
  /\ at[h] \in ImageSteps => script[cur[h]] = "image"
  /\ at[h] \in SettleSteps => script[cur[h]] \in Answers
  /\ at[h] = "askDeleteRecent" => script[cur[h]] = "delete_recent"

FitInv ==
  /\ \A h \in Attempts : StepFits(h)
  /\ \A m \in Messages : receipt[m].status # "none" => script[m] = "image"
  /\ \A u \in Users : identity # u => pending[u].kind = "none"

(* The poll loop works on one update at a time, the first that is not past.  *)
InTurn(m) == ~acked[m] /\ \A k \in 1 .. m - 1 : acked[k]

TurnInv ==
  mode = "poll" =>
    /\ \A g, h \in Attempts : at[g] # "idle" /\ at[h] # "idle" => g = h
    /\ \A h \in Attempts : at[h] # "idle" => InTurn(cur[h])

(* As long as an answer that settled an entry is not past, no question about *)
(* another entry can be open.                                                *)
EntriesOf(m) == {t \in acted[m] : script[t] = "entry"}

OpenEntry(u) == pending[u].kind \in About /\ script[pending[u].tx] = "entry"

AnswerOf(m) ==
  acted[m] # {} =>
    /\ script[m] \in Answers /\ \A k \in 1 .. m - 1 : acked[k]
    /\ \A s, t \in EntriesOf(m) : s = t
    /\ ~acked[m] => \A t \in EntriesOf(m), u \in Users : OpenEntry(u) => pending[u].tx = t

AnswerInv == mode = "poll" => \A m \in Messages : AnswerOf(m)

LEMMA RoutedFits ==
  ASSUME CoreInv, NEW u \in Users, NEW m \in DOMAIN script, users[u] \in {"pending", "active", "suspended"}
  PROVE  /\ RouteStep(m, u) \in DraftSteps => script[m] = "entry"
         /\ RouteStep(m, u) \in ImageSteps => script[m] = "image"
         /\ RouteStep(m, u) \in SettleSteps => script[m] \in Answers
         /\ RouteStep(m, u) = "askDeleteRecent" => script[m] = "delete_recent"
<1> DEFINE Fits(s) == /\ s \in DraftSteps => script[m] = "entry"
                      /\ s \in ImageSteps => script[m] = "image"
                      /\ s \in SettleSteps => script[m] \in Answers
                      /\ s = "askDeleteRecent" => script[m] = "delete_recent"
<1>1. script[m] \in Contents
  BY DEF CoreInv, ChatTypeOK, InboundTypeOK
<1>2. Open(u).kind \in About \cup {"none", "delaccount"}
  BY DEF CoreInv, ChatTypeOK, RecordsTypeOK, Open, PendingRow, NoPending, About
<1>3. Fits(FreshStep(script[m])) /\ (script[m] \in {"image", "confirm", "discard"} => FreshStep(script[m]) = "reply")
  BY <1>1 DEF FreshStep, DraftSteps, ImageSteps, SettleSteps
<1>4. Fits(ConfirmStep(script[m], Open(u).tx))
  BY <1>1, <1>3 DEF ConfirmStep, DraftSteps, ImageSteps, SettleSteps, Answers
<1>5. Fits(TextStep(script[m], Open(u)))
  <2>1. CASE script[m] \in Slash \/ Open(u).kind = "none"
    BY <1>3, <2>1 DEF TextStep
  <2>2. CASE script[m] \notin Slash /\ Open(u).kind = "card"
    BY <1>4, <2>2 DEF TextStep
  <2>3. CASE script[m] \notin Slash /\ Open(u).kind = "edit"
    BY <2>3 DEF TextStep, DraftSteps, ImageSteps, SettleSteps
  <2>4. CASE script[m] \notin Slash /\ Open(u).kind = "delaccount"
    BY <2>4 DEF TextStep, DraftSteps, ImageSteps, SettleSteps
  <2>5. CASE script[m] \notin Slash /\ Open(u).kind = "delrecent"
    BY <2>5 DEF TextStep, DraftSteps, ImageSteps, SettleSteps, Answers
  <2> QED BY <1>2, <2>1, <2>2, <2>3, <2>4, <2>5 DEF About
<1>6. Fits("reply") /\ Fits("consent")
  BY DEF DraftSteps, ImageSteps, SettleSteps
<1>7. CASE ~allowed \/ users[u] = "suspended"
  BY <1>6, <1>7 DEF RouteStep
<1>8. CASE allowed /\ users[u] = "pending"
  BY <1>6, <1>8 DEF RouteStep, ConsentStep
<1>9. CASE allowed /\ users[u] = "active"
  <2>1. RouteStep(m, u) = ActiveStep(script[m], Open(u))
    BY <1>9 DEF RouteStep
  <2>2. CASE script[m] = "image"
    BY <2>1, <2>2 DEF ActiveStep, DraftSteps, ImageSteps, SettleSteps
  <2>3. CASE script[m] # "image"
    BY <1>5, <1>6, <2>1, <2>3 DEF ActiveStep
  <2> QED BY <2>2, <2>3
<1> QED BY <1>7, <1>8, <1>9

(* Under the lock a handler goes on with its own steps. *)
Follows(h) ==
  /\ at'[h] \in DraftSteps => at[h] \in DraftSteps
  /\ at'[h] \in ImageSteps => at[h] \in ImageSteps
  /\ at'[h] \in SettleSteps => at[h] \in SettleSteps
  /\ at'[h] # "askDeleteRecent"

LEMMA OrdinaryFollows ==
  ASSUME CoreInv, NEW h \in Attempts, OrdinaryStep(h)
  PROVE  Follows(h)
<1> USE DEF Follows, DraftSteps, ImageSteps, SettleSteps, Then, Leave, EndRoute, Goto
<1>0. at \in [Attempts -> ChatSteps]
  BY DEF CoreInv, ChatTypeOK, InboundTypeOK
<1>1. CASE CardStep(h)
  BY <1>0, <1>1 DEF CardStep, ConfirmTransaction, SettleReceipt, DiscardReceipt, DiscardTransaction, SoftDelete,
     AskEdit, ApplyEdit, RejectEdit, ShowAgain, CreateManualDraft, ResolveMerchant, AddMerchantAlias, Learn,
     RejectEntry
<1>2. CASE ImageStep(h)
  <2>1. at[h] \in ImageSteps
    BY <1>2 DEF ImageStep, RegisterImage, IncrementUsage, RefuseImage, QueueImage, TransitionReceipt,
       EnqueueReceiptJob, DeleteReceivedReceipt
  <2>2. \A s : AfterRegister(s) \in {"queue", "enqueue", "reply"}
    BY DEF AfterRegister
  <2>3. at'[h] \in {"charge", "queue", "enqueue", "reply", "refuse", "mark"}
    BY <1>0, <1>2, <2>2 DEF ImageStep, RegisterImage, IncrementUsage, RefuseImage, QueueImage, TransitionReceipt,
       EnqueueReceiptJob, DeleteReceivedReceipt
  <2> QED BY <2>1, <2>3
<1>3. CASE EntryStep(h)
  BY <1>0, <1>3 DEF EntryStep, AskDeleteRecent, DeleteRecent, SoftDelete, DeleteRecentRefused, Recategorise,
     PersistInsight, WriteExport
<1>4. CASE ClearPendingAction(h) \/ Reply(h) \/ AskDelete(h) \/ RemoveExportArtifacts(h) \/ DeletionConfirmation(h)
  BY <1>0, <1>4 DEF ClearPendingAction, Reply, AskDelete, RemoveExportArtifacts, DeletionConfirmation
<1>5. CASE LockedStatementFails(h)
  BY <1>0, <1>5 DEF LockedStatementFails
<1> QED BY <1>1, <1>2, <1>3, <1>4, <1>5 DEF OrdinaryStep

(* A receipt appears with the registration of an image. *)
LEMMA ReceiptAppears ==
  ASSUME CoreInv, NEW h \in Attempts, OrdinaryStep(h), NEW m \in Messages, receipt'[m].status # "none"
  PROVE  receipt[m].status # "none" \/ (m = cur[h] /\ at[h] \in ImageSteps)
<1>0. receipt \in [Messages -> Document]
  BY DEF CoreInv, ChatTypeOK, RecordsTypeOK
<1>1. CASE ImageStep(h)
  <2>1. at[h] \in ImageSteps
    BY <1>1 DEF ImageStep, RegisterImage, IncrementUsage, RefuseImage, QueueImage, TransitionReceipt,
       EnqueueReceiptJob, DeleteReceivedReceipt, ImageSteps
  <2>2. receipt' = receipt \/ \E r : receipt' = [receipt EXCEPT ![cur[h]] = r]
    BY <1>1, Zenon DEF ImageStep, RegisterImage, IncrementUsage, RefuseImage, QueueImage, TransitionReceipt,
       EnqueueReceiptJob, DeleteReceivedReceipt
  <2>3. m = cur[h] \/ receipt'[m] = receipt[m]
    BY <1>0, <2>2
  <2> QED BY <2>1, <2>3
<1>2. CASE LockedStatementFails(h)
  BY <1>2 DEF LockedStatementFails, records
<1>3. CASE ~ImageStep(h) /\ ~LockedStatementFails(h)
  <2>1. Tame(m)
    BY <1>3, OtherReceipts
  <2> QED BY <2>1 DEF Tame, Charged
<1> QED BY <1>1, <1>2, <1>3

LEMMA OrdinaryFits ==
  ASSUME CoreInv, FitInv, NEW h \in Attempts, OrdinaryStep(h)
  PROVE  FitInv'
<1>0. at \in [Attempts -> ChatSteps]
  BY DEF CoreInv, ChatTypeOK, InboundTypeOK
<1>1. Ordinary(h) /\ Follows(h)
  BY OrdinaryMoves, OrdinaryFollows
<1>2. /\ UNCHANGED <<script, cur, identity>> /\ at[h] \in LockedSteps
      /\ \A g \in Attempts : g # h => at'[g] = at[g]
  BY <1>0, <1>1 DEF Ordinary, GoesOn, EndsRoute, Goto, setting, people, LockedSteps, GoingSteps
<1>3. \A g \in Attempts : StepFits(g)'
  BY <1>1, <1>2 DEF FitInv, StepFits, Follows
<1>4. \A m \in Messages : receipt'[m].status # "none" => script'[m] = "image"
  BY <1>2, ReceiptAppears DEF FitInv, StepFits
<1>5. ASSUME NEW u \in Users, identity' # u
      PROVE  pending'[u].kind = "none"
  <2>1. CASE at[h] = "farewell"
    BY <1>1, <1>2, <1>5, <2>1 DEF Ordinary, records, FitInv
  <2>2. CASE at[h] # "farewell"
    <3>1. identity = who[h]
      BY <1>2, <2>2, LoneHolder
    <3> QED BY <1>1, <1>2, <1>5, <3>1 DEF Ordinary, OwnRowsOnly, FitInv
  <2> QED BY <2>1, <2>2
<1> QED BY <1>3, <1>4, <1>5 DEF FitInv

LEMMA EnterFits ==
  ASSUME CoreInv, FitInv, NEW h \in Attempts, Enter(h)
  PROVE  FitInv'
<1> DEFINE v == who[h]
<1>0. at \in [Attempts -> ChatSteps] /\ pending \in [Users -> PendingRow]
  BY DEF CoreInv, ChatTypeOK, InboundTypeOK, RecordsTypeOK
<1>1. /\ v \in Users /\ cur[h] \in DOMAIN script /\ (Enters(h) \/ PassesBy(h))
      /\ UNCHANGED <<script, cur, identity, receipt>>
  BY EnterMoves DEF setting, people
<1>2. StepFits(h)' /\ \A g \in Attempts : g # h => at'[g] = at[g]
  <2>1. CASE PassesBy(h)
    BY <1>0, <2>1 DEF PassesBy, StepFits, DraftSteps, ImageSteps, SettleSteps
  <2>2. CASE Enters(h)
    <3>1. ~Gone(v) /\ users[v] \in {"pending", "active", "suspended"}
      BY <2>2 DEF Enters, Gone
    <3> DEFINE step == RouteStep(cur[h], v)
    <3>2. /\ step \in DraftSteps => script[cur[h]] = "entry"
          /\ step \in ImageSteps => script[cur[h]] = "image"
          /\ step \in SettleSteps => script[cur[h]] \in Answers
          /\ step = "askDeleteRecent" => script[cur[h]] = "delete_recent"
      BY <1>1, <3>1, RoutedFits
    <3>3. Goto(h, IF step = "reshow" THEN "reply" ELSE step)
      BY <3>1 DEF Enter
    <3> HIDE DEF step
    <3>4. at'[h] \in {step, "reply"} /\ \A g \in Attempts : g # h => at'[g] = at[g]
      BY <1>0, <3>3 DEF Goto
    <3> QED BY <1>1, <3>2, <3>4 DEF StepFits, DraftSteps, ImageSteps, SettleSteps
  <2> QED BY <1>1, <2>1, <2>2
<1>3. \A u \in Users : pending'[u] = pending[u] \/ pending'[u].kind = "none"
  BY <1>0, <1>1 DEF Enters, PassesBy, Open, NoPending
<1>4. \A g \in Attempts : StepFits(g)'
  BY <1>1, <1>2 DEF FitInv, StepFits
<1> QED BY <1>1, <1>3, <1>4 DEF FitInv

LEMMA FitStep ==
  ASSUME CoreInv, FitInv, [Next]_vars
  PROVE  FitInv'
<1>0. at \in [Attempts -> ChatSteps] /\ NoUser \notin Users
  BY DEF CoreInv, ChatTypeOK, InboundTypeOK, NoUser, Users
<1>a. ASSUME UNCHANGED <<script, at, cur, receipt, pending, identity>>
      PROVE  FitInv'
  BY <1>a DEF FitInv, StepFits
<1>b. ASSUME NEW h \in Attempts, UNCHANGED <<script, cur, receipt, pending, identity>>,
             at'[h] \in {"reply", "unexport", "mark"}, \A g \in Attempts : g # h => at'[g] = at[g]
      PROVE  FitInv'
  BY <1>b DEF FitInv, StepFits, DraftSteps, ImageSteps, SettleSteps
<1>1. ASSUME NEW m \in Messages, Quarantine(m) \/ ClaimExpires(m) \/ ClaimOutlived(m) \/ DeleteExpiredTombstone(m), UNCHANGED chatVars
      PROVE  FitInv'
  <2>1. UNCHANGED <<script, at, cur, receipt, pending, identity>>
    BY <1>1 DEF Quarantine, ClaimExpires, ClaimOutlived, DeleteExpiredTombstone, local, setting, people, chatVars, records
  <2> QED BY <1>a, <2>1
<1>2. ASSUME NEW h \in Attempts, OutsideStep(h), UNCHANGED chatVars
      PROVE  FitInv'
  <2>1. UNCHANGED <<receipt, pending>>
    BY <1>2 DEF chatVars, records
  <2>2. Outside(h) /\ (UNCHANGED people \/ FirstContact(h))
    BY <1>2, OutsideMoves, PeopleOutside
  <2>3. /\ UNCHANGED script /\ at'[h] \in OpenSteps
        /\ \A g \in Attempts : g # h => at'[g] = at[g] /\ cur'[g] = cur[g]
    BY <1>0, <2>2 DEF Outside, Goto, setting
  <2>4. \A g \in Attempts : StepFits(g)'
    BY <2>3 DEF FitInv, StepFits, OpenSteps, DraftSteps, ImageSteps, SettleSteps
  <2>5. \A u \in Users : identity' # u => identity # u
    BY <1>0, <2>2 DEF people, FirstContact
  <2> QED BY <2>1, <2>3, <2>4, <2>5 DEF FitInv
<1>3. ASSUME NEW h \in Attempts, SetConsent(h) \/ BeginAccountDeletion(h)
      PROVE  FitInv'
  <2>1. /\ UNCHANGED <<script, cur, receipt, pending, identity>> /\ at'[h] \in {"reply", "unexport"}
        /\ \A g \in Attempts : g # h => at'[g] = at[g]
    BY <1>0, <1>3, NewStatusMoves DEF NewStatus, Goto, setting, local, records
  <2> QED BY <1>b, <2>1
<1>4. ASSUME NEW h \in Attempts, PurgeAccountData(h)
      PROVE  FitInv'
  <2>1. CASE Purges(h)
    <3> DEFINE v == who[h]
    <3>1. /\ UNCHANGED <<script, cur>> /\ at[h] = "purge" /\ at' = [at EXCEPT ![h] = "farewell"]
          /\ pending' = [pending EXCEPT ![v] = NoPending]
          /\ receipt' = [m \in Messages |-> IF receipt[m].owner = v THEN NoReceipt ELSE receipt[m]]
      BY <2>1 DEF Purges, EraseRecords, setting, local, Goto
    <3>2. identity = v
      BY <3>1, LoneHolder DEF LockedSteps, GoingSteps
    <3>3. pending \in [Users -> PendingRow]
      BY DEF CoreInv, ChatTypeOK, RecordsTypeOK
    <3> HIDE DEF v
    <3>4. \A u \in Users : pending'[u].kind = "none"
      BY <3>1, <3>2, <3>3 DEF FitInv, NoPending
    <3>5. \A m \in Messages : receipt'[m].status # "none" => receipt'[m] = receipt[m]
      BY <3>1 DEF NoReceipt
    <3>6. at'[h] = "farewell" /\ \A g \in Attempts : g # h => at'[g] = at[g]
      BY <1>0, <3>1
    <3>7. \A g \in Attempts : StepFits(g)'
      BY <3>1, <3>6 DEF FitInv, StepFits, DraftSteps, ImageSteps, SettleSteps
    <3> QED BY <3>1, <3>4, <3>5, <3>7 DEF FitInv
  <2>2. CASE Ordinary(h) /\ EndsRoute(h) /\ at[h] = "purge" /\ UNCHANGED <<chatVars, errors>>
    <3>1. /\ UNCHANGED <<script, cur, receipt, pending, identity>> /\ at'[h] = "mark"
          /\ \A g \in Attempts : g # h => at'[g] = at[g]
      BY <1>0, <2>2 DEF Ordinary, EndsRoute, setting, people, chatVars, records
    <3> QED BY <1>b, <3>1
  <2> QED BY <1>4, <2>1, <2>2, PurgeMoves
<1>5. ASSUME NEW u \in Users, PendingExpires(u)
      PROVE  FitInv'
  <2>1. /\ UNCHANGED <<script, at, cur, receipt, identity>>
        /\ pending' = [pending EXCEPT ![u].expired = TRUE]
    BY <1>5 DEF PendingExpires, inboundVars, setting, people, local
  <2>2. \A w \in Users : pending'[w].kind = pending[w].kind
    <3>1. pending \in [Users -> PendingRow]
      BY DEF CoreInv, ChatTypeOK, RecordsTypeOK
    <3> QED BY <2>1, <3>1 DEF PendingRow
  <2> QED BY <2>1, <2>2 DEF FitInv, StepFits
<1>6. CASE SendReviewCard
  <2>1. UNCHANGED <<script, at, cur, receipt, pending, identity>>
    BY <1>6 DEF SendReviewCard, setting, people, local, records
  <2> QED BY <1>a, <2>1
<1>7. ASSUME NEW n \in Messages, FinalizeReceiptReview(n)
      PROVE  FitInv'
  <2> DEFINE v == receipt[n].owner
  <2>1. /\ UNCHANGED <<script, at, cur, identity>> /\ users[v] \notin {"none", "deleted"} /\ receipt[n].status = "queued"
        /\ receipt' = [receipt EXCEPT ![n].status = "review", ![n].job = FALSE]
        /\ OpenQuestion(v, "card", n)
    BY <1>7 DEF FinalizeReceiptReview, Reviewable, ReviewOf, setting, people, local
  <2>2. pending \in [Users -> PendingRow] /\ receipt \in [Messages -> Document]
    BY DEF CoreInv, ChatTypeOK, RecordsTypeOK
  <2>3. v \in Users
    BY <2>1, <2>2 DEF Document
  <2>4. identity = v
    BY <2>1, <2>3 DEF CoreInv, UserInv
  <2> HIDE DEF v
  <2>5. \A u \in Users : u # v => pending'[u] = pending[u]
    BY <2>1, <2>2 DEF OpenQuestion
  <2>6. \A m \in Messages : m # n => receipt'[m] = receipt[m]
    BY <2>1, <2>2
  <2> QED BY <2>1, <2>4, <2>5, <2>6 DEF FitInv, StepFits
<1>8. CASE UNCHANGED vars
  <2>1. UNCHANGED <<script, at, cur, receipt, pending, identity>>
    BY <1>8 DEF vars, inboundVars, chatVars, records, setting, people, local
  <2> QED BY <1>a, <2>1
<1>9. CASE Next
  BY <1>1, <1>2, <1>3, <1>4, <1>5, <1>6, <1>7, <1>9, StepKinds, EnterFits, OrdinaryFits DEF WorkerStep
<1> QED BY <1>8, <1>9

(* Outside the lock an attempt keeps its message until it returns, and only  *)
(* then the provider may be told to forget it.                               *)
LEMMA OutsideKeepsTurn ==
  ASSUME CoreInv, NEW h \in Attempts, OutsideStep(h), ~\E m \in Messages : Deliver(h, m)
  PROVE  /\ at[h] # "idle" /\ (at'[h] # "idle" => cur'[h] = cur[h] /\ acked' = acked)
         /\ \A m \in Messages : acked[m] => acked'[m]
<1> USE DEF Goto, local
<1>0. at \in [Attempts -> ChatSteps] /\ acked \in [Messages -> BOOLEAN] /\ cur[h] \in Messages
  BY DEF CoreInv, ChatTypeOK, InboundTypeOK
<1>a. ASSUME NEW ok, Return(h, ok)
      PROVE  at'[h] = "idle" /\ \A m \in Messages : acked[m] => acked'[m]
  BY <1>0, <1>a DEF Return
<1>b. ASSUME at[h] # "idle", UNCHANGED <<acked, cur>>
      PROVE  /\ at[h] # "idle" /\ (at'[h] # "idle" => cur'[h] = cur[h] /\ acked' = acked)
             /\ \A m \in Messages : acked[m] => acked'[m]
  BY <1>b
<1>1. CASE at[h] = "claim" /\ (InsertMessage(h) \/ ReclaimMessage(h))
  BY <1>1, <1>b DEF InsertMessage, ReclaimMessage
<1>2. CASE (Absorb(h) \/ RefuseAltered(h)) /\ at[h] = "claim"
  BY <1>2, <1>a DEF Absorb, RefuseAltered
<1>3. CASE ResolveUser(h) \/ CreateUserWithIdentity(h) \/ SetProviderMessageUser(h)
  BY <1>3, <1>b DEF ResolveUser, CreateUserWithIdentity, SetProviderMessageUser
<1>4. CASE MarkProviderMessage(h)
  <2>1. at[h] = "mark" /\ \E ok : Return(h, ok)
    BY <1>4 DEF MarkProviderMessage
  <2> QED BY <1>a, <2>1
<1>5. CASE Crash(h)
  BY <1>0, <1>5 DEF Crash
<1>6. CASE AnswerLost(h)
  BY <1>6, <1>a DEF AnswerLost
<1>7. CASE StatementFails(h)
  <2>1. at[h] # "idle" /\ (Return(h, FALSE) \/ UNCHANGED <<acked, cur>>)
    BY <1>7 DEF StatementFails
  <2> QED BY <1>a, <1>b, <2>1
<1> QED BY <1>1, <1>2, <1>3, <1>4, <1>5, <1>6, <1>7 DEF OutsideStep, InboundStep, ClaimProviderMessage

LEMMA TurnKept ==
  ASSUME TurnInv, UNCHANGED mode, NEW h \in Attempts, at[h] # "idle",
         at'[h] # "idle" => cur'[h] = cur[h] /\ acked' = acked,
         \A g \in Attempts : g # h => at'[g] = at[g]
  PROVE  TurnInv'
<1>1. ASSUME mode = "poll"
      PROVE  \A g \in Attempts : g # h => at'[g] = "idle"
  BY <1>1 DEF TurnInv
<1>2. at'[h] # "idle" /\ mode = "poll" => InTurn(cur[h])'
  BY DEF TurnInv, InTurn
<1>3. ASSUME mode = "poll", NEW g \in Attempts, at'[g] # "idle"
      PROVE  g = h /\ InTurn(cur[g])'
  <2>1. g = h
    BY <1>1, <1>3
  <2> QED BY <1>2, <1>3, <2>1
<1> QED BY <1>3 DEF TurnInv

(* Steps under the lock, and of the world, leave the turn alone. *)
LEMMA TurnStays ==
  ASSUME TurnInv, UNCHANGED <<mode, acked, cur>>,
         \A g \in Attempts : at'[g] # "idle" => at[g] # "idle"
  PROVE  TurnInv'
  BY DEF TurnInv, InTurn

LEMMA TurnStep ==
  ASSUME CoreInv, TurnInv, [Next]_vars
  PROVE  TurnInv' /\ UNCHANGED <<mode, script>> /\ \A m \in Messages : acked[m] => acked'[m]
<1>0. at \in [Attempts -> ChatSteps] /\ acked \in [Messages -> BOOLEAN] /\ cur \in [Attempts -> Messages]
  BY DEF CoreInv, ChatTypeOK, InboundTypeOK
<1>a. ASSUME UNCHANGED <<mode, script, acked, cur>>, \A g \in Attempts : at'[g] # "idle" => at[g] # "idle"
      PROVE  TurnInv' /\ UNCHANGED <<mode, script>> /\ \A m \in Messages : acked[m] => acked'[m]
  BY <1>a, TurnStays
<1>1. ASSUME NEW m \in Messages, Quarantine(m)
      PROVE  TurnInv' /\ UNCHANGED <<mode, script>> /\ \A k \in Messages : acked[k] => acked'[k]
  <2>1. /\ Due(m) /\ acked' = [acked EXCEPT ![m] = TRUE] /\ UNCHANGED <<mode, script, at>>
    BY <1>1 DEF Quarantine, setting
  <2>2. mode = "poll" => \A g \in Attempts : at'[g] = "idle"
    BY <2>1 DEF Due
  <2> QED BY <1>0, <2>1, <2>2 DEF TurnInv
<1>2. ASSUME NEW m \in Messages, ClaimExpires(m) \/ ClaimOutlived(m) \/ DeleteExpiredTombstone(m)
      PROVE  UNCHANGED <<mode, script, acked, cur, at>>
  BY <1>2 DEF ClaimExpires, ClaimOutlived, DeleteExpiredTombstone, local, setting
<1>3. ASSUME NEW h \in Attempts, NEW m \in Messages, Deliver(h, m)
      PROVE  TurnInv' /\ UNCHANGED <<mode, script, acked>>
  <2>1. /\ Due(m) /\ at' = [at EXCEPT ![h] = "claim"] /\ cur' = [cur EXCEPT ![h] = m]
        /\ UNCHANGED <<mode, script, acked>>
    BY <1>3 DEF Deliver, Goto, setting
  <2>2. \A g \in Attempts : g # h => at'[g] = at[g]
    BY <1>0, <2>1
  <2>3. cur'[h] = m
    BY <1>0, <2>1
  <2>4. ASSUME mode = "poll", NEW g \in Attempts, at'[g] # "idle"
        PROVE  g = h /\ InTurn(cur[g])'
    <3>1. g = h
      BY <2>1, <2>2, <2>4 DEF Due
    <3>2. InTurn(m)
      BY <2>1, <2>4 DEF Due, InTurn
    <3> QED BY <2>1, <2>3, <3>1, <3>2 DEF InTurn
  <2> QED BY <2>1, <2>4 DEF TurnInv
<1>4. ASSUME NEW h \in Attempts, OutsideStep(h)
      PROVE  TurnInv' /\ UNCHANGED <<mode, script>> /\ \A m \in Messages : acked[m] => acked'[m]
  <2>1. CASE ~\E m \in Messages : Deliver(h, m)
    <3>1. /\ at[h] # "idle" /\ (at'[h] # "idle" => cur'[h] = cur[h] /\ acked' = acked)
          /\ \A m \in Messages : acked[m] => acked'[m]
      BY <1>4, <2>1, OutsideKeepsTurn
    <3>2. UNCHANGED <<mode, script>> /\ \A g \in Attempts : g # h => at'[g] = at[g]
      BY <1>0, <1>4, OutsideMoves DEF Outside, Goto, setting
    <3> QED BY <3>1, <3>2, TurnKept
  <2> QED BY <1>3, <2>1
<1>5. ASSUME NEW h \in Attempts, Enter(h)
      PROVE  UNCHANGED <<mode, script, acked, cur>> /\ \A g \in Attempts : at'[g] # "idle" => at[g] # "idle"
  BY <1>0, <1>5, EnterMoves DEF Enters, PassesBy, Goto, setting
<1>6. ASSUME NEW h \in Attempts, Ordinary(h)
      PROVE  UNCHANGED <<mode, script, acked, cur>> /\ \A g \in Attempts : at'[g] # "idle" => at[g] # "idle"
  <2>1. /\ at[h] # "idle" /\ \A g \in Attempts : g # h => at'[g] = at[g]
    BY <1>0, <1>6 DEF Ordinary, GoesOn, EndsRoute, Goto, ActiveSteps, CardSteps, EditSteps, GoingSteps, LockedSteps
  <2> QED BY <1>6, <2>1 DEF Ordinary, setting
<1>7. ASSUME NEW h \in Attempts, SetConsent(h) \/ BeginAccountDeletion(h)
      PROVE  UNCHANGED <<mode, script, acked, cur>> /\ \A g \in Attempts : at'[g] # "idle" => at[g] # "idle"
  BY <1>0, <1>7, NewStatusMoves DEF NewStatus, Goto, setting, local
<1>8. ASSUME NEW h \in Attempts, Purges(h)
      PROVE  UNCHANGED <<mode, script, acked, cur>> /\ \A g \in Attempts : at'[g] # "idle" => at[g] # "idle"
  BY <1>0, <1>8 DEF Purges, Goto, setting, local
<1>9. ASSUME NEW u \in Users, PendingExpires(u)
      PROVE  UNCHANGED <<mode, script, acked, cur, at>>
  BY <1>9 DEF PendingExpires, inboundVars, setting, local
<1>10. ASSUME WorkerStep
       PROVE  UNCHANGED <<mode, script, acked, cur, at>>
  BY <1>10 DEF WorkerStep, FinalizeReceiptReview, SendReviewCard, setting, local
<1>11. CASE UNCHANGED vars
  <2>1. UNCHANGED <<mode, script, acked, cur, at>>
    BY <1>11 DEF vars, inboundVars, setting, local
  <2> QED BY <1>a, <2>1
<1>12. CASE Next
  <2>1. ASSUME NEW h \in Attempts, OrdinaryStep(h)
        PROVE  Ordinary(h)
    BY <2>1, OrdinaryMoves
  <2>2. ASSUME NEW h \in Attempts, PurgeAccountData(h)
        PROVE  Purges(h) \/ Ordinary(h)
    BY <2>2, PurgeMoves
  <2> QED BY <1>a, <1>1, <1>2, <1>4, <1>5, <1>6, <1>7, <1>8, <1>9, <1>10, <1>12, <2>1, <2>2, StepKinds
<1> QED BY <1>11, <1>12

(* There is one message whose turn it is. *)
LEMMA OneTurn ==
  ASSUME NEW m \in Messages, NEW n \in Messages, InTurn(m), InTurn(n)
  PROVE  m = n
<1>1. m \in Nat /\ n \in Nat /\ m > 0 /\ n > 0
  BY InboundBounds DEF Messages
<1>2. CASE m < n
  BY <1>1, <1>2 DEF InTurn
<1>3. CASE n < m
  BY <1>1, <1>3 DEF InTurn
<1> QED BY <1>1, <1>2, <1>3

(* A message that is no answer is being worked on. *)
OtherTurn == \E h \in Attempts : at[h] # "idle" /\ script[cur[h]] \notin Answers

(* What is asked about an entry was asked before, or comes from a message    *)
(* that is no answer.                                                        *)
Opens(u) == OpenEntry(u)' => OtherTurn \/ (OpenEntry(u) /\ pending'[u].tx = pending[u].tx)

LEMMA AnswersKept ==
  ASSUME CoreInv, TurnInv, AnswerInv, UNCHANGED <<mode, script, acted>>,
         \A m \in Messages : acked[m] => acked'[m],
         \A u \in Users : Opens(u)
  PROVE  AnswerInv'
<1> SUFFICES ASSUME mode = "poll", NEW m \in Messages, acted[m] # {}
             PROVE  AnswerOf(m)'
  BY DEF AnswerInv, AnswerOf
<1>1. AnswerOf(m)
  BY DEF AnswerInv
<1>2. EntriesOf(m)' = EntriesOf(m)
  BY DEF EntriesOf
<1>3. script'[m] \in Answers /\ \A k \in 1 .. m - 1 : acked'[k]
  <2>1. \A k \in 1 .. m - 1 : k \in Messages
    BY InboundBounds DEF Messages
  <2> QED BY <1>1, <2>1 DEF AnswerOf
<1>4. ASSUME ~acked'[m], NEW t \in EntriesOf(m), NEW u \in Users, OpenEntry(u)'
      PROVE  pending'[u].tx = t
  <2>1. InTurn(m)
    BY <1>1, <1>4 DEF AnswerOf, InTurn
  <2>2. ~OtherTurn
    <3> SUFFICES ASSUME NEW h \in Attempts, at[h] # "idle", script[cur[h]] \notin Answers
                 PROVE  FALSE
      BY DEF OtherTurn
    <3>1. InTurn(cur[h]) /\ cur[h] \in Messages
      BY DEF TurnInv, CoreInv, ChatTypeOK, InboundTypeOK
    <3>2. cur[h] = m
      BY <2>1, <3>1, OneTurn
    <3> QED BY <1>1, <3>2 DEF AnswerOf
  <2>3. OpenEntry(u) /\ pending'[u].tx = pending[u].tx
    BY <1>4, <2>2 DEF Opens
  <2>4. ~acked[m]
    BY <1>4
  <2> QED BY <1>1, <1>4, <2>3, <2>4 DEF AnswerOf
<1>5. \A s, t \in EntriesOf(m) : s = t
  BY <1>1 DEF AnswerOf
<1> QED BY <1>2, <1>3, <1>4, <1>5 DEF AnswerOf

(* An answer settles the subject of the one open question. *)
LEMMA AnswerSettles ==
  ASSUME CoreInv, FitInv, TurnInv, AnswerInv, NEW h \in Attempts, at[h] \in SettleSteps,
         NEW v \in Users, v = who[h], NEW e, e = pending[v].tx, pending[v].kind \in About,
         Settles(cur[h], e), UNCHANGED <<mode, script, acked, pending>>
  PROVE  AnswerInv'
<1> SUFFICES ASSUME mode = "poll", NEW m \in Messages
             PROVE  AnswerOf(m)'
  BY DEF AnswerInv
<1>0. cur[h] \in Messages /\ acted \in [Messages -> SUBSET Messages] /\ at[h] # "idle"
  BY DEF CoreInv, ChatTypeOK, InboundTypeOK, SpeechTypeOK, SettleSteps
<1>1. AnswerOf(m)
  BY DEF AnswerInv
<1>2. CASE m # cur[h]
  <2>1. acted'[m] = acted[m]
    BY <1>0, <1>2 DEF Settles
  <2>2. EntriesOf(m)' = EntriesOf(m) /\ \A u \in Users : OpenEntry(u)' = OpenEntry(u)
    BY <2>1 DEF EntriesOf, OpenEntry
  <2> QED BY <1>1, <2>1, <2>2 DEF AnswerOf
<1>3. CASE m = cur[h]
  <2>1. InTurn(m) /\ script[m] \in Answers
    BY <1>0, <1>3 DEF TurnInv, FitInv, StepFits
  <2>2. acted'[m] = acted[m] \cup {e}
    BY <1>0, <1>3 DEF Settles
  <2>3. identity = v
    <3>1. at[h] \in LockedSteps /\ at[h] # "farewell"
      BY DEF SettleSteps, LockedSteps, ActiveSteps, CardSteps
    <3> QED BY <3>1, LoneHolder
  <2>4. \A u \in Users : OpenEntry(u) => u = v
    BY <2>3 DEF FitInv, OpenEntry, About
  <2>5. EntriesOf(m)' \subseteq EntriesOf(m) \cup {e}
    BY <2>2 DEF EntriesOf
  <2>6. e \in EntriesOf(m)' => OpenEntry(v)
    BY DEF EntriesOf, OpenEntry
  <2>7. OpenEntry(v) => \A t \in EntriesOf(m) : t = e
    <3>1. EntriesOf(m) # {} => acted[m] # {}
      BY DEF EntriesOf
    <3> QED BY <1>1, <2>1, <3>1 DEF AnswerOf, InTurn
  <2>8. \A s, t \in EntriesOf(m)' : s = t
    <3>1. CASE OpenEntry(v)
      BY <2>5, <2>7, <3>1
    <3>2. CASE ~OpenEntry(v)
      <4>1. EntriesOf(m)' \subseteq EntriesOf(m)
        BY <2>5, <2>6, <3>2
      <4>2. EntriesOf(m) # {} => acted[m] # {}
        BY DEF EntriesOf
      <4> QED BY <1>1, <4>1, <4>2 DEF AnswerOf
    <3> QED BY <3>1, <3>2
  <2>9. \A t \in EntriesOf(m)', u \in Users : OpenEntry(u)' => pending'[u].tx = t
    <3>1. \A u \in Users : OpenEntry(u)' <=> OpenEntry(u)
      BY DEF OpenEntry
    <3> QED BY <2>4, <2>5, <2>7, <3>1
  <2>10. script'[m] \in Answers /\ \A k \in 1 .. m - 1 : acked'[k]
    BY <2>1 DEF InTurn
  <2> QED BY <2>8, <2>9, <2>10 DEF AnswerOf
<1> QED BY <1>2, <1>3

LEMMA OrdinaryOpens ==
  ASSUME CoreInv, FitInv, NEW h \in Attempts, OrdinaryStep(h), UNCHANGED script,
         ~ConfirmTransaction(h), ~DiscardTransaction(h), ~DeleteRecent(h), NEW u \in Users
  PROVE  UNCHANGED acted /\ Opens(u)
<1> USE DEF Then, Silent, deeds, records
<1>0. pending \in [Users -> PendingRow]
  BY DEF CoreInv, ChatTypeOK, RecordsTypeOK
<1>a. ASSUME UNCHANGED pending
      PROVE  Opens(u)
  BY <1>a DEF Opens, OpenEntry
<1>1. CASE AskEdit(h) \/ ShowAgain(h)
  <2> DEFINE v == who[h]
  <2>1. UNCHANGED acted /\ at[h] \in {"askEdit", "showAgain"}
        /\ \E k \in About : OpenQuestion(v, k, pending[v].tx)
    BY <1>1 DEF AskEdit, ShowAgain, About
  <2>2. pending[v].kind \in About
    BY <2>1 DEF CoreInv, QuestionInv, CardSteps, EditSteps, About
  <2> HIDE DEF v
  <2>3. CASE u = v
    <3>1. pending'[u].tx = pending[u].tx
      BY <1>0, <2>1, <2>3 DEF OpenQuestion
    <3> QED BY <2>1, <2>2, <2>3, <3>1 DEF Opens, OpenEntry
  <2>4. CASE u # v
    <3>1. pending'[u] = pending[u]
      BY <1>0, <2>1, <2>4 DEF OpenQuestion
    <3> QED BY <2>1, <3>1 DEF Opens, OpenEntry
  <2> QED BY <2>3, <2>4
<1>2. CASE CreateManualDraft(h) \/ AskDeleteRecent(h)
  <2>1. UNCHANGED acted /\ at[h] \in {"draft", "askDeleteRecent"}
    BY <1>2 DEF CreateManualDraft, AskDeleteRecent
  <2>2. at[h] # "idle" /\ script[cur[h]] \notin Answers
    BY <2>1 DEF FitInv, StepFits, DraftSteps, Answers
  <2> QED BY <2>1, <2>2 DEF Opens, OtherTurn
<1>3. CASE ClearPendingAction(h) \/ AskDelete(h)
  <2>1. UNCHANGED acted /\ \E p : pending' = [pending EXCEPT ![who[h]] = p] /\ p.kind \in {"none", "delaccount"}
    BY <1>3 DEF ClearPendingAction, AskDelete, OpenQuestion, NoPending
  <2>2. pending'[u] = pending[u] \/ pending'[u].kind \in {"none", "delaccount"}
    BY <1>0, <2>1
  <2> QED BY <2>1, <2>2 DEF Opens, OpenEntry, About
<1>4. CASE ~(AskEdit(h) \/ ShowAgain(h) \/ CreateManualDraft(h) \/ AskDeleteRecent(h)
             \/ ClearPendingAction(h) \/ AskDelete(h))
  <2>1. UNCHANGED <<pending, acted>>
    BY <1>4, Zenon DEF OrdinaryStep, CardStep, SettleReceipt, DiscardReceipt, ApplyEdit, RejectEdit,
       ResolveMerchant, AddMerchantAlias, Learn, RejectEntry, ImageStep, RegisterImage, IncrementUsage, RefuseImage,
       QueueImage, TransitionReceipt, EnqueueReceiptJob, DeleteReceivedReceipt, EntryStep, DeleteRecentRefused,
       Recategorise, PersistInsight, WriteExport, Reply, RemoveExportArtifacts, DeletionConfirmation, LockedStatementFails
  <2> QED BY <1>a, <2>1
<1> QED BY <1>1, <1>2, <1>3, <1>4

LEMMA OrdinaryAnswers ==
  ASSUME CoreInv, FitInv, TurnInv, AnswerInv, NEW h \in Attempts, OrdinaryStep(h)
  PROVE  AnswerInv'
<1>1. UNCHANGED <<mode, script, acked>>
  BY OrdinaryMoves DEF Ordinary, setting
<1>2. CASE ConfirmTransaction(h) \/ DiscardTransaction(h) \/ DeleteRecent(h)
  <2>1. /\ at[h] \in {"confirm", "softDelete", "deleteRecent"} /\ UNCHANGED pending
        /\ Settles(cur[h], pending[who[h]].tx)
    BY <1>2 DEF ConfirmTransaction, DiscardTransaction, DeleteRecent, SoftDelete
  <2>2. at[h] \in SettleSteps /\ at[h] \in LockedSteps /\ at[h] # "farewell"
    BY <2>1 DEF SettleSteps, LockedSteps, ActiveSteps, CardSteps
  <2>3. who[h] \in Users
    BY <2>2, LoneHolder
  <2>4. pending[who[h]].kind \in About
    BY <2>1 DEF CoreInv, QuestionInv, CardSteps, About
  <2> QED BY <1>1, <2>1, <2>2, <2>3, <2>4, AnswerSettles
<1>3. CASE ~ConfirmTransaction(h) /\ ~DiscardTransaction(h) /\ ~DeleteRecent(h)
  <2>1. \A u \in Users : UNCHANGED acted /\ Opens(u)
    BY <1>1, <1>3, OrdinaryOpens
  <2>2. \E u : u \in Users
    BY InboundBounds DEF Users
  <2> QED BY <1>1, <2>1, <2>2, AnswersKept
<1> QED BY <1>2, <1>3

LEMMA AnswerStep ==
  ASSUME CoreInv, FitInv, TurnInv, AnswerInv, [Next]_vars
  PROVE  AnswerInv'
<1>0. /\ UNCHANGED <<mode, script>> /\ (\A m \in Messages : acked[m] => acked'[m])
      /\ pending \in [Users -> PendingRow]
  BY TurnStep DEF CoreInv, ChatTypeOK, RecordsTypeOK
<1>a. ASSUME UNCHANGED acted,
             \A u \in Users : \/ pending'[u].kind = "none"
                              \/ pending'[u].kind = pending[u].kind /\ pending'[u].tx = pending[u].tx
      PROVE  AnswerInv'
  <2>1. ASSUME NEW u \in Users
        PROVE  Opens(u)
    BY <1>0, <1>a DEF Opens, OpenEntry, About
  <2> QED BY <1>0, <1>a, <2>1, AnswersKept
<1>1. ASSUME UNCHANGED chatVars
      PROVE  AnswerInv'
  BY <1>1, <1>a DEF chatVars, records, deeds
<1>2. ASSUME NEW h \in Attempts, Enter(h)
      PROVE  AnswerInv'
  <2>1. /\ who[h] \in Users /\ UNCHANGED acted
        /\ pending' \in {pending, [pending EXCEPT ![who[h]] = Open(who[h])]}
    BY <1>2, EnterMoves DEF Enters, PassesBy, deeds
  <2>2. \A u \in Users : pending'[u] = pending[u] \/ pending'[u].kind = "none"
    BY <1>0, <2>1 DEF Open, NoPending
  <2> QED BY <1>a, <2>1, <2>2
<1>3. ASSUME NEW h \in Attempts, SetConsent(h) \/ BeginAccountDeletion(h)
      PROVE  AnswerInv'
  <2>1. UNCHANGED <<pending, acted>>
    BY <1>3, NewStatusMoves DEF NewStatus, records
  <2> QED BY <1>a, <2>1
<1>4. ASSUME NEW h \in Attempts, Purges(h)
      PROVE  AnswerInv'
  <2>1. UNCHANGED acted /\ pending' = [pending EXCEPT ![who[h]] = NoPending]
    BY <1>4 DEF Purges, EraseRecords
  <2>2. \A u \in Users : pending'[u] = pending[u] \/ pending'[u].kind = "none"
    BY <1>0, <2>1 DEF NoPending
  <2> QED BY <1>a, <2>1, <2>2
<1>5. ASSUME NEW h \in Attempts, PurgeAccountData(h)
      PROVE  AnswerInv'
  BY <1>1, <1>4, <1>5, PurgeMoves
<1>6. ASSUME NEW v \in Users, PendingExpires(v)
      PROVE  AnswerInv'
  <2>1. UNCHANGED acted /\ pending' = [pending EXCEPT ![v].expired = TRUE]
    BY <1>6 DEF PendingExpires, deeds
  <2>2. \A u \in Users : pending'[u].kind = pending[u].kind /\ pending'[u].tx = pending[u].tx
    BY <1>0, <2>1 DEF PendingRow
  <2> QED BY <1>a, <2>1, <2>2
<1>7. CASE SendReviewCard
  <2>1. UNCHANGED <<pending, acted>>
    BY <1>7 DEF SendReviewCard, records
  <2> QED BY <1>a, <2>1
<1>8. ASSUME NEW n \in Messages, FinalizeReceiptReview(n)
      PROVE  AnswerInv'
  <2> DEFINE v == receipt[n].owner
  <2>1. UNCHANGED acted /\ receipt[n].status = "queued" /\ OpenQuestion(v, "card", n)
    BY <1>8 DEF FinalizeReceiptReview, Reviewable, ReviewOf, deeds
  <2>2. script[n] = "image"
    BY <2>1 DEF FitInv
  <2> HIDE DEF v
  <2>3. ASSUME NEW u \in Users
        PROVE  Opens(u)
    <3>1. pending'[u] = pending[u] \/ pending'[u].tx = n
      BY <1>0, <2>1 DEF OpenQuestion
    <3> QED BY <1>0, <2>2, <3>1 DEF Opens, OpenEntry
  <2> QED BY <1>0, <2>1, <2>3, AnswersKept
<1>9. CASE UNCHANGED vars
  BY <1>1, <1>9 DEF vars
<1>10. CASE Next
  BY <1>1, <1>2, <1>3, <1>5, <1>6, <1>7, <1>8, <1>10, StepKinds, OrdinaryAnswers DEF WorkerStep
<1> QED BY <1>9, <1>10

LEMMA TalkInit ==
  ASSUME ChatInit
  PROVE  FitInv /\ TurnInv /\ AnswerInv
<1>1. FitInv
  BY DEF ChatInit, InboundInit, FitInv, StepFits, DraftSteps, ImageSteps, SettleSteps, NoReceipt, NoPending, About
<1>2. TurnInv
  BY DEF ChatInit, InboundInit, TurnInv
<1>3. AnswerInv
  BY DEF ChatInit, AnswerInv, AnswerOf
<1> QED BY <1>1, <1>2, <1>3

(* handleText under pollLoop: a retried answer never settles a second manual *)
(* entry, because a failed update holds back the later ones and an answer is *)
(* about the one question that is open.                                      *)
THEOREM OneEntryPerAnswerSafe == Spec => []OneEntryPerAnswer
<1>1. ASSUME CoreInv, AnswerInv
      PROVE  OneEntryPerAnswer
  <2> SUFFICES ASSUME mode = "poll", NEW m \in Messages
               PROVE  Cardinality(EntriesOf(m)) <= 1
    BY DEF OneEntryPerAnswer, EntriesOf
  <2>1. \A s, t \in EntriesOf(m) : s = t
    BY <1>1 DEF AnswerInv, AnswerOf, EntriesOf
  <2>2. CASE EntriesOf(m) = {}
    BY <2>2, FS_EmptySet
  <2>3. CASE EntriesOf(m) # {}
    <3>1. PICK t \in EntriesOf(m) : TRUE
      BY <2>3
    <3>2. EntriesOf(m) = {t}
      BY <2>1, <3>1
    <3>3. Cardinality({t}) = 1
      BY FS_Singleton, Zenon
    <3> QED BY <3>2, <3>3
  <2> QED BY <2>2, <2>3
<1>2. Spec => [](CoreInv /\ FitInv /\ TurnInv /\ AnswerInv)
  <2>1. ChatInit => CoreInv /\ FitInv /\ TurnInv /\ AnswerInv
    BY CoreInit, TalkInit
  <2>2. CoreInv /\ FitInv /\ TurnInv /\ AnswerInv /\ [Next]_vars => (CoreInv /\ FitInv /\ TurnInv /\ AnswerInv)'
    BY CoreStep, FitStep, TurnStep, AnswerStep
  <2> QED BY <2>1, <2>2, PTL DEF Spec
<1> QED BY <1>1, <1>2, PTL
=============================================================================
