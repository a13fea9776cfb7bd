--------------------------- MODULE SchedulesProofs --------------------------
(* Proofs about scheduled summaries. *)
EXTENDS Schedules, FiniteSetTheorems, TLAPS

SchedulesTypeOK ==
  /\ now \in Instants
  /\ status \in {"active", "deleting", "deleted"}
  /\ zone \in Zones
  /\ rows \in [Freqs -> Row \cup {None}]
  /\ \A f \in Freqs : rows[f] # None => rows[f].freq = f
  /\ passes \in [Runners -> [at : Instants \cup {0}, todo : SUBSET Row]]
  /\ \A r \in Runners : passes[r].todo # {} => passes[r].at \in Instants
  /\ redo \in Zones \cup {None}

(* FiniteSetsExt: the least instant of a set of instants exists. *)
LEMMA MinType ==
  ASSUME NEW S, S \subseteq Instants, S # {}
  PROVE  Min(S) \in S /\ \A y \in S : Min(S) <= y
<1>1. \E x \in S : \A y \in S : x <= y
  BY InstantsType
<1> QED BY <1>1 DEF Min

LEMMA UpsertedType ==
  ASSUME NEW f \in Freqs, NEW hour \in Hours, NEW z \in Zones, NEW t \in Instants
  PROVE  Upserted(f, hour, z, t) \in Row /\ Upserted(f, hour, z, t).freq = f
<1>1. <<t, z, f, hour>> \in Table
  BY DEF Table
<1> QED BY <1>1 DEF Upserted, Row

LEMMA DueType ==
  ASSUME SchedulesTypeOK
  PROVE  Due \subseteq Row
BY NoneIsNew DEF Due, Enabled, SchedulesTypeOK, Row

LEMMA TypeStep ==
  ASSUME SchedulesTypeOK, [Next]_vars
  PROVE  SchedulesTypeOK'
<1>0. /\ now \in Instants /\ zone \in Zones /\ redo \in Zones \cup {None}
      /\ status \in {"active", "deleting", "deleted"}
      /\ rows \in [Freqs -> Row \cup {None}]
      /\ \A f \in Freqs : rows[f] # None => rows[f].freq = f
      /\ passes \in [Runners -> [at : Instants \cup {0}, todo : SUBSET Row]]
      /\ \A r \in Runners : passes[r].todo # {} => passes[r].at \in Instants
  BY DEF SchedulesTypeOK
<1>a. None \notin Row
  BY NoneIsNew
<1>1. CASE UNCHANGED vars
  BY <1>1 DEF vars, SchedulesTypeOK
<1>2. CASE Tick
  <2>1. {t \in Instants : t > now} # {} /\ {t \in Instants : t > now} \subseteq Instants
    BY <1>2 DEF Tick
  <2>2. now' \in Instants
    BY <1>2, <2>1, MinType DEF Tick
  <2> QED BY <1>2, <2>2, <1>0 DEF Tick, SchedulesTypeOK
<1>r. ASSUME NEW z \in Zones, NEW done \in SUBSET Enabled
      PROVE  /\ Recalculated(z, done) \in [Freqs -> Row \cup {None}]
             /\ \A f \in Freqs : Recalculated(z, done)[f] # None => Recalculated(z, done)[f].freq = f
  <2>1. \A f \in done : f \in Freqs /\ rows[f] \in Row /\ rows[f].hour \in Hours
    BY <1>0 DEF Enabled, Row
  <2>2. \A f \in done : Upserted(f, rows[f].hour, z, now) \in Row
                        /\ Upserted(f, rows[f].hour, z, now).freq = f
    BY <2>1, <1>0, UpsertedType
  <2> QED BY <1>0, <2>2 DEF Recalculated
<1>3. CASE UserStep
  <2>1. ASSUME NEW f \in Freqs, NEW hour \in Hours, SetSchedule(f, hour)
        PROVE  SchedulesTypeOK'
    <3>1. Upserted(f, hour, zone, now) \in Row /\ Upserted(f, hour, zone, now).freq = f
      BY <1>0, UpsertedType
    <3> QED BY <3>1, <2>1, <1>0 DEF SetSchedule, SchedulesTypeOK
  <2>2. ASSUME NEW set, DisableSchedules(set)
        PROVE  SchedulesTypeOK'
    <3>1. \A f \in Freqs : rows[f] # None => [rows[f] EXCEPT !.enabled = FALSE] \in Row
                                             /\ [rows[f] EXCEPT !.enabled = FALSE].freq = f
      BY <1>0 DEF Row
    <3> QED BY <3>1, <2>2, <1>0 DEF DisableSchedules, SchedulesTypeOK
  <2>3. ASSUME NEW z \in Zones, SetTimezone(z), redo' \in {redo, None}
        PROVE  SchedulesTypeOK'
    BY <2>3, <1>0, <1>r DEF SetTimezone, SchedulesTypeOK
  <2>4. ASSUME NEW z \in Zones, SettingsFail(z)
        PROVE  SchedulesTypeOK'
    <3>1. PICK done \in Prefixes(Enabled) : rows' = Recalculated(z, done)
      BY <2>4 DEF SettingsFail
    <3>2. done \in SUBSET Enabled
      BY DEF Prefixes
    <3> QED BY <3>1, <3>2, <2>4, <1>0, <1>r DEF SettingsFail, SchedulesTypeOK
  <2>5. CASE SettingsAgain
    BY <2>5, <2>3, <1>0 DEF SettingsAgain
  <2>6. CASE BeginAccountDeletion \/ PurgeAccountData
    BY <2>6, <1>0 DEF BeginAccountDeletion, PurgeAccountData, SchedulesTypeOK
  <2> QED BY <1>3, <2>1, <2>2, <2>3, <2>4, <2>5, <2>6 DEF UserStep, Settings
<1>4. ASSUME NEW r \in Runners, RunnerStep(r)
      PROVE  SchedulesTypeOK'
  <2>d. ASSUME NEW p, Drop(r, p)
        PROVE  /\ passes' \in [Runners -> [at : Instants \cup {0}, todo : SUBSET Row]]
               /\ \A s \in Runners : passes'[s].todo # {} => passes'[s].at \in Instants
    <3>1. PICK pass \in {Idle, [at |-> passes[r].at, todo |-> passes[r].todo \ {p}]} :
            passes' = [passes EXCEPT ![r] = pass]
      BY <2>d DEF Drop
    <3>2. pass \in [at : Instants \cup {0}, todo : SUBSET Row]
          /\ (pass.todo = {} \/ pass.at \in Instants)
      BY <1>0 DEF Idle
    <3> QED BY <3>1, <3>2, <1>0
  <2>1. CASE RunOnce(r)
    <3>1. PICK b \in Batches : passes' = [passes EXCEPT ![r] = [at |-> now, todo |-> b]]
      BY <2>1 DEF RunOnce
    <3>2. b \subseteq Row
      BY DueType DEF Batches
    <3> QED BY <3>1, <3>2, <2>1, <1>0 DEF RunOnce, SchedulesTypeOK
  <2>2. ASSUME NEW p \in Heads(r), ProcessLocked(r, p)
        PROVE  SchedulesTypeOK'
    <3>1. p \in Row /\ p.freq \in Freqs /\ p.hour \in Hours /\ passes[r].at \in Instants
          /\ p.freq \in Freqs
      BY <1>0 DEF Heads, Row
    <3> DEFINE next == NextAt[<<passes[r].at, zone, p.freq, p.hour>>]
    <3>2. next \in {NextAt[x] : x \in Table}
      <4>1. <<passes[r].at, zone, p.freq, p.hour>> \in Table
        BY <3>1, <1>0 DEF Table
      <4> QED BY <4>1
    <3> HIDE DEF next
    <3>3. rows' = rows \/ (rows[p.freq] # None
             /\ rows' = [rows EXCEPT ![p.freq].next = next, ![p.freq].since = passes[r].at])
      BY <2>2 DEF ProcessLocked, AdvanceSummarySchedule, next, Enabled
    <3>4. rows[p.freq] # None =>
            [rows[p.freq] EXCEPT !.next = next, !.since = passes[r].at] \in Row
            /\ [rows[p.freq] EXCEPT !.next = next, !.since = passes[r].at].freq = p.freq
      BY <3>1, <3>2, <1>0 DEF Row
    <3> DEFINE row == [rows[p.freq] EXCEPT !.next = next, !.since = passes[r].at]
    <3>5. rows' = rows \/ (rows[p.freq] # None /\ rows' = [rows EXCEPT ![p.freq] = row])
      BY <3>3, <3>1, <1>0
    <3>6. rows[p.freq] # None => row \in Row /\ row.freq = p.freq
      BY <3>4
    <3> HIDE DEF row
    <3>7. /\ rows' \in [Freqs -> Row \cup {None}]
          /\ \A f \in Freqs : rows'[f] # None => rows'[f].freq = f
      BY <3>5, <3>6, <3>1, <1>0
    <3>8. Drop(r, p) /\ UNCHANGED <<now, status, zone, redo>>
      BY <2>2 DEF ProcessLocked
    <3> QED BY <3>7, <3>8, <2>d, <1>0 DEF SchedulesTypeOK
  <2>3. ASSUME NEW p, SkipInactive(r, p) \/ ProcessFails(r, p)
        PROVE  SchedulesTypeOK'
    <3>1. Drop(r, p) /\ UNCHANGED <<now, status, zone, rows, redo>>
      BY <2>3 DEF SkipInactive, ProcessFails
    <3> QED BY <3>1, <2>d, <1>0 DEF SchedulesTypeOK
  <2>4. CASE Crash(r)
    <3>1. Idle \in [at : Instants \cup {0}, todo : SUBSET Row] /\ Idle.todo = {}
      BY DEF Idle
    <3> HIDE DEF Idle
    <3> QED BY <2>4, <3>1, <1>0 DEF Crash, SchedulesTypeOK
  <2> QED BY <1>4, <2>1, <2>2, <2>3, <2>4 DEF RunnerStep, Process
<1> QED BY <1>1, <1>2, <1>3, <1>4 DEF Next

(* Type correctness: commands, passes on stale lists, faults and the deletion  *)
(* leave well-formed rows, and a pass always knows the instant it works for.   *)
THEOREM SchedulesTypeSafe == Spec => []SchedulesTypeOK
<1>1. Init => SchedulesTypeOK
  <2> SUFFICES ASSUME Init PROVE SchedulesTypeOK
    OBVIOUS
  <2>1. now \in Instants
    BY MinType, InstantsType DEF Init
  <2>2. PICK s \in Starts :
          /\ zone = s.zone
          /\ rows = [f \in Freqs |-> IF f \in s.freqs THEN Upserted(f, s.hour, zone, now) ELSE None]
    BY DEF Init
  <2>3. zone \in Zones /\ s.hour \in Hours
    BY <2>2, StartType
  <2>4. \A f \in Freqs : Upserted(f, s.hour, zone, now) \in Row
                         /\ Upserted(f, s.hour, zone, now).freq = f
    BY <2>1, <2>3, UpsertedType
  <2>5. Idle \in [at : Instants \cup {0}, todo : SUBSET Row] /\ Idle.todo = {}
    BY DEF Idle
  <2> HIDE DEF Idle
  <2> QED BY <2>1, <2>2, <2>3, <2>4, <2>5 DEF Init, SchedulesTypeOK
<1> QED BY <1>1, TypeStep, PTL DEF Spec

(* runner.go processLocked, Reply before AdvanceSummarySchedule: a schedule    *)
(* moves on only once its summary has a row and a job, also if a pass ended    *)
(* between the two and another one finds the row already there.                *)
THEOREM AdvancedMeansQueuedSafe == Spec => []AdvancedMeansQueued
<1>1. Init => AdvancedMeansQueued
  BY DEF Init, AdvancedMeansQueued
<1>2. ASSUME AdvancedMeansQueued, [Next]_vars
      PROVE  AdvancedMeansQueued'
  <2>1. CASE UNCHANGED vars
    BY <1>2, <2>1 DEF vars, AdvancedMeansQueued
  <2>2. CASE Tick \/ UserStep
    BY <1>2, <2>2 DEF Tick, UserStep, SetSchedule, DisableSchedules, Settings, SetTimezone,
       SettingsFail, SettingsAgain, BeginAccountDeletion, PurgeAccountData, AdvancedMeansQueued
  <2>3. ASSUME NEW r \in Runners, RunnerStep(r)
        PROVE  AdvancedMeansQueued'
    <3>1. ASSUME NEW p \in Heads(r), ProcessLocked(r, p)
          PROVE  AdvancedMeansQueued'
      <4> DEFINE key == Summary(zone, p, passes[r].at).key
      <4>1. jobs' = jobs \cup {key} /\ (advanced' = advanced \cup {key} \/ advanced' = advanced)
        BY <3>1, Zenon DEF ProcessLocked, Reply
      <4> HIDE DEF key
      <4> QED BY <1>2, <4>1 DEF AdvancedMeansQueued
    <3>2. ASSUME NEW p \in Heads(r), ProcessFails(r, p)
          PROVE  AdvancedMeansQueued'
      <4>1. advanced' = advanced /\ jobs \subseteq jobs'
        BY <3>2 DEF ProcessFails, Reply
      <4> QED BY <1>2, <4>1 DEF AdvancedMeansQueued
    <3>3. ASSUME UNCHANGED <<advanced, jobs>>
          PROVE  AdvancedMeansQueued'
      BY <1>2, <3>3 DEF AdvancedMeansQueued
    <3> QED BY <2>3, <3>1, <3>2, <3>3 DEF RunnerStep, Process, RunOnce, SkipInactive, Crash
  <2> QED BY <1>2, <2>1, <2>2, <2>3 DEF Next
<1> QED BY <1>1, <1>2, PTL DEF Spec

-----------------------------------------------------------------------------
(* The calendar.  Every day has a midnight that the wall clock really shows,  *)
(* and every month is preceded and followed by another.                       *)
MidnightsExist == \A z \in Zones : \A d \in Int : Local(z, Date(z, 24 * d)) = 24 * d

MonthsGoOn ==
  \A d \in Int :
    /\ \E x \in Firsts : x <= d /\ \A y \in Firsts : y <= d => y <= x
    /\ \E x \in Firsts : x > d /\ \A y \in Firsts : y > d => x <= y

Midnight(z, d) == Date(z, 24 * d)

LEMMA DateType ==
  ASSUME NEW z \in Zones, NEW wall \in Int
  PROVE  /\ Local(z, wall) \in Int /\ Date(z, wall) \in Int /\ DayOf(z, wall) \in Int
         /\ Date(z, wall) \in {wall - z.base, wall - z.base - z.shift}
<1>1. z.base \in Int /\ z.shift \in Int /\ z.at \in Int
  BY ZoneType
<1>2. \A t \in Int : Local(z, t) \in {t + z.base, t + z.base + z.shift}
  BY <1>1 DEF Local
<1>3. \A t \in Int : Local(z, t) \in Int /\ Local(z, t) - t \in {z.base, z.base + z.shift}
  BY <1>1, <1>2
<1> DEFINE guess == wall - (Local(z, wall) - wall)
<1>4. guess \in Int
  BY <1>3
<1>5. Date(z, wall) = wall - (Local(z, guess) - guess)
  BY DEF Date
<1> HIDE DEF guess
<1>6. Local(z, guess) - guess \in {z.base, z.base + z.shift}
  BY <1>3, <1>4
<1> DEFINE offset == Local(z, guess) - guess
<1>8. Date(z, wall) = wall - offset /\ offset \in {z.base, z.base + z.shift}
  BY <1>5, <1>6
<1> HIDE DEF offset
<1>7. Date(z, wall) \in {wall - z.base, wall - z.base - z.shift} /\ Date(z, wall) \in Int
  BY <1>8, <1>1
<1> QED BY <1>3, <1>7 DEF DayOf

LEMMA MonthLast ==
  ASSUME MonthsGoOn, NEW d \in Int
  PROVE  LET f == Max({x \in Firsts : x <= d})
         IN  f \in Firsts /\ f <= d /\ \A y \in Firsts : y <= d => y <= f
<1> DEFINE S == {x \in Firsts : x <= d}
<1>1. \E x \in S : \A y \in S : x >= y
  BY FirstsType DEF MonthsGoOn
<1>2. Max(S) \in S /\ \A y \in S : Max(S) >= y
  BY <1>1 DEF Max
<1> QED BY <1>2, FirstsType

LEMMA MonthType ==
  ASSUME MonthsGoOn, NEW d \in Int
  PROVE  /\ MonthFirst(d) \in Firsts /\ MonthFirst(d) <= d
         /\ d \in Firsts => MonthFirst(d) = d
         /\ NextFirst(d) \in Firsts /\ NextFirst(d) > d /\ \A y \in Firsts : y > d => NextFirst(d) <= y
         /\ \A y \in Firsts : y <= d => y <= MonthFirst(d)
         /\ PrevFirst(d) \in Firsts /\ PrevFirst(d) < MonthFirst(d)
         /\ \A y \in Firsts : y < MonthFirst(d) => y <= PrevFirst(d)
<1>1. \A e \in Int : LET f == Max({x \in Firsts : x <= e})
                     IN  f \in Firsts /\ f <= e /\ \A y \in Firsts : y <= e => y <= f
  BY MonthLast
<1>2. /\ MonthFirst(d) \in Firsts /\ MonthFirst(d) <= d
      /\ \A y \in Firsts : y <= d => y <= MonthFirst(d)
  BY <1>1 DEF MonthFirst
<1>m. MonthFirst(d) \in Int
  BY <1>2, FirstsType, Zenon
<1>3. d \in Firsts => MonthFirst(d) = d
  <2>1. ASSUME NEW m \in Int, m <= d, d \in Firsts => d <= m PROVE d \in Firsts => m = d
    BY <2>1
  <2>2. d \in Firsts => d <= MonthFirst(d)
    <3>1. d <= d
      OBVIOUS
    <3> QED BY <1>2, <3>1, Zenon
  <2> QED BY <2>1, <2>2, <1>m, <1>2, Zenon
<1>4. NextFirst(d) \in Firsts /\ NextFirst(d) > d /\ \A y \in Firsts : y > d => NextFirst(d) <= y
  <2> DEFINE S == {x \in Firsts : x > d}
  <2>1. \E x \in S : \A y \in S : x =< y
    BY FirstsType DEF MonthsGoOn
  <2>2. Min(S) \in S /\ \A y \in S : Min(S) =< y
    BY <2>1 DEF Min
  <2> QED BY <2>2, FirstsType DEF NextFirst
<1>5. /\ PrevFirst(d) \in Firsts /\ PrevFirst(d) < MonthFirst(d)
      /\ \A y \in Firsts : y < MonthFirst(d) => y <= PrevFirst(d)
  <2> DEFINE e == MonthFirst(d) - 1
  <2>1. ASSUME NEW m \in Int
        PROVE  m - 1 \in Int /\ {x \in Firsts : x < m} = {x \in Firsts : x <= m - 1}
    <3>1. \A x \in Firsts : x < m <=> x <= m - 1
      BY FirstsType
    <3> QED BY ONLY <3>1, m \in Int
  <2>2. e \in Int /\ {x \in Firsts : x < MonthFirst(d)} = {x \in Firsts : x <= e}
    BY <2>1, <1>m, Zenon
  <2> HIDE DEF e
  <2> QED BY <2>2, <1>1 DEF PrevFirst
<1> QED BY <1>2, <1>3, <1>4, <1>5

LEMMA FromMidnight ==
  ASSUME MidnightsExist, NEW z \in Zones, NEW a \in Int
  PROVE  /\ Midnight(z, a) \in Int
         /\ DayOf(z, Midnight(z, a)) = a
         /\ \A n \in Int : AddDays(z, Midnight(z, a), n) = Midnight(z, a + n)
         /\ \A b \in Int : a < b => Midnight(z, a) < Midnight(z, b)
<1>1. Local(z, Midnight(z, a)) = 24 * a
  BY DEF MidnightsExist, Midnight
<1>2. (24 * a) \div 24 = a
  OBVIOUS
<1>3. \A n \in Int : 24 * a + 24 * n = 24 * (a + n)
  OBVIOUS
<1>4. z.base \in Int /\ z.shift \in -23 .. 23
  BY ZoneType
<1>5. \A d \in Int : Midnight(z, d) \in {24 * d - z.base, 24 * d - z.base - z.shift}
  BY DateType DEF Midnight
<1>6. \A b \in Int : a < b => Midnight(z, a) < Midnight(z, b)
  BY <1>4, <1>5
<1> QED BY <1>1, <1>2, <1>3, <1>6, DateType DEF DayOf, AddDays, Midnight

(* The days a frequency delivers on. *)
DeliveryDay(f, d) ==
  d \in Int /\ (f = "weekly" => d % 7 = 0) /\ (f = "monthly" => d \in Firsts)

(* The days a summary reports on: from one midnight to another. *)
Span(f, a, b) ==
  /\ a \in Int /\ b \in Int
  /\ f = "daily" => b = a + 1
  /\ f = "weekly" => a % 7 = 0 /\ b = a + 7
  /\ f = "monthly" => a \in Firsts /\ b = NextFirst(a)

LEMMA SpansApart ==
  ASSUME MonthsGoOn, NEW f \in Freqs, NEW a, NEW b, NEW c, NEW e,
         Span(f, a, b), Span(f, c, e), a < c
  PROVE  b <= c
<1>1. CASE f = "daily"
  BY <1>1 DEF Span
<1>2. CASE f = "weekly"
  BY <1>2 DEF Span
<1>3. CASE f = "monthly"
  BY <1>3, MonthType DEF Span
<1> QED BY <1>1, <1>2, <1>3 DEF Freqs

LEMMA LatestType ==
  ASSUME MonthsGoOn, NEW t \in Instants, NEW z \in Zones, NEW f \in Freqs, NEW hour \in Hours
  PROVE  LatestDelivery(t, z, f, hour) \in Int
<1> DEFINE c == Date(z, 24 * DayOf(z, t) + hour)
           first == Date(z, 24 * MonthFirst(DayOf(z, t)) + hour)
<1>0. t \in Int /\ hour \in Int
  BY InstantsType, HourRange
<1>1. DayOf(z, t) \in Int
  BY <1>0, DateType
<1>2. MonthFirst(DayOf(z, t)) \in Int
  BY <1>1, MonthType, FirstsType, Zenon
<1>3. \A a \in Int : Date(z, 24 * a + hour) \in Int
  BY <1>0, DateType
<1>4. c \in Int /\ first \in Int
  BY <1>1, <1>2, <1>3, Zenon
<1>5. \A a, n \in Int : AddDays(z, a, n) \in Int
  <2>1. \A a, n \in Int : Local(z, a) \in Int /\ Local(z, a) + 24 * n \in Int
    BY DateType
  <2> QED BY <2>1, DateType, Zenon DEF AddDays
<1> DEFINE monday == AddDays(z, c, -(DayOf(z, c) % 7))
<1>6. monday \in Int
  <2>1. \A a \in Int : -(a % 7) \in Int
    OBVIOUS
  <2>2. DayOf(z, c) \in Int
    BY <1>4, DateType
  <2> QED BY <2>1, <2>2, <1>4, <1>5, Zenon
<1>7. PrevMonth(z, first) \in Int
  <2>1. DayOf(z, first) \in Int
    BY <1>4, DateType
  <2>2. PrevFirst(DayOf(z, first)) \in Int /\ MonthFirst(DayOf(z, first)) \in Int
    BY <2>1, MonthType, FirstsType, Zenon
  <2>3. \A a, b \in Int : a - b \in Int
    OBVIOUS
  <2> QED BY <2>1, <2>2, <2>3, <1>4, <1>5, Zenon DEF PrevMonth
<1>8. AddDays(z, c, -1) \in Int /\ AddDays(z, monday, -7) \in Int
  <2>1. -1 \in Int /\ -7 \in Int
    OBVIOUS
  <2> QED BY <2>1, <1>4, <1>5, <1>6, Zenon
<1>9. LatestDelivery(t, z, f, hour) \in {c, AddDays(z, c, -1), monday, AddDays(z, monday, -7),
                                         first, PrevMonth(z, first)}
  BY Zenon DEF LatestDelivery, Freqs
<1> HIDE DEF c, first, monday
<1> QED BY <1>4, <1>6, <1>7, <1>8, <1>9

(* insight/periods.go: a period runs from midnight to midnight, and up to the *)
(* day of its delivery.                                                       *)
LEMMA PeriodShape ==
  ASSUME MidnightsExist, MonthsGoOn, NEW z \in Zones, NEW f \in Freqs, NEW t \in Int
  PROVE  \E a, b \in Int : /\ Span(f, a, b)
                           /\ PeriodOf(z, f, t) = [start |-> Midnight(z, a), end |-> Midnight(z, b)]
                           /\ DeliveryDay(f, DayOf(z, t)) => b = DayOf(z, t)
<1> DEFINE d == DayOf(z, t)
<1>1. d \in Int
  BY DateType
<1>2. localMidnight(z, t) = Midnight(z, d)
  BY DEF localMidnight, Midnight
<1> HIDE DEF d
<1>3. CASE f = "daily"
  <2>1. d - 1 \in Int /\ (d - 1) + 1 = d /\ -1 \in Int /\ d + (-1) = d - 1
    BY <1>1
  <2>2. AddDays(z, Midnight(z, d), -1) = Midnight(z, d - 1)
    BY <1>1, <2>1, FromMidnight
  <2>3. PeriodOf(z, f, t) = [start |-> Midnight(z, d - 1), end |-> Midnight(z, d)]
    BY <1>2, <1>3, <2>2 DEF PeriodOf, Yesterday
  <2>4. Span(f, d - 1, d)
    BY <1>1, <1>3, <2>1 DEF Span
  <2> QED BY <1>1, <2>1, <2>3, <2>4 DEF d
<1>4. CASE f = "weekly"
  <2> DEFINE back == -(d % 7)
             week == d + back - 7
  <2>1. /\ back \in Int /\ week \in Int /\ week % 7 = 0 /\ d + back \in Int /\ -7 \in Int
        /\ (d + back) + (-7) = week
    BY <1>1
  <2>2. weekStartLocal(z, t) = Midnight(z, d + back)
    <3>1. DayOf(z, Midnight(z, d)) = d
      BY <1>1, FromMidnight
    <3>2. AddDays(z, Midnight(z, d), back) = Midnight(z, d + back)
      BY <1>1, <2>1, FromMidnight, Zenon
    <3> QED BY <1>2, <3>1, <3>2, Zenon DEF weekStartLocal
  <2> HIDE DEF back
  <2>3. AddDays(z, weekStartLocal(z, t), -7) = Midnight(z, week)
    <3>1. AddDays(z, Midnight(z, d + back), -7) = Midnight(z, (d + back) + (-7))
      BY <2>1, FromMidnight
    <3> QED BY <2>1, <2>2, <3>1
  <2> HIDE DEF week
  <2>4. AddDays(z, Midnight(z, week), 7) = Midnight(z, week + 7) /\ week + 7 \in Int
    <3>1. 7 \in Int /\ week + 7 \in Int
      BY <2>1
    <3> QED BY <2>1, <3>1, FromMidnight, Zenon
  <2>5. PeriodOf(z, f, t) = [start |-> Midnight(z, week), end |-> Midnight(z, week + 7)]
    BY <1>4, <2>3, <2>4 DEF PeriodOf, LastWeek
  <2>6. Span(f, week, week + 7)
    BY <1>4, <2>1, <2>4 DEF Span
  <2>7. d % 7 = 0 => week + 7 = d
    BY <1>1 DEF back, week
  <2> QED BY <1>4, <2>1, <2>4, <2>5, <2>6, <2>7 DEF DeliveryDay, d
<1>5. CASE f = "monthly"
  <2> DEFINE this == MonthFirst(d)
             last == PrevFirst(this)
             next == NextFirst(last)
  <2>1. this \in Firsts /\ this \in Int
    BY <1>1, MonthType, FirstsType, Zenon
  <2>2. monthStartLocal(z, t) = Midnight(z, this)
    BY DEF monthStartLocal, Midnight, d
  <2>3. MonthFirst(this) = this
    BY <2>1, MonthType, Zenon
  <2> HIDE DEF this
  <2>4. last \in Firsts /\ last \in Int
    BY <2>1, MonthType, FirstsType, Zenon
  <2>5. MonthFirst(last) = last /\ next \in Firsts /\ next \in Int
    BY <2>4, MonthType, FirstsType, Zenon
  <2>b. d \in Firsts => next = d
    <3>1. d \in Firsts => this = d
      BY <1>1, MonthType, Zenon DEF this
    <3>2. last < this /\ \A y \in Firsts : y < this => y <= last
      BY <2>1, <2>3, MonthType, Zenon
    <3>3. next > last /\ \A y \in Firsts : y > last => next <= y
      BY <2>4, MonthType, Zenon
    <3> HIDE DEF last, next
    <3> QED BY <2>1, <2>4, <2>5, <3>1, <3>2, <3>3
  <2> HIDE DEF last, next
  <2>a. \A a, b \in Int : b - a \in Int /\ a + (b - a) = b
    OBVIOUS
  <2>6. PrevMonth(z, Midnight(z, this)) = Midnight(z, last)
    <3>1. DayOf(z, Midnight(z, this)) = this
      BY <2>1, FromMidnight
    <3>2. PrevMonth(z, Midnight(z, this)) = AddDays(z, Midnight(z, this), last - this)
      BY <3>1, <2>3, Zenon DEF PrevMonth, last
    <3> QED BY <3>2, <2>1, <2>4, <2>a, FromMidnight
  <2>7. NextMonth(z, Midnight(z, last)) = Midnight(z, next)
    <3>1. DayOf(z, Midnight(z, last)) = last
      BY <2>4, FromMidnight
    <3>2. NextMonth(z, Midnight(z, last)) = AddDays(z, Midnight(z, last), next - last)
      BY <3>1, <2>5, Zenon DEF NextMonth, next
    <3> QED BY <3>2, <2>4, <2>5, <2>a, FromMidnight
  <2>8. PeriodOf(z, f, t) = [start |-> Midnight(z, last), end |-> Midnight(z, next)]
    BY <1>5, <2>2, <2>6, <2>7 DEF PeriodOf, LastMonth
  <2>9. Span(f, last, next)
    BY <1>5, <2>4, <2>5 DEF Span, next
  <2> QED BY <1>5, <2>4, <2>5, <2>8, <2>9, <2>b DEF DeliveryDay, d
<1> QED BY <1>3, <1>4, <1>5 DEF Freqs

LEMMA PeriodsApart ==
  ASSUME MidnightsExist, MonthsGoOn, NEW z \in Zones, NEW f \in Freqs, NEW t \in Int, NEW u \in Int,
         PeriodOf(z, f, t).start # PeriodOf(z, f, u).start
  PROVE  \/ PeriodOf(z, f, t).end <= PeriodOf(z, f, u).start
         \/ PeriodOf(z, f, u).end <= PeriodOf(z, f, t).start
<1>1. PICK a, b \in Int : /\ Span(f, a, b)
                          /\ PeriodOf(z, f, t) = [start |-> Midnight(z, a), end |-> Midnight(z, b)]
  BY PeriodShape
<1>2. PICK c, e \in Int : /\ Span(f, c, e)
                          /\ PeriodOf(z, f, u) = [start |-> Midnight(z, c), end |-> Midnight(z, e)]
  BY PeriodShape
<1>3. Midnight(z, a) # Midnight(z, c)
  BY <1>1, <1>2
<1>4. a < c \/ c < a
  BY <1>3
<1>5. \A i, j \in Int : i <= j => Midnight(z, i) <= Midnight(z, j)
  <2>1. \A i, j \in Int : i < j => Midnight(z, i) < Midnight(z, j)
    BY FromMidnight
  <2>2. \A i \in Int : Midnight(z, i) \in Int
    BY FromMidnight
  <2> QED BY <2>1, <2>2
<1>6. a < c => b <= c
  BY <1>1, <1>2, SpansApart
<1>7. c < a => e <= a
  BY <1>1, <1>2, SpansApart
<1> QED BY <1>1, <1>2, <1>4, <1>5, <1>6, <1>7

-----------------------------------------------------------------------------
(* What a summary in the outbox says of itself, and that its key is its own. *)
SummaryInv ==
  /\ \A m \in outbox :
       \E t \in Instants, z \in Zones, f \in Freqs, hour \in Hours :
         LET period == PeriodAt[<<t, z, f, hour>>]
         IN  m = [key |-> <<f, period.start>>, freq |-> f, start |-> period.start,
                  end |-> period.end, zone |-> z, hour |-> hour, at |-> t]
  /\ \A m, o \in outbox : m.key = o.key => m = o

LEMMA SummaryStep ==
  ASSUME SchedulesTypeOK, SummaryInv, [Next]_vars
  PROVE  SummaryInv'
<1>1. ASSUME UNCHANGED outbox
      PROVE  SummaryInv'
  BY <1>1 DEF SummaryInv
<1>2. CASE PurgeAccountData
  BY <1>2 DEF PurgeAccountData, SummaryInv
<1>3. ASSUME NEW r \in Runners, NEW p \in Heads(r), Insert(Summary(zone, p, passes[r].at))
      PROVE  SummaryInv'
  <2>1. /\ p \in Row /\ p.freq \in Freqs /\ p.hour \in Hours /\ passes[r].at \in Instants
        /\ zone \in Zones
    BY DEF Heads, Row, SchedulesTypeOK
  <2> DEFINE m == Summary(zone, p, passes[r].at)
             period == PeriodAt[<<passes[r].at, zone, p.freq, p.hour>>]
  <2>2. m = [key |-> <<p.freq, period.start>>, freq |-> p.freq, start |-> period.start,
             end |-> period.end, zone |-> zone, hour |-> p.hour, at |-> passes[r].at]
    BY Zenon DEF Summary, Message
  <2>3. outbox' = outbox \/ ((\A o \in outbox : o.key # m.key) /\ outbox' = outbox \cup {m})
    BY <1>3 DEF Insert
  <2>4. \E t \in Instants, z \in Zones, f \in Freqs, hour \in Hours :
          LET q == PeriodAt[<<t, z, f, hour>>]
          IN  m = [key |-> <<f, q.start>>, freq |-> f, start |-> q.start,
                   end |-> q.end, zone |-> z, hour |-> hour, at |-> t]
    BY <2>1, <2>2, Zenon
  <2> HIDE DEF m
  <2>5. CASE outbox' = outbox
    BY <1>1, <2>5
  <2>6. CASE (\A o \in outbox : o.key # m.key) /\ outbox' = outbox \cup {m}
    BY <2>4, <2>6, Zenon DEF SummaryInv
  <2> QED BY <2>3, <2>5, <2>6
<1>4. CASE UNCHANGED vars \/ Tick
  BY <1>1, <1>4 DEF vars, Tick
<1>5. CASE UserStep
  BY <1>1, <1>2, <1>5 DEF UserStep, SetSchedule, DisableSchedules, Settings, SetTimezone,
     SettingsFail, SettingsAgain, BeginAccountDeletion
<1>6. ASSUME NEW r \in Runners, RunnerStep(r)
      PROVE  SummaryInv'
  BY <1>1, <1>3, <1>6 DEF RunnerStep, Process, RunOnce, SkipInactive, Crash, ProcessLocked,
     ProcessFails, Reply
<1> QED BY <1>4, <1>5, <1>6 DEF Next

(* runner.go, the idempotency key of processLocked, with insight/periods.go:   *)
(* no hour is reported on twice by summaries of one frequency, whatever two    *)
(* runners, retries, a changed delivery hour and a changed zone attempt; for   *)
(* zones in which every day has its midnight on the wall clock.                *)
THEOREM OneSummaryPerPeriodSafe ==
  Spec => [](MidnightsExist /\ MonthsGoOn => OneSummaryPerPeriod)
<1>1. Init => SummaryInv
  BY DEF Init, SummaryInv
<1>2. ASSUME SummaryInv, MidnightsExist, MonthsGoOn
      PROVE  OneSummaryPerPeriod
  <2> SUFFICES ASSUME NEW m \in outbox, NEW o \in outbox, m # o, m.freq = o.freq, m.zone = o.zone
               PROVE  m.end <= o.start \/ o.end <= m.start
    BY DEF OneSummaryPerPeriod
  <2>1. PICK t \in Instants, z \in Zones, f \in Freqs, hour \in Hours :
          LET period == PeriodAt[<<t, z, f, hour>>]
          IN  m = [key |-> <<f, period.start>>, freq |-> f, start |-> period.start,
                   end |-> period.end, zone |-> z, hour |-> hour, at |-> t]
    BY <1>2, Zenon DEF SummaryInv
  <2>2. PICK t2 \in Instants, z2 \in Zones, f2 \in Freqs, hour2 \in Hours :
          LET period == PeriodAt[<<t2, z2, f2, hour2>>]
          IN  o = [key |-> <<f2, period.start>>, freq |-> f2, start |-> period.start,
                   end |-> period.end, zone |-> z2, hour |-> hour2, at |-> t2]
    BY <1>2, Zenon DEF SummaryInv
  <2>3. m.key # o.key
    BY <1>2 DEF SummaryInv
  <2>4. ASSUME NEW i \in Instants, NEW h \in Hours
        PROVE  PeriodAt[<<i, z, f, h>>] = PeriodOf(z, f, LatestDelivery(i, z, f, h))
    <3>1. <<i, z, f, h>> \in Table
      BY DEF Table
    <3> QED BY <3>1, Tabulated
  <2> DEFINE u == LatestDelivery(t, z, f, hour)
             v == LatestDelivery(t2, z, f, hour2)
  <2>5. u \in Int /\ v \in Int
    BY <1>2, LatestType
  <2>6. f2 = f /\ z2 = z
    BY <2>1, <2>2
  <2>7. /\ m.start = PeriodOf(z, f, u).start /\ m.end = PeriodOf(z, f, u).end
        /\ m.key = <<f, PeriodOf(z, f, u).start>>
    BY <2>1, <2>4
  <2>8. /\ o.start = PeriodOf(z, f, v).start /\ o.end = PeriodOf(z, f, v).end
        /\ o.key = <<f, PeriodOf(z, f, v).start>>
    BY <2>2, <2>4, <2>6
  <2> HIDE DEF u, v
  <2>9. PeriodOf(z, f, u).start # PeriodOf(z, f, v).start
    BY <2>3, <2>7, <2>8
  <2> QED BY <1>2, <2>5, <2>7, <2>8, <2>9, PeriodsApart
<1>3. SummaryInv => (MidnightsExist /\ MonthsGoOn => OneSummaryPerPeriod)
  BY <1>2
<1> QED BY <1>1, <1>3, SummaryStep, SchedulesTypeSafe, PTL DEF Spec

-----------------------------------------------------------------------------
(* The first delivery after an instant and the last one before it.  A reading *)
(* away from the change of the clock is shown once, and Date finds it.        *)
Plain(z, w) ==
  \/ w < z.at + z.base /\ w < z.at + z.base + z.shift
  \/ w >= z.at + z.base /\ w >= z.at + z.base + z.shift

LEMMA ShownOnce ==
  ASSUME NEW z \in Zones, NEW w \in Int, Cardinality(Showing(z, w)) = 1
  PROVE  Plain(z, w)
<1> DEFINE a == w - z.base
           b == w - z.base - z.shift
<1>1. z.base \in Int /\ z.shift \in Int /\ z.at \in Int /\ a \in Int /\ b \in Int
  BY ZoneType
<1>2. ASSUME w >= z.at + z.base, w < z.at + z.base + z.shift
      PROVE  FALSE
  <2>1. Local(z, a) # w /\ Local(z, b) # w
    BY <1>1, <1>2 DEF Local
  <2>2. Showing(z, w) = {}
    BY <2>1 DEF Showing
  <2> QED BY <2>2, FS_EmptySet
<1>3. ASSUME w < z.at + z.base, w >= z.at + z.base + z.shift
      PROVE  FALSE
  <2>1. Local(z, a) = w /\ Local(z, b) = w /\ a # b
    BY <1>1, <1>3 DEF Local
  <2>2. Showing(z, w) = {a, b}
    BY <2>1 DEF Showing
  <2> HIDE DEF a, b
  <2>3. {a, b} = {a} \cup {b} /\ b \notin {a}
    BY <2>1
  <2>4. Cardinality({a}) = 1 /\ IsFiniteSet({a})
    BY FS_Singleton
  <2>5. Cardinality({a} \cup {b}) = Cardinality({a}) + 1
    BY <2>3, <2>4, FS_AddElement, Zenon
  <2> QED BY <2>2, <2>3, <2>4, <2>5
<1> QED BY <1>1, <1>2, <1>3 DEF Plain

LEMMA PlainReading ==
  ASSUME NEW z \in Zones, NEW w \in Int, Plain(z, w)
  PROVE  /\ Date(z, w) \in Int /\ Local(z, Date(z, w)) = w
         /\ \A t \in Int : t < Date(z, w) <=> Local(z, t) < w
<1>1. z.base \in Int /\ z.shift \in Int /\ z.at \in Int
  BY ZoneType
<1> DEFINE guess == w - (Local(z, w) - w)
<1>2. guess \in {w - z.base, w - z.base - z.shift}
  BY <1>1 DEF Local
<1>3. Date(z, w) = w - (Local(z, guess) - guess)
  BY DEF Date
<1> HIDE DEF guess
<1>4. CASE w < z.at + z.base /\ w < z.at + z.base + z.shift
  <2>1. guess < z.at /\ guess \in Int
    BY <1>1, <1>2, <1>4
  <2>2. Local(z, guess) = guess + z.base
    BY <1>1, <2>1 DEF Local
  <2>3. Date(z, w) = w - z.base
    BY <1>1, <1>3, <2>1, <2>2
  <2> QED BY <1>1, <1>4, <2>3 DEF Local
<1>5. CASE w >= z.at + z.base /\ w >= z.at + z.base + z.shift
  <2>1. guess >= z.at /\ guess \in Int
    BY <1>1, <1>2, <1>5
  <2>2. Local(z, guess) = guess + z.base + z.shift
    BY <1>1, <2>1 DEF Local
  <2>3. Date(z, w) = w - z.base - z.shift
    BY <1>1, <1>3, <2>1, <2>2
  <2> QED BY <1>1, <1>5, <2>3 DEF Local
<1> QED BY <1>4, <1>5 DEF Plain

(* Regular: on no day is the hour skipped or repeated.                        *)
LEMMA RegularHour ==
  ASSUME NEW z \in Zones, NEW hour \in Hours, Regular(z, hour), NEW d \in Int
  PROVE  Plain(z, 24 * d + hour)
<1>1. z.base \in Int /\ z.shift \in -23 .. 23 /\ z.at \in Int /\ hour \in 0 .. 23
  BY ZoneType, HourRange
<1> DEFINE seen == z.at + z.base + z.shift
           day == seen \div 24
<1>2. seen \in Int /\ day \in Int /\ 24 * day <= seen /\ seen < 24 * day + 24
  <2>1. \A i \in Int : i \div 24 \in Int /\ 24 * (i \div 24) <= i /\ i < 24 * (i \div 24) + 24
    OBVIOUS
  <2>2. seen \in Int
    BY <1>1
  <2> QED BY <2>1, <2>2, Zenon
<1>3. DayOf(z, z.at) = day
  BY <1>1 DEF DayOf, Local
<1>4. CASE \E k \in -1 .. 1 : d = day + k
  <2>1. PICK k \in -1 .. 1 : d = day + k
    BY <1>4
  <2>2. Cardinality(Showing(z, 24 * d + hour)) = 1
    BY <2>1, <1>3 DEF Regular
  <2>3. 24 * d + hour \in Int
    BY <1>1
  <2> QED BY <2>2, <2>3, ShownOnce
<1>5. CASE d < day - 1 \/ d > day + 1
  <2> HIDE DEF day
  <2> QED BY <1>1, <1>2, <1>5 DEF Plain
<1>6. (\E k \in -1 .. 1 : d = day + k) \/ d < day - 1 \/ d > day + 1
  <2>1. ASSUME NEW x \in Int, ~(d < x - 1), ~(d > x + 1)
        PROVE  \E k \in -1 .. 1 : d = x + k
    <3>1. d - x \in -1 .. 1 /\ d = x + (d - x)
      BY <2>1
    <3> QED BY <3>1
  <2> QED BY <2>1, <1>2
<1> QED BY <1>4, <1>5, <1>6

(* The delivery of a day. *)
Slot(z, hour, d) == Date(z, 24 * d + hour)

LEMMA Slots ==
  ASSUME NEW z \in Zones, NEW hour \in Hours, Regular(z, hour), NEW d \in Int
  PROVE  /\ Slot(z, hour, d) \in Int
         /\ Local(z, Slot(z, hour, d)) = 24 * d + hour
         /\ DayOf(z, Slot(z, hour, d)) = d
         /\ \A n \in Int : AddDays(z, Slot(z, hour, d), n) = Slot(z, hour, d + n)
         /\ \A t \in Int : t < Slot(z, hour, d) <=> Local(z, t) < 24 * d + hour
<1>1. hour \in 0 .. 23 /\ 24 * d + hour \in Int
  BY HourRange
<1>2. /\ Slot(z, hour, d) \in Int
      /\ Local(z, Slot(z, hour, d)) = 24 * d + hour
      /\ \A t \in Int : t < Slot(z, hour, d) <=> Local(z, t) < 24 * d + hour
  BY <1>1, RegularHour, PlainReading DEF Slot
<1>3. DayOf(z, Slot(z, hour, d)) = d
  <2>1. (24 * d + hour) \div 24 = d
    BY <1>1
  <2> QED BY <1>2, <2>1 DEF DayOf
<1>4. ASSUME NEW n \in Int
      PROVE  AddDays(z, Slot(z, hour, d), n) = Slot(z, hour, d + n)
  <2>1. 24 * d + hour + 24 * n = 24 * (d + n) + hour
    BY <1>1
  <2> QED BY <1>2, <2>1 DEF AddDays, Slot
<1> QED BY <1>2, <1>3, <1>4

LEMMA SlotsInOrder ==
  ASSUME NEW z \in Zones, NEW hour \in Hours, Regular(z, hour), NEW d \in Int, NEW e \in Int
  PROVE  Slot(z, hour, d) < Slot(z, hour, e) <=> d < e
<1>1. hour \in Int
  BY HourRange
<1>2. Slot(z, hour, d) \in Int /\ Local(z, Slot(z, hour, d)) = 24 * d + hour
  BY Slots
<1>3. \A t \in Int : t < Slot(z, hour, e) <=> Local(z, t) < 24 * e + hour
  BY Slots
<1>4. Slot(z, hour, d) < Slot(z, hour, e) <=> 24 * d + hour < 24 * e + hour
  BY <1>2, <1>3, Zenon
<1> QED BY <1>1, <1>4

(* A slot of an instant's day, of the day before and of the day after. *)
LEMMA SlotsAround ==
  ASSUME NEW z \in Zones, NEW hour \in Hours, Regular(z, hour), NEW t \in Int, NEW d \in Int
  PROVE  /\ DayOf(z, t) \in Int
         /\ d < DayOf(z, t) => Slot(z, hour, d) <= t
         /\ d > DayOf(z, t) => Slot(z, hour, d) > t
<1>1. hour \in 0 .. 23 /\ Local(z, t) \in Int
  BY HourRange, DateType
<1>2. Slot(z, hour, d) \in Int /\ (t < Slot(z, hour, d) <=> Local(z, t) < 24 * d + hour)
  BY Slots
<1> DEFINE x == Local(z, t)
           day == x \div 24
<1>3. day \in Int /\ 24 * day <= x /\ x < 24 * day + 24
  <2>1. \A i \in Int : i \div 24 \in Int /\ 24 * (i \div 24) <= i /\ i < 24 * (i \div 24) + 24
    OBVIOUS
  <2> QED BY <1>1, <2>1, Zenon
<1>4. DayOf(z, t) = day
  BY DEF DayOf
<1> HIDE DEF day
<1>5. (d < day => ~(x < 24 * d + hour)) /\ (d > day => x < 24 * d + hour)
  <2>1. ASSUME NEW i \in Int, NEW j \in Int, 24 * j <= i, i < 24 * j + 24
        PROVE  (d < j => ~(i < 24 * d + hour)) /\ (d > j => i < 24 * d + hour)
    BY <1>1, <2>1
  <2> QED BY <1>1, <1>3, <2>1, Zenon
<1> QED BY <1>1, <1>2, <1>3, <1>4, <1>5

LEMMA NextMonday ==
  ASSUME NEW d \in Int
  PROVE  LET n == (7 - (d % 7)) % 7
         IN  n \in 0 .. 6 /\ (d + n) % 7 = 0 /\ (d + n + 7) % 7 = 0
<1> DEFINE r == d % 7
           q == d \div 7
<1>1. r \in 0 .. 6 /\ q \in Int /\ d = 7 * q + r
  OBVIOUS
<1> HIDE DEF r, q
<1>2. CASE r = 0
  <2>1. (7 - r) % 7 = 0 /\ (d + 0) % 7 = 0 /\ (d + 0 + 7) % 7 = 0
    BY <1>1, <1>2
  <2> QED BY <2>1 DEF r
<1>3. CASE r \in 1 .. 6
  <2>1. (7 - r) % 7 = 7 - r /\ (d + (7 - r)) % 7 = 0 /\ (d + (7 - r) + 7) % 7 = 0 /\ 7 - r \in 0 .. 6
    BY <1>1, <1>3
  <2> QED BY <2>1 DEF r
<1> QED BY <1>1, <1>2, <1>3

(* NextDelivery: the first slot after t on a delivery day. *)
IsNext(z, f, hour, t, e) ==
  /\ DeliveryDay(f, e) /\ Slot(z, hour, e) > t
  /\ \A g \in Int : DeliveryDay(f, g) /\ Slot(z, hour, g) > t => e <= g

LEMMA NextShape ==
  ASSUME MonthsGoOn, NEW z \in Zones, NEW f \in Freqs, NEW hour \in Hours, NEW t \in Int,
         Regular(z, hour)
  PROVE  \E e \in Int : NextDelivery(t, z, f, hour) = Slot(z, hour, e) /\ IsNext(z, f, hour, t, e)
<1> DEFINE today == DayOf(z, t)
           S(d) == Slot(z, hour, d)
<1>1. today \in Int
  BY DateType
<1>2. \A d \in Int : /\ S(d) \in Int /\ DayOf(z, S(d)) = d
                     /\ \A n \in Int : AddDays(z, S(d), n) = S(d + n)
  BY Slots
<1>3. \A d, e \in Int : S(d) < S(e) <=> d < e
  BY SlotsInOrder
<1>4. \A d \in Int : (d < today => S(d) <= t) /\ (d > today => S(d) > t)
  BY SlotsAround
<1>5. Date(z, 24 * today + hour) = S(today)
  BY DEF Slot
<1> HIDE DEF today, S
<1>a. \A d \in Int : S(d) > t => ~(d < today)
  <2>1. \A i \in Int : i > t => ~(i <= t)
    OBVIOUS
  <2> QED BY <1>2, <1>4, <2>1, Zenon
<1>6. CASE f = "daily"
  <2>1. NextDelivery(t, z, f, hour) = IF S(today) > t THEN S(today) ELSE AddDays(z, S(today), 1)
    BY <1>5, <1>6, Zenon DEF NextDelivery, today
  <2>2. AddDays(z, S(today), 1) = S(today + 1) /\ today + 1 \in Int
    BY <1>1, <1>2
  <2>3. PICK e \in Int : /\ NextDelivery(t, z, f, hour) = S(e)
                         /\ \/ e = today /\ S(today) > t
                            \/ e = today + 1 /\ ~(S(today) > t)
    BY <1>1, <2>1, <2>2
  <2>4. S(e) > t
    BY <1>1, <1>4, <2>3
  <2>5. \A g \in Int : S(g) > t => e <= g
    <3>1. ASSUME NEW g \in Int, S(g) > t, g < e PROVE FALSE
      <4>1. ~(g < today)
        BY <1>a, <3>1, Zenon
      <4>2. g = today
        BY <1>1, <2>3, <3>1, <4>1
      <4> QED BY <1>1, <2>3, <3>1, <4>2
    <3> QED BY <3>1
  <2>6. DeliveryDay(f, e)
    BY <1>6 DEF DeliveryDay
  <2> QED BY <2>3, <2>4, <2>5, <2>6 DEF IsNext, S
<1>7. CASE f = "weekly"
  <2>0. PICK n \in 0 .. 6 : n = (7 - (today % 7)) % 7 /\ (today + n) % 7 = 0 /\ (today + n + 7) % 7 = 0
    BY <1>1, NextMonday, Zenon
  <2> DEFINE monday == today + n
  <2>1. /\ n \in Int /\ monday \in Int /\ monday + 7 \in Int
        /\ monday % 7 = 0 /\ (monday + 7) % 7 = 0 /\ today <= monday /\ monday < today + 7
        /\ 7 \in Int
    BY <1>1, <2>0
  <2>2. NextDelivery(t, z, f, hour) =
          IF S(monday) > t THEN S(monday) ELSE S(monday + 7)
    <3>1. DayOf(z, S(today)) = today
      BY <1>1, <1>2
    <3>2. AddDays(z, S(today), (7 - (today % 7)) % 7) = S(monday)
      BY <1>1, <1>2, <2>0, <2>1, Zenon
    <3>3. AddDays(z, S(monday), 7) = S(monday + 7)
      BY <1>2, <2>1, Zenon
    <3>4. NextDelivery(t, z, f, hour) =
            IF S(monday) > t THEN S(monday) ELSE AddDays(z, S(monday), 7)
      BY <1>5, <1>7, <3>1, <3>2, Zenon DEF NextDelivery, today
    <3> QED BY <3>3, <3>4, Zenon
  <2> HIDE DEF monday
  <2>3. PICK e \in Int : /\ NextDelivery(t, z, f, hour) = S(e)
                         /\ \/ e = monday /\ S(monday) > t
                            \/ e = monday + 7 /\ ~(S(monday) > t)
    BY <2>1, <2>2
  <2>4. S(e) > t /\ e % 7 = 0
    BY <1>1, <1>4, <2>1, <2>3
  <2>5. \A g \in Int : DeliveryDay(f, g) /\ S(g) > t => e <= g
    <3>1. ASSUME NEW g \in Int, g % 7 = 0, S(g) > t, g < e PROVE FALSE
      <4>1. ~(g < today)
        BY <1>a, <3>1, Zenon
      <4>2. g = monday
        BY <1>1, <2>1, <2>3, <3>1, <4>1
      <4> QED BY <1>2, <2>3, <3>1, <4>2
    <3> QED BY <3>1, <1>7 DEF DeliveryDay
  <2>6. DeliveryDay(f, e)
    BY <1>7, <2>4 DEF DeliveryDay
  <2> QED BY <2>3, <2>4, <2>5, <2>6 DEF IsNext, S
<1>8. CASE f = "monthly"
  <2> DEFINE first == MonthFirst(today)
             next == NextFirst(first)
  <2>1. first \in Firsts /\ first \in Int /\ first <= today /\ MonthFirst(first) = first
    BY <1>1, MonthType, FirstsType, Zenon
  <2>2. Date(z, 24 * first + hour) = S(first)
    BY DEF Slot, S
  <2>3. \A y \in Firsts : y <= today => y <= first
    BY <1>1, MonthType
  <2> HIDE DEF first
  <2>4. next \in Firsts /\ next \in Int /\ next > first /\ \A y \in Firsts : y > first => next <= y
    BY <2>1, MonthType, FirstsType, Zenon
  <2>5. NextMonth(z, S(first)) = S(next)
    <3>1. NextMonth(z, S(first)) = AddDays(z, S(first), next - first)
      BY <1>2, <2>1, Zenon DEF NextMonth, next
    <3>2. next - first \in Int /\ first + (next - first) = next
      BY <2>1, <2>4
    <3> QED BY <1>2, <2>1, <3>1, <3>2
  <2> HIDE DEF next
  <2>6. NextDelivery(t, z, f, hour) = IF S(first) > t THEN S(first) ELSE NextMonth(z, S(first))
    BY <1>8, <2>2, Zenon DEF NextDelivery, today, first
  <2>7. PICK e \in Int : /\ NextDelivery(t, z, f, hour) = S(e)
                         /\ \/ e = first /\ S(first) > t
                            \/ e = next /\ ~(S(first) > t)
    BY <2>1, <2>4, <2>5, <2>6
  <2>8. S(e) > t /\ e \in Firsts
    <3>1. next > today
      BY <1>1, <2>1, <2>3, <2>4
    <3> QED BY <3>1, <1>4, <2>1, <2>4, <2>7
  <2>9. \A g \in Int : DeliveryDay(f, g) /\ S(g) > t => e <= g
    <3>1. ASSUME NEW g \in Int, g \in Firsts, S(g) > t, g < e PROVE FALSE
      <4>1. ~(g < today)
        BY <1>a, <3>1, Zenon
      <4>2. g = first
        BY <1>1, <2>1, <2>3, <2>4, <2>7, <3>1, <4>1
      <4> QED BY <1>2, <2>7, <3>1, <4>2
    <3> QED BY <3>1, <1>8, <2>7 DEF DeliveryDay
  <2>10. DeliveryDay(f, e)
    BY <1>8, <2>8 DEF DeliveryDay
  <2> QED BY <2>7, <2>8, <2>9, <2>10 DEF IsNext, S
<1> QED BY <1>6, <1>7, <1>8 DEF Freqs

(* LatestDelivery: the last slot up to t on a delivery day. *)
IsLatest(z, f, hour, t, e) ==
  /\ DeliveryDay(f, e) /\ Slot(z, hour, e) <= t
  /\ \A g \in Int : DeliveryDay(f, g) /\ Slot(z, hour, g) <= t => g <= e

LEMMA LatestShape ==
  ASSUME MonthsGoOn, NEW z \in Zones, NEW f \in Freqs, NEW hour \in Hours, NEW t \in Int,
         Regular(z, hour)
  PROVE  \E e \in Int : LatestDelivery(t, z, f, hour) = Slot(z, hour, e) /\ IsLatest(z, f, hour, t, e)
<1> DEFINE today == DayOf(z, t)
           S(d) == Slot(z, hour, d)
<1>1. today \in Int
  BY DateType
<1>2. \A d \in Int : /\ S(d) \in Int /\ DayOf(z, S(d)) = d
                     /\ \A n \in Int : AddDays(z, S(d), n) = S(d + n)
  BY Slots
<1>3. \A d \in Int : (d < today => S(d) <= t) /\ (d > today => S(d) > t)
  BY SlotsAround
<1>4. Date(z, 24 * today + hour) = S(today)
  BY DEF Slot
<1> HIDE DEF today, S
<1>5. \A d \in Int : S(d) <= t => ~(d > today)
  <2>1. \A i \in Int : i > t => ~(i <= t)
    OBVIOUS
  <2> QED BY <1>2, <1>3, <2>1, Zenon
<1>6. CASE f = "daily"
  <2>1. LatestDelivery(t, z, f, hour) = IF S(today) <= t THEN S(today) ELSE AddDays(z, S(today), -1)
    BY <1>4, <1>6, Zenon DEF LatestDelivery, today
  <2>2. AddDays(z, S(today), -1) = S(today - 1) /\ today - 1 \in Int
    <3>1. -1 \in Int /\ today + (-1) = today - 1 /\ today - 1 \in Int
      BY <1>1
    <3> QED BY <1>1, <1>2, <3>1
  <2>3. PICK e \in Int : /\ LatestDelivery(t, z, f, hour) = S(e)
                         /\ \/ e = today /\ S(today) <= t
                            \/ e = today - 1 /\ ~(S(today) <= t)
    BY <1>1, <2>1, <2>2
  <2>4. S(e) <= t
    BY <1>1, <1>3, <2>3
  <2>5. \A g \in Int : S(g) <= t => g <= e
    <3>1. ASSUME NEW g \in Int, S(g) <= t, g > e PROVE FALSE
      <4>1. ~(g > today)
        BY <1>5, <3>1, Zenon
      <4>2. g = today
        BY <1>1, <2>3, <3>1, <4>1
      <4> QED BY <1>1, <2>3, <3>1, <4>2
    <3> QED BY <3>1
  <2>6. DeliveryDay(f, e)
    BY <1>6 DEF DeliveryDay
  <2> QED BY <2>3, <2>4, <2>5, <2>6 DEF IsLatest, S
<1>7. CASE f = "weekly"
  <2>0. PICK n \in 0 .. 6 : n = today % 7
    BY <1>1
  <2> DEFINE monday == today + (-n)
  <2>1. /\ -n \in Int /\ monday \in Int /\ monday - 7 \in Int /\ monday + (-7) = monday - 7
        /\ monday <= today /\ today < monday + 7 /\ -7 \in Int
    BY <1>1, <2>0
  <2>m. monday % 7 = 0 /\ (monday - 7) % 7 = 0
    BY <1>1, <2>0
  <2>2. LatestDelivery(t, z, f, hour) =
          IF S(monday) <= t THEN S(monday) ELSE S(monday - 7)
    <3>1. DayOf(z, S(today)) = today
      BY <1>1, <1>2
    <3>2. AddDays(z, S(today), -(today % 7)) = S(monday)
      BY <1>1, <1>2, <2>0, <2>1, Zenon
    <3>3. AddDays(z, S(monday), -7) = S(monday - 7)
      <4> HIDE DEF monday
      <4> QED BY <1>2, <2>1
    <3>4. LatestDelivery(t, z, f, hour) =
            IF S(monday) <= t THEN S(monday) ELSE AddDays(z, S(monday), -7)
      BY <1>4, <1>7, <3>1, <3>2, Zenon DEF LatestDelivery, today
    <3> QED BY <3>3, <3>4, Zenon
  <2> HIDE DEF monday
  <2>3. PICK e \in Int : /\ LatestDelivery(t, z, f, hour) = S(e)
                         /\ \/ e = monday /\ S(monday) <= t
                            \/ e = monday - 7 /\ ~(S(monday) <= t)
    BY <2>1, <2>2
  <2>4. S(e) <= t /\ e % 7 = 0
    <3>1. monday - 7 < today
      BY <1>1, <2>1
    <3> QED BY <1>1, <1>3, <2>1, <2>m, <2>3, <3>1
  <2>5. \A g \in Int : DeliveryDay(f, g) /\ S(g) <= t => g <= e
    <3>1. ASSUME NEW g \in Int, g % 7 = 0, S(g) <= t, g > e PROVE FALSE
      <4>1. ~(g > today)
        BY <1>5, <3>1, Zenon
      <4>2. g = monday
        BY <1>1, <2>1, <2>m, <2>3, <3>1, <4>1
      <4> QED BY <1>2, <2>3, <3>1, <4>2
    <3> QED BY <3>1, <1>7, <2>3 DEF DeliveryDay
  <2>6. DeliveryDay(f, e)
    BY <1>7, <2>4 DEF DeliveryDay
  <2> QED BY <2>3, <2>4, <2>5, <2>6 DEF IsLatest, S
<1>8. CASE f = "monthly"
  <2> DEFINE first == MonthFirst(today)
             prev == PrevFirst(first)
  <2>1. first \in Firsts /\ first \in Int /\ first <= today /\ MonthFirst(first) = first
    BY <1>1, MonthType, FirstsType, Zenon
  <2>2. Date(z, 24 * first + hour) = S(first)
    BY DEF Slot, S
  <2>3. \A y \in Firsts : y <= today => y <= first
    BY <1>1, MonthType
  <2> HIDE DEF first
  <2>4. prev \in Firsts /\ prev \in Int /\ prev < first /\ \A y \in Firsts : y < first => y <= prev
    BY <2>1, MonthType, FirstsType, Zenon
  <2>5. PrevMonth(z, S(first)) = S(prev)
    <3>1. PrevMonth(z, S(first)) = AddDays(z, S(first), prev - first)
      BY <1>2, <2>1, Zenon DEF PrevMonth, prev
    <3>2. prev - first \in Int /\ first + (prev - first) = prev
      BY <2>1, <2>4
    <3> QED BY <1>2, <2>1, <3>1, <3>2
  <2> HIDE DEF prev
  <2>6. LatestDelivery(t, z, f, hour) = IF S(first) <= t THEN S(first) ELSE PrevMonth(z, S(first))
    BY <1>8, <2>2, Zenon DEF LatestDelivery, today, first
  <2>7. PICK e \in Int : /\ LatestDelivery(t, z, f, hour) = S(e)
                         /\ \/ e = first /\ S(first) <= t
                            \/ e = prev /\ ~(S(first) <= t)
    BY <2>1, <2>4, <2>5, <2>6
  <2>8. S(e) <= t /\ e \in Firsts
    <3>1. prev < today
      BY <1>1, <2>1, <2>4
    <3> QED BY <3>1, <1>3, <2>1, <2>4, <2>7
  <2>9. \A g \in Int : DeliveryDay(f, g) /\ S(g) <= t => g <= e
    <3>1. ASSUME NEW g \in Int, g \in Firsts, S(g) <= t, g > e PROVE FALSE
      <4>1. ~(g > today)
        BY <1>5, <3>1, Zenon
      <4>2. g = first
        BY <1>1, <2>1, <2>3, <2>4, <2>7, <3>1, <4>1
      <4> QED BY <1>2, <2>7, <3>1, <4>2
    <3> QED BY <3>1, <1>8, <2>7 DEF DeliveryDay
  <2>10. DeliveryDay(f, e)
    BY <1>8, <2>8 DEF DeliveryDay
  <2> QED BY <2>7, <2>8, <2>9, <2>10 DEF IsLatest, S
<1> QED BY <1>6, <1>7, <1>8 DEF Freqs

(* Between the end of the period a delivery reports on and the instant at     *)
(* which it was computed lies that delivery and no other.                     *)
LEMMA OneDelivery ==
  ASSUME MidnightsExist, MonthsGoOn, NEW z \in Zones, NEW f \in Freqs, NEW hour \in Hours,
         NEW t \in Int, Regular(z, hour)
  PROVE  LET end == PeriodOf(z, f, LatestDelivery(t, z, f, hour)).end
         IN  Cardinality(Deliveries(z, f, hour, end, t)) = 1
<1>1. PICK e \in Int : LatestDelivery(t, z, f, hour) = Slot(z, hour, e) /\ IsLatest(z, f, hour, t, e)
  BY LatestShape
<1> DEFINE S(d) == Slot(z, hour, d)
<1>2. \A d \in Int : S(d) \in Int /\ Local(z, S(d)) = 24 * d + hour /\ DayOf(z, S(d)) = d
  BY Slots
<1>3. \A d, u \in Int : u < S(d) <=> Local(z, u) < 24 * d + hour
  BY Slots
<1>4. DeliveryDay(f, e) /\ S(e) <= t /\ \A g \in Int : DeliveryDay(f, g) /\ S(g) <= t => g <= e
  BY <1>1 DEF IsLatest
<1> DEFINE end == PeriodOf(z, f, LatestDelivery(t, z, f, hour)).end
<1>5. end = Midnight(z, e)
  <2>1. S(e) \in Int /\ DayOf(z, S(e)) = e
    BY <1>2
  <2>2. PICK a, b \in Int :
          /\ PeriodOf(z, f, S(e)) = [start |-> Midnight(z, a), end |-> Midnight(z, b)]
          /\ DeliveryDay(f, DayOf(z, S(e))) => b = DayOf(z, S(e))
    BY <2>1, PeriodShape
  <2> QED BY <1>1, <1>4, <2>1, <2>2
<1> HIDE DEF end
<1>6. end \in Int /\ DayOf(z, end) = e /\ Local(z, end) = 24 * e
  BY <1>5, FromMidnight DEF MidnightsExist, Midnight
<1>7. hour \in 0 .. 23
  BY HourRange
<1>8. end <= S(e)
  <2>1. CASE hour = 0
    <3>1. 24 * e + hour = 24 * e
      BY <2>1
    <3>2. end = S(e)
      BY <1>5, <3>1 DEF Midnight, Slot
    <3> QED BY <1>6, <3>2
  <2>2. CASE hour > 0
    <3>1. Local(z, end) < 24 * e + hour
      BY <1>6, <1>7, <2>2
    <3>2. end < S(e)
      BY <1>3, <1>6, <3>1
    <3> HIDE DEF S
    <3> QED BY <1>2, <1>6, <3>2
  <2> QED BY <1>7, <2>1, <2>2
<1>9. ASSUME NEW g \in Int, DeliveryDay(f, g), S(g) \in end .. t
      PROVE  g = e
  <2>1. g <= e
    BY <1>2, <1>4, <1>6, <1>9
  <2>2. ~(end < S(g)) => end = S(g)
    <3>1. \A i \in Int : i \in end .. t /\ ~(end < i) => end = i
      BY <1>6
    <3>2. S(g) \in Int
      BY <1>2
    <3> QED BY <1>9, <3>1, <3>2, Zenon
  <2>3. Local(z, end) < 24 * g + hour \/ Local(z, end) = 24 * g + hour
    BY <1>2, <1>3, <1>6, <2>2, Zenon
  <2> QED BY <1>6, <1>7, <2>1, <2>3
<1>10. DayOf(z, t) \in Int /\ e <= DayOf(z, t)
  <2>1. DayOf(z, t) \in Int /\ (e > DayOf(z, t) => S(e) > t)
    BY SlotsAround
  <2> HIDE DEF S
  <2> QED BY <1>2, <1>4, <2>1
<1>11. Deliveries(z, f, hour, end, t) = {S(e)}
  <2> DEFINE Days == {d \in DayOf(z, end) - 1 .. DayOf(z, t) + 1 :
                        /\ (f = "weekly" => d % 7 = 0) /\ (f = "monthly" => d \in Firsts)
                        /\ Date(z, 24 * d + hour) \in end .. t}
  <2>1. Deliveries(z, f, hour, end, t) = {S(d) : d \in Days}
    BY DEF Deliveries, Slot
  <2>2. \A d \in Days : d = e
    <3> SUFFICES ASSUME NEW d \in Days PROVE d = e
      OBVIOUS
    <3>1. d \in Int /\ DeliveryDay(f, d) /\ S(d) \in end .. t
      BY <1>6, <1>10 DEF DeliveryDay, Slot
    <3> QED BY <3>1, <1>9
  <2>3. e \in Days
    <3>1. S(e) \in end .. t
      <4> HIDE DEF S
      <4> QED BY <1>2, <1>4, <1>6, <1>8
    <3>2. e \in DayOf(z, end) - 1 .. DayOf(z, t) + 1
      BY <1>6, <1>10
    <3> QED BY <1>4, <3>1, <3>2 DEF DeliveryDay, Slot
  <2> HIDE DEF Days, S
  <2> QED BY <2>1, <2>2, <2>3
<1> QED BY <1>11, FS_Singleton DEF end

(* runner.go processLocked with LatestDelivery and insight/periods.go: a       *)
(* summary is of a period that is over and of the latest one, whatever list,   *)
(* zone or hour the pass worked from and however late it came; for zones in    *)
(* which every day has its midnight on the wall clock.                         *)
THEOREM LatestPeriodOnlySafe ==
  Spec => [](MidnightsExist /\ MonthsGoOn => LatestPeriodOnly)
<1>1. Init => SummaryInv
  BY DEF Init, SummaryInv
<1>2. ASSUME SummaryInv, MidnightsExist, MonthsGoOn
      PROVE  LatestPeriodOnly
  <2> SUFFICES ASSUME NEW m \in outbox, Regular(m.zone, m.hour)
               PROVE  Cardinality(Deliveries(m.zone, m.freq, m.hour, m.end, m.at)) = 1
    BY DEF LatestPeriodOnly
  <2>1. PICK t \in Instants, z \in Zones, f \in Freqs, hour \in Hours :
          LET period == PeriodAt[<<t, z, f, hour>>]
          IN  m = [key |-> <<f, period.start>>, freq |-> f, start |-> period.start,
                   end |-> period.end, zone |-> z, hour |-> hour, at |-> t]
    BY <1>2, Zenon DEF SummaryInv
  <2>2. PeriodAt[<<t, z, f, hour>>] = PeriodOf(z, f, LatestDelivery(t, z, f, hour))
    <3>1. <<t, z, f, hour>> \in Table
      BY DEF Table
    <3> QED BY <3>1, Tabulated
  <2>3. /\ m.zone = z /\ m.freq = f /\ m.hour = hour /\ m.at = t
        /\ m.end = PeriodOf(z, f, LatestDelivery(t, z, f, hour)).end
    BY <2>1, <2>2
  <2>4. t \in Int
    BY InstantsType
  <2> QED BY <1>2, <2>3, <2>4, OneDelivery
<1>3. SummaryInv => (MidnightsExist /\ MonthsGoOn => LatestPeriodOnly)
  BY <1>2
<1> QED BY <1>1, <1>3, SummaryStep, SchedulesTypeSafe, PTL DEF Spec

-----------------------------------------------------------------------------
(* A row that a pass listed may have been replaced since.  The two can agree  *)
(* on the next delivery only if the row still has the hour of the list: a     *)
(* replaced row is computed at or after the pass, so what is next for it lies *)
(* behind the pass, while the listed row was due.                             *)
Watched(f) == redo = None /\ f \in Enabled /\ Regular(zone, rows[f].hour)

NextInv ==
  /\ \A r \in Runners, p \in Row :
       p \in passes[r].todo => p.next <= passes[r].at /\ passes[r].at <= now
  /\ \A f \in Freqs :
       Watched(f) =>
         /\ rows[f].next = NextDelivery(rows[f].since, zone, f, rows[f].hour)
         /\ \A r \in Runners, p \in Row :
              p \in passes[r].todo /\ p.freq = f =>
                p.hour = rows[f].hour \/ passes[r].at <= rows[f].since

LEMMA NextIsLater ==
  ASSUME MonthsGoOn, NEW z \in Zones, NEW f \in Freqs, NEW hour \in Hours, NEW t \in Int,
         Regular(z, hour)
  PROVE  NextDelivery(t, z, f, hour) \in Int /\ NextDelivery(t, z, f, hour) > t
<1>1. PICK e \in Int : NextDelivery(t, z, f, hour) = Slot(z, hour, e) /\ IsNext(z, f, hour, t, e)
  BY NextShape
<1>2. Slot(z, hour, e) \in Int
  BY Slots
<1> QED BY <1>1, <1>2 DEF IsNext

LEMMA UpsertedNext ==
  ASSUME NEW f \in Freqs, NEW hour \in Hours, NEW z \in Zones, NEW t \in Instants
  PROVE  /\ Upserted(f, hour, z, t).next = NextDelivery(t, z, f, hour)
         /\ Upserted(f, hour, z, t).hour = hour /\ Upserted(f, hour, z, t).since = t
<1>1. <<t, z, f, hour>> \in Table
  BY DEF Table
<1>2. NextAt[<<t, z, f, hour>>] = NextDelivery(t, z, f, hour)
  BY <1>1, Tabulated
<1> QED BY <1>2 DEF Upserted

(* Steps that begin no pass and advance no row: what is watched afterwards was *)
(* watched before, or is computed by this step.                                *)
FewerPasses ==
  \A r \in Runners : /\ passes'[r].todo \subseteq passes[r].todo
                     /\ passes'[r].todo # {} => passes'[r].at = passes[r].at

LEMMA NextKept ==
  ASSUME SchedulesTypeOK, NextInv, FewerPasses, now' \in Instants, now <= now',
         \A f \in Freqs :
           Watched(f)' =>
             \/ Watched(f) /\ rows'[f] = rows[f] /\ zone' = zone
             \/ zone' \in Zones /\ \E hour \in Hours : rows'[f] = Upserted(f, hour, zone', now)
  PROVE  NextInv'
<1>1. /\ now \in Instants /\ now \in Int /\ now' \in Int
      /\ \A r \in Runners : passes[r].at \in Instants \cup {0} /\ passes[r].todo \subseteq Row
      /\ \A r \in Runners : passes[r].at \in Int
  BY InstantsType DEF SchedulesTypeOK
<1>2. ASSUME NEW r \in Runners, NEW p \in Row, p \in passes'[r].todo
      PROVE  /\ p \in passes[r].todo /\ passes'[r].at = passes[r].at
             /\ p.next <= passes[r].at /\ passes[r].at <= now
  <2>1. p \in passes[r].todo /\ passes'[r].at = passes[r].at
    BY <1>2 DEF FewerPasses
  <2> QED BY <2>1 DEF NextInv
<1>3. ASSUME NEW r \in Runners, NEW p \in Row, p \in passes'[r].todo
      PROVE  p.next <= passes'[r].at /\ passes'[r].at <= now'
  <2>1. \A i \in Int : i <= now => i <= now'
    BY <1>1
  <2> QED BY <1>1, <1>2, <1>3, <2>1
<1>4. ASSUME NEW f \in Freqs, Watched(f)'
      PROVE  /\ rows'[f].next = NextDelivery(rows'[f].since, zone', f, rows'[f].hour)
             /\ \A r \in Runners, p \in Row :
                  p \in passes'[r].todo /\ p.freq = f =>
                    p.hour = rows'[f].hour \/ passes'[r].at <= rows'[f].since
  <2>1. CASE Watched(f) /\ rows'[f] = rows[f] /\ zone' = zone
    <3>1. /\ rows[f].next = NextDelivery(rows[f].since, zone, f, rows[f].hour)
          /\ \A r \in Runners, p \in Row :
               p \in passes[r].todo /\ p.freq = f =>
                 p.hour = rows[f].hour \/ passes[r].at <= rows[f].since
      BY <2>1, Zenon DEF NextInv
    <3> QED BY <1>2, <2>1, <3>1, Zenon
  <2>2. ASSUME NEW hour \in Hours, zone' \in Zones, rows'[f] = Upserted(f, hour, zone', now)
        PROVE  /\ rows'[f].next = NextDelivery(rows'[f].since, zone', f, rows'[f].hour)
               /\ rows'[f].since = now
    <3>1. PICK y \in Zones : y = zone'
      BY <2>2
    <3>2. PICK row : row = rows'[f]
      OBVIOUS
    <3>3. row.next = NextDelivery(now, y, f, hour) /\ row.hour = hour /\ row.since = now
      BY <1>1, <2>2, <3>1, <3>2, UpsertedNext
    <3> QED BY <3>1, <3>2, <3>3
  <2>3. CASE zone' \in Zones /\ \E hour \in Hours : rows'[f] = Upserted(f, hour, zone', now)
    BY <1>2, <2>2, <2>3
  <2> QED BY <1>4, <2>1, <2>3
<1> QED BY <1>3, <1>4 DEF NextInv

(* AdvanceSummarySchedule: the guard on next_delivery_at.  The row is still    *)
(* the one the pass listed, and the other passes over it began no later.       *)
LEMMA NextAdvanced ==
  ASSUME MonthsGoOn, SchedulesTypeOK, NextInv, NEW r \in Runners, NEW p \in Heads(r),
         ProcessLocked(r, p), FewerPasses
  PROVE  NextInv'
<1>1. /\ p \in Row /\ p.freq \in Freqs /\ p.hour \in Hours /\ p \in passes[r].todo
      /\ passes[r].at \in Instants /\ zone \in Zones /\ now \in Instants /\ now \in Int
      /\ \A s \in Runners : passes[s].at \in Int
  <2>1. p \in passes[r].todo /\ zone \in Zones /\ now \in Instants
    BY DEF Heads, SchedulesTypeOK
  <2>2. p \in Row /\ passes[r].at \in Instants
    BY <2>1 DEF SchedulesTypeOK
  <2>3. \A s \in Runners : passes[s].at \in Instants \cup {0}
    BY DEF SchedulesTypeOK
  <2>4. p.freq \in Freqs /\ p.hour \in Hours
    BY <2>2 DEF Row
  <2>5. \A i \in Instants \cup {0} : i \in Int
    BY InstantsType
  <2>6. now \in Int /\ \A s \in Runners : passes[s].at \in Int
    BY <2>1, <2>3, <2>5, Zenon
  <2> QED BY <2>1, <2>2, <2>4, <2>6
<1>2. /\ UNCHANGED <<now, zone, redo>>
      /\ \/ rows' = rows
         \/ /\ p.freq \in Enabled /\ rows[p.freq].next = p.next
            /\ rows' = [rows EXCEPT ![p.freq].next = NextAt[<<passes[r].at, zone, p.freq, p.hour>>],
                                    ![p.freq].since = passes[r].at]
  BY Zenon DEF ProcessLocked, AdvanceSummarySchedule
<1>3. CASE rows' = rows
  <2>1. \A f \in Freqs : Watched(f)' => Watched(f)
    BY <1>2, <1>3 DEF Watched, Enabled
  <2>2. now' \in Instants /\ now <= now'
    BY <1>1, <1>2
  <2> QED BY <1>2, <1>3, <2>1, <2>2, NextKept
<1>4. CASE /\ p.freq \in Enabled /\ rows[p.freq].next = p.next
           /\ rows' = [rows EXCEPT ![p.freq].next = NextAt[<<passes[r].at, zone, p.freq, p.hour>>],
                                   ![p.freq].since = passes[r].at]
  <2>1. PICK new : new = NextAt[<<passes[r].at, zone, p.freq, p.hour>>]
    OBVIOUS
  <2>2. new = NextDelivery(passes[r].at, zone, p.freq, p.hour)
    <3>1. <<passes[r].at, zone, p.freq, p.hour>> \in Table
      BY <1>1 DEF Table
    <3> QED BY <2>1, <3>1, Tabulated
  <2>3. rows[p.freq] \in Row /\ rows \in [Freqs -> Row \cup {None}]
    BY <1>1, <1>4 DEF Enabled, SchedulesTypeOK
  <2>4. /\ \A f \in Freqs : f # p.freq => rows'[f] = rows[f]
        /\ rows'[p.freq].next = new /\ rows'[p.freq].since = passes[r].at
        /\ rows'[p.freq].hour = rows[p.freq].hour /\ rows'[p.freq].enabled = rows[p.freq].enabled
    <3>1. rows' = [rows EXCEPT ![p.freq] = [rows[p.freq] EXCEPT !.next = new, !.since = passes[r].at]]
      BY <1>4, <2>1, <2>3, <1>1
    <3> QED BY <3>1, <2>3, <1>1 DEF Row
  <2>5. \A f \in Freqs : Watched(f)' => Watched(f)
    <3> SUFFICES ASSUME NEW f \in Freqs, Watched(f)' PROVE Watched(f)
      OBVIOUS
    <3>1. redo' = None /\ rows'[f] # None /\ rows'[f].enabled /\ Regular(zone', rows'[f].hour)
      BY DEF Watched, Enabled
    <3>2. rows'[f].hour = rows[f].hour
      BY <2>4
    <3>3. f \in Enabled
      BY <1>4, <2>4, <3>1 DEF Enabled
    <3> QED BY <1>2, <3>1, <3>2, <3>3 DEF Watched
  <2>6. ASSUME NEW s \in Runners, NEW q \in Row, q \in passes'[s].todo
        PROVE  /\ q \in passes[s].todo /\ passes'[s].at = passes[s].at
               /\ q.next <= passes'[s].at /\ passes'[s].at <= now'
    <3>1. q \in passes[s].todo /\ passes'[s].at = passes[s].at
      BY <2>6 DEF FewerPasses
    <3> QED BY <1>2, <3>1 DEF NextInv
  <2>7. ASSUME NEW f \in Freqs, Watched(f)'
        PROVE  /\ rows'[f].next = NextDelivery(rows'[f].since, zone', f, rows'[f].hour)
               /\ \A s \in Runners, q \in Row :
                    q \in passes'[s].todo /\ q.freq = f =>
                      q.hour = rows'[f].hour \/ passes'[s].at <= rows'[f].since
    <3>1. Watched(f)
      BY <2>5, <2>7
    <3>2. /\ rows[f].next = NextDelivery(rows[f].since, zone, f, rows[f].hour)
          /\ \A s \in Runners, q \in Row :
               q \in passes[s].todo /\ q.freq = f =>
                 q.hour = rows[f].hour \/ passes[s].at <= rows[f].since
      BY <3>1, Zenon DEF NextInv
    <3>3. CASE f # p.freq
      BY <1>2, <2>4, <2>6, <3>2, <3>3, Zenon
    <3>4. CASE f = p.freq
      <4>1. rows[f].since \in Int /\ rows[f].hour \in Hours /\ Regular(zone, rows[f].hour)
        BY <2>3, <3>1, <3>4, InstantsType DEF Row, Watched
      <4>2. rows[f].next \in Int /\ rows[f].next > rows[f].since
        BY <1>1, <3>2, <4>1, NextIsLater
      <4>3. rows[f].next <= passes[r].at
        BY <1>1, <1>4, <3>4 DEF NextInv
      <4>4. rows[f].since < passes[r].at
        <5>1. \A i, j, k \in Int : j > i /\ j <= k => i < k /\ ~(k <= i)
          OBVIOUS
        <5> QED BY <1>1, <4>1, <4>2, <4>3, <5>1, Zenon
      <4>5. p.hour = rows[f].hour
        <5>1. ~(passes[r].at <= rows[f].since)
          BY <1>1, <4>1, <4>4
        <5> QED BY <1>1, <3>2, <3>4, <5>1, Zenon
      <4>6. rows'[f].next = NextDelivery(rows'[f].since, zone', f, rows'[f].hour)
        BY <1>2, <2>2, <2>4, <3>4, <4>5
      <4>7. ASSUME NEW s \in Runners, NEW q \in Row, q \in passes'[s].todo, q.freq = f
            PROVE  q.hour = rows'[f].hour \/ passes'[s].at <= rows'[f].since
        <5>1. q \in passes[s].todo /\ passes'[s].at = passes[s].at
          BY <2>6, <4>7
        <5>2. q.hour = rows[f].hour \/ passes[s].at <= rows[f].since
          BY <3>2, <4>7, <5>1
        <5>3. passes[s].at <= rows[f].since => passes[s].at <= passes[r].at
          <6>1. \A i, j, k \in Int : i <= j /\ j < k => i <= k
            OBVIOUS
          <6> QED BY <1>1, <4>1, <4>4, <6>1, Zenon
        <5> QED BY <2>4, <3>4, <5>1, <5>2, <5>3, Zenon
      <4> QED BY <4>6, <4>7
    <3> QED BY <3>3, <3>4
  <2> QED BY <2>6, <2>7 DEF NextInv
<1> QED BY <1>2, <1>3, <1>4

LEMMA DropFewer ==
  ASSUME SchedulesTypeOK, NEW r \in Runners, NEW p, Drop(r, p)
  PROVE  FewerPasses
<1>1. PICK pass \in {Idle, [at |-> passes[r].at, todo |-> passes[r].todo \ {p}]} :
        passes' = [passes EXCEPT ![r] = pass]
  BY DEF Drop
<1>2. passes \in [Runners -> [at : Instants \cup {0}, todo : SUBSET Row]]
  BY DEF SchedulesTypeOK
<1>3. pass.todo \subseteq passes[r].todo /\ (pass.todo # {} => pass.at = passes[r].at)
  BY DEF Idle
<1> QED BY <1>1, <1>2, <1>3 DEF FewerPasses

LEMMA NextStep ==
  ASSUME MonthsGoOn, SchedulesTypeOK, SchedulesTypeOK', NextInv, [Next]_vars
  PROVE  NextInv'
<1>0. /\ now \in Instants /\ now' \in Instants /\ zone \in Zones /\ zone' \in Zones
      /\ now \in Int /\ redo \in Zones \cup {None}
      /\ \A f \in Enabled : f \in Freqs /\ rows[f] \in Row /\ rows[f].hour \in Hours
      /\ rows \in [Freqs -> Row \cup {None}]
      /\ passes \in [Runners -> [at : Instants \cup {0}, todo : SUBSET Row]]
  <2>1. \A f \in Enabled : f \in Freqs /\ rows[f] \in Row
    BY DEF Enabled, SchedulesTypeOK
  <2>2. \A row \in Row : row.hour \in Hours
    BY DEF Row
  <2>3. now \in Int
    BY InstantsType DEF SchedulesTypeOK
  <2> QED BY <2>1, <2>2, <2>3 DEF SchedulesTypeOK
<1>a. ASSUME UNCHANGED <<now, passes>>
      PROVE  FewerPasses /\ now <= now'
  BY <1>a, <1>0 DEF FewerPasses
<1>b. ASSUME UNCHANGED <<rows, zone, redo>>
      PROVE  \A f \in Freqs : Watched(f)' => Watched(f) /\ rows'[f] = rows[f] /\ zone' = zone
  BY <1>b DEF Watched, Enabled
<1>1. CASE UNCHANGED vars \/ BeginAccountDeletion
  BY <1>0, <1>1, <1>a, <1>b, NextKept DEF vars, BeginAccountDeletion
<1>2. CASE Tick
  <2>1. {t \in Instants : t > now} # {} /\ {t \in Instants : t > now} \subseteq Instants
    BY <1>2 DEF Tick
  <2>2. now' \in {t \in Instants : t > now}
    BY <1>2, <2>1, MinType DEF Tick
  <2>3. now <= now'
    BY <1>0, <2>2, InstantsType
  <2>4. FewerPasses
    BY <1>2 DEF Tick, FewerPasses
  <2> QED BY <1>0, <1>2, <1>b, <2>3, <2>4, NextKept DEF Tick
<1>3. ASSUME NEW f \in Freqs, NEW hour \in Hours, SetSchedule(f, hour)
      PROVE  NextInv'
  <2>1. /\ rows' = [rows EXCEPT ![f] = Upserted(f, hour, zone, now)]
        /\ UNCHANGED <<now, passes, zone, redo>>
    BY <1>3 DEF SetSchedule
  <2>2. \A g \in Freqs : g # f => rows'[g] = rows[g]
    BY <1>0, <2>1
  <2>3. rows'[f] = Upserted(f, hour, zone', now)
    BY <1>0, <2>1
  <2>4. \A g \in Freqs : g # f /\ Watched(g)' => Watched(g)
    BY <2>1, <2>2 DEF Watched, Enabled
  <2> QED BY <1>0, <1>a, <2>1, <2>2, <2>3, <2>4, NextKept
<1>4. ASSUME NEW set, DisableSchedules(set)
      PROVE  NextInv'
  <2>1. UNCHANGED <<now, passes, zone, redo>>
    BY <1>4 DEF DisableSchedules
  <2>2. \A f \in Freqs : f \in set /\ rows[f] # None => rows'[f] = [rows[f] EXCEPT !.enabled = FALSE]
    BY <1>4 DEF DisableSchedules
  <2>3. \A f \in Freqs : ~(f \in set /\ rows[f] # None) => rows'[f] = rows[f]
    BY <1>4 DEF DisableSchedules
  <2>4. \A f \in Freqs : f \in set /\ rows[f] # None => rows'[f].enabled = FALSE
    BY <1>0, <2>2 DEF Row
  <2>5. \A f \in Freqs : Watched(f)' => Watched(f) /\ rows'[f] = rows[f]
    BY <2>1, <2>3, <2>4 DEF Watched, Enabled
  <2> QED BY <1>0, <1>a, <2>1, <2>5, NextKept
<1>5. ASSUME NEW z \in Zones, SetTimezone(z)
      PROVE  NextInv'
  <2>1. /\ zone' = z /\ UNCHANGED <<now, passes>>
        /\ rows' = [f \in Freqs |-> IF f \in Enabled THEN Upserted(f, rows[f].hour, z, now) ELSE rows[f]]
    BY <1>5 DEF SetTimezone, Recalculated
  <2>2. \A f \in Freqs : f \notin Enabled => f \notin Enabled'
    BY <2>1 DEF Enabled
  <2>3. \A f \in Freqs : Watched(f)' => f \in Enabled
    BY <2>2 DEF Watched
  <2>4. \A f \in Enabled : rows'[f] = Upserted(f, rows[f].hour, zone', now)
    BY <1>0, <2>1
  <2> QED BY <1>0, <1>a, <2>1, <2>3, <2>4, NextKept
<1>6. ASSUME NEW z \in Zones, SettingsFail(z)
      PROVE  NextInv'
  <2>1. redo' # None /\ UNCHANGED <<now, passes>>
    BY <1>6, NoneIsNew DEF SettingsFail
  <2>2. \A f \in Freqs : ~Watched(f)'
    BY <2>1 DEF Watched
  <2> QED BY <1>0, <1>a, <2>1, <2>2, NextKept
<1>7. CASE PurgeAccountData
  <2>1. UNCHANGED <<now, passes>> /\ \A f \in Freqs : rows'[f] = None
    BY <1>7 DEF PurgeAccountData
  <2>2. \A f \in Freqs : ~Watched(f)'
    BY <2>1 DEF Watched, Enabled
  <2> QED BY <1>0, <1>a, <2>1, <2>2, NextKept
<1>8. CASE UserStep
  BY <1>0, <1>1, <1>3, <1>4, <1>5, <1>6, <1>7, <1>8 DEF UserStep, Settings, SettingsAgain
<1>9. ASSUME NEW r \in Runners, RunnerStep(r)
      PROVE  NextInv'
  <2>1. ASSUME NEW p, SkipInactive(r, p) \/ ProcessFails(r, p)
        PROVE  NextInv'
    <3>1. Drop(r, p) /\ UNCHANGED <<now, zone, rows, redo>>
      BY <2>1 DEF SkipInactive, ProcessFails
    <3>2. now <= now' /\ FewerPasses
      BY <1>0, <3>1, DropFewer
    <3> QED BY <1>0, <1>b, <3>1, <3>2, NextKept
  <2>2. ASSUME NEW p \in Heads(r), ProcessLocked(r, p)
        PROVE  NextInv'
    <3>1. Drop(r, p)
      BY <2>2 DEF ProcessLocked
    <3> QED BY <2>2, <3>1, DropFewer, NextAdvanced
  <2>3. CASE Crash(r)
    <3>1. passes' = [passes EXCEPT ![r] = Idle] /\ UNCHANGED <<now, zone, rows, redo>>
      BY <2>3 DEF Crash
    <3>2. FewerPasses
      BY <1>0, <3>1 DEF FewerPasses, Idle
    <3>3. now <= now'
      BY <1>0, <3>1
    <3> QED BY <1>0, <1>b, <3>1, <3>2, <3>3, NextKept
  <2>4. CASE RunOnce(r)
    <3>1. PICK b \in Batches : passes' = [passes EXCEPT ![r] = [at |-> now, todo |-> b]]
      BY <2>4 DEF RunOnce
    <3>2. UNCHANGED <<now, zone, rows, redo>>
      BY <2>4 DEF RunOnce
    <3>3. \A p \in b : \E f \in Enabled : p = rows[f] /\ rows[f].next <= now
      BY DEF Batches, Due
    <3>4. ASSUME NEW p \in b
          PROVE  /\ p.freq \in Enabled /\ p = rows[p.freq] /\ p.next <= now
      <4>1. PICK f \in Enabled : p = rows[f] /\ rows[f].next <= now
        BY <3>3
      <4>2. rows[f].freq = f
        BY <1>0 DEF SchedulesTypeOK, Enabled
      <4> QED BY <4>1, <4>2
    <3>5. ASSUME NEW s \in Runners, NEW q \in Row, q \in passes'[s].todo
          PROVE  \/ s = r /\ q \in b /\ passes'[s].at = now
                 \/ q \in passes[s].todo /\ passes'[s].at = passes[s].at
      BY <1>0, <3>1, <3>5
    <3>6. ASSUME NEW s \in Runners, NEW q \in Row, q \in passes'[s].todo
          PROVE  q.next <= passes'[s].at /\ passes'[s].at <= now'
      <4>1. CASE q \in b /\ passes'[s].at = now
        BY <1>0, <3>2, <3>4, <4>1
      <4>2. CASE q \in passes[s].todo /\ passes'[s].at = passes[s].at
        BY <3>2, <4>2 DEF NextInv
      <4> QED BY <3>5, <3>6, <4>1, <4>2
    <3>7. ASSUME NEW f \in Freqs, Watched(f)'
          PROVE  /\ rows'[f].next = NextDelivery(rows'[f].since, zone', f, rows'[f].hour)
                 /\ \A s \in Runners, q \in Row :
                      q \in passes'[s].todo /\ q.freq = f =>
                        q.hour = rows'[f].hour \/ passes'[s].at <= rows'[f].since
      <4>1. Watched(f)
        BY <1>b, <3>2, <3>7
      <4>2. /\ rows[f].next = NextDelivery(rows[f].since, zone, f, rows[f].hour)
            /\ \A s \in Runners, q \in Row :
                 q \in passes[s].todo /\ q.freq = f =>
                   q.hour = rows[f].hour \/ passes[s].at <= rows[f].since
        BY <4>1, Zenon DEF NextInv
      <4>3. \A q \in b : q.freq = f => q.hour = rows[f].hour
        BY <3>4
      <4> QED BY <3>2, <3>5, <4>2, <4>3, Zenon
    <3> QED BY <3>6, <3>7 DEF NextInv
  <2> QED BY <1>9, <2>1, <2>2, <2>3, <2>4 DEF RunnerStep, Process
<1> QED BY <1>1, <1>2, <1>8, <1>9 DEF Next

LEMMA NextStart ==
  ASSUME Init, SchedulesTypeOK
  PROVE  NextInv
<1>1. PICK s \in Starts :
        /\ zone = s.zone
        /\ rows = [f \in Freqs |-> IF f \in s.freqs THEN Upserted(f, s.hour, zone, now) ELSE None]
  BY DEF Init
<1>2. zone \in Zones /\ s.hour \in Hours /\ now \in Instants
  BY <1>1, StartType DEF SchedulesTypeOK
<1>3. \A r \in Runners : passes[r].todo = {}
  BY DEF Init, Idle
<1>4. ASSUME NEW f \in Freqs, Watched(f)
      PROVE  rows[f].next = NextDelivery(rows[f].since, zone, f, rows[f].hour)
  <2>1. rows[f] = Upserted(f, s.hour, zone, now)
    BY <1>1, <1>4 DEF Watched, Enabled
  <2> QED BY <1>2, <2>1, UpsertedNext
<1> QED BY <1>3, <1>4 DEF NextInv

(* schedule.go NextDelivery with AdvanceSummarySchedule, settings and /tongket:*)
(* an enabled row of an active user is due at the first full hour of its own   *)
(* after it was computed, on the wall clock of the user's zone as it is now,   *)
(* although passes work from older rows and zones; for every calendar that     *)
(* goes on in both directions.                                                 *)
THEOREM NextIsFirstSafe == Spec => [](MonthsGoOn => NextIsFirst)
<1>1. Init /\ SchedulesTypeOK => NextInv
  BY NextStart
<1>2. ASSUME MonthsGoOn => NextInv, SchedulesTypeOK, SchedulesTypeOK', [Next]_vars
      PROVE  (MonthsGoOn => NextInv)'
  <2>1. MonthsGoOn => NextInv'
    BY <1>2, NextStep
  <2> QED BY <2>1 DEF MonthsGoOn
<1>3. ASSUME MonthsGoOn, SchedulesTypeOK, NextInv
      PROVE  NextIsFirst
  <2> SUFFICES ASSUME redo = None, NEW f \in Enabled, Regular(zone, rows[f].hour)
               PROVE  LET row == rows[f]
                      IN  /\ row.next \in Deliveries(zone, f, row.hour, row.since + 1, row.next)
                          /\ Deliveries(zone, f, row.hour, row.since + 1, row.next - 1) = {}
    BY DEF NextIsFirst
  <2>1. f \in Freqs /\ rows[f] \in Row /\ zone \in Zones
    BY <1>3 DEF Enabled, SchedulesTypeOK
  <2>2. PICK hour \in Hours, t \in Int : hour = rows[f].hour /\ t = rows[f].since
    BY <2>1, InstantsType DEF Row
  <2>3. rows[f].next = NextDelivery(t, zone, f, hour)
    BY <1>3, <2>1, <2>2 DEF NextInv, Watched
  <2>4. PICK e \in Int : rows[f].next = Slot(zone, hour, e) /\ IsNext(zone, f, hour, t, e)
    BY <1>3, <2>1, <2>2, <2>3, NextShape
  <2> DEFINE S(d) == Slot(zone, hour, d)
  <2>5. \A d \in Int : S(d) \in Int /\ DayOf(zone, S(d)) = d
    BY <2>1, <2>2, Slots
  <2>6. DeliveryDay(f, e) /\ S(e) > t /\ \A g \in Int : DeliveryDay(f, g) /\ S(g) > t => e <= g
    BY <2>4 DEF IsNext
  <2>7. t + 1 \in Int /\ DayOf(zone, t + 1) \in Int /\ DayOf(zone, t + 1) <= e
    <3>1. t + 1 \in Int
      OBVIOUS
    <3>2. DayOf(zone, t + 1) \in Int /\ (e < DayOf(zone, t + 1) => S(e) <= t + 1)
      BY <2>1, <2>2, <3>1, SlotsAround
    <3>3. DayOf(zone, S(e)) = e /\ S(e) \in Int
      BY <2>5
    <3>4. e < DayOf(zone, t + 1) => S(e) = t + 1
      <4> HIDE DEF S
      <4> QED BY <2>6, <3>2, <3>3
    <3> QED BY <3>1, <3>2, <3>3, <3>4
  <2>8. rows[f].next \in Deliveries(zone, f, hour, t + 1, rows[f].next)
    <3>1. S(e) \in t + 1 .. S(e) /\ DayOf(zone, S(e)) = e
      <4>1. S(e) \in Int /\ S(e) > t /\ DayOf(zone, S(e)) = e
        BY <2>5, <2>6
      <4> HIDE DEF S
      <4> QED BY <4>1
    <3>2. e \in DayOf(zone, t + 1) - 1 .. DayOf(zone, S(e)) + 1
      BY <2>7, <3>1
    <3>3. S(e) \in Deliveries(zone, f, hour, t + 1, S(e))
      BY <2>6, <3>1, <3>2, Zenon DEF Deliveries, DeliveryDay, Slot
    <3> QED BY <2>4, <3>3
  <2>9. Deliveries(zone, f, hour, t + 1, rows[f].next - 1) = {}
    <3> SUFFICES ASSUME NEW x \in Deliveries(zone, f, hour, t + 1, S(e) - 1) PROVE FALSE
      BY <2>4
    <3>1. DayOf(zone, S(e) - 1) \in Int
      <4>1. S(e) - 1 \in Int
        BY <2>5
      <4> QED BY <2>1, <4>1, DateType
    <3>2. PICK d \in DayOf(zone, t + 1) - 1 .. DayOf(zone, S(e) - 1) + 1 :
            /\ (f = "weekly" => d % 7 = 0) /\ (f = "monthly" => d \in Firsts)
            /\ S(d) \in t + 1 .. S(e) - 1
      BY Zenon DEF Deliveries, Slot
    <3>3. d \in Int /\ DeliveryDay(f, d)
      BY <2>7, <3>1, <3>2 DEF DeliveryDay
    <3>4. S(d) > t /\ S(d) < S(e)
      <4>1. S(d) \in Int /\ S(e) \in Int
        BY <2>5, <3>3
      <4> HIDE DEF S
      <4> QED BY <3>2, <4>1
    <3>5. d < e
      BY <2>1, <2>2, <3>3, <3>4, SlotsInOrder
    <3> QED BY <2>6, <3>3, <3>4, <3>5
  <2> QED BY <2>2, <2>8, <2>9
<1>4. SchedulesTypeOK /\ (MonthsGoOn => NextInv) => (MonthsGoOn => NextIsFirst)
  BY <1>3
<1> QED BY <1>1, <1>2, <1>4, SchedulesTypeSafe, PTL DEF Spec
=============================================================================
