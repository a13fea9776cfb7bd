----------------------------- MODULE Schedules ------------------------------
(***************************************************************************)
(* Scheduled summaries: the rows of scheduled_summary_preferences of one   *)
(* user (store/schedules.go), the commands that write them                 *)
(* (bot/commands.go), and the runners of the notification workers          *)
(* (summaryschedule/runner.go).  A pass works from the rows it listed; each*)
(* one is processed under the user lock, as are the commands and the       *)
(* deletion of the account, so what happens under the lock is one action,  *)
(* with an action for every place where it can be cut short.               *)
(***************************************************************************)
EXTENDS Calendar, TLC

CONSTANTS
  Runners,      \* processes that run Runner.Run
  Hours,        \* delivery hours users ask for
  Instants,     \* the instants at which something happens
  BatchSize,    \* dueBatchSize
  Starts,       \* zone and schedules to begin with; bounds: the frequencies the
                \* user asks for, and how many commands and faults there are
  None

(* The calendar at the instants of the model; @@ has TLC compute it once.      *)
Table == Instants \X Zones \X Freqs \X Hours
NextAt == <<>> @@ [x \in Table |-> NextDelivery(x[1], x[2], x[3], x[4])]
LatestAt == <<>> @@ [x \in Table |-> LatestDelivery(x[1], x[2], x[3], x[4])]
PeriodAt ==
  <<>> @@ [x \in Table |-> PeriodOf(x[2], x[3], LatestDelivery(x[1], x[2], x[3], x[4]))]

(* What @@ comes to here: the prover knows no definition of it. *)
ASSUME Tabulated ==
  \A x \in Table :
    /\ NextAt[x] = NextDelivery(x[1], x[2], x[3], x[4])
    /\ PeriodAt[x] = PeriodOf(x[2], x[3], LatestDelivery(x[1], x[2], x[3], x[4]))
ASSUME HourRange == Hours \subseteq 0 .. 23
ASSUME InstantsType ==
  /\ Instants \subseteq Int /\ Instants # {}
  /\ \A S \in SUBSET Instants : S # {} => \E t \in S : \A u \in S : t <= u
ASSUME BatchIsSome == BatchSize \in Nat \ {0}
ASSUME StartType ==
  \A s \in Starts : /\ s.zone \in Zones /\ s.freqs \subseteq Freqs /\ s.asked \subseteq Freqs
                     /\ s.hour \in Hours
                     /\ s.commands \in Nat /\ s.faults \in Nat

VARIABLES
  now,      \* the wall clock of every process
  status,   \* users.status
  zone,     \* users.timezone
  rows,     \* [Freqs -> row or None]
  passes,   \* [Runners -> a pass in progress: now of the pass and rows to do]
  outbox,   \* outbound_messages of scheduled summaries
  jobs,     \* keys of outbox rows that have an outbound_send job
  advanced, \* history: keys of the summaries whose schedule was advanced
  redo,     \* a settings command that failed half way, to be delivered again
  budget    \* the commands and the failing statements and crashes to come

vars == <<now, status, zone, rows, passes, outbox, jobs, advanced, redo, budget>>

Idle == [at |-> 0, todo |-> {}]

(* A row; since is the instant its next delivery was computed for (history).  *)
Upserted(f, hour, z, t) ==
  [freq |-> f, hour |-> hour, enabled |-> TRUE, next |-> NextAt[<<t, z, f, hour>>], since |-> t]

Row == [freq : Freqs, hour : Hours, enabled : BOOLEAN, next : {NextAt[x] : x \in Table},
        since : Instants]

ASSUME NoneIsNew == None \notin Zones /\ None \notin Row

Init ==
  /\ now = Min(Instants)
  /\ status = "active"
  /\ \E s \in Starts :
       /\ zone = s.zone
       /\ rows = [f \in Freqs |-> IF f \in s.freqs THEN Upserted(f, s.hour, zone, now) ELSE None]
       /\ budget = [asked |-> s.asked, commands |-> s.commands, faults |-> s.faults]
  /\ passes = [r \in Runners |-> Idle]
  /\ outbox = {} /\ jobs = {} /\ advanced = {}
  /\ redo = None

Spend(what) == budget[what] > 0 /\ budget' = [budget EXCEPT ![what] = @ - 1]

Tick ==
  /\ \E t \in Instants : t > now
  /\ now' = Min({t \in Instants : t > now})
  /\ UNCHANGED <<status, zone, rows, passes, outbox, jobs, advanced, redo, budget>>

-----------------------------------------------------------------------------
(* Commands.  A message that failed is delivered again, by the webhook perhaps *)
(* after later ones; one such message at a time is followed.                  *)
Command == status = "active" /\ Spend("commands")

(* /tongket <frequency> <time>: UpsertSummarySchedule. *)
SetSchedule(f, hour) ==
  /\ Command /\ f \in budget.asked
  /\ rows' = [rows EXCEPT ![f] = Upserted(f, hour, zone, now)]
  /\ UNCHANGED <<now, status, zone, passes, outbox, jobs, advanced, redo>>

(* DisableSummarySchedules for one frequency or all. *)
DisableSchedules(set) ==
  /\ Command
  /\ rows' = [f \in Freqs |-> IF f \in set /\ rows[f] # None
                              THEN [rows[f] EXCEPT !.enabled = FALSE] ELSE rows[f]]
  /\ UNCHANGED <<now, status, zone, passes, outbox, jobs, advanced, redo>>

Enabled == {f \in Freqs : rows[f] # None /\ rows[f].enabled}

(* The loop of settings over the enabled rows, as far as it got. *)
Recalculated(z, done) ==
  [f \in Freqs |-> IF f \in done THEN Upserted(f, rows[f].hour, z, now) ELSE rows[f]]

(* Rows are saved in the order of ListSummarySchedules. *)
Prefixes(set) ==
  {p \in SUBSET set : \A f \in p, g \in set \ p :
     <<f, g>> \in {<<"daily", "weekly">>, <<"daily", "monthly">>, <<"weekly", "monthly">>}}

(* UpdateUserPreferences, then every enabled row. *)
SetTimezone(z) ==
  /\ zone' = z
  /\ rows' = Recalculated(z, Enabled)
  /\ UNCHANGED <<now, status, passes, outbox, jobs, advanced>>

Settings(z) == Command /\ SetTimezone(z) /\ UNCHANGED redo

(* A statement of the loop fails, or the process ends. *)
SettingsFail(z) ==
  /\ status = "active" /\ redo \in {None, z}
  /\ Spend("faults")
  /\ zone' = z
  /\ \E done \in Prefixes(Enabled) : rows' = Recalculated(z, done)
  /\ redo' = z
  /\ UNCHANGED <<now, status, passes, outbox, jobs, advanced>>

SettingsAgain ==
  /\ status = "active" /\ redo # None
  /\ SetTimezone(redo)
  /\ redo' = None
  /\ UNCHANGED budget

BeginAccountDeletion ==
  /\ Command
  /\ status' = "deleting"
  /\ UNCHANGED <<now, zone, rows, passes, outbox, jobs, advanced, redo>>

PurgeAccountData ==
  /\ status = "deleting"
  /\ status' = "deleted"
  /\ rows' = [f \in Freqs |-> None]
  /\ outbox' = {} /\ jobs' = {} /\ advanced' = {}
  /\ UNCHANGED <<now, zone, passes, redo, budget>>

-----------------------------------------------------------------------------
(* Mutant: a row is due only once its instant has passed. *)
DueLate == {rows[f] : f \in {g \in Enabled : rows[g].next < now}}

Due == {rows[f] : f \in {g \in Enabled : rows[g].next <= now}}

(* ListDueSummarySchedules: the first BatchSize by next_delivery_at. *)
Batches ==
  {b \in SUBSET Due : /\ Cardinality(b) = Min({BatchSize, Cardinality(Due)})
                      /\ \A p \in b, q \in Due \ b : p.next <= q.next}

RunOnce(r) ==
  /\ status = "active"
  /\ passes[r] = Idle /\ Due # {}
  /\ \E b \in Batches : passes' = [passes EXCEPT ![r] = [at |-> now, todo |-> b]]
  /\ UNCHANGED <<now, status, zone, rows, outbox, jobs, advanced, redo, budget>>

(* The listed row that is next in the order of the list. *)
Heads(r) == {p \in passes[r].todo : \A q \in passes[r].todo : p.next <= q.next}

Drop(r, p) ==
  LET left == passes[r].todo \ {p}
  IN  passes' = [passes EXCEPT ![r] = IF left = {} THEN Idle ELSE [at |-> @.at, todo |-> left]]

Message(key, z, p, at, period) ==
  [key |-> key, freq |-> p.freq, start |-> period.start, end |-> period.end,
   zone |-> z, hour |-> p.hour, at |-> at]

(* Mutant: the key names the delivery instead of the period. *)
SummaryByDelivery(z, p, at) ==
  Message(<<p.freq, LatestAt[<<at, z, p.freq, p.hour>>]>>, z, p, at, PeriodAt[<<at, z, p.freq, p.hour>>])

(* The message of processLocked: the zone z is read under the lock, the hour   *)
(* comes from the list and the instant from the beginning of the pass.         *)
Summary(z, p, at) ==
  LET period == PeriodAt[<<at, z, p.freq, p.hour>>]
  IN  Message(<<p.freq, period.start>>, z, p, at, period)

(* EnqueueOutbound: one row for a key. *)
Insert(m) == outbox' = IF \E o \in outbox : o.key = m.key THEN outbox ELSE outbox \cup {m}

(* Mutant: a row that exists is taken to have its job. *)
ReplyNoRepair(m) ==
  /\ Insert(m)
  /\ jobs' = IF \E o \in outbox : o.key = m.key THEN jobs ELSE jobs \cup {m.key}

(* Enqueuer.Reply: the row, then its job, also for a row that was there.      *)
Reply(m) == Insert(m) /\ jobs' = jobs \cup {m.key}

(* Mutant: the row is advanced whatever it has become. *)
AdvanceUnguarded(p, next, at) ==
  rows' = IF rows[p.freq] # None
          THEN [rows EXCEPT ![p.freq].next = next, ![p.freq].since = at] ELSE rows

AdvanceSummarySchedule(p, next, at) ==
  rows' = IF p.freq \in Enabled /\ rows[p.freq].next = p.next
          THEN [rows EXCEPT ![p.freq].next = next, ![p.freq].since = at] ELSE rows

(* The user is read again under the lock. *)
StillActive == status = "active"

ProcessLocked(r, p) ==
  /\ StillActive
  /\ LET m == Summary(zone, p, passes[r].at)
         next == NextAt[<<passes[r].at, zone, p.freq, p.hour>>]
     IN  /\ Reply(m)
         /\ AdvanceSummarySchedule(p, next, passes[r].at)
         /\ advanced' = IF rows' # rows THEN advanced \cup {m.key} ELSE advanced
  /\ Drop(r, p)
  /\ UNCHANGED <<now, status, zone, redo, budget>>

(* The account is being deleted: nothing to do. *)
SkipInactive(r, p) ==
  /\ ~StillActive
  /\ Drop(r, p)
  /\ UNCHANGED <<now, status, zone, rows, outbox, jobs, advanced, redo, budget>>

(* processLocked fails before, in the middle of or after Reply; RunOnce goes   *)
(* on with the next row of its list.                                           *)
ProcessFails(r, p) ==
  /\ Spend("faults")
  /\ LET m == Summary(zone, p, passes[r].at)
     IN  \/ UNCHANGED <<outbox, jobs>>
         \/ StillActive /\ Insert(m) /\ UNCHANGED jobs
         \/ StillActive /\ Reply(m)
  /\ Drop(r, p)
  /\ UNCHANGED <<now, status, zone, rows, advanced, redo>>

(* The process ends and begins again. *)
Crash(r) ==
  /\ passes[r] # Idle
  /\ Spend("faults")
  /\ passes' = [passes EXCEPT ![r] = Idle]
  /\ UNCHANGED <<now, status, zone, rows, outbox, jobs, advanced, redo>>

Process(r) == \E p \in Heads(r) : ProcessLocked(r, p) \/ SkipInactive(r, p)

UserStep ==
  \/ \E f \in Freqs, hour \in Hours : SetSchedule(f, hour)
  \/ \E set \in {{f} : f \in Freqs} \cup {Freqs} : DisableSchedules(set)
  \/ \E z \in Zones : Settings(z) \/ SettingsFail(z)
  \/ SettingsAgain
  \/ BeginAccountDeletion \/ PurgeAccountData

RunnerStep(r) ==
  \/ RunOnce(r) \/ Process(r) \/ Crash(r)
  \/ \E p \in Heads(r) : ProcessFails(r, p)

Next == Tick \/ UserStep \/ \E r \in Runners : RunnerStep(r)

(* The ticker of Run, passes that come to their end, and redelivery.          *)
Fairness ==
  /\ \A r \in Runners : WF_vars(RunOnce(r)) /\ WF_vars(Process(r))
  /\ WF_vars(SettingsAgain)

Spec == Init /\ [][Next]_vars /\ Fairness

-----------------------------------------------------------------------------
(* NextDelivery with AdvanceSummarySchedule and settings: what the user asked  *)
(* for is what is next. An enabled row is due at the first full hour of its    *)
(* own on the wall clock of the user's zone after it was computed, whatever    *)
(* passes worked from an older row and whatever zone it was computed in before.*)
NextIsFirst ==
  redo = None /\ status = "active" =>
    \A f \in Enabled :
      LET row == rows[f]
      IN  Regular(zone, row.hour) =>
            /\ row.next \in Deliveries(zone, f, row.hour, row.since + 1, row.next)
            /\ Deliveries(zone, f, row.hour, row.since + 1, row.next - 1) = {}

(* The idempotency key: in one zone no hour is reported on twice by summaries  *)
(* of a frequency, though two runners, retries and a changed delivery hour    *)
(* all make a second attempt at a period.                                     *)
OneSummaryPerPeriod ==
  \A m, o \in outbox :
    m # o /\ m.freq = o.freq /\ m.zone = o.zone => m.end <= o.start \/ o.end <= m.start

(* LatestDelivery: a summary is of a period that is over, and of the latest    *)
(* one: a runner that was away sends no backlog.                               *)
LatestPeriodOnly ==
  \A m \in outbox :
    Regular(m.zone, m.hour) =>
      Cardinality(Deliveries(m.zone, m.freq, m.hour, m.end, m.at)) = 1

(* Reply before Advance: a schedule moves on only once its summary has a row   *)
(* and a job to send it, also if an earlier pass ended between the two.        *)
AdvancedMeansQueued == advanced \subseteq jobs

(* Run: a due row of an active user is served, or the user changes it.         *)
DueIsServed ==
  \A f \in Freqs :
    f \in Enabled /\ rows[f].next <= now ~> f \notin Enabled \/ rows[f].next > now
                                            \/ status # "active"
=============================================================================
