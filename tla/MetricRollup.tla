---------------------------- MODULE MetricRollup ----------------------------
(***************************************************************************)
(* What becomes of the metrics of a device (server/src/jobs): the agent's  *)
(* samples are stored raw, jobs on timers roll them up by hour and by day, *)
(* and a clean-up forgets what is old.                                     *)
(*                                                                         *)
(* A rollup is represented by the raw rows that are counted in it: its     *)
(* averages, maxima and sample count are functions of them.  A job reads   *)
(* in one step and writes in another, and a timer does not wait for the    *)
(* run before it.                                                          *)
(***************************************************************************)
EXTENDS Integers, FiniteSets

CONSTANTS
  Sample,       \* samples the agent takes
  HourlyJob,    \* runs of the hourly aggregation that may overlap
  DailyJob,     \* runs of the daily aggregation that may overlap
  CleanupJob,   \* runs of the clean-up
  HoursPerDay,
  RawKept, HourlyKept, DailyKept,  \* retention, in hours
  MaxHour,      \* bound: hours
  Studies       \* bound: samples, their copies, hours, outages and runs at once to study

ASSUME JobAssumption ==
  /\ HourlyJob \cap DailyJob = {} /\ (HourlyJob \cup DailyJob) \cap CleanupJob = {}
ASSUME RetentionAssumption ==
  /\ HoursPerDay \in Nat \ {0, 1}
  /\ RawKept \in Nat /\ HourlyKept \in Nat /\ DailyKept \in Nat
  /\ 2 <= RawKept /\ RawKept <= HourlyKept /\ HourlyKept <= DailyKept
  /\ 2 * HoursPerDay <= HourlyKept
ASSUME BoundAssumption ==
  /\ MaxHour \in Nat
  /\ Studies \subseteq [samples : Nat, copies : {1, 2}, hours : 0..MaxHour, outages : Nat, runs : Nat]

Hour == 0..MaxHour
DayOf(h) == h \div HoursPerDay
Day  == 0..DayOf(MaxHour)
Job  == HourlyJob \cup DailyJob \cup CleanupJob

\* A raw row: a sample, and how often it had been stored before.
Row == Sample \X {1, 2}

VARIABLES
  study,    \* what is studied in this behaviour
  taken,    \* hour in which each sample was taken, or -1
  unsent,   \* samples the agent has to send
  raw,      \* DeviceMetric rows
  hourly,   \* DeviceMetricHourly rows: raw rows counted for each hour
  daily,    \* DeviceMetricDaily rows
  runs,     \* runs of jobs under way
  now,      \* the hour
  up,       \* the server is up
  ran,      \* aggregations that ran from start to end in this hour
  timely,   \* history: rows stored in the hour in which they were taken
  raced,    \* history: aggregations that write what another wrote since they read
  outdated, \* history: days whose rollup was written by such a run
  outages   \* history: hours in which the server was down at some time

agentVars == <<study, taken, unsent>>
ghostVars == <<timely, raced, outdated, outages>>
rollupVars == <<agentVars, raw, hourly, daily, runs, now, up, ran, ghostVars>>

NoRun == [phase |-> "idle", bucket |-> 0, rows |-> {}, fresh |-> FALSE]

RollupInit ==
  /\ study \in Studies
  /\ taken = [s \in Sample |-> -1] /\ unsent = {}
  /\ raw = {} /\ timely = {}
  /\ hourly = [h \in Hour |-> {}] /\ daily = [d \in Day |-> {}]
  /\ runs = [j \in Job |-> NoRun]
  /\ now = 0 /\ up = TRUE /\ ran = {} /\ raced = {} /\ outdated = {} /\ outages = {}

-----------------------------------------------------------------------------
(* Samples                                                                  *)

TakeSample(s) ==
  /\ taken[s] = -1 /\ Cardinality({q \in Sample : taken[q] # -1}) < study.samples
  /\ taken' = [taken EXCEPT ![s] = now] /\ unsent' = unsent \cup {s}
  /\ UNCHANGED <<study, raw, hourly, daily, runs, now, up, ran, ghostVars>>

\* POST /agent/metrics.  The row has no key that would make it unique: an agent
\* that does not get the answer sends the sample again, and it is stored again.
StoreSample(s) ==
  /\ up /\ s \in unsent
  /\ \E n \in 1..study.copies :
       /\ \A m \in {1, 2} : m < n => <<s, m>> \in raw \cup timely
       /\ <<s, n>> \notin raw \cup timely
       /\ raw' = raw \cup {<<s, n>>}
       /\ timely' = timely \cup (IF taken[s] = now THEN {<<s, n>>} ELSE {})
       /\ \/ unsent' = unsent \ {s}
          \/ n = 1 /\ UNCHANGED unsent
  /\ UNCHANGED <<study, taken, hourly, daily, runs, now, up, ran, raced, outdated, outages>>

-----------------------------------------------------------------------------
(* Jobs                                                                     *)

\* Mutant: each run aggregates the day that is under way.
TargetToday == DayOf(now)

\* The last full hour, and yesterday.
TargetHour == now - 1
TargetDay  == DayOf(now) - 1

\* A timer starts a run.
Starts(j) ==
  up /\ runs[j] = NoRun /\ Cardinality({i \in Job : runs[i] # NoRun}) < study.runs

RowsOf(h) == {r \in raw : taken[r[1]] = h}

\* aggregateHourlyMetrics
HourlyRead(j) ==
  /\ Starts(j) /\ TargetHour >= 0
  /\ runs' = [runs EXCEPT ![j] = [phase |-> "write", bucket |-> TargetHour,
                                  rows |-> RowsOf(TargetHour), fresh |-> TRUE]]
  /\ UNCHANGED <<agentVars, raw, hourly, daily, now, up, ran, ghostVars>>

Ended(j, kind) ==
  /\ runs' = [runs EXCEPT ![j] = NoRun]
  /\ ran' = IF runs[j].fresh THEN ran \cup {kind} ELSE ran

\* The other runs of the job that read before j wrote what it has.
Overtaken(j, job) ==
  {i \in job \ {j} : /\ runs[i].phase = "write" /\ runs[i].bucket = runs[j].bucket
                     /\ runs[j].rows # {}}

HourlyWrite(j) ==
  /\ runs[j].phase = "write"
  /\ hourly' = IF runs[j].rows = {} THEN hourly ELSE [hourly EXCEPT ![runs[j].bucket] = runs[j].rows]
  /\ Ended(j, "hourly")
  /\ raced' = (raced \ {j}) \cup Overtaken(j, HourlyJob)
  /\ UNCHANGED <<agentVars, raw, daily, now, up, timely, outdated, outages>>

\* aggregateDailyMetrics: the rows of the hours, each with its weight.
DailyRead(j) ==
  LET hours == {h \in Hour : DayOf(h) = TargetDay} IN
  /\ Starts(j) /\ TargetDay >= 0
  /\ runs' = [runs EXCEPT ![j] = [phase |-> "write", bucket |-> TargetDay,
                                  rows |-> UNION {hourly[h] : h \in hours}, fresh |-> TRUE]]
  /\ UNCHANGED <<agentVars, raw, hourly, daily, now, up, ran, ghostVars>>

DailyWrite(j) ==
  /\ runs[j].phase = "write"
  /\ daily' = IF runs[j].rows = {} THEN daily ELSE [daily EXCEPT ![runs[j].bucket] = runs[j].rows]
  /\ Ended(j, "daily")
  /\ raced' = (raced \ {j}) \cup Overtaken(j, DailyJob)
  /\ outdated' = CASE runs[j].rows = {} -> outdated
                   [] runs[j].rows # {} /\ j \in raced -> outdated \cup {runs[j].bucket}
                   [] OTHER -> outdated \ {runs[j].bucket}
  /\ UNCHANGED <<agentVars, raw, hourly, now, up, timely, outages>>

\* runRetentionCleanup: one table after the other, by the time it started.
\* Mutant: the raw rows go as soon as their hour is over.
RawOfThePast == {r \in raw : taken[r[1]] < now}

OldRaw == {r \in raw : taken[r[1]] < now - RawKept}

CleanupRaw(j) ==
  /\ Starts(j)
  /\ raw' = raw \ OldRaw
  /\ runs' = [runs EXCEPT ![j] = [NoRun EXCEPT !.phase = "hourly", !.bucket = now]]
  /\ UNCHANGED <<agentVars, hourly, daily, now, up, ran, ghostVars>>

CleanupHourly(j) ==
  /\ runs[j].phase = "hourly"
  /\ hourly' = [h \in Hour |-> IF h < runs[j].bucket - HourlyKept THEN {} ELSE hourly[h]]
  /\ runs' = [runs EXCEPT ![j].phase = "daily"]
  /\ UNCHANGED <<agentVars, raw, daily, now, up, ran, ghostVars>>

\* A day is forgotten when its first hour is too old.
CleanupDaily(j) ==
  /\ runs[j].phase = "daily"
  /\ daily' = [d \in Day |-> IF d * HoursPerDay < runs[j].bucket - DailyKept THEN {} ELSE daily[d]]
  /\ runs' = [runs EXCEPT ![j] = NoRun]
  /\ UNCHANGED <<agentVars, raw, hourly, now, up, ran, ghostVars>>

-----------------------------------------------------------------------------
(* Time                                                                     *)

\* The timers fire every ten minutes and every hour: in an hour in which the server
\* is up all the time each aggregation that has something to aggregate runs.
Required == (IF TargetHour >= 0 THEN {"hourly"} ELSE {}) \cup (IF TargetDay >= 0 THEN {"daily"} ELSE {})

HourPasses ==
  /\ now < study.hours
  /\ Required \subseteq ran \/ now \in outages
  /\ up \/ Cardinality(outages) < study.outages
  /\ now' = now + 1 /\ ran' = {}
  /\ runs' = [j \in Job |-> [runs[j] EXCEPT !.fresh = FALSE]]
  /\ outages' = IF up THEN outages ELSE outages \cup {now + 1}
  /\ UNCHANGED <<agentVars, raw, hourly, daily, up, timely, raced, outdated>>

\* The server stops, or all its jobs fail, until it is started again.
ServerStops ==
  /\ up /\ Cardinality(outages) < study.outages
  /\ up' = FALSE /\ outages' = outages \cup {now}
  /\ runs' = [j \in Job |-> NoRun] /\ raced' = {}
  /\ UNCHANGED <<agentVars, raw, hourly, daily, now, ran, timely, outdated>>

ServerStarts ==
  /\ ~up /\ up' = TRUE
  /\ UNCHANGED <<agentVars, raw, hourly, daily, runs, now, ran, ghostVars>>

RollupNext ==
  \/ \E s \in Sample : TakeSample(s) \/ StoreSample(s)
  \/ \E j \in HourlyJob : HourlyRead(j) \/ HourlyWrite(j)
  \/ \E j \in DailyJob : DailyRead(j) \/ DailyWrite(j)
  \/ \E j \in CleanupJob : CleanupRaw(j) \/ CleanupHourly(j) \/ CleanupDaily(j)
  \/ HourPasses \/ ServerStops \/ ServerStarts

RollupSpec == RollupInit /\ [][RollupNext]_rollupVars

-----------------------------------------------------------------------------
(* Properties                                                               *)

\* The values the code can put in each table and in each run: a rollup counts
\* samples of its own hour, or of its own day.
RollupTypeOK ==
  /\ study \in Studies /\ taken \in [Sample -> {-1} \cup Hour] /\ unsent \subseteq Sample
  /\ raw \subseteq Row /\ timely \subseteq Row
  /\ hourly \in [Hour -> SUBSET Row] /\ daily \in [Day -> SUBSET Row]
  /\ \A h \in Hour : \A r \in hourly[h] : taken[r[1]] = h
  /\ \A d \in Day : \A r \in daily[d] : DayOf(taken[r[1]]) = d
  /\ runs \in [Job -> [phase : {"idle", "write", "hourly", "daily"}, bucket : Hour,
                       rows : SUBSET Row, fresh : BOOLEAN]]
  /\ now \in Hour /\ up \in BOOLEAN /\ ran \subseteq {"hourly", "daily"}
  /\ raced \subseteq HourlyJob \cup DailyJob /\ outdated \subseteq Day /\ outages \subseteq Hour

\* What was stored in the hour it is about is counted in that hour from the end
\* of the next hour on, however runs of the aggregation overlap, unless the
\* server was down in that next hour, until the rollup is forgotten.
HourlyIsComplete ==
  \A r \in timely :
    LET h == taken[r[1]] IN
    now >= h + 2 /\ h + 1 \notin outages /\ h >= now - HourlyKept => r \in hourly[h]

\* The same for the day: by the end of the next day, whose runs come after the
\* one that counts the last hour, unless the last to write it was a run that read
\* before another run wrote.
DailyIsComplete ==
  \A r \in timely :
    LET h == taken[r[1]]
        over == (DayOf(h) + 2) * HoursPerDay
    IN  now >= over /\ (h + 1)..(over - 1) \cap outages = {}
          /\ DayOf(h) * HoursPerDay >= now - DailyKept /\ DayOf(h) \notin outdated
            => r \in daily[DayOf(h)]

\* A metric that was stored in time is in the rollups that are about it.
RollupsAreComplete == RollupTypeOK /\ HourlyIsComplete /\ DailyIsComplete

\* A later rollup of an hour counts what an earlier one counted, also after the
\* clean-up, unless its run overlapped with another run.
RollupsGrow ==
  [][\A h \in Hour :
       hourly[h] \subseteq hourly'[h] \/ h < now - HourlyKept
       \/ \E j \in raced \cap HourlyJob : runs[j].bucket = h /\ runs'[j] = NoRun]_rollupVars

=============================================================================
