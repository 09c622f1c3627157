----------------------------- MODULE HealthScore -----------------------------
(***************************************************************************)
(* calculateDeviceHealthScore (server/src/modules/health/health-scorer.ts):*)
(* a device's score of 0 to 100, from what is known of it.  A fact tells   *)
(* apart just the cases the code tells apart.                              *)
(***************************************************************************)
EXTENDS Integers, FiniteSets, FiniteSetsExt

Level == {"normal", "bad", "critical"}
Facts == [cpu : Level, memory : Level, disk : Level, smart : BOOLEAN, antivirus : BOOLEAN,
          firewall : BOOLEAN, reboot : BOOLEAN, hotfixes : BOOLEAN, incidents : 0..2,
          smallMemory : BOOLEAN, oneCore : BOOLEAN]

\* A reason to take points: what it costs its category, and what it is said to cost.
Penalty(code, category, cost, points) ==
  [code |-> code, category |-> category, cost |-> cost, points |-> points]

When(condition, penalty) == IF condition THEN {penalty} ELSE {}

LoadPenalties(f) == UNION {
  When(f.cpu = "critical",    Penalty("CPU_CRITICAL_LOAD", "performance", 50, 10)),
  When(f.cpu = "bad",         Penalty("CPU_HIGH_LOAD", "performance", 25, 5)),
  When(f.memory = "critical", Penalty("RAM_CRITICAL", "performance", 50, 10)),
  When(f.memory = "bad",      Penalty("RAM_LOW", "performance", 25, 5)),
  When(f.smart,               Penalty("SMART_DEGRADED", "storage", 70, 15)),
  When(f.disk = "critical",   Penalty("DISK_CRITICAL_SPACE", "storage", 50, 10)),
  When(f.disk = "bad",        Penalty("DISK_LOW_SPACE", "storage", 25, 5))}

PosturePenalties(f) == UNION {
  When(~f.antivirus, Penalty("AV_DISABLED", "security", 75, 15)),
  When(~f.firewall,  Penalty("FIREWALL_DISABLED", "security", 25, 5)),
  When(f.reboot,     Penalty("REBOOT_PENDING", "updates", 65, 10)),
  When(~f.hotfixes,  Penalty("UPDATES_STALE", "updates", 35, 5))}

StabilityPenalties(f, status) == UNION {
  When(status # "ONLINE", Penalty("DEVICE_OFFLINE", "stability", 80, 15)),
  When(f.incidents = 2,   Penalty("MULTIPLE_CRITICAL_EVENTS", "stability", 60, 10)),
  When(f.incidents = 1,   Penalty("CRITICAL_SYSTEM_EVENT", "stability", 30, 5)),
  When(f.smallMemory,     Penalty("LOW_PHYSICAL_RAM", "hardware", 50, 5)),
  When(f.oneCore,         Penalty("LOW_CPU_CORES", "hardware", 50, 5))}

Penalties(f, status) == LoadPenalties(f) \cup PosturePenalties(f) \cup StabilityPenalties(f, status)

CostOf(penalties, category) ==
  MapThenSumSet(LAMBDA p : p.cost, {p \in penalties : p.category = category})

\* Mutant: a category is not cut off at 0.
UnboundedSubscore(penalties, category) == 100 - CostOf(penalties, category)

Subscore(penalties, category) ==
  LET s == 100 - CostOf(penalties, category) IN IF s < 0 THEN 0 ELSE s

\* Math.round of the weighted sum; the weights are percentages.
Overall(penalties) ==
  LET S(category) == Subscore(penalties, category) IN
  (20 * S("performance") + 20 * S("storage") + 20 * S("security")
     + 15 * S("updates") + 15 * S("stability") + 10 * S("hardware") + 50) \div 100

Verdict(overall, status) ==
  IF overall < 70 \/ status # "ONLINE" THEN "CRITICAL"
  ELSE IF overall < 90 THEN "WARNING" ELSE "OPTIMAL"

Score(f, status) ==
  LET penalties == Penalties(f, status)
      overall   == Overall(penalties) IN
  [overall |-> overall, penalties |-> penalties, status |-> Verdict(overall, status)]

PointsOf(penalties) == MapThenSumSet(LAMBDA p : p.points, penalties)
==============================================================================
