------------------------------- MODULE Usage -------------------------------
(***************************************************************************)
(* A team's resource usage in the control plane: the snapshots sampled every  *)
(* ten seconds (internal/api/metrics_sampler.go), the daily totals rolled up  *)
(* from them (usage_rollup.go), and what the usage API answers               *)
(* (pkg/service/stats.go).  Time is a tick count, PerDay ticks to a day.      *)
(***************************************************************************)
EXTENDS Integers, Sequences, Functions

CONSTANTS
    PerDay,     \* ticks in a day
    Retain,     \* how many days of snapshots the sampler's prune keeps
    MemoryMB    \* memory of the team's capsule

ASSUME UsageAssumption == PerDay \in Nat \ {0} /\ Retain \in Nat /\ MemoryMB \in Nat

VARIABLES
    now,        \* the clock
    snaps,      \* table sandbox_metrics_snapshots, in insertion order
    daily,      \* table daily_usage: a set of [day, cpu, mem]
    used,       \* used[d]: every sample ever taken on day d, summed
    rolled      \* days on which the rollup ran

Day(t) == t \div PerDay
today == Day(now)

\* SampleSandboxMetrics: a paused capsule holds half of its memory, rounded up.
SampleSandboxMetrics(status) ==
    [at |-> now, cpu |-> IF status \in {"running", "starting"} THEN 1 ELSE 0,
     mem |-> CASE status \in {"running", "starting"} -> MemoryMB
               [] status = "paused" -> (MemoryMB + 1) \div 2
               [] OTHER -> 0]

\* Mutant: the day before yesterday is pruned as soon as it is over.
PruneEarly == SelectSeq(snaps, LAMBDA s : s.at >= now - PerDay)

PruneOldMetrics == SelectSeq(snaps, LAMBDA s : s.at >= now - Retain * PerDay)

\* MetricsSampler.run: prune, then insert what the sandboxes table shows.
SamplerRun(status) ==
    LET s == SampleSandboxMetrics(status)
    IN /\ snaps' = Append(PruneOldMetrics, s)
       /\ used' = [used EXCEPT ![today] = [cpu |-> @.cpu + s.cpu, mem |-> @.mem + s.mem]]
       /\ UNCHANGED <<now, daily, rolled>>

\* ComputeDailyUsageForDay: the samples of the half-open interval, each standing for its ten seconds.
ComputeDailyUsageForDay(from, to) ==
    LET of == SelectSeq(snaps, LAMBDA s : s.at >= from /\ s.at < to)
    IN [cpu |-> FoldFunction(LAMBDA s, n : n + s.cpu, 0, of), mem |-> FoldFunction(LAMBDA s, n : n + s.mem, 0, of)]

\* UpsertDailyUsage replaces the day's row.
UpsertDailyUsage(d, u) == {r \in daily : r.day # d} \cup {[day |-> d, cpu |-> u.cpu, mem |-> u.mem]}

\* DailyUsageRollup.run: only yesterday, and only for a team that has snapshots.
RollupRun ==
    /\ daily' = IF snaps = <<>> \/ today = 0 THEN daily
                ELSE UpsertDailyUsage(today - 1, ComputeDailyUsageForDay((today - 1) * PerDay, today * PerDay))
    /\ rolled' = rolled \cup {today}
    /\ UNCHANGED <<now, snaps, used>>

\* GetUsage: past days from the table, today from the snapshots.
GetUsage(from, to) ==
    {r \in daily : r.day >= from /\ r.day <= (IF to < today THEN to ELSE today - 1)}
    \cup IF to >= today /\ from <= today
         THEN LET u == ComputeDailyUsageForDay(today * PerDay, (today + 1) * PerDay)
              IN {[day |-> today, cpu |-> u.cpu, mem |-> u.mem]}
         ELSE {}

\* The usage API reports, for today and for every past day on whose morrow the
\* rollup ran at least once, exactly what was sampled that day: the rollup may
\* run again and again, after restarts too, and the prune must not have taken
\* from it what it recomputes (UsageService.GetUsage, DailyUsageRollup.run,
\* MetricsSampler.prune).
UsageExact ==
    \A d \in 0..today :
        (d = today \/ (d + 1) \in rolled) /\ used[d].mem > 0
            => GetUsage(d, d) = {[day |-> d, cpu |-> used[d].cpu, mem |-> used[d].mem]}
=============================================================================
