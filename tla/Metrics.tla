------------------------------ MODULE Metrics ------------------------------
(***************************************************************************)
(* The metrics of one capsule: the agent's ring of samples with its three    *)
(* tiers (pkg/sandbox/metrics.go), the sampler that fills it, and the table   *)
(* sandbox_metric_points the control plane flushes it into.  A sample is its  *)
(* timestamp and one of its integer readings (memory).                      *)
(***************************************************************************)
EXTENDS Integers, Sequences, Functions

CONSTANTS
    Cap10m, Cap2h, Cap24h,      \* capacity of each tier
    Every2h, Every24h,          \* points averaged into one of the next tier
    Readings                    \* values a sample may have

ASSUME MetricsAssumption ==
    /\ {Cap10m, Cap2h, Cap24h, Every2h, Every24h} \subseteq Nat \ {0}
    /\ Readings \subseteq Nat

VARIABLES
    ring,       \* the ring buffers
    sampling,   \* the sampler goroutine runs
    taken,      \* samples ever taken: the clock of the sampler
    hist,       \* what was pushed since the ring was last empty
    run,        \* what was sampled since the sampler last started
    points      \* table sandbox_metric_points: a set of <<tier, point>>

NoPoint == [ts |-> 0, mem |-> 0]
EmptyTier(cap) == [buf |-> [i \in 0..(cap - 1) |-> NoPoint], idx |-> 0, count |-> 0]
newMetricsRing == [t10m |-> EmptyTier(Cap10m), t2h |-> EmptyTier(Cap2h), t24h |-> EmptyTier(Cap24h),
                   acc1s |-> <<>>, acc30s |-> <<>>]

Put(t, cap, p) == [buf |-> [t.buf EXCEPT ![t.idx] = p], idx |-> (t.idx + 1) % cap,
                   count |-> IF t.count < cap THEN t.count + 1 ELSE t.count]

\* int64(float64(sum) / n): the average is truncated; the timestamp is the last point's.
averagePoints(pts) == [ts |-> pts[Len(pts)].ts, mem |-> FoldFunction(LAMBDA p, s : s + p.mem, 0, pts) \div Len(pts)]

push24h(r, p) == [r EXCEPT !.t24h = Put(@, Cap24h, p)]

push2h(r, p) ==
    LET acc == Append(r.acc30s, p)
        put == [r EXCEPT !.t2h = Put(@, Cap2h, p)]
    IN IF Len(acc) = Every24h THEN push24h([put EXCEPT !.acc30s = <<>>], averagePoints(acc))
       ELSE [put EXCEPT !.acc30s = acc]

Push(r, p) ==
    LET acc == Append(r.acc1s, p)
        put == [r EXCEPT !.t10m = Put(@, Cap10m, p)]
    IN IF Len(acc) = Every2h THEN push2h([put EXCEPT !.acc1s = <<>>], averagePoints(acc))
       ELSE [put EXCEPT !.acc1s = acc]

\* The last count points in chronological order.
readRing(t, cap) == [i \in 1..t.count |-> t.buf[(((t.idx - t.count + cap) % cap) + i - 1) % cap]]

Get10m(r) == readRing(r.t10m, Cap10m)
Get2h(r) == readRing(r.t2h, Cap2h)
Get24h(r) == readRing(r.t24h, Cap24h)

\* Flush: every tier is read, then indexes, counts and accumulators start over.
Flushed(r) == [t10m |-> [r.t10m EXCEPT !.idx = 0, !.count = 0], t2h |-> [r.t2h EXCEPT !.idx = 0, !.count = 0],
               t24h |-> [r.t24h EXCEPT !.idx = 0, !.count = 0], acc1s |-> <<>>, acc30s |-> <<>>]

\* startSampler: a new ring and a new goroutine.
startSampler == ring' = newMetricsRing /\ hist' = <<>> /\ run' = <<>> /\ sampling' = TRUE

\* One tick of samplerLoop.
samplerLoop ==
    /\ sampling /\ taken' = taken + 1
    /\ \E m \in Readings :
         LET p == [ts |-> taken', mem |-> m]
         IN ring' = Push(ring, p) /\ hist' = Append(hist, p) /\ run' = Append(run, p)
    /\ UNCHANGED <<sampling, points>>

stopSampler == sampling' = FALSE

FlushMetrics == stopSampler /\ ring' = Flushed(ring) /\ hist' = <<>>

\* InsertSandboxMetricPoint for each point of a tier: ON CONFLICT (ts) DO NOTHING.
persistMetricPoints(rows, tier, pts) ==
    rows \cup {<<tier, pts[i]>> : i \in {j \in DOMAIN pts : ~\E q \in rows : q[1] = tier /\ q[2].ts = pts[j].ts}}

\* flushAndPersistMetrics, of every tier before a pause and of the coarsest before a destroy.
Persisted(allTiers) ==
    LET fine == persistMetricPoints(persistMetricPoints(points, "10m", Get10m(ring)), "2h", Get2h(ring))
    IN persistMetricPoints(IF allTiers THEN fine ELSE points, "24h", Get24h(ring))

DeleteSandboxMetricPointsByTier(rows, tier) == {q \in rows : q[1] # tier}

\* getFromDB: the stored points of a tier that are recent enough.
GetSandboxMetricPoints(tier, since) == {q[2] : q \in {r \in points : r[1] = tier /\ r[2].ts >= since}}

LastN(s, n) == SubSeq(s, IF Len(s) > n THEN Len(s) - n + 1 ELSE 1, Len(s))

\* What a tier should hold: the averages of consecutive groups of n points.
Groups(s, n) == [g \in 1..(Len(s) \div n) |-> averagePoints(SubSeq(s, (g - 1) * n + 1, g * n))]

\* The three tiers hold exactly the latest samples and their averages, in
\* chronological order, however often they wrapped or were flushed
\* (metricsRing.Push, readRing, Flush).
TiersExact ==
    /\ Get10m(ring) = LastN(hist, Cap10m)
    /\ Get2h(ring) = LastN(Groups(hist, Every2h), Cap2h)
    /\ Get24h(ring) = LastN(Groups(Groups(hist, Every2h), Every24h), Cap24h)
=============================================================================
