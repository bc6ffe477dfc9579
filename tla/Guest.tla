------------------------------- MODULE Guest -------------------------------
(***************************************************************************)
(* What goes in and out of one running capsule, and what a pause does to it: *)
(* proxied requests (ConnTracker), an interactive terminal (Terminal), file    *)
(* transfers and commands (Transfers), the activity that keeps the capsule     *)
(* from expiring, its metrics (Metrics) and its team's usage (Usage).         *)
(*                                                                         *)
(* The agent's part of a lifecycle call runs under the capsule's lifecycle    *)
(* lock (task); the control plane's part runs before and after it (call).     *)
(* The steps of Pause that SandboxManager and PauseStore are about are one    *)
(* step here.  A scenario (mix) says what may happen.                        *)
(***************************************************************************)
EXTENDS ConnTracker, Terminal, Transfers, Metrics, Usage

CONSTANTS
    TTL,            \* TimeoutSec, in sampling intervals
    Debounce,       \* busyDebounceSamples
    MaxNow,         \* bound: the last tick of the clock
    MaxPerTick      \* bound: usage snapshots in a tick

ASSUME GuestAssumption == TTL \in Nat \ {0} /\ Debounce \in Nat \ {0} /\ {MaxNow, MaxPerTick} \subseteq Nat

VARIABLES
    row,        \* sandboxes.status in the control plane's database
    cached,     \* the control plane's proxy has the capsule's host cached
    status,     \* the agent's status of the capsule
    vm,         \* "up", "frozen" or "gone"
    loading,    \* the memory loader of a resume still runs
    act,        \* idle: intervals since LastActiveAt; streak; due: a sample is due; run: intervals in a row found busy
    listed,     \* the reaper: "no", "yes" when its list holds the capsule, "failed" when its pause failed
    task,       \* holder of the lifecycle lock and how far it is
    call,       \* the control plane's lifecycle call: its kind, how far, the status before it
    done,       \* lifecycle calls finished
    lost,       \* samples were flushed but never stored
    cp          \* the control plane runs

connVars == <<tracker, conn, cached>>
metricVars == <<ring, sampling, taken, hist, run, points, lost>>
usageVars == <<now, snaps, daily, used, rolled, cp>>
lifeVars == <<row, status, vm, loading, task, call, done>>
vars == <<mix, connVars, pty, xf, metricVars, usageVars, lifeVars, act, listed>>

\* What a scenario may say.
Scenario ==
    [requests : SUBSET Conns, served : BOOLEAN, fails : BOOLEAN, expires : BOOLEAN, pings : BOOLEAN, samples : Nat,
     ticks : 0..MaxNow, terminal : BOOLEAN, leaves : BOOLEAN, before : Nat,
     frames : Seq({"key", "resize", "kill", "junk"}), calls : Seq({"pause", "resume", "destroy"}),
     transfer : {"none", "upload", "download", "exec", "run"}, size : Nat]

NoTask == [by |-> "none", pc |-> "none"]
NoCall == [kind |-> "none", at |-> "none", prev |-> "none"]

GuestInit ==
    /\ tracker = [draining |-> FALSE, ctx |-> IF mix.served THEN "live" ELSE "nil"]
    /\ conn = [c \in Conns |-> [pc |-> "idle", ctx |-> "none"]]
    /\ pty = NoSession /\ xf = NewTransfer(mix.transfer, mix.size)
    /\ ring = newMetricsRing /\ sampling = TRUE /\ hist = <<>> /\ run = <<>> /\ points = {}
    /\ taken = 0 /\ lost = FALSE
    /\ now = 0 /\ snaps = <<>> /\ daily = {} /\ rolled = {} /\ cp = TRUE
    /\ used = [d \in 0..Day(MaxNow) |-> [cpu |-> 0, mem |-> 0]]
    /\ row = "running" /\ cached = FALSE /\ status = "running" /\ vm = "up" /\ loading = FALSE
    /\ act = [idle |-> 0, streak |-> 0, due |-> FALSE, run |-> 0]
    /\ listed = "no" /\ task = NoTask /\ call = NoCall /\ done = 0

-----------------------------------------------------------------------------
(* Proxied requests                                                         *)

\* proxyTarget: the cached host, whatever became of the capsule since; when there is
\* no entry or it expired, the host of a capsule the database shows running.
proxyTarget(c) ==
    /\ c \in mix.requests /\ At(c, "idle")
    /\ \/ cached /\ Goto(c, "routed") /\ UNCHANGED cached
       \/ row = "running" /\ Goto(c, "routed") /\ cached' = TRUE
       \/ row # "running" /\ Goto(c, "refused") /\ UNCHANGED cached
    /\ UNCHANGED <<mix, xf, tracker, pty, metricVars, usageVars, lifeVars, act, listed>>

\* The agent does not answer: the cache entry is dropped (evictProxyCache).
evictProxyCache(c) ==
    /\ mix.fails /\ At(c, "routed")
    /\ Goto(c, "refused") /\ cached' = FALSE
    /\ UNCHANGED <<mix, xf, tracker, pty, metricVars, usageVars, lifeVars, act, listed>>

\* AcquireProxyConn: the status is read under the lock, the tracker asked after it.
AcquireProxyConn(c) ==
    /\ At(c, "routed")
    /\ IF status = "running" THEN Goto(c, "found") ELSE Goto(c, "refused")
    /\ UNCHANGED <<mix, xf, tracker, cached, pty, metricVars, usageVars, lifeVars, act, listed>>

TrackerAcquires(c) ==
    Acquire(c) /\ UNCHANGED <<mix, xf, cached, pty, metricVars, usageVars, lifeVars, act, listed>>

\* An admitted request counts as activity.
ProxyBumps(c) ==
    /\ At(c, "counted") /\ Goto(c, "bumped")
    /\ act' = [act EXCEPT !.idle = 0]
    /\ UNCHANGED <<mix, xf, tracker, cached, pty, metricVars, usageVars, lifeVars, listed>>

ProxyServes(c) ==
    Context(c) /\ UNCHANGED <<mix, xf, cached, pty, metricVars, usageVars, lifeVars, act, listed>>

\* The guest answers, or its end of the connection is gone.
ProxyAnswered(c) ==
    /\ At(c, "proxied") /\ vm \in {"up", "gone"}
    /\ Release(c, "done")
    /\ UNCHANGED <<mix, xf, cached, pty, metricVars, usageVars, lifeVars, act, listed>>

\* The request's context is cancelled with the tracker's.
ProxyAborted(c) ==
    /\ At(c, "proxied") /\ conn[c].ctx = "dead"
    /\ Release(c, "aborted")
    /\ UNCHANGED <<mix, xf, cached, pty, metricVars, usageVars, lifeVars, act, listed>>

-----------------------------------------------------------------------------
(* Activity and expiry                                                      *)

\* Time passes: one sampling interval, at whose end a sample is due.
Interval ==
    /\ mix.expires /\ ~act.due /\ act.idle <= TTL
    /\ act' = [act EXCEPT !.idle = @ + 1, !.due = TRUE]
    /\ UNCHANGED <<mix, xf, connVars, pty, metricVars, usageVars, lifeVars, listed>>

\* Mutant: the timer is refreshed only when the streak reaches the threshold.
applyBusyOnce(streak, busy) ==
    IF ~busy THEN <<0, FALSE>> ELSE <<IF streak < Debounce THEN streak + 1 ELSE streak, streak + 1 = Debounce>>

applyBusySample(streak, busy) ==
    IF ~busy THEN <<0, FALSE>>
    ELSE IF streak + 1 >= Debounce THEN <<Debounce, TRUE>> ELSE <<streak + 1, FALSE>>

\* sampleActivity and pollAndBump: a poll that fails counts as an idle one.
sampleActivity ==
    /\ act.due
    /\ \/ /\ status = "running" /\ ~loading
          /\ \E busy \in BOOLEAN :
               LET s == applyBusySample(act.streak, busy)
               IN act' = [idle |-> IF s[2] THEN 0 ELSE act.idle, streak |-> s[1], due |-> FALSE,
                          run |-> IF ~busy THEN 0 ELSE IF act.run < Debounce THEN act.run + 1 ELSE act.run]
       \/ /\ status # "running" \/ loading
          /\ act' = [act EXCEPT !.due = FALSE, !.run = 0]
    /\ UNCHANGED <<mix, xf, connVars, pty, metricVars, usageVars, lifeVars, listed>>

\* Ping.
Ping ==
    /\ mix.pings /\ status = "running"
    /\ act' = [act EXCEPT !.idle = 0]
    /\ UNCHANGED <<mix, xf, connVars, pty, metricVars, usageVars, lifeVars, listed>>

\* reapExpired lists the expired capsules first and pauses them one after another.
reapExpired ==
    /\ mix.expires /\ listed = "no"
    /\ status = "running" /\ ~loading /\ act.idle > TTL
    /\ listed' = "yes"
    /\ UNCHANGED <<mix, xf, connVars, pty, metricVars, usageVars, lifeVars, act>>

-----------------------------------------------------------------------------
(* The agent's Pause, Resume and Destroy                                    *)

Holds(by, pc) == task' = [by |-> by, pc |-> pc]
Returns == task' = NoTask

\* Pause, up to the status change: it waits for the memory loader, perhaps in vain.
PauseBegins(by) ==
    /\ task = NoTask
    /\ \/ by = "call" /\ call.kind = "pause" /\ call.at = "rpc"
       \/ by = "reaper" /\ listed = "yes"
    /\ \/ /\ status = "running" /\ ~loading
          /\ status' = "pausing" /\ Holds(by, "drain") /\ UNCHANGED <<call, listed>>
       \/ /\ status # "running" \/ (loading /\ mix.fails)
          /\ Returns /\ UNCHANGED status
          /\ call' = IF by = "call" THEN [call EXCEPT !.at = IF status = "paused" THEN "ok" ELSE "failed"] ELSE call
          /\ listed' = IF by # "reaper" THEN listed ELSE IF status = "paused" THEN "no" ELSE "failed"
    /\ UNCHANGED <<mix, xf, connVars, pty, metricVars, usageVars, row, vm, loading, done, act>>

\* quiesceAndPauseCH: drain, force close, then freeze; each wait ends at its timeout at the latest.
QuiesceDrains ==
    /\ task.pc = "drain" /\ Drain /\ Holds(task.by, "force")
    /\ UNCHANGED <<mix, xf, cached, pty, metricVars, usageVars, row, status, vm, loading, call, done, act, listed>>

QuiesceForces ==
    /\ task.pc = "force" /\ ForceClose /\ Holds(task.by, "freeze")
    /\ UNCHANGED <<mix, xf, cached, pty, metricVars, usageVars, row, status, vm, loading, call, done, act, listed>>

VMFreezes ==
    /\ task.pc = "freeze"
    /\ \/ vm' = "frozen" /\ Holds(task.by, "snapshot")
       \/ mix.fails /\ UNCHANGED vm /\ Holds(task.by, "rollback")
    /\ UNCHANGED <<mix, xf, connVars, pty, metricVars, usageVars, row, status, loading, call, done, act, listed>>

\* How the pause ends for whoever asked.
Answered(ok) ==
    /\ Returns
    /\ call' = IF task.by = "call" THEN [call EXCEPT !.at = IF ok THEN "ok" ELSE "failed"] ELSE call
    /\ listed' = IF task.by # "reaper" THEN listed ELSE IF ok THEN "no" ELSE "failed"

\* The snapshot is written and the runtime released: the sampler stops, guest streams break.
SnapshotTaken ==
    /\ task.pc = "snapshot"
    /\ \/ /\ vm' = "gone" /\ status' = "paused" /\ stopSampler
          /\ pty' = StreamBroken(pty)
          /\ Answered(TRUE)
       \/ /\ mix.fails /\ Holds(task.by, "rollback")
          /\ UNCHANGED <<vm, status, sampling, pty, call, listed>>
    /\ UNCHANGED <<mix, xf, connVars, ring, taken, hist, run, points, lost, usageVars, row, loading, done, act>>

\* rollbackToRunning: the VM is resumed, or the capsule is given up.
rollbackToRunning ==
    /\ task.pc = "rollback" /\ Reset
    /\ \/ vm' = "up" /\ status' = "running" /\ UNCHANGED <<sampling, pty>>
       \/ vm' = "gone" /\ status' = "error" /\ stopSampler /\ pty' = StreamBroken(pty)
    /\ Answered(FALSE)
    /\ UNCHANGED <<mix, xf, cached, ring, taken, hist, run, points, lost, usageVars, row, loading, done, act>>

\* Resume: a new VM, a fresh tracker context, a new ring; the memory loader starts.
ResumeRuns ==
    /\ task = NoTask /\ call.kind = "resume" /\ call.at = "rpc"
    /\ \/ /\ status = "paused" /\ vm' = "up" /\ status' = "running" /\ loading' = TRUE
          /\ Reset /\ startSampler /\ lost' = FALSE
          /\ act' = [act EXCEPT !.idle = 0, !.run = 0]
          /\ call' = [call EXCEPT !.at = "ok"]
       \/ /\ mix.fails \/ status # "paused"
          /\ call' = [call EXCEPT !.at = "failed"]
          /\ UNCHANGED <<vm, status, loading, tracker, conn, ring, hist, run, sampling, lost, act>>
    /\ UNCHANGED <<mix, xf, cached, pty, taken, points, usageVars, row, task, done, listed>>

MemoryLoaded ==
    /\ loading /\ loading' = FALSE
    /\ UNCHANGED <<mix, xf, connVars, pty, metricVars, usageVars, row, status, vm, task, call, done, act, listed>>

\* Destroy: the runtime is released, the agent forgets the capsule.  The reaper
\* destroys what it could not pause.
DestroyRuns(by) ==
    /\ task = NoTask
    /\ \/ /\ by = "call" /\ call.kind = "destroy" /\ call.at = "rpc"
          /\ call' = [call EXCEPT !.at = "ok"] /\ UNCHANGED listed
       \/ by = "reaper" /\ listed = "failed" /\ listed' = "no" /\ UNCHANGED call
    /\ vm' = "gone" /\ status' = "gone" /\ loading' = FALSE /\ stopSampler
    /\ pty' = StreamBroken(pty)
    /\ UNCHANGED <<mix, xf, connVars, ring, taken, hist, run, points, lost, usageVars, row, task, done, act>>

-----------------------------------------------------------------------------
(* The control plane's lifecycle calls and metrics                          *)

Asked == IF done < Len(mix.calls) THEN mix.calls[done + 1] ELSE "none"
Transient(kind) == CASE kind = "pause" -> "pausing" [] kind = "resume" -> "resuming" [] OTHER -> "stopping"

\* Pause and Resume compare-and-set the status; Destroy sets it.
CallBegins ==
    /\ call = NoCall /\ Asked # "none"
    /\ IF \/ Asked = "pause" /\ row = "running"
          \/ Asked = "resume" /\ row = "paused"
          \/ Asked = "destroy" /\ row \notin {"stopped", "error"}
       THEN /\ row' = Transient(Asked)
            /\ call' = [kind |-> Asked, prev |-> row,
                        at |-> IF row \in {"running", "pausing"} THEN "flush" ELSE "rpc"]
            /\ UNCHANGED done
       ELSE done' = done + 1 /\ UNCHANGED <<row, call>>
    /\ UNCHANGED <<mix, xf, connVars, pty, metricVars, usageVars, status, vm, loading, task, act, listed>>

\* flushAndPersistMetrics, best effort: the call may fail, or its answer be lost.
flushAndPersistMetrics ==
    /\ call.at = "flush" /\ call' = [call EXCEPT !.at = "rpc"]
    /\ \/ /\ status # "gone" /\ FlushMetrics /\ points' = Persisted(call.kind = "pause") /\ UNCHANGED lost
       \/ /\ mix.fails /\ status # "gone" /\ FlushMetrics /\ lost' = TRUE /\ UNCHANGED points
       \/ mix.fails /\ lost' = TRUE /\ UNCHANGED <<ring, sampling, hist, points>>
       \/ status = "gone" /\ UNCHANGED <<ring, sampling, hist, points, lost>>
    /\ UNCHANGED <<mix, xf, connVars, pty, taken, run, usageVars, row, status, vm, loading, task, done, act, listed>>

\* The outcome is written; destroying a paused capsule drops its finer tiers.
CallEnds ==
    /\ call.at \in {"ok", "failed"}
    /\ row' = IF call.at = "ok"
              THEN CASE call.kind = "pause" -> "paused" [] call.kind = "resume" -> "running" [] OTHER -> "stopped"
              ELSE IF call.kind = "resume" THEN "paused" ELSE "running"
    /\ points' = IF call.kind = "destroy" /\ call.prev = "paused"
                 THEN DeleteSandboxMetricPointsByTier(DeleteSandboxMetricPointsByTier(points, "10m"), "2h")
                 ELSE points
    /\ call' = NoCall /\ done' = done + 1
    /\ UNCHANGED <<mix, xf, connVars, pty, ring, sampling, taken, hist, run, lost, usageVars, status, vm, loading, task, act, listed>>

\* The agent's auto_paused and stopped events reach the control plane.
EventConsumed ==
    /\ call = NoCall /\ row = "running" /\ task = NoTask
    /\ \/ status = "paused" /\ row' = "paused"
       \/ status = "gone" /\ row' = "stopped"
    /\ UNCHANGED <<mix, xf, connVars, pty, metricVars, usageVars, status, vm, loading, task, call, done, act, listed>>

SamplerTicks ==
    /\ taken < mix.samples /\ samplerLoop
    /\ UNCHANGED <<mix, xf, connVars, pty, lost, usageVars, lifeVars, act, listed>>

-----------------------------------------------------------------------------
(* The team's usage                                                         *)

Clock ==
    /\ now < mix.ticks /\ now' = now + 1
    /\ UNCHANGED <<mix, xf, connVars, pty, metricVars, snaps, daily, used, rolled, cp, lifeVars, act, listed>>

\* Both loops run once when the control plane starts, and at every tick of theirs after that.
UsageSampled ==
    /\ mix.ticks > 0 /\ cp /\ Len(SelectSeq(snaps, LAMBDA s : s.at = now)) < MaxPerTick /\ SamplerRun(row)
    /\ UNCHANGED <<mix, xf, connVars, pty, metricVars, cp, lifeVars, act, listed>>

UsageRolledUp ==
    /\ mix.ticks > 0 /\ cp /\ RollupRun
    /\ UNCHANGED <<mix, xf, connVars, pty, metricVars, cp, lifeVars, act, listed>>

\* The control plane stops, and starts again.
ControlPlaneRestarts ==
    /\ mix.ticks > 0 /\ mix.fails /\ cp' = ~cp
    /\ UNCHANGED <<mix, xf, connVars, pty, metricVars, now, snaps, daily, used, rolled, lifeVars, act, listed>>

-----------------------------------------------------------------------------
(* The terminal                                                             *)

PtyOnly == UNCHANGED <<mix, xf, connVars, metricVars, usageVars, lifeVars, act, listed>>
Bumps == act' = [act EXCEPT !.idle = 0]

\* runPtySession: a capsule the database shows running, and an agent that agrees (activeClient).
runPtySession ==
    /\ mix.terminal /\ pty.life = "none"
    /\ \/ row = "running" /\ status = "running" /\ vm = "up" /\ runPtyLoop(mix.before > 0) /\ Bumps
       \/ (row # "running" \/ status # "running" \/ mix.fails) /\ AttachFails /\ UNCHANGED act
    /\ UNCHANGED <<mix, xf, connVars, metricVars, usageVars, lifeVars, listed>>

\* Every call to the guest goes through activeClient, which refreshes the timer.
PtyCalls ==
    /\ \/ status = "running" /\ vm = "up" /\ SenderCalls(TRUE) /\ Bumps
       \/ (status # "running" \/ mix.fails) /\ SenderCalls(FALSE) /\ UNCHANGED act
    /\ UNCHANGED <<mix, xf, connVars, metricVars, usageVars, lifeVars, listed>>

ClientTypes == ReadFrame /\ PtyOnly
ClientGoes == mix.leaves /\ ClientLeaves /\ PtyOnly
PtyReaderEnds == ReaderEnds /\ PtyOnly
PtySenderTakes == SenderTakes /\ PtyOnly
PtyCoalesces == coalescePtyInput /\ PtyOnly
PtySenderEnds == SenderEnds /\ PtyOnly
ProcessPrints == vm = "up" /\ GuestPrints /\ PtyOnly
ProcessExits == vm = "up" /\ GuestExits /\ PtyOnly
PtyPumpShows == PumpShows /\ PtyOnly
PtyPumpEnds == PumpEnds /\ PtyOnly
PtyKeepEnds == KeepEnds /\ PtyOnly
PtyCloses == Closer /\ PtyOnly
PtyOver == SessionOver /\ PtyOnly

-----------------------------------------------------------------------------
(* Transfers and commands                                                   *)

XferOnly == UNCHANGED <<mix, connVars, pty, metricVars, usageVars, lifeVars, act, listed>>

\* The database shows the capsule running and the agent agrees, or the request is refused.
Starts(kind, activity) ==
    /\ xf.kind = kind /\ xf.at = "none"
    /\ \/ row = "running" /\ status = "running" /\ vm = "up" /\ Begin(TRUE) /\ activity
       \/ (row # "running" \/ status # "running" \/ mix.fails) /\ Begin(FALSE) /\ UNCHANGED act
    /\ UNCHANGED <<mix, connVars, pty, metricVars, usageVars, lifeVars, listed>>

\* A command counts as activity (activeClient), a file transfer does not (GetClient).
StreamUpload == Starts("upload", UNCHANGED act)
StreamDownload == Starts("download", UNCHANGED act)
runExecStream == Starts("exec", Bumps)
runExec == Starts("run", Bumps)

XferClient == mix.fails /\ (UploadBreaks \/ StreamStopped) /\ XferOnly
XferGuest == vm = "up" /\ (PumpWrites \/ GuestStores(mix.fails) \/ GuestSends) /\ XferOnly
XferBreaks == (GuestLost(vm = "gone") \/ StreamOver(vm = "gone")) /\ XferOnly
XferMoves ==
    /\ \/ UploadReads \/ UploadRefused \/ UploadAtEnd \/ UploadAnswered \/ PumpWriteFails \/ PumpDone
       \/ WriteFileStream \/ ReadFileStream \/ ExecStream \/ Exec
    /\ XferOnly

-----------------------------------------------------------------------------
ProxyStep(c) ==
    \/ proxyTarget(c) \/ evictProxyCache(c) \/ AcquireProxyConn(c) \/ TrackerAcquires(c)
    \/ ProxyBumps(c) \/ ProxyServes(c) \/ ProxyAnswered(c) \/ ProxyAborted(c)

PtyStep ==
    \/ runPtySession \/ PtyCalls \/ ClientTypes \/ ClientGoes \/ PtyReaderEnds \/ PtySenderTakes \/ PtyCoalesces
    \/ PtySenderEnds \/ ProcessPrints \/ ProcessExits \/ PtyPumpShows \/ PtyPumpEnds \/ PtyKeepEnds \/ PtyCloses
    \/ PtyOver

LifeStep ==
    \/ \E by \in {"call", "reaper"} : PauseBegins(by) \/ DestroyRuns(by)
    \/ QuiesceDrains \/ QuiesceForces \/ VMFreezes \/ SnapshotTaken \/ rollbackToRunning \/ ResumeRuns
    \/ MemoryLoaded \/ CallBegins \/ flushAndPersistMetrics \/ CallEnds \/ EventConsumed

Next ==
    \/ \E c \in Conns : ProxyStep(c)
    \/ PtyStep
    \/ StreamUpload \/ StreamDownload \/ runExecStream \/ runExec
    \/ XferClient \/ XferGuest \/ XferBreaks \/ XferMoves
    \/ LifeStep
    \/ Interval \/ sampleActivity \/ Ping \/ reapExpired
    \/ SamplerTicks
    \/ Clock \/ UsageSampled \/ UsageRolledUp \/ ControlPlaneRestarts

\* A goroutine that can go on does, and so does envd while it stores an upload.
\* Nothing makes a client, a guest process or the clock move; a process that was
\* killed does exit.
PtyPumps ==
    \/ PtyCalls \/ PtyReaderEnds \/ PtySenderEnds \/ PtyPumpEnds \/ PtyKeepEnds \/ PtyCloses \/ PtyOver
Fairness ==
    /\ \A c \in Conns : WF_vars(AcquireProxyConn(c) \/ TrackerAcquires(c) \/ ProxyBumps(c) \/ ProxyServes(c) \/ ProxyAborted(c))
    /\ WF_vars(LifeStep)
    /\ WF_vars(PtySenderTakes \/ PtyCoalesces \/ PtyCalls)
    /\ WF_vars(PtyPumpShows)
    /\ WF_vars(PtyPumps)
    /\ WF_vars(pty.guest = "killed" /\ ProcessExits)
    /\ WF_vars(XferMoves \/ XferBreaks)
    /\ WF_vars(Upload /\ XferGuest)

Spec == mix \in Scenario /\ GuestInit /\ [][Next]_vars /\ Fairness

TypeOK ==
    /\ mix \in Scenario /\ ConnTypeOK
    /\ row \in {"running", "pausing", "paused", "resuming", "stopping", "stopped"}
    /\ status \in {"running", "pausing", "paused", "error", "gone"}
    /\ vm \in {"up", "frozen", "gone"}
    /\ act \in [idle : 0..(TTL + 1), streak : 0..Debounce, due : BOOLEAN, run : 0..Debounce]
    /\ listed \in {"no", "yes", "failed"}
    /\ Len(pty.ch) <= InputBuffer /\ Len(pty.events) <= EventBuffer /\ Len(pty.pending) <= 1
    /\ {cached, loading, sampling, lost, cp} \subseteq BOOLEAN

\* When the VM is frozen for its snapshot, every proxied request that is still
\* in flight has been told to stop, the one included that was counted before the
\* drain and asked for its context only after the forced close
\* (quiesceAndPauseCH, ConnTracker.Context and ForceClose).  It needs the tracker to have handed out its context
\* before: ForceClose has nothing to cancel for the very first request of a
\* capsule while that has been counted and has not asked for its context yet.
QuietFreeze == mix.served /\ vm = "frozen" => \A c \in Conns : At(c, "proxied") => conn[c].ctx = "dead"

\* A capsule that runs and is not being paused admits requests: every way out of
\* a pause, and a resume, resets the tracker (rollbackToRunning, resumeFromMeta).
OpenWhenRunning == status = "running" => ~tracker.draining

\* The reaper never lists a capsule that each of the latest sampling intervals
\* found at work: the debounced sampler refreshes the timer again and again
\* while the work lasts (reapExpired, applyBusySample, pollAndBump).  An interval
\* without a sample, during a pause or while memory loads, starts the count over.
BusyNotExpired == [][listed = "no" /\ listed' = "yes" => act.run < Debounce]_vars

\* Unless an answer of the flush was lost, the stored history of a capsule that
\* was paused on request reaches up to the pause: nothing was sampled between
\* the flush and the end of the sampler (pauseInBackground, FlushMetrics).
MetricsKept ==
    row = "paused" /\ status = "paused" /\ ~lost /\ call = NoCall /\ ~mix.expires =>
        LET latest == LastN(run, Cap10m)
        IN {latest[i] : i \in DOMAIN latest} \subseteq GetSandboxMetricPoints("10m", 0)

\* A request that was admitted before a pause is over some time after it: it is
\* answered, or aborted by the forced close (ConnTracker.ForceClose, ServeHTTP).
RequestsEnd == \A c \in Conns : [](status = "paused" /\ mix.served => <>(~At(c, "proxied") \/ status # "paused"))

\* The agent's side of an upload returns once the client's side is over, whatever
\* became of the client or the guest: the goroutine that feeds the pipe to envd
\* and the handler that waits for it do not wait for each other
\* (WriteFileStream).
UploadReturns == [](xf.at = "over" /\ xf.pump # "off" /\ vm # "frozen" => <>(xf.reply # "none" \/ vm = "frozen"))

\* A terminal session ends, with all its goroutines, once the client left, the
\* process exited, or the capsule was paused or destroyed under it (runPtyLoop).
SessionEnds == [](pty.life = "open" /\ (~pty.client \/ pty.guest \in {"killed", "exited", "gone"}) /\ vm # "frozen"
                    => <>(pty.life = "over" \/ vm = "frozen"))

\* Proxied requests are let in while the capsule runs and are out of the way when
\* it is frozen (pkg/sandbox/conntracker.go).
TrackerSound == QuietFreeze /\ OpenWhenRunning

\* What reaches the other side of a stream is what was sent, in order and to its
\* end, or the client is not told that it is (runPtyLoop, PtyAttach, StreamUpload,
\* ExecStream), over well-typed state.
StreamsFaithful == TypeOK /\ KeysInOrder /\ InputDrained /\ OutputWhole /\ TransferHonest

\* What is reported was measured: the ring's tiers, the history flushed from it
\* and the usage a team is shown (pkg/sandbox/metrics.go, usage_rollup.go).
MeasuredExactly == TiersExact /\ MetricsKept /\ UsageExact

\* Requests, uploads and terminal sessions come to their end (ServeHTTP,
\* WriteFileStream, runPtyLoop).
StreamsEnd == RequestsEnd /\ UploadReturns /\ SessionEnds
=============================================================================
