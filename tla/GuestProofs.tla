---------------------------- MODULE GuestProofs ----------------------------
(***************************************************************************)
(* For any number of requests, frames, chunks and buffer sizes, and in every *)
(* scenario: requests are out of the way of a freeze, a busy capsule does    *)
(* not expire, and what streams carry arrives in order and whole.            *)
(***************************************************************************)
EXTENDS Guest, StreamProofs

(* A leaf is Zenon's unless it names SMT; each is tried again with more time. *)
USE Zenon, SlowZenon

(* A pause goes on under the capsule's lock, and the VM is frozen only then. *)
PauseInv ==
    /\ task.pc \in {"none", "drain", "force", "freeze", "snapshot", "rollback"}
    /\ task.pc # "none" => status = "pausing"
    /\ vm = "frozen" => task.pc \in {"snapshot", "rollback"}

(* Only the tracker's own context may still be cancelled, and a request that *)
(* was admitted has one.                                                    *)
ContextInv ==
    /\ tracker.ctx # "live" => \A c \in Conns : conn[c].ctx # "live"
    /\ \A c \in Conns : At(c, "proxied") => conn[c].ctx # "none"

(* The context is cancelled from the forced close of a pause to the reset   *)
(* that ends it, so that no reset takes it from a request.                  *)
Closed == status = "paused" \/ task.pc \in {"freeze", "snapshot", "rollback"}
ServedInv ==
    mix.served => /\ tracker.ctx # "nil"
                  /\ \A c \in Conns : conn[c].ctx # "lost"
                  /\ Closed => tracker.ctx = "dead"

TrackInv == ConnTypeOK /\ PauseInv /\ OpenWhenRunning /\ ContextInv /\ ServedInv

(* As long as each interval is found busy the timer does not get past one.  *)
ActInv ==
    /\ act \in [idle : 0..(TTL + 1), streak : 0..Debounce, due : BOOLEAN, run : 0..Debounce]
    /\ act.run <= act.streak
    /\ act.run = Debounce => act.idle <= IF act.due THEN 1 ELSE 0

RowOK == row \in {"running", "pausing", "paused", "resuming", "stopping", "stopped"}
StatusOK == status \in {"running", "pausing", "paused", "error", "gone"}
VMOK == vm \in {"up", "frozen", "gone"}
ListedOK == listed \in {"no", "yes", "failed"}
FlagsOK == cached \in BOOLEAN /\ loading \in BOOLEAN /\ sampling \in BOOLEAN /\ lost \in BOOLEAN /\ cp \in BOOLEAN
LifeInv == RowOK /\ StatusOK /\ VMOK /\ ListedOK /\ FlagsOK

-----------------------------------------------------------------------------
(* Which steps leave what alone                                             *)

XferStep ==
    \/ StreamUpload \/ StreamDownload \/ runExecStream \/ runExec
    \/ XferClient \/ XferGuest \/ XferBreaks \/ XferMoves
ClockStep ==
    \/ Interval \/ sampleActivity \/ Ping \/ reapExpired
    \/ SamplerTicks
    \/ Clock \/ UsageSampled \/ UsageRolledUp \/ ControlPlaneRestarts

LEMMA Steps == Next <=> (\E c \in Conns : ProxyStep(c)) \/ PtyStep \/ XferStep \/ LifeStep \/ ClockStep
  BY DEF Next, XferStep, ClockStep

Bumped == act' = act \/ act' = [act EXCEPT !.idle = 0]

LEMMA ProxyFrame ==
    ASSUME NEW c \in Conns, ProxyStep(c)
    PROVE UNCHANGED <<mix, pty, xf, metricVars, usageVars, lifeVars, listed>> /\ Bumped
<1>1. CASE proxyTarget(c)
  BY <1>1 DEF proxyTarget, Bumped
<1>2. CASE evictProxyCache(c)
  BY <1>2 DEF evictProxyCache, Bumped
<1>3. CASE AcquireProxyConn(c)
  BY <1>3 DEF AcquireProxyConn, Bumped
<1>4. CASE TrackerAcquires(c)
  BY <1>4 DEF TrackerAcquires, Bumped
<1>5. CASE ProxyBumps(c)
  BY <1>5 DEF ProxyBumps, Bumped
<1>6. CASE ProxyServes(c)
  BY <1>6 DEF ProxyServes, Bumped
<1>7. CASE ProxyAnswered(c)
  BY <1>7 DEF ProxyAnswered, Bumped
<1>8. CASE ProxyAborted(c)
  BY <1>8 DEF ProxyAborted, Bumped
<1> QED
  BY <1>1, <1>2, <1>3, <1>4, <1>5, <1>6, <1>7, <1>8 DEF ProxyStep

LEMMA PtyFrame == PtyStep => UNCHANGED <<mix, xf, connVars, metricVars, usageVars, lifeVars, listed>> /\ Bumped
<1>1. CASE runPtySession
  BY <1>1 DEF runPtySession, Bumps, Bumped
<1>2. CASE PtyCalls
  BY <1>2 DEF PtyCalls, Bumps, Bumped
<1>3. CASE PtyStep /\ ~runPtySession /\ ~PtyCalls
  <2>1. PtyOnly
    BY <1>3 DEF PtyStep, ClientTypes, ClientGoes, PtyReaderEnds, PtySenderTakes, PtyCoalesces, PtySenderEnds,
                ProcessPrints, ProcessExits, PtyPumpShows, PtyPumpEnds, PtyKeepEnds, PtyCloses, PtyOver
  <2> QED
    BY <2>1 DEF PtyOnly, Bumped
<1> QED
  BY <1>1, <1>2, <1>3

LEMMA XferFrame == XferStep => UNCHANGED <<mix, connVars, pty, metricVars, usageVars, lifeVars, listed>> /\ Bumped
<1>1. CASE StreamUpload
  BY <1>1 DEF StreamUpload, Starts, Bumped
<1>2. CASE StreamDownload
  BY <1>2 DEF StreamDownload, Starts, Bumped
<1>3. CASE runExecStream
  BY <1>3 DEF runExecStream, Starts, Bumps, Bumped
<1>4. CASE runExec
  BY <1>4 DEF runExec, Starts, Bumps, Bumped
<1>5. CASE XferClient \/ XferGuest \/ XferBreaks \/ XferMoves
  <2>1. XferOnly
    BY <1>5 DEF XferClient, XferGuest, XferBreaks, XferMoves
  <2> QED
    BY <2>1 DEF XferOnly, Bumped
<1> QED
  BY <1>1, <1>2, <1>3, <1>4, <1>5 DEF XferStep

LEMMA ClockFrame == ClockStep => UNCHANGED <<mix, connVars, pty, xf, lifeVars>>
<1>1. CASE Interval \/ sampleActivity \/ Ping \/ reapExpired
  BY <1>1 DEF Interval, sampleActivity, Ping, reapExpired
<1>2. CASE SamplerTicks
  BY <1>2 DEF SamplerTicks
<1>3. CASE Clock \/ UsageSampled \/ UsageRolledUp \/ ControlPlaneRestarts
  BY <1>3 DEF Clock, UsageSampled, UsageRolledUp, ControlPlaneRestarts
<1> QED
  BY <1>1, <1>2, <1>3 DEF ClockStep

-----------------------------------------------------------------------------
(* Requests and pauses (TrackInv)                                           *)

Pcs == {"idle", "routed", "found", "counted", "bumped", "proxied", "refused", "done", "aborted"}
Ctxs == {"none", "live", "dead", "lost"}

LEMMA ConnTyped ==
    ASSUME ConnTypeOK
    PROVE /\ tracker.draining \in BOOLEAN /\ tracker.ctx \in {"nil", "live", "dead"}
          /\ \A c \in Conns : conn[c].pc \in Pcs /\ conn[c].ctx \in Ctxs
  BY SMT, SMTT(20) DEF ConnTypeOK, Pcs, Ctxs

(* A request that moves on, but not into the guest, keeps its context.      *)
LEMMA ConnMoves ==
    ASSUME TrackInv, NEW c \in Conns, NEW pc \in Pcs \ {"proxied"}, Goto(c, pc),
           UNCHANGED <<mix, tracker, task, status, vm>>
    PROVE TrackInv'
<1>1. conn \in [Conns -> [pc : Pcs, ctx : Ctxs]]
  BY DEF TrackInv, ConnTypeOK, Pcs, Ctxs
<1>2. conn' = [conn EXCEPT ![c].pc = pc]
  BY DEF Goto
<1>3. conn' \in [Conns -> [pc : Pcs, ctx : Ctxs]]
  BY <1>1, <1>2, SMT, SMTT(20)
<1>4. \A d \in Conns : conn'[d].ctx = conn[d].ctx /\ (conn'[d].pc = "proxied" => conn[d].pc = "proxied")
  BY <1>1, <1>2, SMT, SMTT(20)
<1>5. ConnTypeOK'
  BY <1>3 DEF TrackInv, ConnTypeOK, Pcs, Ctxs
<1>6. PauseInv' /\ OpenWhenRunning'
  BY DEF TrackInv, PauseInv, OpenWhenRunning
<1>7. ContextInv'
  BY <1>4 DEF TrackInv, ContextInv, At
<1>8. ServedInv'
  BY <1>4 DEF TrackInv, ServedInv, Closed
<1> QED
  BY <1>5, <1>6, <1>7, <1>8 DEF TrackInv

(* A request that asks for its context gets the tracker's.                  *)
LEMMA ContextTracked ==
    ASSUME TrackInv, NEW c \in Conns, Context(c), UNCHANGED <<mix, task, status, vm>>
    PROVE TrackInv'
<1>1. /\ conn \in [Conns -> [pc : Pcs, ctx : Ctxs]]
      /\ tracker \in [draining : BOOLEAN, ctx : {"nil", "live", "dead"}]
  BY DEF TrackInv, ConnTypeOK, Pcs, Ctxs
<1>2. ensureCtx \in {"live", "dead"} /\ (tracker.ctx # "nil" => ensureCtx = tracker.ctx)
  BY <1>1, SMT, SMTT(20) DEF ensureCtx
<1>3. tracker' = [tracker EXCEPT !.ctx = ensureCtx] /\ conn' = [conn EXCEPT ![c] = [pc |-> "proxied", ctx |-> ensureCtx]]
  BY DEF Context
<1>4. /\ tracker' \in [draining : BOOLEAN, ctx : {"nil", "live", "dead"}]
      /\ tracker'.draining = tracker.draining /\ tracker'.ctx = ensureCtx
  BY <1>1, <1>2, <1>3, SMT, SMTT(20)
<1>5. conn' \in [Conns -> [pc : Pcs, ctx : Ctxs]]
  BY <1>1, <1>2, <1>3, SMT, SMTT(20) DEF Pcs, Ctxs
<1>6. conn'[c].ctx = ensureCtx /\ \A d \in Conns \ {c} : conn'[d] = conn[d]
  BY <1>1, <1>3, SMT, SMTT(20)
<1>7. ConnTypeOK'
  BY <1>4, <1>5 DEF ConnTypeOK, Pcs, Ctxs
<1>8. PauseInv' /\ OpenWhenRunning'
  BY <1>4 DEF TrackInv, PauseInv, OpenWhenRunning
<1>9. ContextInv'
  <2>1. ASSUME tracker'.ctx # "live", NEW d \in Conns PROVE conn'[d].ctx # "live"
    BY <1>2, <1>4, <1>6, <2>1 DEF TrackInv, ContextInv
  <2>2. ASSUME NEW d \in Conns, conn'[d].pc = "proxied" PROVE conn'[d].ctx # "none"
    BY <1>2, <1>6, <2>2 DEF TrackInv, ContextInv, At
  <2> QED
    BY <2>1, <2>2 DEF ContextInv, At
<1>10. ServedInv'
  <2> SUFFICES ASSUME mix.served
               PROVE tracker'.ctx # "nil" /\ (\A d \in Conns : conn'[d].ctx # "lost") /\ (Closed => tracker'.ctx = "dead")
    BY DEF ServedInv, Closed
  <2>1. tracker.ctx # "nil" /\ (\A d \in Conns : conn[d].ctx # "lost") /\ (Closed => tracker.ctx = "dead")
    BY DEF TrackInv, ServedInv
  <2> QED
    BY <1>2, <1>4, <1>6, <2>1
<1> QED
  BY <1>7, <1>8, <1>9, <1>10 DEF TrackInv

LEMMA ProxyTracked == ASSUME TrackInv, NEW c \in Conns, ProxyStep(c) PROVE TrackInv'
<1>1. UNCHANGED <<mix, task, status, vm>>
  BY ProxyFrame DEF lifeVars
<1>2. CASE ProxyServes(c)
  BY <1>1, <1>2, ContextTracked DEF ProxyServes
<1>3. CASE ProxyStep(c) /\ ~ProxyServes(c)
  <2>1. UNCHANGED tracker /\ \E pc \in Pcs \ {"proxied"} : Goto(c, pc)
    BY <1>3 DEF ProxyStep, proxyTarget, evictProxyCache, AcquireProxyConn, TrackerAcquires, Acquire, ProxyBumps,
                ProxyAnswered, ProxyAborted, Release, Pcs
  <2> QED
    BY <1>1, <2>1, ConnMoves
<1> QED
  BY <1>2, <1>3

(* What no context is touched by.                                           *)
LEMMA TrackerKept ==
    ASSUME ConnTypeOK, ContextInv, UNCHANGED <<tracker, conn>>
    PROVE ConnTypeOK' /\ ContextInv'
  BY DEF ConnTypeOK, ContextInv, At

LEMMA HeldFacts ==
    ASSUME ConnTypeOK, NEW to \in {"dead", "lost"}, conn' = Held("live", to)
    PROVE /\ conn' \in [Conns -> [pc : Pcs, ctx : Ctxs]]
          /\ \A c \in Conns : conn'[c].pc = conn[c].pc /\ conn'[c].ctx = IF conn[c].ctx = "live" THEN to ELSE conn[c].ctx
<1>1. conn \in [Conns -> [pc : Pcs, ctx : Ctxs]]
  BY DEF ConnTypeOK, Pcs, Ctxs
<1>2. conn' = [c \in Conns |-> IF conn[c].ctx = "live" THEN [conn[c] EXCEPT !.ctx = to] ELSE conn[c]]
  BY DEF Held
<1>3. ASSUME NEW c \in Conns
      PROVE /\ conn'[c] \in [pc : Pcs, ctx : Ctxs] /\ conn'[c].pc = conn[c].pc
            /\ conn'[c].ctx = IF conn[c].ctx = "live" THEN to ELSE conn[c].ctx
  <2>1. conn[c] \in [pc : Pcs, ctx : Ctxs] /\ to \in Ctxs
    BY <1>1 DEF Ctxs
  <2>2. conn'[c] = IF conn[c].ctx = "live" THEN [conn[c] EXCEPT !.ctx = to] ELSE conn[c]
    BY <1>2
  <2> QED
    BY <2>1, <2>2, SMT, SMTT(20)
<1> QED
  BY <1>2, <1>3, SMT, SMTT(20)

LEMMA Resets ==
    ASSUME ConnTypeOK, ContextInv, Reset
    PROVE /\ ConnTypeOK' /\ ContextInv' /\ ~tracker'.draining /\ tracker'.ctx = "live"
          /\ \A c \in Conns : conn'[c].ctx = "lost" => conn[c].ctx \in {"live", "lost"}
<1>1. /\ tracker' \in [draining : BOOLEAN, ctx : {"nil", "live", "dead"}]
      /\ ~tracker'.draining /\ tracker'.ctx = "live"
  BY SMT, SMTT(20) DEF Reset
<1>2. /\ conn' \in [Conns -> [pc : Pcs, ctx : Ctxs]]
      /\ \A c \in Conns : conn'[c].pc = conn[c].pc /\ conn'[c].ctx = IF conn[c].ctx = "live" THEN "lost" ELSE conn[c].ctx
  BY HeldFacts DEF Reset
<1>3. ConnTypeOK'
  BY <1>1, <1>2 DEF ConnTypeOK, Pcs, Ctxs
<1>4. ContextInv'
  BY <1>1, <1>2 DEF ContextInv, At
<1> QED
  BY <1>1, <1>2, <1>3, <1>4

LEMMA PauseBeginsTracked == ASSUME TrackInv, NEW by \in {"call", "reaper"}, PauseBegins(by) PROVE TrackInv'
<1>1. task = NoTask /\ UNCHANGED <<mix, tracker, conn, vm>> /\ task.pc = "none"
  BY DEF PauseBegins, connVars, NoTask
<1>2. \/ status' = "pausing" /\ task'.pc = "drain"
      \/ status' = status /\ task' = task
  BY <1>1, SMT, SMTT(20) DEF PauseBegins, Holds, Returns
<1>3. PauseInv'
  BY <1>1, <1>2 DEF TrackInv, PauseInv
<1>4. OpenWhenRunning'
  BY <1>1, <1>2 DEF TrackInv, OpenWhenRunning
<1>5. ServedInv'
  BY <1>1, <1>2 DEF TrackInv, ServedInv, Closed
<1> QED
  BY <1>1, <1>3, <1>4, <1>5, TrackerKept DEF TrackInv

LEMMA DestroyRunsTracked == ASSUME TrackInv, NEW by \in {"call", "reaper"}, DestroyRuns(by) PROVE TrackInv'
<1>1. UNCHANGED <<mix, tracker, conn, task>> /\ task = NoTask /\ vm' = "gone" /\ status' = "gone" /\ task.pc = "none"
  BY DEF DestroyRuns, connVars, NoTask
<1>2. PauseInv' /\ OpenWhenRunning'
  BY <1>1 DEF TrackInv, PauseInv, OpenWhenRunning
<1>3. ServedInv'
  BY <1>1 DEF TrackInv, ServedInv, Closed
<1> QED
  BY <1>1, <1>2, <1>3, TrackerKept DEF TrackInv

LEMMA QuiesceDrainsTracked == ASSUME TrackInv, QuiesceDrains PROVE TrackInv'
<1>1. UNCHANGED <<mix, conn, vm, status>> /\ task.pc = "drain" /\ task'.pc = "force" /\ status = "pausing"
  BY DEF QuiesceDrains, Drain, Holds, TrackInv, PauseInv
<1>2. tracker' = [tracker EXCEPT !.draining = TRUE] /\ tracker \in [draining : BOOLEAN, ctx : {"nil", "live", "dead"}]
  BY DEF QuiesceDrains, Drain, TrackInv, ConnTypeOK
<1>3. tracker' \in [draining : BOOLEAN, ctx : {"nil", "live", "dead"}] /\ tracker'.ctx = tracker.ctx
  BY <1>2
<1>4. ConnTypeOK' /\ ContextInv'
  BY <1>1, <1>3 DEF TrackInv, ConnTypeOK, ContextInv, At
<1>5. PauseInv' /\ OpenWhenRunning'
  BY <1>1 DEF TrackInv, PauseInv, OpenWhenRunning
<1>6. ServedInv'
  BY <1>1, <1>3 DEF TrackInv, ServedInv, Closed
<1> QED
  BY <1>4, <1>5, <1>6 DEF TrackInv

LEMMA QuiesceForcesTracked == ASSUME TrackInv, QuiesceForces PROVE TrackInv'
<1>1. UNCHANGED <<mix, vm, status>> /\ task.pc = "force" /\ task'.pc = "freeze" /\ status = "pausing"
  BY DEF QuiesceForces, Holds, TrackInv, PauseInv
<1>2. /\ tracker' = [tracker EXCEPT !.ctx = IF @ = "nil" THEN "nil" ELSE "dead"]
      /\ conn' = Held("live", "dead")
  BY DEF QuiesceForces, ForceClose
<1>3. /\ tracker' \in [draining : BOOLEAN, ctx : {"nil", "live", "dead"}]
      /\ tracker'.ctx = IF tracker.ctx = "nil" THEN "nil" ELSE "dead"
  BY <1>2, SMT, SMTT(20) DEF TrackInv, ConnTypeOK
<1>4. /\ conn' \in [Conns -> [pc : Pcs, ctx : Ctxs]]
      /\ \A c \in Conns : conn'[c].pc = conn[c].pc /\ conn'[c].ctx = IF conn[c].ctx = "live" THEN "dead" ELSE conn[c].ctx
  BY <1>2, HeldFacts DEF TrackInv
<1>5. ConnTypeOK'
  BY <1>3, <1>4 DEF ConnTypeOK, Pcs, Ctxs
<1>6. ContextInv'
  BY <1>4 DEF TrackInv, ContextInv, At
<1>7. PauseInv' /\ OpenWhenRunning'
  BY <1>1 DEF TrackInv, PauseInv, OpenWhenRunning
<1>8. ServedInv'
  BY <1>1, <1>3, <1>4 DEF TrackInv, ServedInv, Closed
<1> QED
  BY <1>5, <1>6, <1>7, <1>8 DEF TrackInv

LEMMA VMFreezesTracked == ASSUME TrackInv, VMFreezes PROVE TrackInv'
<1>1. /\ UNCHANGED <<mix, tracker, conn, status>> /\ task.pc = "freeze" /\ status = "pausing"
      /\ \/ vm' = "frozen" /\ task'.pc = "snapshot"
         \/ vm' = vm /\ task'.pc = "rollback"
  BY SMT, SMTT(20) DEF VMFreezes, Holds, TrackInv, PauseInv, connVars
<1>2. PauseInv' /\ OpenWhenRunning'
  BY <1>1 DEF TrackInv, PauseInv, OpenWhenRunning
<1>3. ServedInv'
  BY <1>1 DEF TrackInv, ServedInv, Closed
<1> QED
  BY <1>1, <1>2, <1>3, TrackerKept DEF TrackInv

LEMMA SnapshotTakenTracked == ASSUME TrackInv, SnapshotTaken PROVE TrackInv'
<1>1. /\ UNCHANGED <<mix, tracker, conn>> /\ task.pc = "snapshot" /\ status = "pausing"
      /\ \/ vm' = "gone" /\ status' = "paused" /\ task'.pc = "none"
         \/ vm' = vm /\ status' = status /\ task'.pc = "rollback"
  BY SMT, SMTT(20) DEF SnapshotTaken, Answered, Returns, NoTask, Holds, TrackInv, PauseInv, connVars
<1>2. PauseInv' /\ OpenWhenRunning'
  BY <1>1 DEF TrackInv, PauseInv, OpenWhenRunning
<1>3. ServedInv'
  BY <1>1 DEF TrackInv, ServedInv, Closed
<1> QED
  BY <1>1, <1>2, <1>3, TrackerKept DEF TrackInv

(* A reset takes the context from a request only where nothing was closed.  *)
LEMMA ResetServed ==
    ASSUME TrackInv, Reset, Closed, UNCHANGED mix, ~Closed'
    PROVE ConnTypeOK' /\ OpenWhenRunning' /\ ContextInv' /\ ServedInv'
<1>1. /\ ConnTypeOK' /\ ContextInv' /\ ~tracker'.draining /\ tracker'.ctx = "live"
      /\ \A c \in Conns : conn'[c].ctx = "lost" => conn[c].ctx \in {"live", "lost"}
  BY Resets DEF TrackInv
<1>2. ASSUME mix.served, NEW c \in Conns PROVE conn'[c].ctx # "lost"
  <2>1. tracker.ctx = "dead" /\ conn[c].ctx # "lost"
    BY <1>2 DEF TrackInv, ServedInv
  <2>2. conn[c].ctx # "live"
    BY <2>1 DEF TrackInv, ContextInv
  <2> QED
    BY <1>1, <2>1, <2>2
<1> QED
  BY <1>1, <1>2 DEF OpenWhenRunning, ServedInv

LEMMA rollbackToRunningTracked == ASSUME TrackInv, rollbackToRunning PROVE TrackInv'
<1>1. /\ UNCHANGED mix /\ Reset /\ task.pc = "rollback" /\ task'.pc = "none"
      /\ vm' \in {"up", "gone"} /\ status' \in {"running", "error"}
  BY DEF rollbackToRunning, Answered, Returns, NoTask
<1>2. Closed /\ ~Closed' /\ PauseInv'
  BY <1>1 DEF Closed, PauseInv
<1> QED
  BY <1>1, <1>2, ResetServed DEF TrackInv

LEMMA ResumeRunsTracked == ASSUME TrackInv, ResumeRuns PROVE TrackInv'
<1>1. UNCHANGED <<mix, task>> /\ task = NoTask /\ task.pc = "none"
  BY DEF ResumeRuns, NoTask
<1>2. CASE status = "paused" /\ vm' = "up" /\ status' = "running" /\ Reset
  <2>1. Closed /\ ~Closed' /\ PauseInv'
    BY <1>1, <1>2 DEF Closed, PauseInv
  <2> QED
    BY <1>1, <1>2, <2>1, ResetServed DEF TrackInv
<1>3. CASE UNCHANGED <<vm, status, tracker, conn>>
  <2>1. PauseInv' /\ OpenWhenRunning' /\ ServedInv'
    BY <1>1, <1>3 DEF TrackInv, PauseInv, OpenWhenRunning, ServedInv, Closed
  <2> QED
    BY <1>3, <2>1, TrackerKept DEF TrackInv
<1> QED
  BY <1>2, <1>3 DEF ResumeRuns

LEMMA TrackUntouched == ASSUME TrackInv, UNCHANGED <<mix, tracker, conn, task, status, vm>> PROVE TrackInv'
<1>1. PauseInv' /\ OpenWhenRunning' /\ ServedInv'
  BY DEF TrackInv, PauseInv, OpenWhenRunning, ServedInv, Closed
<1> QED
  BY <1>1, TrackerKept DEF TrackInv

LEMMA LifeTracked == ASSUME TrackInv, LifeStep PROVE TrackInv'
<1>1. CASE MemoryLoaded \/ CallBegins \/ flushAndPersistMetrics \/ CallEnds \/ EventConsumed
  <2>1. UNCHANGED <<mix, tracker, conn, task, status, vm>>
    BY <1>1 DEF MemoryLoaded, CallBegins, flushAndPersistMetrics, CallEnds, EventConsumed, connVars
  <2> QED
    BY <2>1, TrackUntouched
<1> QED
  BY <1>1, PauseBeginsTracked, DestroyRunsTracked, QuiesceDrainsTracked, QuiesceForcesTracked, VMFreezesTracked,
     SnapshotTakenTracked, rollbackToRunningTracked, ResumeRunsTracked DEF LifeStep

LEMMA NextTracked == ASSUME TrackInv, [Next]_vars PROVE TrackInv'
<1>1. CASE PtyStep
  BY <1>1, PtyFrame, TrackUntouched DEF connVars, lifeVars
<1>2. CASE XferStep
  BY <1>2, XferFrame, TrackUntouched DEF connVars, lifeVars
<1>3. CASE ClockStep
  BY <1>3, ClockFrame, TrackUntouched DEF connVars, lifeVars
<1>4. CASE UNCHANGED vars
  BY <1>4, TrackUntouched DEF vars, connVars, lifeVars
<1> QED
  BY <1>1, <1>2, <1>3, <1>4, ProxyTracked, LifeTracked, Steps

LEMMA InitTracked == ASSUME GuestInit PROVE TrackInv
<1>1. tracker = [draining |-> FALSE, ctx |-> IF mix.served THEN "live" ELSE "nil"]
      /\ conn = [c \in Conns |-> [pc |-> "idle", ctx |-> "none"]] /\ task.pc = "none" /\ status = "running" /\ vm = "up"
  BY DEF GuestInit, NoTask
<1>2. ConnTypeOK
  BY <1>1, SMT, SMTT(20) DEF ConnTypeOK
<1>3. PauseInv /\ OpenWhenRunning
  BY <1>1 DEF PauseInv, OpenWhenRunning
<1>4. \A c \in Conns : conn[c].pc = "idle" /\ conn[c].ctx = "none"
  BY <1>1
<1>5. ContextInv
  BY <1>4 DEF ContextInv, At
<1>6. ServedInv
  BY <1>1, <1>4 DEF ServedInv, Closed
<1> QED
  BY <1>2, <1>3, <1>5, <1>6 DEF TrackInv

LEMMA FreezeIsQuiet == ASSUME TrackInv PROVE TrackerSound
<1> SUFFICES ASSUME mix.served, vm = "frozen", NEW c \in Conns, At(c, "proxied") PROVE conn[c].ctx = "dead"
  BY DEF TrackInv, TrackerSound, QuietFreeze
<1>1. Closed
  BY DEF TrackInv, PauseInv, Closed
<1>2. tracker.ctx # "live" /\ conn[c].ctx # "lost"
  BY <1>1 DEF TrackInv, ServedInv
<1>3. conn[c].ctx \notin {"live", "none", "lost"}
  BY <1>2 DEF TrackInv, ContextInv
<1> QED
  BY <1>3, ConnTyped DEF TrackInv, Ctxs

-----------------------------------------------------------------------------
(* Activity and expiry (ActInv)                                             *)

Activity == [idle : 0..(TTL + 1), streak : 0..Debounce, due : BOOLEAN, run : 0..Debounce]

LEMMA ActFields ==
    ASSUME ActInv
    PROVE /\ act.idle \in Nat /\ act.idle <= TTL + 1 /\ act.streak \in Nat /\ act.streak <= Debounce
          /\ act.run \in Nat /\ act.run <= act.streak /\ act.due \in BOOLEAN
          /\ act.run = Debounce => act.idle <= IF act.due THEN 1 ELSE 0
          /\ TTL \in Nat /\ TTL >= 1 /\ Debounce \in Nat /\ Debounce >= 1
  BY GuestAssumption, SMT, SMTT(20) DEF ActInv

(* Activity resets the timer and nothing else.                              *)
LEMMA ActBumped == ASSUME ActInv, Bumped PROVE ActInv'
<1>1. CASE act' = act
  BY <1>1 DEF ActInv
<1>2. CASE act' = [act EXCEPT !.idle = 0]
  <2>1. act \in Activity /\ 0 \in 0..(TTL + 1)
    BY GuestAssumption, SMT, SMTT(20) DEF ActInv, Activity
  <2>2. act' \in Activity /\ act'.idle = 0 /\ act'.run = act.run /\ act'.streak = act.streak
    BY <1>2, <2>1 DEF Activity
  <2>3. act'.idle <= IF act'.due THEN 1 ELSE 0
    BY <2>2, SMT, SMTT(20)
  <2> QED
    BY <2>2, <2>3 DEF ActInv, Activity
<1> QED
  BY <1>1, <1>2 DEF Bumped

LEMMA ActInterval == ASSUME ActInv, Interval PROVE ActInv'
<1>1. act' = [act EXCEPT !.idle = @ + 1, !.due = TRUE] /\ ~act.due /\ act.idle <= TTL /\ act \in Activity
  BY DEF Interval, ActInv, Activity
<1>2. act.idle + 1 \in 0..(TTL + 1)
  BY <1>1, ActFields, SMT, SMTT(20)
<1>3. act' \in Activity /\ act'.idle = act.idle + 1 /\ act'.due /\ act'.run = act.run /\ act'.streak = act.streak
  BY <1>1, <1>2 DEF Activity
<1>4. act'.run = Debounce => act'.idle <= 1
  BY <1>1, <1>3, ActFields, SMT, SMTT(20)
<1> QED
  BY <1>3, <1>4, ActFields DEF ActInv, Activity

LEMMA ActSample == ASSUME ActInv, sampleActivity PROVE ActInv'
<1>1. CASE status = "running" /\ ~loading
  <2>1. PICK busy \in BOOLEAN :
          LET s == applyBusySample(act.streak, busy)
          IN act' = [idle |-> IF s[2] THEN 0 ELSE act.idle, streak |-> s[1], due |-> FALSE,
                     run |-> IF ~busy THEN 0 ELSE IF act.run < Debounce THEN act.run + 1 ELSE act.run]
    BY <1>1 DEF sampleActivity
  <2>2. CASE ~busy
    <3>1. act' = [idle |-> act.idle, streak |-> 0, due |-> FALSE, run |-> 0]
      BY <2>1, <2>2, SMT, SMTT(20) DEF applyBusySample
    <3> QED
      BY <3>1, ActFields, SMT, SMTT(20) DEF ActInv
  <2>3. CASE busy /\ act.streak + 1 >= Debounce
    <3>1. act' = [idle |-> 0, streak |-> Debounce, due |-> FALSE, run |-> IF act.run < Debounce THEN act.run + 1 ELSE act.run]
      BY <2>1, <2>3 DEF applyBusySample
    <3> QED
      BY <3>1, ActFields, SMT, SMTT(20) DEF ActInv
  <2>4. CASE busy /\ ~(act.streak + 1 >= Debounce)
    <3>1. act' = [idle |-> act.idle, streak |-> act.streak + 1, due |-> FALSE,
                  run |-> IF act.run < Debounce THEN act.run + 1 ELSE act.run]
      BY <2>1, <2>4 DEF applyBusySample
    <3> QED
      BY <2>4, <3>1, ActFields, SMT, SMTT(20) DEF ActInv
  <2> QED
    BY <2>2, <2>3, <2>4
<1>2. CASE ~(status = "running" /\ ~loading)
  <2>1. act' = [act EXCEPT !.due = FALSE, !.run = 0] /\ act \in Activity
    BY <1>2 DEF sampleActivity, ActInv, Activity
  <2>2. 0 \in 0..Debounce
    BY GuestAssumption, SMT, SMTT(20)
  <2>3. act' \in Activity /\ act'.run = 0 /\ act'.streak = act.streak
    BY <2>1, <2>2 DEF Activity
  <2>4. act'.run <= act'.streak /\ act'.run # Debounce
    BY <2>3, ActFields, SMT, SMTT(20)
  <2> QED
    BY <2>3, <2>4 DEF ActInv, Activity
<1> QED
  BY <1>1, <1>2

LEMMA ActResume == ASSUME ActInv, act' = [act EXCEPT !.idle = 0, !.run = 0] PROVE ActInv'
<1>1. 0 \in 0..Debounce /\ 0 \in 0..(TTL + 1) /\ act \in Activity
  BY GuestAssumption, SMT, SMTT(20) DEF ActInv, Activity
<1>2. act' \in Activity /\ act'.run = 0 /\ act'.streak = act.streak
  BY <1>1 DEF Activity
<1>3. act'.run <= act'.streak /\ act'.run # Debounce
  BY <1>2, ActFields, SMT, SMTT(20)
<1> QED
  BY <1>2, <1>3 DEF ActInv, Activity

LEMMA NextActive == ASSUME ActInv, [Next]_vars PROVE ActInv'
<1>1. CASE act' = act
  BY <1>1, ActBumped DEF Bumped
<1>2. CASE LifeStep
  <2>1. act' = act \/ act' = [act EXCEPT !.idle = 0, !.run = 0]
    BY <1>2 DEF LifeStep, PauseBegins, DestroyRuns, QuiesceDrains, QuiesceForces, VMFreezes, SnapshotTaken, rollbackToRunning,
                ResumeRuns, MemoryLoaded, CallBegins, flushAndPersistMetrics, CallEnds, EventConsumed
  <2> QED
    BY <1>1, <2>1, ActResume
<1>3. CASE ClockStep
  <2>1. \/ Interval \/ sampleActivity
        \/ act' = act \/ act' = [act EXCEPT !.idle = 0]
    BY <1>3 DEF ClockStep, Ping, reapExpired, SamplerTicks, Clock, UsageSampled, UsageRolledUp, ControlPlaneRestarts
  <2> QED
    BY <2>1, ActInterval, ActSample, ActBumped DEF Bumped
<1>4. CASE UNCHANGED vars
  BY <1>1, <1>4 DEF vars
<1>5. CASE \E c \in Conns : ProxyStep(c)
  BY <1>5, ProxyFrame, ActBumped
<1>6. CASE PtyStep \/ XferStep
  BY <1>6, PtyFrame, XferFrame, ActBumped
<1> QED
  BY <1>2, <1>3, <1>4, <1>5, <1>6, Steps

LEMMA InitActive == ASSUME GuestInit PROVE ActInv
<1>1. act = [idle |-> 0, streak |-> 0, due |-> FALSE, run |-> 0]
  BY DEF GuestInit
<1> QED
  BY <1>1, GuestAssumption, SMT, SMTT(20) DEF ActInv

(* Only the reaper puts the capsule on its list.                            *)
LEMMA ListedByReaper == ASSUME [Next]_vars, listed = "no", listed' = "yes" PROVE reapExpired
<1>0. listed' # listed
  OBVIOUS
<1>1. CASE LifeStep
  <2>1. listed' \in {listed, "no", "failed"}
    BY <1>1 DEF LifeStep, PauseBegins, DestroyRuns, QuiesceDrains, QuiesceForces, VMFreezes, SnapshotTaken, rollbackToRunning,
                Answered, ResumeRuns, MemoryLoaded, CallBegins, flushAndPersistMetrics, CallEnds, EventConsumed
  <2> QED
    BY <2>1
<1>2. CASE ClockStep
  BY <1>0, <1>2 DEF ClockStep, Interval, sampleActivity, Ping, SamplerTicks, Clock, UsageSampled, UsageRolledUp, ControlPlaneRestarts
<1>3. ~UNCHANGED vars
  BY <1>0 DEF vars
<1>4. ~PtyStep /\ ~XferStep /\ ~\E c \in Conns : ProxyStep(c)
  BY <1>0, PtyFrame, XferFrame, ProxyFrame
<1> QED
  BY <1>1, <1>2, <1>3, <1>4, Steps

LEMMA NextSpares == ASSUME ActInv, [Next]_vars PROVE listed = "no" /\ listed' = "yes" => act.run < Debounce
<1> SUFFICES ASSUME listed = "no", listed' = "yes" PROVE act.run < Debounce
  OBVIOUS
<1>1. act.idle > TTL
  BY ListedByReaper DEF reapExpired
<1> QED
  BY <1>1, ActFields, SMT, SMTT(20)

-----------------------------------------------------------------------------
(* Types of the lifecycle's variables (LifeInv)                             *)

LEMMA RowTyped == ASSUME RowOK, LifeStep PROVE RowOK'
<1>1. CASE CallBegins
  BY <1>1 DEF CallBegins, Transient, RowOK
<1>2. CASE CallEnds
  BY <1>2 DEF CallEnds, RowOK
<1>3. CASE EventConsumed
  BY <1>3 DEF EventConsumed, RowOK
<1>4. CASE UNCHANGED row
  BY <1>4 DEF RowOK
<1>5. ~CallBegins /\ ~CallEnds /\ ~EventConsumed => UNCHANGED row
  BY DEF LifeStep, PauseBegins, DestroyRuns, QuiesceDrains, QuiesceForces, VMFreezes, SnapshotTaken, rollbackToRunning,
         ResumeRuns, MemoryLoaded, flushAndPersistMetrics
<1> QED
  BY <1>1, <1>2, <1>3, <1>4, <1>5

LEMMA StatusTyped == ASSUME StatusOK, LifeStep PROVE StatusOK'
<1>1. status' \in {status, "pausing", "paused", "running", "error", "gone"}
  BY DEF LifeStep, PauseBegins, DestroyRuns, QuiesceDrains, QuiesceForces, VMFreezes, SnapshotTaken, rollbackToRunning,
         ResumeRuns, MemoryLoaded, CallBegins, flushAndPersistMetrics, CallEnds, EventConsumed
<1> QED
  BY <1>1 DEF StatusOK

LEMMA ListedTyped == ASSUME ListedOK, LifeStep PROVE ListedOK'
<1>1. listed' \in {listed, "no", "failed"}
  BY DEF LifeStep, PauseBegins, DestroyRuns, QuiesceDrains, QuiesceForces, VMFreezes, SnapshotTaken, rollbackToRunning,
         Answered, ResumeRuns, MemoryLoaded, CallBegins, flushAndPersistMetrics, CallEnds, EventConsumed
<1> QED
  BY <1>1 DEF ListedOK

LEMMA LifeKept == ASSUME LifeInv, LifeStep PROVE LifeInv'
<1>1. vm' \in {vm, "up", "frozen", "gone"}
  BY DEF LifeStep, PauseBegins, DestroyRuns, QuiesceDrains, QuiesceForces, VMFreezes, SnapshotTaken, rollbackToRunning,
         ResumeRuns, MemoryLoaded, CallBegins, flushAndPersistMetrics, CallEnds, EventConsumed
<1>2. loading' \in {loading, TRUE, FALSE}
  BY DEF LifeStep, PauseBegins, DestroyRuns, QuiesceDrains, QuiesceForces, VMFreezes, SnapshotTaken, rollbackToRunning,
         ResumeRuns, MemoryLoaded, CallBegins, flushAndPersistMetrics, CallEnds, EventConsumed
<1>3. sampling' \in {sampling, TRUE, FALSE} /\ lost' \in {lost, TRUE, FALSE}
  <2>1. CASE SnapshotTaken \/ rollbackToRunning
    BY <2>1 DEF SnapshotTaken, rollbackToRunning, stopSampler
  <2>2. CASE ResumeRuns
    BY <2>2 DEF ResumeRuns, startSampler
  <2>3. CASE flushAndPersistMetrics
    BY <2>3 DEF flushAndPersistMetrics, FlushMetrics, stopSampler
  <2>4. CASE \E by \in {"call", "reaper"} : PauseBegins(by) \/ DestroyRuns(by)
    BY <2>4 DEF PauseBegins, DestroyRuns, stopSampler, metricVars
  <2>5. CASE QuiesceDrains \/ QuiesceForces \/ VMFreezes \/ MemoryLoaded \/ CallBegins \/ CallEnds \/ EventConsumed
    BY <2>5 DEF QuiesceDrains, QuiesceForces, VMFreezes, MemoryLoaded, CallBegins, CallEnds, EventConsumed, metricVars
  <2> QED
    BY <2>1, <2>2, <2>3, <2>4, <2>5 DEF LifeStep
<1>4. UNCHANGED <<cached, cp>>
  BY DEF LifeStep, PauseBegins, DestroyRuns, QuiesceDrains, QuiesceForces, VMFreezes, SnapshotTaken, rollbackToRunning,
         ResumeRuns, MemoryLoaded, CallBegins, flushAndPersistMetrics, CallEnds, EventConsumed, connVars, usageVars
<1> QED
  <2>1. VMOK'
    BY <1>1 DEF LifeInv, VMOK
  <2>2. FlagsOK'
    BY <1>2, <1>3, <1>4 DEF LifeInv, FlagsOK
  <2> QED
    BY <2>1, <2>2, RowTyped, StatusTyped, ListedTyped DEF LifeInv

LEMMA LifeSame ==
    ASSUME LifeInv, UNCHANGED lifeVars, ListedOK', FlagsOK'
    PROVE LifeInv'
<1>1. UNCHANGED <<row, status, vm>>
  BY DEF lifeVars
<1> QED
  BY <1>1 DEF LifeInv, RowOK, StatusOK, VMOK

LEMMA NextTyped == ASSUME LifeInv, [Next]_vars PROVE LifeInv'
<1>0. ListedOK /\ FlagsOK
  BY DEF LifeInv
<1>1. CASE \E c \in Conns : ProxyStep(c)
  <2>1. UNCHANGED <<lifeVars, listed, loading, sampling, lost, cp>>
    BY <1>1, ProxyFrame DEF metricVars, usageVars, lifeVars
  <2>2. cached' \in {cached, TRUE, FALSE}
    BY <1>1 DEF ProxyStep, proxyTarget, evictProxyCache, AcquireProxyConn, TrackerAcquires, ProxyBumps, ProxyServes,
                ProxyAnswered, ProxyAborted
  <2> QED
    BY <1>0, <2>1, <2>2, LifeSame DEF ListedOK, FlagsOK
<1>2. CASE UNCHANGED <<lifeVars, listed, cached, loading, sampling, lost, cp>>
  BY <1>0, <1>2, LifeSame DEF ListedOK, FlagsOK
<1>3. CASE PtyStep \/ XferStep
  <2>1. UNCHANGED <<connVars, metricVars, usageVars, lifeVars, listed>>
    BY <1>3, PtyFrame, XferFrame
  <2> QED
    BY <1>2, <2>1 DEF connVars, metricVars, usageVars, lifeVars
<1>4. CASE UNCHANGED vars
  <2>1. UNCHANGED <<connVars, metricVars, usageVars, lifeVars, listed>>
    BY <1>4 DEF vars
  <2> QED
    BY <1>2, <2>1 DEF connVars, metricVars, usageVars, lifeVars
<1>5. CASE ClockStep
  <2>1. UNCHANGED <<cached, lifeVars, loading>>
    BY <1>5, ClockFrame DEF connVars, lifeVars
  <2>2. CASE Interval \/ sampleActivity \/ Ping \/ Clock \/ UsageSampled \/ UsageRolledUp
    <3>1. UNCHANGED <<metricVars, listed, cp>>
      BY <2>2 DEF Interval, sampleActivity, Ping, Clock, UsageSampled, UsageRolledUp, usageVars
    <3> QED
      BY <1>2, <2>1, <3>1 DEF metricVars
  <2>3. CASE reapExpired
    <3>1. UNCHANGED <<metricVars, usageVars>> /\ listed' = "yes"
      BY <2>3 DEF reapExpired
    <3> QED
      BY <1>0, <2>1, <3>1, LifeSame DEF metricVars, usageVars, ListedOK, FlagsOK
  <2>4. CASE SamplerTicks
    <3>1. UNCHANGED <<lost, sampling, listed, cp>>
      BY <2>4 DEF SamplerTicks, samplerLoop, usageVars
    <3> QED
      BY <1>2, <2>1, <3>1
  <2>5. CASE ControlPlaneRestarts
    <3>1. UNCHANGED <<metricVars, listed>> /\ cp' = ~cp
      BY <2>5 DEF ControlPlaneRestarts
    <3> QED
      BY <1>0, <2>1, <3>1, LifeSame DEF metricVars, ListedOK, FlagsOK
  <2> QED
    BY <1>5, <2>2, <2>3, <2>4, <2>5 DEF ClockStep
<1> QED
  BY <1>1, <1>3, <1>4, <1>5, LifeKept, Steps

LEMMA InitTyped == ASSUME GuestInit PROVE LifeInv
  BY DEF GuestInit, LifeInv, RowOK, StatusOK, VMOK, ListedOK, FlagsOK

LEMMA SameScenario == ASSUME mix \in Scenario, [Next]_vars PROVE mix' \in Scenario
<1>1. CASE LifeStep
  BY <1>1 DEF LifeStep, PauseBegins, DestroyRuns, QuiesceDrains, QuiesceForces, VMFreezes, SnapshotTaken, rollbackToRunning,
         ResumeRuns, MemoryLoaded, CallBegins, flushAndPersistMetrics, CallEnds, EventConsumed
<1>2. CASE UNCHANGED vars
  BY <1>2 DEF vars
<1> QED
  BY <1>1, <1>2, ProxyFrame, PtyFrame, XferFrame, ClockFrame, Steps

-----------------------------------------------------------------------------
(* Streams (PtyInv, XferInv)                                                *)

LEMMA LifeStreams == ASSUME LifeStep PROVE mix' = mix /\ xf' = xf /\ (pty' = pty \/ pty' = StreamBroken(pty))
  BY DEF LifeStep, PauseBegins, DestroyRuns, QuiesceDrains, QuiesceForces, VMFreezes, SnapshotTaken, rollbackToRunning,
         ResumeRuns, MemoryLoaded, CallBegins, flushAndPersistMetrics, CallEnds, EventConsumed

LEMMA PtyOps == ASSUME PtyStep PROVE mix' = mix /\ TerminalOp
<1>1. runPtySession => pty.life = "none" /\ (runPtyLoop(mix.before > 0) \/ AttachFails)
  BY DEF runPtySession
<1>2. PtyCalls => SenderCalls(TRUE) \/ SenderCalls(FALSE)
  BY DEF PtyCalls
<1> QED
  BY <1>1, <1>2, PtyFrame
     DEF PtyStep, TerminalOp, ClientTypes, ClientGoes, PtyReaderEnds, PtySenderTakes, PtyCoalesces, PtySenderEnds,
         ProcessPrints, ProcessExits, PtyPumpShows, PtyPumpEnds, PtyKeepEnds, PtyCloses, PtyOver

LEMMA XferOps == ASSUME XferStep PROVE TransferOp(mix.fails, vm = "gone")
<1>1. StreamUpload \/ StreamDownload \/ runExecStream \/ runExec => \E ok \in BOOLEAN : xf.at = "none" /\ Begin(ok)
  BY DEF StreamUpload, StreamDownload, runExecStream, runExec, Starts
<1> QED
  BY <1>1 DEF XferStep, TransferOp, XferClient, XferGuest, XferBreaks, XferMoves

LEMMA NextStreams == ASSUME PtyInv, XferInv, mix.before \in Nat, [Next]_vars PROVE PtyInv' /\ XferInv'
<1>1. CASE PtyStep
  BY <1>1, PtyOps, PtyFrame, TerminalKept, XferSame
<1>2. CASE XferStep
  BY <1>2, XferOps, XferFrame, TransferKept, PtySame
<1>3. CASE LifeStep
  BY <1>3, LifeStreams, StreamBrokenKept, PtySame, XferSame
<1>4. CASE (\E c \in Conns : ProxyStep(c)) \/ ClockStep
  BY <1>4, ProxyFrame, ClockFrame, PtySame, XferSame
<1>5. CASE UNCHANGED vars
  <2>1. UNCHANGED <<mix, pty, xf>>
    BY <1>5 DEF vars
  <2> QED
    BY <2>1, PtySame, XferSame
<1> QED
  BY <1>1, <1>2, <1>3, <1>4, <1>5, Steps

LEMMA ScenarioFacts == ASSUME mix \in Scenario PROVE mix.before \in Nat /\ mix.size \in Nat /\ mix.transfer \in Kinds
  BY SMT, SMTT(20) DEF Scenario, Kinds

LEMMA InitStreams == ASSUME mix \in Scenario, GuestInit PROVE PtyInv /\ XferInv
<1>1. pty = NoSession /\ Fresh(mix.transfer, mix.size)
  BY DEF GuestInit, Fresh
<1> QED
  BY <1>1, ScenarioFacts, NewSession, FreshTransfer

LEMMA StateTyped == ASSUME mix \in Scenario, TrackInv, ActInv, LifeInv, PtyInv PROVE TypeOK
<1>1. ConnTypeOK
  BY DEF TrackInv
<1>2. act \in [idle : 0..(TTL + 1), streak : 0..Debounce, due : BOOLEAN, run : 0..Debounce]
  BY DEF ActInv, Activity
<1>3. RowOK /\ StatusOK /\ VMOK /\ ListedOK /\ FlagsOK
  BY DEF LifeInv
<1> QED
  BY <1>1, <1>2, <1>3, TerminalSound DEF TypeOK, RowOK, StatusOK, VMOK, ListedOK, FlagsOK

-----------------------------------------------------------------------------
(* In every scenario, requests are let in while the capsule runs, and when  *)
(* its VM is frozen for a snapshot each one still in flight has been told to *)
(* stop (ConnTracker.Acquire, Context, Drain, ForceClose, Reset;             *)
(* quiesceAndPauseCH).                                                       *)
THEOREM RequestsOutOfTheWay == Spec => []TrackerSound
<1>1. mix \in Scenario /\ GuestInit => TrackInv
  BY InitTracked
<1>2. TrackInv /\ [Next]_vars => TrackInv'
  BY NextTracked
<1>3. TrackInv => TrackerSound
  BY FreezeIsQuiet
<1> QED
  BY <1>1, <1>2, <1>3, PTL DEF Spec

(* For every timeout of at least one sampling interval and every debounce    *)
(* length, the reaper does not list a capsule that the latest intervals     *)
(* found busy (applyBusySample, pollAndBump, reapExpired).                   *)
THEOREM BusyIsSpared == Spec => BusyNotExpired
<1>1. mix \in Scenario /\ GuestInit => ActInv
  BY InitActive
<1>2. ActInv /\ [Next]_vars => ActInv'
  BY NextActive
<1>3. ActInv /\ [Next]_vars => [listed = "no" /\ listed' = "yes" => act.run < Debounce]_vars
  BY NextSpares
<1> QED
  BY <1>1, <1>2, <1>3, PTL DEF Spec, BusyNotExpired

(* In every scenario, for any buffer sizes and any number of frames and      *)
(* chunks: what the client types is applied in the order it was typed, and   *)
(* what the session took in is sent before it is over; what the client is    *)
(* shown of a process or a download has no gap; and success is reported only *)
(* when everything arrived (runPtyLoop, drainPtyStream, StreamUpload,         *)
(* WriteFileStream, StreamDownload, ExecStream, Exec).                        *)
THEOREM StreamsArriveWhole == Spec => []StreamsFaithful
<1> DEFINE Inv == mix \in Scenario /\ TrackInv /\ ActInv /\ LifeInv /\ PtyInv /\ XferInv
<1>1. mix \in Scenario /\ GuestInit => Inv
  BY InitTracked, InitActive, InitTyped, InitStreams
<1>2. Inv /\ [Next]_vars => Inv'
  BY SameScenario, ScenarioFacts, NextTracked, NextActive, NextTyped, NextStreams
<1>3. Inv => StreamsFaithful
  BY StateTyped, TerminalSound, TransfersHonest DEF StreamsFaithful
<1> HIDE DEF Inv
<1> QED
  BY <1>1, <1>2, <1>3, PTL DEF Spec
=============================================================================
