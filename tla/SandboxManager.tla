--------------------------- MODULE SandboxManager ---------------------------
(***************************************************************************)
(* The lifecycle of ONE sandbox inside the host agent's sandbox.Manager    *)
(* (pkg/sandbox): Create, Destroy, Pause, Resume, CreateSnapshot, the TTL  *)
(* reaper, the crash watcher of every VM generation and Shutdown, running  *)
(* as concurrent goroutines.  Steps are cut where the code takes or drops  *)
(* m.mu, sb.lifecycleMu or the create handle, and where another goroutine  *)
(* that holds no lock can observe or change what a call is working on.     *)
(*                                                                         *)
(* The sandbox shares a network slot allocator and a loop registry with    *)
(* the other sandboxes of the host: host.refs starts at 1 (one other       *)
(* sandbox runs on the same base image) and a slot this sandbox frees may  *)
(* be allocated to another one.                                            *)
(***************************************************************************)
EXTENDS Naturals

CONSTANTS
    Mixes,          \* sets of calls, <<operation, number>> pairs; one set is made
    MaxGen,         \* VM processes launched for the sandbox (Create and Resumes)
    MayCrash,       \* TRUE: a VM process may exit by itself
    None            \* no goroutine

Ops == {"create", "destroy", "pause", "resume", "snapshot", "flatten", "reap", "shutdown"}
Gens == 1 .. MaxGen
Calls == UNION Mixes

ASSUME ManagerAssumption ==
    /\ \A mix \in Mixes : mix \subseteq Ops \X Nat
    /\ MaxGen \in Nat \ {0}
    /\ MayCrash \in BOOLEAN
    /\ None \notin Calls

\* Sandbox identifiers are fresh: Create is called once for each.
ASSUME OneCreate ==
    \A mix \in Mixes : \A c, d \in mix : c[1] = "create" /\ d[1] = "create" => c = d

VARIABLES
    pc,         \* the program point of every call
    entry,      \* Destroy's statusAtEntry
    handle,     \* m.creates[id]: "none", "open" or "cancelled"
    draining,   \* m.draining, and stopCh closed
    boxed,      \* the sandbox is in m.boxes
    sb,         \* the *sandboxState: status, lifecycleMu holder, resource fields
    vm,         \* m.vm.vms[id]: the generation registered, 0 if none
    proc,       \* the Cloud Hypervisor process of every generation
    watch,      \* the crash watcher of every generation
    host,       \* the slot, the base image's loop refcount, the dm device
    disk        \* the sandbox directory: CoW file, pause snapshot

vars == <<pc, entry, handle, draining, boxed, sb, vm, proc, watch, host, disk>>

Statuses == {"none", "running", "pausing", "paused", "error"}

Op(c) == c[1]

Points == {"absent", "idle", "done",
           "c_register", "c_acquire", "c_boot", "c_publish", "c_watch", "c_finish",
           "d_enter", "d_wait", "d_take", "d_lock", "d_cleanup", "d_files",
           "p_get", "p_lock", "p_mem", "p_quiesce", "p_snapshot", "p_rollback",
           "p_wedged", "p_release", "p_swap",
           "r_lock", "r_acquire", "r_launch", "r_watch",
           "s_lock", "s_freeze", "s_thaw", "s_flatten",
           "x_cancel", "x_wait", "x_pause", "x_list", "x_loops"}

SandboxState == [st : Statuses, lock : Calls \cup {None}, slot : BOOLEAN, dm : BOOLEAN, base : BOOLEAN, lazy : BOOLEAN]
HostState == [slot : {"free", "self", "other"}, refs : Nat, dm : BOOLEAN]
Directory == [cow : BOOLEAN, snap : BOOLEAN]

TypeOK ==
    /\ pc \in [Calls -> Points]
    /\ entry \in [Calls -> Statuses]
    /\ handle \in {"none", "open", "cancelled"}
    /\ draining \in BOOLEAN
    /\ boxed \in BOOLEAN
    /\ sb \in SandboxState
    /\ vm \in Gens \cup {0}
    /\ proc \in [Gens -> {"none", "running", "frozen", "dead"}]
    /\ watch \in [Gens -> {"none", "armed", "cleanup", "done"}]
    /\ host \in HostState
    /\ disk \in Directory

\* A mix without a create works on a sandbox that is running already; lazy:
\* its memory is still being faulted in from a snapshot.
Start(mix, up, lazy) ==
    /\ pc = [c \in Calls |-> IF c \in mix THEN "idle" ELSE "absent"]
    /\ boxed = up
    /\ sb = [st |-> IF up THEN "running" ELSE "none", lock |-> None,
             slot |-> up, dm |-> up, base |-> up, lazy |-> lazy]
    /\ vm = IF up THEN 1 ELSE 0
    /\ proc = [g \in Gens |-> IF up /\ g = 1 THEN "running" ELSE "none"]
    /\ watch = [g \in Gens |-> IF up /\ g = 1 THEN "armed" ELSE "none"]
    /\ host = [slot |-> IF up THEN "self" ELSE "free",
               refs |-> IF up THEN 2 ELSE 1, dm |-> up]
    /\ disk = [cow |-> up, snap |-> FALSE]

Init ==
    /\ \E mix \in Mixes, lazy \in BOOLEAN :
         LET up == \A c \in mix : c[1] # "create"
         IN  (lazy => up) /\ Start(mix, up, lazy)
    /\ entry = [c \in Calls |-> "none"]
    /\ handle = "none"
    /\ draining = FALSE

At(c, point) == pc[c] = point
Goto(c, point) == pc' = [pc EXCEPT ![c] = point]

Alive(g) == g # 0 /\ proc[g] \in {"running", "frozen"}
Fresh == {g \in Gens : proc[g] = "none" /\ \A h \in 1 .. g - 1 : proc[h] # "none"}

Unlocked == sb.lock = None
Unlock == sb' = [sb EXCEPT !.lock = None]

(***************************************************************************)
(* Where the caller of Pause, respectively Destroy, goes when it returns:  *)
(* the reaper destroys what it could not pause, Shutdown moves on from     *)
(* PauseAll to the destroy loop and from there to releasing the loops.     *)
(***************************************************************************)
AfterPause(c, ok) ==
    CASE Op(c) = "reap" -> IF ok THEN "done" ELSE "d_enter"
      [] Op(c) = "shutdown" -> "x_list"
      [] OTHER -> "done"

PauseReturns(c, ok) == Goto(c, AfterPause(c, ok))

DestroyReturns(c) == Goto(c, IF Op(c) = "shutdown" THEN "x_loops" ELSE "done")

\* What vm.Manager.Destroy leaves: the registered process stopped and forgotten.
KillVM ==
    /\ proc' = [g \in Gens |-> IF g = vm THEN "dead" ELSE proc[g]]
    /\ vm' = 0

\* loops.Release and slots.Release act on whatever the index and path name now.
LoopReleasedTwice == IF sb.base THEN host.refs - 2 ELSE host.refs

LoopDropped == IF host.refs > 0 THEN host.refs - 1 ELSE 0
LoopReleased == IF sb.base THEN LoopDropped ELSE host.refs
SlotReleased == IF sb.slot THEN "free" ELSE host.slot

TornDown == [slot |-> SlotReleased, refs |-> LoopReleased, dm |-> host.dm /\ ~sb.dm]

-----------------------------------------------------------------------------
(* Create *)

\* Create's draining check; the handle is registered later, under m.mu.
CreateCall(c) ==
    /\ Op(c) = "create" /\ At(c, "idle")
    /\ Goto(c, IF draining THEN "done" ELSE "c_register")
    /\ UNCHANGED <<entry, handle, draining, boxed, sb, vm, proc, watch, host, disk>>

CreateRegister(c) ==
    /\ At(c, "c_register")
    /\ IF boxed \/ handle # "none"
       THEN Goto(c, "done") /\ UNCHANGED handle
       ELSE Goto(c, "c_acquire") /\ handle' = "open"
    /\ UNCHANGED <<entry, draining, boxed, sb, vm, proc, watch, host, disk>>

\* Loop device, dm-snapshot with its CoW file, slot and network: all of them,
\* or none once a failed step has been rolled back.
CreateAcquire(c) ==
    /\ At(c, "c_acquire")
    /\ \/ /\ host.slot = "free"
          /\ host' = [slot |-> "self", refs |-> host.refs + 1, dm |-> TRUE]
          /\ disk' = [disk EXCEPT !.cow = TRUE]
          /\ Goto(c, "c_boot")
       \/ /\ Goto(c, "c_finish")
          /\ UNCHANGED <<host, disk>>
    /\ UNCHANGED <<entry, handle, draining, boxed, sb, vm, proc, watch>>

\* createResources.rollback: every resource acquired by this Create is given back.
RollbackKeepsSlot ==
    /\ KillVM
    /\ host' = [host EXCEPT !.refs = LoopDropped, !.dm = FALSE]
    /\ disk' = [disk EXCEPT !.cow = FALSE]

Rollback ==
    /\ KillVM
    /\ host' = [slot |-> "free", refs |-> LoopDropped, dm |-> FALSE]
    /\ disk' = [disk EXCEPT !.cow = FALSE]

\* vm.Create and the wait for envd; a cancelled create context makes them fail.
CreateBoot(c) ==
    /\ At(c, "c_boot")
    /\ \/ /\ handle = "open"
          /\ \E g \in Fresh : vm' = g /\ proc' = [proc EXCEPT ![g] = "running"]
          /\ Goto(c, "c_publish")
          /\ UNCHANGED <<host, disk>>
       \/ /\ Rollback
          /\ Goto(c, "c_finish")
    /\ UNCHANGED <<entry, handle, draining, boxed, sb, watch>>

\* Mounting the volumes may still fail; otherwise the sandbox enters m.boxes,
\* whether or not the create has been cancelled since it booted.
CreatePublish(c) ==
    /\ At(c, "c_publish")
    /\ \/ /\ boxed' = TRUE
          /\ \E lazy \in BOOLEAN :      \* TRUE for a snapshot template
               sb' = [st |-> "running", lock |-> None, slot |-> TRUE, dm |-> TRUE,
                      base |-> TRUE, lazy |-> lazy]
          /\ Goto(c, "c_watch")
          /\ UNCHANGED <<vm, proc, host, disk>>
       \/ /\ Rollback
          /\ Goto(c, "c_finish")
          /\ UNCHANGED <<boxed, sb>>
    /\ UNCHANGED <<entry, handle, draining, watch>>

\* startCrashWatcher watches the VM registered now, if there still is one.  A second
\* watcher of a VM whose first one is cleaning up finds no sandbox and does nothing.
Watched == IF vm = 0 \/ watch[vm] = "cleanup" THEN watch ELSE [watch EXCEPT ![vm] = "armed"]

CreateWatch(c) ==
    /\ At(c, "c_watch")
    /\ watch' = Watched
    /\ Goto(c, "c_finish")
    /\ UNCHANGED <<entry, handle, draining, boxed, sb, vm, proc, host, disk>>

\* The deferred function: drop the handle and close its done channel.
CreateFinish(c) ==
    /\ At(c, "c_finish")
    /\ handle' = "none"
    /\ Goto(c, "done")
    /\ UNCHANGED <<entry, draining, boxed, sb, vm, proc, watch, host, disk>>

-----------------------------------------------------------------------------
(* Destroy *)

DestroyCall(c) ==
    /\ Op(c) = "destroy" /\ At(c, "idle")
    /\ Goto(c, "d_enter")
    /\ UNCHANGED <<entry, handle, draining, boxed, sb, vm, proc, watch, host, disk>>

\* Take the sandbox out of m.boxes, remembering the status it had (under m.mu).
TakeBox(c) ==
    /\ boxed' = FALSE
    /\ entry' = [entry EXCEPT ![c] = IF boxed THEN sb.st ELSE "none"]
    /\ Goto(c, IF boxed THEN "d_lock" ELSE "d_files")

\* An in-flight create is cancelled and waited for first.
DestroyEnter(c) ==
    /\ At(c, "d_enter")
    /\ \/ /\ handle # "none"
          /\ handle' = "cancelled"
          /\ Goto(c, "d_wait")
          /\ UNCHANGED <<boxed, entry>>
       \/ /\ handle = "none"
          /\ TakeBox(c)
          /\ UNCHANGED handle
    /\ UNCHANGED <<draining, sb, vm, proc, watch, host, disk>>

DestroyWait(c) ==
    /\ At(c, "d_wait")
    /\ handle = "none"
    /\ TakeBox(c)
    /\ UNCHANGED <<handle, draining, sb, vm, proc, watch, host, disk>>

\* lifecycleMu, then the racing-Pause guard.
DestroyLock(c) ==
    /\ At(c, "d_lock")
    /\ Unlocked
    /\ \/ /\ entry[c] # "paused" /\ sb.st = "paused"
          /\ boxed' = TRUE
          /\ DestroyReturns(c)
          /\ UNCHANGED sb
       \/ /\ ~(entry[c] # "paused" /\ sb.st = "paused")
          /\ sb' = [sb EXCEPT !.lock = c]
          /\ Goto(c, "d_cleanup")
          /\ UNCHANGED <<boxed>>
    /\ UNCHANGED <<entry, handle, draining, vm, proc, watch, host, disk>>

\* cleanup: it releases what the fields name and clears none of them.
DestroyCleanup(c) ==
    /\ At(c, "d_cleanup")
    /\ KillVM
    /\ host' = TornDown
    /\ disk' = [disk EXCEPT !.cow = disk.cow /\ ~sb.dm]
    /\ Goto(c, "d_files")
    /\ UNCHANGED <<entry, handle, draining, boxed, sb, watch>>

\* RemoveAll of the sandbox directory, also when m.boxes had no such sandbox.
DestroyFiles(c) ==
    /\ At(c, "d_files")
    /\ disk' = [cow |-> FALSE, snap |-> FALSE]
    /\ sb' = IF sb.lock = c THEN [sb EXCEPT !.lock = None] ELSE sb
    /\ DestroyReturns(c)
    /\ UNCHANGED <<entry, handle, draining, boxed, vm, proc, watch, host>>

-----------------------------------------------------------------------------
(* Pause *)

PauseCall(c) ==
    /\ Op(c) = "pause" /\ At(c, "idle")
    /\ Goto(c, "p_get")
    /\ UNCHANGED <<entry, handle, draining, boxed, sb, vm, proc, watch, host, disk>>

PauseGet(c) ==
    /\ At(c, "p_get")
    /\ \/ boxed /\ Goto(c, "p_lock")
       \/ ~boxed /\ PauseReturns(c, FALSE)
    /\ UNCHANGED <<entry, handle, draining, boxed, sb, vm, proc, watch, host, disk>>

\* The sandboxState found before the lock is used after it, in m.boxes or not.
PauseLock(c) ==
    /\ At(c, "p_lock")
    /\ Unlocked
    /\ \/ /\ sb.st = "running"
          /\ sb' = [sb EXCEPT !.lock = c]
          /\ Goto(c, "p_mem")
         
       \/ /\ sb.st # "running"
          /\ PauseReturns(c, sb.st = "paused")
          /\ UNCHANGED sb
    /\ UNCHANGED <<entry, handle, draining, boxed, vm, proc, watch, host, disk>>

\* ensureMemoryMaterialized asks envd about a lazily restored guest only.
Materialized == ~sb.lazy \/ Alive(vm)

PauseMaterialize(c) ==
    /\ At(c, "p_mem")
    /\ \/ /\ Materialized
          /\ sb' = [sb EXCEPT !.st = "pausing"]
          /\ Goto(c, "p_quiesce")
         
       \/ /\ sb.lazy
          /\ Unlock
          /\ PauseReturns(c, FALSE)
    /\ UNCHANGED <<entry, handle, draining, boxed, vm, proc, watch, host, disk>>

\* quiesceAndPauseCH, then vm.Snapshot into the staging directory; either may
\* fail, and does when the VM is gone.
Freeze(c, next, failed) ==
    \/ /\ vm # 0 /\ proc[vm] = "running"
       /\ proc' = [proc EXCEPT ![vm] = "frozen"]
       /\ Goto(c, next)
    \/ /\ Goto(c, failed)
       /\ UNCHANGED proc

PauseQuiesce(c) ==
    /\ At(c, "p_quiesce")
    /\ Freeze(c, "p_snapshot", "p_rollback")
    /\ UNCHANGED <<entry, handle, draining, boxed, sb, vm, watch, host, disk>>

PauseSnapshot(c) ==
    /\ At(c, "p_snapshot")
    /\ \/ Alive(vm) /\ Goto(c, "p_release")
       \/ Goto(c, "p_rollback")
    /\ UNCHANGED <<entry, handle, draining, boxed, sb, vm, proc, watch, host, disk>>

\* rollbackToRunning: unfreeze the VM, or give the sandbox up as Error.
PauseRollbackKeepsLock(c) ==
    /\ At(c, "p_rollback")
    /\ proc' = IF Alive(vm) THEN [proc EXCEPT ![vm] = "running"] ELSE proc
    /\ sb' = [sb EXCEPT !.st = IF Alive(vm) THEN "running" ELSE "error"]
    /\ PauseReturns(c, FALSE)
    /\ UNCHANGED <<entry, handle, draining, boxed, vm, watch, host, disk>>

PauseRollback(c) ==
    /\ At(c, "p_rollback")
    /\ \/ /\ Alive(vm)
          /\ proc' = [proc EXCEPT ![vm] = "running"]
          /\ sb' = [sb EXCEPT !.st = "running", !.lock = None]
          /\ PauseReturns(c, FALSE)
       \/ /\ sb' = [sb EXCEPT !.st = "error"]
          /\ Goto(c, "p_wedged")
          /\ UNCHANGED <<proc>>
    /\ UNCHANGED <<entry, handle, draining, boxed, vm, watch, host, disk>>

\* releaseRuntime(dropCow), SlotIndex zeroed, the sandbox directory removed.
PauseWedged(c) ==
    /\ At(c, "p_wedged")
    /\ KillVM
    /\ host' = TornDown
    /\ disk' = [cow |-> FALSE, snap |-> FALSE]
    /\ sb' = [sb EXCEPT !.slot = FALSE, !.dm = FALSE, !.base = FALSE, !.lock = None]
    /\ PauseReturns(c, FALSE)
    /\ UNCHANGED <<entry, handle, draining, boxed, watch>>

\* releaseRuntime(keepCow): the slot stays held for Resume.
PauseReleaseFreesSlot(c) ==
    /\ At(c, "p_release")
    /\ KillVM
    /\ host' = TornDown
    /\ sb' = [sb EXCEPT !.dm = FALSE, !.base = FALSE]
    /\ Goto(c, "p_swap")
    /\ UNCHANGED <<entry, handle, draining, boxed, watch, disk>>

PauseRelease(c) ==
    /\ At(c, "p_release")
    /\ KillVM
    /\ host' = [TornDown EXCEPT !.slot = host.slot]
    /\ sb' = [sb EXCEPT !.dm = FALSE, !.base = FALSE]
    /\ Goto(c, "p_swap")
    /\ UNCHANGED <<entry, handle, draining, boxed, watch, disk>>

\* The CoW moves into the staging directory (a missing one is not an error)
\* and the staging directory replaces the sandbox directory.
PauseSwap(c) ==
    /\ At(c, "p_swap")
    /\ \/ /\ disk' = [disk EXCEPT !.snap = TRUE]
          /\ sb' = [sb EXCEPT !.st = "paused", !.lock = None]
          /\ PauseReturns(c, TRUE)
       \/ /\ \E cow \in {FALSE, disk.cow} : disk' = [disk EXCEPT !.cow = cow]
          /\ sb' = [sb EXCEPT !.st = "error", !.lock = None]
          /\ PauseReturns(c, FALSE)
    /\ UNCHANGED <<entry, handle, draining, boxed, vm, proc, watch, host>>

-----------------------------------------------------------------------------
(* Resume *)

ResumeCall(c) ==
    /\ Op(c) = "resume" /\ At(c, "idle")
    /\ Goto(c, IF draining \/ ~boxed THEN "done" ELSE "r_lock")
    /\ UNCHANGED <<entry, handle, draining, boxed, sb, vm, proc, watch, host, disk>>

\* Only a paused sandbox whose snapshot meta can be read is resumed.
ResumeLock(c) ==
    /\ At(c, "r_lock")
    /\ Unlocked
    /\ \/ /\ sb.st = "paused" /\ disk.snap
          /\ sb' = [sb EXCEPT !.lock = c]
          /\ Goto(c, "r_acquire")
       \/ /\ ~(sb.st = "paused" /\ disk.snap)
          /\ Goto(c, "done")
          /\ UNCHANGED sb
    /\ UNCHANGED <<entry, handle, draining, boxed, vm, proc, watch, host, disk>>

ResumeAcquire(c) ==
    /\ At(c, "r_acquire")
    /\ \/ /\ disk.cow
          /\ host' = [host EXCEPT !.refs = @ + 1, !.dm = TRUE]
          /\ Goto(c, "r_launch")
          /\ UNCHANGED sb
       \/ /\ Unlock
          /\ Goto(c, "done")
          /\ UNCHANGED host
    /\ UNCHANGED <<entry, handle, draining, boxed, vm, proc, watch, disk>>

\* launchRestoredVM, and the in-memory state rehydrated under m.mu.
ResumeLaunch(c) ==
    /\ At(c, "r_launch")
    /\ \/ /\ \E g \in Fresh : vm' = g /\ proc' = [proc EXCEPT ![g] = "running"]
          /\ sb' = [sb EXCEPT !.st = "running", !.dm = TRUE, !.base = TRUE, !.lazy = TRUE]
          /\ Goto(c, "r_watch")
          /\ UNCHANGED host
       \/ /\ host' = [host EXCEPT !.refs = LoopDropped, !.dm = FALSE]
          /\ Unlock
          /\ Goto(c, "done")
          /\ UNCHANGED <<vm, proc>>
    /\ UNCHANGED <<entry, handle, draining, boxed, watch, disk>>

ResumeWatch(c) ==
    /\ At(c, "r_watch")
    /\ watch' = Watched
    /\ Unlock
    /\ Goto(c, "done")
    /\ UNCHANGED <<entry, handle, draining, boxed, vm, proc, host, disk>>

-----------------------------------------------------------------------------
(* CreateSnapshot and FlattenRootfs *)

SnapshotCall(c) ==
    /\ Op(c) \in {"snapshot", "flatten"} /\ At(c, "idle")
    /\ Goto(c, IF boxed THEN "s_lock" ELSE "done")
    /\ UNCHANGED <<entry, handle, draining, boxed, sb, vm, proc, watch, host, disk>>

\* A running sandbox is frozen and thawed; CreateSnapshot reads a paused one
\* from disk, through a loop reference and dm device of its own.
SnapshotLock(c) ==
    /\ At(c, "s_lock")
    /\ Unlocked
    /\ \/ /\ sb.st = "running"
          /\ sb' = [sb EXCEPT !.lock = c]
          /\ Goto(c, "s_freeze")
          /\ UNCHANGED host
       \/ /\ Op(c) = "snapshot" /\ sb.st = "paused" /\ disk.snap /\ disk.cow
          /\ sb' = [sb EXCEPT !.lock = c]
          /\ host' = [host EXCEPT !.refs = @ + 1]
          /\ Goto(c, "s_flatten")
       \/ /\ sb.st # "running"
          /\ Goto(c, "done")
          /\ UNCHANGED <<sb, host>>
    /\ UNCHANGED <<entry, handle, draining, boxed, vm, proc, watch, disk>>

SnapshotFreeze(c) ==
    /\ At(c, "s_freeze")
    /\ \/ /\ Op(c) = "flatten" \/ Materialized
          /\ Freeze(c, "s_thaw", "s_thaw")
          /\ UNCHANGED sb
       \/ /\ Op(c) = "snapshot" /\ sb.lazy
          /\ Unlock
          /\ Goto(c, "done")
          /\ UNCHANGED proc
    /\ UNCHANGED <<entry, handle, draining, boxed, vm, watch, host, disk>>

\* vm.Resume; its failure leaves the status Running.
SnapshotThaw(c) ==
    /\ At(c, "s_thaw")
    /\ \/ Alive(vm) /\ proc' = [proc EXCEPT ![vm] = "running"]
       \/ UNCHANGED proc
    /\ Unlock
    /\ Goto(c, "done")
    /\ UNCHANGED <<entry, handle, draining, boxed, vm, watch, host, disk>>

SnapshotFlatten(c) ==
    /\ At(c, "s_flatten")
    /\ host' = [host EXCEPT !.refs = LoopDropped]
    /\ Unlock
    /\ Goto(c, "done")
    /\ UNCHANGED <<entry, handle, draining, boxed, vm, proc, watch, disk>>

-----------------------------------------------------------------------------
(* The TTL reaper: one expired sandbox, paused or else destroyed *)

ReapScan(c) ==
    /\ Op(c) = "reap" /\ At(c, "idle")
    /\ boxed /\ sb.st = "running"
    /\ ~draining
    /\ Goto(c, "p_get")
    /\ UNCHANGED <<entry, handle, draining, boxed, sb, vm, proc, watch, host, disk>>

-----------------------------------------------------------------------------
(* Shutdown *)

ShutdownCall(c) ==
    /\ Op(c) = "shutdown" /\ At(c, "idle")
    /\ ~draining
    /\ draining' = TRUE
    /\ Goto(c, "x_cancel")
    /\ UNCHANGED <<entry, handle, boxed, sb, vm, proc, watch, host, disk>>

\* Cancel the creates registered now, and wait for exactly those.
ShutdownCancel(c) ==
    /\ At(c, "x_cancel")
    /\ handle' = IF handle = "none" THEN "none" ELSE "cancelled"
    /\ Goto(c, IF handle = "none" THEN "x_pause" ELSE "x_wait")
    /\ UNCHANGED <<entry, draining, boxed, sb, vm, proc, watch, host, disk>>

ShutdownWait(c) ==
    /\ At(c, "x_wait")
    /\ handle = "none"
    /\ Goto(c, "x_pause")
    /\ UNCHANGED <<entry, handle, draining, boxed, sb, vm, proc, watch, host, disk>>

\* PauseAll picks the running sandboxes, the destroy loop those not paused.
ShutdownPauseAll(c) ==
    /\ At(c, "x_pause")
    /\ Goto(c, IF boxed /\ sb.st = "running" THEN "p_get" ELSE "x_list")
    /\ UNCHANGED <<entry, handle, draining, boxed, sb, vm, proc, watch, host, disk>>

ShutdownListRunning(c) ==
    /\ At(c, "x_list")
    /\ Goto(c, IF boxed /\ sb.st = "running" THEN "d_enter" ELSE "x_loops")
    /\ UNCHANGED <<entry, handle, draining, boxed, sb, vm, proc, watch, host, disk>>

ShutdownList(c) ==
    /\ At(c, "x_list")
    /\ Goto(c, IF boxed /\ sb.st # "paused" THEN "d_enter" ELSE "x_loops")
    /\ UNCHANGED <<entry, handle, draining, boxed, sb, vm, proc, watch, host, disk>>

\* loops.ReleaseAll
ShutdownLoops(c) ==
    /\ At(c, "x_loops")
    /\ host' = [host EXCEPT !.refs = 0]
    /\ Goto(c, "done")
    /\ UNCHANGED <<entry, handle, draining, boxed, sb, vm, proc, watch, disk>>

-----------------------------------------------------------------------------
(* VM processes, their crash watchers, and the other sandboxes *)

Crash(g) ==
    /\ MayCrash
    /\ Alive(g)
    /\ proc' = [proc EXCEPT ![g] = "dead"]
    /\ UNCHANGED <<pc, entry, handle, draining, boxed, sb, vm, watch, host, disk>>

\* The watcher wakes on the exit of its own VM and decides, under m.mu, from
\* m.boxes and the status; a closed stopCh may win the select instead.
WatcherWakeOnStop(g) ==
    /\ watch[g] = "armed"
    /\ draining
    /\ watch' = [watch EXCEPT ![g] = "done"]
    /\ UNCHANGED <<pc, entry, handle, draining, boxed, sb, vm, proc, host, disk>>

WatcherWake(g) ==
    /\ watch[g] = "armed"
    /\ \/ /\ proc[g] = "dead"
          /\ LET crashed == boxed /\ sb.st \notin {"pausing", "paused"}
             IN  /\ boxed' = (boxed /\ ~crashed)
                 /\ watch' = [watch EXCEPT ![g] = IF crashed THEN "cleanup" ELSE "done"]
       \/ /\ draining
          /\ watch' = [watch EXCEPT ![g] = "done"]
          /\ UNCHANGED boxed
    /\ UNCHANGED <<pc, entry, handle, draining, sb, vm, proc, host, disk>>

\* cleanupAfterCrash, under lifecycleMu; like cleanup, it clears no field.
WatcherCleanup(g) ==
    /\ watch[g] = "cleanup"
    /\ Unlocked
    /\ KillVM
    /\ host' = TornDown
    /\ disk' = [cow |-> FALSE, snap |-> FALSE]
    /\ watch' = [watch EXCEPT ![g] = "done"]
    /\ UNCHANGED <<pc, entry, handle, draining, boxed, sb>>

\* Another sandbox's Create is given the slot this one has freed.
OtherAllocates ==
    /\ sb.st # "none" /\ host.slot = "free"
    /\ host' = [host EXCEPT !.slot = "other"]
    /\ UNCHANGED <<pc, entry, handle, draining, boxed, sb, vm, proc, watch, disk>>

-----------------------------------------------------------------------------
CallStep(c) ==
    \/ CreateRegister(c) \/ CreateAcquire(c) \/ CreateBoot(c) \/ CreatePublish(c)
    \/ CreateWatch(c) \/ CreateFinish(c)
    \/ DestroyEnter(c) \/ DestroyWait(c) \/ DestroyLock(c) \/ DestroyCleanup(c)
    \/ DestroyFiles(c)
    \/ PauseGet(c) \/ PauseLock(c) \/ PauseMaterialize(c) \/ PauseQuiesce(c)
    \/ PauseSnapshot(c) \/ PauseRollback(c) \/ PauseWedged(c) \/ PauseRelease(c)
    \/ PauseSwap(c)
    \/ ResumeLock(c) \/ ResumeAcquire(c) \/ ResumeLaunch(c) \/ ResumeWatch(c)
    \/ SnapshotLock(c) \/ SnapshotFreeze(c) \/ SnapshotThaw(c) \/ SnapshotFlatten(c)
    \/ ShutdownCancel(c) \/ ShutdownWait(c) \/ ShutdownPauseAll(c) \/ ShutdownList(c)
    \/ ShutdownLoops(c)

CallArrives(c) ==
    \/ CreateCall(c) \/ DestroyCall(c) \/ PauseCall(c) \/ ResumeCall(c)
    \/ SnapshotCall(c) \/ ReapScan(c) \/ ShutdownCall(c)

WatcherStep(g) == WatcherWake(g) \/ WatcherCleanup(g)

Next ==
    \/ \E c \in Calls : CallArrives(c) \/ CallStep(c)
    \/ \E g \in Gens : Crash(g) \/ WatcherStep(g)
    \/ OtherAllocates

(***************************************************************************)
(* Goroutines are scheduled: a call that has begun, and a watcher whose VM *)
(* has exited, go on.  Nothing obliges a call to arrive or a VM to crash.  *)
(***************************************************************************)
Fairness ==
    /\ \A c \in Calls : WF_vars(CallStep(c))
    /\ \A g \in Gens : WF_vars(WatcherStep(g))

Spec == Init /\ [][Next]_vars /\ Fairness

-----------------------------------------------------------------------------
(* Properties *)

Settled ==
    /\ \A c \in Calls : pc[c] \in {"absent", "idle", "done"}
    /\ \A g \in Gens : watch[g] # "cleanup"

(***************************************************************************)
(* Nothing leaks: once no call is in progress, a sandbox that is not in    *)
(* m.boxes has no VM process, no dm device, no slot and no loop reference  *)
(* - whichever of Create's rollback, Destroy, Pause's rollback and the     *)
(* crash watcher took it down (the comments at manager.go:362-366).        *)
(***************************************************************************)
NoLeak ==
    Settled /\ ~boxed =>
        /\ \A g \in Gens : ~Alive(g)
        /\ ~host.dm /\ host.slot # "self" /\ host.refs <= 1

(***************************************************************************)
(* Teardown happens once: this sandbox never frees the slot after it has   *)
(* been given to another one, nor the loop reference another sandbox holds *)
(* on the shared base image (pause.go:218-219, 543-548).                   *)
(***************************************************************************)
OthersKept ==
    [][/\ host.slot = "other" => host'.slot = "other"
       /\ (host.refs >= 1 /\ ~draining) => host'.refs >= 1]_vars

Destroyers == {c \in Calls : Op(c) \in {"destroy", "reap", "shutdown"} /\ ~At(c, "absent")}

(***************************************************************************)
(* A paused sandbox that no call is working on can be resumed: snapshot    *)
(* and CoW are on disk, it still holds its slot, and no VM runs on them    *)
(* (the racing-Pause guard, manager.go:616-622).  Two destroyers break it: *)
(* one has taken the sandbox off the map and waits for the Pause, the      *)
(* other finds no sandbox, removes its files (manager.go:637) and the      *)
(* first then puts the paused sandbox back.                                *)
(***************************************************************************)
PausedIntact ==
    boxed /\ sb.st = "paused" /\ Unlocked /\ (\A c, d \in Destroyers : c = d) =>
        /\ disk.snap /\ disk.cow /\ host.slot = "self"
        /\ \A g \in Gens : ~Alive(g)

(***************************************************************************)
(* No zombie: a sandbox listed as running that no call is working on has a *)
(* registered VM, and if that VM has exited its watcher is still to act -  *)
(* it has not stood down because of a Pause that then rolled back.         *)
(***************************************************************************)
RunningWatched ==
    boxed /\ sb.st = "running" /\ Unlocked /\ handle = "none" /\ ~draining =>
        vm # 0 /\ (proc[vm] = "dead" => watch[vm] = "armed")

(***************************************************************************)
(* A crash watcher cleans up the VM it watched and no later one: the exit  *)
(* of a VM stopped by Pause is "deliberate" (manager.go:1278-1281).        *)
(***************************************************************************)
WatcherCleansOwnVM ==
    \A g \in Gens : watch[g] = "cleanup" => vm \in {0, g}

ShutdownReturned == Settled /\ \E c \in Calls : Op(c) = "shutdown" /\ At(c, "done")
Starts == {c \in Calls : Op(c) \in {"create", "resume"} /\ ~At(c, "absent")}

(***************************************************************************)
(* Once Shutdown and the Pauses, Destroys and crash cleanups that were in  *)
(* progress have returned, no VM process of the manager is left            *)
(* (manager.go:1142-1146).  A Create or Resume that was past its draining  *)
(* check is a case of its own, NothingStartsAfterShutdown.                 *)
(***************************************************************************)
NothingRunsAfterShutdown ==
    ShutdownReturned /\ Starts = {} => \A g \in Gens : ~Alive(g)

(***************************************************************************)
(* The same with a Create or a Resume in flight: "any in-flight HTTP       *)
(* handlers can't add sandboxes after PauseAll snapshotted state"          *)
(* (main.go:214-216).                                                      *)
(***************************************************************************)
NothingStartsAfterShutdown ==
    ShutdownReturned => \A g \in Gens : ~Alive(g)

(***************************************************************************)
(* No deadlock between lifecycleMu, m.mu and the create handle: again and  *)
(* again no call is in progress, so (each call being made once) every call *)
(* that has begun returns, and every crash cleanup finishes.               *)
(***************************************************************************)
CallsReturn == []<>Settled

(***************************************************************************)
(* A crashed VM does not stay listed as running, nor does one whose        *)
(* watcher stood down.                                                     *)
(***************************************************************************)
CrashNoticed ==
    /\ []RunningWatched
    /\ boxed /\ sb.st = "running" /\ ~Alive(vm) ~> draining \/ ~boxed \/ sb.st # "running" \/ Alive(vm)
=============================================================================
