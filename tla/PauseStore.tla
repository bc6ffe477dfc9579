----------------------------- MODULE PauseStore -----------------------------
(***************************************************************************)
(* What a host keeps of a capsule across pause, resume, agent crash and     *)
(* restart (pkg/sandbox: pause.go, launch_snapshot.go, restore_running.go,  *)
(* restore_paused.go, state_file.go, setup.go; pkg/vm): the capsule's       *)
(* directory, the VM process, its block devices (module BlockDevices) and   *)
(* its network (module HostNetwork).                                        *)
(*                                                                         *)
(* The guest's work is a number that every write advances both in memory    *)
(* and on the copy-on-write disk.  A saved image holds the memory's number; *)
(* the CoW file next to it holds the disk's.  A step is a rename, a device  *)
(* or network operation, or a call to the VM or to the guest agent; the     *)
(* agent can crash between any two of them.  Calls on one capsule follow    *)
(* each other here, as its lifecycle lock makes them; module SandboxManager *)
(* is about their races.                                                    *)
(***************************************************************************)
EXTENDS BlockDevices, HostNetwork, PunchHoles, Integers

VARIABLES
    mix,        \* the scenario: calls, faults
    phase,      \* the agent: "down", "guarded", "running", "paused", "up"
    todo,       \* directories RestoreRunningSandboxes has not visited
    dir,        \* sandboxes/<id>: CoW file, pause image, running-state file
    stage,      \* sandboxes/<id>.staging-*
    trash,      \* sandboxes/<id>.trash-*
    tmpl,       \* template directories
    vm,         \* Cloud Hypervisor processes
    box,        \* Manager.boxes
    claim,      \* slot claim files
    blk, net,   \* block devices, network
    uplink,     \* the host has a default route
    call,       \* the calls
    crashes,    \* number of crashes so far
    torn,       \* capsules whose disk the agent died attaching
    unswept     \* slots whose RemoveNetwork reported that rules stay

vars == <<mix, phase, todo, dir, stage, trash, tmpl, vm, box, claim, blk, net, uplink, call, crashes, torn, unswept>>

\* What the steps of a call never touch.
agent == <<mix, phase, todo, crashes, torn, uplink>>

\* The largest number of calls in a scenario.
MaxCalls == 7

Templates == Images \ {0}
Calls == DOMAIN mix.calls
Op(c) == mix.calls[c]
Fails(step) == step \in mix.fails
Busy == IF Fails("dmremove") THEN BOOLEAN ELSE {FALSE}

At(c, op, pc) == call[c].pc = pc /\ Op(c).op = op
Go(c, pc) == call' = [call EXCEPT ![c].pc = pc]
InFlight(c) == call[c].pc \notin {"new", "done"}
Idle(b) == \A c \in Calls : Op(c).box = b => ~InFlight(c)

\* A call that starts: the agent serves, and the calls it comes after returned.
Begins(c, op) == phase = "up" /\ At(c, op, "new") /\ \A d \in Op(c).after : call[d].pc = "done"

Status(b) == IF box[b] = None THEN "none" ELSE box[b].status

IsSnapshotTemplate(t) == tmpl[t] # None /\ {"config", "rootfs", "state"} \subseteq tmpl[t].files
HasRootfs(i) == i = 0 \/ (tmpl[i] # None /\ "rootfs" \in tmpl[i].files)

NoStore ==
    /\ phase = "up" /\ todo = {} /\ crashes = 0 /\ torn = {} /\ unswept = {}
    /\ dir = [b \in Boxes |-> None] /\ stage = dir /\ trash = dir /\ vm = dir /\ box = dir
    /\ tmpl = [t \in Templates |-> None]
    /\ claim = {} /\ uplink = TRUE
    /\ blk = NoDevices
    /\ net = EnsureEgressGuard(NoNetwork, GuardSteps)
    /\ call = [c \in Calls |-> [pc |-> "new", slot |-> 0, dm |-> None, lazy |-> FALSE, st |-> None]]

-----------------------------------------------------------------------------
(* The VM (pkg/vm)                                                         *)

\* A cold boot.  Every page is resident.
VMCreate(work) == [run |-> TRUE, mem |-> work, resident |-> TRUE, pre |-> "idle"]

\* CreateFromSnapshot and Resume: memory is faulted in lazily, and the guest
\* agent's own preload flags come back as they were saved.
VMCreateFromSnapshot(img) == [run |-> TRUE, mem |-> img.mem, resident |-> FALSE, pre |-> img.pre]

\* vm.snapshot skips pages that are not resident.
VMSnapshot(v) == [mem |-> v.mem, holes |-> ~v.resident, pre |-> v.pre]

\* Info and Pause: only a VM that is alive and running can be frozen.
VMPausable(b) == vm[b] # None /\ vm[b].run

-----------------------------------------------------------------------------
(* The guest                                                               *)

\* Guest work reaches memory and disk alike.
Work(b) ==
    /\ vm[b] # None /\ vm[b].run /\ vm[b].mem < mix.work
    /\ dir[b] # None /\ dir[b].cow # None
    /\ vm' = [vm EXCEPT ![b].mem = @ + 1]
    /\ dir' = [dir EXCEPT ![b].cow = @ + 1]
    /\ UNCHANGED <<agent, stage, trash, tmpl, box, claim, blk, net, call, unswept>>

\* POST /memory/preload starts a run, or re-arms one that failed.
StartMemoryPreload(v) == IF v.pre \in {"idle", "failed"} THEN [v EXCEPT !.pre = "running"] ELSE v

\* The guest's preload thread ends.
Preloaded(b) ==
    /\ vm[b] # None /\ vm[b].run /\ vm[b].pre = "running"
    /\ \/ vm' = [vm EXCEPT ![b].pre = "done", ![b].resident = TRUE]
       \/ Fails("preload") /\ vm' = [vm EXCEPT ![b].pre = "failed"]
    /\ UNCHANGED <<agent, dir, stage, trash, tmpl, box, claim, blk, net, call, unswept>>

\* startMemoryLoader's goroutine: POST, then poll until the run ended.
MemoryLoader(b) ==
    /\ box[b] # None
    /\ \/ /\ box[b].loader = "post"
          /\ vm' = IF VMPausable(b) THEN [vm EXCEPT ![b] = StartMemoryPreload(@)] ELSE vm
          /\ box' = [box EXCEPT ![b].loader = IF VMPausable(b) THEN "wait" ELSE "none"]
       \/ /\ box[b].loader = "wait"
          /\ vm[b] # None => vm[b].pre # "running"
          /\ box' = [box EXCEPT ![b].loader = "none"]
          /\ UNCHANGED vm
    /\ UNCHANGED <<agent, dir, stage, trash, tmpl, claim, blk, net, call, unswept>>

\* The VM process dies.
VMDies(b) ==
    /\ Fails("vm") /\ vm[b] # None
    /\ vm' = [vm EXCEPT ![b] = None]
    /\ UNCHANGED <<agent, dir, stage, trash, tmpl, box, claim, blk, net, call, unswept>>

-----------------------------------------------------------------------------
(* What a box holds                                                        *)

NewDir(cow) == [cow |-> cow, snap |-> None, state |-> None]

NewBox(status, s, lazy, i, dm) ==
    [status |-> status, slot |-> s, lazy |-> lazy, img |-> i, base |-> i, dm |-> dm, loader |-> "none"]

\* RemoveNetwork of slot s (0: none held).
NetRemoved(s) ==
    /\ net' = IF s = 0 THEN net ELSE RemoveNetwork(net, s, uplink)
    /\ unswept' = IF s = 0 \/ uplink THEN unswept ELSE unswept \cup {s}

\* The slot whose network box b has up: none once its runtime is released.
NetOf(b) == IF box[b].dm = None THEN 0 ELSE box[b].slot

\* The dm-snapshot and the base image's reference, with the handles b has.
DevicesReleased(b, busy) ==
    LET d == IF box[b].dm = None THEN blk ELSE RemoveSnapshot(blk, RunDM(b), box[b].dm, busy)
    IN IF box[b].base = None THEN d ELSE Release(d, box[b].base)

\* releaseRuntime clears the handles it released.
RuntimeCleared(x) == [x EXCEPT !.dm = None, !.base = None, !.loader = "none"]

-----------------------------------------------------------------------------
(* Create and createFromSnapshotTemplate                                   *)

\* The image's loop device, the directory, the CoW file and the dm-snapshot.
CreateDisk(c) ==
    LET b == Op(c).box
        i == Op(c).img
        lazy == i # 0 /\ IsSnapshotTemplate(i)
        ok == box[b] = None /\ HasRootfs(i) /\ (lazy => "meta" \in tmpl[i].files)
    IN /\ Begins(c, "create")
       /\ IF ok
          THEN /\ blk' = CreateSnapshotDM(Acquire(blk, i), b, i)
               /\ dir' = [dir EXCEPT ![b] = NewDir(IF i = 0 THEN 0 ELSE tmpl[i].disk)]
               /\ call' = [call EXCEPT ![c].pc = "net", ![c].lazy = lazy, ![c].dm = blk'.dm[RunDM(b)].cow]
          ELSE Go(c, "done") /\ UNCHANGED <<blk, dir>>
       /\ UNCHANGED <<agent, stage, trash, tmpl, vm, box, claim, net, unswept>>

\* createResources.rollback past the network: the CoW file goes with the dm
\* device; the directory stays, empty.
DiskRolledBack(c, busy) ==
    LET b == Op(c).box
    IN /\ blk' = Release(FileGone(RemoveSnapshot(blk, RunDM(b), call[c].dm, busy), b), Op(c).img)
       /\ dir' = [dir EXCEPT ![b].cow = None]
       /\ Go(c, "done")

\* SlotAllocator.Allocate, then CreateNetwork.
CreateNet(c) ==
    LET s == Min(Slots \ claim)
    IN /\ At(c, "create", "net")
       /\ IF Slots \subseteq claim
          THEN (\E busy \in Busy : DiskRolledBack(c, busy)) /\ UNCHANGED <<net, claim>>
          ELSE \E k \in Reached(net, s, uplink, Fails("net")) :
                /\ net' = CreateNetwork(net, s, k)
                /\ IF Complete(k)
                   THEN /\ claim' = claim \cup {s}
                        /\ call' = [call EXCEPT ![c].pc = "boot", ![c].slot = s]
                        /\ UNCHANGED <<blk, dir>>
                   ELSE /\ \E busy \in Busy : DiskRolledBack(c, busy)
                        /\ UNCHANGED claim
       /\ UNCHANGED <<agent, stage, trash, tmpl, vm, box, unswept>>

\* The VM boots, or is restored from the template's memory image, and the box
\* is registered.
CreateBoot(c) ==
    LET b == Op(c).box
        i == Op(c).img
    IN /\ At(c, "create", "boot")
       /\ call[c].lazy => tmpl[i] # None
       /\ vm' = [vm EXCEPT ![b] = IF call[c].lazy THEN VMCreateFromSnapshot(tmpl[i]) ELSE VMCreate(dir[b].cow)]
       /\ box' = [box EXCEPT ![b] = NewBox("running", call[c].slot, call[c].lazy, i, call[c].dm)]
       /\ Go(c, IF call[c].lazy THEN "init" ELSE "state")
       /\ UNCHANGED <<agent, dir, stage, trash, tmpl, claim, blk, net, unswept>>

\* It does not: everything is rolled back.
CreateFails(c) ==
    /\ At(c, "create", "boot")
    /\ Fails("boot") \/ (call[c].lazy /\ tmpl[Op(c).img] = None)
    /\ NetRemoved(call[c].slot)
    /\ claim' = claim \ {call[c].slot}
    /\ \E busy \in Busy : DiskRolledBack(c, busy)
    /\ UNCHANGED <<agent, stage, trash, tmpl, vm, box>>

-----------------------------------------------------------------------------
(* After a launch: /init and the memory loader; the running-state file     *)

\* /init is a new lifecycle: the guest agent's preload flags start over.
PostInit(v) == [v EXCEPT !.pre = "idle"]

\* initAndStartMemoryLoader.  A failing /init is only logged.
initAndStartMemoryLoader(c) ==
    LET b == Op(c).box
    IN /\ call[c].pc = "init"
       /\ \/ vm' = IF VMPausable(b) THEN [vm EXCEPT ![b] = PostInit(@)] ELSE vm
          \/ Fails("init") /\ UNCHANGED vm
       /\ box' = [box EXCEPT ![b].loader = "post"]
       /\ Go(c, IF Op(c).op = "resume" THEN "done" ELSE "state")
       /\ UNCHANGED <<agent, dir, stage, trash, tmpl, claim, blk, net, unswept>>

\* Written beside the CoW file, unless the VM was cleaned up meanwhile.
writeRunningState(c) ==
    LET b == Op(c).box
    IN /\ call[c].pc = "state"
       /\ dir' = IF box[b] = None THEN dir
                 ELSE [dir EXCEPT ![b].state = [slot |-> box[b].slot, base |-> box[b].img, lazy |-> box[b].lazy]]
       /\ Go(c, IF Op(c).op = "resume" THEN "init" ELSE "done")
       /\ UNCHANGED <<agent, stage, trash, tmpl, vm, box, claim, blk, net, unswept>>

-----------------------------------------------------------------------------
(* Pause                                                                   *)

\* The guest's own preload status decides whether memory is complete.
Materialized(v) == v # None /\ v.pre = "done"

\* ensureMemoryMaterialized: wait for the loader, POST, ...
PreloadAsk(c) ==
    LET b == Op(c).box
    IN /\ call[c].pc = "verify"
       /\ box[b].loader = "none"
       /\ IF VMPausable(b)
          THEN vm' = [vm EXCEPT ![b] = StartMemoryPreload(@)] /\ Go(c, "preload")
          ELSE UNCHANGED vm /\ Go(c, "done")
       /\ UNCHANGED <<agent, dir, stage, trash, tmpl, box, claim, blk, net, unswept>>

\* ... and wait for the run's end.  The pause goes on as Pausing.
PreloadVerdict(c) ==
    LET b == Op(c).box
        ok == Materialized(vm[b])
    IN /\ call[c].pc = "preload"
       /\ vm[b] # None => vm[b].pre # "running"
       /\ Go(c, IF ok THEN "freeze" ELSE "done")
       /\ box' = IF ok /\ Op(c).op = "pause" THEN [box EXCEPT ![b].status = "pausing"] ELSE box
       /\ UNCHANGED <<agent, dir, stage, trash, tmpl, vm, claim, blk, net, unswept>>

PauseBegin(c) ==
    LET b == Op(c).box
    IN /\ Begins(c, "pause")
       /\ Go(c, IF Status(b) # "running" THEN "done" ELSE IF box[b].lazy THEN "verify" ELSE "freeze")
       /\ box' = IF Status(b) = "running" /\ ~box[b].lazy THEN [box EXCEPT ![b].status = "pausing"] ELSE box
       /\ UNCHANGED <<agent, dir, stage, trash, tmpl, vm, claim, blk, net, unswept>>

\* rollbackToRunning: the VM is thawed, or, when it cannot be, everything the
\* capsule has is given up.
RollbackToRunning(c) ==
    LET b == Op(c).box
    IN /\ stage' = [stage EXCEPT ![b] = None]
       /\ \/ /\ vm[b] # None
             /\ vm' = [vm EXCEPT ![b].run = TRUE]
             /\ box' = [box EXCEPT ![b].status = "running"]
             /\ UNCHANGED <<dir, claim, blk, net, unswept>>
          \/ /\ vm[b] = None \/ Fails("thaw")
             /\ vm' = [vm EXCEPT ![b] = None]
             /\ NetRemoved(NetOf(b))
             /\ claim' = claim \ {box[b].slot}
             /\ \E busy \in Busy : blk' = FileGone(DevicesReleased(b, busy), b)
             /\ dir' = [dir EXCEPT ![b] = None]
             /\ box' = [box EXCEPT ![b] = [RuntimeCleared(@) EXCEPT !.status = "error", !.slot = 0]]
       /\ Go(c, "done")

PauseFreeze(c) ==
    LET b == Op(c).box
    IN /\ At(c, "pause", "freeze")
       /\ \/ /\ VMPausable(b)
             /\ vm' = [vm EXCEPT ![b].run = FALSE]
             /\ Go(c, "snap")
             /\ UNCHANGED <<dir, stage, box, claim, blk, net, unswept>>
          \/ (~VMPausable(b) \/ Fails("freeze")) /\ RollbackToRunning(c)
       /\ UNCHANGED <<agent, trash, tmpl>>

\* The image and its meta file, in the staging directory.
PauseSnap(c) ==
    LET b == Op(c).box
        older == {dir[d].snap.at : d \in {d \in Boxes \ {b} : dir[d] # None /\ dir[d].snap # None}}
    IN /\ At(c, "pause", "snap")
       /\ \/ /\ vm[b] # None
             /\ stage' = [stage EXCEPT ![b] =
                    [cow |-> None, snap |-> VMSnapshot(vm[b]) @@
                        [slot |-> box[b].slot, base |-> box[b].img, at |-> Max(older \cup {0}) + 1]]]
             /\ Go(c, "release")
             /\ UNCHANGED <<dir, vm, box, claim, blk, net, unswept>>
          \/ (vm[b] = None \/ Fails("snap")) /\ RollbackToRunning(c)
       /\ UNCHANGED <<agent, trash, tmpl>>

\* releaseRuntime(keepCow): VM, network and devices go, the slot stays held.
PauseRelease(c) ==
    LET b == Op(c).box
    IN /\ At(c, "pause", "release")
       /\ vm' = [vm EXCEPT ![b] = None]
       /\ NetRemoved(NetOf(b))
       /\ \E busy \in Busy : blk' = DevicesReleased(b, busy)
       /\ box' = [box EXCEPT ![b] = RuntimeCleared(@)]
       /\ Go(c, "cow")
       /\ UNCHANGED <<agent, dir, stage, trash, tmpl, claim>>

\* Mutant: the CoW file stays in the directory that is swapped out.
CowLeft(b) == UNCHANGED <<dir, stage>>

\* The CoW file moves into the staging directory.
CowStaged(b) ==
    /\ stage' = [stage EXCEPT ![b].cow = dir[b].cow]
    /\ dir' = [dir EXCEPT ![b].cow = None]

GiveUp(c) ==
    /\ box' = [box EXCEPT ![Op(c).box].status = "error"]
    /\ Go(c, "done")

PauseCow(c) ==
    /\ At(c, "pause", "cow")
    /\ \/ CowStaged(Op(c).box) /\ Go(c, "swapout") /\ UNCHANGED box
       \/ Fails("rename") /\ GiveUp(c) /\ UNCHANGED <<dir, stage>>
    /\ UNCHANGED <<agent, trash, tmpl, vm, claim, blk, net, unswept>>

\* swapDir: the old directory moves aside, ...
SwapOut(c) ==
    LET b == Op(c).box
    IN /\ At(c, "pause", "swapout")
       /\ \/ /\ trash' = [trash EXCEPT ![b] = dir[b]]
             /\ dir' = [dir EXCEPT ![b] = None]
             /\ Go(c, "swapin")
             /\ UNCHANGED box
          \/ Fails("rename") /\ GiveUp(c) /\ UNCHANGED <<dir, trash>>
       /\ UNCHANGED <<agent, stage, tmpl, vm, claim, blk, net, unswept>>

\* ... the staging directory takes its place, or the old one is put back.
SwapIn(c) ==
    LET b == Op(c).box
    IN /\ At(c, "pause", "swapin")
       /\ \/ /\ dir' = [dir EXCEPT ![b] = [cow |-> stage[b].cow, snap |-> stage[b].snap, state |-> None]]
             /\ stage' = [stage EXCEPT ![b] = None]
             /\ box' = [box EXCEPT ![b].status = "paused"]
             /\ Go(c, "done")
          \/ /\ Fails("rename") /\ GiveUp(c)
             /\ dir' = [dir EXCEPT ![b] = trash[b]]
             /\ UNCHANGED stage
       /\ trash' = [trash EXCEPT ![b] = None]
       /\ UNCHANGED <<agent, tmpl, vm, claim, blk, net, unswept>>

-----------------------------------------------------------------------------
(* Resume                                                                  *)

\* The base image's loop device and the dm-snapshot over the kept CoW file.
\* A dm device left from an earlier removal goes first, or the resume fails.
ResumeDisk(c) ==
    LET b == Op(c).box
        i == dir[b].snap.base
    IN /\ Begins(c, "resume")
       /\ IF Status(b) # "paused" \/ dir[b] = None \/ dir[b].snap = None \/ dir[b].cow = None \/ ~HasRootfs(i)
          THEN Go(c, "done") /\ UNCHANGED blk
          ELSE \E busy \in Busy :
                LET a == Acquire(blk, i)
                    k == RestoreSnapshot(a, RunDM(b), b, i, busy)
                    ok == k.dm[RunDM(b)] # None /\ ~(busy /\ blk.dm[RunDM(b)] # None)
                IN /\ blk' = IF ok THEN k ELSE Release(k, i)
                   /\ call' = [call EXCEPT ![c].pc = IF ok THEN "net" ELSE "done",
                                           ![c].dm = IF ok THEN k.dm[RunDM(b)].cow ELSE None]
       /\ UNCHANGED <<agent, dir, stage, trash, tmpl, vm, box, claim, net, unswept>>

\* resumeFromMeta's rollback: the capsule stays paused.
ResumeRolledBack(c) ==
    LET b == Op(c).box
    IN /\ \E busy \in Busy : blk' = Release(RemoveSnapshot(blk, RunDM(b), call[c].dm, busy), dir[b].snap.base)
       /\ Go(c, "done")

ResumeNet(c) ==
    LET s == dir[Op(c).box].snap.slot
    IN /\ At(c, "resume", "net")
       /\ \E k \in Reached(net, s, uplink, Fails("net")) :
            /\ net' = CreateNetwork(net, s, k)
            /\ IF Complete(k) THEN Go(c, "boot") /\ UNCHANGED blk ELSE ResumeRolledBack(c)
       /\ UNCHANGED <<agent, dir, stage, trash, tmpl, vm, box, claim, unswept>>

Resumed(b, dm) == NewBox("running", dir[b].snap.slot, TRUE, dir[b].snap.base, dm)

ResumeBoot(c) ==
    LET b == Op(c).box
    IN /\ At(c, "resume", "boot")
       /\ \/ /\ vm' = [vm EXCEPT ![b] = VMCreateFromSnapshot(dir[b].snap)]
             /\ box' = [box EXCEPT ![b] = Resumed(b, call[c].dm)]
             /\ Go(c, "state")
             /\ UNCHANGED <<blk, net, unswept>>
          \/ /\ Fails("boot")
             /\ NetRemoved(dir[b].snap.slot)
             /\ ResumeRolledBack(c)
             /\ UNCHANGED <<vm, box>>
       /\ UNCHANGED <<agent, dir, stage, trash, tmpl, claim>>

-----------------------------------------------------------------------------
(* CreateSnapshot, FlattenRootfs, DeleteSnapshot                           *)

Snapping(c) == Op(c).op \in {"snap", "flatten"}

SnapBegin(c) ==
    LET b == Op(c).box
    IN /\ Begins(c, "snap") \/ Begins(c, "flatten")
       /\ Go(c, IF Op(c).op = "snap" /\ IsSnapshotTemplate(Op(c).img)
                THEN "done"
                ELSE CASE Status(b) = "running" -> IF box[b].lazy /\ Op(c).op = "snap" THEN "verify" ELSE "freeze"
                       [] Status(b) = "paused" /\ Op(c).op = "snap" -> "attach"
                       [] OTHER -> "done")
       /\ UNCHANGED <<agent, dir, stage, trash, tmpl, vm, box, claim, blk, net, unswept>>

\* quiesceAndPauseCH; a failure thaws the VM if it can.
SnapFreeze(c) ==
    LET b == Op(c).box
    IN /\ Snapping(c) /\ call[c].pc = "freeze"
       /\ \/ /\ VMPausable(b)
             /\ vm' = [vm EXCEPT ![b].run = FALSE]
             /\ call' = [call EXCEPT ![c].pc = IF Op(c).op = "snap" THEN "dump" ELSE "disk", ![c].st = VMSnapshot(vm[b])]
          \/ /\ ~VMPausable(b) \/ Fails("freeze")
             /\ vm' = IF vm[b] = None THEN vm ELSE [vm EXCEPT ![b].run = TRUE]
             /\ Go(c, "done")
       /\ UNCHANGED <<agent, dir, stage, trash, tmpl, box, claim, blk, net, unswept>>

\* The files of a template, as they sort: the memory image and the disk, the
\* state file that makes it a snapshot template, and the meta file.
PromoteOrder == <<{"config", "memory", "rootfs"}, {"state"}, {"meta"}>>

\* What a snapshot stages from memory image img and disk work.  A meta file
\* that cannot be written is only logged.
Staged(c, img, disk) ==
    {[files |-> f, disk |-> disk, mem |-> img.mem, holes |-> img.holes, pre |-> img.pre] :
        f \in IF Op(c).op = "flatten" THEN {{"rootfs"}}
              ELSE {UNION {PromoteOrder[j] : j \in 1..3}} \cup
                   (IF Fails("meta") THEN {UNION {PromoteOrder[j] : j \in 1..2}} ELSE {})}

\* A step on the frozen VM that fails lets it run again and ends the call.
SnapFails(c) ==
    LET b == Op(c).box
    IN /\ vm' = IF vm[b] = None THEN vm ELSE [vm EXCEPT ![b].run = TRUE]
       /\ call' = [call EXCEPT ![c].pc = "done", ![c].st = None]

\* Mutant: the VM runs on once its memory is written.
SnapDumpThaws(c) ==
    LET b == Op(c).box
    IN /\ call[c].pc = "dump"
       /\ \/ /\ vm[b] # None
             /\ call' = [call EXCEPT ![c].pc = "disk", ![c].st = VMSnapshot(vm[b])]
             /\ vm' = [vm EXCEPT ![b].run = TRUE]
          \/ (vm[b] = None \/ Fails("snap")) /\ SnapFails(c)
       /\ UNCHANGED <<agent, dir, stage, trash, tmpl, box, claim, blk, net, unswept>>

\* vm.snapshot.
SnapDump(c) ==
    LET b == Op(c).box
    IN /\ call[c].pc = "dump"
       /\ \/ /\ vm[b] # None
             /\ call' = [call EXCEPT ![c].pc = "disk", ![c].st = VMSnapshot(vm[b])]
             /\ UNCHANGED vm
          \/ (vm[b] = None \/ Fails("snap")) /\ SnapFails(c)
       /\ UNCHANGED <<agent, dir, stage, trash, tmpl, box, claim, blk, net, unswept>>

\* FlattenSnapshot, while the VM is still frozen.
SnapFlatten(c) ==
    /\ call[c].pc = "disk"
    /\ \/ /\ \E st \in Staged(c, call[c].st, dir[Op(c).box].cow) :
                call' = [call EXCEPT ![c].pc = "thaw", ![c].st = st]
          /\ UNCHANGED vm
       \/ Fails("snap") /\ SnapFails(c)
    /\ UNCHANGED <<agent, dir, stage, trash, tmpl, box, claim, blk, net, unswept>>

\* The VM goes on.  A snapshot is dropped when it does not; a flattened disk
\* is kept.
SnapThaw(c) ==
    LET b == Op(c).box
    IN /\ call[c].pc = "thaw"
       /\ vm' = IF vm[b] = None THEN vm ELSE [vm EXCEPT ![b].run = TRUE]
       /\ call' = [call EXCEPT ![c].pc = IF vm[b] = None /\ Op(c).op = "snap" THEN "done" ELSE "promote",
                               ![c].st = IF vm[b] = None /\ Op(c).op = "snap" THEN None ELSE @]
       /\ UNCHANGED <<agent, dir, stage, trash, tmpl, box, claim, blk, net, unswept>>

\* flattenPausedCow: a throwaway dm-snapshot over the paused capsule's disk ...
SnapAttach(c) ==
    LET b == Op(c).box
        i == dir[b].snap.base
    IN /\ call[c].pc = "attach"
       /\ IF dir[b] = None \/ dir[b].snap = None \/ dir[b].cow = None \/ ~HasRootfs(i)
          THEN Go(c, "done") /\ UNCHANGED blk
          ELSE \E busy \in Busy :
                LET k == RestoreSnapshot(Acquire(blk, i), FlatDM(b), b, i, busy)
                    ok == k.dm[FlatDM(b)] # None /\ ~(busy /\ blk.dm[FlatDM(b)] # None)
                IN /\ blk' = IF ok THEN k ELSE Release(k, i)
                   /\ call' = [call EXCEPT ![c].pc = IF ok THEN "copy" ELSE "done",
                                           ![c].dm = IF ok THEN k.dm[FlatDM(b)].cow ELSE None]
       /\ UNCHANGED <<agent, dir, stage, trash, tmpl, vm, box, claim, net, unswept>>

\* ... read, removed, and the memory files linked beside the copy.
SnapCopy(c) ==
    LET b == Op(c).box
    IN /\ call[c].pc = "copy"
       /\ \E busy \in Busy : blk' = Release(RemoveSnapshot(blk, FlatDM(b), call[c].dm, busy), dir[b].snap.base)
       /\ \E st \in Staged(c, dir[b].snap, dir[b].cow) :
            call' = [call EXCEPT ![c].pc = "promote", ![c].st = st, ![c].dm = None]
       /\ UNCHANGED <<agent, dir, stage, trash, tmpl, vm, box, claim, net, unswept>>

\* promoteSnapshotDir: one group of renames per step.
Promote(c) ==
    LET t == Op(c).img
        st == call[c].st
        have == IF tmpl[t] = None THEN {} ELSE tmpl[t].files
        left == {j \in DOMAIN PromoteOrder : PromoteOrder[j] \cap (st.files \ have) # {}}
        files == have \cup (PromoteOrder[Min(left)] \cap st.files)
    IN /\ call[c].pc = "promote"
       /\ IF left # {}
          THEN tmpl' = [tmpl EXCEPT ![t] = [st EXCEPT !.files = files]] /\ UNCHANGED call
          ELSE call' = [call EXCEPT ![c].pc = IF Op(c).op = "snap" THEN "postinit" ELSE "done", ![c].st = None]
               /\ UNCHANGED tmpl
       /\ UNCHANGED <<agent, dir, stage, trash, vm, box, claim, blk, net, unswept>>

\* A live snapshot ends with /init.
SnapPostInit(c) ==
    LET b == Op(c).box
    IN /\ call[c].pc = "postinit"
       /\ \/ vm' = IF VMPausable(b) THEN [vm EXCEPT ![b] = PostInit(@)] ELSE vm
          \/ Fails("init") /\ UNCHANGED vm
       /\ Go(c, "done")
       /\ UNCHANGED <<agent, dir, stage, trash, tmpl, box, claim, blk, net, unswept>>

InUse(t) == \E b \in Boxes : box[b] # None /\ box[b].img = t

DeleteSnapshot(c) ==
    LET t == Op(c).img
    IN /\ Begins(c, "delete")
       /\ tmpl' = IF InUse(t) THEN tmpl ELSE [tmpl EXCEPT ![t] = None]
       /\ Go(c, "done")
       /\ UNCHANGED <<agent, dir, stage, trash, vm, box, claim, blk, net, unswept>>

-----------------------------------------------------------------------------
(* Destroy and the crash watcher                                           *)

\* cleanup: what the box holds, running or paused, and its slot.
CleanedUp(b) ==
    /\ NetRemoved(NetOf(b))
    /\ claim' = claim \ {box[b].slot}
    /\ \E busy \in Busy : blk' = FileGone(DevicesReleased(b, busy), b)
    /\ box' = [box EXCEPT ![b] = None]

DestroyClean(c) ==
    LET b == Op(c).box
    IN /\ Begins(c, "destroy")
       /\ IF box[b] = None THEN UNCHANGED <<dir, vm, box, claim, blk, net, unswept>>
          ELSE /\ CleanedUp(b)
               /\ vm' = [vm EXCEPT ![b] = None]
               /\ dir' = IF box[b].dm = None \/ dir[b] = None THEN dir ELSE [dir EXCEPT ![b].cow = None]
       /\ Go(c, "rm")
       /\ UNCHANGED <<agent, stage, trash, tmpl>>

\* The directory goes last.
DestroyDir(c) ==
    /\ At(c, "destroy", "rm")
    /\ dir' = [dir EXCEPT ![Op(c).box] = None]
    /\ Go(c, "done")
    /\ UNCHANGED <<agent, stage, trash, tmpl, vm, box, claim, blk, net, unswept>>

\* The watcher of a VM that died in service: cleanupAfterCrash.
CrashWatcher(b) ==
    /\ Status(b) = "running" /\ vm[b] = None /\ Idle(b)
    /\ CleanedUp(b)
    /\ dir' = [dir EXCEPT ![b] = None]
    /\ UNCHANGED <<agent, stage, trash, tmpl, vm, call>>

-----------------------------------------------------------------------------
(* The agent crashes and starts again                                      *)

\* The process dies.  VMs, devices and network outlive it, unless the host
\* goes down with it.
Crash ==
    /\ phase # "down" /\ crashes < mix.crashes
    /\ crashes' = crashes + 1
    /\ phase' = "down" /\ todo' = {}
    /\ box' = [b \in Boxes |-> None]
    /\ torn' = torn \cup {Op(c).box : c \in {c \in Calls : Op(c).op \in {"create", "resume", "snap"} /\ InFlight(c)}}
    /\ call' = [c \in Calls |-> IF InFlight(c) THEN [call[c] EXCEPT !.pc = "done", !.st = None] ELSE call[c]]
    /\ \/ blk' = [blk EXCEPT !.reg = NewLoopRegistry] /\ UNCHANGED <<vm, net, unswept>>
       \/ /\ mix.reboot
          /\ vm' = [b \in Boxes |-> None] /\ blk' = NoDevices /\ net' = NoNetwork /\ unswept' = {}
    /\ UNCHANGED <<mix, uplink, dir, stage, trash, tmpl, claim>>

\* Startup: the egress guard, which the process does not live without ...
StartGuard ==
    /\ phase = "down"
    /\ \E k \in IF Fails("guard") /\ crashes < mix.crashes THEN 0..GuardSteps ELSE {GuardSteps} :
        /\ net' = EnsureEgressGuard(net, k)
        /\ phase' = IF k = GuardSteps THEN "guarded" ELSE "down"
        /\ crashes' = IF k = GuardSteps THEN crashes ELSE crashes + 1
    /\ UNCHANGED <<mix, todo, torn, uplink, dir, stage, trash, tmpl, vm, box, claim, blk, call, unswept>>

\* ... then Setup: whatever an earlier process left is killed and removed,
\* unless the caller says it means to take it over; leftovers of unfinished
\* pauses and snapshots go in any case.
Setup ==
    /\ phase = "guarded" /\ phase' = "running"
    /\ IF mix.skip THEN UNCHANGED <<vm, blk, net, claim>>
       ELSE /\ vm' = [b \in Boxes |-> None]
            /\ blk' = CleanupStaleDevices(blk)
            /\ net' = CleanupStaleNamespaces(net)
            /\ claim' = {}
    /\ stage' = [b \in Boxes |-> None]
    /\ trash' = [b \in Boxes |-> None]
    /\ todo' = {b \in Boxes : dir[b] # None}
    /\ UNCHANGED <<mix, crashes, torn, uplink, dir, tmpl, box, call, unswept>>

\* reattachRunning: the slot, the dm device, the base image's loop, the VM.
reattachRunning(b) ==
    LET st == dir[b].state
        dm == ReattachSnapshot(blk, b)
    IN /\ claim' = claim \cup {st.slot}
       /\ IF dm = None THEN UNCHANGED <<blk, box>>
          ELSE /\ blk' = Acquire(blk, st.base)
               /\ box' = [box EXCEPT ![b] = [NewBox("running", st.slot, st.lazy, st.base, dm) EXCEPT
                            !.loader = IF st.lazy THEN "post" ELSE "none"]]
       /\ UNCHANGED <<dir, net, unswept>>

sweptDevices(b, busy) ==
    LET dm == ReattachSnapshot(blk, b)
    IN DetachLoopsByFile(IF dm = None THEN blk ELSE RemoveSnapshot(blk, RunDM(b), dm, busy), Cow(b))

\* sweepDeadRunning.  A pause image in the directory is kept for the next
\* pass, and with it the disk and the slot.
sweepDeadRunning(b) ==
    /\ \E busy \in Busy : blk' = IF dir[b].snap # None THEN sweptDevices(b, busy)
                                                        ELSE FileGone(sweptDevices(b, busy), b)
    /\ NetRemoved(dir[b].state.slot)
    /\ dir' = [dir EXCEPT ![b] = IF @.snap # None THEN [@ EXCEPT !.state = None] ELSE None]
    /\ claim' = IF dir[b].snap # None THEN claim ELSE claim \ {dir[b].state.slot}
    /\ UNCHANGED box

\* Mutant: a directory without a running-state file ends the pass.
RestoreRunningOnly(b) ==
    /\ phase = "running" /\ b \in todo /\ b = Min(todo)
    /\ dir[b].state # None
    /\ todo' = todo \ {b}
    /\ IF vm[b] # None THEN reattachRunning(b) ELSE sweepDeadRunning(b)
    /\ UNCHANGED <<mix, phase, crashes, torn, uplink, stage, trash, tmpl, vm, call>>

\* RestoreRunningSandboxes, one directory.
RestoreRunning(b) ==
    /\ phase = "running" /\ b \in todo /\ b = Min(todo)
    /\ todo' = todo \ {b}
    /\ IF dir[b].state = None THEN UNCHANGED <<dir, box, claim, blk, net, unswept>>
       ELSE IF vm[b] # None THEN reattachRunning(b)
       ELSE sweepDeadRunning(b)
    /\ UNCHANGED <<mix, phase, crashes, torn, uplink, stage, trash, tmpl, vm, call>>

\* Mutant: of two images for a slot the older one wins.
OldestWins(cands) == {b \in cands : \A d \in cands : dir[d].snap.slot = dir[b].snap.slot => dir[d].snap.at >= dir[b].snap.at}

\* Of two images that name one slot the newer one wins.
NewestWins(cands) == {b \in cands : \A d \in cands : dir[d].snap.slot = dir[b].snap.slot => dir[d].snap.at <= dir[b].snap.at}

\* RestorePausedSandboxes: every directory without a box and without a live
\* VM's state file is registered as paused, or moved to trash.
RestorePaused ==
    LET open == {b \in Boxes : dir[b] # None /\ box[b] = None /\ dir[b].state = None}
        cands == {b \in open : dir[b].snap # None}
        held == {box[b].slot : b \in {b \in Boxes : box[b] # None}}
        won == {b \in NewestWins(cands) : dir[b].snap.slot \notin held}
    IN /\ phase = "running" /\ todo = {}
       /\ phase' = "up"
       /\ box' = [b \in Boxes |-> IF b \notin won THEN box[b]
                                  ELSE [NewBox("paused", dir[b].snap.slot, FALSE, dir[b].snap.base, None) EXCEPT !.base = None]]
       /\ claim' = claim \cup {dir[b].snap.slot : b \in won}
       /\ trash' = [b \in Boxes |-> IF b \in open \ won THEN dir[b] ELSE trash[b]]
       /\ dir' = [b \in Boxes |-> IF b \in open \ won THEN None ELSE dir[b]]
       /\ blk' = FoldSet(LAMBDA b, k : FileGone(k, b), blk, open \ won)
       /\ UNCHANGED <<mix, todo, crashes, torn, uplink, stage, tmpl, vm, net, call, unswept>>

\* The host's default route comes and goes.
UplinkChanges ==
    /\ Fails("uplink")
    /\ uplink' = ~uplink
    /\ UNCHANGED <<mix, phase, todo, dir, stage, trash, tmpl, vm, box, claim, blk, net, call, crashes, torn, unswept>>

-----------------------------------------------------------------------------

Create(c) == CreateDisk(c) \/ CreateNet(c) \/ CreateBoot(c) \/ CreateFails(c)
Launched(c) == initAndStartMemoryLoader(c) \/ writeRunningState(c)
Materialize(c) == PreloadAsk(c) \/ PreloadVerdict(c)
Pause(c) == PauseBegin(c) \/ PauseFreeze(c) \/ PauseSnap(c) \/ PauseRelease(c) \/ PauseCow(c) \/ SwapOut(c) \/ SwapIn(c)
Resume(c) == ResumeDisk(c) \/ ResumeNet(c) \/ ResumeBoot(c)
Snapshot(c) == \/ SnapBegin(c) \/ SnapFreeze(c) \/ SnapDump(c) \/ SnapFlatten(c) \/ SnapThaw(c) \/ SnapAttach(c) \/ SnapCopy(c)
               \/ Promote(c) \/ SnapPostInit(c)
Destroy(c) == DestroyClean(c) \/ DestroyDir(c)

CallStep(c) == Create(c) \/ Launched(c) \/ Materialize(c) \/ Pause(c) \/ Resume(c) \/ Snapshot(c) \/ DeleteSnapshot(c)
               \/ Destroy(c)
GuestStep(b) == Work(b) \/ VMDies(b)
Background(b) == Preloaded(b) \/ MemoryLoader(b) \/ CrashWatcher(b)
Startup == StartGuard \/ Setup \/ (\E b \in Boxes : RestoreRunning(b)) \/ RestorePaused

Next ==
    \/ \E c \in Calls : CallStep(c)
    \/ \E b \in Boxes : GuestStep(b) \/ Background(b)
    \/ Startup
    \/ Crash
    \/ UplinkChanges

\* Calls under way go on, goroutines and the guest's preload thread run, and
\* a service manager starts an agent that is down.
Fairness ==
    /\ \A c \in 1..MaxCalls : WF_vars(c \in Calls /\ InFlight(c) /\ CallStep(c))
    /\ \A b \in Boxes : WF_vars(Background(b))
    /\ WF_vars(Startup)

-----------------------------------------------------------------------------
(* Properties                                                              *)

Works == 0..mix.work
ImageOK(s) == s.mem \in Works /\ s.holes \in BOOLEAN /\ s.slot \in Slots /\ s.base \in Images
DirOK(d) == d = None \/ (d.cow \in Works \cup {None} /\ (d.snap = None \/ ImageOK(d.snap)))

\* Work is a number, files and boxes have their fields' types, and a slot a
\* box names is one of the host's.
TypeOK ==
    /\ phase \in {"down", "guarded", "running", "up"} /\ todo \subseteq Boxes
    /\ \A b \in Boxes :
        /\ DirOK(dir[b]) /\ DirOK(trash[b])
        /\ stage[b] = None \/ (ImageOK(stage[b].snap) /\ stage[b].cow \in Works \cup {None})
        /\ vm[b] = None \/ (vm[b].mem \in Works /\ vm[b].pre \in {"idle", "running", "done", "failed"})
        /\ box[b] = None \/ (/\ box[b].status \in {"running", "pausing", "paused", "error"}
                             /\ box[b].slot \in Slots \cup {0}
                             /\ box[b].base \in Images \cup {None} /\ box[b].dm \in Loops \cup {None})
    /\ claim \subseteq Slots /\ crashes \in 0..mix.crashes

\* A memory image a capsule or a template is restored from has every page of
\* the guest: Pause and CreateSnapshot wait for the preload of a lazily
\* restored VM (ensureMemoryMaterialized), whichever process restored it.
MemoryComplete ==
    /\ \A b \in Boxes : dir[b] # None /\ dir[b].snap # None => ~dir[b].snap.holes
    /\ \A t \in Templates : IsSnapshotTemplate(t) => ~tmpl[t].holes

\* Capsules whose Destroy was asked for.
Doomed == {Op(c).box : c \in {c \in Calls : Op(c).op = "destroy" /\ call[c].pc # "new"}}

\* What a capsule can be resumed from.
Usable(d) == d # None /\ d.snap # None /\ d.cow = d.snap.mem /\ ~d.snap.holes /\ HasRootfs(d.snap.base)

\* A capsule the agent calls paused can be resumed: its image is complete, its
\* disk is the image's, and its base image is there (Pause's renames,
\* RestorePausedSandboxes, DeleteSnapshot).  An agent that dies after a second
\* Pause moved the disk away, or in Destroy, comes back with the capsule paused
\* and its disk missing; what has a disk can be resumed even then.
PausedUsable ==
    \A b \in Boxes : Status(b) = "paused" /\ (crashes = 0 \/ dir[b].cow # None) => Usable(dir[b])

\* Memory and disk of a VM that runs are of one moment, and so are those of a
\* template: they were captured while the VM was frozen, and travel together
\* through the staging directory's renames.
Coherent ==
    /\ \A b \in Boxes : vm[b] # None /\ dir[b] # None /\ dir[b].cow # None => vm[b].mem = dir[b].cow
    /\ \A t \in Templates : IsSnapshotTemplate(t) => tmpl[t].mem = tmpl[t].disk

\* An image has one loop device however many capsules use it and however often
\* the agent was restarted (LoopRegistry, losetupCreate).
OneLoopPerImage == \A i \in Images : Cardinality(Attached(blk, Img(i))) <= 1

\* A loop device over a capsule's deleted file is either used by a dm device or
\* gone: every path that deletes the file detaches it first.  (An agent that
\* dies while it attaches a disk leaves one.)
NoLostLoop == \A b \in Boxes \ torn : \A d \in Attached(blk, Gone(b)) : Referenced(blk, d)

\* Calls that have a network up for a box that is not registered as running.
NetInMaking(s) == \E c \in Calls :
    /\ call[c].pc = "boot"
    /\ s = IF Op(c).op = "create" THEN call[c].slot ELSE dir[Op(c).box].snap.slot

\* While the agent serves, the host has the network of exactly the capsules
\* that are up or being brought up: namespace, veth, route and rules, each
\* once; what failed or was removed without a default route aside.
NetworkExact ==
    phase = "up" => \A s \in Slots :
        LET up == NetInMaking(s) \/ \E b \in Boxes : box[b] # None /\ box[b].slot = s /\ NetOf(b) = s
            rules == [r \in {Out(s), In(s)} |-> Cardinality({i \in DOMAIN net.forward : net.forward[i] = r})]
        IN /\ (s \in net.ns) = up /\ (s \in net.veth) = up /\ (s \in net.route) = up
           /\ s \in unswept \/ \A r \in DOMAIN rules : rules[r] = IF up THEN 1 ELSE 0

\* Between the guard's installation and the process's end every capsule's
\* traffic meets the drops before any rule that accepts it (EnsureEgressGuard
\* runs first at startup, the cleanup spares its rules).
GuardHolds == phase # "down" => Guarded(net)

\* The capsules the agent knows have a slot of their own, claimed, through
\* pause, restart and resume.
SlotsApart ==
    phase = "up" => \A b \in Boxes : box[b] # None /\ box[b].slot # 0 =>
        /\ box[b].slot \in claim
        /\ \A d \in Boxes \ {b} : box[d] # None => box[d].slot # box[b].slot

\* Every call comes to its end: preloads are waited for, renames tried once,
\* rollbacks finish.
CallsEnd == \A c \in 1..MaxCalls : (c \in Calls /\ InFlight(c)) ~> (c \in Calls /\ ~InFlight(c))

\* An agent that is down serves again.
AgentReturns == (phase = "down") ~> (phase = "up")

\* What is saved can be restored: its memory is whole, zero pages punched out or
\* not, and its disk is beside it (Pause, CreateSnapshot, punchHoles).
Restorable == MemoryComplete /\ PausedUsable /\ PunchExact

\* What the host holds for its capsules is exactly what they need, each its own:
\* loop devices, namespaces, rules, slots and addresses (pkg/devicemapper,
\* pkg/network).
HostExact ==
    /\ TypeOK
    /\ OneLoopPerImage /\ NoLostLoop
    /\ NetworkExact /\ GuardHolds
    /\ SlotsApart /\ AddressesDistinct

\* The agent and the calls it serves get on, whatever failed or crashed.
Progress == CallsEnd /\ AgentReturns

\* A capsule's state as its user sees it.  While a pause is between the VM's
\* end and the final rename, and while a dead VM is not yet cleaned up, the
\* capsule counts as running: it can be lost.
SeenState(b) ==
    IF vm[b] # None THEN <<"running", vm[b].mem>>
    ELSE IF stage[b] # None THEN <<"running", stage[b].snap.mem>>
    ELSE IF Usable(dir[b])
    THEN <<IF Status(b) \in {"running", "pausing"} THEN "running" ELSE "saved", dir[b].snap.mem>>
    ELSE <<"none", 0>>

Saving == INSTANCE SavedState WITH
    Capsules <- Boxes,
    st <- [b \in Boxes |-> SeenState(b)],
    asked <- Doomed

\* The store keeps what SavedState promises: a paused capsule survives every
\* crash and restart, resumes with the work it was paused with, and goes only
\* by Destroy.
SavedSafely == Saving!Spec
=============================================================================
