--------------------------- MODULE SlotAllocator ---------------------------
(***************************************************************************)
(* Network slot indices (pkg/network/allocator.go) as the processes that   *)
(* share one slots directory use them: the host agent, or several          *)
(* short-lived processes built on the sandbox library.  A slot index fixes *)
(* a sandbox's host-reachable IP, so two sandboxes must never hold the     *)
(* same one.  Each process has its own in-memory maps; the claim files are *)
(* shared.  Sandbox identifiers are never reused (they are fresh UUIDs).   *)
(***************************************************************************)
EXTENDS Naturals, FiniteSets

CONSTANTS
    Procs,        \* processes that may run on the host
    Sandboxes,    \* sandbox identifiers
    MaxSlot,      \* 32767 in the code
    Agents,       \* those of them whose Setup sweeps stale resources: host agents
    SharedAttach, \* TRUE: a process may start while another live process
                  \* still manages persisted sandboxes, and attaches to them
    NoBox

ASSUME SlotAssumption ==
    /\ MaxSlot \in Nat \ {0}
    /\ Agents \subseteq Procs
    /\ SharedAttach \in BOOLEAN
    /\ NoBox \notin Sandboxes

VARIABLES
    phase,   \* phase[p]: "down", "restoring" (startup scan), "serving"
    inUse,   \* inUse[p]: SlotAllocator.inUse of process p
    seeded,  \* seeded[p]: SlotAllocator.seeded of process p
    files,   \* claim files present in slotsDir
    cur,     \* cur[p]: sandbox whose Allocate call holds p's mutex, or NoBox
    scan,    \* scan[p]: loop index of that call
    todo,    \* todo[p]: sandboxes of the startup directory listing still to do
    boxes,   \* boxes[p][b]: SlotIndex of b in p's m.boxes or create, 0 if absent
    life,    \* life[b]: "new", "creating", "live" (state on disk), "gone"
    slot     \* slot[b]: slot whose netns and IP b's VM or snapshot uses, 0 none

vars == <<phase, inUse, seeded, files, cur, scan, todo, boxes, life, slot>>

Slots == 1..MaxSlot

TypeOK ==
    /\ phase \in [Procs -> {"down", "restoring", "serving"}]
    /\ inUse \in [Procs -> SUBSET Slots]
    /\ seeded \in [Procs -> SUBSET Slots]
    /\ files \in SUBSET Slots
    /\ cur \in [Procs -> Sandboxes \cup {NoBox}]
    /\ scan \in [Procs -> 1..(MaxSlot + 1)]
    /\ todo \in [Procs -> SUBSET Sandboxes]
    /\ boxes \in [Procs -> [Sandboxes -> 0..MaxSlot]]
    /\ life \in [Sandboxes -> {"new", "creating", "live", "gone"}]
    /\ slot \in [Sandboxes -> 0..MaxSlot]

Init ==
    /\ phase = [p \in Procs |-> "down"]
    /\ inUse = [p \in Procs |-> {}]
    /\ seeded = [p \in Procs |-> {}]
    /\ files = {}
    /\ cur = [p \in Procs |-> NoBox]
    /\ scan = [p \in Procs |-> 1]
    /\ todo = [p \in Procs |-> {}]
    /\ boxes = [p \in Procs |-> [b \in Sandboxes |-> 0]]
    /\ life = [b \in Sandboxes |-> "new"]
    /\ slot = [b \in Sandboxes |-> 0]

(* Processes that manage b or are about to attach to it.                    *)
Managers(b) == {p \in Procs : boxes[p][b] # 0 \/ b \in todo[p]}
Live == {b \in Sandboxes : life[b] = "live"}

-----------------------------------------------------------------------------
(* Startup.  A host agent's Setup kills every VM on the host and removes    *)
(* slotsDir: "the sweep assumes this process is the only sandbox owner on   *)
(* the host" (setup.go:107), so an agent runs alone.  Other processes set   *)
(* SkipCleanup.  New then seeds the allocator from the claim files, and the *)
(* directory listing of RestoreRunningSandboxes / RestorePausedSandboxes is *)
(* taken.                                                                   *)

Start(p) ==
    /\ phase[p] = "down"
    /\ \A q \in Procs : phase[q] # "down" => p \notin Agents /\ q \notin Agents
    /\ ~SharedAttach => \A b \in Live : Managers(b) = {}
    /\ phase' = [phase EXCEPT ![p] = "restoring"]
    /\ files' = IF p \in Agents THEN {} ELSE files
    /\ inUse' = [inUse EXCEPT ![p] = files']
    /\ seeded' = [seeded EXCEPT ![p] = files']
    /\ todo' = [todo EXCEPT ![p] = Live]
    /\ life' = [b \in Sandboxes |->
                  IF p \in Agents /\ life[b] = "creating" THEN "gone" ELSE life[b]]
    /\ slot' = [b \in Sandboxes |->
                  IF p \in Agents /\ life[b] = "creating" THEN 0 ELSE slot[b]]
    /\ UNCHANGED <<cur, scan, boxes>>

(* SlotAllocator.Reserve, called for a sandbox whose on-disk state names    *)
(* the slot: reattachRunning for a live VM, RestorePausedSandboxes for a    *)
(* snapshot.  The claim file may exist already.                             *)
ReserveOK(p, i) == i \notin inUse[p] \ seeded[p]

Reserve(p, b) ==
    LET i == slot[b]
        ok == life[b] = "live" /\ ReserveOK(p, i)
    IN  /\ phase[p] = "restoring"
        /\ b \in todo[p]
        /\ todo' = [todo EXCEPT ![p] = @ \ {b}]
        /\ files' = IF ok THEN files \cup {i} ELSE files
        /\ inUse' = [inUse EXCEPT ![p] = IF ok THEN @ \cup {i} ELSE @]
        /\ seeded' = [seeded EXCEPT ![p] = IF ok THEN @ \ {i} ELSE @]
        /\ boxes' = [boxes EXCEPT ![p][b] = IF ok THEN i ELSE @]
        /\ UNCHANGED <<phase, cur, scan, life, slot>>

(* sweepDeadRunning: the listed sandbox's VM is dead and its directory has  *)
(* no snapshot.  Its directory is removed and its slot released.            *)
SweepDead(p, b) ==
    LET i == slot[b]
    IN  /\ phase[p] = "restoring"
        /\ b \in todo[p]
        /\ life[b] = "live"
        /\ todo' = [todo EXCEPT ![p] = @ \ {b}]
        /\ inUse' = [inUse EXCEPT ![p] = @ \ {i}]
        /\ seeded' = [seeded EXCEPT ![p] = @ \ {i}]
        /\ files' = files \ {i}
        /\ life' = [life EXCEPT ![b] = "gone"]
        /\ slot' = [slot EXCEPT ![b] = 0]
        /\ UNCHANGED <<phase, cur, scan, boxes>>

Serve(p) ==
    /\ phase[p] = "restoring"
    /\ todo[p] = {}
    /\ phase' = [phase EXCEPT ![p] = "serving"]
    /\ UNCHANGED <<inUse, seeded, files, cur, scan, todo, boxes, life, slot>>

-----------------------------------------------------------------------------
(* SlotAllocator.Allocate holds the process's mutex for the whole loop, but *)
(* other processes create and remove claim files between its iterations.    *)

AllocateBegin(p, b) ==
    /\ phase[p] = "serving"
    /\ cur[p] = NoBox
    /\ life[b] = "new"
    /\ cur' = [cur EXCEPT ![p] = b]
    /\ scan' = [scan EXCEPT ![p] = 1]
    /\ life' = [life EXCEPT ![b] = "creating"]
    /\ UNCHANGED <<phase, inUse, seeded, files, todo, boxes, slot>>

(* The loop passes over indices this process knows as used: i is the next   *)
(* one it does not.                                                         *)
IsNext(p, i) ==
    /\ i >= scan[p] /\ i \notin inUse[p]
    /\ \A j \in Slots : j >= scan[p] /\ j \notin inUse[p] => i <= j

(* claimFile meets EEXIST: remember the slot as used and go on.             *)
AllocateSkip(p) ==
    \E i \in Slots :
        /\ cur[p] # NoBox
        /\ IsNext(p, i)
        /\ i \in files
        /\ inUse' = [inUse EXCEPT ![p] = @ \cup {i}]
        /\ scan' = [scan EXCEPT ![p] = i + 1]
        /\ UNCHANGED <<phase, seeded, files, cur, todo, boxes, life, slot>>

(* claimFile created the file: the slot is the caller's.                    *)
AllocateClaimNoExcl(p) ==
    \E i \in Slots :
        /\ cur[p] # NoBox
        /\ IsNext(p, i)
        /\ files' = files \cup {i}
        /\ inUse' = [inUse EXCEPT ![p] = @ \cup {i}]
        /\ boxes' = [boxes EXCEPT ![p][cur[p]] = i]
        /\ slot' = [slot EXCEPT ![cur[p]] = i]
        /\ cur' = [cur EXCEPT ![p] = NoBox]
        /\ UNCHANGED <<phase, seeded, scan, todo, life>>

AllocateClaimPastEnd(p) ==
    \E i \in 1 .. MaxSlot + 1 :
        /\ cur[p] # NoBox
        /\ IsNext(p, i)
        /\ i \notin files
        /\ files' = files \cup {i}
        /\ inUse' = [inUse EXCEPT ![p] = @ \cup {i}]
        /\ boxes' = [boxes EXCEPT ![p][cur[p]] = i]
        /\ slot' = [slot EXCEPT ![cur[p]] = i]
        /\ cur' = [cur EXCEPT ![p] = NoBox]
        /\ UNCHANGED <<phase, seeded, scan, todo, life>>

AllocateClaim(p) ==
    \E i \in Slots :
        /\ cur[p] # NoBox
        /\ IsNext(p, i)
        /\ i \notin files
        /\ files' = files \cup {i}
        /\ inUse' = [inUse EXCEPT ![p] = @ \cup {i}]
        /\ boxes' = [boxes EXCEPT ![p][cur[p]] = i]
        /\ slot' = [slot EXCEPT ![cur[p]] = i]
        /\ cur' = [cur EXCEPT ![p] = NoBox]
        /\ UNCHANGED <<phase, seeded, scan, todo, life>>

(* ErrNoFreeSlots, or an I/O error from claimFile: the create fails and has *)
(* no slot to roll back.                                                    *)
AllocateFail(p) ==
    /\ cur[p] # NoBox
    /\ life' = [life EXCEPT ![cur[p]] = "gone"]
    /\ cur' = [cur EXCEPT ![p] = NoBox]
    /\ UNCHANGED <<phase, inUse, seeded, files, scan, todo, boxes, slot>>

(* writeRunningState at the end of a create.                                *)
Persist(p, b) ==
    /\ boxes[p][b] # 0
    /\ life[b] = "creating"
    /\ life' = [life EXCEPT ![b] = "live"]
    /\ UNCHANGED <<phase, inUse, seeded, files, cur, scan, todo, boxes, slot>>

(* SlotAllocator.Release from a create's rollback, Destroy's cleanup or     *)
(* cleanupAfterCrash: the process drops its sandboxState and releases the   *)
(* slot index recorded in it.  If the sandbox still existed, it is gone.    *)
ReleaseKeepsInUse(p, b) ==
    LET i == boxes[p][b]
    IN  /\ phase[p] = "serving"
        /\ i # 0
        /\ cur[p] = NoBox
        /\ files' = files \ {i}
        /\ boxes' = [boxes EXCEPT ![p][b] = 0]
        /\ life' = [life EXCEPT ![b] = "gone"]
        /\ slot' = [slot EXCEPT ![b] = 0]
        /\ UNCHANGED <<phase, inUse, seeded, cur, scan, todo>>

Release(p, b) ==
    LET i == boxes[p][b]
    IN  /\ phase[p] = "serving"
        /\ i # 0
        /\ cur[p] = NoBox
        /\ inUse' = [inUse EXCEPT ![p] = @ \ {i}]
        /\ seeded' = [seeded EXCEPT ![p] = @ \ {i}]
        /\ files' = files \ {i}
        /\ boxes' = [boxes EXCEPT ![p][b] = 0]
        /\ life' = [life EXCEPT ![b] = "gone"]
        /\ slot' = [slot EXCEPT ![b] = 0]
        /\ UNCHANGED <<phase, cur, scan, todo>>

(* The process exits or crashes.  VMs and claim files survive it.           *)
Exit(p) ==
    /\ phase[p] # "down"
    /\ phase' = [phase EXCEPT ![p] = "down"]
    /\ inUse' = [inUse EXCEPT ![p] = {}]
    /\ seeded' = [seeded EXCEPT ![p] = {}]
    /\ boxes' = [boxes EXCEPT ![p] = [b \in Sandboxes |-> 0]]
    /\ todo' = [todo EXCEPT ![p] = {}]
    /\ cur' = [cur EXCEPT ![p] = NoBox]
    /\ UNCHANGED <<files, scan, life, slot>>

Step(p) ==
    \/ Start(p) \/ Serve(p) \/ Exit(p)
    \/ AllocateSkip(p) \/ AllocateClaim(p) \/ AllocateFail(p)
    \/ \E b \in Sandboxes :
          \/ Reserve(p, b) \/ SweepDead(p, b)
          \/ AllocateBegin(p, b) \/ Persist(p, b) \/ Release(p, b)

Next == \E p \in Procs : Step(p)

Spec == Init /\ [][Next]_vars

-----------------------------------------------------------------------------
(* No two sandboxes, in whichever processes, ever use the same slot: two    *)
(* VMs would silently share a host-reachable IP (allocator.go:20-24).       *)
UniqueSlot ==
    \A b, c \in Sandboxes : b # c /\ slot[b] # 0 => slot[b] # slot[c]

(* While the host agent serves, a slot it counts as used belongs to an      *)
(* existing sandbox, so ErrNoFreeSlots really means that the host is full:  *)
(* no failed create, crash, sweep or restart loses a slot.                  *)
NoSlotLeak ==
    \A p \in Agents : phase[p] = "serving" =>
        \A i \in inUse[p] : \E b \in Sandboxes : slot[b] = i
=============================================================================
