------------------------ MODULE SlotAllocatorProofs ------------------------
(***************************************************************************)
(* For every number of processes, sandboxes and slots: as long as no two   *)
(* live processes manage the same sandbox, no two sandboxes use the same   *)
(* slot, and a serving host agent loses none.                              *)
(***************************************************************************)
EXTENDS SlotAllocator, TLAPS

(* A leaf is Zenon's unless it names SMT; each is tried again with more time. *)
USE Zenon, SlowZenon

(* A process that is down holds nothing; todo is empty once it serves; only *)
(* a serving process is inside Allocate.                                    *)
PhaseInv ==
    \A p \in Procs :
        /\ phase[p] = "down" => boxes[p] = [b \in Sandboxes |-> 0]
        /\ todo[p] # {} => phase[p] = "restoring"
        /\ cur[p] # NoBox => phase[p] = "serving"

(* At most one process manages a sandbox or is about to.                    *)
ExclusiveInv ==
    \A b \in Sandboxes, p, q \in Procs :
        p \in Managers(b) /\ q \in Managers(b) => p = q

(* A listed sandbox is live and not yet in the lister's map.                *)
TodoInv ==
    \A p \in Procs, b \in Sandboxes :
        b \in todo[p] => life[b] = "live" /\ boxes[p][b] = 0

(* A process's record of a sandbox agrees with the slot the sandbox uses.   *)
RecordInv ==
    \A p \in Procs, b \in Sandboxes :
        boxes[p][b] # 0 => boxes[p][b] = slot[b] /\ life[b] \in {"creating", "live"}

(* A sandbox waiting for its slot has none, and one process allocates it.   *)
AllocInv ==
    \A p \in Procs, b \in Sandboxes :
        cur[p] = b =>
            /\ life[b] = "creating" /\ slot[b] = 0
            /\ \A q \in Procs : boxes[q][b] = 0 /\ (cur[q] = b => q = p)

(* Only a sandbox that was created and is not gone uses a slot.             *)
LifeInv ==
    \A b \in Sandboxes :
        /\ slot[b] # 0 => life[b] \in {"creating", "live"}
        /\ life[b] = "live" => slot[b] # 0

(* Every slot in use has its claim file, except between the sweep and the   *)
(* moment the process that is up, if any, has reserved it again.            *)
ClaimInv ==
    \A b \in Sandboxes :
        slot[b] # 0 /\ slot[b] \notin files =>
            /\ life[b] = "live"
            /\ \A p \in Procs : phase[p] # "down" => b \in todo[p]

(* A slot a restoring process has marked as its own belongs to a sandbox it *)
(* has attached to, so Reserve cannot fail.                                 *)
UsedInv ==
    \A p \in Procs : phase[p] = "restoring" =>
        \A i \in inUse[p] \ seeded[p] : \E b \in Sandboxes : boxes[p][b] = i

IInv ==
    /\ TypeOK /\ PhaseInv /\ ExclusiveInv /\ TodoInv
    /\ RecordInv /\ AllocInv /\ LifeInv /\ ClaimInv /\ UsedInv /\ UniqueSlot

(* The inductive invariant holds initially, when no process has started.    *)
LEMMA InitInv == Init => IInv
BY SlotAssumption, SMT, SMTT(20) DEF Init, IInv, TypeOK, PhaseInv, ExclusiveInv,
   TodoInv,
   RecordInv, AllocInv, LifeInv, ClaimInv, UsedInv, UniqueSlot, Managers, Slots

(* Starting keeps the invariant: a sweep removes every claim, and every live*)
(* sandbox is then on the starter's list.                                   *)
LEMMA StartInv ==
    ASSUME IInv, ~SharedAttach, NEW p \in Procs, Start(p)
    PROVE  IInv'
<1>1. TypeOK'
  BY SlotAssumption, SMT, SMTT(20) DEF IInv, TypeOK, RecordInv, Slots, Live, Start
<1>2. PhaseInv' /\ ExclusiveInv' /\ TodoInv' /\ UsedInv'
  BY SlotAssumption, SMT, SMTT(20) DEF IInv, TypeOK, PhaseInv, ExclusiveInv,
     TodoInv, RecordInv, AllocInv, LifeInv, ClaimInv, UsedInv, UniqueSlot,
     Managers, Slots, Live, Start
<1>3. RecordInv'
  BY SlotAssumption, SMT, SMTT(20) DEF IInv, TypeOK, RecordInv, PhaseInv, Managers, Live, Start
<1>6. AllocInv'
  <2>1. \A q \in Procs, b \in Sandboxes : cur[q] = b => p \notin Agents
    BY SlotAssumption DEF IInv, PhaseInv, Start
  <2> QED
    BY <2>1, SMT, SMTT(20) DEF IInv, TypeOK, AllocInv, Start
<1>7. LifeInv'
  BY SlotAssumption DEF IInv, TypeOK, LifeInv, Start
<1>4. ClaimInv'
  BY SlotAssumption, SMT, SMTT(20) DEF IInv, TypeOK, PhaseInv, ExclusiveInv,
     TodoInv, RecordInv, AllocInv, LifeInv, ClaimInv, UsedInv, UniqueSlot,
     Managers, Slots, Live, Start
<1>5. UniqueSlot'
  BY SlotAssumption DEF IInv, TypeOK, PhaseInv, ExclusiveInv,
     TodoInv, RecordInv, AllocInv, LifeInv, ClaimInv, UsedInv, UniqueSlot,
     Managers, Slots, Live, Start
<1> QED
  BY <1>1, <1>2, <1>3, <1>4, <1>5, <1>6, <1>7 DEF IInv

(* A process that serves has gone through its whole list, so every slot in  *)
(* use has its claim file again.                                            *)
LEMMA ServeInv ==
    ASSUME IInv, ~SharedAttach, NEW p \in Procs, Serve(p)
    PROVE  IInv'
<1>1. TypeOK'
  BY SlotAssumption DEF IInv, TypeOK, RecordInv, Slots, Serve
<1>2. PhaseInv' /\ ExclusiveInv' /\ TodoInv' /\ UsedInv'
  BY SlotAssumption, SMT, SMTT(20) DEF IInv, TypeOK, PhaseInv, ExclusiveInv,
     TodoInv, RecordInv, AllocInv, LifeInv, ClaimInv, UsedInv, UniqueSlot,
     Managers, Slots, Serve
<1>3. RecordInv' /\ AllocInv' /\ LifeInv'
  BY SlotAssumption, SMT, SMTT(20) DEF IInv, TypeOK, PhaseInv, ExclusiveInv,
     TodoInv, RecordInv, AllocInv, LifeInv, ClaimInv, UsedInv, UniqueSlot,
     Managers, Slots, Serve
<1>4. ClaimInv'
  BY SlotAssumption DEF IInv, TypeOK, PhaseInv, ExclusiveInv,
     TodoInv, RecordInv, AllocInv, LifeInv, ClaimInv, UsedInv, UniqueSlot,
     Managers, Slots, Serve
<1>5. UniqueSlot'
  BY SlotAssumption DEF IInv, TypeOK, PhaseInv, ExclusiveInv,
     TodoInv, RecordInv, AllocInv, LifeInv, ClaimInv, UsedInv, UniqueSlot,
     Managers, Slots, Serve
<1> QED
  BY <1>1, <1>2, <1>3, <1>4, <1>5 DEF IInv

(* A process that exits leaves slots and claim files as they are.           *)
LEMMA ExitInv ==
    ASSUME IInv, ~SharedAttach, NEW p \in Procs, Exit(p)
    PROVE  IInv'
<1>1. TypeOK'
  BY SlotAssumption, SMT, SMTT(20) DEF IInv, TypeOK, RecordInv, Slots, Exit
<1>2. PhaseInv' /\ ExclusiveInv' /\ TodoInv' /\ UsedInv'
  BY SlotAssumption, SMT, SMTT(20) DEF IInv, TypeOK, PhaseInv, ExclusiveInv,
     TodoInv, RecordInv, AllocInv, LifeInv, ClaimInv, UsedInv, UniqueSlot,
     Managers, Slots, Exit
<1>3. RecordInv' /\ AllocInv' /\ LifeInv'
  BY SlotAssumption, SMT, SMTT(20) DEF IInv, TypeOK, PhaseInv, ExclusiveInv,
     TodoInv, RecordInv, AllocInv, LifeInv, ClaimInv, UsedInv, UniqueSlot,
     Managers, Slots, Exit
<1>4. ClaimInv'
  BY SlotAssumption, SMT, SMTT(20) DEF IInv, TypeOK, PhaseInv, ExclusiveInv,
     TodoInv, RecordInv, AllocInv, LifeInv, ClaimInv, UsedInv, UniqueSlot,
     Managers, Slots, Exit
<1>5. UniqueSlot'
  BY SlotAssumption DEF IInv, TypeOK, PhaseInv, ExclusiveInv,
     TodoInv, RecordInv, AllocInv, LifeInv, ClaimInv, UsedInv, UniqueSlot,
     Managers, Slots, Exit
<1> QED
  BY <1>1, <1>2, <1>3, <1>4, <1>5 DEF IInv

(* Passing over an index whose claim file exists touches only the scan.     *)
LEMMA AllocateSkipInv ==
    ASSUME IInv, ~SharedAttach, NEW p \in Procs, AllocateSkip(p)
    PROVE  IInv'
<1>1. TypeOK'
  BY SlotAssumption, SMT, SMTT(20) DEF IInv, TypeOK, RecordInv, Slots, AllocateSkip
<1>2. PhaseInv' /\ ExclusiveInv' /\ TodoInv' /\ UsedInv'
  BY SlotAssumption, SMT, SMTT(20) DEF IInv, TypeOK, PhaseInv, ExclusiveInv,
     TodoInv, RecordInv, AllocInv, LifeInv, ClaimInv, UsedInv, UniqueSlot,
     Managers, Slots, AllocateSkip
<1>3. RecordInv' /\ AllocInv' /\ LifeInv'
  BY SlotAssumption, SMT, SMTT(20) DEF IInv, TypeOK, PhaseInv, ExclusiveInv,
     TodoInv, RecordInv, AllocInv, LifeInv, ClaimInv, UsedInv, UniqueSlot,
     Managers, Slots, AllocateSkip
<1>4. ClaimInv'
  BY SlotAssumption DEF IInv, TypeOK, PhaseInv, ExclusiveInv,
     TodoInv, RecordInv, AllocInv, LifeInv, ClaimInv, UsedInv, UniqueSlot,
     Managers, Slots, AllocateSkip
<1>5. UniqueSlot'
  BY SlotAssumption, SMT, SMTT(20) DEF IInv, TypeOK, PhaseInv, ExclusiveInv,
     TodoInv, RecordInv, AllocInv, LifeInv, ClaimInv, UsedInv, UniqueSlot,
     Managers, Slots, AllocateSkip
<1> QED
  BY <1>1, <1>2, <1>3, <1>4, <1>5 DEF IInv

(* The index Allocate claims is used by no sandbox: only an unreserved slot *)
(* lacks its file, and then the claimer would still be restoring.           *)
LEMMA AllocateClaimInv ==
    ASSUME IInv, ~SharedAttach, NEW p \in Procs, AllocateClaim(p)
    PROVE  IInv'
<1> PICK i \in Slots :
        /\ i \notin files
        /\ files' = files \cup {i}
        /\ inUse' = [inUse EXCEPT ![p] = @ \cup {i}]
        /\ boxes' = [boxes EXCEPT ![p][cur[p]] = i]
        /\ slot' = [slot EXCEPT ![cur[p]] = i]
        /\ cur' = [cur EXCEPT ![p] = NoBox]
        /\ UNCHANGED <<phase, seeded, scan, todo, life>>
  BY DEF AllocateClaim
<1> DEFINE b == cur[p]
<1>b. b \in Sandboxes /\ phase[p] = "serving"
  BY DEF AllocateClaim, IInv, TypeOK, PhaseInv
<1>f. \A c \in Sandboxes : slot[c] # i
  <2>1. i # 0
    BY SlotAssumption, SMT, SMTT(20) DEF Slots
  <2> SUFFICES ASSUME NEW c \in Sandboxes, slot[c] = i PROVE FALSE
    OBVIOUS
  <2>2. c \in todo[p]
    BY <1>b, <2>1 DEF IInv, ClaimInv
  <2> QED
    BY <1>b, <2>2 DEF IInv, PhaseInv
<1>v. /\ slot' = [slot EXCEPT ![b] = i]
      /\ boxes' = [boxes EXCEPT ![p] = [boxes[p] EXCEPT ![b] = i]]
      /\ i \in 0..MaxSlot
  BY SlotAssumption, SMT, SMTT(20) DEF Slots
<1>1. TypeOK'
  <2>1. boxes' \in [Procs -> [Sandboxes -> 0..MaxSlot]]
    BY <1>b, <1>v, SMT, SMTT(20) DEF IInv, TypeOK
  <2> QED
    BY SlotAssumption, <1>b, <1>v, <2>1, SMT, SMTT(20) DEF IInv, TypeOK, Slots
<1>2. PhaseInv' /\ ExclusiveInv' /\ TodoInv' /\ UsedInv'
  BY SlotAssumption, <1>b, <1>v, SMT, SMTT(20) DEF IInv, TypeOK, PhaseInv,
     ExclusiveInv, TodoInv, RecordInv, AllocInv, LifeInv, ClaimInv, UsedInv,
     UniqueSlot, Managers, Slots, AllocateClaim
<1>3. RecordInv'
  BY SlotAssumption, <1>b, <1>v, SMT, SMTT(20) DEF IInv, TypeOK, PhaseInv,
     ExclusiveInv, TodoInv, RecordInv, AllocInv, LifeInv, ClaimInv, UsedInv,
     UniqueSlot, Managers, Slots, AllocateClaim
<1>6. AllocInv'
  BY SlotAssumption, <1>b, <1>v, SMT, SMTT(20) DEF IInv, TypeOK, PhaseInv,
     ExclusiveInv, TodoInv, RecordInv, AllocInv, LifeInv, ClaimInv, UsedInv,
     UniqueSlot, Managers, Slots, AllocateClaim
<1>7. LifeInv'
  BY SlotAssumption, <1>b, <1>v, SMT, SMTT(20) DEF IInv, TypeOK, PhaseInv,
     ExclusiveInv, TodoInv, RecordInv, AllocInv, LifeInv, ClaimInv, UsedInv,
     UniqueSlot, Managers, Slots, AllocateClaim
<1>4. ClaimInv'
  BY SlotAssumption, <1>b, <1>v, SMT, SMTT(20) DEF IInv, TypeOK, PhaseInv,
     ExclusiveInv, TodoInv, RecordInv, AllocInv, LifeInv, ClaimInv, UsedInv,
     UniqueSlot, Managers, Slots, AllocateClaim
<1>5. UniqueSlot'
  BY SlotAssumption, <1>b, <1>f, <1>v, SMT, SMTT(20) DEF IInv, TypeOK, UniqueSlot
<1> QED
  BY <1>1, <1>2, <1>3, <1>4, <1>5, <1>6, <1>7 DEF IInv

(* A full scan abandons the sandbox, which never had a slot.                *)
LEMMA AllocateFailInv ==
    ASSUME IInv, ~SharedAttach, NEW p \in Procs, AllocateFail(p)
    PROVE  IInv'
<1>1. TypeOK'
  BY SlotAssumption DEF IInv, TypeOK, RecordInv, Slots, AllocateFail
<1>2. PhaseInv' /\ ExclusiveInv' /\ TodoInv' /\ UsedInv'
  BY SlotAssumption, SMT, SMTT(20) DEF IInv, TypeOK, PhaseInv, ExclusiveInv,
     TodoInv, RecordInv, AllocInv, LifeInv, ClaimInv, UsedInv, UniqueSlot,
     Managers, Slots, AllocateFail
<1>3. RecordInv' /\ AllocInv' /\ LifeInv'
  BY SlotAssumption, SMT, SMTT(20) DEF IInv, TypeOK, PhaseInv, ExclusiveInv,
     TodoInv, RecordInv, AllocInv, LifeInv, ClaimInv, UsedInv, UniqueSlot,
     Managers, Slots, AllocateFail
<1>4. ClaimInv'
  BY SlotAssumption DEF IInv, TypeOK, PhaseInv, ExclusiveInv,
     TodoInv, RecordInv, AllocInv, LifeInv, ClaimInv, UsedInv, UniqueSlot,
     Managers, Slots, AllocateFail
<1>5. UniqueSlot'
  BY SlotAssumption DEF IInv, TypeOK, PhaseInv, ExclusiveInv,
     TodoInv, RecordInv, AllocInv, LifeInv, ClaimInv, UsedInv, UniqueSlot,
     Managers, Slots, AllocateFail
<1> QED
  BY <1>1, <1>2, <1>3, <1>4, <1>5 DEF IInv

(* Reserve succeeds on a live sandbox: nothing the process attached to      *)
(* earlier has the same slot.                                               *)
LEMMA ReserveInv ==
    ASSUME IInv, ~SharedAttach, NEW p \in Procs, NEW b \in Sandboxes, Reserve(p, b)
    PROVE  IInv'
<1> DEFINE i == slot[b]
<1>a. /\ phase[p] = "restoring" /\ b \in todo[p] /\ life[b] = "live"
      /\ todo' = [todo EXCEPT ![p] = @ \ {b}]
      /\ UNCHANGED <<phase, cur, scan, life, slot>>
      /\ i \in Slots
  BY SlotAssumption, SMT, SMTT(20) DEF Reserve, IInv, TypeOK, TodoInv, LifeInv, Slots
<1>1. CASE ReserveOK(p, i)
  <2>1. /\ files' = files \cup {i}
        /\ inUse' = [inUse EXCEPT ![p] = @ \cup {i}]
        /\ seeded' = [seeded EXCEPT ![p] = @ \ {i}]
        /\ boxes' = [boxes EXCEPT ![p] = [boxes[p] EXCEPT ![b] = i]]
    BY <1>1, <1>a DEF Reserve
  <2>2. TypeOK'
    <3>1. boxes' \in [Procs -> [Sandboxes -> 0..MaxSlot]]
      BY <2>1 DEF IInv, TypeOK
    <3> QED
      BY <1>a, <2>1, <3>1 DEF IInv, TypeOK
  <2>3. PhaseInv' /\ ExclusiveInv' /\ TodoInv' /\ UsedInv'
    BY <1>a, <2>1, SMT, SMTT(20) DEF IInv, TypeOK, PhaseInv, ExclusiveInv, TodoInv,
       RecordInv,
     AllocInv, LifeInv, ClaimInv, UsedInv, UniqueSlot, Managers, Slots
  <2>4. RecordInv' /\ AllocInv' /\ LifeInv' /\ UniqueSlot'
    BY <1>a, <2>1, SMT, SMTT(20) DEF IInv, TypeOK, PhaseInv, ExclusiveInv, TodoInv,
       RecordInv,
     AllocInv, LifeInv, ClaimInv, UsedInv, UniqueSlot, Managers, Slots
  <2>5. ClaimInv'
    BY <1>a, <2>1 DEF IInv, TypeOK, ClaimInv
  <2> QED
    BY <2>2, <2>3, <2>4, <2>5 DEF IInv
<1>2. CASE ~ReserveOK(p, i)
  <2>1. PICK c \in Sandboxes : boxes[p][c] = i
    BY <1>2, <1>a DEF ReserveOK, IInv, UsedInv
  <2>2. c # b /\ slot[c] = i /\ i # 0
    BY SlotAssumption, <1>a, <2>1, SMT, SMTT(20) DEF IInv, TodoInv, RecordInv, Slots
  <2> QED
    BY <2>2 DEF IInv, UniqueSlot
<1> QED
  BY <1>1, <1>2

(* Sweeping a sandbox that did not survive frees its slot and its claim.    *)
LEMMA SweepDeadInv ==
    ASSUME IInv, ~SharedAttach, NEW p \in Procs, NEW b \in Sandboxes, SweepDead(p, b)
    PROVE  IInv'
<1>1. TypeOK'
  <2>1. inUse' \in [Procs -> SUBSET Slots] /\ seeded' \in [Procs -> SUBSET Slots]
    BY SlotAssumption DEF IInv, TypeOK, Slots, LifeInv, SweepDead
  <2>2. files' \in SUBSET Slots /\ boxes' \in [Procs -> [Sandboxes -> 0..MaxSlot]]
    BY SlotAssumption DEF IInv, TypeOK, Slots, LifeInv, SweepDead
  <2>3. todo' \in [Procs -> SUBSET Sandboxes]
    BY DEF IInv, TypeOK, SweepDead
  <2> QED
    BY SlotAssumption, <2>1, <2>2, <2>3, SMT, SMTT(20) DEF IInv, TypeOK, SweepDead
<1>2. PhaseInv' /\ ExclusiveInv' /\ TodoInv' /\ UsedInv'
  BY SlotAssumption, SMT, SMTT(20) DEF IInv, TypeOK, PhaseInv, ExclusiveInv,
     TodoInv, RecordInv, AllocInv, LifeInv, ClaimInv, UsedInv, UniqueSlot,
     Managers, Slots, SweepDead
<1>3. RecordInv' /\ AllocInv' /\ LifeInv'
  BY SlotAssumption, SMT, SMTT(20) DEF IInv, TypeOK, PhaseInv, ExclusiveInv,
     TodoInv, RecordInv, AllocInv, LifeInv, ClaimInv, UsedInv, UniqueSlot,
     Managers, Slots, SweepDead
<1>4. ClaimInv'
  BY SlotAssumption, SMT, SMTT(20) DEF IInv, TypeOK, PhaseInv, ExclusiveInv,
     TodoInv, RecordInv, AllocInv, LifeInv, ClaimInv, UsedInv, UniqueSlot,
     Managers, Slots, SweepDead
<1>5. UniqueSlot'
  BY SlotAssumption, SMT, SMTT(20) DEF IInv, TypeOK, PhaseInv, ExclusiveInv,
     TodoInv, RecordInv, AllocInv, LifeInv, ClaimInv, UsedInv, UniqueSlot,
     Managers, Slots, SweepDead
<1> QED
  BY <1>1, <1>2, <1>3, <1>4, <1>5 DEF IInv

(* A create starts with a sandbox that never had a slot.                    *)
LEMMA AllocateBeginInv ==
    ASSUME IInv, ~SharedAttach, NEW p \in Procs, NEW b \in Sandboxes, AllocateBegin(p, b)
    PROVE  IInv'
<1>1. TypeOK'
  BY SlotAssumption, SMT, SMTT(20) DEF IInv, TypeOK, RecordInv, Slots, AllocateBegin
<1>2. PhaseInv' /\ ExclusiveInv' /\ TodoInv' /\ UsedInv'
  BY SlotAssumption, SMT, SMTT(20) DEF IInv, TypeOK, PhaseInv, ExclusiveInv,
     TodoInv, RecordInv, AllocInv, LifeInv, ClaimInv, UsedInv, UniqueSlot,
     Managers, Slots, AllocateBegin
<1>3. RecordInv' /\ AllocInv' /\ LifeInv'
  BY SlotAssumption, SMT, SMTT(20) DEF IInv, TypeOK, PhaseInv, ExclusiveInv,
     TodoInv, RecordInv, AllocInv, LifeInv, ClaimInv, UsedInv, UniqueSlot,
     Managers, Slots, AllocateBegin
<1>4. ClaimInv'
  BY SlotAssumption DEF IInv, TypeOK, PhaseInv, ExclusiveInv,
     TodoInv, RecordInv, AllocInv, LifeInv, ClaimInv, UsedInv, UniqueSlot,
     Managers, Slots, AllocateBegin
<1>5. UniqueSlot'
  BY SlotAssumption DEF IInv, TypeOK, PhaseInv, ExclusiveInv,
     TodoInv, RecordInv, AllocInv, LifeInv, ClaimInv, UsedInv, UniqueSlot,
     Managers, Slots, AllocateBegin
<1> QED
  BY <1>1, <1>2, <1>3, <1>4, <1>5 DEF IInv

(* Writing the state file makes the sandbox live under the slot it has.     *)
LEMMA PersistInv ==
    ASSUME IInv, ~SharedAttach, NEW p \in Procs, NEW b \in Sandboxes, Persist(p, b)
    PROVE  IInv'
<1>1. TypeOK'
  BY SlotAssumption DEF IInv, TypeOK, RecordInv, Slots, Persist
<1>2. PhaseInv' /\ ExclusiveInv' /\ TodoInv' /\ UsedInv'
  BY SlotAssumption, SMT, SMTT(20) DEF IInv, TypeOK, PhaseInv, ExclusiveInv,
     TodoInv, RecordInv, AllocInv, LifeInv, ClaimInv, UsedInv, UniqueSlot,
     Managers, Slots, Persist
<1>3. RecordInv' /\ AllocInv' /\ LifeInv'
  BY SlotAssumption, SMT, SMTT(20) DEF IInv, TypeOK, PhaseInv, ExclusiveInv,
     TodoInv, RecordInv, AllocInv, LifeInv, ClaimInv, UsedInv, UniqueSlot,
     Managers, Slots, Persist
<1>4. ClaimInv'
  BY SlotAssumption, SMT, SMTT(20) DEF IInv, TypeOK, PhaseInv, ExclusiveInv,
     TodoInv, RecordInv, AllocInv, LifeInv, ClaimInv, UsedInv, UniqueSlot,
     Managers, Slots, Persist
<1>5. UniqueSlot'
  BY SlotAssumption DEF IInv, TypeOK, PhaseInv, ExclusiveInv,
     TodoInv, RecordInv, AllocInv, LifeInv, ClaimInv, UsedInv, UniqueSlot,
     Managers, Slots, Persist
<1> QED
  BY <1>1, <1>2, <1>3, <1>4, <1>5 DEF IInv

(* Release takes the slot from the only sandbox that has it.                *)
LEMMA ReleaseInv ==
    ASSUME IInv, ~SharedAttach, NEW p \in Procs, NEW b \in Sandboxes, Release(p, b)
    PROVE  IInv'
<1>1. TypeOK'
  <2>1. inUse' \in [Procs -> SUBSET Slots] /\ seeded' \in [Procs -> SUBSET Slots]
    BY SlotAssumption DEF IInv, TypeOK, Slots, LifeInv, Release
  <2>2. files' \in SUBSET Slots
    BY SlotAssumption DEF IInv, TypeOK, Slots, LifeInv, Release
  <2>4. boxes' = [boxes EXCEPT ![p] = [boxes[p] EXCEPT ![b] = 0]]
    BY DEF Release
  <2>5. boxes' \in [Procs -> [Sandboxes -> 0..MaxSlot]]
    BY SlotAssumption, <2>4, SMT, SMTT(20) DEF IInv, TypeOK
  <2>3. todo' \in [Procs -> SUBSET Sandboxes]
    BY DEF IInv, TypeOK, Release
  <2> QED
    BY SlotAssumption, <2>1, <2>2, <2>3, <2>5, SMT, SMTT(20) DEF IInv, TypeOK, Release
<1>2. PhaseInv' /\ ExclusiveInv' /\ TodoInv' /\ UsedInv'
  BY SlotAssumption, SMT, SMTT(20) DEF IInv, TypeOK, PhaseInv, ExclusiveInv,
     TodoInv, RecordInv, AllocInv, LifeInv, ClaimInv, UsedInv, UniqueSlot,
     Managers, Slots, Release
<1>3. RecordInv' /\ AllocInv' /\ LifeInv'
  BY SlotAssumption, SMT, SMTT(20) DEF IInv, TypeOK, PhaseInv, ExclusiveInv,
     TodoInv, RecordInv, AllocInv, LifeInv, ClaimInv, UsedInv, UniqueSlot,
     Managers, Slots, Release
<1>4. ClaimInv'
  BY SlotAssumption, SMT, SMTT(20) DEF IInv, TypeOK, PhaseInv, ExclusiveInv,
     TodoInv, RecordInv, AllocInv, LifeInv, ClaimInv, UsedInv, UniqueSlot,
     Managers, Slots, Release
<1>5. UniqueSlot'
  BY SlotAssumption, SMT, SMTT(20) DEF IInv, TypeOK, PhaseInv, ExclusiveInv,
     TodoInv, RecordInv, AllocInv, LifeInv, ClaimInv, UsedInv, UniqueSlot,
     Managers, Slots, Release
<1> QED
  BY <1>1, <1>2, <1>3, <1>4, <1>5 DEF IInv

(* A step that changes nothing keeps the invariant.                         *)
LEMMA StutterInv ==
    ASSUME IInv, UNCHANGED vars
    PROVE  IInv'
BY SMT, SMTT(20) DEF vars, IInv, TypeOK, PhaseInv, ExclusiveInv, TodoInv, RecordInv,
   AllocInv, LifeInv, ClaimInv, UsedInv, UniqueSlot, Managers

(* Every step of every process keeps the invariant.                         *)
LEMMA NextInv == ~SharedAttach /\ IInv /\ [Next]_vars => IInv'
<1> SUFFICES ASSUME ~SharedAttach, IInv, [Next]_vars PROVE IInv'
  OBVIOUS
<1>1. CASE UNCHANGED vars
  BY <1>1, StutterInv
<1>2. ASSUME NEW p \in Procs, Step(p) PROVE IInv'
  BY <1>2, StartInv, ServeInv, ExitInv, AllocateSkipInv, AllocateClaimInv,
     AllocateFailInv, ReserveInv, SweepDeadInv, AllocateBeginInv, PersistInv,
     ReleaseInv DEF Step
<1> QED
  BY <1>1, <1>2 DEF Next

(* As long as a process starts only when no live process manages a          *)
(* persisted sandbox, no two sandboxes ever use the same slot               *)
(* (allocator.go: Allocate, Reserve, Release, SeedFromDir), whatever        *)
(* crashes, restarts, sweeps and claim-file races happen, and every         *)
(* variable keeps its type.                                                 *)
THEOREM SlotsUnique ==
    ASSUME ~SharedAttach
    PROVE  Spec => [](TypeOK /\ UniqueSlot)
<1>1. IInv /\ [Next]_vars => IInv'
  BY NextInv
<1>2. IInv => TypeOK /\ UniqueSlot
  BY DEF IInv
<1> QED
  BY InitInv, <1>1, <1>2, PTL DEF Spec

-----------------------------------------------------------------------------
(* A host agent is the only process that is up: it knows every claim file,  *)
(* and every slot it knows as used has its sandbox.                         *)
AloneInv ==
    \A p \in Agents : phase[p] # "down" =>
        /\ \A q \in Procs : phase[q] # "down" => q = p
        /\ files \subseteq inUse[p]
        /\ \A i \in inUse[p] : \E b \in Sandboxes : slot[b] = i

(* Nothing is up initially.                                                 *)
LEMMA AloneInit == Init => AloneInv
BY SlotAssumption DEF Init, AloneInv

(* A step of one process keeps a host agent's view exact: the agent starts  *)
(* from a swept directory, and every step that uses or frees a slot updates *)
(* the map, the claim file and the sandbox together.                        *)
LEMMA AloneStep ==
    ASSUME IInv, AloneInv, NEW p \in Procs, Step(p)
    PROVE  AloneInv'
<1> SUFFICES ASSUME NEW a \in Agents, phase'[a] # "down"
             PROVE  /\ \A q \in Procs : phase'[q] # "down" => q = a
                    /\ files' \subseteq inUse'[a]
                    /\ \A i \in inUse'[a] : \E b \in Sandboxes : slot'[b] = i
  BY DEF AloneInv
<1>a. a \in Procs /\ TypeOK
  BY SlotAssumption DEF IInv
<1>1. CASE Start(p)
  <2>1. p = a
    BY <1>1, <1>a DEF Start, TypeOK
  <2> QED
    BY <1>1, <1>a, <2>1 DEF Start, TypeOK
<1>2. ASSUME ~Start(p) PROVE p = a /\ phase[a] # "down"
  <2>1. phase[a] # "down"
    BY <1>2, <1>a DEF Step, TypeOK, Serve, Exit, AllocateSkip, AllocateClaim, AllocateFail, Reserve, SweepDead,
       AllocateBegin, Persist, Release
  <2>2. phase[p] # "down"
    BY <1>2, <1>a, SMT, SMTT(20) DEF Step, TypeOK, IInv, PhaseInv, Serve, Exit, AllocateSkip, AllocateClaim, AllocateFail, Reserve,
       SweepDead, AllocateBegin, Persist, Release
  <2> QED
    BY <2>1, <2>2 DEF AloneInv
<1>3. ASSUME ~Start(p)
      PROVE  /\ \A q \in Procs : phase[q] # "down" => q = a
             /\ files \subseteq inUse[a]
             /\ \A i \in inUse[a] : \E b \in Sandboxes : slot[b] = i
  BY <1>2, <1>3 DEF AloneInv
<1>4. CASE Serve(p) \/ Exit(p) \/ AllocateFail(p)
  BY <1>1, <1>2, <1>3, <1>4, <1>a, SMT, SMTT(20) DEF Serve, Exit, AllocateFail, TypeOK
<1>5. CASE AllocateSkip(p)
  BY <1>1, <1>2, <1>3, <1>5, <1>a DEF AllocateSkip, TypeOK, IsNext
<1>6. CASE AllocateClaim(p)
  <2>1. cur[p] \in Sandboxes /\ slot[cur[p]] = 0
    BY <1>6, <1>a, SMT, SMTT(20) DEF AllocateClaim, TypeOK, IInv, AllocInv
  <2>2. 0 \notin inUse[a]
    BY <1>a, SMT, SMTT(20) DEF TypeOK, Slots
  <2> QED
    BY <1>1, <1>2, <1>3, <1>6, <1>a, <2>1, <2>2, SMT, SMTT(20) DEF AllocateClaim, TypeOK
<1>7. ASSUME NEW b \in Sandboxes, Reserve(p, b) PROVE AloneInv'
  BY <1>1, <1>2, <1>3, <1>7, <1>a, SMT, SMTT(20) DEF Reserve, TypeOK, AloneInv
<1>8. ASSUME NEW b \in Sandboxes, SweepDead(p, b) PROVE AloneInv'
  BY <1>1, <1>2, <1>3, <1>8, <1>a, SMT, SMTT(20) DEF SweepDead, TypeOK, AloneInv
<1>9. ASSUME NEW b \in Sandboxes, AllocateBegin(p, b) \/ Persist(p, b) PROVE AloneInv'
  BY <1>1, <1>2, <1>3, <1>9, <1>a, SMT, SMTT(20) DEF AllocateBegin, Persist, TypeOK, AloneInv
<1>10. ASSUME NEW b \in Sandboxes, Release(p, b) PROVE AloneInv'
  <2>1. boxes[p][b] = slot[b]
    BY <1>10 DEF Release, IInv, RecordInv
  <2> QED
    BY <1>1, <1>2, <1>3, <1>10, <1>a, <2>1, SMT, SMTT(20) DEF Release, TypeOK, AloneInv
<1> QED
  BY <1>1, <1>4, <1>5, <1>6, <1>7, <1>8, <1>9, <1>10 DEF Step, AloneInv

(* While the host agent serves, every slot it counts as used belongs to an  *)
(* existing sandbox, for any number of sandboxes and slots: no failed       *)
(* create, crash, sweep or restart loses one (allocator.go: Allocate,       *)
(* Reserve, Release; setup.go's sweep).                                     *)
THEOREM SlotsNotLost ==
    ASSUME ~SharedAttach
    PROVE  Spec => []NoSlotLeak
<1>1. IInv /\ [Next]_vars => IInv'
  BY NextInv
<1>2. IInv /\ AloneInv /\ [Next]_vars => AloneInv'
  <2>1. AloneInv /\ UNCHANGED vars => AloneInv'
    BY DEF AloneInv, vars
  <2> QED
    BY <2>1, AloneStep DEF Next
<1>3. AloneInv => NoSlotLeak
  BY DEF AloneInv, NoSlotLeak
<1> QED
  BY InitInv, AloneInit, <1>1, <1>2, <1>3, PTL DEF Spec
=============================================================================
