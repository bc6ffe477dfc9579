------------------------ MODULE SandboxManagerProofs ------------------------
(***************************************************************************)
(* For any number of concurrent calls on a sandbox, any number of VM        *)
(* generations, and crashes of any of them: nothing leaks, a paused sandbox *)
(* stays whole, and no VM is left behind by Shutdown.                       *)
(***************************************************************************)
EXTENDS SandboxManager, TLAPS

(* A leaf is Zenon's unless it names SMT; each is tried again with more time. *)
USE Zenon, SlowZenon

(* The points at which a call holds the sandbox's lifecycleMu, apart from   *)
(* the end of a Destroy.                                                    *)
Held == {"d_cleanup", "p_mem", "p_quiesce", "p_snapshot", "p_rollback", "p_wedged", "p_release", "p_swap",
         "r_acquire", "r_launch", "r_watch", "s_freeze", "s_thaw", "s_flatten"}

(* The points of a Create that owns resources no sandboxState names yet.    *)
Creating == {"c_boot", "c_publish"}
Making == \E c \in Calls : pc[c] \in Creating

(* Somebody took the sandbox off m.boxes and will tear it down.             *)
Taken == {"d_lock", "d_cleanup"}
Owed ==
    \/ \E c \in Calls : pc[c] \in Taken
    \/ \E g \in Gens : watch[g] = "cleanup"

(* A call is only ever at the points of its own operation.                  *)
PointInv ==
    \A c \in Calls :
        /\ pc[c] \in {"c_register", "c_acquire", "c_boot", "c_publish", "c_watch", "c_finish"} => Op(c) = "create"
        /\ pc[c] \in {"d_enter", "d_wait", "d_take", "d_lock", "d_cleanup", "d_files"} =>
             Op(c) \in {"destroy", "reap", "shutdown"}
        /\ pc[c] \in {"r_lock", "r_acquire", "r_launch", "r_watch"} => Op(c) = "resume"
        /\ pc[c] \in {"s_lock", "s_freeze", "s_thaw", "s_flatten"} => Op(c) \in {"snapshot", "flatten"}
        /\ pc[c] \in {"x_cancel", "x_wait", "x_pause", "x_list", "x_loops"} => Op(c) = "shutdown"

(* lifecycleMu is held by the call that is at a point where it needs it.    *)
LockInv ==
    /\ \A c \in Calls : pc[c] \in Held => sb.lock = c
    /\ sb.lock # None => pc[sb.lock] \in Held \cup {"d_files"}

(* Only the registered VM is alive.                                         *)
VMInv == \A g \in Gens : Alive(g) => g = vm

(* What the holder of lifecycleMu knows of the sandbox.                     *)
HoldInv ==
    /\ \A c \in Calls :
         /\ pc[c] \in {"p_mem", "s_freeze", "s_thaw", "r_watch"} => sb.st = "running"
         /\ pc[c] \in {"p_quiesce", "p_snapshot", "p_rollback", "p_release", "p_swap"} => sb.st = "pausing"
         /\ pc[c] = "p_wedged" => sb.st = "error"
         /\ pc[c] \in {"r_acquire", "r_launch", "s_flatten"} => sb.st = "paused"
         /\ pc[c] = "p_swap" => vm = 0 /\ ~sb.dm /\ ~sb.base
    /\ sb.st = "paused" => vm = 0 /\ ~sb.dm /\ ~sb.base

(* Before Create publishes the sandbox there is nothing to work on.         *)
NewInv ==
    /\ \A c \in Calls :
         /\ pc[c] = "c_publish" => sb.st = "none"
         /\ Op(c) = "create" /\ pc[c] \in {"idle", "c_register", "c_acquire", "c_boot"} => sb.st = "none" /\ vm = 0
         /\ pc[c] = "c_watch" => sb.st # "none"
         /\ \A d \in Calls : Op(c) = "create" /\ Op(d) = "create" /\ pc[c] # "absent" /\ pc[d] # "absent" => c = d
    /\ sb.st = "none" =>
         /\ ~boxed /\ Unlocked /\ ~sb.dm /\ ~sb.base /\ ~sb.slot
         /\ \A g \in Gens : watch[g] = "none"
         /\ \A c \in Calls : pc[c] \notin {"p_lock", "r_lock", "s_lock", "d_lock"}

(* The sandboxState, or the call that is about to fill it in, names what    *)
(* the sandbox holds of the host.                                           *)
FieldInv ==
    /\ host.dm => sb.dm \/ \E c \in Calls : pc[c] \in Creating \cup {"r_launch"}
    /\ host.slot = "self" => sb.slot \/ Making
    /\ \/ host.refs <= 1
       \/ /\ host.refs <= 2
          /\ sb.base \/ \E c \in Calls : pc[c] \in Creating \cup {"r_launch", "s_flatten"}

(* A sandbox that is off the map, that nobody is to tear down and that no   *)
(* Create is making holds nothing, and never will again.                    *)
Clean ==
    /\ \A g \in Gens : ~Alive(g)
    /\ ~host.dm /\ host.slot # "self" /\ host.refs <= 1
    /\ ~(sb.st = "paused" /\ disk.snap /\ Unlocked)
    /\ \A c \in Calls : pc[c] \notin {"r_acquire", "r_launch", "r_watch", "p_release", "p_swap", "s_flatten"}

GoneInv == ~boxed /\ ~Owed /\ ~Making => Clean

(* The sandbox is on the map, or one call or watcher has taken it.          *)
OwnerInv ==
    /\ boxed => ~Owed
    /\ \A c, d \in Calls : pc[c] \in Taken /\ pc[d] \in Taken => c = d
    /\ (\E c \in Calls : pc[c] \in Taken) => \A g \in Gens : watch[g] # "cleanup"

(* No Create is in flight, now or later: calls arrive once.                 *)
NoCreate == \A c \in Calls : Op(c) = "create" => At(c, "absent")

(* At most one call of the mix may destroy the sandbox.                     *)
OneDestroyer == \A c, d \in Destroyers : c = d

(* With one destroyer, a sandbox it has not begun to tear down is whole.    *)
Whole ==
    /\ \A c \in Calls : pc[c] \in {"d_cleanup", "d_files"} => ~boxed
    /\ boxed \/ (\E c \in Calls : pc[c] = "d_lock") =>
         /\ sb.st \in {"running", "pausing", "paused"} => disk.cow /\ host.slot = "self"
         /\ sb.st = "paused" => disk.snap

WholeInv == OneDestroyer => Whole

(* Shutdown leaves a paused sandbox, or none; nothing starts one again.     *)
ShutdownInv ==
    Starts = {} => \A c \in Calls :
        Op(c) = "shutdown" /\ pc[c] \in {"d_lock", "d_cleanup", "d_files", "x_loops", "done"} =>
            ~boxed \/ sb.st = "paused"

IInv == TypeOK /\ PointInv /\ LockInv /\ VMInv /\ HoldInv /\ NewInv /\ FieldInv /\ GoneInv /\ OwnerInv

(* Updating fields of a sandboxState gives one again.                       *)
LEMMA SandboxFields ==
    ASSUME NEW s \in SandboxState
    PROVE  /\ \A st \in Statuses : [s EXCEPT !.st = st, !.lock = None] \in SandboxState
           /\ [s EXCEPT !.dm = FALSE, !.base = FALSE] \in SandboxState
           /\ [s EXCEPT !.slot = FALSE, !.dm = FALSE, !.base = FALSE, !.lock = None] \in SandboxState
           /\ [s EXCEPT !.st = "running", !.dm = TRUE, !.base = TRUE, !.lazy = TRUE] \in SandboxState
  BY DEF SandboxState, Statuses

(* So does updating a base image's reference count and the dm device.       *)
LEMMA HostFields ==
    ASSUME NEW h \in HostState, NEW n \in Nat, NEW b \in BOOLEAN
    PROVE  [h EXCEPT !.refs = n, !.dm = b] \in HostState
  BY DEF HostState

(* Releasing yields counts and states the host can be in.                   *)
LEMMA TornDownType ==
    ASSUME TypeOK
    PROVE  TornDown \in HostState /\ LoopDropped \in Nat /\ LoopReleased \in Nat /\ host.refs + 1 \in Nat
<1>1. LoopDropped \in Nat /\ LoopReleased \in Nat /\ host.refs + 1 \in Nat
  BY SMT, SMTT(20) DEF TypeOK, HostState, LoopDropped, LoopReleased
<1>2. SlotReleased \in {"free", "self", "other"} /\ (host.dm /\ ~sb.dm) \in BOOLEAN
  BY DEF TypeOK, HostState, SlotReleased
<1> QED
  BY <1>1, <1>2 DEF TornDown, HostState

(* With no Create and no Resume half done, releasing what the fields name   *)
(* releases everything.                                                     *)
LEMMA Released ==
    ASSUME IInv, \A c \in Calls : pc[c] \notin Creating \cup {"r_launch", "s_flatten"}
    PROVE  LoopReleased <= 1 /\ SlotReleased # "self" /\ (host.dm /\ ~sb.dm) = FALSE
<1>1. /\ host.dm => sb.dm
      /\ host.slot = "self" => sb.slot
      /\ host.refs <= 1 \/ (host.refs <= 2 /\ sb.base)
  BY DEF IInv, FieldInv, Making
<1>2. host.refs \in Nat
  BY DEF IInv, TypeOK, HostState
<1>3. LoopReleased <= 1
  BY <1>1, <1>2, SMT, SMTT(20) DEF LoopReleased, LoopDropped
<1> QED
  BY <1>1, <1>3 DEF SlotReleased

(* Tearing the sandbox down leaves it without VM, device, slot and loop     *)
(* reference.                                                               *)
LEMMA TearDown ==
    ASSUME IInv, KillVM, host' = TornDown,
           \A c \in Calls : pc[c] \notin Creating \cup {"r_launch", "s_flatten"}
    PROVE  /\ host' \in HostState /\ vm' \in Gens \cup {0}
           /\ proc' \in [Gens -> {"none", "running", "frozen", "dead"}]
           /\ ~host'.dm /\ host'.slot # "self" /\ host'.refs <= 1
           /\ vm' = 0 /\ \A g \in Gens : proc'[g] \notin {"running", "frozen"}
<1>1. host' \in HostState
  BY TornDownType DEF IInv
<1>2. ~host'.dm /\ host'.slot # "self" /\ host'.refs <= 1
  BY Released DEF TornDown
<1>3. vm' = 0 /\ \A g \in Gens : proc'[g] \notin {"running", "frozen"}
  BY SMT, SMTT(20) DEF IInv, VMInv, KillVM, Alive, Gens
<1>4. proc' \in [Gens -> {"none", "running", "frozen", "dead"}]
  BY DEF IInv, TypeOK, KillVM
<1> QED
  BY <1>1, <1>2, <1>3, <1>4

-----------------------------------------------------------------------------
(* Create *)

(* A Create that is rolled back gives everything back.                      *)
LEMMA RolledBack ==
    ASSUME IInv, Rollback, NEW c \in Calls, pc[c] \in Creating, Goto(c, "c_finish"),
           UNCHANGED <<entry, handle, draining, boxed, sb, watch>>
    PROVE  IInv'
<1>1. host' \in HostState /\ ~host'.dm /\ host'.slot = "free" /\ host'.refs <= 1
  <2>1. LoopDropped \in Nat /\ LoopDropped <= 1
    BY SMT, SMTT(20) DEF IInv, TypeOK, HostState, FieldInv, LoopDropped
  <2> QED
    BY <2>1 DEF Rollback, HostState
<1>2. /\ vm' = 0 /\ \A g \in Gens : proc'[g] \notin {"running", "frozen"}
      /\ proc' \in [Gens -> {"none", "running", "frozen", "dead"}]
  BY SMT, SMTT(20) DEF IInv, TypeOK, VMInv, Rollback, KillVM, Alive, Gens
<1>3. disk' \in Directory
  BY DEF IInv, TypeOK, Rollback, Directory
<1>4. TypeOK'
  BY <1>1, <1>2, <1>3 DEF IInv, TypeOK, Points, Goto
<1> QED
  BY <1>1, <1>2, <1>4, SMT, SMTT(20) DEF IInv, PointInv, LockInv, Held, VMInv, Alive, HoldInv, NewInv, Unlocked, FieldInv, GoneInv,
     Clean, Taken, Creating, OwnerInv, Goto

(* CreateAcquire keeps the invariant.                                       *)
LEMMA CreateAcquireInv ==
    ASSUME IInv, NEW c \in Calls, CreateAcquire(c)
    PROVE  IInv'
<1>1. pc[c] = "c_acquire" /\ UNCHANGED <<entry, handle, draining, boxed, sb, vm, proc, watch>>
  BY DEF CreateAcquire, At
<1>2. CASE /\ host' = [slot |-> "self", refs |-> host.refs + 1, dm |-> TRUE]
           /\ disk' = [disk EXCEPT !.cow = TRUE] /\ Goto(c, "c_boot")
  <2>1. host' \in HostState /\ host'.refs = host.refs + 1
    BY <1>2, TornDownType DEF IInv, HostState
  <2>2. disk' \in Directory
    BY <1>2 DEF IInv, TypeOK, Directory
  <2>3. TypeOK'
    BY <1>1, <1>2, <2>1, <2>2 DEF IInv, TypeOK, Points, Goto
  <2> QED
    BY <1>1, <1>2, <2>1, <2>3, SMT, SMTT(20) DEF IInv, TypeOK, SandboxState, HostState, PointInv, LockInv, Held, VMInv, Alive,
       HoldInv, NewInv, Unlocked, FieldInv, GoneInv, Taken, Making, Creating, OwnerInv, Goto
<1>3. CASE Goto(c, "c_finish") /\ UNCHANGED <<host, disk>>
  BY <1>1, <1>3, SMT, SMTT(20) DEF IInv, TypeOK, PointInv, LockInv, Held, VMInv, Alive, HoldInv, NewInv, Unlocked, FieldInv,
     GoneInv, Clean, Taken, Making, Creating, OwnerInv, Goto, Points
<1> QED
  BY <1>2, <1>3 DEF CreateAcquire

(* CreateBoot keeps the invariant.                                          *)
LEMMA CreateBootInv ==
    ASSUME IInv, NEW c \in Calls, CreateBoot(c)
    PROVE  IInv'
<1>1. pc[c] = "c_boot" /\ UNCHANGED <<entry, handle, draining, boxed, sb, watch>>
  BY DEF CreateBoot, At
<1>2. ASSUME NEW g \in Fresh, vm' = g, proc' = [proc EXCEPT ![g] = "running"], Goto(c, "c_publish"),
             UNCHANGED <<host, disk>>
      PROVE  IInv'
  <2>1. TypeOK'
    BY <1>1, <1>2 DEF IInv, TypeOK, Points, Goto, Fresh
  <2> QED
    BY <1>1, <1>2, <2>1, SMT, SMTT(20) DEF IInv, TypeOK, PointInv, LockInv, Held, VMInv, Alive, HoldInv, NewInv, Unlocked,
       FieldInv, GoneInv, Taken, Making, Creating, OwnerInv, Goto
<1>3. CASE Rollback /\ Goto(c, "c_finish")
  BY <1>1, <1>3, RolledBack DEF Creating
<1> QED
  BY <1>2, <1>3 DEF CreateBoot

(* CreatePublish keeps the invariant: nobody else has met the sandbox yet.  *)
LEMMA CreatePublishInv ==
    ASSUME IInv, NEW c \in Calls, CreatePublish(c)
    PROVE  IInv'
<1>1. pc[c] = "c_publish" /\ UNCHANGED <<entry, handle, draining, watch>>
  BY DEF CreatePublish, At
<1>2. ASSUME boxed', NEW lazy \in BOOLEAN, Goto(c, "c_watch"), UNCHANGED <<vm, proc, host, disk>>,
             sb' = [st |-> "running", lock |-> None, slot |-> TRUE, dm |-> TRUE, base |-> TRUE, lazy |-> lazy]
      PROVE  IInv'
  <2>1. sb' \in SandboxState
    BY <1>2 DEF SandboxState, Statuses
  <2>2. sb'.st = "running" /\ sb'.lock = None /\ sb'.slot /\ sb'.dm /\ sb'.base
    BY <1>2
  <2>3. TypeOK'
    BY <1>1, <1>2, <2>1 DEF IInv, TypeOK, Points, Goto
  <2>4. boxed' /\ Goto(c, "c_watch") /\ UNCHANGED <<vm, proc, host, disk>>
    BY <1>2
  <2>5. OwnerInv'
    BY <1>1, <2>4, ManagerAssumption, SMT, SMTT(20) DEF IInv, TypeOK, LockInv, Held, Unlocked, NewInv, OwnerInv, Owed, Taken, Goto
  <2> QED
    BY <1>1, <2>1, <2>2, <2>3, <2>4, <2>5, ManagerAssumption, SMT, SMTT(20) DEF IInv, TypeOK, SandboxState, HostState, PointInv,
       LockInv, Held, VMInv, Alive, HoldInv, NewInv, FieldInv, GoneInv, Owed, Taken, Making, Creating, OwnerInv, At,
       Goto
<1>3. CASE Rollback /\ Goto(c, "c_finish") /\ UNCHANGED <<boxed, sb>>
  BY <1>1, <1>3, RolledBack DEF Creating
<1> QED
  BY <1>2, <1>3 DEF CreatePublish

(* The other steps of Create keep the invariant.                            *)
LEMMA CreateInv ==
    ASSUME IInv, NEW c \in Calls
    PROVE  CreateCall(c) \/ CreateRegister(c) \/ CreateWatch(c) \/ CreateFinish(c) => IInv'
<1>1. CASE CreateCall(c)
  BY <1>1, ManagerAssumption, SMT, SMTT(20) DEF CreateCall, IInv, TypeOK, PointInv, LockInv, Held, VMInv, Alive, HoldInv, NewInv,
     Unlocked, FieldInv, GoneInv, Clean, Taken, Making, Creating, OwnerInv, At, Goto, Points
<1>2. CASE CreateRegister(c)
  BY <1>2, ManagerAssumption, SMT, SMTT(20) DEF CreateRegister, IInv, TypeOK, PointInv, LockInv, Held, VMInv, Alive, HoldInv,
     NewInv, Unlocked, FieldInv, GoneInv, Clean, Owed, Taken, Making, Creating, OwnerInv, At, Goto, Points
<1>3. CASE CreateWatch(c)
  BY <1>3, SMT, SMTT(20) DEF CreateWatch, Watched, IInv, TypeOK, PointInv, LockInv, Held, VMInv, Alive, HoldInv, NewInv, Unlocked,
     FieldInv, GoneInv, Clean, Owed, Taken, Making, Creating, OwnerInv, At, Goto, Points
<1>4. CASE CreateFinish(c)
  BY <1>4, SMT, SMTT(20) DEF CreateFinish, IInv, TypeOK, PointInv, LockInv, Held, VMInv, Alive, HoldInv, NewInv, Unlocked,
     FieldInv, GoneInv, Clean, Owed, Taken, Making, Creating, OwnerInv, At, Goto, Points
<1> QED
  BY <1>1, <1>2, <1>3, <1>4

-----------------------------------------------------------------------------
(* Destroy *)

(* Taking the sandbox off the map makes the taker its owner.                *)
LEMMA TakeBoxInv ==
    ASSUME IInv, NEW c \in Calls, pc[c] \in {"d_enter", "d_wait"}, TakeBox(c),
           UNCHANGED <<handle, draining, sb, vm, proc, watch, host, disk>>
    PROVE  IInv'
<1>1. entry' \in [Calls -> Statuses]
  BY DEF IInv, TypeOK, SandboxState, Statuses, TakeBox
<1>2. boxed' = FALSE /\ pc' = [pc EXCEPT ![c] = IF boxed THEN "d_lock" ELSE "d_files"]
  BY DEF TakeBox, Goto
<1>3. TypeOK'
  BY <1>1, <1>2 DEF IInv, TypeOK, Points
<1> QED
  BY <1>2, <1>3, SMT, SMTT(20) DEF IInv, TypeOK, Directory, PointInv, LockInv, Held, VMInv, Alive, HoldInv, NewInv, Unlocked,
     FieldInv, GoneInv, Clean, Owed, Taken, Making, Creating, OwnerInv

(* Entering Destroy keeps the invariant, at once or after the wait for a    *)
(* Create.                                                                  *)
LEMMA DestroyEnterInv ==
    ASSUME IInv, NEW c \in Calls, DestroyEnter(c) \/ DestroyWait(c)
    PROVE  IInv'
<1>1. CASE TakeBox(c) /\ UNCHANGED handle
  BY <1>1, TakeBoxInv DEF DestroyEnter, DestroyWait, At
<1>2. CASE handle' = "cancelled" /\ Goto(c, "d_wait") /\ UNCHANGED <<boxed, entry>>
  BY <1>2, SMT, SMTT(20) DEF IInv, TypeOK, PointInv, LockInv, Held, VMInv, Alive, HoldInv, NewInv, Unlocked, FieldInv, GoneInv,
     Clean, Owed, Taken, Making, Creating, OwnerInv, At, Goto, DestroyEnter, DestroyWait, Points
<1> QED
  BY <1>1, <1>2 DEF DestroyEnter, DestroyWait

(* DestroyLock keeps the invariant, also when it puts a paused sandbox      *)
(* back.                                                                    *)
LEMMA DestroyLockInv ==
    ASSUME IInv, NEW c \in Calls, DestroyLock(c)
    PROVE  IInv'
<1>1. pc[c] = "d_lock" /\ Unlocked /\ UNCHANGED <<entry, handle, draining, vm, proc, watch, host, disk>>
  BY DEF DestroyLock, At
<1>2. CASE sb.st = "paused" /\ boxed' = TRUE /\ DestroyReturns(c) /\ UNCHANGED sb
  BY <1>1, <1>2, SMT, SMTT(20) DEF IInv, TypeOK, Directory, PointInv, LockInv, Held, VMInv, Alive, HoldInv, NewInv, Unlocked,
     FieldInv, GoneInv, Clean, Owed, Taken, Making, Creating, OwnerInv, Goto, DestroyReturns, Points
<1>3. CASE sb' = [sb EXCEPT !.lock = c] /\ Goto(c, "d_cleanup") /\ UNCHANGED boxed
  BY <1>1, <1>3, ManagerAssumption, SMT, SMTT(20) DEF IInv, TypeOK, SandboxState, PointInv, LockInv, Held, VMInv, Alive, HoldInv,
     NewInv, Unlocked, FieldInv, GoneInv, Owed, Taken, Making, Creating, OwnerInv, Goto, Points
<1> QED
  BY <1>2, <1>3 DEF DestroyLock

(* The other steps of Destroy keep the invariant.                           *)
LEMMA DestroyInv ==
    ASSUME IInv, NEW c \in Calls
    PROVE  DestroyCall(c) \/ DestroyCleanup(c) \/ DestroyFiles(c) => IInv'
<1>1. CASE DestroyCall(c)
  BY <1>1, SMT, SMTT(20) DEF DestroyCall, IInv, TypeOK, PointInv, LockInv, Held, VMInv, Alive, HoldInv, NewInv, Unlocked, FieldInv,
     GoneInv, Clean, Owed, Taken, Making, Creating, OwnerInv, At, Goto, Points
<1>2. CASE DestroyCleanup(c)
  BY <1>2, ManagerAssumption, SMT, SMTT(20) DEF DestroyCleanup, KillVM, TornDown, LoopReleased, LoopDropped, SlotReleased,
     SandboxState, HostState, Directory, IInv, TypeOK, PointInv, LockInv, Held, VMInv, Alive, HoldInv, NewInv,
     Unlocked, FieldInv, GoneInv, Clean, Owed, Taken, Making, Creating, OwnerInv, At, Goto, Points, Statuses
<1>3. CASE DestroyFiles(c)
  BY <1>3, SMT, SMTT(20) DEF DestroyFiles, DestroyReturns, SandboxState, Directory, IInv, TypeOK, PointInv, LockInv, Held, VMInv,
     Alive, HoldInv, NewInv, Unlocked, FieldInv, GoneInv, Clean, Owed, Taken, Making, Creating, OwnerInv, At, Goto,
     Points
<1> QED
  BY <1>1, <1>2, <1>3

-----------------------------------------------------------------------------
(* Pause *)

(* Rolling a Pause back keeps the invariant.                                *)
LEMMA PauseRollbackInv ==
    ASSUME IInv, NEW c \in Calls, PauseRollback(c)
    PROVE  IInv'
<1>1. pc[c] = "p_rollback" /\ UNCHANGED <<entry, handle, draining, boxed, vm, watch, host, disk>>
  BY DEF PauseRollback, At
<1>2. CASE /\ Alive(vm) /\ proc' = [proc EXCEPT ![vm] = "running"]
           /\ sb' = [sb EXCEPT !.st = "running", !.lock = None]
           /\ PauseReturns(c, FALSE)
  <2>1. sb' \in SandboxState
    BY <1>2, SandboxFields DEF IInv, TypeOK, Statuses
  <2>2. sb'.st = "running" /\ sb'.lock = None /\ sb'.slot = sb.slot /\ sb'.dm = sb.dm /\ sb'.base = sb.base
    BY <1>2 DEF IInv, TypeOK, SandboxState
  <2>3. TypeOK'
    BY <1>1, <1>2, <2>1 DEF IInv, TypeOK, Points, Goto, PauseReturns, AfterPause
  <2>4. Alive(vm) /\ proc' = [proc EXCEPT ![vm] = "running"] /\ PauseReturns(c, FALSE)
    BY <1>2
  <2> QED
    BY <1>1, <2>1, <2>2, <2>3, <2>4, SMT, SMTT(20) DEF IInv, TypeOK, PointInv, LockInv, Held, VMInv, Alive, HoldInv, NewInv,
       FieldInv, GoneInv, Clean, Owed, Taken, Making, Creating, OwnerInv, Goto, PauseReturns, AfterPause
<1>3. CASE sb' = [sb EXCEPT !.st = "error"] /\ Goto(c, "p_wedged") /\ UNCHANGED proc
  BY <1>1, <1>3, SMT, SMTT(20) DEF IInv, TypeOK, SandboxState, PointInv, LockInv, Held, VMInv, Alive, HoldInv, NewInv, FieldInv,
     GoneInv, Clean, Owed, Taken, Making, Creating, OwnerInv, Goto, Points, Statuses
<1> QED
  BY <1>2, <1>3 DEF PauseRollback

(* Giving up a wedged sandbox keeps the invariant.                          *)
LEMMA PauseWedgedInv ==
    ASSUME IInv, NEW c \in Calls, PauseWedged(c)
    PROVE  IInv'
<1>1. sb' \in SandboxState
  BY SandboxFields DEF IInv, TypeOK, PauseWedged
<1>2. sb'.st = "error" /\ sb'.lock = None /\ ~sb'.slot /\ ~sb'.dm /\ ~sb'.base
  BY DEF IInv, TypeOK, PauseWedged, SandboxState, HoldInv, At
<1>3. \A d \in Calls : pc[d] \notin Creating \cup {"r_launch", "s_flatten"}
  BY DEF IInv, HoldInv, NewInv, PointInv, Creating, PauseWedged, At
<1>4. /\ host' \in HostState /\ vm' \in Gens \cup {0}
      /\ proc' \in [Gens -> {"none", "running", "frozen", "dead"}]
      /\ ~host'.dm /\ host'.slot # "self" /\ host'.refs <= 1
      /\ vm' = 0 /\ \A g \in Gens : proc'[g] \notin {"running", "frozen"}
  BY <1>3, TearDown DEF PauseWedged
<1>5. pc[c] = "p_wedged" /\ PauseReturns(c, FALSE) /\ disk' = [cow |-> FALSE, snap |-> FALSE]
      /\ UNCHANGED <<entry, handle, draining, boxed, watch>>
  BY DEF PauseWedged, At
<1>6. TypeOK'
  BY <1>1, <1>4, <1>5 DEF IInv, TypeOK, Points, Goto, PauseReturns, AfterPause, Directory
<1> QED
  BY <1>1, <1>2, <1>3, <1>4, <1>5, <1>6, ManagerAssumption, SMT, SMTT(20) DEF IInv, TypeOK, SandboxState, HostState, Directory,
     PointInv, LockInv, Held, VMInv, Alive, HoldInv, NewInv, Unlocked, FieldInv, GoneInv, Clean, Owed, Taken,
     Making, Creating, OwnerInv, At, Goto, PauseReturns, AfterPause

(* Releasing the runtime of a sandbox being paused keeps the invariant.     *)
LEMMA PauseReleaseInv ==
    ASSUME IInv, NEW c \in Calls, PauseRelease(c)
    PROVE  IInv'
<1>1. sb' \in SandboxState
  BY SandboxFields DEF IInv, TypeOK, PauseRelease
<1>2. sb'.st = sb.st /\ sb'.lock = sb.lock /\ sb'.slot = sb.slot /\ ~sb'.dm /\ ~sb'.base
  BY DEF IInv, TypeOK, PauseRelease, SandboxState
<1>3. \A d \in Calls : pc[d] \notin Creating \cup {"r_launch", "s_flatten"}
  BY DEF IInv, HoldInv, NewInv, PointInv, Creating, PauseRelease, At
<1>4. host' \in HostState /\ host'.slot = host.slot /\ ~host'.dm /\ host'.refs <= 1
  <2>1. TornDown \in HostState /\ host' = [TornDown EXCEPT !.slot = host.slot]
    BY TornDownType DEF IInv, PauseRelease
  <2>2. TornDown.dm = FALSE /\ TornDown.refs <= 1
    BY <1>3, Released DEF TornDown
  <2> QED
    BY <2>1, <2>2 DEF IInv, TypeOK, HostState
<1>5. /\ vm' = 0 /\ \A g \in Gens : proc'[g] \notin {"running", "frozen"}
      /\ proc' \in [Gens -> {"none", "running", "frozen", "dead"}]
  BY SMT, SMTT(20) DEF IInv, TypeOK, VMInv, PauseRelease, KillVM, Alive, Gens
<1>6. pc[c] = "p_release" /\ Goto(c, "p_swap") /\ UNCHANGED <<entry, handle, draining, boxed, watch, disk>>
  BY DEF PauseRelease, At
<1>7. TypeOK'
  BY <1>1, <1>4, <1>5, <1>6 DEF IInv, TypeOK, Points, Goto
<1>8. PointInv' /\ LockInv' /\ HoldInv' /\ NewInv' /\ OwnerInv'
  BY <1>2, <1>5, <1>6, SMT, SMTT(20) DEF IInv, PointInv, LockInv, Held, HoldInv, NewInv, OwnerInv, Owed, Taken, Goto
<1>9. VMInv' /\ FieldInv' /\ GoneInv'
  BY <1>2, <1>4, <1>5, <1>6, SMT, SMTT(20) DEF IInv, VMInv, Alive, FieldInv, GoneInv, Clean, Owed, Taken, Making, Creating, Goto
<1> QED
  BY <1>7, <1>8, <1>9 DEF IInv

(* The last step of a Pause keeps the invariant.                            *)
LEMMA PauseSwapInv ==
    ASSUME IInv, NEW c \in Calls, PauseSwap(c)
    PROVE  IInv'
<1>1. sb' \in SandboxState
  BY SandboxFields DEF IInv, TypeOK, PauseSwap, Statuses
<1>2. disk' \in Directory
  BY DEF IInv, TypeOK, PauseSwap, Directory
<1>3. TypeOK'
  BY <1>1, <1>2 DEF IInv, TypeOK, Points, PauseSwap, Goto, PauseReturns, AfterPause
<1>4. /\ sb'.st \in {"paused", "error"} /\ sb'.lock = None
      /\ sb'.slot = sb.slot /\ sb'.dm = sb.dm /\ sb'.base = sb.base
  BY DEF IInv, TypeOK, PauseSwap, SandboxState
<1> QED
  BY <1>1, <1>2, <1>3, <1>4, SMT, SMTT(20) DEF IInv, TypeOK, HostState, PointInv, LockInv, Held, VMInv, Alive, HoldInv, NewInv,
     FieldInv, GoneInv, Clean, Owed, Taken, Making, Creating, OwnerInv, PauseSwap, At, Goto, PauseReturns, AfterPause

(* The other steps of Pause keep the invariant.                             *)
LEMMA PauseInv ==
    ASSUME IInv, NEW c \in Calls
    PROVE  PauseCall(c) \/ PauseGet(c) \/ PauseLock(c) \/ PauseMaterialize(c) \/ PauseQuiesce(c) \/ PauseSnapshot(c)
             => IInv'
<1>1. CASE PauseCall(c)
  BY <1>1, ManagerAssumption, SMT, SMTT(20) DEF PauseCall, IInv, TypeOK, PointInv, LockInv, Held, VMInv, Alive, HoldInv, NewInv,
     Unlocked, FieldInv, GoneInv, Clean, Owed, Taken, Making, Creating, OwnerInv, At, Goto, Points
<1>2. CASE PauseGet(c)
  <2>1. CASE boxed /\ Goto(c, "p_lock")
    BY <1>2, <2>1, SMT, SMTT(20) DEF PauseGet, IInv, TypeOK, PointInv, LockInv, Held, VMInv, Alive, HoldInv, NewInv, FieldInv,
       GoneInv, Owed, Taken, Making, Creating, OwnerInv, At, Goto, Points
  <2>2. CASE PauseReturns(c, FALSE)
    BY <1>2, <2>2, SMT, SMTT(20) DEF PauseGet, PauseReturns, AfterPause, IInv, TypeOK, PointInv, LockInv, Held, VMInv, Alive,
       HoldInv, NewInv, Unlocked, FieldInv, GoneInv, Clean, Owed, Taken, Making, Creating, OwnerInv, At, Goto, Points
  <2> QED
    BY <1>2, <2>1, <2>2, ManagerAssumption DEF PauseGet, IInv, TypeOK, PointInv, LockInv, Held, VMInv, Alive,
       HoldInv, NewInv, Unlocked, FieldInv, GoneInv, Clean, Owed, Taken, Making, Creating, OwnerInv, At, Goto,
       Points, Statuses
<1>3. CASE PauseLock(c)
  BY <1>3, ManagerAssumption, SMT, SMTT(20) DEF PauseLock, PauseReturns, AfterPause, SandboxState, HostState, Directory, IInv,
     TypeOK, PointInv, LockInv, Held, VMInv, Alive, HoldInv, NewInv, Unlocked, FieldInv, GoneInv, Clean, Owed,
     Taken, Making, Creating, OwnerInv, At, Goto, Points
<1>4. CASE PauseMaterialize(c)
  BY <1>4, ManagerAssumption, SMT, SMTT(20) DEF PauseMaterialize, Materialized, Unlock, PauseReturns, AfterPause, SandboxState,
     HostState, Directory, IInv, TypeOK, PointInv, LockInv, Held, VMInv, Alive, HoldInv, NewInv, FieldInv, GoneInv,
     Clean, Owed, Taken, Making, Creating, OwnerInv, At, Goto, Points, Statuses
<1>5. CASE PauseQuiesce(c)
  BY <1>5, SMT, SMTT(20) DEF PauseQuiesce, Freeze, IInv, TypeOK, PointInv, LockInv, Held, VMInv, Alive, HoldInv, NewInv, FieldInv,
     GoneInv, Clean, Owed, Taken, Making, Creating, OwnerInv, At, Goto, Points
<1>6. CASE PauseSnapshot(c)
  BY <1>6, SMT, SMTT(20) DEF PauseSnapshot, IInv, TypeOK, PointInv, LockInv, Held, VMInv, Alive, HoldInv, NewInv, FieldInv,
     GoneInv, Clean, Owed, Taken, Making, Creating, OwnerInv, At, Goto, Points
<1> QED
  BY <1>1, <1>2, <1>3, <1>4, <1>5, <1>6

-----------------------------------------------------------------------------
(* Resume, CreateSnapshot, FlattenRootfs *)

(* ResumeAcquire keeps the invariant.                                       *)
LEMMA ResumeAcquireInv ==
    ASSUME IInv, NEW c \in Calls, ResumeAcquire(c)
    PROVE  IInv'
<1>1. PICK n \in Nat : n = host.refs + 1
  BY TornDownType DEF IInv
<1>2. CASE host' = [host EXCEPT !.refs = n, !.dm = TRUE] /\ Goto(c, "r_launch") /\ UNCHANGED sb
  <2>1. host' \in HostState /\ host'.refs = n /\ host'.dm /\ host'.slot = host.slot
    BY <1>2, HostFields DEF IInv, TypeOK, HostState
  <2>2. TypeOK'
    BY <1>2, <2>1 DEF IInv, TypeOK, Points, ResumeAcquire, Goto
  <2> QED
    BY <1>1, <1>2, <2>1, <2>2, SMT, SMTT(20) DEF IInv, TypeOK, HostState, PointInv, LockInv, Held, VMInv, Alive, HoldInv, NewInv,
       FieldInv, GoneInv, Clean, Owed, Taken, Making, Creating, OwnerInv, ResumeAcquire, At, Goto
<1>3. CASE Unlock /\ Goto(c, "done") /\ UNCHANGED host
  BY <1>3, SMT, SMTT(20) DEF IInv, TypeOK, SandboxState, Points, PointInv, LockInv, Held, VMInv, Alive, HoldInv, NewInv, FieldInv,
     GoneInv, Clean, Owed, Taken, Making, Creating, OwnerInv, ResumeAcquire, At, Goto, Unlock
<1> QED
  BY <1>1, <1>2, <1>3 DEF ResumeAcquire

(* ResumeLaunch keeps the invariant: the generation it starts is the only   *)
(* one alive.                                                               *)
LEMMA ResumeLaunchInv ==
    ASSUME IInv, NEW c \in Calls, ResumeLaunch(c)
    PROVE  IInv'
<1>1. pc[c] = "r_launch" /\ UNCHANGED <<entry, handle, draining, boxed, watch, disk>>
  BY DEF ResumeLaunch, At
<1>2. ASSUME NEW g \in Fresh, vm' = g, proc' = [proc EXCEPT ![g] = "running"],
             sb' = [sb EXCEPT !.st = "running", !.dm = TRUE, !.base = TRUE, !.lazy = TRUE],
             Goto(c, "r_watch"), UNCHANGED host
      PROVE  IInv'
  <2>1. sb' \in SandboxState
    BY <1>2, SandboxFields DEF IInv, TypeOK
  <2>2. sb'.st = "running" /\ sb'.lock = sb.lock /\ sb'.slot = sb.slot /\ sb'.dm /\ sb'.base
    BY <1>2 DEF IInv, TypeOK, SandboxState
  <2>3. TypeOK'
    BY <1>1, <1>2, <2>1 DEF IInv, TypeOK, Points, Goto, Fresh
  <2>4. g \in Gens /\ vm' = g /\ proc' = [proc EXCEPT ![g] = "running"] /\ Goto(c, "r_watch") /\ UNCHANGED host
    BY <1>2 DEF Fresh
  <2>5. PointInv' /\ LockInv'
    BY <1>1, <2>1, <2>2, <2>3, <2>4, SMT, SMTT(20) DEF IInv, TypeOK, SandboxState, PointInv, LockInv, Held, VMInv, Alive, HoldInv,
       NewInv, Unlocked, FieldInv, GoneInv, Clean, Owed, Taken, Making, Creating, OwnerInv, At, Goto
  <2>6. VMInv' /\ HoldInv'
    BY <1>1, <2>1, <2>2, <2>3, <2>4, SMT, SMTT(20) DEF IInv, TypeOK, SandboxState, PointInv, LockInv, Held, VMInv, Alive, HoldInv,
       NewInv, Unlocked, FieldInv, GoneInv, Clean, Owed, Taken, Making, Creating, OwnerInv, At, Goto
  <2>7. NewInv' /\ FieldInv'
    BY <1>1, <2>1, <2>2, <2>3, <2>4, SMT, SMTT(20) DEF IInv, TypeOK, SandboxState, PointInv, LockInv, Held, VMInv, Alive, HoldInv,
       NewInv, Unlocked, FieldInv, GoneInv, Clean, Owed, Taken, Making, Creating, OwnerInv, At, Goto
  <2>8. GoneInv' /\ OwnerInv'
    BY <1>1, <2>1, <2>2, <2>3, <2>4, SMT, SMTT(20) DEF IInv, TypeOK, SandboxState, PointInv, LockInv, Held, VMInv, Alive, HoldInv,
       NewInv, Unlocked, FieldInv, GoneInv, Clean, Owed, Taken, Making, Creating, OwnerInv, At, Goto
  <2> QED
    BY <2>3, <2>5, <2>6, <2>7, <2>8 DEF IInv
<1>3. CASE /\ host' = [host EXCEPT !.refs = LoopDropped, !.dm = FALSE]
           /\ Unlock /\ Goto(c, "done") /\ UNCHANGED <<vm, proc>>
  <2>1. host' \in HostState
    BY <1>3, HostFields, TornDownType DEF IInv, TypeOK
  <2>2. host'.slot = host.slot /\ ~host'.dm /\ host'.refs <= 1
    BY <1>3, SMT, SMTT(20) DEF IInv, TypeOK, HostState, FieldInv, LoopDropped
  <2>3. TypeOK'
    BY <1>1, <1>3, <2>1 DEF IInv, TypeOK, SandboxState, Points, Goto, Unlock
  <2>4. Unlock /\ Goto(c, "done") /\ UNCHANGED <<vm, proc>>
    BY <1>3
  <2> QED
    BY <1>1, <2>1, <2>2, <2>3, <2>4, SMT, SMTT(20) DEF IInv, TypeOK, PointInv, LockInv, Held, VMInv, Alive, HoldInv, NewInv,
       Unlocked, FieldInv, GoneInv, Clean, Owed, Taken, Making, Creating, OwnerInv, Goto, Unlock
<1> QED
  BY <1>2, <1>3 DEF ResumeLaunch

(* The other steps of Resume keep the invariant.                            *)
LEMMA ResumeInv ==
    ASSUME IInv, NEW c \in Calls
    PROVE  ResumeCall(c) \/ ResumeLock(c) \/ ResumeWatch(c) => IInv'
<1>1. CASE ResumeCall(c)
  BY <1>1, ManagerAssumption, SMT, SMTT(20) DEF ResumeCall, IInv, TypeOK, PointInv, LockInv, Held, VMInv, Alive, HoldInv, NewInv,
     Unlocked, FieldInv, GoneInv, Clean, Owed, Taken, Making, Creating, OwnerInv, At, Goto, Points, Statuses
<1>2. CASE ResumeLock(c)
  BY <1>2, ManagerAssumption, SMT, SMTT(20) DEF ResumeLock, SandboxState, HostState, IInv, TypeOK, PointInv, LockInv, Held, VMInv,
     Alive, HoldInv, NewInv, Unlocked, FieldInv, GoneInv, Clean, Owed, Taken, Making, Creating, OwnerInv, At, Goto,
     Points, Statuses
<1>3. CASE ResumeWatch(c)
  BY <1>3, SMT, SMTT(20) DEF ResumeWatch, Watched, Unlock, SandboxState, IInv, TypeOK, PointInv, LockInv, Held, VMInv, Alive,
     HoldInv, NewInv, FieldInv, GoneInv, Clean, Owed, Taken, Making, Creating, OwnerInv, At, Goto, Points
<1> QED
  BY <1>1, <1>2, <1>3

(* The steps of CreateSnapshot and FlattenRootfs keep the invariant.        *)
LEMMA SnapshotInv ==
    ASSUME IInv, NEW c \in Calls
    PROVE  SnapshotCall(c) \/ SnapshotLock(c) \/ SnapshotFreeze(c) \/ SnapshotThaw(c) \/ SnapshotFlatten(c) => IInv'
<1>1. CASE SnapshotCall(c)
  BY <1>1, SMT, SMTT(20) DEF SnapshotCall, IInv, TypeOK, PointInv, LockInv, Held, VMInv, Alive, HoldInv, NewInv, Unlocked,
     FieldInv, GoneInv, Clean, Owed, Taken, Making, Creating, OwnerInv, At, Goto, Points
<1>2. CASE SnapshotLock(c)
  BY <1>2, ManagerAssumption, SMT, SMTT(20) DEF SnapshotLock, SandboxState, HostState, IInv, TypeOK, PointInv, LockInv, Held,
     VMInv, Alive, HoldInv, NewInv, Unlocked, FieldInv, GoneInv, Clean, Owed, Taken, Making, Creating, OwnerInv, At,
     Goto, Points
<1>3. CASE SnapshotFreeze(c)
  BY <1>3, ManagerAssumption, SMT, SMTT(20) DEF SnapshotFreeze, Freeze, Materialized, Unlock, SandboxState, IInv, TypeOK, PointInv,
     LockInv, Held, VMInv, Alive, HoldInv, NewInv, FieldInv, GoneInv, Clean, Owed, Taken, Making, Creating,
     OwnerInv, At, Goto, Points
<1>4. CASE SnapshotThaw(c)
  BY <1>4, SMT, SMTT(20) DEF SnapshotThaw, Unlock, SandboxState, IInv, TypeOK, PointInv, LockInv, Held, VMInv, Alive, HoldInv,
     NewInv, FieldInv, GoneInv, Clean, Owed, Taken, Making, Creating, OwnerInv, At, Goto, Points
<1>5. CASE SnapshotFlatten(c)
  BY <1>5, SMT, SMTT(20) DEF SnapshotFlatten, LoopDropped, Unlock, SandboxState, HostState, IInv, TypeOK, PointInv, LockInv, Held,
     VMInv, Alive, HoldInv, NewInv, FieldInv, GoneInv, Clean, Owed, Taken, Making, Creating, OwnerInv, At, Goto,
     Points
<1> QED
  BY <1>1, <1>2, <1>3, <1>4, <1>5

-----------------------------------------------------------------------------
(* The reaper, Shutdown, VM processes and crash watchers *)

(* The steps of the reaper and of Shutdown keep the invariant.              *)
LEMMA ShutdownStepInv ==
    ASSUME IInv, NEW c \in Calls
    PROVE  ReapScan(c) \/ ShutdownCall(c) \/ ShutdownCancel(c) \/ ShutdownWait(c) \/ ShutdownPauseAll(c)
             \/ ShutdownList(c) \/ ShutdownLoops(c) => IInv'
<1>1. CASE ReapScan(c)
  BY <1>1, SMT, SMTT(20) DEF ReapScan, IInv, TypeOK, PointInv, LockInv, Held, VMInv, Alive, HoldInv, NewInv, FieldInv, GoneInv,
     Clean, Owed, Taken, Making, Creating, OwnerInv, At, Goto, Points, Statuses
<1>2. CASE ShutdownCall(c)
  BY <1>2, SMT, SMTT(20) DEF ShutdownCall, IInv, TypeOK, PointInv, LockInv, Held, VMInv, Alive, HoldInv, NewInv, Unlocked,
     FieldInv, GoneInv, Clean, Owed, Taken, Making, Creating, OwnerInv, At, Goto, Points, Statuses
<1>3. CASE ShutdownCancel(c)
  BY <1>3, SMT, SMTT(20) DEF ShutdownCancel, IInv, TypeOK, PointInv, LockInv, Held, VMInv, Alive, HoldInv, NewInv, Unlocked,
     FieldInv, GoneInv, Clean, Owed, Taken, Making, Creating, OwnerInv, At, Goto, Points
<1>4. CASE ShutdownWait(c)
  BY <1>4, SMT, SMTT(20) DEF ShutdownWait, IInv, TypeOK, PointInv, LockInv, Held, VMInv, Alive, HoldInv, NewInv, Unlocked,
     FieldInv, GoneInv, Clean, Owed, Taken, Making, Creating, OwnerInv, At, Goto, Points
<1>5. CASE ShutdownPauseAll(c)
  BY <1>5, SMT, SMTT(20) DEF ShutdownPauseAll, IInv, TypeOK, PointInv, LockInv, Held, VMInv, Alive, HoldInv, NewInv, Unlocked,
     FieldInv, GoneInv, Clean, Owed, Taken, Making, Creating, OwnerInv, At, Goto, Points
<1>6. CASE ShutdownList(c)
  BY <1>6, SMT, SMTT(20) DEF ShutdownList, IInv, TypeOK, PointInv, LockInv, Held, VMInv, Alive, HoldInv, NewInv, Unlocked,
     FieldInv, GoneInv, Clean, Owed, Taken, Making, Creating, OwnerInv, At, Goto, Points
<1>7. CASE ShutdownLoops(c)
  BY <1>7, ManagerAssumption, SMT, SMTT(20) DEF ShutdownLoops, SandboxState, HostState, Directory, IInv, TypeOK, PointInv, LockInv,
     Held, VMInv, Alive, HoldInv, NewInv, Unlocked, FieldInv, GoneInv, Clean, Owed, Taken, Making, Creating,
     OwnerInv, At, Goto, Points, Statuses
<1> QED
  BY <1>1, <1>2, <1>3, <1>4, <1>5, <1>6, <1>7

(* A crash watcher that wakes keeps the invariant.                          *)
LEMMA WatcherWakeInv ==
    ASSUME IInv, NEW g \in Gens, WatcherWake(g)
    PROVE  IInv'
<1>1. watch[g] = "armed" /\ UNCHANGED <<pc, entry, handle, draining, sb, vm, proc, host, disk>>
  BY DEF WatcherWake
<1>2. CASE boxed /\ boxed' = FALSE /\ watch' = [watch EXCEPT ![g] = "cleanup"]
  <2>1. OwnerInv'
    BY <1>1, <1>2 DEF IInv, TypeOK, OwnerInv, Owed, Taken
  <2>2. TypeOK' /\ NewInv'
    BY <1>1, <1>2 DEF IInv, TypeOK, NewInv, Unlocked
  <2>3. GoneInv'
    BY <1>1, <1>2 DEF IInv, TypeOK, GoneInv, Owed
  <2> QED
    BY <1>1, <1>2, <2>1, <2>2, <2>3, SMT, SMTT(20) DEF IInv, PointInv, LockInv, VMInv, Alive, HoldInv, FieldInv, Making
<1>3. CASE boxed' = boxed /\ watch' = [watch EXCEPT ![g] = "done"]
  BY <1>1, <1>3, SMT, SMTT(20) DEF IInv, TypeOK, SandboxState, Directory, PointInv, LockInv, Held, VMInv, Alive, HoldInv, NewInv,
     Unlocked, FieldInv, GoneInv, Clean, Owed, Taken, Making, OwnerInv
<1> QED
  <2>1. boxed \in BOOLEAN
    BY DEF IInv, TypeOK
  <2> QED
    BY <1>2, <1>3, <2>1 DEF WatcherWake

(* The cleanup after a crash keeps the invariant.                           *)
LEMMA WatcherCleanupInv ==
    ASSUME IInv, NEW g \in Gens, WatcherCleanup(g)
    PROVE  IInv'
<1>1. /\ watch[g] = "cleanup" /\ Unlocked /\ disk' = [cow |-> FALSE, snap |-> FALSE]
      /\ watch' = [watch EXCEPT ![g] = "done"] /\ UNCHANGED <<pc, entry, handle, draining, boxed, sb>>
  BY DEF WatcherCleanup
<1>2. \A d \in Calls : pc[d] \notin Creating \cup {"r_launch", "s_flatten"}
  BY <1>1, ManagerAssumption DEF IInv, LockInv, Held, NewInv, PointInv, Unlocked, Creating
<1>3. /\ host' \in HostState /\ vm' \in Gens \cup {0}
      /\ proc' \in [Gens -> {"none", "running", "frozen", "dead"}]
      /\ ~host'.dm /\ host'.slot # "self" /\ host'.refs <= 1
      /\ vm' = 0 /\ \A h \in Gens : proc'[h] \notin {"running", "frozen"}
  BY <1>2, TearDown DEF WatcherCleanup
<1>4. TypeOK'
  BY <1>1, <1>3 DEF IInv, TypeOK, Directory
<1>5. PointInv' /\ LockInv' /\ HoldInv' /\ NewInv' /\ OwnerInv'
  BY <1>1, <1>3 DEF IInv, PointInv, LockInv, HoldInv, NewInv, OwnerInv, Owed
<1>6. VMInv' /\ FieldInv' /\ GoneInv'
  BY <1>1, <1>2, <1>3, ManagerAssumption, SMT, SMTT(20) DEF IInv, TypeOK, LockInv, Held, Unlocked, VMInv, Alive, HoldInv, FieldInv,
     GoneInv, Clean, Making
<1> QED
  BY <1>4, <1>5, <1>6 DEF IInv

(* A VM that exits and a slot that is reused keep the invariant.            *)
LEMMA CrashInv ==
    ASSUME IInv, NEW g \in Gens
    PROVE  Crash(g) \/ OtherAllocates => IInv'
<1>1. CASE Crash(g)
  BY <1>1, SMT, SMTT(20) DEF Crash, IInv, TypeOK, PointInv, LockInv, VMInv, Alive, HoldInv, NewInv, Unlocked, FieldInv, GoneInv,
     Clean, Owed, Making, OwnerInv
<1>2. CASE OtherAllocates
  BY <1>2, SMT, SMTT(20) DEF OtherAllocates, HostState, IInv, TypeOK, PointInv, LockInv, VMInv, Alive, HoldInv, NewInv, Unlocked,
     FieldInv, GoneInv, Clean, Owed, Taken, Making, OwnerInv, At
<1> QED
  BY <1>1, <1>2

-----------------------------------------------------------------------------
(* The whole system *)

(* The invariant holds when the calls of a mix arrive at a new or a running *)
(* sandbox.                                                                 *)
LEMMA InitInv == Init => IInv
<1> SUFFICES ASSUME Init PROVE IInv
  OBVIOUS
<1>1. PICK mix \in Mixes, lazy \in BOOLEAN :
        LET up == \A c \in mix : c[1] # "create" IN (lazy => up) /\ Start(mix, up, lazy)
  BY DEF Init
<1> DEFINE up == \A c \in mix : c[1] # "create"
<1>2. mix \subseteq Calls /\ up \in BOOLEAN
  BY DEF Calls
<1>3. /\ sb \in SandboxState /\ host \in HostState /\ disk \in Directory
      /\ boxed = up /\ sb.lock = None /\ sb.st = (IF up THEN "running" ELSE "none")
      /\ sb.dm = up /\ sb.base = up /\ sb.slot = up /\ host.dm = up /\ disk.snap = FALSE
      /\ host.slot = (IF up THEN "self" ELSE "free") /\ host.refs = (IF up THEN 2 ELSE 1)
  BY <1>1, <1>2 DEF Start, SandboxState, HostState, Directory, Statuses
<1>4. /\ pc = [c \in Calls |-> IF c \in mix THEN "idle" ELSE "absent"] /\ vm = (IF up THEN 1 ELSE 0)
      /\ proc = [g \in Gens |-> IF up /\ g = 1 THEN "running" ELSE "none"]
      /\ watch = [g \in Gens |-> IF up /\ g = 1 THEN "armed" ELSE "none"]
  BY <1>1 DEF Start
<1>5. TypeOK
  <2>1. pc \in [Calls -> Points] /\ entry \in [Calls -> Statuses]
    BY <1>4 DEF Init, Points, Statuses
  <2>2. vm \in Gens \cup {0} /\ proc \in [Gens -> {"none", "running", "frozen", "dead"}]
    BY <1>4, ManagerAssumption, SMT, SMTT(20) DEF Gens
  <2>3. watch \in [Gens -> {"none", "armed", "cleanup", "done"}]
    BY <1>4
  <2> QED
    BY <1>2, <1>3, <2>1, <2>2, <2>3 DEF Init, TypeOK
<1>6. NewInv
  BY <1>2, <1>3, <1>4, OneCreate DEF NewInv, Op, Unlocked
<1>7. PointInv /\ LockInv /\ HoldInv /\ OwnerInv
  BY <1>2, <1>3, <1>4 DEF PointInv, LockInv, Held, HoldInv, OwnerInv, Owed, Taken
<1>8. VMInv /\ FieldInv /\ GoneInv
  BY <1>2, <1>3, <1>4, SMT, SMTT(20) DEF VMInv, FieldInv, GoneInv, Clean, Owed, Making, Alive
<1> QED
  BY <1>5, <1>6, <1>7, <1>8 DEF IInv

(* Every step of every call, VM and watcher keeps the invariant.            *)
LEMMA NextInv == IInv /\ [Next]_vars => IInv'
<1> SUFFICES ASSUME IInv, [Next]_vars PROVE IInv'
  OBVIOUS
<1>1. ASSUME NEW c \in Calls, CallArrives(c) PROVE IInv'
  BY <1>1, CreateInv, DestroyInv, PauseInv, ResumeInv, SnapshotInv, ShutdownStepInv DEF CallArrives
<1>2. ASSUME NEW c \in Calls, CallStep(c) PROVE IInv'
  BY <1>2, CreateInv, CreateAcquireInv, CreateBootInv, CreatePublishInv, DestroyInv, DestroyEnterInv,
     DestroyLockInv, PauseInv, PauseRollbackInv, PauseWedgedInv, PauseReleaseInv, PauseSwapInv, ResumeInv,
     ResumeAcquireInv, ResumeLaunchInv, SnapshotInv, ShutdownStepInv DEF CallStep
<1>3. ASSUME NEW g \in Gens, Crash(g) \/ WatcherStep(g) PROVE IInv'
  BY <1>3, WatcherWakeInv, WatcherCleanupInv, CrashInv DEF WatcherStep
<1>4. CASE OtherAllocates
  BY <1>4, CrashInv, ManagerAssumption, SMT, SMTT(20) DEF Gens
<1>5. CASE UNCHANGED vars
  <2>1. TypeOK' /\ PointInv' /\ LockInv' /\ VMInv' /\ HoldInv'
    BY <1>5, SMT, SMTT(20) DEF vars, IInv, TypeOK, PointInv, LockInv, VMInv, Alive, HoldInv
  <2>2. NewInv' /\ FieldInv'
    BY <1>5 DEF vars, IInv, NewInv, Unlocked, FieldInv, Making
  <2>3. GoneInv' /\ OwnerInv'
    BY <1>5 DEF vars, IInv, GoneInv, Clean, Alive, Unlocked, Owed, Making, OwnerInv
  <2> QED
    BY <2>1, <2>2, <2>3 DEF IInv
<1> QED
  BY <1>1, <1>2, <1>3, <1>4, <1>5 DEF Next

(* With any number of Creates, Destroys, Pauses, Resumes, snapshots, reaper *)
(* runs and Shutdowns in flight, and any VM crashing, a sandbox that is off *)
(* m.boxes once all of them have returned has no VM process, no dm device,  *)
(* no slot and no loop reference (manager.go: Create's rollback, Destroy,   *)
(* cleanupAfterCrash; pause.go: Pause).                                     *)
THEOREM NothingLeaks == Spec => [](TypeOK /\ NoLeak)
<1>1. IInv => TypeOK /\ NoLeak
  BY DEF IInv, NoLeak, Settled, GoneInv, Clean, Owed, Taken, Making, Creating
<1> QED
  BY InitInv, NextInv, <1>1, PTL DEF Spec

-----------------------------------------------------------------------------
(* A paused sandbox *)

(* No Create is there to take a step.                                       *)
LEMMA CreateWhole ==
    ASSUME IInv, NoCreate, OneDestroyer, Whole, NEW c \in Calls
    PROVE  CreateCall(c) \/ CreateRegister(c) \/ CreateAcquire(c) \/ CreateBoot(c) \/ CreatePublish(c)
             \/ CreateWatch(c) \/ CreateFinish(c)
             => Whole'
<1>1. CASE CreateCall(c)
  BY <1>1 DEF CreateCall, NoCreate, At
<1>2. CASE CreateRegister(c)
  BY <1>2 DEF CreateRegister, Goto, IInv, TypeOK, Whole
<1>3. CASE CreateAcquire(c)
  BY <1>3 DEF CreateAcquire, Goto, IInv, TypeOK, Whole
<1>4. CASE CreateBoot(c)
  BY <1>4 DEF CreateBoot, IInv, PointInv, NoCreate, At
<1>5. CASE CreatePublish(c)
  BY <1>5 DEF CreatePublish, Rollback, IInv, PointInv, NoCreate, At
<1>6. CASE CreateWatch(c)
  BY <1>6, SMT, SMTT(20) DEF CreateWatch, Goto, Whole
<1>7. CASE CreateFinish(c)
  BY <1>7, SMT, SMTT(20) DEF CreateFinish, Goto, Whole
<1> QED
  BY <1>1, <1>2, <1>3, <1>4, <1>5, <1>6, <1>7

(* The one destroyer takes the sandbox off the map before it destroys       *)
(* anything, and puts it back whole.                                        *)
LEMMA DestroyWhole ==
    ASSUME IInv, NoCreate, OneDestroyer, Whole, NEW c \in Calls
    PROVE  DestroyCall(c) \/ DestroyEnter(c) \/ DestroyWait(c) \/ DestroyLock(c) \/ DestroyCleanup(c)
             \/ DestroyFiles(c)
             => Whole'
<1>1. CASE DestroyCall(c)
  BY <1>1, SMT, SMTT(20) DEF DestroyCall, Goto, Whole
<1>2. CASE DestroyEnter(c)
  BY <1>2 DEF DestroyEnter, TakeBox, Goto, IInv, TypeOK, Whole
<1>3. CASE DestroyWait(c)
  BY <1>3, SMT, SMTT(20) DEF DestroyWait, TakeBox, Goto, Whole
<1>4. CASE DestroyLock(c)
  BY <1>4, SMT, SMTT(20) DEF OwnerInv, Owed, Taken, DestroyLock, Goto, DestroyReturns, IInv, TypeOK, Whole, PointInv, OneDestroyer,
     Destroyers, At
<1>5. CASE DestroyCleanup(c)
  BY <1>5, SMT, SMTT(20) DEF OwnerInv, Taken, DestroyCleanup, Goto, IInv, Whole, At
<1>6. CASE DestroyFiles(c)
  BY <1>6, SMT, SMTT(20) DEF DestroyFiles, DestroyReturns, Goto, IInv, Whole, PointInv, OneDestroyer, Destroyers, At
<1> QED
  BY <1>1, <1>2, <1>3, <1>4, <1>5, <1>6

(* Pause keeps CoW file and slot, and adds the snapshot before the sandbox  *)
(* is paused.                                                               *)
LEMMA PauseWhole ==
    ASSUME IInv, NoCreate, OneDestroyer, Whole, NEW c \in Calls
    PROVE  PauseCall(c) \/ PauseGet(c) \/ PauseLock(c) \/ PauseMaterialize(c) \/ PauseQuiesce(c)
             \/ PauseSnapshot(c) \/ PauseRollback(c) \/ PauseWedged(c) \/ PauseRelease(c) \/ PauseSwap(c)
             => Whole'
<1>1. CASE PauseCall(c)
  BY <1>1, SMT, SMTT(20) DEF PauseCall, Whole, Goto
<1>2. CASE PauseGet(c)
  BY <1>2 DEF PauseGet, PauseReturns, AfterPause, IInv, TypeOK, Whole, Goto
<1>3. CASE PauseLock(c)
  BY <1>3 DEF SandboxState, PauseLock, PauseReturns, AfterPause, IInv, TypeOK, Whole, Goto
<1>4. CASE PauseMaterialize(c)
  BY <1>4, SMT, SMTT(20) DEF HoldInv, SandboxState, PauseMaterialize, PauseReturns, AfterPause, Unlock, IInv, TypeOK, Whole, At, Goto
<1>5. CASE PauseQuiesce(c)
  BY <1>5 DEF PauseQuiesce, Freeze, IInv, TypeOK, Whole, Goto
<1>6. CASE PauseSnapshot(c)
  BY <1>6 DEF PauseSnapshot, IInv, TypeOK, Whole, Goto
<1>7. CASE PauseRollback(c)
  <2>1. sb' = [sb EXCEPT !.st = "running", !.lock = None] \/ sb' = [sb EXCEPT !.st = "error"]
    BY <1>7, ManagerAssumption DEF PauseRollback, IInv, TypeOK, Whole, At, Goto
  <2>2. sb'.st \in {"running", "error"} /\ sb.st = "pausing"
    BY <1>7, <2>1, ManagerAssumption DEF PauseRollback, SandboxState, HoldInv, IInv, TypeOK, Whole, At, Goto
  <2>3. Goto(c, "p_wedged") \/ PauseReturns(c, FALSE)
    BY <1>7, ManagerAssumption DEF PauseRollback, IInv, TypeOK, Whole, At, Goto
  <2>4. pc[c] = "p_rollback" /\ UNCHANGED <<boxed, host, disk>>
    BY <1>7 DEF PauseRollback, At
  <2> QED
    BY <2>2, <2>3, <2>4 DEF PauseReturns, AfterPause, IInv, TypeOK, Whole, Goto
<1>8. CASE PauseWedged(c)
  BY <1>8, SMT, SMTT(20) DEF HoldInv, SandboxState, PauseWedged, PauseReturns, AfterPause, IInv, Whole, At, Goto
<1>9. CASE PauseRelease(c)
  BY <1>9, SMT, SMTT(20) DEF PauseRelease, Whole, Goto
<1>10. CASE PauseSwap(c)
  <2>1. pc[c] = "p_swap" /\ UNCHANGED <<boxed, host>> /\ \E ok \in BOOLEAN : PauseReturns(c, ok)
    BY <1>10, ManagerAssumption DEF PauseSwap, IInv, TypeOK, Whole, At, Goto
  <2>2. CASE disk' = [disk EXCEPT !.snap = TRUE] /\ sb' = [sb EXCEPT !.st = "paused", !.lock = None]
    <3>1. sb'.st = "paused" /\ sb.st = "pausing" /\ disk'.snap /\ disk'.cow = disk.cow
      BY <2>1, <2>2, SMT, SMTT(20) DEF HoldInv, IInv
    <3> QED
      BY <2>1, <3>1, SMT, SMTT(20) DEF PauseReturns, AfterPause, Whole, Goto
  <2>3. CASE sb' = [sb EXCEPT !.st = "error", !.lock = None]
    <3>1. sb'.st = "error"
      BY <2>3, SMT, SMTT(20)
    <3> QED
      BY <2>1, <3>1, SMT, SMTT(20) DEF PauseReturns, AfterPause, IInv, Whole, Goto
  <2> QED
    BY <1>10, <2>2, <2>3, ManagerAssumption DEF PauseSwap, IInv, TypeOK, Whole, At, Goto
<1> QED
  BY <1>1, <1>2, <1>3, <1>4, <1>5, <1>6, <1>7, <1>8, <1>9, <1>10

(* Resume, CreateSnapshot and FlattenRootfs take nothing from the sandbox   *)
(* directory.                                                               *)
LEMMA ResumeWhole ==
    ASSUME IInv, NoCreate, OneDestroyer, Whole, NEW c \in Calls
    PROVE  ResumeCall(c) \/ SnapshotCall(c) \/ ResumeLock(c) \/ ResumeAcquire(c) \/ ResumeLaunch(c)
             \/ ResumeWatch(c) \/ SnapshotLock(c) \/ SnapshotFreeze(c) \/ SnapshotThaw(c) \/ SnapshotFlatten(c)
             => Whole'
<1>1. CASE ResumeCall(c)
  BY <1>1, SMT, SMTT(20) DEF ResumeCall, Whole, Goto
<1>2. CASE SnapshotCall(c)
  BY <1>2, SMT, SMTT(20) DEF SnapshotCall, Whole, Goto
<1>3. CASE ResumeLock(c)
  BY <1>3 DEF ResumeLock, IInv, TypeOK, Whole, Goto
<1>4. CASE ResumeAcquire(c)
  <2>1. host'.slot = host.slot /\ sb'.st = sb.st
    BY <1>4, ManagerAssumption DEF ResumeAcquire, Unlock, HostState, SandboxState, IInv, TypeOK, Whole, At, Goto
  <2>2. pc[c] = "r_acquire" /\ UNCHANGED <<boxed, disk>> /\ (Goto(c, "r_launch") \/ Goto(c, "done"))
    BY <1>4 DEF ResumeAcquire, At
  <2> QED
    BY <2>1, <2>2 DEF IInv, TypeOK, Whole, Goto
<1>5. CASE ResumeLaunch(c)
  <2>1. host'.slot = host.slot /\ (sb'.st = sb.st \/ sb'.st = "running") /\ sb.st = "paused"
    BY <1>5, ManagerAssumption DEF ResumeLaunch, Unlock, HostState, SandboxState, HoldInv, IInv, TypeOK, Whole, At,
       Goto
  <2>2. pc[c] = "r_launch" /\ UNCHANGED <<boxed, disk>> /\ (Goto(c, "r_watch") \/ Goto(c, "done"))
    BY <1>5 DEF ResumeLaunch, IInv, TypeOK, At
  <2> QED
    BY <2>1, <2>2, ManagerAssumption, SMT, SMTT(20) DEF IInv, TypeOK, Whole, At, Goto
<1>6. CASE ResumeWatch(c)
  BY <1>6, SMT, SMTT(20) DEF ResumeWatch, Unlock, Whole, Goto
<1>7. CASE SnapshotLock(c)
  BY <1>7, ManagerAssumption, SMT, SMTT(20) DEF SandboxState, HostState, SnapshotLock, IInv, TypeOK, Whole, Goto
<1>8. CASE SnapshotFreeze(c)
  BY <1>8, SMT, SMTT(20) DEF SandboxState, SnapshotFreeze, Unlock, Freeze, IInv, TypeOK, Whole, Goto
<1>9. CASE SnapshotThaw(c)
  BY <1>9, SMT, SMTT(20) DEF SnapshotThaw, Unlock, Whole, Goto
<1>10. CASE SnapshotFlatten(c)
  BY <1>10, SMT, SMTT(20) DEF SnapshotFlatten, Unlock, Whole, Goto
<1> QED
  BY <1>1, <1>2, <1>3, <1>4, <1>5, <1>6, <1>7, <1>8, <1>9, <1>10

(* Nor do the reaper and Shutdown themselves.                               *)
LEMMA ShutdownWhole ==
    ASSUME IInv, NoCreate, OneDestroyer, Whole, NEW c \in Calls
    PROVE  ReapScan(c) \/ ShutdownCall(c) \/ ShutdownCancel(c) \/ ShutdownWait(c) \/ ShutdownPauseAll(c)
             \/ ShutdownList(c) \/ ShutdownLoops(c)
             => Whole'
<1>1. CASE ReapScan(c)
  BY <1>1, SMT, SMTT(20) DEF ReapScan, Goto, Whole
<1>2. CASE ShutdownCall(c)
  BY <1>2, SMT, SMTT(20) DEF ShutdownCall, Goto, Whole
<1>3. CASE ShutdownCancel(c)
  BY <1>3, SMT, SMTT(20) DEF ShutdownCancel, Goto, Whole
<1>4. CASE ShutdownWait(c)
  BY <1>4, SMT, SMTT(20) DEF ShutdownWait, Goto, Whole
<1>5. CASE ShutdownPauseAll(c)
  BY <1>5, SMT, SMTT(20) DEF ShutdownPauseAll, Goto, Whole
<1>6. CASE ShutdownList(c)
  BY <1>6, SMT, SMTT(20) DEF ShutdownList, Goto, Whole
<1>7. CASE ShutdownLoops(c)
  BY <1>7, SMT, SMTT(20) DEF ShutdownLoops, Goto, Whole
<1> QED
  BY <1>1, <1>2, <1>3, <1>4, <1>5, <1>6, <1>7

(* A crash cleanup deletes only what it took off the map.                   *)
LEMMA CrashWhole ==
    ASSUME IInv, NoCreate, OneDestroyer, Whole, NEW g \in Gens
    PROVE  Crash(g) \/ WatcherWake(g) \/ WatcherCleanup(g) \/ OtherAllocates => Whole'
<1>1. CASE Crash(g)
  BY <1>1 DEF Crash, Whole
<1>2. CASE WatcherWake(g)
  BY <1>2 DEF WatcherWake, IInv, TypeOK, Whole
<1>3. CASE WatcherCleanup(g)
  BY <1>3 DEF OwnerInv, Owed, Taken, WatcherCleanup, IInv, Whole
<1>4. CASE OtherAllocates
  BY <1>4 DEF OtherAllocates, Whole
<1> QED
  BY <1>1, <1>2, <1>3, <1>4

(* A call that is not part of the mix never appears, and none goes away.    *)
LEMMA AbsentKept ==
    ASSUME IInv, [Next]_vars, NEW c \in Calls
    PROVE  pc'[c] = "absent" <=> pc[c] = "absent"
<1> USE DEF IInv, TypeOK, At, Goto
<1>1. ASSUME NEW d \in Calls, CallArrives(d) PROVE pc'[c] = "absent" <=> pc[c] = "absent"
  BY <1>1 DEF CallArrives, CreateCall, DestroyCall, PauseCall, ResumeCall, SnapshotCall, ReapScan, ShutdownCall
<1>2. ASSUME NEW d \in Calls, CallStep(d) PROVE pc'[c] = "absent" <=> pc[c] = "absent"
  <2>1. pc[d] # "absent"
    BY <1>2 DEF CallStep, CreateRegister, CreateAcquire, CreateBoot, CreatePublish, CreateWatch, CreateFinish,
       DestroyEnter, DestroyWait, DestroyLock, DestroyCleanup, DestroyFiles, PauseGet, PauseLock, PauseMaterialize,
       PauseQuiesce, PauseSnapshot, PauseRollback, PauseWedged, PauseRelease, PauseSwap, ResumeLock, ResumeAcquire,
       ResumeLaunch, ResumeWatch, SnapshotLock, SnapshotFreeze, SnapshotThaw, SnapshotFlatten, ShutdownCancel,
       ShutdownWait, ShutdownPauseAll, ShutdownList, ShutdownLoops
  <2>2. \E point : pc' = [pc EXCEPT ![d] = point] /\ point # "absent"
    <3>1. CASE CreateRegister(d) \/ CreateAcquire(d) \/ CreateBoot(d) \/ CreatePublish(d) \/ CreateWatch(d)
             \/ CreateFinish(d) \/ DestroyEnter(d) \/ DestroyWait(d) \/ DestroyLock(d)
             \/ DestroyCleanup(d) \/ DestroyFiles(d)
      BY <3>1, SMT, SMTT(20) DEF CreateRegister, CreateAcquire, CreateBoot, CreatePublish, CreateWatch, CreateFinish, DestroyEnter,
         DestroyWait, DestroyLock, DestroyCleanup, DestroyFiles, DestroyReturns, TakeBox
    <3>2. CASE PauseGet(d) \/ PauseLock(d) \/ PauseMaterialize(d) \/ PauseQuiesce(d) \/ PauseSnapshot(d)
             \/ PauseRollback(d) \/ PauseWedged(d) \/ PauseRelease(d) \/ PauseSwap(d)
      BY <3>2, SMT, SMTT(20) DEF PauseGet, PauseLock, PauseMaterialize, PauseQuiesce, PauseSnapshot, PauseRollback, PauseWedged,
         PauseRelease, PauseSwap, PauseReturns, AfterPause, Freeze
    <3>3. CASE ResumeLock(d) \/ ResumeAcquire(d) \/ ResumeLaunch(d) \/ ResumeWatch(d) \/ SnapshotLock(d)
             \/ SnapshotFreeze(d) \/ SnapshotThaw(d) \/ SnapshotFlatten(d)
             \/ ShutdownCancel(d) \/ ShutdownWait(d) \/ ShutdownPauseAll(d) \/ ShutdownList(d)
             \/ ShutdownLoops(d)
      BY <3>3, SMT, SMTT(20) DEF ResumeLock, ResumeAcquire, ResumeLaunch, ResumeWatch, SnapshotLock, SnapshotFreeze, SnapshotThaw,
         SnapshotFlatten, ShutdownCancel, ShutdownWait, ShutdownPauseAll, ShutdownList, ShutdownLoops, Freeze
    <3> QED
      BY <1>2, <3>1, <3>2, <3>3 DEF CallStep
  <2> QED
    BY <2>1, <2>2
<1>3. CASE UNCHANGED pc
  BY <1>3
<1> QED
  BY <1>1, <1>2, <1>3 DEF Next, vars, WatcherStep, Crash, WatcherWake, WatcherCleanup, OtherAllocates

(* Hence the mix stays without Create, and with one destroyer.              *)
LEMMA MixKept ==
    ASSUME IInv, [Next]_vars
    PROVE  /\ NoCreate' <=> NoCreate
           /\ OneDestroyer' <=> OneDestroyer
           /\ Starts' = {} <=> Starts = {}
  BY AbsentKept DEF NoCreate, OneDestroyer, Destroyers, Starts, At

(* A sandbox that is whole stays so, in a mix with one destroyer.           *)
LEMMA WholeKept ==
    ASSUME IInv, [Next]_vars, NoCreate, WholeInv
    PROVE  WholeInv'
<1> SUFFICES ASSUME OneDestroyer PROVE Whole'
  BY MixKept DEF WholeInv
<1>1. Whole
  BY DEF WholeInv
<1>2. ASSUME NEW c \in Calls, CallArrives(c) PROVE Whole'
  BY <1>1, <1>2, CreateWhole, DestroyWhole, PauseWhole, ResumeWhole, ShutdownWhole DEF CallArrives
<1>3. ASSUME NEW c \in Calls, CallStep(c) PROVE Whole'
  BY <1>1, <1>3, CreateWhole, DestroyWhole, PauseWhole, ResumeWhole, ShutdownWhole DEF CallStep
<1>4. ASSUME NEW g \in Gens, Crash(g) \/ WatcherStep(g) PROVE Whole'
  BY <1>1, <1>4, CrashWhole DEF WatcherStep
<1>5. CASE OtherAllocates
  BY <1>1, <1>5, CrashWhole, ManagerAssumption, SMT, SMTT(20) DEF Gens
<1>6. CASE UNCHANGED vars
  BY <1>1, <1>6 DEF vars, Whole
<1> QED
  BY <1>2, <1>3, <1>4, <1>5, <1>6 DEF Next

(* In any mix without a Create, at any moment at which a paused sandbox is  *)
(* in m.boxes and nobody holds its lifecycleMu, it can be resumed: Pause,   *)
(* its rollback, the racing-Pause guard of Destroy (manager.go), the reaper,*)
(* Shutdown and the crash watcher, in any number and any order, leave       *)
(* snapshot, CoW file and slot in place and no VM running on them.          *)
THEOREM PausedStaysWhole == Spec => [](NoCreate => PausedIntact)
<1> DEFINE Inv == IInv /\ (NoCreate => WholeInv)
<1>1. Init => Inv
  <2> SUFFICES ASSUME Init, NoCreate PROVE WholeInv
    BY InitInv
  <2>1. PICK mix \in Mixes, lazy \in BOOLEAN :
          LET up == \A c \in mix : c[1] # "create" IN (lazy => up) /\ Start(mix, up, lazy)
    BY DEF Init
  <2>2. \A c \in mix : c[1] # "create"
    BY <2>1 DEF Start, NoCreate, Op, At, Calls
  <2> QED
    BY <2>1, <2>2 DEF Start, WholeInv, Whole
<1>2. Inv /\ [Next]_vars => Inv'
  BY NextInv, MixKept, WholeKept
<1>3. Inv => (NoCreate => PausedIntact)
  BY DEF IInv, HoldInv, VMInv, Alive, WholeInv, Whole, OneDestroyer, PausedIntact
<1> QED
  BY <1>1, <1>2, <1>3, PTL DEF Spec

-----------------------------------------------------------------------------
(* Shutdown *)

(* After the destroy loop of Shutdown the sandbox is paused or off the map, *)
(* whatever Create does.                                                    *)
LEMMA CreateSettled ==
    ASSUME IInv, ShutdownInv, NEW c \in Calls
    PROVE  CreateCall(c) \/ CreateRegister(c) \/ CreateAcquire(c) \/ CreateBoot(c) \/ CreatePublish(c)
             \/ CreateWatch(c) \/ CreateFinish(c)
             => ShutdownInv'
<1>1. CASE CreateCall(c)
  BY <1>1 DEF CreateCall, IInv, NewInv, ShutdownInv, At
<1>2. CASE CreateRegister(c)
  BY <1>2 DEF CreateRegister, Goto, IInv, SandboxState, PointInv, NewInv, Starts, ShutdownInv, At
<1>3. CASE CreateAcquire(c)
  BY <1>3 DEF CreateAcquire, IInv, PointInv, NewInv, ShutdownInv, At
<1>4. CASE CreateBoot(c)
  BY <1>4 DEF CreateBoot, Goto, Rollback, LoopDropped, KillVM, Gens, IInv, TypeOK, SandboxState, PointInv, Held,
     HoldInv, Starts, ShutdownInv, At
<1>5. CASE CreatePublish(c)
  BY <1>5, ManagerAssumption DEF CreatePublish, Goto, Rollback, LoopDropped, KillVM, Gens, IInv, TypeOK,
     SandboxState, PointInv, HoldInv, NewInv, Starts, ShutdownInv, At
<1>6. CASE CreateWatch(c)
  BY <1>6, SMT, SMTT(20) DEF CreateWatch, Goto, Starts, ShutdownInv, At
<1>7. CASE CreateFinish(c)
  BY <1>7, SMT, SMTT(20) DEF CreateFinish, Goto, IInv, PointInv, Starts, ShutdownInv, At
<1> QED
  BY <1>1, <1>2, <1>3, <1>4, <1>5, <1>6, <1>7

(* The same for Destroy.                                                    *)
LEMMA DestroySettled ==
    ASSUME IInv, ShutdownInv, NEW c \in Calls
    PROVE  DestroyCall(c) \/ DestroyEnter(c) \/ DestroyWait(c) \/ DestroyLock(c) \/ DestroyCleanup(c)
             \/ DestroyFiles(c)
             => ShutdownInv'
<1>1. CASE DestroyCall(c)
  BY <1>1, SMT, SMTT(20) DEF DestroyCall, Goto, Starts, ShutdownInv, At
<1>2. CASE DestroyEnter(c)
  BY <1>2, SMT, SMTT(20) DEF DestroyEnter, TakeBox, Goto, IInv, TypeOK, SandboxState, LockInv, Held, Starts, ShutdownInv, At
<1>3. CASE DestroyWait(c)
  BY <1>3 DEF DestroyWait, TakeBox, ShutdownInv
<1>4. CASE DestroyLock(c)
  BY <1>4, SMT, SMTT(20) DEF DestroyLock, Goto, IInv, TypeOK, SandboxState, Starts, ShutdownInv, At
<1>5. CASE DestroyCleanup(c)
  BY <1>5, SMT, SMTT(20) DEF DestroyCleanup, Goto, Starts, ShutdownInv, At
<1>6. CASE DestroyFiles(c)
  BY <1>6, SMT, SMTT(20) DEF DestroyFiles, DestroyReturns, Goto, Starts, ShutdownInv, At
<1> QED
  BY <1>1, <1>2, <1>3, <1>4, <1>5, <1>6

(* The same for Pause.                                                      *)
LEMMA PauseSettled ==
    ASSUME IInv, ShutdownInv, NEW c \in Calls
    PROVE  PauseCall(c) \/ PauseGet(c) \/ PauseLock(c) \/ PauseMaterialize(c) \/ PauseQuiesce(c)
             \/ PauseSnapshot(c) \/ PauseRollback(c) \/ PauseWedged(c) \/ PauseRelease(c) \/ PauseSwap(c)
             => ShutdownInv'
<1>1. CASE PauseCall(c)
  BY <1>1, SMT, SMTT(20) DEF PauseCall, Goto, Starts, ShutdownInv, At
<1>2. CASE PauseGet(c)
  BY <1>2, SMT, SMTT(20) DEF PauseGet, PauseReturns, AfterPause, Goto, IInv, TypeOK, Starts, ShutdownInv, At
<1>3. CASE PauseLock(c)
  BY <1>3, SMT, SMTT(20) DEF PauseLock, PauseReturns, AfterPause, Goto, IInv, TypeOK, Starts, ShutdownInv, At
<1>4. CASE PauseMaterialize(c)
  BY <1>4, SMT, SMTT(20) DEF PauseMaterialize, PauseReturns, AfterPause, Goto, IInv, TypeOK, SandboxState, Held, HoldInv, Starts,
     ShutdownInv, At
<1>5. CASE PauseQuiesce(c)
  BY <1>5, SMT, SMTT(20) DEF PauseQuiesce, Freeze, Goto, IInv, TypeOK, Starts, ShutdownInv, At
<1>6. CASE PauseSnapshot(c)
  BY <1>6, SMT, SMTT(20) DEF PauseSnapshot, Goto, Alive, IInv, TypeOK, SandboxState, Starts, ShutdownInv, At
<1>7. CASE PauseRollback(c)
  BY <1>7, SMT, SMTT(20) DEF PauseRollback, Goto, PauseReturns, AfterPause, IInv, TypeOK, HoldInv, Starts, ShutdownInv, At
<1>8. CASE PauseWedged(c)
  BY <1>8, SMT, SMTT(20) DEF PauseWedged, PauseReturns, AfterPause, Goto, Starts, ShutdownInv, At
<1>9. CASE PauseRelease(c)
  BY <1>9, SMT, SMTT(20) DEF PauseRelease, Goto, Starts, ShutdownInv, At
<1>10. CASE PauseSwap(c)
  BY <1>10, SMT, SMTT(20) DEF PauseSwap, PauseReturns, AfterPause, Goto, IInv, TypeOK, HoldInv, Starts, ShutdownInv, At
<1> QED
  BY <1>1, <1>2, <1>3, <1>4, <1>5, <1>6, <1>7, <1>8, <1>9, <1>10

(* The same for Resume, CreateSnapshot and FlattenRootfs.                   *)
LEMMA ResumeSettled ==
    ASSUME IInv, ShutdownInv, NEW c \in Calls
    PROVE  ResumeCall(c) \/ SnapshotCall(c) \/ ResumeLock(c) \/ ResumeAcquire(c) \/ ResumeLaunch(c)
             \/ ResumeWatch(c) \/ SnapshotLock(c) \/ SnapshotFreeze(c) \/ SnapshotThaw(c) \/ SnapshotFlatten(c)
             => ShutdownInv'
<1>1. CASE ResumeCall(c)
  BY <1>1, SMT, SMTT(20) DEF ResumeCall, Goto, TypeOK, Starts, ShutdownInv, At
<1>2. CASE SnapshotCall(c)
  BY <1>2, SMT, SMTT(20) DEF SnapshotCall, Goto, Starts, ShutdownInv, At
<1>3. CASE ResumeLock(c)
  BY <1>3 DEF ResumeLock, Goto, Unlocked, IInv, TypeOK, SandboxState, PointInv, Held, Starts, ShutdownInv, At
<1>4. CASE ResumeAcquire(c)
  BY <1>4 DEF ResumeAcquire, Unlock, IInv, TypeOK, SandboxState, HoldInv, ShutdownInv, At
<1>5. CASE ResumeLaunch(c)
  BY <1>5 DEF ResumeLaunch, Goto, IInv, TypeOK, PointInv, Starts, ShutdownInv, At
<1>6. CASE ResumeWatch(c)
  BY <1>6, SMT, SMTT(20) DEF ResumeWatch, Goto, IInv, PointInv, Starts, ShutdownInv, At
<1>7. CASE SnapshotLock(c)
  BY <1>7, SMT, SMTT(20) DEF SnapshotLock, Goto, IInv, TypeOK, SandboxState, PointInv, Starts, ShutdownInv, At
<1>8. CASE SnapshotFreeze(c)
  BY <1>8, SMT, SMTT(20) DEF SnapshotFreeze, Goto, Freeze, IInv, TypeOK, HoldInv, Starts, ShutdownInv, At
<1>9. CASE SnapshotThaw(c)
  BY <1>9, SMT, SMTT(20) DEF SnapshotThaw, Goto, Unlock, IInv, PointInv, Starts, ShutdownInv, At
<1>10. CASE SnapshotFlatten(c)
  BY <1>10, SMT, SMTT(20) DEF SnapshotFlatten, Unlock, IInv, HoldInv, ShutdownInv, At
<1> QED
  BY <1>1, <1>2, <1>3, <1>4, <1>5, <1>6, <1>7, <1>8, <1>9, <1>10

(* The same for the reaper and Shutdown itself.                             *)
LEMMA ShutdownSettled ==
    ASSUME IInv, ShutdownInv, NEW c \in Calls
    PROVE  ReapScan(c) \/ ShutdownCall(c) \/ ShutdownCancel(c) \/ ShutdownWait(c) \/ ShutdownPauseAll(c)
             \/ ShutdownList(c) \/ ShutdownLoops(c)
             => ShutdownInv'
<1>1. CASE ReapScan(c)
  BY <1>1, SMT, SMTT(20) DEF ReapScan, Goto, Starts, ShutdownInv, At
<1>2. CASE ShutdownCall(c)
  BY <1>2, SMT, SMTT(20) DEF ShutdownCall, Goto, Starts, ShutdownInv, At
<1>3. CASE ShutdownCancel(c)
  BY <1>3, SMT, SMTT(20) DEF ShutdownCancel, Goto, Starts, ShutdownInv, At
<1>4. CASE ShutdownWait(c)
  BY <1>4, SMT, SMTT(20) DEF ShutdownWait, Goto, Starts, ShutdownInv, At
<1>5. CASE ShutdownPauseAll(c)
  BY <1>5, SMT, SMTT(20) DEF ShutdownPauseAll, Goto, Starts, ShutdownInv, At
<1>6. CASE ShutdownList(c)
  BY <1>6, SMT, SMTT(20) DEF ShutdownList, Goto, Starts, ShutdownInv, At
<1>7. CASE ShutdownLoops(c)
  BY <1>7, SMT, SMTT(20) DEF ShutdownLoops, Goto, Starts, ShutdownInv, At
<1> QED
  BY <1>1, <1>2, <1>3, <1>4, <1>5, <1>6, <1>7

(* The same for crashes and their watchers.                                 *)
LEMMA CrashSettled ==
    ASSUME IInv, ShutdownInv, NEW g \in Gens
    PROVE  Crash(g) \/ WatcherWake(g) \/ WatcherCleanup(g) \/ OtherAllocates => ShutdownInv'
<1>1. CASE Crash(g)
  BY <1>1 DEF Crash, Starts, ShutdownInv, At
<1>2. CASE WatcherWake(g)
  BY <1>2 DEF WatcherWake, IInv, TypeOK, Starts, ShutdownInv, At
<1>3. CASE WatcherCleanup(g)
  BY <1>3 DEF WatcherCleanup, Starts, ShutdownInv, At
<1>4. CASE OtherAllocates
  BY <1>4 DEF OtherAllocates, Starts, ShutdownInv, At
<1> QED
  BY <1>1, <1>2, <1>3, <1>4

(* Once Shutdown has been through its destroy loop, the sandbox stays       *)
(* paused or off the map, unless a Create or a Resume is in flight.         *)
LEMMA ShutdownKept ==
    ASSUME IInv, [Next]_vars, ShutdownInv
    PROVE  ShutdownInv'
<1>1. ASSUME NEW c \in Calls, CallArrives(c) PROVE ShutdownInv'
  BY <1>1, CreateSettled, DestroySettled, PauseSettled, ResumeSettled, ShutdownSettled DEF CallArrives
<1>2. ASSUME NEW c \in Calls, CallStep(c) PROVE ShutdownInv'
  BY <1>2, CreateSettled, DestroySettled, PauseSettled, ResumeSettled, ShutdownSettled DEF CallStep
<1>3. ASSUME NEW g \in Gens, Crash(g) \/ WatcherStep(g) PROVE ShutdownInv'
  BY <1>3, CrashSettled DEF WatcherStep
<1>4. CASE OtherAllocates
  BY <1>4, CrashSettled, ManagerAssumption, SMT, SMTT(20) DEF Gens
<1>5. CASE UNCHANGED vars
  BY <1>5 DEF vars, ShutdownInv, Starts, At
<1> QED
  BY <1>1, <1>2, <1>3, <1>4, <1>5 DEF Next

(* Shutdown (manager.go) with any Pauses, Destroys, snapshots, reaper runs  *)
(* and crash cleanups in flight: once all have returned no VM process of    *)
(* the sandbox is left, whichever of them stopped it.                       *)
THEOREM ShutdownStopsAll == Spec => []NothingRunsAfterShutdown
<1>1. Init => ShutdownInv
  BY DEF Init, Start, ShutdownInv
<1>2. IInv /\ ShutdownInv => NothingRunsAfterShutdown
  <2> SUFFICES ASSUME IInv, ShutdownInv, ShutdownReturned, Starts = {} PROVE \A g \in Gens : ~Alive(g)
    BY DEF NothingRunsAfterShutdown
  <2>1. ~boxed \/ sb.st = "paused"
    BY DEF ShutdownInv, ShutdownReturned, At
  <2>2. CASE ~boxed
    BY <2>2 DEF IInv, ShutdownReturned, Settled, GoneInv, Clean, Owed, Taken, Making, Creating
  <2>3. CASE sb.st = "paused"
    BY <2>3 DEF IInv, HoldInv, VMInv, Alive
  <2> QED
    BY <2>1, <2>2, <2>3
<1> QED
  BY InitInv, NextInv, ShutdownKept, <1>1, <1>2, PTL DEF Spec

=============================================================================
