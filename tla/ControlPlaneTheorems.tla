------------------------ MODULE ControlPlaneTheorems ------------------------
(***************************************************************************)
(* What holds of the control plane for any number of capsules, volumes and  *)
(* calls.                                                                   *)
(***************************************************************************)
EXTENDS ControlPlaneProofs, FiniteSetTheorems

(* A leaf is Zenon's unless it names SMT; each is tried again with more time. *)
USE Zenon, SlowZenon

LEMMA EventsListed == Listable
<1> SUFFICES ASSUME NEW kind \in EventKinds, NEW S \in SUBSET Sandboxes
             PROVE  Events(kind, S) \in Seq(EventKinds \X Sandboxes)
  BY DEF Listable
<1>1. IsFiniteSet(S)
  BY ControlPlaneAssumption, FS_Subset
<1>2. PICK n \in Nat : n = Cardinality(S) /\ \E f \in [1..n -> S] : \A i, j \in 1..n : i # j => f[i] # f[j]
  <2>1. PICK n \in Nat : ExistsBijection(1..n, S)
    BY <1>1, FS_NatBijection
  <2>2. Cardinality(S) = n
    BY <2>1, FS_CountingElements
  <2> QED
    BY <2>1, <2>2 DEF ExistsBijection, Bijection, Injection, IsInjective
<1>3. InOrder(S) \in [1..n -> S]
  BY <1>2 DEF InOrder
<1>4. Events(kind, S) \in [1..n -> EventKinds \X Sandboxes]
  BY <1>2, <1>3 DEF Events
<1> QED
  BY <1>4, SMT, SMTT(20)

LEMMA Typed == Spec => []TInv
<1>1. Init => TInv
  BY InitTyped
<1>2. TInv /\ [Next]_vars => TInv'
  BY NextTyped, EventsListed
<1> QED
  BY <1>1, <1>2, PTL DEF Spec

(* In every scenario the tables, the host, the consumer and the monitor are *)
(* in states the code knows.                                                *)
THEOREM TablesTyped == Spec => []TypeOK
<1>1. TInv => TypeOK
  BY DEF TInv
<1> QED
  BY <1>1, Typed, PTL

(* In every scenario a destroy that has marked its row wins: no handler,    *)
(* goroutine or event of another operation moves the row out of stopping to *)
(* anything but stopped.                                                    *)
THEOREM DestroyPrevails == Spec => DestroyWins
<1> DEFINE W == \A s \in Sandboxes : row[s] = "stopping" /\ mon' = mon => row'[s] \in {"stopping", "stopped"}
<1>1. TInv /\ [Next]_vars => [W]_vars
  BY NextTyped, EventsListed DEF Prevails
<1> HIDE DEF W
<1>2. Spec => [][W]_vars
  BY <1>1, Typed, PTL DEF Spec
<1> QED
  BY <1>2 DEF W, DestroyWins

(* In the scenarios of Undisturbed, with any number of capsules, volumes    *)
(* and calls, with crashes, outages, lost answers and expiring VMs: a       *)
(* capsule that the host has running or paused still holds its volumes, and *)
(* their files are there.                                                   *)
THEOREM VolumesStay == Spec => [](Undisturbed => VolumeHeld)
  BY InitSettled, NextSettled, SettledHeld, Typed, PTL DEF Spec
=============================================================================
