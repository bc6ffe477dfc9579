---------------------------- MODULE BlockDevices ----------------------------
(***************************************************************************)
(* The block devices under a capsule's disk (pkg/devicemapper): a read-only *)
(* loop device over the base image, shared and reference-counted by the     *)
(* LoopRegistry of the agent process, a loop device over the capsule's own  *)
(* copy-on-write file, and a dm-snapshot that combines the two.             *)
(*                                                                         *)
(* A record blk holds the loop devices and dm devices, which are the        *)
(* kernel's and outlive the process, and the registry, which does not.      *)
(* Operators map one such record to the next; module PauseStore runs them.  *)
(***************************************************************************)
EXTENDS Naturals, FiniteSets, FiniteSetsExt

CONSTANTS
    None,
    Boxes,      \* capsules
    Images,     \* rootfs images: 0 is the base image, the others are templates
    Loops       \* loop devices of the kernel, numbered

Img(i) == <<"img", i>>
Cow(b) == <<"cow", b>>
\* The file behind a loop device was deleted or moved away: no path leads to it.
Gone(b) == <<"gone", b>>

RunDM(b)  == <<"wrenn", b>>
FlatDM(b) == <<"wrenn-flat", b>>
DMs == {RunDM(b) : b \in Boxes} \cup {FlatDM(b) : b \in Boxes}

NewLoopRegistry == [i \in Images |-> None]
NoDevices == [loop |-> [d \in Loops |-> None], reg |-> NewLoopRegistry, dm |-> [n \in DMs |-> None]]

-----------------------------------------------------------------------------
(* What the kernel does                                                    *)

Referenced(k, d) == \E n \in DMs : k.dm[n] # None /\ d \in {k.dm[n].origin, k.dm[n].cow}

\* A loop device marked autoclear is freed when its last user goes.
Settle(k) ==
    [k EXCEPT !.loop = [d \in Loops |->
        IF @[d] # None /\ @[d].auto /\ ~Referenced(k, d) THEN None ELSE @[d]]]

Attached(k, f) == {d \in Loops : k.loop[d] # None /\ k.loop[d].file = f}

\* losetup --find takes the first free device.
Free(k) == {d \in Loops : k.loop[d] = None}
Attach(k, f) == [k EXCEPT !.loop[Min(Free(k))] = [file |-> f, auto |-> FALSE]]

\* A file is deleted, or its directory renamed, under its loop devices.
FileGone(k, b) ==
    [k EXCEPT !.loop = [d \in Loops |->
        IF @[d] # None /\ @[d].file = Cow(b) THEN [@[d] EXCEPT !.file = Gone(b)] ELSE @[d]]]

-----------------------------------------------------------------------------
(* Loop devices                                                            *)

\* losetup -d: a device in use is only marked, and freed with its last user.
losetupDetachRetry(k, d) == IF k.loop[d] = None THEN k ELSE Settle([k EXCEPT !.loop[d].auto = TRUE])

DetachLoopsByFile(k, f) ==
    Settle([k EXCEPT !.loop = [d \in Loops |->
        IF @[d] # None /\ @[d].file = f THEN [@[d] EXCEPT !.auto = TRUE] ELSE @[d]]])

\* losetupCreate reuses the device of the image when there is exactly one.
losetupCreate(k, i) == IF Cardinality(Attached(k, Img(i))) = 1 THEN k ELSE Attach(k, Img(i))

Acquire(k, i) ==
    IF k.reg[i] # None THEN [k EXCEPT !.reg[i].refs = @ + 1]
    ELSE LET n == losetupCreate(k, i) IN
         [n EXCEPT !.reg[i] = [dev |-> CHOOSE d \in Attached(n, Img(i)) :
                                          Cardinality(Attached(k, Img(i))) = 1 \/ d \notin Attached(k, Img(i)),
                               refs |-> 1]]

Release(k, i) ==
    IF k.reg[i] = None THEN k
    ELSE IF k.reg[i].refs > 1 THEN [k EXCEPT !.reg[i].refs = @ - 1]
    ELSE [losetupDetachRetry(k, k.reg[i].dev) EXCEPT !.reg[i] = None]

-----------------------------------------------------------------------------
(* dm-snapshot devices.  busy: every attempt to remove the device failed.  *)

\* The origin device has to be there still, and to differ from the CoW's.
attachCowAndCreate(k, n, dev, b) ==
    LET a == Attach(k, Cow(b))
        c == Min(Free(k))
    IN IF k.loop[dev] = None THEN losetupDetachRetry(a, c)
       ELSE [a EXCEPT !.dm[n] = [origin |-> dev, cow |-> c]]

dmsetupRemove(k, n, busy) == IF busy THEN k ELSE Settle([k EXCEPT !.dm[n] = None])

CreateSnapshotDM(k, b, i) == attachCowAndCreate(k, RunDM(b), k.reg[i].dev, b)

\* A device of the same name that an earlier removal left behind goes first;
\* if it cannot be removed nothing is attached.
RestoreSnapshot(k, n, b, i, busy) ==
    IF k.dm[n] # None /\ busy THEN k
    ELSE attachCowAndCreate(dmsetupRemove(k, n, FALSE), n, k.reg[i].dev, b)

\* The CoW loop is detached even when the dm device stays.
RemoveSnapshot(k, n, cow, busy) == losetupDetachRetry(dmsetupRemove(k, n, busy), cow)

\* The device handle of a dm-snapshot an earlier process created, or None.
ReattachSnapshot(k, b) ==
    IF k.dm[RunDM(b)] # None /\ Cardinality(Attached(k, Cow(b))) = 1
    THEN CHOOSE d \in Attached(k, Cow(b)) : TRUE
    ELSE None

\* Every dm device of ours goes; their loop devices stay.
CleanupStaleDevices(k) == Settle([k EXCEPT !.dm = [n \in DMs |-> None]])
=============================================================================
