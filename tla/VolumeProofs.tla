---------------------------- MODULE VolumeProofs ----------------------------
(***************************************************************************)
(* The invariant of the control plane's tables, what its statements and      *)
(* moves do to them, and, for any number of capsules, volumes and calls: in  *)
(* the scenarios named below, a capsule keeps its volumes while it is alive. *)
(***************************************************************************)
EXTENDS ControlPlane, TLAPS

(* A leaf is Zenon's unless it names SMT; each is tried again with more time. *)
USE Zenon, SlowZenon

(* The operation that a program point belongs to.                           *)
PointInv ==
    \A c \in mix.calls :
        /\ pc[c] \in {"reserve", "release", "insert", "link", "confirm", "free", "fail", "run"} => Op(c) = "create"
        /\ pc[c] = "undo" => Op(c) \in {"pause", "resume", "snapshot"}
        /\ pc[c] \in {"mark", "stop"} => Op(c) = "destroy"
        /\ pc[c] \in {"abort", "drop"} => Op(c) = "delete"

(* The consumer moves a row out of stopping for a stop event only, and      *)
(* detaches volumes for a stop or a failure only.                           *)
ConInv ==
    con # NoEvent =>
        /\ con.kind \in EventKinds /\ con.box \in Sandboxes /\ con.todo # <<>>
        /\ con.kind # "stopped" => \A i \in 1..Len(con.todo) : con.todo[i] # "stopping"
        /\ con.kind \notin {"stopped", "failed"} => \A i \in 1..Len(con.todo) : con.todo[i] # "detach"

(* The monitor writes a status that a host can report, to rows it has read. *)
MonInv ==
    /\ mon.pc \in {"stopRunning", "freeRunning", "sync"} => \A s \in mon.sync : mon.alive[s] \in {"paused", "error"}
    /\ mon.pc \in {"confirmed", "settle"} => mon.item \in Sandboxes

TInv == TypeOK /\ PointInv /\ ConInv /\ MonInv

-----------------------------------------------------------------------------
LEMMA MixTyped == ASSUME TypeOK PROVE mix \in Scenario /\ mix.wants \in [Sandboxes -> SUBSET Volumes]
<1>1. mix \in Scenario
  BY DEF TypeOK
<1> QED
  BY <1>1 DEF Scenario

LEMMA CallShape ==
    ASSUME TypeOK, NEW c \in mix.calls
    PROVE  /\ c = <<Op(c), Box(c)>>
           /\ \/ Op(c) = "delete" /\ Box(c) \in Volumes
              \/ Op(c) \in BoxOps /\ Box(c) \in Sandboxes /\ mix.wants[Box(c)] \subseteq Volumes
<1>1. mix.calls \subseteq (BoxOps \X Sandboxes) \cup ({"delete"} \X Volumes)
  BY MixTyped DEF Scenario
<1>2. mix.wants \in [Sandboxes -> SUBSET Volumes]
  BY MixTyped
<1> QED
  BY <1>1, <1>2, SMT, SMTT(20) DEF Op, Box

LEMMA Moves ==
    ASSUME TypeOK, NEW c \in mix.calls, NEW p \in Points, Goto(c, p)
    PROVE  pc' \in [mix.calls -> Points] /\ pc'[c] = p /\ \A d \in mix.calls \ {c} : pc'[d] = pc[d]
  BY DEF TypeOK, Goto

(* The volumes' statements.                                                 *)
LEMMA VolumeSet ==
    ASSUME TypeOK, NEW v \in Volumes, NEW st \in {"detached", "attaching", "attached", "deleting", "gone"},
           vol' = [vol EXCEPT ![v].st = st]
    PROVE  /\ vol' \in [Volumes -> VolumeRow]
           /\ vol'[v].st = st /\ vol'[v].owner = vol[v].owner /\ vol'[v].pin = vol[v].pin
           /\ \A w \in Volumes \ {v} : vol'[w] = vol[w]
<1>1. vol[v] \in VolumeRow
  BY DEF TypeOK
<1>2. [vol[v] EXCEPT !.st = st] \in VolumeRow
  BY <1>1 DEF VolumeRow
<1> QED
  BY <1>1, <1>2 DEF TypeOK, VolumeRow

LEMMA RowFreed ==
    ASSUME TypeOK, NEW v \in Volumes
    PROVE  LET r == [vol[v] EXCEPT !.st = "detached", !.owner = None]
           IN  r \in VolumeRow /\ r.st = "detached" /\ r.owner = None /\ r.pin = vol[v].pin
<1>1. vol[v] \in VolumeRow
  BY DEF TypeOK
<1>2. [vol[v] EXCEPT !.st = "detached", !.owner = None] \in VolumeRow
  BY <1>1 DEF VolumeRow
<1> QED
  BY <1>1, <1>2 DEF VolumeRow

LEMMA Detached ==
    ASSUME TypeOK, NEW S, vol' = DetachVolumesBySandboxIDs(S)
    PROVE  /\ vol' \in [Volumes -> VolumeRow]
           /\ \A v \in Volumes : \/ vol'[v] = vol[v]
                                 \/ vol[v].owner \in S /\ vol'[v].st = "detached" /\ vol'[v].owner = None
  BY RowFreed DEF DetachVolumesBySandboxIDs, TypeOK

LEMMA Released ==
    ASSUME TypeOK, NEW V, vol' = ReleaseVolumeReservation(V)
    PROVE  /\ vol' \in [Volumes -> VolumeRow]
           /\ \A v \in Volumes : \/ vol'[v] = vol[v]
                                 \/ v \in V /\ vol[v].st = "attaching" /\ vol'[v].st = "detached" /\ vol'[v].owner = None
  BY RowFreed DEF ReleaseVolumeReservation, TypeOK

LEMMA LinkedTo ==
    ASSUME TypeOK, NEW s \in Sandboxes, NEW V, vol' = LinkVolumeReservation(V, s)
    PROVE  /\ vol' \in [Volumes -> VolumeRow]
           /\ \A v \in Volumes : IF v \in V /\ vol[v].st = "attaching"
                                 THEN vol'[v].st = "attaching" /\ vol'[v].owner = s
                                 ELSE vol'[v] = vol[v]
<1>1. ASSUME NEW v \in Volumes
      PROVE  /\ [vol[v] EXCEPT !.owner = s] \in VolumeRow
             /\ [vol[v] EXCEPT !.owner = s].st = vol[v].st /\ [vol[v] EXCEPT !.owner = s].owner = s
  <2>1. vol[v] \in VolumeRow
    BY DEF TypeOK
  <2> QED
    BY <2>1 DEF VolumeRow
<1> QED
  BY <1>1 DEF LinkVolumeReservation, TypeOK

LEMMA AttachedTo ==
    ASSUME TypeOK, NEW s \in Sandboxes, NEW V, vol' = MarkVolumeAttached(V, s)
    PROVE  /\ vol' \in [Volumes -> VolumeRow]
           /\ \A v \in Volumes : IF v \in V /\ vol[v].st = "attaching"
                                 THEN vol'[v].st = "attached" /\ vol'[v].owner = s
                                 ELSE vol'[v] = vol[v]
<1>1. [st |-> "attached", owner |-> s, pin |-> TRUE] \in VolumeRow
  BY DEF VolumeRow
<1> QED
  BY <1>1 DEF MarkVolumeAttached, TypeOK

(* The host's destroy of a capsule, and the create that it cancels.         *)
LEMMA Destroyed ==
    ASSUME TypeOK, NEW s \in Sandboxes, AgentDestroys(s)
    PROVE  /\ agent' \in [Sandboxes -> AgentStates]
           /\ Cancelled(s) \in [mix.calls -> {"none", "sent", "lost", "ok", "err"}]
           /\ \A t \in Sandboxes \ {s} : agent'[t] = agent[t]
           /\ agent'[s] \in {"absent", "paused"}
           /\ Pending("pause", s) = {} \/ agent[s] # "running" => agent'[s] = "absent"
  BY DEF TypeOK, AgentDestroys, AgentStates, Cancelled

LEMMA Transitions ==
    ASSUME NEW op \in DOMAIN Transition
    PROVE  /\ op \in {"pause", "resume", "snapshot"}
           /\ Transition[op].via \in Statuses /\ Transition[op].via # "stopping"
           /\ Transition[op].from \subseteq {"running", "paused"}
  BY SMT, SMTT(20) DEF Transition, Statuses, Transient

(* The requests that the agent serves, or does not.                         *)
LEMMA Answered ==
    ASSUME TypeOK, NEW c \in mix.calls, NEW r \in {"none", "sent", "lost", "ok", "err"}, Answer(c, r)
    PROVE  /\ rpc' \in [mix.calls -> {"none", "sent", "lost", "ok", "err"}]
           /\ rpc'[c] = r /\ \A d \in mix.calls \ {c} : rpc'[d] = rpc[d]
  BY DEF TypeOK, Answer

LEMMA AnswersEnd ==
    ASSUME TypeOK, NEW c \in mix.calls, Answers(c)
    PROVE  /\ rpc' \in [mix.calls -> {"none", "sent", "lost", "ok", "err"}]
           /\ rpc'[c] \in {"ok", "err"} /\ \A d \in mix.calls \ {c} : rpc'[d] = rpc[d]
<1>1. PICK r \in {"ok", "err"} : Answer(c, r)
  BY DEF Answers
<1> QED
  BY <1>1, Answered

LEMMA Reaped ==
    ASSUME TypeOK, vol' = ReleaseStaleVolumeReservations
    PROVE  /\ vol' \in [Volumes -> VolumeRow]
           /\ \A v \in Volumes : \/ vol'[v] = vol[v]
                                 \/ Orphaned(v) /\ vol'[v].st = "detached" /\ vol'[v].owner = vol[v].owner
<1>1. ASSUME NEW v \in Volumes
      PROVE  LET r == [vol[v] EXCEPT !.st = "detached"]
             IN  r \in VolumeRow /\ r.st = "detached" /\ r.owner = vol[v].owner
  <2>1. vol[v] \in VolumeRow
    BY DEF TypeOK
  <2> QED
    BY <2>1 DEF VolumeRow
<1>2. \A v \in Volumes : vol[v] \in VolumeRow
  BY DEF TypeOK
<1> HIDE DEF VolumeRow
<1> QED
  BY <1>1, <1>2 DEF ReleaseStaleVolumeReservations

LEMMA IdleTick == Idle \in Tick /\ Idle.pc = "idle" /\ NoStatus \in [Sandboxes -> AgentStates \cup {""}]
  BY DEF Idle, Tick, NoStatus, AgentStates, Statuses, Transient, Terminal

-----------------------------------------------------------------------------
(* The scenarios in which a capsule with volumes keeps them: the monitor    *)
(* does not tick, no call resumes the capsule, and a call that creates it,  *)
(* or pauses it, does not race with its end.                                *)
Undisturbed ==
    /\ ~mix.monitor
    /\ \A s \in Sandboxes : mix.wants[s] # {} =>
         /\ <<"resume", s>> \notin mix.calls
         /\ <<"pause", s>> \in mix.calls => <<"destroy", s>> \notin mix.calls
         /\ <<"create", s>> \in mix.calls =>
              <<"destroy", s>> \notin mix.calls /\ <<"pause", s>> \notin mix.calls /\ ~mix.idle

Alive(s) == agent[s] \in {"running", "paused"}
Pends(s) == <<"create", s>> \in mix.calls /\ rpc[<<"create", s>>] \in {"sent", "lost"}

(* The capsule has all its volumes.                                         *)
Secure(s) == \A v \in mix.wants[s] : vol[v].st \in {"attaching", "attached"} /\ vol[v].owner = s

(* The capsule is alive, the agent may still boot it, or its create has not *)
(* heard from the host that it is gone.                                     *)
Needs(s) ==
    \/ Alive(s) \/ Pends(s)
    \/ <<"create", s>> \in mix.calls /\ pc[<<"create", s>>] \in {"wait", "confirm", "free"}

HoldInv ==
    \A s \in Sandboxes :
        /\ Needs(s) => Secure(s)
        /\ Alive(s) => \A v \in mix.wants[s] : file[v]

(* Only a capsule that asked for a volume owns it, and only while the       *)
(* volume is attached or about to be.                                       *)
OwnInv ==
    \A v \in Volumes :
        /\ vol[v].st \notin {"attaching", "attached"} => vol[v].owner = None
        /\ \A s \in Sandboxes : vol[v].owner = s => v \in mix.wants[s]

(* A create before its RPC, and what it has reserved.                       *)
Reserving(c) == pc[c] \in {"reserve", "release", "insert", "link"}
Whole(c, p) == p \in {"insert", "link", "confirm", "free"} \/ (Op(c) = "create" /\ p = "wait")
ReserveInv ==
    \A c \in mix.calls :
        /\ pc[c] = "idle" => rpc[c] = "none" /\ held[c] = {}
        /\ Reserving(c) =>
             /\ rpc[c] = "none" /\ held[c] \subseteq mix.wants[Box(c)]
             /\ \A v \in held[c] : vol[v].st = "attaching" /\ vol[v].owner = None
             /\ \A d \in mix.calls \ {c} : Reserving(d) => held[c] \cap held[d] = {}
        /\ Whole(c, pc[c]) => held[c] = mix.wants[Box(c)]

(* A create gives its volumes up only once the host has confirmed that the  *)
(* capsule is gone.                                                         *)
BootInv ==
    \A c \in mix.calls :
        Op(c) = "create" /\ pc[c] \in {"free", "fail"} /\ mix.wants[Box(c)] # {} => ~Alive(Box(c)) /\ ~Pends(Box(c))

(* The capsule has ended, and nothing brings it back.                       *)
Gone(s) ==
    /\ ~Alive(s) /\ ~Pends(s)
    /\ <<"create", s>> \in mix.calls => pc[<<"create", s>>] = "done"

(* Whatever detaches the volumes of a capsule comes after its end.          *)
InStream(e) == \E i \in 1..Len(stream) : stream[i] = e
Told(s) ==
    \/ <<"stopped", s>> \in cb \/ <<"error", s>> \in cb
    \/ InStream(<<"stopped", s>>) \/ InStream(<<"failed", s>>)
    \/ con.kind \in {"stopped", "failed"} /\ con.box = s
    \/ <<"destroy", s>> \in mix.calls /\ (rpc[<<"destroy", s>>] = "ok" \/ pc[<<"destroy", s>>] = "stop")
EndInv == \A s \in Sandboxes : mix.wants[s] # {} /\ Told(s) => Gone(s)

(* The agent deletes the file of a volume only while its row is deleting.   *)
DeleteInv ==
    \A c \in mix.calls : Op(c) = "delete" =>
        /\ rpc[c] \in {"sent", "lost"} => vol[Box(c)].st = "deleting"
        /\ pc[c] \in {"abort", "drop"} => rpc[c] \notin {"sent", "lost"}

VInv == HoldInv /\ OwnInv /\ ReserveInv /\ BootInv /\ EndInv /\ DeleteInv

-----------------------------------------------------------------------------
(* What keeps each part of the invariant on volumes.                        *)

(* Call c moves to p.                                                       *)
Moved(c, p) == pc'[c] = p /\ \A d \in mix.calls \ {c} : pc'[d] = pc[d]

LEMMA NeedsKept ==
    ASSUME TypeOK, NEW c \in mix.calls, NEW p, Moved(c, p), UNCHANGED <<mix, agent, rpc>>,
           Op(c) = "create" /\ p \in {"wait", "confirm", "free"} => pc[c] \in {"wait", "confirm", "free"}
    PROVE  \A s \in Sandboxes : (Alive(s)' <=> Alive(s)) /\ (Needs(s)' => Needs(s))
<1>1. c = <<Op(c), Box(c)>>
  BY CallShape
<1> QED
  BY <1>1, SMT, SMTT(20) DEF Moved, Needs, Alive, Pends, Op

(* The volumes of the capsules that need them are written only to keep them. *)
LEMMA HoldKept ==
    ASSUME HoldInv, UNCHANGED <<mix, file>>, mix.wants \in [Sandboxes -> SUBSET Volumes],
           \A s \in Sandboxes : (Alive(s)' => Alive(s)) /\ (Needs(s)' => Needs(s)),
           \A s \in Sandboxes : \A v \in Volumes :
               Needs(s)' /\ vol[v].owner = s /\ vol[v].st \in {"attaching", "attached"} =>
                   vol'[v].owner = s /\ vol'[v].st \in {"attaching", "attached"}
    PROVE  HoldInv'
<1> SUFFICES ASSUME NEW s \in Sandboxes
             PROVE  (Needs(s)' => Secure(s)') /\ (Alive(s)' => \A v \in mix.wants[s] : file'[v])
  BY DEF HoldInv
<1>1. mix.wants[s] \subseteq Volumes
  OBVIOUS
<1>2. Needs(s)' => Secure(s)'
  BY <1>1 DEF HoldInv, Secure
<1>3. Alive(s)' => \A v \in mix.wants[s] : file'[v]
  BY DEF HoldInv
<1> QED
  BY <1>2, <1>3

LEMMA ReserveKept ==
    ASSUME ReserveInv, NEW c \in mix.calls, NEW p, Moved(c, p), UNCHANGED <<mix, rpc, held>>, p # "idle",
           p \in {"reserve", "release", "insert", "link"} => Reserving(c) \/ pc[c] = "idle",
           Whole(c, p) => held[c] = mix.wants[Box(c)],
           \A v \in Volumes : vol'[v] = vol[v] \/ \A d \in mix.calls \ {c} : Reserving(d) => v \notin held[d],
           \A v \in Volumes : vol'[v] = vol[v] \/ p \notin {"reserve", "release", "insert", "link"},
           held \in [mix.calls -> SUBSET Volumes]
    PROVE  ReserveInv'
<1>1. \A d \in mix.calls \ {c} : (Reserving(d)' <=> Reserving(d)) /\ (Whole(d, pc[d])' <=> Whole(d, pc[d])) /\ pc'[d] = pc[d]
  BY DEF Moved, Reserving, Whole
<1>2. (Reserving(c)' <=> p \in {"reserve", "release", "insert", "link"}) /\ (Whole(c, pc[c])' <=> Whole(c, p)) /\ pc'[c] = p
  BY DEF Moved, Reserving, Whole
<1>3. ASSUME NEW d \in mix.calls, Reserving(d)'
      PROVE  /\ rpc[d] = "none" /\ held[d] \subseteq mix.wants[Box(d)]
             /\ \A v \in held[d] : vol'[v].st = "attaching" /\ vol'[v].owner = None
             /\ Reserving(d) \/ (d = c /\ held[d] = {})
  <2>1. CASE Reserving(d)
    <3>1. \A v \in held[d] : vol'[v] = vol[v]
      BY <1>2, <1>3, <2>1
    <3> QED
      BY <2>1, <3>1, SMT, SMTT(20) DEF ReserveInv
  <2>2. CASE d = c /\ pc[d] = "idle"
    BY <2>2 DEF ReserveInv
  <2> QED
    BY <1>1, <1>2, <1>3, <2>1, <2>2
<1>4. ASSUME NEW d \in mix.calls, Reserving(d)', NEW e \in mix.calls \ {d}, Reserving(e)'
      PROVE  held[d] \cap held[e] = {}
  BY <1>3, <1>4 DEF ReserveInv
<1>5. ASSUME NEW d \in mix.calls
      PROVE  /\ pc'[d] = "idle" => rpc[d] = "none" /\ held[d] = {}
             /\ Whole(d, pc[d])' => held[d] = mix.wants[Box(d)]
  BY <1>1, <1>2 DEF ReserveInv
<1> QED
  BY <1>3, <1>4, <1>5, SMT, SMTT(20) DEF ReserveInv

LEMMA BootKept ==
    ASSUME BootInv, NEW c \in mix.calls, NEW p, Moved(c, p), UNCHANGED <<mix, agent, rpc>>,
           Op(c) = "create" /\ p \in {"free", "fail"} /\ mix.wants[Box(c)] # {} => ~Alive(Box(c)) /\ ~Pends(Box(c))
    PROVE  BootInv'
  BY DEF BootInv, Moved, Alive, Pends

LEMMA GoneKept ==
    ASSUME UNCHANGED mix, \A c \in mix.calls : pc[c] = "done" => pc'[c] = "done",
           NEW s \in Sandboxes, Gone(s), Alive(s)' => Alive(s), Pends(s)' => Pends(s)
    PROVE  Gone(s)'
  BY DEF Gone

LEMMA EndKept ==
    ASSUME TypeOK, EndInv, NEW c \in mix.calls, NEW p, Moved(c, p), UNCHANGED <<mix, agent, rpc, cb, con>>,
           pc[c] # "done", p = "stop" /\ mix.wants[Box(c)] # {} => Gone(Box(c)),
           \A s \in Sandboxes : \A k \in {"stopped", "failed"} :
               InStream(<<k, s>>)' => InStream(<<k, s>>) \/ mix.wants[s] = {} \/ Gone(s)'
    PROVE  EndInv'
<1>1. c = <<Op(c), Box(c)>>
  BY CallShape
<1>2. ASSUME NEW s \in Sandboxes, Gone(s)
      PROVE  Gone(s)'
  <2>1. (Alive(s)' => Alive(s)) /\ (Pends(s)' => Pends(s)) /\ \A d \in mix.calls : pc[d] = "done" => pc'[d] = "done"
    BY DEF Alive, Pends, Moved
  <2> QED
    BY <1>2, <2>1, GoneKept
<1>3. ASSUME NEW s \in Sandboxes, Told(s)', mix.wants[s] # {}
      PROVE  Told(s) \/ Gone(s) \/ Gone(s)'
  BY <1>1, <1>3, SMT, SMTT(20) DEF Told, Moved, Box
<1> QED
  BY <1>2, <1>3 DEF EndInv

LEMMA DeleteKept ==
    ASSUME DeleteInv, NEW c \in mix.calls, NEW p, Moved(c, p), UNCHANGED <<mix, rpc>>,
           Op(c) = "delete" /\ p \in {"abort", "drop"} => rpc[c] \notin {"sent", "lost"},
           \A d \in mix.calls : Op(d) = "delete" /\ rpc[d] \in {"sent", "lost"} => vol'[Box(d)] = vol[Box(d)]
    PROVE  DeleteInv'
  BY DEF DeleteInv, Moved

(* A step that moves one call and publishes at most one event.              *)
LEMMA PointMoved ==
    ASSUME TypeOK, VInv, NEW c \in mix.calls, NEW p \in Points, Goto(c, p),
           UNCHANGED <<mix, vol, agent, file, rpc, held, cb, con>>, pc[c] # "done", p # "idle",
           Op(c) = "create" /\ p \in {"wait", "confirm", "free"} => pc[c] \in {"wait", "confirm", "free"},
           p \in {"reserve", "release", "insert", "link"} => Reserving(c) \/ pc[c] = "idle",
           Whole(c, p) => held[c] = mix.wants[Box(c)],
           Op(c) = "create" /\ p \in {"free", "fail"} /\ mix.wants[Box(c)] # {} => ~Alive(Box(c)) /\ ~Pends(Box(c)),
           p = "stop" /\ mix.wants[Box(c)] # {} => Gone(Box(c)),
           Op(c) = "delete" /\ p \in {"abort", "drop"} => rpc[c] \notin {"sent", "lost"},
           \A s \in Sandboxes : \A k \in {"stopped", "failed"} :
               InStream(<<k, s>>)' => InStream(<<k, s>>) \/ mix.wants[s] = {} \/ Gone(s)'
    PROVE  VInv'
<1>1. Moved(c, p)
  BY Moves DEF Moved
<1>2. HoldInv'
  <2>1. mix.wants \in [Sandboxes -> SUBSET Volumes]
    BY MixTyped
  <2> QED
    BY <1>1, <2>1, NeedsKept, HoldKept DEF VInv
<1>3. OwnInv'
  BY DEF VInv, OwnInv
<1>4. ReserveInv'
  BY <1>1, ReserveKept DEF VInv, TypeOK
<1>5. BootInv'
  BY <1>1, BootKept DEF VInv
<1>6. EndInv'
  BY <1>1, EndKept DEF VInv
<1>7. DeleteInv'
  BY <1>1, DeleteKept DEF VInv
<1> QED
  BY <1>2, <1>3, <1>4, <1>5, <1>6, <1>7 DEF VInv

-----------------------------------------------------------------------------
(* The steps of the calls keep it.                                          *)

LEMMA StreamSame ==
    ASSUME stream' = stream, NEW e
    PROVE  InStream(e)' => InStream(e)
  BY DEF InStream

LEMMA PublishedAdds ==
    ASSUME TypeOK, NEW k, NEW s, Publish(<<<<k, s>>>>), NEW e, InStream(e)'
    PROVE  InStream(e) \/ e = <<k, s>>
<1> DEFINE x == <<k, s>>
<1>1. stream \in Seq(EventKinds \X Sandboxes) /\ stream' \in {stream, stream \o <<x>>}
  BY DEF TypeOK, Publish
<1> HIDE DEF x
<1>2. CASE stream' = stream \o <<x>>
  <2>1. PICK i \in 1..Len(stream') : stream'[i] = e
    BY DEF InStream
  <2>2. Len(stream') = Len(stream) + 1 /\ Len(stream) \in Nat
    BY <1>1, <1>2, SMT, SMTT(20)
  <2>3. stream'[i] = IF i <= Len(stream) THEN stream[i] ELSE x
    BY <1>1, <1>2, <2>1, <2>2, SMT, SMTT(20)
  <2> QED
    BY <2>1, <2>2, <2>3, SMT, SMTT(20) DEF InStream, x
<1>3. CASE stream' = stream
  BY <1>3 DEF InStream
<1> QED
  BY <1>1, <1>2, <1>3

LEMMA QuietHolds ==
    ASSUME TInv, VInv, NEW c \in mix.calls,
           \/ CreateCall(c) \/ CreateFailed(c) \/ DestroyCall(c) \/ DestroyFailed(c) \/ DeleteServed(c) \/ DeleteFailed(c)
           \/ CreateInsert(c) \/ Undo(c)
           \/ CreateReserve(c) /\ UNCHANGED <<vol, held>> /\ (Goto(c, "insert") \/ Goto(c, "release"))
    PROVE  VInv'
<1>0. TypeOK /\ PointInv
  BY DEF TInv
<1>1. UNCHANGED <<mix, vol, agent, file, rpc, held, cb, con, stream>>
  BY DEF CreateCall, CreateFailed, DestroyCall, DestroyFailed, DeleteServed, DeleteFailed, CreateInsert, Undo, CreateReserve,
         db, host
<1>2. \A s \in Sandboxes : \A k \in {"stopped", "failed"} : InStream(<<k, s>>)' => InStream(<<k, s>>)
  BY <1>1, StreamSame
<1>3. PICK p \in {"reserve", "confirm", "mark", "done", "drop", "abort", "link", "release", "insert"} :
        /\ Goto(c, p) /\ pc[c] # "done"
        /\ Op(c) = "create" /\ p \in {"wait", "confirm", "free"} => pc[c] \in {"wait", "confirm", "free"}
        /\ p \in {"reserve", "release", "insert", "link"} => Reserving(c) \/ pc[c] = "idle"
        /\ Whole(c, p) => Whole(c, pc[c]) \/ held[c] = mix.wants[Box(c)]
        /\ p \in {"abort", "drop"} => rpc[c] \notin {"sent", "lost"}
  <2>1. CASE CreateCall(c)
    BY <2>1, SMT, SMTT(20) DEF CreateCall, At, Whole
  <2>2. CASE CreateFailed(c)
    BY <2>2 DEF CreateFailed, Failed, At, Whole
  <2>3. CASE DestroyCall(c)
    BY <2>3 DEF DestroyCall, At, Whole
  <2>4. CASE DestroyFailed(c)
    BY <2>4 DEF DestroyFailed, Failed, At, Whole
  <2>5. CASE DeleteServed(c)
    BY <2>5 DEF DeleteServed, Succeeded, At, Whole
  <2>6. CASE DeleteFailed(c)
    BY <2>6 DEF DeleteFailed, Failed, At, Whole
  <2>7. CASE CreateInsert(c)
    BY <2>7 DEF CreateInsert, At, Whole, Reserving
  <2>8. CASE Undo(c)
    BY <2>8 DEF Undo, At, Whole
  <2>9. CASE CreateReserve(c) /\ UNCHANGED <<vol, held>> /\ (Goto(c, "insert") \/ Goto(c, "release"))
    <3>1. pc[c] = "reserve" /\ Reserving(c) /\ held[c] \subseteq mix.wants[Box(c)]
      BY <2>9 DEF CreateReserve, At, Reserving, VInv, ReserveInv
    <3>2. CASE Goto(c, "release")
      BY <3>1, <3>2 DEF Whole
    <3>3. CASE Goto(c, "insert") /\ ~ Goto(c, "release")
      <4>1. pc' # pc
        BY <1>0, <3>1, <3>3 DEF Goto, TypeOK
      <4>2. mix.wants[Box(c)] \ held[c] = {}
        BY <2>9, <3>3, <4>1 DEF CreateReserve
      <4>3. held[c] = mix.wants[Box(c)]
        BY <3>1, <4>2
      <4> QED
        BY <3>1, <3>3, <4>3
    <3> QED
      BY <2>9, <3>2, <3>3
  <2> QED
    BY <2>1, <2>2, <2>3, <2>4, <2>5, <2>6, <2>7, <2>8, <2>9
<1>4. Whole(c, p) => held[c] = mix.wants[Box(c)]
  BY <1>3 DEF VInv, ReserveInv
<1>5. p \in Points
  BY DEF Points
<1> QED
  BY <1>0, <1>1, <1>2, <1>3, <1>4, <1>5, PointMoved

(* A call that ends with an event for its capsule.                          *)
LEMMA EndsHold ==
    ASSUME TInv, Undisturbed, VInv, NEW c \in mix.calls,
           CreateFail(c) \/ CreateRun(c) \/ DestroyStop(c) \/ Finish(c) \/ FinishFailed(c)
    PROVE  VInv'
<1>0. TypeOK /\ PointInv
  BY DEF TInv
<1>1. UNCHANGED <<mix, vol, agent, file, rpc, held, cb, con>> /\ Goto(c, "done")
  BY DEF CreateFail, CreateRun, DestroyStop, Finish, FinishFailed, host
<1>2. pc[c] # "done" /\ Op(c) # "delete"
  BY <1>0 DEF CreateFail, CreateRun, DestroyStop, Finish, FinishFailed, At, Succeeded, Failed, PointInv, Transition
<1>3. Box(c) \in Sandboxes /\ c = <<Op(c), Box(c)>>
  BY <1>0, <1>2, CallShape
<1>4. "done" \in Points /\ ~ Whole(c, "done")
  BY DEF Points, Whole
<1>5. Moved(c, "done")
  BY <1>0, <1>1, <1>4, Moves DEF Moved
<1>6. CASE UNCHANGED stream
  BY <1>0, <1>1, <1>2, <1>4, <1>6, StreamSame, PointMoved
<1>7. CASE \E k \in EventKinds : /\ Publish(<<<<k, Box(c)>>>>)
                                 /\ k \in {"stopped", "failed"} /\ mix.wants[Box(c)] # {} => Gone(Box(c))'
  <2>1. PICK k \in EventKinds : /\ Publish(<<<<k, Box(c)>>>>)
                                /\ k \in {"stopped", "failed"} /\ mix.wants[Box(c)] # {} => Gone(Box(c))'
    BY <1>7
  <2>2. \A s \in Sandboxes : \A j \in {"stopped", "failed"} :
           InStream(<<j, s>>)' => InStream(<<j, s>>) \/ mix.wants[s] = {} \/ Gone(s)'
    BY <1>0, <2>1, PublishedAdds
  <2> QED
    BY <1>0, <1>1, <1>2, <1>4, <2>2, PointMoved
<1>8. CASE CreateFail(c)
  <2>1. Op(c) = "create" /\ pc[c] = "fail" /\ Publish(<<<<"failed", Box(c)>>>>)
    BY <1>0, <1>8 DEF CreateFail, PointInv, At
  <2>2. mix.wants[Box(c)] # {} => Gone(Box(c))'
    BY <2>1, <1>1, <1>3, <1>5 DEF VInv, BootInv, Gone, Alive, Pends, Moved
  <2> QED
    BY <2>1, <2>2, <1>7 DEF EventKinds
<1>9. CASE DestroyStop(c)
  <2>1. Op(c) = "destroy" /\ pc[c] = "stop" /\ Publish(<<<<"stopped", Box(c)>>>>)
    BY <1>0, <1>9 DEF DestroyStop, PointInv, At
  <2>2. mix.wants[Box(c)] # {} => Gone(Box(c))
    BY <2>1, <1>3 DEF VInv, EndInv, Told
  <2>3. Gone(Box(c)) => Gone(Box(c))'
    BY <1>1, <1>3, <1>5, <2>1 DEF Gone, Alive, Pends, Moved
  <2> QED
    BY <2>1, <2>2, <2>3, <1>7 DEF EventKinds
<1>10. CASE CreateRun(c)
  BY <1>10, <1>7 DEF CreateRun, EventKinds
<1>11. CASE Finish(c)
  BY <1>11, <1>6, <1>7 DEF Finish, EventKinds
<1>12. CASE FinishFailed(c)
  <2>1. CASE Op(c) = "resume"
    BY <2>1, <1>3, <1>7, <1>12 DEF FinishFailed, EventKinds, Undisturbed
  <2>2. CASE Op(c) # "resume"
    BY <2>2, <1>6, <1>12 DEF FinishFailed
  <2> QED
    BY <2>1, <2>2
<1> QED
  BY <1>8, <1>9, <1>10, <1>11, <1>12

(* A step that writes volumes, and keeps those that somebody relies on.     *)
LEMMA VolumesMoved ==
    ASSUME TypeOK, VInv, NEW c \in mix.calls, NEW p \in Points, Goto(c, p), OwnInv',
           UNCHANGED <<mix, agent, file, rpc, held, cb, con, stream>>, pc[c] # "done",
           p \notin {"idle", "free", "reserve", "release", "insert", "link", "confirm", "wait", "abort", "drop"},
           p = "stop" /\ mix.wants[Box(c)] # {} => Gone(Box(c)),
           Op(c) = "create" /\ p = "fail" => pc[c] = "free",
           \A s \in Sandboxes : \A v \in Volumes :
               Needs(s)' /\ vol[v].owner = s /\ vol[v].st \in {"attaching", "attached"} =>
                   vol'[v].owner = s /\ vol'[v].st \in {"attaching", "attached"},
           \A v \in Volumes : vol'[v] = vol[v] \/ \A d \in mix.calls \ {c} : Reserving(d) => v \notin held[d],
           \A d \in mix.calls : Op(d) = "delete" /\ rpc[d] \in {"sent", "lost"} => vol'[Box(d)] = vol[Box(d)]
    PROVE  VInv'
<1>1. Moved(c, p)
  BY Moves DEF Moved
<1>2. HoldInv'
  <2>1. mix.wants \in [Sandboxes -> SUBSET Volumes]
    BY MixTyped
  <2> QED
    BY <1>1, <2>1, NeedsKept, HoldKept DEF VInv
<1>3. ReserveInv'
  <2>1. ~ Whole(c, p)
    BY DEF Whole
  <2> QED
    BY <1>1, <2>1, ReserveKept DEF VInv, TypeOK
<1>4. BootInv'
  <2>1. Op(c) = "create" /\ p = "fail" /\ mix.wants[Box(c)] # {} => ~Alive(Box(c)) /\ ~Pends(Box(c))
    BY DEF VInv, BootInv
  <2> QED
    BY <1>1, <2>1, BootKept DEF VInv
<1>5. EndInv'
  BY <1>1, EndKept, StreamSame DEF VInv
<1>6. DeleteInv'
  BY <1>1, DeleteKept DEF VInv
<1> QED
  BY <1>2, <1>3, <1>4, <1>5, <1>6 DEF VInv

(* What the invariant says of a volume that somebody relies on.             *)
LEMMA Relied ==
    ASSUME TInv, VInv
    PROVE  /\ \A s \in Sandboxes : Needs(s) => \A v \in mix.wants[s] : vol[v].owner = s
           /\ \A c \in mix.calls : Reserving(c) => \A v \in held[c] : v \in Volumes /\ vol[v].st = "attaching" /\ vol[v].owner = None
           /\ \A c \in mix.calls : Op(c) = "delete" /\ rpc[c] \in {"sent", "lost"} => vol[Box(c)].st = "deleting"
           /\ \A v \in Volumes : vol[v].owner # None => vol[v].st \in {"attaching", "attached"}
           /\ None \notin Sandboxes
<1>1. \A s \in Sandboxes : Needs(s) => \A v \in mix.wants[s] : vol[v].owner = s
  BY DEF VInv, HoldInv, Secure
<1>2. ASSUME NEW c \in mix.calls, Reserving(c)
      PROVE  \A v \in held[c] : v \in Volumes /\ vol[v].st = "attaching" /\ vol[v].owner = None
  <2>1. held[c] \subseteq Volumes
    BY DEF TInv, TypeOK
  <2> QED
    BY <1>2, <2>1 DEF VInv, ReserveInv
<1>3. \A c \in mix.calls : Op(c) = "delete" /\ rpc[c] \in {"sent", "lost"} => vol[Box(c)].st = "deleting"
  BY DEF VInv, DeleteInv
<1>4. \A v \in Volumes : vol[v].owner # None => vol[v].st \in {"attaching", "attached"}
  BY DEF VInv, OwnInv
<1>5. None \notin Sandboxes
  BY ControlPlaneAssumption
<1> QED
  BY <1>1, <1>2, <1>3, <1>4, <1>5

LEMMA CreateReleaseHolds ==
    ASSUME TInv, VInv, NEW c \in mix.calls, CreateRelease(c)
    PROVE  VInv'
<1>0. TypeOK /\ pc[c] = "release" /\ Reserving(c)
  BY DEF TInv, CreateRelease, At, Reserving
<1>1. UNCHANGED <<mix, agent, file, rpc, held, cb, con, stream>> /\ Goto(c, "done")
  BY DEF CreateRelease, host
<1>2. \A v \in Volumes : \/ vol'[v] = vol[v]
                         \/ v \in held[c] /\ vol[v].st = "attaching" /\ vol'[v].st = "detached" /\ vol'[v].owner = None
  BY <1>0, Released DEF CreateRelease
<1>3. OwnInv'
  BY <1>1, <1>2, Relied, SMT, SMTT(20) DEF VInv, OwnInv
<1>4. \A s \in Sandboxes : \A v \in Volumes :
         vol[v].owner = s /\ vol[v].st \in {"attaching", "attached"} =>
             vol'[v].owner = s /\ vol'[v].st \in {"attaching", "attached"}
  BY <1>0, <1>2, Relied
<1>5. \A v \in Volumes : vol'[v] = vol[v] \/ \A d \in mix.calls \ {c} : Reserving(d) => v \notin held[d]
  BY <1>0, <1>2 DEF VInv, ReserveInv
<1>6. \A d \in mix.calls : Op(d) = "delete" /\ rpc[d] \in {"sent", "lost"} => vol'[Box(d)] = vol[Box(d)]
  BY <1>0, <1>2, Relied, CallShape DEF BoxOps
<1>7. "done" \in Points
  BY DEF Points
<1> QED
  BY <1>0, <1>1, <1>3, <1>4, <1>5, <1>6, <1>7, VolumesMoved

LEMMA CreateFreeHolds ==
    ASSUME TInv, VInv, NEW c \in mix.calls, CreateFree(c)
    PROVE  VInv'
<1>0. TypeOK /\ pc[c] = "free" /\ Op(c) = "create"
  BY DEF TInv, PointInv, CreateFree, At
<1>1. UNCHANGED <<mix, agent, file, rpc, held, cb, con, stream>> /\ Goto(c, "fail")
  BY DEF CreateFree, host
<1>2. \A v \in Volumes : \/ vol'[v] = vol[v]
                         \/ v \in held[c] /\ vol[v].st = "attaching" /\ vol'[v].st = "detached" /\ vol'[v].owner = None
  BY <1>0, Released DEF CreateFree
<1>3. OwnInv'
  BY <1>1, <1>2, Relied, SMT, SMTT(20) DEF VInv, OwnInv
<1>4. Box(c) \in Sandboxes /\ c = <<"create", Box(c)>> /\ "fail" \in Points
  BY <1>0, CallShape DEF Points
<1>5. \A v \in held[c] : v \in mix.wants[Box(c)] /\ vol[v].owner = Box(c)
  <2>1. held[c] = mix.wants[Box(c)]
    BY <1>0 DEF VInv, ReserveInv, Whole
  <2>2. Needs(Box(c))
    BY <1>0, <1>4 DEF Needs
  <2> QED
    BY <1>4, <2>1, <2>2, Relied
<1>6. mix.wants[Box(c)] # {} => ~ Needs(Box(c))'
  <2>1. Moved(c, "fail")
    BY <1>0, <1>1, <1>4, Moves DEF Moved
  <2>2. mix.wants[Box(c)] # {} => ~Alive(Box(c)) /\ ~Pends(Box(c))
    BY <1>0 DEF VInv, BootInv
  <2> QED
    BY <1>1, <1>4, <2>1, <2>2 DEF Needs, Alive, Pends, Moved
<1>7. \A s \in Sandboxes : \A v \in Volumes :
         Needs(s)' /\ vol[v].owner = s /\ vol[v].st \in {"attaching", "attached"} =>
             vol'[v].owner = s /\ vol'[v].st \in {"attaching", "attached"}
  BY <1>2, <1>5, <1>6
<1>8. \A v \in Volumes : vol'[v] = vol[v] \/ \A d \in mix.calls \ {c} : Reserving(d) => v \notin held[d]
  BY <1>2, <1>4, <1>5, Relied, SMT, SMTT(20)
<1>9. \A d \in mix.calls : Op(d) = "delete" /\ rpc[d] \in {"sent", "lost"} => vol'[Box(d)] = vol[Box(d)]
  BY <1>0, <1>2, Relied, CallShape DEF BoxOps
<1> QED
  BY <1>0, <1>1, <1>3, <1>4, <1>7, <1>8, <1>9, VolumesMoved

LEMMA CreateAttachHolds ==
    ASSUME TInv, VInv, NEW c \in mix.calls, CreateAttach(c)
    PROVE  VInv'
<1>0. TypeOK /\ pc[c] = "wait" /\ Op(c) = "create"
  BY SMT, SMTT(20) DEF TInv, CreateAttach, Succeeded, At
<1>1. UNCHANGED <<mix, agent, file, rpc, held, cb, con, stream>> /\ Goto(c, "run")
  BY DEF CreateAttach, host
<1>2. Box(c) \in Sandboxes /\ c = <<"create", Box(c)>> /\ "run" \in Points
  BY <1>0, CallShape DEF Points
<1>3. \A v \in Volumes : \/ vol'[v] = vol[v]
                         \/ v \in held[c] /\ vol[v].st = "attaching" /\ vol'[v].st = "attached" /\ vol'[v].owner = Box(c)
  BY <1>0, <1>2, AttachedTo DEF CreateAttach
<1>4. \A v \in held[c] : v \in mix.wants[Box(c)] /\ vol[v].owner = Box(c)
  <2>1. held[c] = mix.wants[Box(c)]
    BY <1>0 DEF VInv, ReserveInv, Whole
  <2>2. Needs(Box(c))
    BY <1>0, <1>2 DEF Needs
  <2> QED
    BY <1>2, <2>1, <2>2, Relied
<1>5. OwnInv'
  BY <1>1, <1>2, <1>3, <1>4 DEF VInv, OwnInv
<1>6. \A s \in Sandboxes : \A v \in Volumes :
         vol[v].owner = s /\ vol[v].st \in {"attaching", "attached"} =>
             vol'[v].owner = s /\ vol'[v].st \in {"attaching", "attached"}
  BY <1>3, <1>4
<1>7. \A v \in Volumes : vol'[v] = vol[v] \/ \A d \in mix.calls \ {c} : Reserving(d) => v \notin held[d]
  BY <1>2, <1>3, <1>4, Relied, SMT, SMTT(20)
<1>8. \A d \in mix.calls : Op(d) = "delete" /\ rpc[d] \in {"sent", "lost"} => vol'[Box(d)] = vol[Box(d)]
  BY <1>0, <1>3, Relied, CallShape DEF BoxOps
<1> QED
  BY <1>0, <1>1, <1>2, <1>5, <1>6, <1>7, <1>8, VolumesMoved

(* Volumes are detached from a capsule that is gone, or that owns none.     *)
LEMMA DetachedGone ==
    ASSUME TInv, VInv, NEW s \in Sandboxes, mix.wants[s] # {} => Gone(s), vol' = DetachVolumesBySandbox(s), UNCHANGED mix
    PROVE  /\ OwnInv'
           /\ \A t \in Sandboxes : \A v \in Volumes :
                 ~Gone(t) /\ vol[v].owner = t /\ vol[v].st \in {"attaching", "attached"} =>
                     vol'[v].owner = t /\ vol'[v].st \in {"attaching", "attached"}
           /\ \A v \in Volumes : vol'[v] = vol[v] \/ \A d \in mix.calls : Reserving(d) => v \notin held[d]
           /\ \A d \in mix.calls : Op(d) = "delete" /\ rpc[d] \in {"sent", "lost"} => vol'[Box(d)] = vol[Box(d)]
<1>0. TypeOK
  BY DEF TInv
<1>1. \A v \in Volumes : \/ vol'[v] = vol[v]
                         \/ vol[v].owner = s /\ vol'[v].st = "detached" /\ vol'[v].owner = None
  BY <1>0, Detached, SMT, SMTT(20) DEF DetachVolumesBySandbox
<1>2. OwnInv'
  BY <1>1, Relied, SMT, SMTT(20) DEF VInv, OwnInv
<1>3. \A v \in Volumes : vol[v].owner = s => Gone(s)
  BY DEF VInv, OwnInv
<1>4. \A t \in Sandboxes : \A v \in Volumes :
         ~Gone(t) /\ vol[v].owner = t /\ vol[v].st \in {"attaching", "attached"} =>
             vol'[v].owner = t /\ vol'[v].st \in {"attaching", "attached"}
  BY <1>1, <1>3
<1>5. \A v \in Volumes : vol'[v] = vol[v] \/ \A d \in mix.calls : Reserving(d) => v \notin held[d]
  BY <1>1, Relied, SMT, SMTT(20)
<1>6. \A d \in mix.calls : Op(d) = "delete" /\ rpc[d] \in {"sent", "lost"} => vol'[Box(d)] = vol[Box(d)]
  <2>1. \A d \in mix.calls : Op(d) = "delete" => Box(d) \in Volumes
    BY <1>0, CallShape DEF BoxOps
  <2> QED
    BY <1>1, <2>1, Relied, SMT, SMTT(20)
<1> QED
  BY <1>2, <1>4, <1>5, <1>6

LEMMA GoneNeedless == ASSUME NEW s \in Sandboxes, Gone(s) PROVE ~Needs(s)
  BY DEF Gone, Needs

LEMMA DestroyDetachHolds ==
    ASSUME TInv, VInv, NEW c \in mix.calls, DestroyDetach(c)
    PROVE  VInv'
<1>0. TypeOK /\ pc[c] = "wait" /\ rpc[c] = "ok" /\ Op(c) = "destroy"
  BY DEF TInv, DestroyDetach, Succeeded, At
<1>1. UNCHANGED <<mix, agent, file, rpc, held, cb, con, stream>> /\ Goto(c, "stop")
  BY DEF DestroyDetach, host
<1>2. Box(c) \in Sandboxes /\ c = <<"destroy", Box(c)>> /\ "stop" \in Points
  BY <1>0, CallShape DEF Points
<1>3. mix.wants[Box(c)] # {} => Gone(Box(c))
  BY <1>0, <1>2 DEF VInv, EndInv, Told
<1>4. Moved(c, "stop")
  BY <1>0, <1>1, <1>2, Moves DEF Moved
<1>5. \A s \in Sandboxes : Needs(s)' => ~Gone(s)
  BY <1>0, <1>1, <1>4, NeedsKept, GoneNeedless
<1>6. /\ OwnInv'
      /\ \A s \in Sandboxes : \A v \in Volumes :
            Needs(s)' /\ vol[v].owner = s /\ vol[v].st \in {"attaching", "attached"} =>
                vol'[v].owner = s /\ vol'[v].st \in {"attaching", "attached"}
      /\ \A v \in Volumes : vol'[v] = vol[v] \/ \A d \in mix.calls \ {c} : Reserving(d) => v \notin held[d]
      /\ \A d \in mix.calls : Op(d) = "delete" /\ rpc[d] \in {"sent", "lost"} => vol'[Box(d)] = vol[Box(d)]
  BY <1>1, <1>2, <1>3, <1>5, DetachedGone DEF DestroyDetach
<1> QED
  BY <1>0, <1>1, <1>2, <1>3, <1>6, VolumesMoved

LEMMA DeleteEndsHold ==
    ASSUME TInv, VInv, NEW c \in mix.calls, DeleteAbort(c) \/ DeleteDrop(c)
    PROVE  VInv'
<1>0. TypeOK /\ pc[c] \in {"abort", "drop"} /\ Op(c) = "delete"
  BY DEF TInv, PointInv, DeleteAbort, DeleteDrop, At
<1>1. UNCHANGED <<mix, agent, file, rpc, held, cb, con, stream>> /\ Goto(c, "done")
  BY DEF DeleteAbort, DeleteDrop, host
<1>2. Box(c) \in Volumes /\ c = <<"delete", Box(c)>> /\ "done" \in Points
  BY <1>0, CallShape DEF BoxOps, Points
<1>3. \A v \in Volumes : \/ vol'[v] = vol[v]
                         \/ /\ v = Box(c) /\ vol[v].st = "deleting"
                            /\ vol'[v].st \in {"detached", "gone"} /\ vol'[v].owner = vol[v].owner
  BY <1>0, <1>2, VolumeSet DEF DeleteAbort, DeleteDrop, AbortVolumeDelete, DeleteVolumeRow
<1>4. OwnInv'
  BY <1>1, <1>3 DEF VInv, OwnInv
<1>5. \A s \in Sandboxes : \A v \in Volumes :
         vol[v].owner = s /\ vol[v].st \in {"attaching", "attached"} =>
             vol'[v].owner = s /\ vol'[v].st \in {"attaching", "attached"}
  BY <1>3
<1>6. \A v \in Volumes : vol'[v] = vol[v] \/ \A d \in mix.calls \ {c} : Reserving(d) => v \notin held[d]
  BY <1>3, Relied
<1>7. \A d \in mix.calls : Op(d) = "delete" /\ rpc[d] \in {"sent", "lost"} => vol'[Box(d)] = vol[Box(d)]
  <2>1. rpc[c] \notin {"sent", "lost"}
    BY <1>0 DEF VInv, DeleteInv
  <2>2. \A d \in mix.calls : Op(d) = "delete" => d = <<"delete", Box(d)>> /\ Box(d) \in Volumes
    BY <1>0, CallShape DEF BoxOps
  <2> QED
    BY <1>2, <1>3, <2>1, <2>2
<1> QED
  BY <1>0, <1>1, <1>2, <1>4, <1>5, <1>6, <1>7, VolumesMoved

LEMMA CreateReserveHolds ==
    ASSUME TInv, VInv, NEW c \in mix.calls, CreateReserve(c)
    PROVE  VInv'
<1>0. TypeOK /\ pc[c] = "reserve" /\ Op(c) = "create"
  BY DEF TInv, PointInv, CreateReserve, At
<1>1. Box(c) \in Sandboxes /\ mix.wants[Box(c)] \subseteq Volumes
  BY <1>0, CallShape DEF BoxOps, Ops
<1>2. CASE UNCHANGED <<vol, held>> /\ (Goto(c, "insert") \/ Goto(c, "release"))
  BY <1>2, QuietHolds
<1>3. ASSUME NEW w \in mix.wants[Box(c)] \ held[c], ReserveVolumeForAttach(w), held' = [held EXCEPT ![c] = @ \cup {w}],
             UNCHANGED pc
      PROVE  VInv'
  <2>1. UNCHANGED <<mix, agent, file, rpc, cb, con, stream, pc>>
    BY <1>3 DEF CreateReserve, host
  <2>2. /\ w \in Volumes /\ vol[w].st = "detached" /\ vol'[w].st = "attaching" /\ vol'[w].owner = vol[w].owner
        /\ \A v \in Volumes \ {w} : vol'[v] = vol[v]
    BY <1>0, <1>1, <1>3, VolumeSet DEF ReserveVolumeForAttach
  <2>3. vol[w].owner = None
    BY <2>2 DEF VInv, OwnInv
  <2>4. held'[c] = held[c] \cup {w} /\ \A d \in mix.calls \ {c} : held'[d] = held[d]
    BY <1>0, <1>3 DEF TypeOK
  <2>5. OwnInv'
    BY <2>1, <2>2, <2>3, Relied, SMT, SMTT(20) DEF VInv, OwnInv
  <2>6. \A s \in Sandboxes : (Alive(s)' <=> Alive(s)) /\ (Pends(s)' <=> Pends(s)) /\ (Needs(s)' <=> Needs(s)) /\ (Gone(s)' <=> Gone(s))
                             /\ (Told(s)' <=> Told(s))
    BY <2>1 DEF Alive, Pends, Needs, Gone, Told, InStream
  <2>7. HoldInv'
    <3>1. mix.wants \in [Sandboxes -> SUBSET Volumes]
      BY <1>0, MixTyped
    <3>2. \A s \in Sandboxes : \A v \in Volumes :
               Needs(s)' /\ vol[v].owner = s /\ vol[v].st \in {"attaching", "attached"} =>
                   vol'[v].owner = s /\ vol'[v].st \in {"attaching", "attached"}
      BY <2>2
    <3> QED
      BY <2>1, <2>6, <3>1, <3>2, HoldKept DEF VInv
  <2>8. ReserveInv'
    <3>1. \A d \in mix.calls : (Reserving(d)' <=> Reserving(d)) /\ (Whole(d, pc[d])' <=> Whole(d, pc[d])) /\ pc'[d] = pc[d]
      BY <2>1 DEF Reserving, Whole
    <3>2. Reserving(c) /\ ~ Whole(c, pc[c]) /\ pc[c] # "idle"
      BY <1>0 DEF Reserving, Whole
    <3>3. \A d \in mix.calls : Reserving(d) => w \notin held[d]
      BY <2>2, Relied
    <3>4. ASSUME NEW d \in mix.calls, Reserving(d)
          PROVE  /\ rpc'[d] = "none" /\ held'[d] \subseteq mix.wants[Box(d)]
                 /\ \A v \in held'[d] : vol'[v].st = "attaching" /\ vol'[v].owner = None
      <4>1. /\ rpc[d] = "none" /\ held[d] \subseteq mix.wants[Box(d)]
            /\ \A v \in held[d] : v \in Volumes /\ vol[v].st = "attaching" /\ vol[v].owner = None
        BY <3>4, Relied, SMT, SMTT(20) DEF VInv, ReserveInv
      <4> QED
        BY <2>1, <2>2, <2>3, <2>4, <3>3, <3>4, <4>1, SMT, SMTT(20)
    <3>5. ASSUME NEW d \in mix.calls, Reserving(d), NEW e \in mix.calls \ {d}, Reserving(e)
          PROVE  held'[d] \cap held'[e] = {}
      <4>1. held[d] \cap held[e] = {}
        BY <3>5 DEF VInv, ReserveInv
      <4> QED
        BY <2>4, <3>3, <3>5, <4>1
    <3>6. \A d \in mix.calls : /\ pc'[d] = "idle" => rpc'[d] = "none" /\ held'[d] = {}
                               /\ Whole(d, pc[d])' => held'[d] = mix.wants[Box(d)]
      BY <2>1, <2>4, <3>1, <3>2 DEF VInv, ReserveInv
    <3>7. ASSUME NEW d \in mix.calls, Reserving(d)'
          PROVE  \A e \in mix.calls \ {d} : Reserving(e)' => held'[d] \cap held'[e] = {}
      BY <3>1, <3>5, <3>7
    <3> QED
      BY <2>1, <3>1, <3>4, <3>6, <3>7 DEF ReserveInv
  <2>9. BootInv' /\ EndInv'
    <3>1. BootInv'
      <4>1. \A d \in mix.calls : Op(d) = "create" => Box(d) \in Sandboxes
        BY <1>0, CallShape
      <4> QED
        BY <2>1, <2>6, <4>1 DEF VInv, BootInv
    <3> QED
      BY <2>1, <2>6, <3>1 DEF VInv, EndInv
  <2>10. DeleteInv'
    <3>1. \A d \in mix.calls : Op(d) = "delete" => Box(d) \in Volumes
      BY <1>0, CallShape DEF BoxOps
    <3> QED
      BY <2>1, <2>2, <3>1 DEF VInv, DeleteInv
  <2> QED
    BY <2>5, <2>7, <2>8, <2>9, <2>10 DEF VInv
<1> QED
  BY <1>2, <1>3 DEF CreateReserve

LEMMA CreateLinkHolds ==
    ASSUME TInv, VInv, NEW c \in mix.calls, CreateLink(c)
    PROVE  VInv'
<1>0. TypeOK /\ pc[c] = "link" /\ Op(c) = "create" /\ Reserving(c)
  BY SMT, SMTT(20) DEF TInv, PointInv, CreateLink, At, Reserving
<1>1. UNCHANGED <<mix, agent, file, held, cb, con, stream>>
  BY DEF CreateLink, host
<1>2. Box(c) \in Sandboxes /\ c = <<"create", Box(c)>> /\ mix.wants[Box(c)] \subseteq Volumes /\ "wait" \in Points
  BY <1>0, CallShape DEF BoxOps, Ops, Points
<1>3. Moved(c, "wait")
  BY <1>0, <1>2, Moves DEF CreateLink, Moved
<1>4. rpc'[c] = "sent" /\ \A d \in mix.calls \ {c} : rpc'[d] = rpc[d]
  BY <1>0 DEF CreateLink, Send, TypeOK
<1>5. /\ held[c] = mix.wants[Box(c)]
      /\ \A v \in held[c] : v \in Volumes /\ vol[v].st = "attaching" /\ vol[v].owner = None
      /\ \A d \in mix.calls \ {c} : Reserving(d) => held[c] \cap held[d] = {}
  BY <1>0, Relied DEF VInv, ReserveInv, Whole
<1>6. \A v \in Volumes : IF v \in held[c] THEN vol'[v].st = "attaching" /\ vol'[v].owner = Box(c) ELSE vol'[v] = vol[v]
  BY <1>0, <1>2, <1>5, LinkedTo, SMT, SMTT(20) DEF CreateLink
<1>7. OwnInv'
  <2> SUFFICES ASSUME NEW v \in Volumes
               PROVE  /\ vol'[v].st \notin {"attaching", "attached"} => vol'[v].owner = None
                      /\ \A s \in Sandboxes : vol'[v].owner = s => v \in mix.wants[s]
    BY <1>1 DEF OwnInv
  <2>1. CASE v \in held[c]
    BY <1>5, <1>6, <2>1
  <2>2. CASE v \notin held[c]
    BY <1>6, <2>2 DEF VInv, OwnInv
  <2> QED
    BY <2>1, <2>2
<1>8. \A d \in mix.calls : Op(d) = "create" /\ d # c => d = <<"create", Box(d)>> /\ Box(d) # Box(c)
  BY <1>0, <1>2, CallShape
<1>9. \A s \in Sandboxes \ {Box(c)} : (Pends(s)' <=> Pends(s)) /\ (Needs(s)' <=> Needs(s)) /\ (Gone(s) => Gone(s)')
  BY <1>1, <1>2, <1>3, <1>4, SMT, SMTT(20) DEF Pends, Needs, Alive, Gone, Moved
<1>10. ~Gone(Box(c)) /\ \A s \in Sandboxes : (Alive(s)' <=> Alive(s)) /\ (Told(s)' => Told(s))
  BY <1>0, <1>1, <1>2, <1>3, <1>4, SMT, SMTT(20) DEF Gone, Alive, Told, InStream, Moved
<1>11. HoldInv'
  <2> SUFFICES ASSUME NEW s \in Sandboxes
               PROVE  (Needs(s)' => Secure(s)') /\ (Alive(s)' => \A v \in mix.wants[s] : file'[v])
    BY <1>1 DEF HoldInv
  <2>1. Alive(s)' => \A v \in mix.wants[s] : file'[v]
    BY <1>1, <1>10 DEF VInv, HoldInv
  <2>2. CASE s = Box(c)
    BY <1>1, <1>2, <1>5, <1>6, <2>1, <2>2 DEF Secure
  <2>3. CASE s # Box(c)
    <3>1. mix.wants[s] \subseteq Volumes
      BY <1>0, MixTyped
    <3>2. Needs(s) => \A v \in mix.wants[s] : vol'[v] = vol[v]
      <4>1. Needs(s) => \A v \in mix.wants[s] : vol[v].owner = s
        BY <1>0, Relied
      <4>2. Needs(s) => \A v \in mix.wants[s] : v \notin held[c]
        BY <1>5, <4>1, ControlPlaneAssumption
      <4> QED
        BY <1>6, <3>1, <4>2
    <3> QED
      BY <1>1, <1>9, <2>1, <2>3, <3>2 DEF VInv, HoldInv, Secure
  <2> QED
    BY <2>2, <2>3
<1>12. ReserveInv'
  <2>1. ~Reserving(c)' /\ pc'[c] # "idle" /\ \A d \in mix.calls \ {c} : (Reserving(d)' <=> Reserving(d)) /\ pc'[d] = pc[d]
    BY <1>3 DEF Moved, Reserving
  <2>2. \A d \in mix.calls \ {c} : Reserving(d) => \A v \in held[d] : vol'[v] = vol[v]
    BY <1>5, <1>6, Relied
  <2>3. ASSUME NEW d \in mix.calls \ {c}
        PROVE  /\ pc'[d] = "idle" => rpc'[d] = "none" /\ held'[d] = {}
               /\ Reserving(d)' => /\ rpc'[d] = "none" /\ held'[d] \subseteq mix.wants[Box(d)]
                                   /\ \A v \in held'[d] : vol'[v].st = "attaching" /\ vol'[v].owner = None
                                   /\ \A e \in mix.calls \ {d} : Reserving(e)' => held'[d] \cap held'[e] = {}
               /\ Whole(d, pc[d])' => held'[d] = mix.wants[Box(d)]
    BY <1>1, <1>4, <2>1, <2>2, SMT, SMTT(20) DEF VInv, ReserveInv, Whole
  <2> QED
    BY <1>1, <1>5, <2>1, <2>3, SMT, SMTT(20) DEF ReserveInv
<1>13. BootInv'
  <2>1. \A d \in mix.calls : Op(d) = "create" => Box(d) \in Sandboxes
    BY <1>0, CallShape, SMT, SMTT(20)
  <2> QED
    BY <1>1, <1>3, <1>8, <1>9, <1>10, <2>1, SMT, SMTT(20) DEF VInv, BootInv, Moved
<1>14. EndInv'
  BY <1>1, <1>9, <1>10 DEF VInv, EndInv
<1>15. DeleteInv'
  <2>1. \A d \in mix.calls : Op(d) = "delete" => Box(d) \in Volumes /\ d # c
    BY <1>0, CallShape DEF BoxOps
  <2>2. \A d \in mix.calls : Op(d) = "delete" /\ rpc[d] \in {"sent", "lost"} => vol'[Box(d)] = vol[Box(d)]
    BY <1>5, <1>6, <2>1, Relied
  <2> QED
    BY <1>1, <1>3, <1>4, <2>1, <2>2 DEF VInv, DeleteInv, Moved
<1> QED
  BY <1>7, <1>11, <1>12, <1>13, <1>14, <1>15 DEF VInv

(* A request that is not a create's.                                        *)
LEMMA RequestSent ==
    ASSUME TInv, VInv, NEW c \in mix.calls, Op(c) # "create", pc[c] \in {"idle", "mark"}, Goto(c, "wait"), Send(c),
           UNCHANGED <<mix, agent, file, held, cb, con, stream>>,
           \A v \in Volumes : \/ vol'[v] = vol[v]
                              \/ /\ vol[v].st \in {"detached", "deleting"}
                                 /\ vol'[v].st = "deleting" /\ vol'[v].owner = vol[v].owner,
           Op(c) = "delete" => vol'[Box(c)].st = "deleting"
    PROVE  VInv'
<1>0. TypeOK /\ "wait" \in Points
  BY SMT, SMTT(20) DEF TInv, Points
<1>1. Moved(c, "wait")
  BY <1>0, Moves DEF Moved
<1>2. rpc'[c] = "sent" /\ \A d \in mix.calls \ {c} : rpc'[d] = rpc[d]
  BY <1>0 DEF Send, TypeOK
<1>3. \A d \in mix.calls : d = <<Op(d), Box(d)>>
  BY <1>0, CallShape
<1>4. \A s \in Sandboxes : <<"create", s>> \in mix.calls =>
         pc'[<<"create", s>>] = pc[<<"create", s>>] /\ rpc'[<<"create", s>>] = rpc[<<"create", s>>]
  BY <1>1, <1>2, SMT, SMTT(20) DEF Moved, Op
<1>5. \A s \in Sandboxes : /\ (Alive(s)' <=> Alive(s)) /\ (Pends(s)' <=> Pends(s)) /\ (Needs(s)' <=> Needs(s))
                           /\ (Gone(s)' <=> Gone(s)) /\ (Told(s)' => Told(s))
  <2>1. \A s \in Sandboxes : (Alive(s)' <=> Alive(s)) /\ (Pends(s)' <=> Pends(s))
    BY <1>4 DEF Alive, Pends
  <2>2. \A s \in Sandboxes : (Needs(s)' <=> Needs(s)) /\ (Gone(s)' <=> Gone(s))
    BY <1>4, <2>1 DEF Needs, Gone
  <2>3. \A s \in Sandboxes : Told(s)' => Told(s)
    BY <1>1, <1>2 DEF Told, InStream, Moved
  <2> QED
    BY <2>1, <2>2, <2>3
<1>6. HoldInv'
  <2>1. mix.wants \in [Sandboxes -> SUBSET Volumes]
    BY <1>0, MixTyped
  <2>2. \A s \in Sandboxes : \A v \in Volumes :
             vol[v].owner = s /\ vol[v].st \in {"attaching", "attached"} =>
                 vol'[v].owner = s /\ vol'[v].st \in {"attaching", "attached"}
    OBVIOUS
  <2> QED
    BY <1>5, <2>1, <2>2, HoldKept DEF VInv
<1>7. OwnInv'
  BY DEF VInv, OwnInv
<1>8. ReserveInv'
  <2>1. ~Reserving(c)' /\ pc'[c] # "idle" /\ \A d \in mix.calls \ {c} : (Reserving(d)' <=> Reserving(d)) /\ pc'[d] = pc[d]
    BY <1>1 DEF Moved, Reserving
  <2>2. \A d \in mix.calls \ {c} : Reserving(d) => \A v \in held[d] : vol'[v] = vol[v]
    BY Relied
  <2>3. ASSUME NEW d \in mix.calls \ {c}
        PROVE  /\ pc'[d] = "idle" => rpc'[d] = "none" /\ held'[d] = {}
               /\ Reserving(d)' => /\ rpc'[d] = "none" /\ held'[d] \subseteq mix.wants[Box(d)]
                                   /\ \A v \in held'[d] : vol'[v].st = "attaching" /\ vol'[v].owner = None
                                   /\ \A e \in mix.calls \ {d} : Reserving(e)' => held'[d] \cap held'[e] = {}
               /\ Whole(d, pc[d])' => held'[d] = mix.wants[Box(d)]
    BY <1>2, <2>1, <2>2, SMT, SMTT(20) DEF VInv, ReserveInv, Whole
  <2>4. ~ Whole(c, pc[c])'
    BY <1>1 DEF Whole, Moved
  <2> QED
    BY <2>1, <2>3, <2>4 DEF ReserveInv
<1>9. BootInv'
  <2>1. \A d \in mix.calls : Op(d) = "create" => Box(d) \in Sandboxes
    BY <1>0, CallShape
  <2> QED
    BY <1>1, <1>5, <2>1 DEF VInv, BootInv, Moved
<1>10. EndInv'
  BY <1>5 DEF VInv, EndInv
<1>11. DeleteInv'
  <2>1. \A d \in mix.calls : Op(d) = "delete" => Box(d) \in Volumes
    BY <1>0, CallShape DEF BoxOps
  <2>2. \A d \in mix.calls : Op(d) = "delete" /\ rpc[d] \in {"sent", "lost"} => vol'[Box(d)].st = "deleting"
    <3>1. \A d \in mix.calls : Op(d) = "delete" /\ rpc[d] \in {"sent", "lost"} => vol[Box(d)].st = "deleting"
      BY <1>0, Relied
    <3> QED
      BY <2>1, <3>1
  <2> QED
    BY <1>1, <1>2, <2>1, <2>2 DEF VInv, DeleteInv, Moved
<1> QED
  BY <1>6, <1>7, <1>8, <1>9, <1>10, <1>11 DEF VInv

LEMMA BeginHolds ==
    ASSUME TInv, VInv, NEW c \in mix.calls, Begin(c)
    PROVE  VInv'
<1>0. TypeOK /\ pc[c] = "idle" /\ Op(c) \in {"pause", "resume", "snapshot"}
  BY Transitions DEF TInv, Begin, At
<1>1. UNCHANGED <<mix, vol, agent, file, held, cb, con, stream>>
  BY DEF Begin, host
<1>2. CASE Send(c) /\ Goto(c, "wait")
  BY <1>0, <1>1, <1>2, RequestSent
<1>3. CASE UNCHANGED rpc /\ (Goto(c, "undo") \/ Goto(c, "done"))
  <2>1. PICK p \in {"undo", "done"} : Goto(c, p)
    BY <1>3
  <2>2. p \in Points /\ ~ Whole(c, p)
    BY DEF Points, Whole
  <2> QED
    BY <1>0, <1>1, <1>3, <2>1, <2>2, StreamSame, PointMoved
<1> QED
  BY <1>2, <1>3 DEF Begin

LEMMA DestroyMarkHolds ==
    ASSUME TInv, VInv, NEW c \in mix.calls, DestroyMark(c)
    PROVE  VInv'
<1>1. pc[c] = "mark" /\ Op(c) = "destroy"
  BY DEF TInv, PointInv, DestroyMark, At
<1> QED
  BY <1>1, RequestSent DEF DestroyMark, host

LEMMA DeleteBeginHolds ==
    ASSUME TInv, VInv, NEW c \in mix.calls, DeleteBegin(c)
    PROVE  VInv'
<1>0. TypeOK /\ pc[c] = "idle" /\ Op(c) = "delete"
  BY DEF TInv, DeleteBegin, At
<1>1. UNCHANGED <<mix, agent, file, held, cb, con, stream>>
  BY DEF DeleteBegin, host
<1>2. Box(c) \in Volumes /\ c = <<"delete", Box(c)>>
  BY <1>0, CallShape DEF BoxOps
<1>3. rpc[c] = "none"
  BY <1>0 DEF VInv, ReserveInv
<1>4. CASE UNCHANGED <<vol, rpc>> /\ Goto(c, "done")
  <2>1. "done" \in Points /\ ~ Whole(c, "done")
    BY DEF Points, Whole
  <2> QED
    BY <1>0, <1>1, <1>4, <2>1, StreamSame, PointMoved
<1>5. CASE BeginVolumeDelete(Box(c)) /\ ((Send(c) /\ Goto(c, "wait")) \/ (UNCHANGED rpc /\ (Goto(c, "abort") \/ Goto(c, "drop"))))
  <2>1. /\ vol[Box(c)].st \in {"detached", "deleting"} /\ vol'[Box(c)].st = "deleting" /\ vol'[Box(c)].owner = vol[Box(c)].owner
        /\ \A v \in Volumes \ {Box(c)} : vol'[v] = vol[v]
    BY <1>0, <1>2, <1>5, VolumeSet DEF BeginVolumeDelete
  <2>2. CASE Send(c) /\ Goto(c, "wait")
    BY <1>0, <1>1, <1>2, <2>1, <2>2, RequestSent
  <2>3. ASSUME NEW p \in {"abort", "drop"}, UNCHANGED rpc, Goto(c, p)
        PROVE  VInv'
    <3>1. Moved(c, p)
      BY <1>0, <2>3, Moves DEF Moved, Points
    <3>2. HoldInv'
      <4>1. mix.wants \in [Sandboxes -> SUBSET Volumes]
        BY <1>0, MixTyped
      <4>2. \A s \in Sandboxes : \A v \in Volumes :
               vol[v].owner = s /\ vol[v].st \in {"attaching", "attached"} =>
                   vol'[v].owner = s /\ vol'[v].st \in {"attaching", "attached"}
        BY <2>1
      <4>3. \A s \in Sandboxes : (Alive(s)' => Alive(s)) /\ (Needs(s)' => Needs(s))
        BY <1>0, <1>1, <2>3, <3>1, NeedsKept
      <4> QED
        BY <1>1, <4>1, <4>2, <4>3, HoldKept DEF VInv
    <3>3. OwnInv'
      BY <1>1, <2>1 DEF VInv, OwnInv
    <3>4. ReserveInv'
      <4>1. \A v \in Volumes : vol'[v] = vol[v] \/ \A d \in mix.calls \ {c} : Reserving(d) => v \notin held[d]
        BY <2>1, Relied
      <4>2. ~ Whole(c, p) /\ p \notin {"idle", "reserve", "release", "insert", "link"}
        BY DEF Whole
      <4>3. held \in [mix.calls -> SUBSET Volumes] /\ ReserveInv
        BY <1>0 DEF TypeOK, VInv
      <4> QED
        BY <1>1, <2>3, <3>1, <4>1, <4>2, <4>3, ReserveKept
    <3>5. BootInv'
      BY <1>0, <1>1, <2>3, <3>1, BootKept DEF VInv
    <3>6. EndInv'
      BY <1>0, <1>1, <2>3, <3>1, EndKept, StreamSame DEF VInv
    <3>7. DeleteInv'
      <4>1. \A d \in mix.calls : Op(d) = "delete" => Box(d) \in Volumes /\ d = <<"delete", Box(d)>>
        BY <1>0, CallShape DEF BoxOps
      <4>2. \A d \in mix.calls : Op(d) = "delete" /\ rpc[d] \in {"sent", "lost"} => vol'[Box(d)] = vol[Box(d)]
        BY <1>2, <1>3, <2>1, <4>1
      <4> QED
        BY <1>1, <1>3, <2>3, <3>1, <4>2, DeleteKept DEF VInv
    <3> QED
      BY <3>2, <3>3, <3>4, <3>5, <3>6, <3>7 DEF VInv
  <2> QED
    BY <1>5, <2>2, <2>3
<1> QED
  BY <1>4, <1>5 DEF DeleteBegin

-----------------------------------------------------------------------------
(* So does every step that writes no volume and reserves none: the agent's, *)
(* the callbacks', a crash and an outage.                                   *)

LEMMA Unwritten ==
    ASSUME TInv, VInv, mix'.calls = mix.calls, mix'.wants = mix.wants, UNCHANGED <<vol, held>>,
           \A c \in mix.calls :
               \/ pc'[c] = pc[c] \/ pc'[c] = "done"
               \/ /\ Op(c) = "create" /\ pc[c] = "confirm" /\ pc'[c] = "free"
                  /\ mix.wants[Box(c)] # {} => ~Alive(Box(c))' /\ ~Pends(Box(c))',
           \A s \in Sandboxes : Alive(s)' => (Alive(s) \/ Pends(s)) /\ \A v \in mix.wants[s] : file'[v],
           \A s \in Sandboxes : Pends(s)' => Pends(s),
           \A c \in mix.calls : /\ rpc[c] = "none" => rpc'[c] = "none"
                                /\ rpc'[c] \in {"sent", "lost"} => rpc[c] \in {"sent", "lost"},
           \A s \in Sandboxes : mix.wants[s] # {} /\ Told(s)' => Told(s) \/ Gone(s)'
    PROVE  VInv'
<1>0. TypeOK
  BY DEF TInv
<1>1. \A s \in Sandboxes : Needs(s)' => Needs(s)
  BY DEF Needs
<1>2. \A s \in Sandboxes : Gone(s) => Gone(s)'
  BY DEF Gone
<1>3. HoldInv'
  BY <1>1 DEF VInv, HoldInv, Secure
<1>4. OwnInv'
  BY DEF VInv, OwnInv
<1>5. ReserveInv'
  <2>1. \A c \in mix.calls : (Reserving(c)' => Reserving(c)) /\ (Whole(c, pc[c])' => Whole(c, pc[c])) /\ (pc'[c] = "idle" => pc[c] = "idle")
    BY DEF Reserving, Whole
  <2> QED
    BY <2>1, SMT, SMTT(20) DEF VInv, ReserveInv
<1>6. BootInv'
  <2>1. \A c \in mix.calls : Op(c) = "create" => Box(c) \in Sandboxes
    BY <1>0, CallShape
  <2> QED
    BY <2>1 DEF VInv, BootInv
<1>7. EndInv'
  BY <1>2 DEF VInv, EndInv
<1>8. DeleteInv'
  BY DEF VInv, DeleteInv
<1> QED
  BY <1>3, <1>4, <1>5, <1>6, <1>7, <1>8 DEF VInv

LEMMA FilesKept ==
    ASSUME VInv, file' = file, mix'.wants = mix.wants, NEW s \in Sandboxes, Alive(s)
    PROVE  \A v \in mix.wants[s] : file'[v]
  BY DEF VInv, HoldInv

(* An answer, or the loss of one, that leaves the capsule no more alive.    *)
LEMMA AnswerHolds ==
    ASSUME TInv, VInv, NEW c \in mix.calls, rpc[c] \in {"sent", "lost"}, rpc'[c] \in {"lost", "ok", "err"},
           \A d \in mix.calls \ {c} : rpc'[d] = rpc[d],
           UNCHANGED <<mix, vol, pc, held, cb, stream, con>>,
           \A s \in Sandboxes : Alive(s)' => Alive(s) /\ \A v \in mix.wants[s] : file'[v],
           Op(c) = "destroy" => rpc'[c] # "ok"
    PROVE  VInv'
<1>1. \A s \in Sandboxes : Pends(s)' => Pends(s)
  BY DEF Pends
<1>2. \A s \in Sandboxes : Told(s)' => Told(s)
  BY SMT, SMTT(20) DEF Told, InStream, Op
<1> QED
  BY <1>1, <1>2, Unwritten

LEMMA RefuseHolds ==
    ASSUME TInv, VInv, NEW c \in mix.calls, Refuse(c) \/ GiveUp(c)
    PROVE  VInv'
<1>0. TypeOK
  BY DEF TInv
<1>1. UNCHANGED <<mix, vol, agent, file, pc, held, cb, stream, con>> /\ rpc[c] \in {"sent", "lost"}
  BY DEF Refuse, GiveUp, db, host
<1>2. rpc'[c] \in {"lost", "err"} /\ \A d \in mix.calls \ {c} : rpc'[d] = rpc[d]
  BY <1>0, Answered DEF Refuse, GiveUp
<1>3. \A s \in Sandboxes : Alive(s)' => Alive(s) /\ \A v \in mix.wants[s] : file'[v]
  BY <1>1, FilesKept DEF Alive
<1> QED
  BY <1>1, <1>2, <1>3, AnswerHolds

LEMMA ServeCreateHolds ==
    ASSUME TInv, VInv, NEW c \in mix.calls, Serve(c), ServeCreate(c)
    PROVE  VInv'
<1>0. TypeOK /\ Op(c) = "create" /\ rpc[c] \in {"sent", "lost"}
  BY DEF TInv, ServeCreate, Serve
<1>1. UNCHANGED <<mix, vol, pc, held, cb, stream, con>>
  BY DEF Serve, db
<1>2. Box(c) \in Sandboxes /\ c = <<"create", Box(c)>> /\ mix.wants \in [Sandboxes -> SUBSET Volumes]
  BY <1>0, CallShape, MixTyped
<1>3. rpc'[c] \in {"ok", "err"} /\ \A d \in mix.calls \ {c} : rpc'[d] = rpc[d]
  BY <1>0, AnswersEnd DEF ServeCreate
<1>4. Pends(Box(c)) /\ \A s \in Sandboxes : Pends(s)' => Pends(s)
  BY <1>0, <1>1, <1>2, <1>3 DEF Pends
<1>5. agent'[Box(c)] = "running" /\ \A s \in Sandboxes \ {Box(c)} : agent'[s] = agent[s]
  BY <1>0, <1>2 DEF ServeCreate, TypeOK
<1>6. \A v \in Volumes : file[v] \/ v \in mix.wants[Box(c)] => file'[v]
  BY DEF ServeCreate
<1>7. ASSUME NEW s \in Sandboxes, Alive(s)'
      PROVE  (Alive(s) \/ Pends(s)) /\ \A v \in mix.wants[s] : file'[v]
  <2>1. CASE s = Box(c)
    BY <1>2, <1>4, <1>6, <2>1
  <2>2. CASE s # Box(c)
    BY <1>2, <1>5, <1>6, <1>7, <2>2 DEF VInv, HoldInv, Alive
  <2> QED
    BY <2>1, <2>2
<1>8. \A s \in Sandboxes : Told(s)' => Told(s)
  BY <1>0, <1>1, <1>3, SMT, SMTT(20) DEF Told, InStream, Op
<1> QED
  BY <1>0, <1>1, <1>3, <1>4, <1>7, <1>8, Unwritten

(* The host's destroy leaves a capsule with volumes neither alive nor about *)
(* to boot: no pause competes with it.                                      *)
LEMMA DestroyedGone ==
    ASSUME TypeOK, NEW s \in Sandboxes, AgentDestroys(s), mix' = mix,
           \A d \in mix.calls : d = <<"create", s>> => rpc'[d] = Cancelled(s)[d]
    PROVE  /\ ~Pends(s)'
           /\ <<"pause", s>> \notin mix.calls => ~Alive(s)'
           /\ \A t \in Sandboxes : Alive(t)' => Alive(t)
<1>1. ~Pends(s)'
  BY DEF Pends, Cancelled, Pending
<1>2. <<"pause", s>> \notin mix.calls => agent'[s] = "absent"
  BY Destroyed DEF Pending
<1>3. \A t \in Sandboxes : Alive(t)' => Alive(t)
  BY DEF AgentDestroys, Alive, TypeOK
<1> QED
  BY <1>1, <1>2, <1>3 DEF Alive

LEMMA ServeDestroyHolds ==
    ASSUME TInv, Undisturbed, VInv, NEW c \in mix.calls, Serve(c), ServeDestroy(c)
    PROVE  VInv'
<1>0. TypeOK /\ Op(c) = "destroy" /\ rpc[c] \in {"sent", "lost"}
  BY DEF TInv, ServeDestroy, Serve
<1>1. UNCHANGED <<mix, vol, pc, held, cb, stream, con, file>>
  BY DEF Serve, ServeDestroy, db
<1>2. Box(c) \in Sandboxes /\ c = <<"destroy", Box(c)>>
  BY <1>0, CallShape
<1>3. /\ rpc'[c] \in {"ok", "err"}
      /\ \A d \in mix.calls \ {c} : rpc'[d] = Cancelled(Box(c))[d]
  BY <1>0, <1>2, Destroyed DEF ServeDestroy
<1>4. \A d \in mix.calls : Cancelled(Box(c))[d] = rpc[d] \/ (rpc[d] \in {"sent", "lost"} /\ d = <<"create", Box(c)>> /\ Cancelled(Box(c))[d] = "err")
  BY DEF Cancelled, Pending
<1>5. /\ ~Pends(Box(c))' /\ (<<"pause", Box(c)>> \notin mix.calls => ~Alive(Box(c))')
      /\ \A s \in Sandboxes : Alive(s)' => Alive(s)
  BY <1>0, <1>1, <1>2, <1>3, DestroyedGone, SMT, SMTT(20) DEF ServeDestroy
<1>6. \A s \in Sandboxes : Pends(s)' => Pends(s)
  BY <1>1, <1>2, <1>3, <1>4 DEF Pends
<1>7. \A s \in Sandboxes : Alive(s)' => Alive(s) /\ \A v \in mix.wants[s] : file'[v]
  BY <1>1, <1>5, FilesKept
<1>8. mix.wants[Box(c)] # {} => Gone(Box(c))'
  BY <1>1, <1>2, <1>5 DEF Undisturbed, Gone
<1>9. \A s \in Sandboxes : mix.wants[s] # {} /\ Told(s)' => Told(s) \/ Gone(s)'
  <2> SUFFICES ASSUME NEW s \in Sandboxes, s # Box(c), Told(s)'
               PROVE  Told(s)
    BY <1>8
  <2> QED
    BY <1>1, <1>2, <1>3, <1>4, SMT, SMTT(20) DEF Told, InStream
<1>10. \A d \in mix.calls : /\ rpc[d] = "none" => rpc'[d] = "none"
                            /\ rpc'[d] \in {"sent", "lost"} => rpc[d] \in {"sent", "lost"}
  BY <1>0, <1>3, <1>4
<1> QED
  BY <1>1, <1>6, <1>7, <1>9, <1>10, Unwritten

LEMMA ServeHolds ==
    ASSUME TInv, Undisturbed, VInv, NEW c \in mix.calls, Serve(c)
    PROVE  VInv'
<1>0. TypeOK /\ rpc[c] \in {"sent", "lost"}
  BY DEF TInv, Serve
<1>1. UNCHANGED <<mix, vol, pc, held, cb, stream, con>>
  BY DEF Serve, db
<1>2. CASE ServePause(c) \/ ServeResume(c) \/ ServeSnapshot(c)
  <2>1. Op(c) \in {"pause", "resume", "snapshot"} /\ file' = file
    BY <1>2 DEF ServePause, ServeResume, ServeSnapshot
  <2>2. rpc'[c] \in {"ok", "err"} /\ \A d \in mix.calls \ {c} : rpc'[d] = rpc[d]
    BY <1>0, <1>2, Answered, AnswersEnd DEF ServePause, ServeResume, ServeSnapshot
  <2>3. Box(c) \in Sandboxes
    BY <1>0, <2>1, CallShape
  <2>4. \A s \in Sandboxes : Alive(s)' => Alive(s)
    BY <1>0, <1>2, <2>3 DEF ServePause, ServeResume, ServeSnapshot, Alive, TypeOK
  <2>5. \A s \in Sandboxes : Alive(s)' => Alive(s) /\ \A v \in mix.wants[s] : file'[v]
    BY <1>1, <2>1, <2>4, FilesKept
  <2> QED
    BY <1>0, <1>1, <2>1, <2>2, <2>5, AnswerHolds
<1>3. CASE ServeDelete(c)
  <2>1. Op(c) = "delete" /\ agent' = agent /\ file' = [file EXCEPT ![Box(c)] = FALSE]
    BY <1>3 DEF ServeDelete
  <2>2. rpc'[c] \in {"ok", "err"} /\ \A d \in mix.calls \ {c} : rpc'[d] = rpc[d]
    BY <1>0, <1>3, AnswersEnd DEF ServeDelete
  <2>3. vol[Box(c)].st = "deleting"
    BY <1>0, <2>1, Relied
  <2>4. ASSUME NEW s \in Sandboxes, Alive(s)'
        PROVE  Alive(s) /\ \A v \in mix.wants[s] : file'[v]
    <3>1. Alive(s) /\ Needs(s)
      BY <2>1, <2>4 DEF Alive, Needs
    <3>2. \A v \in mix.wants[s] : v \in Volumes /\ file[v] /\ vol[v].st \in {"attaching", "attached"}
      BY <1>0, <3>1 DEF VInv, HoldInv, Secure, TypeOK, Scenario
    <3>3. \A v \in mix.wants[s] : v # Box(c)
      BY <2>3, <3>2
    <3> QED
      BY <1>0, <2>1, <3>1, <3>2, <3>3 DEF TypeOK
  <2> QED
    BY <1>0, <1>1, <2>1, <2>2, <2>4, AnswerHolds
<1> QED
  BY <1>2, <1>3, ServeCreateHolds, ServeDestroyHolds DEF Serve

LEMMA CreateConfirmHolds ==
    ASSUME TInv, Undisturbed, VInv, NEW c \in mix.calls, CreateConfirm(c)
    PROVE  VInv'
<1>0. TypeOK /\ pc[c] = "confirm" /\ Op(c) = "create"
  BY DEF TInv, PointInv, CreateConfirm, At
<1>1. UNCHANGED <<mix, vol, file, held, cb, con, stream>>
  BY DEF CreateConfirm, db
<1>2. Box(c) \in Sandboxes /\ c = <<"create", Box(c)>>
  BY <1>0, CallShape
<1>3. CASE UNCHANGED <<agent, rpc>> /\ Goto(c, "done")
  <2>1. "done" \in Points /\ ~ Whole(c, "done")
    BY DEF Points, Whole
  <2> QED
    BY <1>0, <1>1, <1>3, <2>1, StreamSame, PointMoved
<1>4. CASE AgentDestroys(Box(c)) /\ rpc' = Cancelled(Box(c)) /\ (Goto(c, "free") \/ Goto(c, "done"))
  <2>1. PICK p \in {"free", "done"} : Goto(c, p)
    BY <1>4
  <2>2. Moved(c, p)
    BY <1>0, <2>1, Moves DEF Moved, Points
  <2>3. \A d \in mix.calls : rpc'[d] = rpc[d] \/ (rpc[d] \in {"sent", "lost"} /\ d = <<"create", Box(c)>> /\ rpc'[d] = "err")
    BY <1>4 DEF Cancelled, Pending
  <2>4. /\ ~Pends(Box(c))' /\ (<<"pause", Box(c)>> \notin mix.calls => ~Alive(Box(c))')
        /\ \A s \in Sandboxes : Alive(s)' => Alive(s)
    BY <1>0, <1>1, <1>2, <1>4, DestroyedGone
  <2>5. \A s \in Sandboxes : Pends(s)' => Pends(s)
    BY <1>1, <2>3 DEF Pends
  <2>6. \A s \in Sandboxes : Alive(s)' => Alive(s) /\ \A v \in mix.wants[s] : file'[v]
    BY <1>1, <2>4, FilesKept
  <2>7. mix.wants[Box(c)] # {} => ~Alive(Box(c))' /\ ~Pends(Box(c))'
    BY <1>2, <2>4 DEF Undisturbed
  <2>8. \A s \in Sandboxes : Told(s)' => Told(s)
    BY <1>1, <1>2, <2>2, <2>3 DEF Told, InStream, Moved
  <2>9. \A d \in mix.calls :
           \/ pc'[d] = pc[d] \/ pc'[d] = "done"
           \/ /\ Op(d) = "create" /\ pc[d] = "confirm" /\ pc'[d] = "free"
              /\ mix.wants[Box(d)] # {} => ~Alive(Box(d))' /\ ~Pends(Box(d))'
    BY <1>0, <2>2, <2>7 DEF Moved
  <2>10. \A d \in mix.calls : /\ rpc[d] = "none" => rpc'[d] = "none"
                              /\ rpc'[d] \in {"sent", "lost"} => rpc[d] \in {"sent", "lost"}
    BY <2>3
  <2> QED
    BY <1>1, <2>5, <2>6, <2>8, <2>9, <2>10, Unwritten
<1> QED
  BY <1>3, <1>4 DEF CreateConfirm

LEMMA ExpireHolds ==
    ASSUME TInv, Undisturbed, VInv, NEW s \in Sandboxes, Expire(s)
    PROVE  VInv'
<1>0. TypeOK /\ mix.idle /\ agent[s] = "running"
  BY DEF TInv, Expire
<1>1. UNCHANGED <<mix, vol, file, pc, rpc, held, stream, con>>
  BY DEF Expire, db, calls
<1>2. PICK e \in {<<"paused", "paused">>, <<"stopped", "absent">>, <<"error", "absent">>} :
         agent' = [agent EXCEPT ![s] = e[2]] /\ cb' \in {cb, cb \cup {<<e[1], s>>}}
  BY DEF Expire
<1>3. \A t \in Sandboxes : Alive(t)' => Alive(t)
  BY <1>0, <1>2 DEF Alive, TypeOK
<1>4. \A t \in Sandboxes : Alive(t)' => (Alive(t) \/ Pends(t)) /\ \A v \in mix.wants[t] : file'[v]
  BY <1>1, <1>3, FilesKept
<1>5. \A t \in Sandboxes : Pends(t)' => Pends(t)
  BY <1>1 DEF Pends
<1>6. ASSUME NEW t \in Sandboxes, mix.wants[t] # {}, Told(t)'
      PROVE  Told(t) \/ Gone(t)'
  <2>1. CASE <<"stopped", t>> \in cb' \/ <<"error", t>> \in cb'
    <3>1. CASE t = s /\ e # <<"paused", "paused">>
      <4>1. agent'[s] = "absent"
        BY <1>0, <1>2, <3>1, SMT, SMTT(20) DEF TypeOK
      <4>2. <<"create", t>> \notin mix.calls
        BY <1>0, <1>6 DEF Undisturbed
      <4> QED
        BY <1>1, <3>1, <4>1, <4>2 DEF Gone, Alive, Pends
    <3>2. CASE t # s \/ e = <<"paused", "paused">>
      BY <1>2, <2>1, <3>2, SMT, SMTT(20) DEF Told
    <3> QED
      BY <3>1, <3>2
  <2>2. CASE ~(<<"stopped", t>> \in cb' \/ <<"error", t>> \in cb')
    BY <1>1, <1>6, <2>2 DEF Told, InStream
  <2> QED
    BY <2>1, <2>2
<1> QED
  BY <1>1, <1>4, <1>5, <1>6, Unwritten

(* A step that touches neither the host, the volumes nor a call.            *)
LEMMA ToldOn ==
    ASSUME TInv, VInv, UNCHANGED <<mix, vol, file, agent, pc, rpc, held>>,
           \A s \in Sandboxes : Told(s)' => Told(s)
    PROVE  VInv'
<1>1. \A s \in Sandboxes : Alive(s)' => (Alive(s) \/ Pends(s)) /\ \A v \in mix.wants[s] : file'[v]
  BY FilesKept DEF Alive
<1>2. \A s \in Sandboxes : Pends(s)' => Pends(s)
  BY DEF Pends
<1> QED
  BY <1>1, <1>2, Unwritten

LEMMA CallbackHolds ==
    ASSUME TInv, VInv, NEW e \in cb, Callback(e)
    PROVE  VInv'
<1>0. TypeOK
  BY DEF TInv
<1>1. UNCHANGED <<mix, vol, file, agent, pc, rpc, held, con>> /\ cb' = cb \ {e}
  BY DEF Callback, db, host, calls
<1>2. e = <<e[1], e[2]>> /\ e[1] \in {"paused", "stopped", "error"} /\ e[2] \in Sandboxes
  BY <1>0, SMT, SMTT(20) DEF TypeOK
<1>3. \/ UNCHANGED stream
      \/ e[1] # "error" /\ Publish(<<<<e[1], e[2]>>>>)
      \/ e[1] = "error" /\ Publish(<<<<"failed", e[2]>>>>)
  BY <1>2 DEF Callback
<1>4. ASSUME NEW s \in Sandboxes, Told(s)'
      PROVE  Told(s)
  <2>1. CASE InStream(<<"stopped", s>>)'
    <3>1. InStream(<<"stopped", s>>) \/ <<"stopped", s>> = e
      BY <1>0, <1>2, <1>3, <2>1, StreamSame, PublishedAdds
    <3> QED
      BY <3>1 DEF Told
  <2>2. CASE InStream(<<"failed", s>>)'
    <3>1. InStream(<<"failed", s>>) \/ <<"error", s>> = e
      BY <1>0, <1>2, <1>3, <2>2, StreamSame, PublishedAdds
    <3> QED
      BY <3>1 DEF Told
  <2>3. CASE ~InStream(<<"stopped", s>>)' /\ ~InStream(<<"failed", s>>)'
    BY <1>1, <1>4, <2>3 DEF Told
  <2> QED
    BY <2>1, <2>2, <2>3
<1> QED
  BY <1>1, <1>4, ToldOn

LEMMA ConsumeHolds ==
    ASSUME TInv, VInv, Consume
    PROVE  VInv'
<1>0. TypeOK
  BY DEF TInv
<1>1. UNCHANGED <<mix, vol, file, agent, pc, rpc, held, cb>>
  BY DEF Consume, db, host, calls
<1>2. stream \in Seq(EventKinds \X Sandboxes) /\ stream # <<>> /\ stream' = Tail(stream)
  BY <1>0 DEF TypeOK, Consume
<1>3. PICK k \in EventKinds, t \in Sandboxes : Head(stream) = <<k, t>>
  BY <1>2, SMT, SMTT(20)
<1>4. con'.kind = k /\ con'.box = t
  BY <1>3, SMT, SMTT(20) DEF Consume
<1>5. InStream(<<k, t>>)
  BY <1>2, <1>3, SMT, SMTT(20) DEF InStream
<1>6. ASSUME NEW x, InStream(x)' PROVE InStream(x)
  <2> DEFINE T == EventKinds \X Sandboxes
  <2>1. PICK i \in 1..Len(stream') : stream'[i] = x
    BY <1>6 DEF InStream
  <2>2. stream \in Seq(T) /\ stream # <<>>
    BY <1>2
  <2> HIDE DEF T
  <2>3. Len(stream') = Len(stream) - 1 /\ Len(stream) \in Nat /\ stream'[i] = stream[i + 1] /\ i + 1 \in 1..Len(stream)
    BY <1>2, <2>1, <2>2, SMT, SMTT(20)
  <2> QED
    BY <2>1, <2>3 DEF InStream
<1>7. \A s \in Sandboxes : Told(s)' => Told(s)
  BY <1>1, <1>4, <1>5, <1>6 DEF Told
<1> QED
  BY <1>1, <1>7, ToldOn

(* A write to volumes that nobody counts on.                                *)
LEMMA Rewritten ==
    ASSUME TInv, VInv, UNCHANGED <<mix, file, agent, pc, rpc, held>>, OwnInv',
           \A s \in Sandboxes : Told(s)' => Told(s),
           \A s \in Sandboxes : \A v \in Volumes :
               Needs(s) /\ vol[v].owner = s /\ vol[v].st \in {"attaching", "attached"} =>
                   vol'[v].owner = s /\ vol'[v].st \in {"attaching", "attached"},
           \A v \in Volumes : vol'[v] = vol[v] \/ \A d \in mix.calls : Reserving(d) => v \notin held[d],
           \A d \in mix.calls : Op(d) = "delete" /\ rpc[d] \in {"sent", "lost"} => vol'[Box(d)] = vol[Box(d)]
    PROVE  VInv'
<1>0. /\ \A s \in Sandboxes : mix.wants[s] \subseteq Volumes
      /\ \A c \in mix.calls : held[c] \subseteq Volumes
  BY DEF TInv, TypeOK, Scenario
<1>1. \A s \in Sandboxes : (Needs(s)' <=> Needs(s)) /\ (Alive(s)' <=> Alive(s)) /\ (Gone(s)' <=> Gone(s))
  BY DEF Needs, Alive, Pends, Gone
<1>2. HoldInv'
  BY <1>0, <1>1 DEF VInv, HoldInv, Secure
<1>3. ReserveInv'
  <2>1. \A c \in mix.calls : Reserving(c)' <=> Reserving(c)
    BY DEF Reserving
  <2>2. \A c \in mix.calls : Reserving(c) => \A v \in held[c] : vol'[v] = vol[v]
    BY <1>0
  <2>3. \A c \in mix.calls : Whole(c, pc[c])' <=> Whole(c, pc[c])
    BY DEF Whole
  <2> QED
    BY <2>1, <2>2, <2>3, SMT, SMTT(20) DEF VInv, ReserveInv
<1>4. BootInv'
  BY DEF VInv, BootInv, Alive, Pends
<1>5. EndInv'
  BY <1>1 DEF VInv, EndInv
<1>6. DeleteInv'
  BY DEF VInv, DeleteInv
<1> QED
  BY <1>2, <1>3, <1>4, <1>5, <1>6 DEF VInv

LEMMA ReapHolds ==
    ASSUME TInv, VInv, Reap
    PROVE  VInv'
<1>0. TypeOK
  BY DEF TInv
<1>1. UNCHANGED <<mix, file, agent, pc, rpc, held, cb, stream, con>>
  BY DEF Reap, host, calls
<1>2. \A v \in Volumes : \/ vol'[v] = vol[v]
                         \/ Orphaned(v) /\ vol'[v].st = "detached" /\ vol'[v].owner = vol[v].owner
  BY <1>0, Reaped DEF Reap
<1>3. \A v \in Volumes : Orphaned(v) => vol[v].owner = None /\ \A c \in mix.calls : v \in held[c] => pc[c] = "done"
  BY DEF Orphaned, At
<1>4. OwnInv'
  BY <1>1, <1>2, <1>3 DEF VInv, OwnInv
<1>5. \A s \in Sandboxes : Told(s)' => Told(s)
  BY <1>1 DEF Told, InStream
<1>6. \A s \in Sandboxes : \A v \in Volumes :
         Needs(s) /\ vol[v].owner = s /\ vol[v].st \in {"attaching", "attached"} =>
             vol'[v].owner = s /\ vol'[v].st \in {"attaching", "attached"}
  BY <1>2, <1>3, Relied
<1>7. \A v \in Volumes : vol'[v] = vol[v] \/ \A d \in mix.calls : Reserving(d) => v \notin held[d]
  BY <1>2, <1>3 DEF Reserving
<1>8. \A d \in mix.calls : Op(d) = "delete" /\ rpc[d] \in {"sent", "lost"} => vol'[Box(d)] = vol[Box(d)]
  <2>1. \A d \in mix.calls : Op(d) = "delete" => d = <<"delete", Box(d)>> /\ Box(d) \in Volumes
    BY <1>0, CallShape DEF BoxOps
  <2> QED
    BY <1>2, <2>1 DEF Orphaned
<1> QED
  BY <1>1, <1>4, <1>5, <1>6, <1>7, <1>8, Rewritten

LEMMA HandleHolds ==
    ASSUME TInv, VInv, Handle
    PROVE  VInv'
<1>0. TypeOK /\ ConInv /\ con # NoEvent
  BY DEF TInv, Handle
<1>1. UNCHANGED <<mix, file, agent, pc, rpc, held, cb, stream>>
  BY DEF Handle, host, calls
<1>2. con.box \in Sandboxes /\ con.todo # <<>> /\ con.todo \in Seq(Statuses \cup {"detach"})
  BY <1>0 DEF ConInv, TypeOK, Event
<1>3. con' = NoEvent \/ (con'.kind = con.kind /\ con'.box = con.box)
  <2>1. con \in Event
    BY <1>0 DEF TypeOK
  <2> QED
    BY <2>1 DEF Handle, Advance, Event
<1>4. \A s \in Sandboxes : Told(s)' => Told(s)
  BY <1>1, <1>3, SMT, SMTT(20) DEF Told, InStream, NoEvent
<1>5. CASE vol' = vol
  BY <1>1, <1>4, <1>5, ToldOn
<1>6. CASE Head(con.todo) = "detach" /\ vol' = DetachVolumesBySandbox(con.box)
  <2>1. con.kind \in {"stopped", "failed"}
    BY <1>0, <1>2, <1>6, SMT, SMTT(20) DEF ConInv
  <2>2. mix.wants[con.box] # {} => Gone(con.box)
    BY <1>2, <2>1 DEF VInv, EndInv, Told
  <2>3. /\ OwnInv'
        /\ \A t \in Sandboxes : \A v \in Volumes :
              ~Gone(t) /\ vol[v].owner = t /\ vol[v].st \in {"attaching", "attached"} =>
                  vol'[v].owner = t /\ vol'[v].st \in {"attaching", "attached"}
        /\ \A v \in Volumes : vol'[v] = vol[v] \/ \A d \in mix.calls : Reserving(d) => v \notin held[d]
        /\ \A d \in mix.calls : Op(d) = "delete" /\ rpc[d] \in {"sent", "lost"} => vol'[Box(d)] = vol[Box(d)]
    BY <1>1, <1>2, <1>6, <2>2, DetachedGone
  <2> QED
    BY <1>1, <1>4, <2>3, GoneNeedless, Rewritten
<1> QED
  BY <1>5, <1>6 DEF Handle, db

LEMMA CrashHolds ==
    ASSUME TInv, VInv, Crash
    PROVE  VInv'
<1>0. TypeOK
  BY DEF TInv
<1>1. UNCHANGED <<vol, file, agent, rpc, held, cb, stream>> /\ con' = NoEvent
  BY DEF Crash, db, host
<1>2. mix'.calls = mix.calls /\ mix'.wants = mix.wants
  BY <1>0, MixTyped DEF Scenario, Crash
<1>3. \A c \in mix.calls : pc'[c] = pc[c] \/ pc'[c] = "done"
  BY DEF Crash, At
<1>4. \A s \in Sandboxes : Alive(s)' => (Alive(s) \/ Pends(s)) /\ \A v \in mix.wants[s] : file'[v]
  BY <1>1, <1>2, FilesKept DEF Alive
<1>5. \A s \in Sandboxes : Pends(s)' => Pends(s)
  BY <1>1, <1>2 DEF Pends
<1>6. \A s \in Sandboxes : Told(s)' => Told(s)
  BY <1>1, <1>2, <1>3 DEF Told, InStream, NoEvent
<1> QED
  BY <1>1, <1>2, <1>3, <1>4, <1>5, <1>6, Unwritten

LEMMA OutageHolds ==
    ASSUME TInv, VInv, Outage
    PROVE  VInv'
<1>0. TypeOK
  BY DEF TInv
<1>1. UNCHANGED <<vol, file, pc, rpc, held, cb, stream, con>>
  BY DEF Outage, db, calls
<1>2. mix'.calls = mix.calls /\ mix'.wants = mix.wants
  BY <1>0, MixTyped DEF Scenario, Outage
<1>3. \A s \in Sandboxes : Alive(s)' => Alive(s)
  BY DEF Outage, Alive
<1>4. \A s \in Sandboxes : Alive(s)' => (Alive(s) \/ Pends(s)) /\ \A v \in mix.wants[s] : file'[v]
  BY <1>1, <1>2, <1>3, FilesKept
<1>5. \A s \in Sandboxes : Pends(s)' => Pends(s)
  BY <1>1, <1>2 DEF Pends
<1>6. \A s \in Sandboxes : Told(s)' => Told(s)
  BY <1>1, <1>2 DEF Told, InStream
<1> QED
  BY <1>1, <1>2, <1>4, <1>5, <1>6, Unwritten

LEMMA RestHolds ==
    ASSUME TInv, VInv, Recover \/ Heartbeat \/ UNCHANGED vars
    PROVE  VInv'
<1>1. UNCHANGED <<mix, vol, file, agent, pc, rpc, held, cb, stream, con>>
  BY DEF Recover, Heartbeat, vars, db, host, calls
<1>2. \A s \in Sandboxes : Told(s)' => Told(s)
  BY <1>1 DEF Told, InStream
<1> QED
  BY <1>1, <1>2, ToldOn

-----------------------------------------------------------------------------
(* The scenario does not change, but for the crashes and outages to come,   *)
(* and without the monitor's tick nothing starts one.                       *)

LEMMA CallStepAside ==
    ASSUME NEW c \in mix.calls, CallStep(c)
    PROVE  UNCHANGED <<mix, mon>>
<1>1. CASE CreateReserve(c) \/ CreateRelease(c) \/ CreateInsert(c) \/ CreateLink(c) \/ CreateFailed(c)
  BY <1>1 DEF CreateReserve, CreateRelease, CreateInsert, CreateLink, CreateFailed, CreateFailedUnconfirmed
<1>2. CASE CreateConfirm(c) \/ CreateFree(c) \/ CreateFail(c) \/ CreateAttach(c) \/ CreateRun(c)
  BY <1>2 DEF CreateConfirm, CreateFree, CreateFail, CreateAttach, CreateRun
<1>3. CASE Undo(c) \/ Finish(c) \/ FinishFailed(c) \/ DestroyMark(c) \/ DestroyFailed(c) \/ DestroyDetach(c)
  BY <1>3 DEF Undo, Finish, FinishFailed, DestroyMark, DestroyFailed, DestroyDetach
<1>4. CASE DestroyStop(c) \/ DeleteServed(c) \/ DeleteFailed(c) \/ DeleteAbort(c) \/ DeleteDrop(c)
  BY <1>4 DEF DestroyStop, DeleteServed, DeleteFailed, DeleteAbort, DeleteDrop
<1> QED
  BY <1>1, <1>2, <1>3, <1>4 DEF CallStep

(* The host monitor's own steps.                                            *)
LEMMA MonitorAside ==
    ASSUME MarkUnreachable \/ MonitorStep
    PROVE  mix' = mix /\ (mix.monitor \/ mon.pc # "idle")
<1>1. CASE MarkUnreachable \/ MarkMissing \/ MonitorList \/ MonitorRestore \/ MonitorStop \/ MonitorFree
  BY <1>1 DEF MarkUnreachable, MarkMissing, MonitorList, MonitorRestore, MonitorStop, MonitorFree, MonitorFreeNothing
<1>2. CASE MonitorRunning \/ MonitorSync \/ MonitorZombies \/ MonitorBury \/ MonitorTransient
  BY <1>2 DEF MonitorRunning, MonitorRunningTransient, MonitorRunningTrusts, MonitorSync, MonitorZombies, MonitorBury,
     MonitorTransient
<1>3. CASE MonitorResolve \/ MonitorConfirmed \/ MonitorSettle
  BY <1>3 DEF MonitorResolve, MonitorConfirmed, MonitorSettle, ResolvePresent, ResolveStoppingWaits, ResolveStopping,
     ResolveAbsent
<1> QED
  BY <1>1, <1>2, <1>3 DEF MonitorStep

LEMMA CrashAside ==
    ASSUME TypeOK, Crash \/ Outage
    PROVE  /\ mix'.calls = mix.calls /\ mix'.wants = mix.wants /\ mix'.monitor = mix.monitor /\ mix'.idle = mix.idle
           /\ mon' \in {mon, Idle}
<1>1. mix \in Scenario
  BY DEF TypeOK
<1> QED
  BY <1>1 DEF Scenario, Crash, Outage

LEMMA Aside ==
    ASSUME TInv, [Next]_vars
    PROVE  /\ Undisturbed' => Undisturbed
           /\ ~mix.monitor /\ mon.pc = "idle" => mon'.pc = "idle"
<1>1. CASE UNCHANGED <<mix, mon>>
  BY <1>1, SMT, SMTT(20) DEF Undisturbed
<1>2. CASE MarkUnreachable \/ MonitorStep
  BY <1>2, MonitorAside DEF Undisturbed
<1>3. CASE Crash \/ Outage
  BY <1>3, CrashAside, IdleTick DEF Undisturbed, TInv
<1>4. CASE \E c \in mix.calls : \/ CreateCall(c) \/ Begin(c) \/ DestroyCall(c) \/ DeleteBegin(c)
                                \/ Serve(c) \/ Refuse(c) \/ GiveUp(c)
  BY <1>1, <1>4 DEF CreateCall, Begin, DestroyCall, DeleteBegin, Serve, Refuse, GiveUp
<1>5. CASE (\E s \in Sandboxes : Expire(s) \/ Age(s)) \/ (\E e \in cb : Callback(e))
  BY <1>1, <1>5 DEF Expire, Age, Callback
<1>6. CASE Consume \/ Handle \/ Reap \/ Recover \/ Heartbeat \/ UNCHANGED vars
  BY <1>1, <1>6 DEF Consume, Handle, Reap, Recover, Heartbeat, vars
<1> QED
  BY <1>1, <1>2, <1>3, <1>4, <1>5, <1>6, CallStepAside DEF Next

-----------------------------------------------------------------------------
LEMMA InitHolds == Init => VInv
<1> SUFFICES ASSUME Init PROVE VInv
  OBVIOUS
<1>1. /\ mix.wants \in [Sandboxes -> SUBSET Volumes] /\ mix.up \subseteq Sandboxes
      /\ \A s \in mix.up : <<"create", s>> \notin mix.calls
      /\ \A s, t \in mix.up : mix.wants[s] \cap mix.wants[t] # {} => s = t
      /\ None \notin Sandboxes
  BY ControlPlaneAssumption DEF Init, Scenario
<1>2. \A v \in Volumes : \A s \in mix.up : v \in mix.wants[s] =>
         vol[v].st = "attached" /\ vol[v].owner = s /\ file[v]
  <2> SUFFICES ASSUME NEW v \in Volumes, NEW s \in mix.up, v \in mix.wants[s]
               PROVE  vol[v].st = "attached" /\ vol[v].owner = s /\ file[v]
    OBVIOUS
  <2> DEFINE o == CHOOSE t \in mix.up : v \in mix.wants[t]
  <2>1. o \in mix.up /\ v \in mix.wants[o]
    OBVIOUS
  <2>2. vol[v] = [st |-> "attached", pin |-> TRUE, owner |-> o]
    BY DEF Init
  <2>3. file[v] = vol[v].pin
    BY DEF Init
  <2> HIDE DEF o
  <2>4. o = s
    BY <1>1, <2>1
  <2> QED
    BY <2>2, <2>3, <2>4, SMT, SMTT(20)
<1>3. \A v \in Volumes : (~ \E s \in mix.up : v \in mix.wants[s]) => vol[v].st = "detached" /\ vol[v].owner = None
  BY DEF Init
<1>4. /\ \A s \in Sandboxes : Alive(s) <=> s \in mix.up
      /\ \A c \in mix.calls : pc[c] = "idle" /\ rpc[c] = "none" /\ held[c] = {}
      /\ cb = {} /\ stream = <<>> /\ con = NoEvent
  BY DEF Init, Alive
<1>5. \A s \in Sandboxes : ~Pends(s) /\ (Needs(s) <=> s \in mix.up) /\ ~Told(s)
  BY <1>4, SMT, SMTT(20) DEF Pends, Needs, Told, InStream, NoEvent
<1>6. HoldInv
  BY <1>1, <1>2, <1>4, <1>5 DEF HoldInv, Secure
<1>7. OwnInv
  <2> SUFFICES ASSUME NEW v \in Volumes
               PROVE  /\ vol[v].st \notin {"attaching", "attached"} => vol[v].owner = None
                      /\ \A s \in Sandboxes : vol[v].owner = s => v \in mix.wants[s]
    BY DEF OwnInv
  <2> QED
    BY <1>1, <1>2, <1>3, SMT, SMTT(20)
<1>8. ReserveInv /\ BootInv /\ DeleteInv
  BY <1>4 DEF ReserveInv, BootInv, DeleteInv, Reserving, Whole
<1>9. EndInv
  BY <1>5 DEF EndInv
<1> QED
  BY <1>6, <1>7, <1>8, <1>9 DEF VInv

LEMMA NextHolds ==
    ASSUME TInv, Undisturbed, VInv, mon.pc = "idle", [Next]_vars
    PROVE  VInv'
<1>1. ASSUME NEW c \in mix.calls, CreateCall(c) \/ Begin(c) \/ DestroyCall(c) \/ DeleteBegin(c)
      PROVE  VInv'
  BY <1>1, QuietHolds, BeginHolds, DeleteBeginHolds
<1>2. ASSUME NEW c \in mix.calls, CallStep(c)
      PROVE  VInv'
  BY <1>2, QuietHolds, EndsHold, CreateReserveHolds, CreateReleaseHolds, CreateLinkHolds, CreateConfirmHolds, CreateFreeHolds,
     CreateAttachHolds, DestroyMarkHolds, DestroyDetachHolds, DeleteEndsHold DEF CallStep
<1>3. ASSUME NEW c \in mix.calls, Serve(c) \/ Refuse(c) \/ GiveUp(c)
      PROVE  VInv'
  BY <1>3, ServeHolds, RefuseHolds, SMT, SMTT(20)
<1>4. ASSUME NEW s \in Sandboxes, Expire(s) \/ Age(s)
      PROVE  VInv'
  BY <1>4, ExpireHolds DEF Age, Undisturbed
<1>5. CASE (\E e \in cb : Callback(e)) \/ Consume \/ Handle
  BY <1>5, CallbackHolds, ConsumeHolds, HandleHolds
<1>6. CASE MarkUnreachable \/ MonitorStep
  BY <1>6, MonitorAside DEF Undisturbed
<1>7. CASE Reap \/ Crash \/ Outage \/ Recover \/ Heartbeat \/ UNCHANGED vars
  BY <1>7, ReapHolds, CrashHolds, OutageHolds, RestHolds
<1> QED
  BY <1>1, <1>2, <1>3, <1>4, <1>5, <1>6, <1>7 DEF Next

(* What holds of a scenario from its start.                                 *)
Settled == Undisturbed => VInv /\ mon.pc = "idle"

LEMMA InitSettled == Init => Settled
  BY InitHolds, IdleTick DEF Init, Settled

LEMMA NextSettled == TInv /\ Settled /\ [Next]_vars => Settled'
<1> SUFFICES ASSUME TInv, Settled, [Next]_vars, Undisturbed' PROVE VInv' /\ (mon.pc = "idle")'
  BY DEF Settled
<1>1. Undisturbed
  BY Aside
<1>2. VInv /\ mon.pc = "idle" /\ ~mix.monitor
  BY <1>1 DEF Undisturbed, Settled
<1> QED
  BY <1>1, <1>2, Aside, NextHolds

LEMMA SettledHeld == Settled => (Undisturbed => VolumeHeld)
  BY DEF Settled, VInv, HoldInv, Needs, Secure, Alive, VolumeHeld
=============================================================================
