------------------------- MODULE ControlPlaneProofs -------------------------
(***************************************************************************)
(* For any number of capsules, volumes and calls: every step of the control *)
(* plane keeps its tables well-typed, and none but a stop moves a row out   *)
(* of stopping.                                                             *)
(***************************************************************************)
EXTENDS VolumeProofs

(* A leaf is Zenon's unless it names SMT; each is tried again with more time. *)
USE Zenon, SlowZenon

-----------------------------------------------------------------------------
(* The statements and the moves that the steps are built from.              *)

(* The tables, the host and the requests are well-typed.                    *)
DataOK ==
    /\ row \in [Sandboxes -> Statuses] /\ old \in [Sandboxes -> BOOLEAN]
    /\ vol \in [Volumes -> VolumeRow] /\ file \in [Volumes -> BOOLEAN]
    /\ agent \in [Sandboxes -> AgentStates]
    /\ rpc \in [mix.calls -> {"none", "sent", "lost", "ok", "err"}]
    /\ orig \in [mix.calls -> {"none", "running", "paused"}]
    /\ held \in [mix.calls -> SUBSET Volumes]
    /\ stream \in Seq(EventKinds \X Sandboxes)

(* What a destroy that has marked its row may rely on.                      *)
Prevails ==
    \A s \in Sandboxes : row[s] = "stopping" /\ mon' = mon => row'[s] \in {"stopping", "stopped"}

(* The events of a tick for a set of capsules are a list.                   *)
Listable == \A kind \in EventKinds : \A S \in SUBSET Sandboxes : Events(kind, S) \in Seq(EventKinds \X Sandboxes)

(* Point p is one of call c's operation.                                    *)
Fits(c, p) ==
    /\ p \in {"reserve", "release", "insert", "link", "confirm", "free", "fail", "run"} => Op(c) = "create"
    /\ p = "undo" => Op(c) \in {"pause", "resume", "snapshot"}
    /\ p \in {"mark", "stop"} => Op(c) = "destroy"
    /\ p \in {"abort", "drop"} => Op(c) = "delete"

(* A step of a call keeps the types when it keeps those of the data.        *)
LEMMA CallKept ==
    ASSUME TInv, NEW c \in mix.calls, NEW p \in Points, Goto(c, p), Fits(c, p), DataOK',
           UNCHANGED <<mix, cb, con, mon, online, reach>>
    PROVE  TInv'
<1>1. pc' \in [mix.calls -> Points] /\ pc'[c] = p /\ \A d \in mix.calls \ {c} : pc'[d] = pc[d]
  BY Moves DEF TInv
<1>2. TypeOK'
  BY <1>1 DEF TInv, TypeOK, DataOK
<1>3. PointInv'
  BY <1>1 DEF TInv, PointInv, Fits
<1>4. ConInv' /\ MonInv'
  BY DEF TInv, ConInv, MonInv
<1> QED
  BY <1>2, <1>3, <1>4 DEF TInv

(* So does a step that moves no call.                                       *)
LEMMA DataKept ==
    ASSUME TInv, DataOK', UNCHANGED <<mix, pc, con, mon>>,
           cb' \subseteq {"paused", "stopped", "error"} \X Sandboxes, online' \in BOOLEAN, reach' \in BOOLEAN
    PROVE  TInv'
<1>1. TypeOK'
  BY DEF TInv, TypeOK, DataOK
<1>2. PointInv' /\ ConInv' /\ MonInv'
  BY DEF TInv, PointInv, ConInv, MonInv
<1> QED
  BY <1>1, <1>2 DEF TInv

(* BulkUpdateStatusByIDs and the statements that are cases of it.           *)
LEMMA BulkUpdated ==
    ASSUME TypeOK, NEW S \in SUBSET Sandboxes, NEW st, \A s \in S : st[s] \in Statuses, BulkUpdateStatusByIDs(S, st)
    PROVE  /\ row' \in [Sandboxes -> Statuses] /\ old' \in [Sandboxes -> BOOLEAN]
           /\ \A s \in Sandboxes : row'[s] = IF s \in S THEN st[s] ELSE row[s]
  BY DEF TypeOK, BulkUpdateStatusByIDs

LEMMA StatusUpdated ==
    ASSUME TypeOK, NEW s \in Sandboxes, NEW to \in Statuses, UpdateSandboxStatus(s, to)
    PROVE  /\ row' \in [Sandboxes -> Statuses] /\ old' \in [Sandboxes -> BOOLEAN]
           /\ row'[s] = to /\ \A t \in Sandboxes \ {s} : row'[t] = row[t]
<1> DEFINE st == [t \in Sandboxes |-> to]
<1>1. \A t \in Sandboxes : st[t] = to
  OBVIOUS
<1>2. BulkUpdateStatusByIDs({s}, st)
  BY DEF UpdateSandboxStatus
<1> HIDE DEF st
<1> QED
  BY <1>1, <1>2, BulkUpdated, SMT, SMTT(20)

LEMMA StatusUpdatedIf ==
    ASSUME TypeOK, NEW s \in Sandboxes, NEW from, NEW to \in Statuses, UpdateSandboxStatusIf(s, from, to)
    PROVE  /\ row' \in [Sandboxes -> Statuses] /\ old' \in [Sandboxes -> BOOLEAN]
           /\ \A t \in Sandboxes : row'[t] = row[t] \/ (t = s /\ row[t] = from /\ row'[t] = to)
<1>1. CASE row[s] = from
  BY <1>1, StatusUpdated DEF UpdateSandboxStatusIf
<1>2. CASE row[s] # from
  BY <1>2 DEF UpdateSandboxStatusIf, TypeOK
<1> QED
  BY <1>1, <1>2

(* Publishing keeps the stream's type, and adds the events or nothing.      *)
LEMMA Published ==
    ASSUME TypeOK, NEW q \in Seq(EventKinds \X Sandboxes), Publish(q)
    PROVE  stream' \in Seq(EventKinds \X Sandboxes)
<1> DEFINE E == EventKinds \X Sandboxes
<1>1. stream \in Seq(E) /\ q \in Seq(E)
  BY DEF TypeOK
<1> HIDE DEF E
<1>2. stream \o q \in Seq(E)
  BY <1>1, SMT, SMTT(20)
<1>3. stream' \in Seq(E)
  BY <1>1, <1>2 DEF Publish
<1> QED
  BY <1>3 DEF E

LEMMA PublishedOne ==
    ASSUME TypeOK, NEW kind \in EventKinds, NEW s \in Sandboxes, Publish(<<<<kind, s>>>>)
    PROVE  stream' \in Seq(EventKinds \X Sandboxes)
<1>1. <<<<kind, s>>>> \in Seq(EventKinds \X Sandboxes)
  BY SMT, SMTT(20)
<1> QED
  BY <1>1, Published

-----------------------------------------------------------------------------
(* The steps of the calls keep the types, and let a destroy win.            *)

LEMMA RowsKept == row' = row /\ TypeOK => Prevails
  BY DEF Prevails

LEMMA QuietSteps ==
    ASSUME TInv, NEW c \in mix.calls,
           CreateCall(c) \/ CreateFailed(c) \/ DestroyCall(c) \/ DestroyFailed(c) \/ DeleteServed(c) \/ DeleteFailed(c)
    PROVE  TInv' /\ Prevails
<1> DEFINE same == UNCHANGED <<mix, db, host, rpc, orig, held, cb, stream, con, mon, online, reach>>
<1>1. ASSUME NEW p \in Points, Goto(c, p), Fits(c, p), same
      PROVE  TInv' /\ Prevails
  <2>1. DataOK'
    BY <1>1 DEF TInv, TypeOK, DataOK, db, host
  <2>2. row' = row
    BY <1>1 DEF db
  <2> QED
    BY <1>1, <2>1, <2>2, CallKept, RowsKept DEF TInv
<1>2. same
  BY DEF CreateCall, CreateFailed, DestroyCall, DestroyFailed, DeleteServed, DeleteFailed
<1> HIDE DEF same
<1>3. \E p \in Points : Goto(c, p) /\ Fits(c, p)
  BY DEF CreateCall, CreateFailed, DestroyCall, DestroyFailed, DeleteServed, DeleteFailed, Points, Fits
<1> QED
  BY <1>1, <1>2, <1>3

(* The steps that write volumes, and no capsule's row.                      *)
LEMMA VolumeSteps ==
    ASSUME TInv, NEW c \in mix.calls,
           CreateRelease(c) \/ CreateFree(c) \/ CreateAttach(c) \/ DestroyDetach(c) \/ DeleteAbort(c) \/ DeleteDrop(c)
    PROVE  TInv' /\ Prevails
<1> DEFINE same == UNCHANGED <<mix, row, old, host, rpc, orig, held, cb, stream, con, mon, online, reach>>
<1>0. TypeOK /\ PointInv
  BY DEF TInv
<1>1. ASSUME NEW p \in Points, Goto(c, p), Fits(c, p), same, vol' \in [Volumes -> VolumeRow]
      PROVE  TInv' /\ Prevails
  <2>1. DataOK'
    BY <1>1 DEF TInv, TypeOK, DataOK, host
  <2> QED
    BY <1>1, <2>1, CallKept, RowsKept DEF TInv
<1>2. same
  BY DEF CreateRelease, CreateFree, CreateAttach, DestroyDetach, DeleteAbort, DeleteDrop
<1>3. \E p \in Points : Goto(c, p) /\ Fits(c, p)
  BY <1>0 DEF CreateRelease, CreateFree, CreateAttach, DestroyDetach, DeleteAbort, DeleteDrop, Points, Fits, PointInv, At
<1>4. vol \in [Volumes -> VolumeRow]
  BY <1>0 DEF TypeOK
<1>5. Op(c) \in BoxOps => Box(c) \in Sandboxes
  BY <1>0, CallShape DEF BoxOps
<1>6. vol' \in [Volumes -> VolumeRow]
  <2>1. CASE CreateRelease(c)
    BY <2>1, <1>0, <1>4, Released DEF CreateRelease
  <2>2. CASE CreateFree(c)
    BY <2>2, <1>0, Released DEF CreateFree
  <2>3. CASE CreateAttach(c)
    BY <2>3, <1>0, <1>4, <1>5, AttachedTo DEF CreateAttach, BoxOps, Ops
  <2>4. CASE DestroyDetach(c)
    BY <2>4, <1>0, Detached DEF DestroyDetach, DetachVolumesBySandbox
  <2>5. CASE DeleteAbort(c) \/ DeleteDrop(c)
    <3>1. Box(c) \in Volumes
      BY <2>5, <1>0, CallShape DEF DeleteAbort, DeleteDrop, PointInv, At, BoxOps
    <3> QED
      BY <2>5, <3>1, <1>0, <1>4, VolumeSet DEF DeleteAbort, DeleteDrop, AbortVolumeDelete, DeleteVolumeRow
  <2> QED
    BY <2>1, <2>2, <2>3, <2>4, <2>5
<1> HIDE DEF same
<1> QED
  BY <1>1, <1>2, <1>3, <1>6

LEMMA CreateReserveTyped ==
    ASSUME TInv, NEW c \in mix.calls, CreateReserve(c)
    PROVE  TInv' /\ Prevails
<1> DEFINE todo == mix.wants[Box(c)] \ held[c]
<1> DEFINE same == UNCHANGED <<mix, row, old, host, rpc, orig, cb, stream, con, mon, online, reach>>
<1>0. TypeOK /\ Op(c) = "create"
  BY DEF TInv, PointInv, CreateReserve, At
<1>1. same
  BY DEF CreateReserve
<1>2. CASE \E v \in todo : ReserveVolumeForAttach(v) /\ held' = [held EXCEPT ![c] = @ \cup {v}] /\ UNCHANGED pc
  <2>1. PICK v \in todo : ReserveVolumeForAttach(v) /\ held' = [held EXCEPT ![c] = @ \cup {v}] /\ UNCHANGED pc
    BY <1>2
  <2>2. v \in Volumes
    BY <1>0, CallShape DEF BoxOps, Ops
  <2>3. vol' \in [Volumes -> VolumeRow]
    BY <1>0, <2>1, <2>2, VolumeSet DEF ReserveVolumeForAttach
  <2>4. held' \in [mix.calls -> SUBSET Volumes]
    BY <1>0, <2>1, <2>2 DEF TypeOK
  <2>5. DataOK'
    BY <1>0, <1>1, <2>3, <2>4 DEF TypeOK, DataOK, host
  <2> QED
    BY <1>0, <1>1, <2>1, <2>5, DataKept, RowsKept DEF TypeOK
<1>3. CASE (Goto(c, "insert") \/ Goto(c, "release")) /\ UNCHANGED <<vol, held>>
  <2>1. DataOK'
    BY <1>0, <1>1, <1>3 DEF TypeOK, DataOK, host
  <2>2. \E p \in Points : Goto(c, p) /\ Fits(c, p)
    BY <1>0, <1>3 DEF Points, Fits
  <2> QED
    BY <1>0, <1>1, <2>1, <2>2, CallKept, RowsKept
<1> QED
  BY <1>2, <1>3 DEF CreateReserve

LEMMA CreateInsertTyped ==
    ASSUME TInv, NEW c \in mix.calls, CreateInsert(c)
    PROVE  TInv' /\ Prevails
<1>0. TypeOK /\ Op(c) = "create"
  BY DEF TInv, PointInv, CreateInsert, At
<1>1. Box(c) \in Sandboxes
  BY <1>0, CallShape
<1>2. UNCHANGED <<mix, vol, host, rpc, orig, held, cb, stream, con, mon, online, reach>>
  BY DEF CreateInsert
<1>3. \E p \in Points : Goto(c, p) /\ Fits(c, p)
  BY <1>0 DEF CreateInsert, Points, Fits
<1>4. row' \in [Sandboxes -> Statuses] /\ old' \in [Sandboxes -> BOOLEAN] /\ Prevails
  <2>1. CASE InsertSandbox(Box(c))
    BY <2>1, <1>0, <1>1, StatusUpdated DEF InsertSandbox, Statuses, Transient, Prevails
  <2>2. CASE UNCHANGED <<row, old>>
    BY <2>2, <1>0, RowsKept DEF TypeOK
  <2> QED
    BY <2>1, <2>2 DEF CreateInsert
<1>5. DataOK'
  BY <1>0, <1>2, <1>4 DEF TypeOK, DataOK, host
<1> QED
  BY <1>2, <1>3, <1>4, <1>5, CallKept

LEMMA CreateLinkTyped ==
    ASSUME TInv, NEW c \in mix.calls, CreateLink(c)
    PROVE  TInv' /\ Prevails
<1>0. TypeOK /\ Op(c) = "create"
  BY DEF TInv, PointInv, CreateLink, At
<1>1. vol' \in [Volumes -> VolumeRow]
  BY <1>0, CallShape, LinkedTo DEF CreateLink
<1>2. DataOK'
  BY <1>0, <1>1 DEF TypeOK, DataOK, host, CreateLink, Send
<1>3. "wait" \in Points /\ Fits(c, "wait")
  BY DEF Points, Fits
<1> QED
  BY <1>0, <1>2, <1>3, CallKept, RowsKept DEF CreateLink

LEMMA CreateConfirmTyped ==
    ASSUME TInv, NEW c \in mix.calls, CreateConfirm(c)
    PROVE  TInv' /\ Prevails
<1>0. TypeOK /\ Op(c) = "create"
  BY DEF TInv, PointInv, CreateConfirm, At
<1>1. Box(c) \in Sandboxes
  BY <1>0, CallShape
<1>2. /\ agent' \in [Sandboxes -> AgentStates]
      /\ rpc' \in [mix.calls -> {"none", "sent", "lost", "ok", "err"}]
  <2>1. CASE AgentDestroys(Box(c)) /\ rpc' = Cancelled(Box(c))
    BY <2>1, <1>0, <1>1, Destroyed
  <2>2. CASE UNCHANGED <<agent, rpc>>
    BY <2>2, <1>0 DEF TypeOK
  <2> QED
    BY <2>1, <2>2 DEF CreateConfirm
<1>3. \E p \in Points : Goto(c, p) /\ Fits(c, p)
  BY <1>0 DEF CreateConfirm, Points, Fits
<1>4. UNCHANGED <<mix, db, file, orig, held, cb, stream, con, mon, online, reach>>
  BY DEF CreateConfirm
<1>5. DataOK' /\ row' = row
  BY <1>0, <1>2, <1>4 DEF TypeOK, DataOK, db
<1> QED
  BY <1>0, <1>3, <1>4, <1>5, CallKept, RowsKept

(* The steps that move a capsule's row by a compare-and-set and tell the    *)
(* stream.                                                                  *)
LEMMA RowStep ==
    ASSUME TInv, NEW c \in mix.calls, NEW p \in Points, Goto(c, p), Fits(c, p),
           NEW from, NEW to \in Statuses, from # "stopping" \/ to = "stopped",
           Box(c) \in Sandboxes, UpdateSandboxStatusIf(Box(c), from, to),
           stream' \in Seq(EventKinds \X Sandboxes), UNCHANGED <<mix, vol, host, rpc, orig, held, cb, con, mon, online, reach>>
    PROVE  TInv' /\ Prevails
<1>0. TypeOK
  BY DEF TInv
<1>1. /\ row' \in [Sandboxes -> Statuses] /\ old' \in [Sandboxes -> BOOLEAN]
      /\ \A t \in Sandboxes : row'[t] = row[t] \/ (t = Box(c) /\ row[t] = from /\ row'[t] = to)
  BY <1>0, StatusUpdatedIf
<1>2. DataOK'
  BY <1>0, <1>1 DEF TypeOK, DataOK, host
<1>3. Prevails
  BY <1>1 DEF Prevails
<1> QED
  BY <1>2, <1>3, CallKept

LEMMA CreateEnds ==
    ASSUME TInv, NEW c \in mix.calls, CreateFail(c) \/ CreateRun(c) \/ DestroyStop(c)
    PROVE  TInv' /\ Prevails
<1>0. TypeOK /\ Op(c) \in {"create", "destroy"}
  BY DEF TInv, PointInv, CreateFail, CreateRun, DestroyStop, At
<1>1. Box(c) \in Sandboxes
  BY <1>0, CallShape
<1>2. \E k \in EventKinds : Publish(<<<<k, Box(c)>>>>)
  BY DEF CreateFail, CreateRun, DestroyStop, EventKinds
<1>3. stream' \in Seq(EventKinds \X Sandboxes)
  BY <1>0, <1>1, <1>2, PublishedOne
<1>4. "done" \in Points /\ Fits(c, "done") /\ Goto(c, "done")
  BY DEF Points, Fits, CreateFail, CreateRun, DestroyStop
<1>5. "error" \in Statuses /\ "running" \in Statuses /\ "stopped" \in Statuses
  BY DEF Statuses, Terminal
<1>6. UNCHANGED <<mix, vol, host, rpc, orig, held, cb, con, mon, online, reach>>
  BY DEF CreateFail, CreateRun, DestroyStop
<1>7. CASE CreateFail(c)
  BY <1>7, <1>1, <1>3, <1>4, <1>5, <1>6, RowStep DEF CreateFail
<1>8. CASE CreateRun(c)
  BY <1>8, <1>1, <1>3, <1>4, <1>5, <1>6, RowStep DEF CreateRun, UpdateSandboxRunningIf
<1>9. CASE DestroyStop(c)
  BY <1>9, <1>1, <1>3, <1>4, <1>5, <1>6, RowStep DEF DestroyStop
<1> QED
  BY <1>7, <1>8, <1>9

LEMMA BeginTyped ==
    ASSUME TInv, NEW c \in mix.calls, Begin(c)
    PROVE  TInv' /\ Prevails
<1>0. TypeOK /\ Op(c) \in DOMAIN Transition
  BY DEF TInv, Begin
<1>1. /\ Op(c) \in {"pause", "resume", "snapshot"} /\ Via(c) \in Statuses
      /\ Transition[Op(c)].from \subseteq {"running", "paused"}
  BY <1>0, Transitions DEF Via
<1>2. Box(c) \in Sandboxes
  BY <1>0, <1>1, CallShape
<1>3. UNCHANGED <<mix, vol, host, held, cb, stream, con, mon, online, reach>>
  BY DEF Begin
<1>4. \E p \in Points : Goto(c, p) /\ Fits(c, p)
  BY <1>1 DEF Begin, Points, Fits
<1>5. rpc' \in [mix.calls -> {"none", "sent", "lost", "ok", "err"}]
  BY <1>0 DEF TypeOK, Begin, Send
<1>6. /\ row' \in [Sandboxes -> Statuses] /\ old' \in [Sandboxes -> BOOLEAN]
      /\ orig' \in [mix.calls -> {"none", "running", "paused"}] /\ Prevails
  <2>1. CASE /\ row[Box(c)] \in Transition[Op(c)].from
             /\ UpdateSandboxStatusIf(Box(c), row[Box(c)], Via(c))
             /\ orig' = [orig EXCEPT ![c] = row[Box(c)]]
    <3>1. row[Box(c)] \in {"running", "paused"}
      BY <1>1, <2>1
    <3>2. orig' \in [mix.calls -> {"none", "running", "paused"}]
      BY <1>0, <2>1, <3>1 DEF TypeOK
    <3> QED
      BY <1>0, <1>1, <1>2, <2>1, <3>1, <3>2, StatusUpdatedIf DEF Prevails
  <2>2. CASE UNCHANGED <<row, old, orig, rpc>>
    BY <2>2, <1>0, RowsKept DEF TypeOK
  <2> QED
    BY <2>1, <2>2 DEF Begin
<1>7. DataOK'
  BY <1>0, <1>3, <1>5, <1>6 DEF TypeOK, DataOK, host
<1> QED
  BY <1>3, <1>4, <1>6, <1>7, CallKept

LEMMA FinishTyped ==
    ASSUME TInv, NEW c \in mix.calls, Undo(c) \/ Finish(c) \/ FinishFailed(c)
    PROVE  TInv' /\ Prevails
<1>0. TypeOK /\ Op(c) \in {"pause", "resume", "snapshot"} /\ Op(c) \in DOMAIN Transition
  BY DEF TInv, PointInv, Undo, Finish, FinishFailed, At, Transition
<1>1. Via(c) \in Statuses /\ Via(c) # "stopping" /\ orig[c] \in Statuses
  BY <1>0, Transitions DEF Via, TypeOK, Statuses
<1>2. Box(c) \in Sandboxes
  BY <1>0, CallShape
<1>3. "done" \in Points /\ Fits(c, "done") /\ Goto(c, "done")
  BY DEF Points, Fits, Undo, Finish, FinishFailed
<1>4. UNCHANGED <<mix, vol, host, rpc, orig, held, cb, con, mon, online, reach>>
  BY DEF Undo, Finish, FinishFailed
<1>5. \/ UNCHANGED stream
      \/ \E k \in EventKinds : Publish(<<<<k, Box(c)>>>>)
  BY <1>0 DEF Undo, Finish, FinishFailed, EventKinds
<1>6. stream' \in Seq(EventKinds \X Sandboxes)
  BY <1>0, <1>2, <1>5, PublishedOne DEF TypeOK
<1>7. CASE Undo(c) \/ FinishFailed(c)
  BY <1>7, <1>1, <1>2, <1>3, <1>4, <1>6, RowStep DEF Undo, FinishFailed
<1>8. CASE Finish(c)
  <2>1. \E from \in {"pausing", "resuming", "snapshotting"}, to \in {"paused", "running", orig[c]} :
            UpdateSandboxStatusIf(Box(c), from, to)
    BY <1>8, <1>0 DEF Finish, UpdateSandboxRunningIf
  <2>2. "paused" \in Statuses /\ "running" \in Statuses
    BY DEF Statuses
  <2> QED
    BY <2>1, <2>2, <1>1, <1>2, <1>3, <1>4, <1>6, RowStep
<1> QED
  BY <1>7, <1>8

LEMMA DestroyMarkTyped ==
    ASSUME TInv, NEW c \in mix.calls, DestroyMark(c)
    PROVE  TInv' /\ Prevails
<1>0. TypeOK /\ Op(c) = "destroy"
  BY DEF TInv, PointInv, DestroyMark, At
<1>1. Box(c) \in Sandboxes /\ "stopping" \in Statuses
  BY <1>0, CallShape DEF Statuses, Transient
<1>2. /\ row' \in [Sandboxes -> Statuses] /\ old' \in [Sandboxes -> BOOLEAN]
      /\ row'[Box(c)] = "stopping" /\ \A t \in Sandboxes \ {Box(c)} : row'[t] = row[t]
  BY <1>0, <1>1, StatusUpdated DEF DestroyMark
<1>3. DataOK'
  BY <1>0, <1>2 DEF TypeOK, DataOK, host, DestroyMark, Send
<1>4. "wait" \in Points /\ Fits(c, "wait")
  BY DEF Points, Fits
<1>5. TInv'
  BY <1>3, <1>4, CallKept DEF DestroyMark
<1> QED
  BY <1>2, <1>5 DEF Prevails

LEMMA DeleteBeginTyped ==
    ASSUME TInv, NEW c \in mix.calls, DeleteBegin(c)
    PROVE  TInv' /\ Prevails
<1>0. TypeOK /\ Op(c) = "delete"
  BY DEF TInv, DeleteBegin
<1>1. Box(c) \in Volumes
  BY <1>0, CallShape DEF BoxOps
<1>2. UNCHANGED <<mix, row, old, host, orig, held, cb, stream, con, mon, online, reach>>
  BY DEF DeleteBegin
<1>3. \E p \in Points : Goto(c, p) /\ Fits(c, p)
  BY <1>0 DEF DeleteBegin, Points, Fits
<1>4. rpc' \in [mix.calls -> {"none", "sent", "lost", "ok", "err"}]
  BY <1>0 DEF TypeOK, DeleteBegin, Send
<1>5. vol' \in [Volumes -> VolumeRow]
  BY <1>0, <1>1, VolumeSet DEF DeleteBegin, BeginVolumeDelete, TypeOK
<1>6. DataOK'
  BY <1>0, <1>2, <1>4, <1>5 DEF TypeOK, DataOK, host
<1> QED
  BY <1>0, <1>2, <1>3, <1>6, CallKept, RowsKept

LEMMA ServeTyped ==
    ASSUME TInv, NEW c \in mix.calls, Serve(c)
    PROVE  TInv' /\ Prevails
<1>0. TypeOK
  BY DEF TInv
<1>1. UNCHANGED <<mix, db, pc, orig, held, cb, stream, con, mon, online, reach>>
  BY DEF Serve
<1>2. Op(c) \in BoxOps => Box(c) \in Sandboxes
  BY <1>0, CallShape DEF BoxOps
<1>3. /\ agent' \in [Sandboxes -> AgentStates] /\ file' \in [Volumes -> BOOLEAN]
      /\ rpc' \in [mix.calls -> {"none", "sent", "lost", "ok", "err"}]
  <2>0. agent \in [Sandboxes -> AgentStates] /\ file \in [Volumes -> BOOLEAN]
    BY <1>0 DEF TypeOK
  <2>1. CASE ServeCreate(c)
    <3>1. agent' \in [Sandboxes -> AgentStates]
      BY <2>0, <2>1 DEF ServeCreate, AgentStates
    <3>2. file' \in [Volumes -> BOOLEAN]
      BY <2>0, <2>1 DEF ServeCreate
    <3> QED
      BY <2>1, <3>1, <3>2, <1>0, AnswersEnd DEF ServeCreate
  <2>2. CASE ServePause(c)
    <3>1. agent' \in [Sandboxes -> AgentStates]
      BY <2>0, <2>2 DEF ServePause, AgentStates
    <3> QED
      BY <2>0, <2>2, <3>1, <1>0, Answered, AnswersEnd DEF ServePause
  <2>3. CASE ServeResume(c)
    <3>1. agent' \in [Sandboxes -> AgentStates]
      BY <2>0, <2>3 DEF ServeResume, AgentStates
    <3> QED
      BY <2>0, <2>3, <3>1, <1>0, AnswersEnd DEF ServeResume
  <2>4. CASE ServeSnapshot(c)
    BY <2>0, <2>4, <1>0, AnswersEnd DEF ServeSnapshot
  <2>5. CASE ServeDestroy(c)
    <3>1. /\ agent' \in [Sandboxes -> AgentStates]
          /\ Cancelled(Box(c)) \in [mix.calls -> {"none", "sent", "lost", "ok", "err"}]
      BY <2>5, <1>0, <1>2, Destroyed DEF ServeDestroy, BoxOps, Ops
    <3> QED
      BY <2>0, <2>5, <3>1 DEF ServeDestroy
  <2>6. CASE ServeDelete(c)
    BY <2>0, <2>6, <1>0, AnswersEnd DEF ServeDelete
  <2> QED
    BY <2>1, <2>2, <2>3, <2>4, <2>5, <2>6 DEF Serve
<1>4. DataOK' /\ row' = row
  BY <1>0, <1>1, <1>3 DEF TypeOK, DataOK, db
<1> QED
  BY <1>0, <1>1, <1>4, DataKept, RowsKept DEF TypeOK

LEMMA RefuseTyped ==
    ASSUME TInv, NEW c \in mix.calls, Refuse(c) \/ GiveUp(c)
    PROVE  TInv' /\ Prevails
<1>0. TypeOK
  BY DEF TInv
<1>1. UNCHANGED <<mix, db, host, pc, orig, held, cb, stream, con, mon, online, reach>>
  BY DEF Refuse, GiveUp
<1>2. rpc' \in [mix.calls -> {"none", "sent", "lost", "ok", "err"}]
  BY <1>0, Answered DEF Refuse, GiveUp
<1>3. DataOK' /\ row' = row
  BY <1>0, <1>1, <1>2 DEF TypeOK, DataOK, db, host
<1> QED
  BY <1>0, <1>1, <1>3, DataKept, RowsKept DEF TypeOK

-----------------------------------------------------------------------------
(* So do the reaper, the agent, its callbacks and the consumer.             *)

LEMMA ReapTyped ==
    ASSUME TInv, Reap
    PROVE  TInv' /\ Prevails
<1>0. TypeOK
  BY DEF TInv
<1>1. vol' \in [Volumes -> VolumeRow]
  BY <1>0, Reaped DEF Reap
<1>2. UNCHANGED <<mix, row, old, host, calls, cb, stream, con, mon, online, reach>>
  BY DEF Reap
<1>3. DataOK'
  BY <1>0, <1>1, <1>2 DEF TypeOK, DataOK, calls, host
<1> QED
  BY <1>0, <1>2, <1>3, DataKept, RowsKept DEF TypeOK, calls

LEMMA ExpireTyped ==
    ASSUME TInv, NEW s \in Sandboxes, Expire(s)
    PROVE  TInv' /\ Prevails
<1>0. TypeOK
  BY DEF TInv
<1>1. UNCHANGED <<mix, db, file, calls, stream, con, mon, online, reach>>
  BY DEF Expire
<1>2. PICK e \in {<<"paused", "paused">>, <<"stopped", "absent">>, <<"error", "absent">>} :
         agent' = [agent EXCEPT ![s] = e[2]] /\ cb' \in {cb, cb \cup {<<e[1], s>>}}
  BY DEF Expire
<1>3. agent' \in [Sandboxes -> AgentStates]
  BY <1>0, <1>2, SMT, SMTT(20) DEF TypeOK, AgentStates
<1>4. cb' \subseteq {"paused", "stopped", "error"} \X Sandboxes
  BY <1>0, <1>2, SMT, SMTT(20) DEF TypeOK
<1>5. DataOK' /\ row' = row
  BY <1>0, <1>1, <1>3 DEF TypeOK, DataOK, calls, db
<1> QED
  BY <1>0, <1>1, <1>4, <1>5, DataKept, RowsKept DEF TypeOK, calls

LEMMA CallbackTyped ==
    ASSUME TInv, NEW e \in cb, Callback(e)
    PROVE  TInv' /\ Prevails
<1>0. TypeOK
  BY DEF TInv
<1>1. UNCHANGED <<mix, db, host, calls, con, mon, online, reach>> /\ cb' = cb \ {e}
  BY DEF Callback
<1>2. e = <<e[1], e[2]>> /\ e[1] \in {"paused", "stopped", "error"} /\ e[2] \in Sandboxes
  BY <1>0, SMT, SMTT(20) DEF TypeOK
<1>3. \/ UNCHANGED stream
      \/ \E k \in {"paused", "stopped", "failed"} : Publish(<<<<k, e[2]>>>>)
  BY <1>2 DEF Callback
<1>4. stream' \in Seq(EventKinds \X Sandboxes)
  BY <1>0, <1>2, <1>3, PublishedOne DEF TypeOK, EventKinds
<1>5. DataOK' /\ row' = row
  BY <1>0, <1>1, <1>4 DEF TypeOK, DataOK, calls, db, host
<1>6. cb' \subseteq {"paused", "stopped", "error"} \X Sandboxes
  BY <1>0, <1>1 DEF TypeOK
<1> QED
  BY <1>0, <1>1, <1>5, <1>6, DataKept, RowsKept DEF TypeOK, calls

(* A step of the consumer or of the monitor keeps the types when it keeps   *)
(* those of the data and of its own record.                                 *)
LEMMA Kept ==
    ASSUME TInv, DataOK', UNCHANGED <<mix, pc, cb>>, con' \in Event, ConInv', mon' \in Tick, MonInv',
           online' \in BOOLEAN, reach' \in BOOLEAN
    PROVE  TInv'
<1>1. TypeOK'
  BY DEF TInv, TypeOK, DataOK
<1>2. PointInv'
  BY DEF TInv, PointInv
<1> QED
  BY <1>1, <1>2 DEF TInv

LEMMA AgeTyped ==
    ASSUME TInv, NEW s \in Sandboxes, Age(s)
    PROVE  TInv' /\ Prevails
<1>0. TypeOK
  BY DEF TInv
<1>1. UNCHANGED <<mix, row, vol, host, calls, cb, stream, con, mon, online, reach>>
  BY DEF Age
<1>2. old' \in [Sandboxes -> BOOLEAN]
  BY <1>0 DEF TypeOK, Age
<1>3. DataOK'
  BY <1>0, <1>1, <1>2 DEF TypeOK, DataOK, calls, host
<1> QED
  BY <1>0, <1>1, <1>3, DataKept, RowsKept DEF TypeOK, calls

LEMMA HandlerShape ==
    ASSUME NEW k \in EventKinds
    PROVE  /\ Handler[k].todo \in Seq(Statuses \cup {"detach"}) /\ Handler[k].todo # <<>>
           /\ k # "stopped" => \A i \in 1..Len(Handler[k].todo) : Handler[k].todo[i] # "stopping"
           /\ k \notin {"stopped", "failed"} => \A i \in 1..Len(Handler[k].todo) : Handler[k].todo[i] # "detach"
           /\ Handler[k].to \in Statuses /\ (k = "stopped" => Handler[k].to = "stopped")
<1> DEFINE T == Statuses \cup {"detach"}
<1>0. /\ {"starting", "pausing", "resuming", "snapshotting", "stopping", "running", "detach"} \subseteq T
      /\ {"running", "paused", "stopped", "error"} \subseteq Statuses
  BY DEF Statuses, Transient, Terminal
<1> HIDE DEF T
<1> SUFFICES /\ Handler[k].todo \in Seq(T) /\ Handler[k].todo # <<>>
             /\ k # "stopped" => \A i \in 1..Len(Handler[k].todo) : Handler[k].todo[i] # "stopping"
             /\ k \notin {"stopped", "failed"} => \A i \in 1..Len(Handler[k].todo) : Handler[k].todo[i] # "detach"
             /\ Handler[k].to \in Statuses /\ (k = "stopped" => Handler[k].to = "stopped")
  BY DEF T
<1>1. CASE k = "started"
  <2>1. Handler[k].todo = <<"starting">> /\ Handler[k].to = "running"
    BY <1>1 DEF Handler
  <2> QED
    BY <1>0, <1>1, <2>1, SMT, SMTT(20)
<1>2. CASE k = "resumed"
  <2>1. Handler[k].todo = <<"resuming">> /\ Handler[k].to = "running"
    BY <1>2 DEF Handler
  <2> QED
    BY <1>0, <1>2, <2>1, SMT, SMTT(20)
<1>3. CASE k = "paused"
  <2>1. Handler[k].todo = <<"running", "pausing">> /\ Handler[k].to = "paused"
    BY <1>3 DEF Handler
  <2> QED
    BY <1>0, <1>3, <2>1, SMT, SMTT(20)
<1>4. CASE k = "stopped"
  <2>1. Handler[k].todo = <<"detach", "stopping", "running">> /\ Handler[k].to = "stopped"
    BY <1>4 DEF Handler
  <2> QED
    BY <1>0, <1>4, <2>1, SMT, SMTT(20)
<1>5. CASE k = "failed"
  <2>1. Handler[k].todo = <<"detach", "running", "starting", "pausing", "resuming", "snapshotting">> /\ Handler[k].to = "error"
    BY <1>5 DEF Handler
  <2> QED
    BY <1>0, <1>5, <2>1, SMT, SMTT(20)
<1> QED
  BY <1>1, <1>2, <1>3, <1>4, <1>5 DEF EventKinds

LEMMA ConsumeTyped ==
    ASSUME TInv, Consume
    PROVE  TInv' /\ Prevails
<1>0. TypeOK /\ MonInv
  BY DEF TInv
<1>1. UNCHANGED <<mix, db, host, calls, cb, mon, online, reach>>
  BY DEF Consume
<1>2. /\ stream \in Seq(EventKinds \X Sandboxes) /\ stream # <<>>
      /\ Head(stream) \in EventKinds \X Sandboxes /\ stream' \in Seq(EventKinds \X Sandboxes)
  BY <1>0, SMT, SMTT(20) DEF TypeOK, Consume
<1>3. PICK k \in EventKinds, s \in Sandboxes : Head(stream) = <<k, s>>
  BY <1>2, SMT, SMTT(20)
<1>4. con' = [kind |-> k, box |-> s, todo |-> Handler[k].todo]
  BY <1>3, SMT, SMTT(20) DEF Consume
<1>5. con' \in Event
  BY <1>4, HandlerShape DEF Event
<1>6. ConInv'
  BY <1>4, HandlerShape DEF ConInv
<1>7. DataOK' /\ row' = row
  BY <1>0, <1>1, <1>2 DEF TypeOK, DataOK, calls, db, host
<1>8. mon' \in Tick /\ MonInv'
  BY <1>0, <1>1 DEF TypeOK, MonInv
<1> QED
  BY <1>0, <1>1, <1>5, <1>6, <1>7, <1>8, Kept, RowsKept DEF TypeOK, calls

LEMMA Advanced ==
    ASSUME TInv, con # NoEvent, Advance \/ con' = NoEvent
    PROVE  con' \in Event /\ ConInv'
<1>0. con \in Event /\ ConInv /\ con.todo # <<>>
  BY DEF TInv, TypeOK, ConInv
<1>1. CASE con' = NoEvent
  BY <1>1, SMT, SMTT(20) DEF NoEvent, Event, ConInv
<1>2. CASE con' = [con EXCEPT !.todo = Tail(@)] /\ Len(con.todo) # 1
  <2>1. con.todo \in Seq(Statuses \cup {"detach"})
    BY <1>0 DEF Event
  <2>2. /\ Tail(con.todo) \in Seq(Statuses \cup {"detach"}) /\ Tail(con.todo) # <<>>
        /\ Len(Tail(con.todo)) = Len(con.todo) - 1 /\ Len(con.todo) \in Nat
        /\ \A i \in 1..Len(Tail(con.todo)) : Tail(con.todo)[i] = con.todo[i + 1] /\ i + 1 \in 1..Len(con.todo)
    <3> DEFINE q == con.todo  T == Statuses \cup {"detach"}
    <3>1. q \in Seq(T) /\ q # <<>> /\ Len(q) # 1
      BY <1>0, <1>2, <2>1
    <3> HIDE DEF q, T
    <3>2. /\ Tail(q) \in Seq(T) /\ Len(Tail(q)) = Len(q) - 1 /\ Len(q) \in Nat
          /\ \A i \in 1..Len(Tail(q)) : Tail(q)[i] = q[i + 1] /\ i + 1 \in 1..Len(q)
      BY <3>1, SMT, SMTT(20)
    <3>3. Tail(q) # <<>>
      <4>1. Len(q) # 0
        BY <3>1, SMT, SMTT(20)
      <4>2. Len(Tail(q)) # 0 /\ Len(<<>>) = 0
        BY <3>1, <3>2, <4>1, SMT, SMTT(20)
      <4> QED
        BY <4>2
    <3> QED
      BY <3>2, <3>3 DEF q, T
  <2>3. con' \in Event /\ con'.kind = con.kind /\ con'.box = con.box /\ con'.todo = Tail(con.todo)
    BY <1>0, <1>2, <2>2 DEF Event
  <2> QED
    BY <1>0, <2>2, <2>3 DEF ConInv
<1> QED
  BY <1>1, <1>2 DEF Advance

LEMMA HandleTyped ==
    ASSUME TInv, Handle
    PROVE  TInv' /\ Prevails
<1>0. TypeOK /\ ConInv /\ MonInv /\ con # NoEvent
  BY DEF TInv, Handle
<1>1. UNCHANGED <<mix, host, calls, cb, stream, mon, online, reach>>
  BY DEF Handle
<1>2. con' \in Event /\ ConInv'
  BY Advanced DEF Handle
<1>3. con.kind \in EventKinds /\ con.box \in Sandboxes /\ con.todo \in Seq(Statuses \cup {"detach"}) /\ con.todo # <<>>
  BY <1>0 DEF TypeOK, ConInv, Event
<1>4. /\ row' \in [Sandboxes -> Statuses] /\ old' \in [Sandboxes -> BOOLEAN]
      /\ vol' \in [Volumes -> VolumeRow] /\ Prevails
  <2>1. CASE vol' = DetachVolumesBySandbox(con.box) /\ UNCHANGED <<row, old>>
    BY <2>1, <1>0, Detached, RowsKept DEF DetachVolumesBySandbox, TypeOK
  <2>2. CASE /\ Head(con.todo) = row[con.box] /\ UNCHANGED vol
             /\ UpdateSandboxStatusIf(con.box, Head(con.todo), Handler[con.kind].to)
    <3>1. Handler[con.kind].to \in Statuses /\ (con.kind = "stopped" => Handler[con.kind].to = "stopped")
      BY <1>3, HandlerShape
    <3>2. Head(con.todo) = "stopping" => con.kind = "stopped"
      BY <1>0, <1>3, SMT, SMTT(20) DEF ConInv
    <3>3. /\ row' \in [Sandboxes -> Statuses] /\ old' \in [Sandboxes -> BOOLEAN]
          /\ \A t \in Sandboxes : \/ row'[t] = row[t]
                                  \/ t = con.box /\ row[t] = Head(con.todo) /\ row'[t] = Handler[con.kind].to
      BY <1>0, <1>3, <2>2, <3>1, StatusUpdatedIf, SMT, SMTT(20)
    <3> QED
      BY <1>0, <2>2, <3>1, <3>2, <3>3 DEF Prevails, TypeOK
  <2>3. CASE UNCHANGED db
    BY <2>3, <1>0, RowsKept DEF db, TypeOK
  <2> QED
    BY <2>1, <2>2, <2>3 DEF Handle
<1>5. DataOK'
  BY <1>0, <1>1, <1>4 DEF TypeOK, DataOK, calls, host
<1>6. mon' \in Tick /\ MonInv'
  BY <1>0, <1>1 DEF TypeOK, MonInv
<1> QED
  BY <1>0, <1>1, <1>2, <1>4, <1>5, <1>6, Kept DEF TypeOK, calls

-----------------------------------------------------------------------------
(* Crashes and outages.                                                     *)

LEMMA CrashTyped ==
    ASSUME TInv, Crash
    PROVE  TInv' /\ Prevails
<1>0. TypeOK /\ PointInv
  BY DEF TInv
<1>1. UNCHANGED <<db, host, rpc, orig, held, cb, stream, online, reach>> /\ con' = NoEvent /\ mon' = Idle
  BY DEF Crash
<1>2. mix' \in Scenario /\ mix'.calls = mix.calls
  <2>1. mix \in Scenario /\ mix.crashes \in Nat
    BY <1>0, MixTyped DEF Scenario
  <2>2. PICK n \in Nat : mix' = [mix EXCEPT !.crashes = n]
    BY <2>1, SMT, SMTT(20) DEF Crash
  <2> QED
    BY <2>1, <2>2 DEF Scenario
<1>3. pc' \in [mix'.calls -> Points] /\ \A c \in mix.calls : pc'[c] \in {"idle", "done"}
  BY <1>2 DEF Crash, Points
<1>4. con' \in Event /\ mon' \in Tick
  <2>1. <<>> \in Seq(Statuses \cup {"detach"})
    BY SMT, SMTT(20)
  <2>2. NoEvent \in Event
    BY <2>1 DEF NoEvent, Event
  <2> QED
    BY <1>1, <2>2, IdleTick
<1>5. TypeOK' /\ row' = row
  BY <1>0, <1>1, <1>2, <1>3, <1>4 DEF TypeOK, db, host
<1>6. PointInv'
  BY <1>2, <1>3 DEF PointInv
<1>7. ConInv' /\ MonInv'
  BY <1>1, IdleTick DEF ConInv, MonInv
<1> QED
  BY <1>0, <1>5, <1>6, <1>7, RowsKept DEF TInv

LEMMA OutageTyped ==
    ASSUME TInv, Outage
    PROVE  TInv' /\ Prevails
<1>0. TypeOK /\ PointInv /\ ConInv /\ MonInv
  BY DEF TInv
<1>1. UNCHANGED <<db, file, calls, cb, stream, con, mon, online>> /\ reach' = FALSE
  BY DEF Outage
<1>2. mix' \in Scenario /\ mix'.calls = mix.calls
  <2>1. mix \in Scenario /\ mix.outages \in Nat
    BY <1>0, MixTyped DEF Scenario
  <2>2. PICK n \in Nat : mix' = [mix EXCEPT !.outages = n]
    BY <2>1, SMT, SMTT(20) DEF Outage
  <2> QED
    BY <2>1, <2>2 DEF Scenario
<1>3. agent' \in [Sandboxes -> AgentStates]
  BY <1>0 DEF TypeOK, Outage, AgentStates
<1>4. TypeOK' /\ row' = row
  BY <1>0, <1>1, <1>2, <1>3 DEF TypeOK, db, calls
<1>5. PointInv' /\ ConInv' /\ MonInv'
  BY <1>0, <1>1, <1>2 DEF PointInv, ConInv, MonInv, calls
<1> QED
  BY <1>0, <1>4, <1>5, RowsKept DEF TInv

LEMMA RecoverTyped ==
    ASSUME TInv, Recover \/ Heartbeat
    PROVE  TInv' /\ Prevails
<1>0. TypeOK
  BY DEF TInv
<1>1. UNCHANGED <<mix, db, host, calls, cb, stream, con, mon>> /\ online' \in BOOLEAN /\ reach' \in BOOLEAN
  BY <1>0 DEF Recover, Heartbeat, TypeOK
<1>2. DataOK' /\ row' = row
  BY <1>0, <1>1 DEF TypeOK, DataOK, calls, db, host
<1> QED
  BY <1>0, <1>1, <1>2, DataKept, RowsKept DEF TypeOK, calls

-----------------------------------------------------------------------------
(* The monitor.  Each of its steps changes its record.                      *)

TickPoints == {"idle", "lose", "missing", "stopMissing", "freeMissing", "running", "stopRunning", "freeRunning",
               "sync", "zombies", "bury", "transient", "resolve", "confirmed", "settle"}

LEMMA TickFields ==
    ASSUME TypeOK
    PROVE  /\ mon \in Tick /\ mon.pc \in TickPoints /\ mon.alive \in [Sandboxes -> AgentStates \cup {""}]
           /\ mon.rows \in SUBSET Sandboxes /\ mon.sync \in SUBSET Sandboxes
           /\ mon.seen \in [Sandboxes -> Statuses \cup {"absent"}] /\ mon.item \in Sandboxes \cup {None}
  BY DEF TypeOK, Tick, TickPoints

LEMMA TickMade ==
    ASSUME NEW p \in TickPoints, NEW a \in [Sandboxes -> AgentStates \cup {""}], NEW r \in SUBSET Sandboxes,
           NEW y \in SUBSET Sandboxes, NEW e \in [Sandboxes -> Statuses \cup {"absent"}], NEW i \in Sandboxes \cup {None},
           mon' = [pc |-> p, alive |-> a, rows |-> r, sync |-> y, seen |-> e, item |-> i],
           p \in {"stopRunning", "freeRunning", "sync"} => \A s \in y : a[s] \in {"paused", "error"},
           p \in {"confirmed", "settle"} => i \in Sandboxes
    PROVE  mon' \in Tick /\ MonInv'
<1>1. mon' \in Tick
  BY DEF Tick, TickPoints
<1>2. MonInv'
  BY DEF MonInv
<1> QED
  BY <1>1, <1>2

(* A tick that is over, or moves on.                                        *)
LEMMA TickOver ==
    ASSUME mon' = Idle
    PROVE  mon' \in Tick /\ MonInv'
  BY IdleTick DEF MonInv

LEMMA TickMoves ==
    ASSUME TInv, UNCHANGED <<mix, pc, cb, con>>, online' \in BOOLEAN, reach' \in BOOLEAN, DataOK',
           mon' \in Tick, MonInv', mon' # mon
    PROVE  TInv' /\ Prevails
<1>1. con' \in Event /\ ConInv'
  BY DEF TInv, TypeOK, ConInv
<1>2. TInv'
  BY <1>1, Kept
<1> QED
  BY <1>2 DEF Prevails

LEMMA DoneTyped ==
    ASSUME TypeOK, NEW s, Done(s)
    PROVE  /\ mon' \in Tick /\ MonInv'
           /\ mon' = Idle \/ (mon'.pc = "resolve" /\ (s \in mon.rows => mon'.rows # mon.rows))
<1>1. CASE mon' = Idle
  BY <1>1, TickOver
<1>2. CASE mon' = [mon EXCEPT !.pc = "resolve", !.rows = @ \ {s}, !.item = None]
  <2>1. mon' = [pc |-> "resolve", alive |-> mon.alive, rows |-> mon.rows \ {s}, sync |-> mon.sync, seen |-> mon.seen, item |-> None]
    BY <1>2, TickFields DEF Tick
  <2>2. "resolve" \in TickPoints
    BY DEF TickPoints
  <2>3. mon' \in Tick /\ MonInv'
    BY <2>1, <2>2, TickFields, TickMade
  <2> QED
    BY <2>1, <2>3
<1> QED
  BY <1>1, <1>2 DEF Done

LEMMA StepTyped ==
    ASSUME TypeOK, NEW s \in Sandboxes, NEW p \in {"confirmed", "settle"}, Step(s, p)
    PROVE  mon' \in Tick /\ MonInv' /\ mon'.pc = p
<1>1. mon' = [pc |-> p, alive |-> mon.alive, rows |-> mon.rows, sync |-> mon.sync, seen |-> mon.seen, item |-> s]
  BY TickFields DEF Step, Tick
<1>2. p \in TickPoints
  BY DEF TickPoints
<1>3. mon' \in Tick /\ MonInv'
  BY <1>1, <1>2, TickFields, TickMade
<1> QED
  BY <1>1, <1>3

LEMMA MarkTyped ==
    ASSUME TInv, MarkUnreachable \/ MonitorList
    PROVE  TInv' /\ Prevails
<1>0. TypeOK /\ mon = Idle
  BY DEF TInv, MarkUnreachable, MonitorList
<1>1. /\ UNCHANGED <<mix, db, host, calls, cb, stream, con>>
      /\ online' \in BOOLEAN /\ reach' \in BOOLEAN
  BY <1>0 DEF MarkUnreachable, MonitorList, TypeOK
<1>2. DataOK'
  BY <1>0, <1>1 DEF TypeOK, DataOK, calls, db, host
<1>3. PICK p \in {"lose", "missing"}, f \in [Sandboxes -> AgentStates \cup {""}] :
         mon' = [pc |-> p, alive |-> f, rows |-> {}, sync |-> {}, seen |-> NoStatus, item |-> None]
  <2>1. CASE MarkUnreachable
    BY <2>1, IdleTick DEF MarkUnreachable, Idle
  <2>2. CASE MonitorList
    BY <2>2 DEF MonitorList, Idle
  <2> QED
    BY <2>1, <2>2
<1>4. NoStatus \in [Sandboxes -> Statuses \cup {"absent"}]
  BY DEF NoStatus
<1>5. mon' \in Tick /\ MonInv' /\ mon'.pc # "idle"
  <2>1. p \in TickPoints /\ p \notin {"stopRunning", "freeRunning", "sync", "confirmed", "settle"}
    BY DEF TickPoints
  <2>2. {} \in SUBSET Sandboxes /\ None \in Sandboxes \cup {None}
    OBVIOUS
  <2>3. mon' \in Tick /\ MonInv'
    BY <1>3, <1>4, <2>1, <2>2, TickMade
  <2> QED
    BY <1>3, <2>3
<1>6. mon' # mon
  BY <1>0, <1>5, IdleTick
<1> QED
  BY <1>1, <1>2, <1>5, <1>6, TickMoves DEF calls

LEMMA MarkMissingTyped ==
    ASSUME TInv, MarkMissing
    PROVE  TInv' /\ Prevails
<1>0. TypeOK /\ mon.pc = "lose"
  BY DEF TInv, MarkMissing
<1>1. UNCHANGED <<mix, vol, host, calls, cb, stream, con, online, reach>> /\ mon' = Idle
  BY DEF MarkMissing
<1>2. row' \in [Sandboxes -> Statuses] /\ old' \in [Sandboxes -> BOOLEAN]
  <2> DEFINE st == [s \in Sandboxes |-> "missing"]
  <2>1. PICK S \in SUBSET Sandboxes : BulkUpdateStatusByIDs(S, st)
    BY DEF MarkMissing, MarkSandboxesMissingByHost, ListSandboxesByHostAndStatus
  <2>2. \A s \in S : st[s] \in Statuses
    BY DEF Statuses, Transient
  <2> HIDE DEF st
  <2> QED
    BY <1>0, <2>1, <2>2, BulkUpdated
<1>3. DataOK'
  BY <1>0, <1>1, <1>2 DEF TypeOK, DataOK, calls, host
<1>4. mon' \in Tick /\ MonInv' /\ mon' # mon
  BY <1>0, <1>1, TickOver, IdleTick
<1> QED
  BY <1>0, <1>1, <1>3, <1>4, TickMoves DEF TypeOK, calls

LEMMA MonitorRestoreTyped ==
    ASSUME TInv, Listable, MonitorRestore
    PROVE  TInv' /\ Prevails
<1> DEFINE found == {s \in ListSandboxesByHostAndStatus({"missing"}) : mon.alive[s] \notin {"absent", ""}}
           dead  == ListSandboxesByHostAndStatus({"missing"}) \cap Reported("absent")
<1>0. TypeOK /\ mon.pc = "missing"
  BY DEF TInv, MonitorRestore
<1>1. UNCHANGED <<mix, vol, host, calls, cb, con, online, reach>>
  BY DEF MonitorRestore
<1>2. found \in SUBSET Sandboxes /\ dead \in SUBSET Sandboxes
  BY DEF ListSandboxesByHostAndStatus
<1>3. \A s \in found : mon.alive[s] \in Statuses
  BY <1>0, <1>2, TickFields DEF AgentStates, Statuses, Terminal
<1>4. /\ BulkRestoreMissingToStatus(found, mon.alive)
      /\ Publish(Events("paused", found \cap Reported("paused")))
      /\ mon' = [mon EXCEPT !.pc = IF dead = {} THEN "running" ELSE "stopMissing", !.rows = dead]
  BY DEF MonitorRestore
<1> HIDE DEF found, dead
<1>5. row' \in [Sandboxes -> Statuses] /\ old' \in [Sandboxes -> BOOLEAN]
  <2> DEFINE S == found \cap ListSandboxesByHostAndStatus({"missing"})
  <2>1. S \in SUBSET Sandboxes /\ (\A s \in S : mon.alive[s] \in Statuses) /\ BulkUpdateStatusByIDs(S, mon.alive)
    BY <1>2, <1>3, <1>4 DEF BulkRestoreMissingToStatus
  <2> HIDE DEF S
  <2> QED
    BY <1>0, <2>1, BulkUpdated
<1>6. stream' \in Seq(EventKinds \X Sandboxes)
  <2>1. found \cap Reported("paused") \in SUBSET Sandboxes /\ "paused" \in EventKinds
    BY <1>2 DEF EventKinds
  <2> QED
    BY <1>0, <1>4, <2>1, Published DEF Listable
<1>7. DataOK'
  BY <1>0, <1>1, <1>5, <1>6 DEF TypeOK, DataOK, calls, host
<1>8. PICK p \in {"running", "stopMissing"} :
        mon' = [pc |-> p, alive |-> mon.alive, rows |-> dead, sync |-> mon.sync, seen |-> mon.seen, item |-> mon.item]
  BY <1>0, <1>4, TickFields DEF Tick
<1>9. mon' \in Tick /\ MonInv' /\ mon'.pc # "missing"
  <2>1. p \in TickPoints /\ p \notin {"stopRunning", "freeRunning", "sync", "confirmed", "settle"}
    BY DEF TickPoints
  <2>2. mon' \in Tick /\ MonInv'
    BY <1>0, <1>2, <1>8, <2>1, TickFields, TickMade
  <2> QED
    BY <1>8, <2>2
<1> QED
  BY <1>0, <1>1, <1>7, <1>9, TickMoves DEF TypeOK, calls

LEMMA MonitorStopTyped ==
    ASSUME TInv, MonitorStop
    PROVE  TInv' /\ Prevails
<1>0. TypeOK /\ MonInv /\ mon.pc \in {"stopMissing", "stopRunning"}
  BY DEF TInv, MonitorStop
<1>1. UNCHANGED <<mix, vol, host, calls, cb, stream, con, online, reach>>
  BY DEF MonitorStop
<1>2. row' \in [Sandboxes -> Statuses] /\ old' \in [Sandboxes -> BOOLEAN]
  <2> DEFINE st == [s \in Sandboxes |-> "stopped"]
  <2>1. BulkUpdateStatusByIDs(mon.rows, st)
    BY DEF MonitorStop
  <2>2. \A s \in Sandboxes : st[s] \in Statuses
    BY DEF Statuses, Terminal
  <2> HIDE DEF st
  <2> QED
    BY <1>0, <2>1, <2>2, TickFields, BulkUpdated
<1>3. DataOK'
  BY <1>0, <1>1, <1>2 DEF TypeOK, DataOK, calls, host
<1>4. PICK p \in {"freeMissing", "freeRunning"} :
        /\ mon' = [pc |-> p, alive |-> mon.alive, rows |-> mon.rows, sync |-> mon.sync, seen |-> mon.seen, item |-> mon.item]
        /\ p = "freeRunning" => mon.pc = "stopRunning"
  BY <1>0, TickFields DEF MonitorStop, Tick
<1>5. mon' \in Tick /\ MonInv' /\ mon'.pc \in {"freeMissing", "freeRunning"}
  <2>1. p \in TickPoints /\ (p \in {"stopRunning", "freeRunning", "sync"} => \A s \in mon.sync : mon.alive[s] \in {"paused", "error"})
    BY <1>0, <1>4 DEF TickPoints, MonInv
  <2>2. p \notin {"confirmed", "settle"}
    OBVIOUS
  <2>3. mon' \in Tick /\ MonInv'
    BY <1>0, <1>4, <2>1, <2>2, TickFields, TickMade
  <2> QED
    BY <1>4, <2>3
<1>6. mon' # mon
  BY <1>0, <1>5
<1> QED
  BY <1>0, <1>1, <1>3, <1>5, <1>6, TickMoves DEF TypeOK, calls

LEMMA MonitorFreeTyped ==
    ASSUME TInv, Listable, MonitorFree
    PROVE  TInv' /\ Prevails
<1>0. TypeOK /\ MonInv /\ mon.pc \in {"freeMissing", "freeRunning"}
  BY DEF TInv, MonitorFree
<1>1. UNCHANGED <<mix, row, old, host, calls, cb, con, online, reach>>
  BY DEF MonitorFree
<1>2. vol' \in [Volumes -> VolumeRow]
  BY <1>0, Detached DEF MonitorFree
<1>3. stream' \in Seq(EventKinds \X Sandboxes)
  <2>1. "stopped" \in EventKinds /\ Publish(Events("stopped", mon.rows))
    BY DEF EventKinds, MonitorFree
  <2> QED
    BY <1>0, <2>1, TickFields, Published DEF Listable
<1>4. DataOK'
  BY <1>0, <1>1, <1>2, <1>3 DEF TypeOK, DataOK, calls, host
<1>5. PICK p \in {"running", "sync"} :
        /\ mon' = [pc |-> p, alive |-> mon.alive, rows |-> {}, sync |-> mon.sync, seen |-> mon.seen, item |-> mon.item]
        /\ p = "sync" => mon.pc = "freeRunning"
  BY <1>0, TickFields DEF MonitorFree, Tick
<1>6. mon' \in Tick /\ MonInv' /\ mon'.pc \in {"running", "sync"}
  <2>1. p \in TickPoints /\ (p \in {"stopRunning", "freeRunning", "sync"} => \A s \in mon.sync : mon.alive[s] \in {"paused", "error"})
    BY <1>0, <1>5 DEF TickPoints, MonInv
  <2>2. p \notin {"confirmed", "settle"} /\ {} \in SUBSET Sandboxes
    OBVIOUS
  <2>3. mon' \in Tick /\ MonInv'
    BY <1>0, <1>5, <2>1, <2>2, TickFields, TickMade
  <2> QED
    BY <1>5, <2>3
<1>7. mon' # mon
  BY <1>0, <1>6
<1> QED
  BY <1>0, <1>1, <1>4, <1>6, <1>7, TickMoves DEF TypeOK, calls

(* The steps that only read.                                                *)
LEMMA MonitorReads ==
    ASSUME TInv, MonitorRunning \/ MonitorZombies \/ MonitorTransient
    PROVE  TInv' /\ Prevails
<1>0. TypeOK
  BY DEF TInv
<1>1. UNCHANGED <<mix, db, host, calls, cb, stream, con, online, reach>>
  BY DEF MonitorRunning, MonitorZombies, MonitorTransient
<1>2. DataOK'
  BY <1>0, <1>1 DEF TypeOK, DataOK, calls, db, host
<1>3. mon' \in Tick /\ MonInv' /\ mon' # mon
  <2>1. CASE MonitorRunning
    <3>1. PICK p \in {"sync", "stopRunning"}, r \in SUBSET Sandboxes, y \in SUBSET Sandboxes :
            /\ mon' = [mon EXCEPT !.pc = p, !.rows = r, !.sync = y]
            /\ \A s \in y : mon.alive[s] \in {"paused", "error"}
      <4> DEFINE dead == ListSandboxesByHostAndStatus({"running"}) \cap Reported("absent")
                 y == ListSandboxesByHostAndStatus({"running"}) \cap (Reported("paused") \cup Reported("error"))
      <4>1. dead \in SUBSET Sandboxes /\ y \in SUBSET Sandboxes /\ \A s \in y : mon.alive[s] \in {"paused", "error"}
        BY DEF ListSandboxesByHostAndStatus, Reported
      <4>2. mon' = [mon EXCEPT !.pc = IF dead = {} THEN "sync" ELSE "stopRunning", !.rows = dead, !.sync = y]
        BY <2>1 DEF MonitorRunning
      <4> HIDE DEF dead, y
      <4> QED
        BY <4>1, <4>2
    <3>2. mon' = [pc |-> p, alive |-> mon.alive, rows |-> r, sync |-> y, seen |-> mon.seen, item |-> mon.item]
      BY <1>0, <3>1, TickFields DEF Tick
    <3>3. p \in TickPoints /\ p \notin {"confirmed", "settle"}
      BY DEF TickPoints
    <3>4. mon' \in Tick /\ MonInv'
      BY <1>0, <3>1, <3>2, <3>3, TickFields, TickMade
    <3> QED
      BY <2>1, <3>2, <3>4 DEF MonitorRunning
  <2>2. CASE MonitorZombies
    <3>1. PICK p \in {"transient", "bury"}, r \in SUBSET Sandboxes : mon' = [mon EXCEPT !.pc = p, !.rows = r]
      <4> DEFINE zombies == ListSandboxesByHostAndStatus({"stopped"}) \cap Reported("paused")
      <4>1. zombies \in SUBSET Sandboxes
        BY DEF ListSandboxesByHostAndStatus
      <4>2. mon' = [mon EXCEPT !.pc = IF zombies = {} THEN "transient" ELSE "bury", !.rows = zombies]
        BY <2>2 DEF MonitorZombies
      <4> HIDE DEF zombies
      <4> QED
        BY <4>1, <4>2
    <3>2. mon' = [pc |-> p, alive |-> mon.alive, rows |-> r, sync |-> mon.sync, seen |-> mon.seen, item |-> mon.item]
      BY <1>0, <3>1, TickFields DEF Tick
    <3>3. p \in TickPoints /\ p \notin {"stopRunning", "freeRunning", "sync", "confirmed", "settle"}
      BY DEF TickPoints
    <3>4. mon' \in Tick /\ MonInv'
      BY <1>0, <3>2, <3>3, TickFields, TickMade
    <3> QED
      BY <2>2, <3>2, <3>4 DEF MonitorZombies
  <2>3. CASE MonitorTransient
    <3>1. PICK p \in {"idle", "resolve"}, a \in [Sandboxes -> AgentStates \cup {""}], r \in SUBSET Sandboxes,
               y \in SUBSET Sandboxes, e \in [Sandboxes -> Statuses \cup {"absent"}] :
            mon' = [mon EXCEPT !.pc = p, !.alive = a, !.rows = r, !.sync = y, !.seen = e]
      <4> DEFINE busy == ListSandboxesByHostAndStatus(Transient \ {"missing"})
                 late == {s \in busy : /\ old[s]
                                       /\ row[s] = "snapshotting" /\ mon.alive[s] # "absent" => ~Busy(s)}
                 p == IF busy = {} THEN "idle" ELSE "resolve"
                 a == IF busy = {} THEN NoStatus ELSE mon.alive
                 e == [s \in Sandboxes |-> IF s \in busy THEN row[s] ELSE "absent"]
      <4>1. busy \in SUBSET Sandboxes /\ late \in SUBSET Sandboxes
        BY DEF ListSandboxesByHostAndStatus
      <4>2. p \in {"idle", "resolve"} /\ a \in [Sandboxes -> AgentStates \cup {""}]
        BY <1>0, IdleTick, TickFields
      <4>3. e \in [Sandboxes -> Statuses \cup {"absent"}]
        BY <1>0 DEF TypeOK
      <4>4. mon' = [mon EXCEPT !.pc = p, !.alive = a, !.rows = busy, !.sync = late, !.seen = e]
        BY <2>3, <1>0, TickFields DEF MonitorTransient
      <4> HIDE DEF busy, late, p, a, e
      <4> QED
        BY <4>1, <4>2, <4>3, <4>4
    <3>2. mon' = [pc |-> p, alive |-> a, rows |-> r, sync |-> y, seen |-> e, item |-> mon.item]
      BY <1>0, <3>1, TickFields DEF Tick
    <3>3. p \in TickPoints /\ p \notin {"stopRunning", "freeRunning", "sync", "confirmed", "settle"}
      BY DEF TickPoints
    <3>4. mon' \in Tick /\ MonInv'
      BY <1>0, <3>2, <3>3, TickFields, TickMade
    <3> QED
      BY <2>3, <3>2, <3>4 DEF MonitorTransient
  <2> QED
    BY <2>1, <2>2, <2>3
<1> QED
  BY <1>0, <1>1, <1>2, <1>3, TickMoves DEF TypeOK, calls

LEMMA MonitorSyncTyped ==
    ASSUME TInv, Listable, MonitorSync
    PROVE  TInv' /\ Prevails
<1>0. TypeOK /\ mon.pc = "sync" /\ \A s \in mon.sync : mon.alive[s] \in {"paused", "error"}
  BY DEF TInv, MonInv, MonitorSync
<1>1. UNCHANGED <<mix, vol, host, calls, cb, con, online, reach>>
  BY DEF MonitorSync
<1>2. row' \in [Sandboxes -> Statuses] /\ old' \in [Sandboxes -> BOOLEAN]
  <2>1. \A s \in mon.sync : mon.alive[s] \in Statuses
    BY <1>0 DEF Statuses, Terminal
  <2> QED
    BY <1>0, <2>1, TickFields, BulkUpdated DEF MonitorSync
<1>3. stream' \in Seq(EventKinds \X Sandboxes)
  <2>1. /\ "paused" \in EventKinds /\ Publish(Events("paused", mon.sync \cap Reported("paused")))
        /\ mon.sync \cap Reported("paused") \in SUBSET Sandboxes
    BY <1>0, TickFields DEF EventKinds, MonitorSync
  <2> QED
    BY <1>0, <2>1, Published DEF Listable
<1>4. DataOK'
  BY <1>0, <1>1, <1>2, <1>3 DEF TypeOK, DataOK, calls, host
<1>5. mon' = [pc |-> "zombies", alive |-> mon.alive, rows |-> mon.rows, sync |-> {}, seen |-> mon.seen, item |-> mon.item]
  BY <1>0, TickFields DEF MonitorSync, Tick
<1>6. mon' \in Tick /\ MonInv'
  <2>1. "zombies" \in TickPoints /\ {} \in SUBSET Sandboxes
    BY DEF TickPoints
  <2> QED
    BY <1>0, <1>5, <2>1, TickFields, TickMade
<1>7. mon' # mon
  BY <1>0, <1>5, SMT, SMTT(20)
<1> QED
  BY <1>0, <1>1, <1>4, <1>6, <1>7, TickMoves DEF TypeOK, calls

LEMMA MonitorBuryTyped ==
    ASSUME TInv, MonitorBury
    PROVE  TInv' /\ Prevails
<1>0. TypeOK /\ mon.pc = "bury"
  BY DEF TInv, MonitorBury
<1>1. UNCHANGED <<mix, db, file, pc, orig, held, cb, con, online, reach>>
  BY DEF MonitorBury
<1>2. PICK s \in mon.rows, gone \in BOOLEAN :
         /\ MonitorDestroys(s, gone)
         /\ IF gone THEN Publish(<<<<"stopped", s>>>>) ELSE UNCHANGED stream
         /\ mon' = [mon EXCEPT !.rows = @ \ {s}, !.pc = IF mon.rows = {s} THEN "transient" ELSE @]
  BY DEF MonitorBury
<1>3. s \in Sandboxes
  BY <1>0, TickFields
<1>4. /\ agent' \in [Sandboxes -> AgentStates]
      /\ rpc' \in [mix.calls -> {"none", "sent", "lost", "ok", "err"}]
  BY <1>0, <1>2, <1>3, Destroyed, SMT, SMTT(20) DEF MonitorDestroys, TypeOK
<1>5. stream' \in Seq(EventKinds \X Sandboxes)
  <2>1. "stopped" \in EventKinds
    BY DEF EventKinds
  <2> QED
    BY <1>0, <1>2, <1>3, <2>1, PublishedOne DEF TypeOK
<1>6. DataOK'
  BY <1>0, <1>1, <1>4, <1>5 DEF TypeOK, DataOK, db
<1>7. PICK p \in {"transient", "bury"} :
        mon' = [pc |-> p, alive |-> mon.alive, rows |-> mon.rows \ {s}, sync |-> mon.sync, seen |-> mon.seen, item |-> mon.item]
  BY <1>0, <1>2, TickFields DEF Tick
<1>8. mon' \in Tick /\ MonInv'
  <2>1. /\ p \in TickPoints /\ p \notin {"stopRunning", "freeRunning", "sync", "confirmed", "settle"}
        /\ mon.rows \ {s} \in SUBSET Sandboxes
    BY <1>0, TickFields DEF TickPoints
  <2> QED
    BY <1>0, <1>7, <2>1, TickFields, TickMade
<1>9. mon' # mon
  BY <1>7, SMT, SMTT(20)
<1> QED
  BY <1>0, <1>1, <1>6, <1>8, <1>9, TickMoves DEF TypeOK

LEMMA Inferred ==
    ASSUME NEW st
    PROVE  Final(st) \in Statuses /\ Notice(st) \in EventKinds
  BY DEF Final, Notice, Statuses, Terminal, EventKinds

LEMMA MonitorResolveTyped ==
    ASSUME TInv, MonitorResolve
    PROVE  TInv' /\ Prevails
<1>0. TypeOK /\ mon.pc = "resolve"
  BY DEF TInv, MonitorResolve
<1>1. UNCHANGED <<mix, file, pc, orig, held, cb, con, online, reach>>
  BY DEF MonitorResolve
<1>2. PICK s \in mon.rows : ResolvePresent(s) \/ ResolveStopping(s) \/ ResolveAbsent(s)
  BY DEF MonitorResolve
<1>3. s \in Sandboxes
  BY <1>0, TickFields
<1>4. UNCHANGED <<vol, stream>>
  BY <1>2 DEF ResolvePresent, ResolveStopping, ResolveAbsent, db
<1>5. /\ agent' \in [Sandboxes -> AgentStates]
      /\ rpc' \in [mix.calls -> {"none", "sent", "lost", "ok", "err"}]
  <2>1. CASE \E gone \in BOOLEAN : MonitorDestroys(s, gone)
    BY <2>1, <1>0, <1>3, Destroyed, SMT, SMTT(20) DEF MonitorDestroys, TypeOK
  <2>2. CASE UNCHANGED <<agent, rpc>>
    BY <2>2, <1>0 DEF TypeOK
  <2> QED
    BY <1>2, <2>1, <2>2 DEF ResolvePresent, ResolveStopping, ResolveAbsent
<1>6. row' \in [Sandboxes -> Statuses] /\ old' \in [Sandboxes -> BOOLEAN]
  <2>1. \/ UNCHANGED <<row, old>>
        \/ \E to \in Statuses : \E from : UpdateSandboxStatusIf(s, from, to)
    <3>1. CASE ResolvePresent(s)
      BY <3>1 DEF ResolvePresent, Statuses
    <3>2. CASE ResolveStopping(s)
      BY <3>2 DEF ResolveStopping, db
    <3>3. CASE ResolveAbsent(s)
      BY <3>3, Inferred DEF ResolveAbsent
    <3> QED
      BY <1>2, <3>1, <3>2, <3>3
  <2> QED
    BY <1>0, <1>3, <2>1, StatusUpdatedIf DEF TypeOK
<1>7. DataOK'
  BY <1>0, <1>1, <1>4, <1>5, <1>6 DEF TypeOK, DataOK
<1>8. Done(s) \/ Step(s, "confirmed") \/ Step(s, "settle")
  BY <1>2 DEF ResolvePresent, ResolveStopping, ResolveAbsent
<1>9. mon' \in Tick /\ MonInv' /\ mon' # mon
  BY <1>0, <1>3, <1>8, DoneTyped, StepTyped, IdleTick
<1> QED
  BY <1>0, <1>1, <1>7, <1>9, TickMoves DEF TypeOK

LEMMA MonitorSettleTyped ==
    ASSUME TInv, MonitorConfirmed \/ MonitorSettle
    PROVE  TInv' /\ Prevails
<1>0. TypeOK /\ mon.pc \in {"confirmed", "settle"} /\ mon.item \in Sandboxes
  BY DEF TInv, MonInv, MonitorConfirmed, MonitorSettle
<1>1. UNCHANGED <<mix, host, calls, cb, con, online, reach>>
  BY DEF MonitorConfirmed, MonitorSettle
<1>2. /\ row' \in [Sandboxes -> Statuses] /\ old' \in [Sandboxes -> BOOLEAN]
      /\ vol' \in [Volumes -> VolumeRow] /\ stream' \in Seq(EventKinds \X Sandboxes)
  <2>1. CASE MonitorConfirmed
    <3>1. "stopped" \in Statuses
      BY DEF Statuses, Terminal
    <3> QED
      BY <2>1, <3>1, <1>0, StatusUpdatedIf DEF MonitorConfirmed, TypeOK
  <2>2. CASE MonitorSettle
    <3>1. vol' \in [Volumes -> VolumeRow]
      BY <2>2, <1>0, Detached DEF MonitorSettle, TypeOK
    <3>2. stream' \in Seq(EventKinds \X Sandboxes)
      BY <2>2, <1>0, PublishedOne, Inferred DEF MonitorSettle, TypeOK
    <3> QED
      BY <2>2, <3>1, <3>2, <1>0 DEF MonitorSettle, TypeOK
  <2> QED
    BY <2>1, <2>2
<1>3. DataOK'
  BY <1>0, <1>1, <1>2 DEF TypeOK, DataOK, calls, host
<1>4. Done(mon.item) \/ (mon.pc = "confirmed" /\ Step(mon.item, "settle"))
  BY DEF MonitorConfirmed, MonitorSettle
<1>5. mon' \in Tick /\ MonInv' /\ mon' # mon
  BY <1>0, <1>4, DoneTyped, StepTyped, IdleTick
<1> QED
  BY <1>0, <1>1, <1>3, <1>5, TickMoves DEF TypeOK, calls

-----------------------------------------------------------------------------
(* The types, and the destroy that wins.                                    *)

LEMMA InitTyped == Init => TInv
<1> SUFFICES ASSUME Init PROVE TInv
  OBVIOUS
<1>1. mix \in Scenario /\ mix.wants \in [Sandboxes -> SUBSET Volumes] /\ mix.up \subseteq Sandboxes
  BY ControlPlaneAssumption DEF Init, Scenario
<1>2. vol \in [Volumes -> VolumeRow]
  <2> SUFFICES ASSUME NEW v \in Volumes PROVE vol[v] \in VolumeRow
    BY DEF Init
  <2>1. CASE \E s \in mix.up : v \in mix.wants[s]
    <3> DEFINE o == CHOOSE s \in mix.up : v \in mix.wants[s]
    <3>1. o \in Sandboxes
      BY <1>1, <2>1
    <3>2. vol[v] = [st |-> "attached", pin |-> TRUE, owner |-> o]
      BY <2>1 DEF Init
    <3> HIDE DEF o
    <3> QED
      BY <3>1, <3>2, SMT, SMTT(20) DEF VolumeRow
  <2>2. CASE ~ \E s \in mix.up : v \in mix.wants[s]
    <3>1. vol[v] = [st |-> "detached", owner |-> None, pin |-> FALSE]
      BY <2>2 DEF Init
    <3> QED
      BY <3>1, SMT, SMTT(20) DEF VolumeRow
  <2> QED
    BY <2>1, <2>2
<1>3. file \in [Volumes -> BOOLEAN]
  BY <1>2 DEF Init, VolumeRow
<1>4. row \in [Sandboxes -> Statuses] /\ old \in [Sandboxes -> BOOLEAN] /\ agent \in [Sandboxes -> AgentStates]
  BY DEF Init, Statuses, AgentStates
<1>5. /\ pc \in [mix.calls -> Points] /\ rpc \in [mix.calls -> {"none", "sent", "lost", "ok", "err"}]
      /\ orig \in [mix.calls -> {"none", "running", "paused"}] /\ held \in [mix.calls -> SUBSET Volumes]
      /\ \A c \in mix.calls : pc[c] = "idle"
  BY DEF Init, Points
<1>6. con \in Event /\ mon \in Tick /\ con = NoEvent /\ mon.pc = "idle"
  <2>1. <<>> \in Seq(Statuses \cup {"detach"})
    BY SMT, SMTT(20)
  <2>2. NoEvent \in Event
    BY <2>1 DEF NoEvent, Event
  <2> QED
    BY <2>2, IdleTick DEF Init
<1>7. stream \in Seq(EventKinds \X Sandboxes) /\ cb \subseteq {"paused", "stopped", "error"} \X Sandboxes
      /\ online \in BOOLEAN /\ reach \in BOOLEAN
  BY SMT, SMTT(20) DEF Init
<1>8. TypeOK
  BY <1>1, <1>2, <1>3, <1>4, <1>5, <1>6, <1>7 DEF TypeOK
<1>9. PointInv /\ ConInv /\ MonInv
  BY <1>5, <1>6 DEF PointInv, ConInv, MonInv
<1> QED
  BY <1>8, <1>9 DEF TInv

LEMMA NextTyped == TInv /\ Listable /\ [Next]_vars => TInv' /\ Prevails
<1> SUFFICES ASSUME TInv, Listable, [Next]_vars PROVE TInv' /\ Prevails
  OBVIOUS
<1>0. TypeOK
  BY DEF TInv
<1>1. CASE UNCHANGED vars
  <2>1. DataOK'
    BY <1>0, <1>1 DEF vars, TypeOK, DataOK
  <2> QED
    BY <1>0, <1>1, <2>1, DataKept, RowsKept DEF vars, TypeOK
<1>2. ASSUME NEW c \in mix.calls, CreateCall(c) \/ Begin(c) \/ DestroyCall(c) \/ DeleteBegin(c)
      PROVE  TInv' /\ Prevails
  BY <1>2, QuietSteps, BeginTyped, DeleteBeginTyped
<1>3. ASSUME NEW c \in mix.calls, CallStep(c)
      PROVE  TInv' /\ Prevails
  BY <1>3, QuietSteps, VolumeSteps, CreateReserveTyped, CreateInsertTyped, CreateLinkTyped, CreateConfirmTyped,
     CreateEnds, FinishTyped, DestroyMarkTyped DEF CallStep
<1>4. ASSUME NEW c \in mix.calls, Serve(c) \/ Refuse(c) \/ GiveUp(c)
      PROVE  TInv' /\ Prevails
  BY <1>4, ServeTyped, RefuseTyped
<1>5. ASSUME NEW s \in Sandboxes, Expire(s) \/ Age(s)
      PROVE  TInv' /\ Prevails
  BY <1>5, ExpireTyped, AgeTyped
<1>6. CASE (\E e \in cb : Callback(e)) \/ Consume \/ Handle
  BY <1>6, CallbackTyped, ConsumeTyped, HandleTyped
<1>7. CASE MarkUnreachable \/ MonitorStep
  BY <1>7, MarkTyped, MarkMissingTyped, MonitorRestoreTyped, MonitorStopTyped, MonitorFreeTyped, MonitorReads,
     MonitorSyncTyped, MonitorBuryTyped, MonitorResolveTyped, MonitorSettleTyped DEF MonitorStep
<1>8. CASE Reap \/ Crash \/ Outage \/ Recover \/ Heartbeat
  BY <1>8, ReapTyped, CrashTyped, OutageTyped, RecoverTyped
<1> QED
  BY <1>1, <1>2, <1>3, <1>4, <1>5, <1>6, <1>7, <1>8 DEF Next
=============================================================================
