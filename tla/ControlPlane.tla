---------------------------- MODULE ControlPlane ----------------------------
(***************************************************************************)
(* The control plane's view of capsules and volumes on one host: the       *)
(* request handlers and background goroutines of SandboxService and        *)
(* VolumeService, the event consumer, the host monitor and the volume      *)
(* reaper, all writing the same Postgres rows, one SQL statement at a      *)
(* time, and the host agent behind RPCs that may fail or whose answer may  *)
(* be lost.  The agent executes a request in one step; SandboxManager      *)
(* looks inside that step.                                                 *)
(***************************************************************************)
EXTENDS Naturals, Sequences, FiniteSets

CONSTANTS
    Sandboxes,  \* capsule ids
    Volumes,    \* volume ids
    Mixes,      \* the scenarios: one of them is chosen initially
    None        \* no capsule

Ops == {"create", "pause", "resume", "snapshot", "destroy", "delete"}
BoxOps == Ops \ {"delete"}

(***************************************************************************)
(* A scenario: the calls users make, <<operation, capsule or volume>>, each *)
(* once; the volumes every capsule asks for; the capsules that are running *)
(* at the start; whether the host monitor ticks; whether VMs expire or     *)
(* crash; how often the control plane crashes and the host drops off the   *)
(* network; which write may fail: none, a reservation's release after the  *)
(* client has gone away, or the attach of a booted capsule's volumes.      *)
(***************************************************************************)
Scenario ==
    [calls : SUBSET ((BoxOps \X Sandboxes) \cup ({"delete"} \X Volumes)),
     wants : [Sandboxes -> SUBSET Volumes], up : SUBSET Sandboxes, monitor : BOOLEAN, idle : BOOLEAN,
     crashes : Nat, outages : Nat, fault : {"none", "cancel", "attach"}]

\* A create makes a new capsule, and a volume is attached to one capsule.
ASSUME ControlPlaneAssumption ==
    /\ Mixes \subseteq Scenario
    /\ \A m \in Mixes :
         /\ \A s \in m.up : <<"create", s>> \notin m.calls
         /\ \A s, t \in m.up : m.wants[s] \cap m.wants[t] # {} => s = t
    /\ None \notin Sandboxes /\ IsFiniteSet(Sandboxes)

VARIABLES
    mix,      \* the scenario, with the crashes and outages still to come
    row,      \* sandboxes.status
    old,      \* sandboxes.last_updated lies further back than the grace period
    vol,      \* volumes: status, sandbox_id, whether host_id is set
    file,     \* the volume's backing file is on the host
    agent,    \* the capsule as the host agent has it
    pc,       \* the program point of every call
    rpc,      \* the agent request of every call
    orig,     \* CreateSnapshot's origStatus
    held,     \* the volumes a create has reserved
    cb,       \* callbacks of the agent under way to the control plane
    stream,   \* system events in wrenn:events the consumer has not read
    con,      \* the consumer: the event it handles
    mon,      \* the monitor: its phase and what it has read
    online,   \* hosts.status is online, not unreachable
    reach     \* the host answers

vars == <<mix, row, old, vol, file, agent, pc, rpc, orig, held, cb, stream,
          con, mon, online, reach>>
db == <<row, old, vol>>
host == <<file, agent>>
calls == <<pc, rpc, orig, held>>

Transient == {"starting", "pausing", "resuming", "snapshotting", "stopping", "missing"}
Terminal == {"stopped", "error"}
Statuses == Transient \cup Terminal \cup {"none", "running", "paused"}
AgentStates == {"absent", "running", "paused", "error"}
EventKinds == {"started", "resumed", "paused", "failed", "stopped"}
Points == {"idle", "done", "reserve", "release", "insert", "link", "wait",
           "confirm", "free", "fail", "run", "undo", "mark", "stop", "drop", "abort"}

Op(c) == c[1]
Box(c) == c[2]
At(c, point) == pc[c] = point
Goto(c, point) == pc' = [pc EXCEPT ![c] = point]

\* A goroutine of the control plane is working on s.
Busy(s) == \E c \in mix.calls : Op(c) # "delete" /\ Box(c) = s /\ pc[c] \notin {"idle", "done"}

NoEvent == [kind |-> "none", box |-> None, todo |-> <<>>]
NoStatus == [s \in Sandboxes |-> "absent"]
Idle == [pc |-> "idle", alive |-> NoStatus, rows |-> {}, sync |-> {},
         seen |-> NoStatus, item |-> None]

VolumeRow == [st : {"detached", "attaching", "attached", "deleting", "gone"},
              owner : Sandboxes \cup {None}, pin : BOOLEAN]
Event == [kind : EventKinds \cup {"none"}, box : Sandboxes \cup {None},
          todo : Seq(Statuses \cup {"detach"})]
Tick == [pc : {"idle", "lose", "missing", "stopMissing", "freeMissing", "running", "stopRunning", "freeRunning",
               "sync", "zombies", "bury", "transient", "resolve", "confirmed", "settle"},
         alive : [Sandboxes -> AgentStates \cup {""}], rows : SUBSET Sandboxes, sync : SUBSET Sandboxes,
         seen : [Sandboxes -> Statuses \cup {"absent"}], item : Sandboxes \cup {None}]

TypeOK ==
    /\ mix \in Scenario
    /\ row \in [Sandboxes -> Statuses]
    /\ old \in [Sandboxes -> BOOLEAN]
    /\ vol \in [Volumes -> VolumeRow]
    /\ file \in [Volumes -> BOOLEAN]
    /\ agent \in [Sandboxes -> AgentStates]
    /\ pc \in [mix.calls -> Points]
    /\ rpc \in [mix.calls -> {"none", "sent", "lost", "ok", "err"}]
    /\ orig \in [mix.calls -> {"none", "running", "paused"}]
    /\ held \in [mix.calls -> SUBSET Volumes]
    /\ cb \subseteq {"paused", "stopped", "error"} \X Sandboxes
    /\ stream \in Seq(EventKinds \X Sandboxes)
    /\ con \in Event /\ mon \in Tick
    /\ online \in BOOLEAN /\ reach \in BOOLEAN

Init ==
    /\ mix \in Mixes
    /\ row = [s \in Sandboxes |-> IF s \in mix.up THEN "running" ELSE "none"]
    /\ old = [s \in Sandboxes |-> FALSE]
    /\ vol = [v \in Volumes |->
                IF \E s \in mix.up : v \in mix.wants[s]
                THEN [st |-> "attached", pin |-> TRUE,
                      owner |-> CHOOSE s \in mix.up : v \in mix.wants[s]]
                ELSE [st |-> "detached", owner |-> None, pin |-> FALSE]]
    /\ file = [v \in Volumes |-> vol[v].pin]
    /\ agent = [s \in Sandboxes |-> IF s \in mix.up THEN "running" ELSE "absent"]
    /\ pc = [c \in mix.calls |-> "idle"]
    /\ rpc = [c \in mix.calls |-> "none"]
    /\ orig = [c \in mix.calls |-> "none"]
    /\ held = [c \in mix.calls |-> {}]
    /\ cb = {} /\ stream = <<>>
    /\ con = NoEvent /\ mon = Idle
    /\ online = TRUE /\ reach = TRUE

-----------------------------------------------------------------------------
(* SQL statements *)

\* Sandboxes: a write also refreshes last_updated, so that the row is not old.
BulkUpdateStatusByIDs(S, st) ==
    /\ row' = [s \in Sandboxes |-> IF s \in S THEN st[s] ELSE row[s]]
    /\ old' = [s \in Sandboxes |-> old[s] /\ s \notin S]

ListSandboxesByHostAndStatus(S) == {s \in Sandboxes : row[s] \in S}

BulkRestoreMissingToStatus(S, st) ==
    BulkUpdateStatusByIDs(S \cap ListSandboxesByHostAndStatus({"missing"}), st)

MarkSandboxesMissingByHost ==
    BulkUpdateStatusByIDs(
        ListSandboxesByHostAndStatus({"running", "starting", "pausing", "resuming", "stopping"}),
        [s \in Sandboxes |-> "missing"])

UpdateSandboxStatus(s, to) == BulkUpdateStatusByIDs({s}, [t \in Sandboxes |-> to])

InsertSandbox(s) == row[s] = "none" /\ UpdateSandboxStatus(s, "starting")

UpdateSandboxStatusIf(s, from, to) ==
    IF row[s] = from THEN UpdateSandboxStatus(s, to) ELSE UNCHANGED <<row, old>>

UpdateSandboxRunningIf(s, from) == UpdateSandboxStatusIf(s, from, "running")

\* Volumes: the table after the statement.
ReserveVolumeForAttach(v) ==
    /\ vol[v].st = "detached"
    /\ vol' = [vol EXCEPT ![v].st = "attaching"]

LinkVolumeReservation(V, s) ==
    [v \in Volumes |-> IF v \in V /\ vol[v].st = "attaching"
                       THEN [vol[v] EXCEPT !.owner = s] ELSE vol[v]]

MarkVolumeAttached(V, s) ==
    [v \in Volumes |-> IF v \in V /\ vol[v].st = "attaching"
                       THEN [st |-> "attached", owner |-> s, pin |-> TRUE] ELSE vol[v]]

\* Keyed on the status alone: the reservation may be another create's by now.
ReleaseVolumeReservation(V) ==
    [v \in Volumes |-> IF v \in V /\ vol[v].st = "attaching"
                       THEN [vol[v] EXCEPT !.st = "detached", !.owner = None] ELSE vol[v]]

DetachVolumesBySandboxIDs(S) ==
    [v \in Volumes |-> IF vol[v].owner \in S /\ vol[v].st \in {"attached", "attaching"}
                       THEN [vol[v] EXCEPT !.st = "detached", !.owner = None] ELSE vol[v]]

DetachVolumesBySandbox(s) == DetachVolumesBySandboxIDs({s})

BeginVolumeDelete(v) ==
    /\ vol[v].st \in {"detached", "deleting"}
    /\ vol' = [vol EXCEPT ![v].st = "deleting"]

AbortVolumeDelete(v) ==
    IF vol[v].st = "deleting" THEN [vol EXCEPT ![v].st = "detached"] ELSE vol

DeleteVolumeRow(v) ==
    IF vol[v].st = "deleting" THEN [vol EXCEPT ![v].st = "gone"] ELSE vol

\* An event is published to the stream; a failure to do so is only logged.
Publish(events) == stream' \in {stream, stream \o events}

\* One event for each capsule of S, in some order.
InOrder(S) == CHOOSE q \in [1 .. Cardinality(S) -> S] : \A i, j \in 1 .. Cardinality(S) : i # j => q[i] # q[j]
Events(kind, S) == [i \in 1 .. Cardinality(S) |-> <<kind, InOrder(S)[i]>>]

-----------------------------------------------------------------------------
(* The host agent serves the requests of the calls *)

Pending(op, s) == {c \in mix.calls : c = <<op, s>> /\ rpc[c] \in {"sent", "lost"}}

\* The answer to a request the agent has served may be lost on the way.
Answer(c, served) == rpc' = [rpc EXCEPT ![c] = served]
Answers(c) == \E r \in {"ok", "err"} : Answer(c, IF rpc[c] = "lost" THEN "err" ELSE r)

\* Manager.Destroy: a create in flight is cancelled; a pause that completes
\* first wins, and the capsule stays paused.
Cancelled(s) ==
    [c \in mix.calls |-> IF c \in Pending("create", s) THEN "err" ELSE rpc[c]]
AgentDestroys(s) ==
    \/ agent' = [agent EXCEPT ![s] = "absent"]
    \/ /\ Pending("pause", s) # {} /\ agent[s] = "running"
       /\ agent' = [agent EXCEPT ![s] = "paused"]

ServeCreate(c) ==
    /\ Op(c) = "create" /\ agent[Box(c)] = "absent"
    /\ agent' = [agent EXCEPT ![Box(c)] = "running"]
    /\ file' = [v \in Volumes |-> file[v] \/ v \in mix.wants[Box(c)]]
    /\ Answers(c)

\* Manager.Pause leaves the VM running, paused, or wedged in Error.
ServePause(c) ==
    /\ Op(c) = "pause" /\ agent[Box(c)] \in {"running", "paused"}
    /\ \/ agent' = [agent EXCEPT ![Box(c)] = "paused"] /\ Answers(c)
       \/ agent[Box(c)] = "running" /\ agent' = [agent EXCEPT ![Box(c)] = "error"] /\ Answer(c, "err")
    /\ UNCHANGED file

ServeResume(c) ==
    /\ Op(c) = "resume" /\ agent[Box(c)] = "paused"
    /\ agent' = [agent EXCEPT ![Box(c)] = "running"]
    /\ Answers(c)
    /\ UNCHANGED file

ServeSnapshot(c) ==
    /\ Op(c) = "snapshot" /\ agent[Box(c)] \in {"running", "paused"}
    /\ Answers(c)
    /\ UNCHANGED <<agent, file>>

ServeDestroy(c) ==
    /\ Op(c) = "destroy"
    /\ AgentDestroys(Box(c))
    /\ \E r \in {"ok", "err"} : rpc' = [Cancelled(Box(c)) EXCEPT ![c] = r]
    /\ UNCHANGED file

ServeDelete(c) ==
    /\ Op(c) = "delete"
    /\ file' = [file EXCEPT ![Box(c)] = FALSE]
    /\ Answers(c)
    /\ UNCHANGED agent

Serve(c) ==
    /\ rpc[c] \in {"sent", "lost"}
    /\ reach
    /\ ServeCreate(c) \/ ServePause(c) \/ ServeResume(c) \/ ServeSnapshot(c)
         \/ ServeDestroy(c) \/ ServeDelete(c)
    /\ UNCHANGED <<mix, db, pc, orig, held, cb, stream, con, mon, online, reach>>

\* The request is refused, fails with its effects rolled back, or never arrives.
Refuse(c) ==
    /\ rpc[c] \in {"sent", "lost"}
    /\ Answer(c, "err")
    /\ UNCHANGED <<mix, db, host, pc, orig, held, cb, stream, con, mon, online, reach>>

\* The caller's deadline passes while the agent is still at work.
GiveUp(c) ==
    /\ rpc[c] = "sent"
    /\ Answer(c, "lost")
    /\ UNCHANGED <<mix, db, host, pc, orig, held, cb, stream, con, mon, online, reach>>

Send(c) == rpc' = [rpc EXCEPT ![c] = "sent"]
Succeeded(c) == At(c, "wait") /\ rpc[c] = "ok"
Failed(c) == At(c, "wait") /\ rpc[c] \in {"err", "lost"}

-----------------------------------------------------------------------------
(* SandboxService.Create and createInBackground *)

CreateCall(c) ==
    /\ Op(c) = "create" /\ At(c, "idle")
    /\ Goto(c, "reserve")
    /\ UNCHANGED <<mix, db, host, rpc, orig, held, cb, stream, con, mon, online, reach>>

\* reserveVolumesForCreate: one compare-and-set per volume.
CreateReserve(c) ==
    /\ At(c, "reserve")
    /\ LET todo == mix.wants[Box(c)] \ held[c]
       IN  \/ /\ todo = {}
              /\ Goto(c, "insert")
              /\ UNCHANGED <<vol, held>>
           \/ \E v \in todo :
                /\ ReserveVolumeForAttach(v)
                /\ held' = [held EXCEPT ![c] = @ \cup {v}]
                /\ UNCHANGED pc
           \/ /\ \E v \in todo : vol[v].st # "detached"
              /\ Goto(c, "release")
              /\ UNCHANGED <<vol, held>>
    /\ UNCHANGED <<mix, row, old, host, rpc, orig, cb, stream, con, mon, online, reach>>

\* The deferred release: the create has not been handed to its goroutine.
CreateRelease(c) ==
    /\ At(c, "release")
    /\ \/ vol' = ReleaseVolumeReservation(held[c])
       \/ mix.fault = "cancel" /\ UNCHANGED vol
    /\ Goto(c, "done")
    /\ UNCHANGED <<mix, row, old, host, rpc, orig, held, cb, stream, con, mon, online, reach>>

\* A host is found, or not; the row is inserted as starting.
CreateInsert(c) ==
    /\ At(c, "insert")
    /\ \/ /\ InsertSandbox(Box(c))
          /\ Goto(c, "link")
       \/ /\ Goto(c, "release")
          /\ UNCHANGED <<row, old>>
    /\ UNCHANGED <<mix, vol, host, rpc, orig, held, cb, stream, con, mon, online, reach>>

\* linkVolumeReservations, then the RPC of createInBackground.
CreateLink(c) ==
    /\ At(c, "link")
    /\ vol' = LinkVolumeReservation(held[c], Box(c))
    /\ Send(c)
    /\ Goto(c, "wait")
    /\ UNCHANGED <<mix, row, old, host, orig, held, cb, stream, con, mon, online, reach>>

\* Mutant: a failed RPC is taken to mean that the capsule never booted.
CreateFailedUnconfirmed(c) ==
    /\ Op(c) = "create" /\ Failed(c)
    /\ Goto(c, "free")
    /\ UNCHANGED <<mix, db, host, rpc, orig, held, cb, stream, con, mon, online, reach>>

CreateFailed(c) ==
    /\ Op(c) = "create" /\ Failed(c)
    /\ Goto(c, "confirm")
    /\ UNCHANGED <<mix, db, host, rpc, orig, held, cb, stream, con, mon, online, reach>>

\* sandboxConfirmedGone: without an answer the capsule is left to the monitor.
CreateConfirm(c) ==
    /\ At(c, "confirm")
    /\ \/ /\ reach
          /\ AgentDestroys(Box(c))
          /\ rpc' = Cancelled(Box(c))
          /\ Goto(c, "free") \/ Goto(c, "done")
       \/ /\ Goto(c, "done")
          /\ UNCHANGED <<agent, rpc>>
    /\ UNCHANGED <<mix, db, file, orig, held, cb, stream, con, mon, online, reach>>

CreateFree(c) ==
    /\ At(c, "free")
    /\ vol' = ReleaseVolumeReservation(held[c])
    /\ Goto(c, "fail")
    /\ UNCHANGED <<mix, row, old, host, rpc, orig, held, cb, stream, con, mon, online, reach>>

CreateFail(c) ==
    /\ At(c, "fail")
    /\ UpdateSandboxStatusIf(Box(c), "starting", "error")
    /\ Publish(<<<<"failed", Box(c)>>>>)
    /\ Goto(c, "done")
    /\ UNCHANGED <<mix, vol, host, rpc, orig, held, cb, con, mon, online, reach>>

\* markVolumesAttached; when every retry fails the reservation stays.
CreateAttach(c) ==
    /\ Op(c) = "create"
    /\ Succeeded(c)
    /\ \/ vol' = MarkVolumeAttached(held[c], Box(c))
       \/ mix.fault = "attach" /\ UNCHANGED vol
    /\ Goto(c, "run")
    /\ UNCHANGED <<mix, row, old, host, rpc, orig, held, cb, stream, con, mon, online, reach>>

CreateRun(c) ==
    /\ At(c, "run")
    /\ UpdateSandboxRunningIf(Box(c), "starting")
    /\ Publish(<<<<"started", Box(c)>>>>)
    /\ Goto(c, "done")
    /\ UNCHANGED <<mix, vol, host, rpc, orig, held, cb, con, mon, online, reach>>

-----------------------------------------------------------------------------
(* SandboxService.Pause, Resume, CreateSnapshot and their goroutines *)

Transition == [pause    |-> [from |-> {"running"}, via |-> "pausing"],
               resume   |-> [from |-> {"paused"}, via |-> "resuming"],
               snapshot |-> [from |-> {"running", "paused"}, via |-> "snapshotting"]]

Via(c) == Transition[Op(c)].via

\* The status gate is a compare-and-set; then the agent's client is looked up.
Begin(c) ==
    /\ Op(c) \in DOMAIN Transition /\ At(c, "idle")
    /\ \/ /\ row[Box(c)] \in Transition[Op(c)].from
          /\ UpdateSandboxStatusIf(Box(c), row[Box(c)], Via(c))
          /\ orig' = [orig EXCEPT ![c] = row[Box(c)]]
          /\ \/ Send(c) /\ Goto(c, "wait")
             \/ Goto(c, "undo") /\ UNCHANGED rpc
       \/ /\ row[Box(c)] \notin Transition[Op(c)].from
          /\ Goto(c, "done")
          /\ UNCHANGED <<row, old, orig, rpc>>
    /\ UNCHANGED <<mix, vol, host, held, cb, stream, con, mon, online, reach>>

Undo(c) ==
    /\ At(c, "undo")
    /\ UpdateSandboxStatusIf(Box(c), Via(c), orig[c])
    /\ Goto(c, "done")
    /\ UNCHANGED <<mix, vol, host, rpc, orig, held, cb, stream, con, mon, online, reach>>

\* Mutant: the snapshot's goroutine restores the status without a CAS.
FinishOverwrites(c) ==
    /\ Op(c) \in DOMAIN Transition
    /\ Succeeded(c)
    /\ CASE Op(c) = "pause" ->
              UpdateSandboxStatusIf(Box(c), "pausing", "paused") /\ Publish(<<<<"paused", Box(c)>>>>)
         [] Op(c) = "resume" ->
              UpdateSandboxRunningIf(Box(c), "resuming") /\ Publish(<<<<"resumed", Box(c)>>>>)
         [] OTHER ->
              UpdateSandboxStatus(Box(c), orig[c]) /\ UNCHANGED stream
    /\ Goto(c, "done")
    /\ UNCHANGED <<mix, vol, host, rpc, orig, held, cb, con, mon, online, reach>>

Finish(c) ==
    /\ Op(c) \in DOMAIN Transition
    /\ Succeeded(c)
    /\ CASE Op(c) = "pause" ->
              UpdateSandboxStatusIf(Box(c), "pausing", "paused") /\ Publish(<<<<"paused", Box(c)>>>>)
         [] Op(c) = "resume" ->
              UpdateSandboxRunningIf(Box(c), "resuming") /\ Publish(<<<<"resumed", Box(c)>>>>)
         [] OTHER ->
              UpdateSandboxStatusIf(Box(c), "snapshotting", orig[c]) /\ UNCHANGED stream
    /\ Goto(c, "done")
    /\ UNCHANGED <<mix, vol, host, rpc, orig, held, cb, con, mon, online, reach>>

\* The row returns to where it was; the consumer acts on a failed resume only.
FinishFailed(c) ==
    /\ Op(c) \in DOMAIN Transition
    /\ Failed(c)
    /\ UpdateSandboxStatusIf(Box(c), Via(c), orig[c])
    /\ IF Op(c) = "resume" THEN Publish(<<<<"failed", Box(c)>>>>) ELSE UNCHANGED stream
    /\ Goto(c, "done")
    /\ UNCHANGED <<mix, vol, host, rpc, orig, held, cb, con, mon, online, reach>>

-----------------------------------------------------------------------------
(* SandboxService.Destroy and destroyInBackground *)

\* The status is read here and overwritten, whatever it is by then, at "mark".
DestroyCall(c) ==
    /\ Op(c) = "destroy" /\ At(c, "idle")
    /\ \/ row[Box(c)] \notin Terminal \cup {"none"} /\ Goto(c, "mark")
       \/ Goto(c, "done")
    /\ UNCHANGED <<mix, db, host, rpc, orig, held, cb, stream, con, mon, online, reach>>

DestroyMark(c) ==
    /\ At(c, "mark")
    /\ UpdateSandboxStatus(Box(c), "stopping")
    /\ Send(c)
    /\ Goto(c, "wait")
    /\ UNCHANGED <<mix, vol, host, orig, held, cb, stream, con, mon, online, reach>>

\* Every retry failed: the row stays stopping and the monitor sends it again.
DestroyFailed(c) ==
    /\ Op(c) = "destroy" /\ Failed(c)
    /\ Goto(c, "done")
    /\ UNCHANGED <<mix, db, host, rpc, orig, held, cb, stream, con, mon, online, reach>>

DestroyDetach(c) ==
    /\ Op(c) = "destroy" /\ Succeeded(c)
    /\ vol' = DetachVolumesBySandbox(Box(c))
    /\ Goto(c, "stop")
    /\ UNCHANGED <<mix, row, old, host, rpc, orig, held, cb, stream, con, mon, online, reach>>

DestroyStop(c) ==
    /\ At(c, "stop")
    /\ UpdateSandboxStatusIf(Box(c), "stopping", "stopped")
    /\ Publish(<<<<"stopped", Box(c)>>>>)
    /\ Goto(c, "done")
    /\ UNCHANGED <<mix, vol, host, rpc, orig, held, cb, con, mon, online, reach>>

-----------------------------------------------------------------------------
(* VolumeService.Delete *)

\* BeginVolumeDelete; a volume no host holds a file of skips the RPC.
DeleteBegin(c) ==
    /\ Op(c) = "delete" /\ At(c, "idle")
    /\ \/ /\ BeginVolumeDelete(Box(c))
          /\ IF vol[Box(c)].pin
               THEN \/ Send(c) /\ Goto(c, "wait")
                    \/ Goto(c, "abort") /\ UNCHANGED rpc
               ELSE Goto(c, "drop") /\ UNCHANGED rpc
       \/ /\ vol[Box(c)].st \notin {"detached", "deleting"}
          /\ Goto(c, "done")
          /\ UNCHANGED <<vol, rpc>>
    /\ UNCHANGED <<mix, row, old, host, orig, held, cb, stream, con, mon, online, reach>>

DeleteServed(c) ==
    /\ Op(c) = "delete" /\ Succeeded(c)
    /\ Goto(c, "drop")
    /\ UNCHANGED <<mix, db, host, rpc, orig, held, cb, stream, con, mon, online, reach>>

\* AbortVolumeDelete needs the request's context: a caller that has gone away
\* leaves the volume to the reaper.
DeleteFailed(c) ==
    /\ Op(c) = "delete" /\ Failed(c)
    /\ Goto(c, IF rpc[c] = "lost" THEN "done" ELSE "abort")
    /\ UNCHANGED <<mix, db, host, rpc, orig, held, cb, stream, con, mon, online, reach>>

DeleteAbort(c) ==
    /\ At(c, "abort")
    /\ vol' = AbortVolumeDelete(Box(c))
    /\ Goto(c, "done")
    /\ UNCHANGED <<mix, row, old, host, rpc, orig, held, cb, stream, con, mon, online, reach>>

DeleteDrop(c) ==
    /\ At(c, "drop")
    /\ vol' = DeleteVolumeRow(Box(c))
    /\ Goto(c, "done")
    /\ UNCHANGED <<mix, row, old, host, rpc, orig, held, cb, stream, con, mon, online, reach>>

\* VolumeReaper.run: its cutoff lies beyond the deadline of any call in flight.
Orphaned(v) ==
    /\ vol[v].st \in {"attaching", "deleting"} /\ vol[v].owner = None
    /\ \A c \in mix.calls : /\ v \in held[c] => At(c, "done")
                            /\ c = <<"delete", v>> => pc[c] \in {"idle", "done"}
                                                     /\ rpc[c] \notin {"sent", "lost"}

ReleaseStaleVolumeReservations ==
    [v \in Volumes |-> IF Orphaned(v) THEN [vol[v] EXCEPT !.st = "detached"] ELSE vol[v]]

Reap ==
    /\ \E v \in Volumes : Orphaned(v)
    /\ vol' = ReleaseStaleVolumeReservations
    /\ UNCHANGED <<mix, row, old, host, calls, cb, stream, con, mon, online, reach>>

-----------------------------------------------------------------------------
(* The agent acts on its own, and calls back *)

\* The TTL reaper pauses or destroys a VM, or the VM dies.
Expire(s) ==
    /\ mix.idle /\ agent[s] = "running"
    /\ \E e \in {<<"paused", "paused">>, <<"stopped", "absent">>, <<"error", "absent">>} :
         /\ agent' = [agent EXCEPT ![s] = e[2]]
         /\ cb' \in {cb, cb \cup {<<e[1], s>>}}
    /\ UNCHANGED <<mix, db, file, calls, stream, con, mon, online, reach>>

\* sandboxEventHandler: an error is a failure event for these statuses only.
Callback(e) ==
    /\ e \in cb
    /\ cb' = cb \ {e}
    /\ \/ e[1] # "error" /\ Publish(<<e>>)
       \/ /\ e[1] = "error" /\ row[e[2]] \in {"starting", "resuming", "snapshotting"}
          /\ Publish(<<<<"failed", e[2]>>>>)
       \/ /\ e[1] = "error" /\ row[e[2]] \notin {"starting", "resuming", "snapshotting"}
          /\ UNCHANGED stream
    /\ UNCHANGED <<mix, db, host, calls, con, mon, online, reach>>

-----------------------------------------------------------------------------
(* SandboxEventConsumer: one statement of the event's handler per step *)

Handler == [started |-> [todo |-> <<"starting">>, to |-> "running"],
            resumed |-> [todo |-> <<"resuming">>, to |-> "running"],
            paused  |-> [todo |-> <<"running", "pausing">>, to |-> "paused"],
            stopped |-> [todo |-> <<"detach", "stopping", "running">>, to |-> "stopped"],
            failed  |-> [todo |-> <<"detach", "running", "starting", "pausing",
                                    "resuming", "snapshotting">>, to |-> "error"]]

Consume ==
    /\ con = NoEvent /\ stream # <<>>
    /\ con' = [kind |-> Head(stream)[1], box |-> Head(stream)[2],
               todo |-> Handler[Head(stream)[1]].todo]
    /\ stream' = Tail(stream)
    /\ UNCHANGED <<mix, db, host, calls, cb, mon, online, reach>>

Advance == con' = IF Len(con.todo) = 1 THEN NoEvent ELSE [con EXCEPT !.todo = Tail(@)]

Handle ==
    /\ con # NoEvent
    /\ \/ /\ Head(con.todo) = "detach"
          /\ vol' = DetachVolumesBySandbox(con.box)
          /\ Advance
          /\ UNCHANGED <<row, old>>
       \/ /\ Head(con.todo) = row[con.box]
          /\ UpdateSandboxStatusIf(con.box, Head(con.todo), Handler[con.kind].to)
          /\ con' = NoEvent
          /\ UNCHANGED vol
       \/ /\ Head(con.todo) \notin {"detach", row[con.box]}
          /\ Advance
          /\ UNCHANGED db
    /\ UNCHANGED <<mix, host, calls, cb, stream, mon, online, reach>>

-----------------------------------------------------------------------------
(* HostMonitor.checkHost *)

\* last_updated falls behind the grace period: it is shorter than the RPCs'
\* deadlines, so a goroutine may still be at work on the row.
Age(s) ==
    /\ mix.monitor /\ row[s] \in Transient \ {"missing"} /\ ~old[s]
    /\ old' = [old EXCEPT ![s] = TRUE]
    /\ UNCHANGED <<mix, row, vol, host, calls, cb, stream, con, mon, online, reach>>

\* The passive phase: the heartbeats have stopped.
MarkUnreachable ==
    /\ mix.monitor /\ mon = Idle /\ ~reach /\ online
    /\ online' = FALSE
    /\ mon' = [Idle EXCEPT !.pc = "lose"]
    /\ UNCHANGED <<mix, db, host, calls, cb, stream, con, reach>>

MarkMissing ==
    /\ mon.pc = "lose"
    /\ MarkSandboxesMissingByHost
    /\ mon' = Idle
    /\ UNCHANGED <<mix, vol, host, calls, cb, stream, con, online, reach>>

\* ListSandboxes: a capsule mid-transition is present without a status.
Listed(s) ==
    {agent[s]} \cup IF Pending("pause", s) \cup Pending("resume", s) # {} /\ agent[s] \in {"running", "paused"}
                    THEN {""} ELSE {}

MonitorList ==
    /\ mix.monitor /\ mon = Idle /\ reach /\ online
    /\ \E f \in [Sandboxes -> AgentStates \cup {""}] :
         /\ \A s \in Sandboxes : f[s] \in Listed(s)
         /\ mon' = [Idle EXCEPT !.pc = "missing", !.alive = f]
    /\ UNCHANGED <<mix, db, host, calls, cb, stream, con, online, reach>>

Reported(st) == {s \in Sandboxes : mon.alive[s] = st}

\* Missing capsules take the status the host reports, one bulk update for each.
MonitorRestore ==
    /\ mon.pc = "missing"
    /\ LET found == {s \in ListSandboxesByHostAndStatus({"missing"}) : mon.alive[s] \notin {"absent", ""}}
           dead  == ListSandboxesByHostAndStatus({"missing"}) \cap Reported("absent")
       IN  /\ BulkRestoreMissingToStatus(found, mon.alive)
           /\ Publish(Events("paused", found \cap Reported("paused")))
           /\ mon' = [mon EXCEPT !.pc = IF dead = {} THEN "running" ELSE "stopMissing", !.rows = dead]
    /\ UNCHANGED <<mix, vol, host, calls, cb, con, online, reach>>

\* The rows the host does not report are stopped, then their volumes freed.
MonitorStop ==
    /\ mon.pc \in {"stopMissing", "stopRunning"}
    /\ BulkUpdateStatusByIDs(mon.rows, [s \in Sandboxes |-> "stopped"])
    /\ mon' = [mon EXCEPT !.pc = IF @ = "stopMissing" THEN "freeMissing" ELSE "freeRunning"]
    /\ UNCHANGED <<mix, vol, host, calls, cb, stream, con, online, reach>>

\* Mutant: the rows are stopped without freeing their volumes.
MonitorFreeNothing ==
    /\ mon.pc \in {"freeMissing", "freeRunning"}
    /\ Publish(Events("stopped", mon.rows))
    /\ mon' = [mon EXCEPT !.pc = IF @ = "freeMissing" THEN "running" ELSE "sync", !.rows = {}]
    /\ UNCHANGED <<mix, db, host, calls, cb, con, online, reach>>

MonitorFree ==
    /\ mon.pc \in {"freeMissing", "freeRunning"}
    /\ vol' = DetachVolumesBySandboxIDs(mon.rows)
    /\ Publish(Events("stopped", mon.rows))
    /\ mon' = [mon EXCEPT !.pc = IF @ = "freeMissing" THEN "running" ELSE "sync", !.rows = {}]
    /\ UNCHANGED <<mix, row, old, host, calls, cb, con, online, reach>>

\* Mutants: a label taken in mid-transition is written to the row; capsules
\* the host does not report are left alone.
MonitorRunningTransient ==
    /\ mon.pc = "running"
    /\ LET dead == ListSandboxesByHostAndStatus({"running"}) \cap Reported("absent")
       IN  mon' = [mon EXCEPT !.pc = IF dead = {} THEN "sync" ELSE "stopRunning", !.rows = dead,
                     !.sync = ListSandboxesByHostAndStatus({"running"}) \ (Reported("running") \cup Reported("absent"))]
    /\ UNCHANGED <<mix, db, host, calls, cb, stream, con, online, reach>>

MonitorRunningTrusts ==
    /\ mon.pc = "running"
    /\ mon' = [mon EXCEPT !.pc = "sync",
                 !.sync = ListSandboxesByHostAndStatus({"running"}) \cap (Reported("paused") \cup Reported("error"))]
    /\ UNCHANGED <<mix, db, host, calls, cb, stream, con, online, reach>>

MonitorRunning ==
    /\ mon.pc = "running"
    /\ LET dead == ListSandboxesByHostAndStatus({"running"}) \cap Reported("absent")
       IN  mon' = [mon EXCEPT !.pc = IF dead = {} THEN "sync" ELSE "stopRunning", !.rows = dead,
                     !.sync = ListSandboxesByHostAndStatus({"running"}) \cap (Reported("paused") \cup Reported("error"))]
    /\ UNCHANGED <<mix, db, host, calls, cb, stream, con, online, reach>>

MonitorSync ==
    /\ mon.pc = "sync"
    /\ BulkUpdateStatusByIDs(mon.sync, mon.alive)
    /\ Publish(Events("paused", mon.sync \cap Reported("paused")))
    /\ mon' = [mon EXCEPT !.pc = "zombies", !.sync = {}]
    /\ UNCHANGED <<mix, vol, host, calls, cb, con, online, reach>>

\* Rows that are stopped while the host keeps the capsule paused.
MonitorZombies ==
    /\ mon.pc = "zombies"
    /\ LET zombies == ListSandboxesByHostAndStatus({"stopped"}) \cap Reported("paused")
       IN  mon' = [mon EXCEPT !.pc = IF zombies = {} THEN "transient" ELSE "bury", !.rows = zombies]
    /\ UNCHANGED <<mix, db, host, calls, cb, stream, con, online, reach>>

\* The monitor's DestroySandbox; "gone" is what it concludes from the answer.
MonitorDestroys(s, gone) ==
    \/ /\ reach
       /\ AgentDestroys(s)
       /\ rpc' = Cancelled(s)
    \/ ~gone /\ UNCHANGED <<agent, rpc>>

MonitorBury ==
    /\ mon.pc = "bury"
    /\ \E s \in mon.rows, gone \in BOOLEAN :
         /\ MonitorDestroys(s, gone)
         /\ IF gone THEN Publish(<<<<"stopped", s>>>>) ELSE UNCHANGED stream
         /\ mon' = [mon EXCEPT !.rows = @ \ {s}, !.pc = IF mon.rows = {s} THEN "transient" ELSE @]
    /\ UNCHANGED <<mix, db, file, pc, orig, held, cb, con, online, reach>>

\* A snapshot has a longer grace period than its RPC has a deadline.
MonitorTransient ==
    /\ mon.pc = "transient"
    /\ LET busy == ListSandboxesByHostAndStatus(Transient \ {"missing"})
           late == {s \in busy : /\ old[s]
                                 /\ row[s] = "snapshotting" /\ mon.alive[s] # "absent" => ~Busy(s)}
       IN  mon' = [mon EXCEPT !.pc = IF busy = {} THEN "idle" ELSE "resolve",
                              !.alive = IF busy = {} THEN NoStatus ELSE @,
                              !.rows = busy, !.sync = late,
                              !.seen = [s \in Sandboxes |-> IF s \in busy THEN row[s] ELSE "absent"]]
    /\ UNCHANGED <<mix, db, host, calls, cb, stream, con, online, reach>>

\* The state inferred for a capsule the host does not have.
Final(st) == CASE st = "pausing" -> "paused" [] st = "stopping" -> "stopped" [] OTHER -> "error"
Notice(st) == CASE st = "pausing" -> "paused" [] st = "stopping" -> "stopped" [] OTHER -> "failed"

\* s is dealt with: on to the next row, or the tick is over.
Done(s) == mon' = IF mon.rows = {s} THEN Idle
                  ELSE [mon EXCEPT !.pc = "resolve", !.rows = @ \ {s}, !.item = None]
Step(s, point) == mon' = [mon EXCEPT !.pc = point, !.item = s]

\* Present on the host: a start or resume has succeeded, a snapshot nobody
\* waits for is over, a pause is left to its goroutine.
ResolvePresent(s) ==
    /\ mon.alive[s] # "absent"
    /\ ~ (mon.seen[s] = "stopping" /\ s \in mon.sync)
    /\ CASE mon.seen[s] \in {"starting", "resuming"} -> UpdateSandboxStatusIf(s, mon.seen[s], "running")
         [] mon.seen[s] = "snapshotting" /\ s \in mon.sync ->
              UpdateSandboxStatusIf(s, "snapshotting", IF mon.alive[s] = "paused" THEN "paused" ELSE "running")
         [] OTHER -> UNCHANGED <<row, old>>
    /\ Done(s)
    /\ UNCHANGED <<vol, agent, rpc, stream>>

\* Present although it should have been destroyed: the destroy is sent again.
\* Mutant: a destroy that failed is not sent again.
ResolveStoppingWaits(s) ==
    /\ mon.alive[s] # "absent" /\ mon.seen[s] = "stopping" /\ s \in mon.sync
    /\ Done(s)
    /\ UNCHANGED <<db, agent, rpc, stream>>

ResolveStopping(s) ==
    /\ mon.alive[s] # "absent" /\ mon.seen[s] = "stopping" /\ s \in mon.sync
    /\ \E gone \in BOOLEAN :
         /\ MonitorDestroys(s, gone)
         /\ IF gone THEN Step(s, "confirmed") ELSE Done(s)
    /\ UNCHANGED <<db, stream>>

\* Absent and past its grace period: the final state is inferred.
ResolveAbsent(s) ==
    /\ mon.alive[s] = "absent"
    /\ IF s \in mon.sync /\ row[s] = mon.seen[s]
         THEN /\ UpdateSandboxStatusIf(s, mon.seen[s], Final(mon.seen[s]))
              /\ Step(s, "settle")
         ELSE Done(s) /\ UNCHANGED <<row, old>>
    /\ UNCHANGED <<vol, agent, rpc, stream>>

MonitorResolve ==
    /\ mon.pc = "resolve"
    /\ \E s \in mon.rows : ResolvePresent(s) \/ ResolveStopping(s) \/ ResolveAbsent(s)
    /\ UNCHANGED <<mix, file, pc, orig, held, cb, con, online, reach>>

MonitorConfirmed ==
    /\ mon.pc = "confirmed"
    /\ UpdateSandboxStatusIf(mon.item, "stopping", "stopped")
    /\ IF row[mon.item] = "stopping" THEN Step(mon.item, "settle") ELSE Done(mon.item)
    /\ UNCHANGED <<mix, vol, host, calls, cb, stream, con, online, reach>>

\* A terminal state frees the volumes; a snapshot's end is not a capsule event.
MonitorSettle ==
    /\ mon.pc = "settle"
    /\ LET was == mon.seen[mon.item]
       IN  /\ vol' = IF was = "pausing" THEN vol ELSE DetachVolumesBySandboxIDs({mon.item})
           /\ IF was = "snapshotting" THEN UNCHANGED stream
                                      ELSE Publish(<<<<Notice(was), mon.item>>>>)
    /\ Done(mon.item)
    /\ UNCHANGED <<mix, row, old, host, calls, cb, con, online, reach>>

MonitorStep ==
    \/ MarkMissing \/ MonitorList \/ MonitorRestore \/ MonitorStop \/ MonitorFree
    \/ MonitorRunning \/ MonitorSync \/ MonitorZombies \/ MonitorBury
    \/ MonitorTransient \/ MonitorResolve \/ MonitorConfirmed \/ MonitorSettle

-----------------------------------------------------------------------------
(* Crashes, outages, the specification *)

\* Every handler and goroutine dies, and the event the consumer had taken: it
\* reads only new messages after a restart.
Crash ==
    /\ mix.crashes > 0
    /\ mix' = [mix EXCEPT !.crashes = @ - 1]
    /\ pc' = [c \in mix.calls |-> IF At(c, "idle") THEN "idle" ELSE "done"]
    /\ con' = NoEvent /\ mon' = Idle
    /\ UNCHANGED <<db, host, rpc, orig, held, cb, stream, online, reach>>

\* The host is cut off; its VMs survive, are paused, or are lost.
Outage ==
    /\ mix.outages > 0 /\ reach
    /\ mix' = [mix EXCEPT !.outages = @ - 1]
    /\ reach' = FALSE
    /\ \E st \in {"running", "paused", "absent"} :
         agent' = [s \in Sandboxes |-> IF agent[s] = "running" THEN st ELSE agent[s]]
    /\ UNCHANGED <<db, file, calls, cb, stream, con, mon, online>>

Recover ==
    /\ ~reach
    /\ reach' = TRUE
    /\ UNCHANGED <<mix, db, host, calls, cb, stream, con, mon, online>>

\* A heartbeat puts an unreachable host back online.
Heartbeat ==
    /\ reach /\ ~online
    /\ online' = TRUE
    /\ UNCHANGED <<mix, db, host, calls, cb, stream, con, mon, reach>>

CallStep(c) ==
    \/ CreateReserve(c) \/ CreateRelease(c) \/ CreateInsert(c) \/ CreateLink(c)
    \/ CreateFailed(c) \/ CreateConfirm(c) \/ CreateFree(c) \/ CreateFail(c)
    \/ CreateAttach(c) \/ CreateRun(c)
    \/ Undo(c) \/ Finish(c) \/ FinishFailed(c)
    \/ DestroyMark(c) \/ DestroyFailed(c) \/ DestroyDetach(c) \/ DestroyStop(c)
    \/ DeleteServed(c) \/ DeleteFailed(c) \/ DeleteAbort(c) \/ DeleteDrop(c)

Next ==
    \/ \E c \in mix.calls : \/ CreateCall(c) \/ Begin(c) \/ DestroyCall(c) \/ DeleteBegin(c)
                        \/ CallStep(c) \/ Serve(c) \/ Refuse(c) \/ GiveUp(c)
    \/ \E s \in Sandboxes : Expire(s) \/ Age(s)
    \/ \E e \in cb : Callback(e)
    \/ Consume \/ Handle
    \/ MarkUnreachable \/ MonitorStep
    \/ Reap \/ Crash \/ Outage \/ Recover \/ Heartbeat

(***************************************************************************)
(* Goroutines run, requests end, the monitor ticks, time passes, the host  *)
(* comes back and beats.  A destroy the monitor keeps sending is confirmed *)
(* in the end.  A call has finitely many steps, so that fairness for some  *)
(* call is fairness for each.                                              *)
(***************************************************************************)
Fairness ==
    /\ WF_vars(\E c \in mix.calls : CallStep(c))
    /\ WF_vars(\E c \in mix.calls : Serve(c) \/ Refuse(c))
    /\ WF_vars(\E s \in Sandboxes : Age(s))
    /\ WF_vars(Consume \/ Handle)
    /\ WF_vars(MarkUnreachable \/ MonitorStep)
    /\ SF_vars(MonitorResolve /\ mon'.pc = "confirmed")
    /\ WF_vars(Recover \/ Heartbeat)
    /\ WF_vars(Reap)

Spec == Init /\ [][Next]_vars /\ Fairness

-----------------------------------------------------------------------------
(* Properties *)

\* A capsule that the host has running or paused still holds its volumes: no
\* other capsule can reserve them and their files are there.  Breaks when a
\* path frees a reservation, or deletes a file, before the host has confirmed
\* that the capsule is gone (createInBackground, destroyInBackground,
\* VolumeService.Delete, VolumeReaper).  Two scenarios break it, a failed
\* resume and a boot that the monitor overtakes: they are runs of their own.
VolumeHeld ==
    \A s \in Sandboxes : agent[s] \in {"running", "paused"} =>
        \A v \in mix.wants[s] :
            /\ vol[v].st \in {"attaching", "attached"}
            /\ vol[v].owner = s
            /\ file[v]

\* A destroy that has marked its row wins: no other handler, goroutine or
\* event puts the capsule back into use ("Use a CAS so a concurrent Destroy
\* wins", snapshotInBackground).  The monitor's own bulk writes are excepted:
\* they do not look at the status they overwrite.
DestroyWins ==
    [][\A s \in Sandboxes : row[s] = "stopping" /\ mon' = mon => row'[s] \in {"stopping", "stopped"}]_vars

\* Volumes of a capsule that has ended do not stay claimed by it: one of the
\* detaching paths always gets to them.
VolumesFreed ==
    \A s \in Sandboxes :
        row[s] \in Terminal ~> (row[s] \in Terminal => \A v \in Volumes : vol[v].owner # s)

\* No capsule stays in a transient status: the goroutine that put it there or
\* the monitor moves it on.
TransientSettles ==
    \A s \in Sandboxes : mix.monitor /\ row[s] \in Transient ~> row[s] \notin Transient

\* A row that says running while the host has no such capsule is corrected,
\* however the capsule went and whichever callback was lost.
PhantomResolved ==
    \A s \in Sandboxes :
        mix.monitor /\ row[s] = "running" /\ agent[s] = "absent"
            ~> ~ (row[s] = "running" /\ agent[s] = "absent")

=============================================================================
