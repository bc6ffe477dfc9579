------------------------------- MODULE Notify -------------------------------
(***************************************************************************)
(* What the control plane tells about its capsules: the audit rows and     *)
(* events its handlers, background goroutines, host monitor and the hosts' *)
(* callbacks produce (pkg/audit, pkg/channels/publisher.go), the consumer  *)
(* that turns them into rows, the dispatcher of Channels, and the live     *)
(* stream to the dashboards (the SSE relay and broker).                    *)
(*                                                                         *)
(* The emitting code is sequential: a call's todo is the rest of what it   *)
(* still writes, one effect per step, so that everything else happens in   *)
(* between.  The lifecycle itself is abstracted to the status column; see  *)
(* ControlPlane for it.                                                    *)
(***************************************************************************)
EXTENDS Channels

CONSTANTS Boxes, Subs, Calls,
          SseBuffer,    \* sseChannelBuffer (32 in the code)
          MaxCrashes

VARIABLES mix,      \* the scenario: requests, endpoints and what may fail
          row,      \* sandboxes.status
          made,     \* [Boxes, None -> events made so far]; an event's number is its place among them
          pc,       \* where a call is: "new", "going", "second", "done"
          todo,     \* [Calls \X Threads -> effects still to happen]
          rpc,      \* background goroutine of a call: "none", "waiting", "ended"
          result,   \* history: how the background work of a call ended
          reply,    \* what the caller of a channel operation was told
          cons,     \* last entry the SandboxEventConsumer has handled
          held,     \* entries it left unacknowledged
          bus,      \* messages on their way to the relay
          relay,    \* the relay: up or down, and the message it is hydrating
          subs,     \* SSE clients
          crashes

vars == <<mix, row, made, pc, todo, rpc, result, reply, cons, held, bus, relay, subs, crashes,
          log, pages, channel, stream, group, disp, retries, sent>>
NotifyVars == <<row, made, pc, todo, rpc, result, reply, cons, held, bus, relay, subs, crashes, log, pages>>

Threads == {"handler", "background"}
AsCalls == DOMAIN mix.calls
Q(c) == mix.calls[c]

----------------------------------------------------------------------------
(* Events and the effects of publishing them *)

Event(kind, outcome, actor, team, box, reason, op) ==
    [kind |-> kind, outcome |-> outcome, actor |-> actor, team |-> team, box |-> box,
     reason |-> reason, op |-> op, n |-> made[box] + 1]

Log(e) == <<[do |-> "log", what |-> e]>>
Publish(e) == <<[do |-> "add", what |-> e], [do |-> "mirror", what |-> e]>>
PublishTransient(e) == <<[do |-> "mirror", what |-> e]>>

outcomeFromErr(err) == IF err THEN "error" ELSE "success"

----------------------------------------------------------------------------
(* AuditLogger: the row, then the event *)

LogSandboxCreate(q, c, err) ==
    Log(newEntry(q.team, "user", q.box, "create", "team", c))
    \o Publish(Event("create", outcomeFromErr(err), "user", q.team, IF err THEN None ELSE q.box, None, c))
LogSandboxPause(q, c, err) ==
    Log(newEntry(q.team, "user", q.box, "pause", "team", c))
    \o Publish(Event("pause", outcomeFromErr(err), "user", q.team, q.box, None, c))
LogSandboxResume(q, c, err) ==
    Log(newEntry(q.team, "user", q.box, "resume", "team", c))
    \o Publish(Event("resume", outcomeFromErr(err), "user", q.team, q.box, None, c))
LogSandboxDestroy(q, c, err) ==
    Log(newEntry(q.team, "user", q.box, "destroy", "team", c))
    \o Publish(Event("destroy", outcomeFromErr(err), "user", q.team, q.box, None, c))

\* Written by the host monitor: always the system, always with a reason.
LogSandboxAutoPause(q, c, reason) ==
    Log(newEntry(q.team, "system", q.box, "pause", "team", c))
    \o Publish(Event("pause", "success", "system", q.team, q.box, reason, c))
LogSandboxCreateSystem(q, c, reason) ==
    Log(newEntry(q.team, "system", q.box, "error", "team", c))
    \o Publish(Event("create", "error", "system", q.team, q.box, reason, c))
LogSandboxResumeSystem(q, c, reason) ==
    Log(newEntry(q.team, "system", q.box, "error", "team", c))
    \o Publish(Event("resume", "error", "system", q.team, q.box, reason, c))
LogSandboxDestroySystem(q, c, reason) ==
    Log(newEntry(q.team, "system", q.box, "destroy", "team", c))
    \o Publish(Event("destroy", "success", "system", q.team, q.box, reason, c))

LogSnapshotCreateRequested(q, c) == Log(newEntry(q.team, "user", "snapshot", "create", "team", c))
LogSnapshotCreateSystem(q, c) == Log(newEntry(q.team, "system", q.box, "snapshot", "team", c))
LogSnapshotDelete(q, c, err) ==
    Log(newEntry(q.team, "user", "snapshot", "delete", "team", c))
    \o Publish(Event("snapdelete", outcomeFromErr(err), "user", q.team, None, None, c))
LogVolumeCreate(q, c) ==
    Log(newEntry(q.team, "user", "volume", "create", "team", c))
    \o Publish(Event("volcreate", "success", "user", q.team, None, None, c))
LogVolumeDelete(q, c) ==
    Log(newEntry(q.team, "user", "volume", "delete", "team", c))
    \o Publish(Event("voldelete", "success", "user", q.team, None, None, c))
\* A shared host belongs to no team: nobody is told.
logSystemHostEvent(q, c, kind) ==
    IF q.team = None THEN <<>>
    ELSE Log(newEntry(q.team, "system", "host", kind, "team", c))
         \o Publish(Event(kind, None, "system", q.team, None, None, c))
LogChannel(q, c) == Log(newEntry(q.team, "user", "channel", q.kind, "team", c))
LogMember(q, c) == Log(newEntry(q.team, "user", "member", "add", "admin", c))

----------------------------------------------------------------------------
(* The lifecycle operations, as far as the status column shows them:       *)
(* the status they need, the one they pass through, the two they end in.   *)

Lifecycle ==
    [create  |-> [from |-> {None}, already |-> {}, via |-> "starting", good |-> "running", bad |-> "error",
                  told |-> "sandbox.started", failed |-> "sandbox.failed"],
     pause   |-> [from |-> {"running"}, already |-> {"paused"}, via |-> "pausing", good |-> "paused", bad |-> "running",
                  told |-> "sandbox.paused", failed |-> "sandbox.pause_failed"],
     resume  |-> [from |-> {"paused"}, already |-> {"running"}, via |-> "resuming", good |-> "running", bad |-> "paused",
                  told |-> "sandbox.resumed", failed |-> "sandbox.resume_failed"],
     destroy |-> [from |-> {"starting", "running", "pausing", "paused", "resuming", "snapshotting", "stopping"},
                  already |-> {"stopped", "error"}, via |-> "stopping", good |-> "stopped", bad |-> "stopping",
                  told |-> "sandbox.stopped", failed |-> "sandbox.destroy_failed"]]

CAS(b, from, to) == IF row[b] = from THEN [row EXCEPT ![b] = to] ELSE row

Canonical(name) ==
    CASE name = "sandbox.started" -> [kind |-> "create", outcome |-> "success", reason |-> None]
      [] name = "sandbox.resumed" -> [kind |-> "resume", outcome |-> "success", reason |-> None]
      [] name = "sandbox.paused" -> [kind |-> "pause", outcome |-> "success", reason |-> None]
      [] name = "sandbox.stopped" -> [kind |-> "destroy", outcome |-> "success", reason |-> None]
      [] name = "sandbox.destroy_failed" -> [kind |-> "destroy", outcome |-> "error", reason |-> "destroy_failed"]
      [] name = "sandbox.pause_failed" -> [kind |-> "pause", outcome |-> "error", reason |-> "pause_failed"]
      [] name = "sandbox.resume_failed" -> [kind |-> "resume", outcome |-> "error", reason |-> "resume_failed"]
      [] name = "sandbox.failed" -> [kind |-> "create", outcome |-> "error", reason |-> "create_failed"]
      [] name = "sandbox.snapshotted" -> [kind |-> "snapcreate", outcome |-> "success", reason |-> None]
      [] name = "sandbox.snapshot_failed" -> [kind |-> "snapcreate", outcome |-> "error", reason |-> "snapshot_failed"]
      [] name = "sandbox.state_changed" -> [kind |-> "changed", outcome |-> None, reason |-> None]

\* The reasons of failures forgotten.
serviceEventUnreasoned(name, q, c) ==
    LET v == Canonical(name)
    IN  Event(v.kind, v.outcome, "system", q.team, IF v.kind = "snapcreate" THEN None ELSE q.box, None, c)
serviceEventToCanonical(name, q, c) ==
    LET v == Canonical(name)
    IN  Event(v.kind, v.outcome, "system", q.team, IF v.kind = "snapcreate" THEN None ELSE q.box, v.reason, c)

PublishEvent(name, q, c) ==
    LET e == serviceEventToCanonical(name, q, c)
    IN  IF e.kind = "changed" THEN PublishTransient(e) ELSE Publish(e)

Then(c, thread, effects) == [todo EXCEPT ![<<c, thread>>] = @ \o effects]
Count(effects) ==
    [b \in DOMAIN made |->
        made[b] + Cardinality({i \in DOMAIN effects : effects[i].do = "mirror" /\ effects[i].what.box = b})]

Begin(c, kinds) == c \in AsCalls /\ pc[c] = "new" /\ Q(c).kind \in kinds /\ \A d \in Q(c).after : pc[d] = "done"

----------------------------------------------------------------------------
(* Handlers of the lifecycle requests *)

\* The service marks the row and starts the background goroutine; the handler
\* then writes the row and the event, refused or not.
Accept(c, ok, effects) ==
    /\ row' = IF ok THEN [row EXCEPT ![Q(c).box] = Lifecycle[Q(c).kind].via] ELSE row
    /\ rpc' = IF ok THEN [rpc EXCEPT ![c] = "waiting"] ELSE rpc
    /\ todo' = Then(c, "handler", effects)
    /\ made' = Count(effects)
    /\ pc' = [pc EXCEPT ![c] = "done"]
    /\ UNCHANGED <<mix, result, reply, cons, held, bus, relay, subs, crashes, log, pages>>
    /\ UNCHANGED ChannelVars

Allowed(q) == row[q.box] \in Lifecycle[q.kind].from
\* Asking for what is already so succeeds and does nothing.
Fine(q) == Allowed(q) \/ row[q.box] \in Lifecycle[q.kind].already

CreateSandbox(c) ==
    /\ Begin(c, {"create"})
    /\ Accept(c, Allowed(Q(c)), LogSandboxCreate(Q(c), c, ~Fine(Q(c))))
PauseSandbox(c) ==
    /\ Begin(c, {"pause"})
    /\ Accept(c, Allowed(Q(c)), LogSandboxPause(Q(c), c, ~Fine(Q(c))))
ResumeSandbox(c) ==
    /\ Begin(c, {"resume"})
    /\ Accept(c, Allowed(Q(c)), LogSandboxResume(Q(c), c, ~Fine(Q(c))))
DestroySandbox(c) ==
    /\ Begin(c, {"destroy"})
    /\ Accept(c, Allowed(Q(c)), LogSandboxDestroy(Q(c), c, ~Fine(Q(c))))

\* createInBackground, pauseInBackground, resumeInBackground, destroyInBackground.
Background(c, ok) ==
    /\ rpc[c] = "waiting"
    /\ Q(c).kind \in DOMAIN Lifecycle
    /\ LET q == Q(c)
           op == Lifecycle[q.kind]
           effects == PublishEvent(IF ok THEN op.told ELSE op.failed, q, c)
       IN  /\ row' = CAS(q.box, op.via, IF ok THEN op.good ELSE op.bad)
           /\ todo' = Then(c, "background", effects)
           /\ made' = Count(effects)
    /\ rpc' = [rpc EXCEPT ![c] = "ended"]
    /\ result' = [result EXCEPT ![c] = IF ok THEN "good" ELSE "bad"]
    /\ UNCHANGED <<mix, pc, reply, cons, held, bus, relay, subs, crashes, log, pages>>
    /\ UNCHANGED ChannelVars

\* A failed create whose host cannot confirm the teardown tells nobody and
\* leaves the row to the host monitor.
LeftToMonitor(c) ==
    /\ mix.fails /\ rpc[c] = "waiting" /\ Q(c).kind = "create"
    /\ rpc' = [rpc EXCEPT ![c] = "ended"]
    /\ result' = [result EXCEPT ![c] = "lost"]
    /\ UNCHANGED <<mix, row, made, pc, todo, reply, cons, held, bus, relay, subs, crashes, log, pages>>
    /\ UNCHANGED ChannelVars

\* A snapshot is announced by the badge alone until it is done.
RequestSnapshot(c) ==
    /\ Begin(c, {"snapshot"})
    /\ LET q == Q(c)
           ok == row[q.box] \in {"running", "paused"}
           effects == IF ok THEN PublishEvent("sandbox.state_changed", q, c) \o LogSnapshotCreateRequested(q, c)
                            ELSE <<>>
       IN  /\ row' = IF ok THEN [row EXCEPT ![q.box] = "snapshotting"] ELSE row
           /\ rpc' = IF ok THEN [rpc EXCEPT ![c] = "waiting"] ELSE rpc
           /\ reply' = [reply EXCEPT ![c] = row[q.box]]
           /\ todo' = Then(c, "handler", effects)
           /\ made' = Count(effects)
    /\ pc' = [pc EXCEPT ![c] = "done"]
    /\ UNCHANGED <<mix, result, cons, held, bus, relay, subs, crashes, log, pages>>
    /\ UNCHANGED ChannelVars

\* snapshotInBackground: the badge goes back, unless the capsule has moved on.
BackgroundSnapshot(c, ok) ==
    /\ rpc[c] = "waiting"
    /\ Q(c).kind = "snapshot"
    /\ \A i \in DOMAIN todo[<<c, "handler">>] : todo[<<c, "handler">>][i].do # "mirror"
    /\ LET q == Q(c)
           back == row[q.box] = "snapshotting"
           badge == IF back THEN PublishEvent("sandbox.state_changed", q, c) ELSE <<>>
           effects == badge \o PublishEvent(IF ok THEN "sandbox.snapshotted" ELSE "sandbox.snapshot_failed", q, c)
       IN  /\ row' = CAS(q.box, "snapshotting", reply[c])
           /\ todo' = Then(c, "background", effects)
           /\ made' = Count(effects)
    /\ rpc' = [rpc EXCEPT ![c] = "ended"]
    /\ result' = [result EXCEPT ![c] = IF ok THEN "good" ELSE "bad"]
    /\ UNCHANGED <<mix, pc, reply, cons, held, bus, relay, subs, crashes, log, pages>>
    /\ UNCHANGED ChannelVars

----------------------------------------------------------------------------
(* Handlers that only tell: volumes, snapshot deletion, hosts, members *)

Tell(c, effects) ==
    /\ todo' = Then(c, "handler", effects)
    /\ made' = Count(effects)
    /\ pc' = [pc EXCEPT ![c] = "done"]
    /\ UNCHANGED <<mix, row, rpc, result, reply, cons, held, bus, relay, subs, crashes, log, pages>>
    /\ UNCHANGED ChannelVars

CreateVolume(c) == Begin(c, {"volcreate"}) /\ Tell(c, LogVolumeCreate(Q(c), c))
DeleteVolume(c) == Begin(c, {"voldelete"}) /\ Tell(c, LogVolumeDelete(Q(c), c))
DeleteSnapshot(c) == Begin(c, {"snapdelete"}) /\ Tell(c, LogSnapshotDelete(Q(c), c, FALSE))
AddMember(c) == Begin(c, {"member"}) /\ Tell(c, LogMember(Q(c), c))
HostMarked(c) == Begin(c, {"hostup", "hostdown"}) /\ Tell(c, logSystemHostEvent(Q(c), c, Q(c).kind))

verbForFailure(status) ==
    CASE status \in {"starting", "snapshotting"} -> "create"
      [] status = "resuming" -> "resume"
      [] status = "pausing" -> "pause"
      [] OTHER -> "destroy"

\* The host's callback, sandboxEventHandler.Handle: translated and published,
\* the row is left to the consumer.
Callback(c) ==
    /\ Begin(c, {"auto_paused", "stopped", "crashed"})
    /\ row[Q(c).box] # None
    /\ LET q == Q(c)
       IN  Tell(c, Publish(
               CASE q.kind = "stopped" -> Event("destroy", "success", "system", q.team, q.box, None, c)
                 [] q.kind = "auto_paused" -> Event("pause", "success", "system", q.team, q.box, "ttl_expired", c)
                 [] q.kind = "crashed" -> Event(verbForFailure(row[q.box]), "error", "system", q.team, q.box,
                                                "host_failure", c)))

\* The host monitor settles a capsule nobody else settles any more: one paused
\* on its host, one whose request died with a control plane, one half destroyed.
Inferred ==
    [sync    |-> [running |-> "paused"],
     timeout |-> [starting |-> "error", resuming |-> "error", pausing |-> "paused", snapshotting |-> "error"],
     retry   |-> [stopping |-> "stopped"]]

\* Patient: the operation has ended before the grace period has.
Monitor(c) ==
    /\ Begin(c, DOMAIN Inferred)
    /\ mix.patient => \A d \in AsCalls : Q(d).box = Q(c).box => rpc[d] # "waiting"
    /\ LET q == Q(c)
           was == row[q.box]
           to == Inferred[q.kind]
           effects == CASE was \notin DOMAIN to -> <<>>
                        [] was = "running" -> LogSandboxAutoPause(q, c, "host_state_sync")
                        [] was = "starting" -> LogSandboxCreateSystem(q, c, "transient_timeout")
                        [] was = "resuming" -> LogSandboxResumeSystem(q, c, "transient_timeout")
                        [] was = "pausing" -> LogSandboxAutoPause(q, c, "transient_timeout_inferred")
                        [] was = "snapshotting" -> LogSnapshotCreateSystem(q, c)
                        [] was = "stopping" -> LogSandboxDestroySystem(q, c, "destroy_retry")
       IN  /\ row' = IF was \in DOMAIN to THEN [row EXCEPT ![q.box] = to[was]] ELSE row
           /\ todo' = Then(c, "handler", effects)
           /\ made' = Count(effects)
    /\ pc' = [pc EXCEPT ![c] = "done"]
    /\ UNCHANGED <<mix, rpc, result, reply, cons, held, bus, relay, subs, crashes, log, pages>>
    /\ UNCHANGED ChannelVars

----------------------------------------------------------------------------
(* Handlers of the channel requests, and the deletion of a team *)

Answer(c, done, effects) ==
    /\ channel' = done.channel
    /\ reply' = [reply EXCEPT ![c] = done.reply]
    /\ todo' = IF done.reply = "ok" THEN Then(c, "handler", effects) ELSE todo
    /\ pc' = [pc EXCEPT ![c] = "done"]
    /\ UNCHANGED <<mix, row, made, rpc, result, cons, held, bus, relay, subs, crashes, log, pages>>
    /\ UNCHANGED <<stream, group, disp, retries, sent>>

CreateChannel(c) == Begin(c, {"chcreate"}) /\ Answer(c, serviceCreate(Q(c)), LogChannel(Q(c), c))
RenameChannel(c) == Begin(c, {"chupdate"}) /\ Answer(c, serviceUpdate(Q(c)), LogChannel(Q(c), c))
GetChannel(c) ==
    /\ Begin(c, {"chget"})
    /\ Answer(c, [channel |-> channel, reply |-> IF GetChannelByTeam(Q(c).ch, Q(c).team) = None THEN "notfound" ELSE "ok"],
              <<>>)
\* The configuration of the request is tried; no channel is involved.
TestChannel(c, reached) ==
    /\ Begin(c, {"chtest"})
    /\ Answer(c, [channel |-> channel, reply |-> serviceTest(Q(c), reached)], <<>>)

\* RotateConfig looks the channel up first; Delete goes straight to the row.
RotateLookup(c) ==
    /\ Begin(c, {"chrotate"})
    /\ LET found == serviceRotateLookup(Q(c))
       IN  /\ reply' = [reply EXCEPT ![c] = found]
           /\ pc' = [pc EXCEPT ![c] = IF found = "found" THEN "second" ELSE "done"]
    /\ UNCHANGED <<mix, row, made, todo, rpc, result, cons, held, bus, relay, subs, crashes, log, pages>>
    /\ UNCHANGED ChannelVars
RotateConfig(c) ==
    /\ c \in AsCalls /\ pc[c] = "second"
    /\ Answer(c, serviceRotate(Q(c)), LogChannel(Q(c), c))

DeleteChannel(c) ==
    /\ Begin(c, {"chdelete"})
    /\ Answer(c, [channel |-> DeleteChannelByTeam(Q(c).ch, Q(c).team), reply |-> "ok"], LogChannel(Q(c), c))
DeleteTeam(c) ==
    /\ Begin(c, {"teamdelete"})
    /\ Answer(c, [channel |-> DeleteAllChannelsByTeam(Q(c).team), reply |-> "ok"], <<>>)

----------------------------------------------------------------------------
(* The effects, one at a time.  Each is fire-and-forget: if it fails, the  *)
(* failure is logged and the next one follows.                             *)

Effect(c, t, works) ==
    /\ todo[<<c, t>>] # <<>>
    /\ LET e == Head(todo[<<c, t>>])
       IN  /\ log' = IF e.do = "log" /\ works THEN InsertAuditLog(log, e.what) ELSE log
           /\ stream' = IF e.do = "add" /\ works THEN Append(stream, e.what) ELSE stream
           /\ bus' = IF e.do = "mirror" /\ works /\ relay.up THEN Append(bus, e.what) ELSE bus
           /\ relay' = [relay EXCEPT !.gap = @ \/ (e.do # "log" /\ ~works) \/ (e.do = "mirror" /\ ~relay.up)]
    /\ todo' = [todo EXCEPT ![<<c, t>>] = Tail(@)]
    /\ UNCHANGED <<mix, row, made, pc, rpc, result, reply, cons, held, subs, crashes, pages>>
    /\ UNCHANGED <<channel, group, disp, retries, sent>>

----------------------------------------------------------------------------
(* SandboxEventConsumer: a second consumer group of the same stream *)

\* From these statuses a successful or failed event of the system moves the row.
Moves(e) ==
    CASE e.kind = "create" /\ e.outcome = "success" -> [from |-> {"starting"}, to |-> "running"]
      [] e.kind = "resume" /\ e.outcome = "success" -> [from |-> {"resuming"}, to |-> "running"]
      [] e.kind = "pause" /\ e.outcome = "success" -> [from |-> {"running", "pausing"}, to |-> "paused"]
      [] e.kind = "destroy" /\ e.outcome = "success" -> [from |-> {"stopping", "running"}, to |-> "stopped"]
      [] e.kind \in {"create", "resume"} /\ e.outcome = "error" ->
            [from |-> {"running", "starting", "pausing", "resuming", "snapshotting"}, to |-> "error"]
      [] OTHER -> [from |-> {}, to |-> None]

\* handleFailed writes a row for every failure.
AuditsEvery(e, moved) ==
    CASE e.kind = "pause" /\ e.outcome = "success" /\ moved -> Log(newEntry(e.team, "system", e.box, "pause", "team", e.op))
      [] e.kind \in {"create", "resume"} /\ e.outcome = "error" ->
            Log(newEntry(e.team, "system", e.box, "error", "team", e.op))
      [] OTHER -> <<>>
\* The rows the consumer writes itself: an automatic pause it applied, and a
\* failure unless whoever inferred it has written one.
Audits(e, moved) ==
    CASE e.kind = "pause" /\ e.outcome = "success" /\ moved -> Log(newEntry(e.team, "system", e.box, "pause", "team", e.op))
      [] e.kind \in {"create", "resume"} /\ e.outcome = "error" /\ e.reason # "transient_timeout" ->
            Log(newEntry(e.team, "system", e.box, "error", "team", e.op))
      [] OTHER -> <<>>

\* handleMessage; a hook that fails leaves the entry unacknowledged, and the
\* loop asks for new entries (">") only.
Consume(hooked) ==
    /\ cons < Len(stream)
    /\ LET e == stream[cons + 1]
           ours == e.actor = "system" /\ e.box # None
           moved == ours /\ row[e.box] \in Moves(e).from
           rows == IF ours THEN Audits(e, moved) ELSE <<>>
       IN  /\ row' = IF moved THEN [row EXCEPT ![e.box] = Moves(e).to] ELSE row
           /\ log' = IF rows = <<>> THEN log ELSE InsertAuditLog(log, Head(rows).what)
           /\ held' = IF ours /\ e.outcome = "success" /\ ~hooked THEN held \union {cons + 1} ELSE held
    /\ cons' = cons + 1
    /\ UNCHANGED <<mix, made, pc, todo, rpc, result, reply, bus, relay, subs, crashes, pages>>
    /\ UNCHANGED ChannelVars

----------------------------------------------------------------------------
(* SSE: relay, broker, clients *)

impliedNever(e) == None
\* The status a completion by the system implies.
impliedSandboxStatus(e) ==
    IF e.outcome # "success" \/ e.actor # "system" THEN None
    ELSE CASE e.kind = "pause" -> "paused"
           [] e.kind \in {"resume", "create"} -> "running"
           [] OTHER -> None

hydrateSandbox(b) == row[b]

\* The connection to Redis goes and comes back; what is published meanwhile is lost.
RelayDrop ==
    /\ mix.flaky /\ relay.up /\ ~relay.gap
    /\ relay' = [relay EXCEPT !.up = FALSE, !.gap = TRUE]
    /\ bus' = <<>>
    /\ UNCHANGED <<mix, row, made, pc, todo, rpc, result, reply, cons, held, subs, crashes, log, pages>>
    /\ UNCHANGED ChannelVars
RelayBack ==
    /\ mix.watched # {} /\ ~relay.up
    /\ relay' = [relay EXCEPT !.up = TRUE]
    /\ UNCHANGED <<mix, row, made, pc, todo, rpc, result, reply, cons, held, bus, subs, crashes, log, pages>>
    /\ UNCHANGED ChannelVars

\* handleMessage: the capsule's row is read, and its status replaced by the implied one.
Hydrate ==
    /\ bus # <<>> /\ relay.now = None
    /\ LET e == Head(bus)
           implied == impliedSandboxStatus(e)
           status == IF e.box = None THEN None ELSE IF implied # None THEN implied ELSE hydrateSandbox(e.box)
       IN  relay' = [relay EXCEPT !.now = [event |-> e, status |-> status]]
    /\ bus' = Tail(bus)
    /\ UNCHANGED <<mix, row, made, pc, todo, rpc, result, reply, cons, held, subs, crashes, log, pages>>
    /\ UNCHANGED ChannelVars

Wanted(s, e) == subs[s].on /\ (mix.subs[s].admin \/ mix.subs[s].team = e.team)

\* SSEBroker.Dispatch: a client whose buffer is full misses the message.
BrokerDispatch ==
    /\ relay.now # None
    /\ subs' = [s \in Subs |->
           IF ~Wanted(s, relay.now.event) THEN subs[s]
           ELSE IF Len(subs[s].buf) < SseBuffer THEN [subs[s] EXCEPT !.buf = Append(@, relay.now)]
           ELSE [subs[s] EXCEPT !.missed = TRUE]]
    /\ relay' = [relay EXCEPT !.now = None]
    /\ UNCHANGED <<mix, row, made, pc, todo, rpc, result, reply, cons, held, bus, crashes, log, pages>>
    /\ UNCHANGED ChannelVars

NoClient == [on |-> FALSE, buf |-> <<>>, missed |-> FALSE, seen |-> [b \in Boxes |-> None]]

\* serveSSE: the client subscribes, is sent its messages in order, leaves.
Connect(s) ==
    /\ s \in mix.watched /\ ~subs[s].on /\ ~subs[s].missed
    /\ subs' = [subs EXCEPT ![s].on = TRUE]
    /\ UNCHANGED <<mix, row, made, pc, todo, rpc, result, reply, cons, held, bus, relay, crashes, log, pages>>
    /\ UNCHANGED ChannelVars
Stream(s) ==
    /\ ~mix.subs[s].admin
    /\ Connect(s)
AdminStream(s) ==
    /\ mix.subs[s].admin
    /\ Connect(s)
SendNext(s) ==
    /\ subs[s].on /\ subs[s].buf # <<>>
    /\ LET m == Head(subs[s].buf)
       IN  subs' = [subs EXCEPT ![s].buf = Tail(@),
                                ![s].seen = [b \in Boxes |-> IF b = m.event.box THEN m ELSE @[b]]]
    /\ UNCHANGED <<mix, row, made, pc, todo, rpc, result, reply, cons, held, bus, relay, crashes, log, pages>>
    /\ UNCHANGED ChannelVars
Disconnect(s) ==
    /\ mix.flaky /\ subs[s].on
    /\ subs' = [subs EXCEPT ![s] = [NoClient EXCEPT !.missed = TRUE]]
    /\ UNCHANGED <<mix, row, made, pc, todo, rpc, result, reply, cons, held, bus, relay, crashes, log, pages>>
    /\ UNCHANGED ChannelVars

----------------------------------------------------------------------------
(* The dispatcher's steps, and the reads of the audit log *)

Outcomes(ch) ==
    CASE mix.endpoint[ch] = "up" -> {"ok"}
      [] mix.endpoint[ch] = "down" -> {"failed"}
      [] mix.endpoint[ch] = "flaky" -> {"ok", "failed"}
      [] mix.endpoint[ch] = "unread" -> {"unread"}

DispatcherStep ==
    /\ \/ \E works \in (IF mix.flaky THEN BOOLEAN ELSE {TRUE}) : StartDispatcher(works)
       \/ ReadGroup
       \/ \E listed \in (IF mix.flaky THEN BOOLEAN ELSE {TRUE}) : HandleMessage(listed)
       \/ \E to \in disp.left : \E res \in Outcomes(to.ch) : Dispatch(to, res)
    /\ UNCHANGED <<mix, log, pages>> /\ UNCHANGED NotifyVars

Retry ==
    /\ \E r \in retries : \E res \in Outcomes(r.to.ch) : RetryDeliver(r, res = "ok")
    /\ UNCHANGED <<mix, log, pages>> /\ UNCHANGED NotifyVars

ReadAudit(c) ==
    /\ c \in AsCalls /\ Q(c).kind = "audit"
    /\ \A d \in Q(c).after : pc[d] = "done"
    /\ List(c, Q(c))
    /\ UNCHANGED <<mix, row, made, pc, todo, rpc, result, reply, cons, held, bus, relay, subs, crashes, log>>
    /\ UNCHANGED ChannelVars

----------------------------------------------------------------------------
\* The control plane dies and starts again.  Redis and the database keep what
\* they have; entries handed to a consumer and not yet handled are not handed
\* out again.
Crash ==
    /\ mix.crash /\ crashes < MaxCrashes
    /\ crashes' = crashes + 1
    /\ todo' = [k \in DOMAIN todo |-> <<>>]
    /\ result' = [c \in Calls |-> IF rpc[c] = "waiting" THEN "lost" ELSE result[c]]
    /\ rpc' = [c \in Calls |-> IF rpc[c] = "waiting" THEN "ended" ELSE rpc[c]]
    /\ pc' = [c \in Calls |-> IF pc[c] = "second" THEN "done" ELSE pc[c]]
    /\ cons' \in cons .. (IF cons + ReadCount < Len(stream) THEN cons + ReadCount ELSE Len(stream))
    /\ bus' = <<>>
    /\ relay' = [relay EXCEPT !.up = mix.watched # {}, !.now = None, !.gap = TRUE]
    /\ subs' = [s \in Subs |-> [NoClient EXCEPT !.missed = TRUE]]
    /\ disp' = mix.disp
    /\ retries' = {}
    /\ UNCHANGED <<mix, row, made, reply, held, log, pages, channel, stream, group, sent>>

----------------------------------------------------------------------------
NotifyInit ==
    /\ row = mix.row
    /\ made = [b \in Boxes \union {None} |-> 0]
    /\ pc = [c \in Calls |-> "new"]
    /\ todo = [k \in Calls \X Threads |-> <<>>]
    /\ rpc = [c \in Calls |-> "none"]
    /\ result = [c \in Calls |-> None]
    /\ reply = [c \in Calls |-> None]
    /\ cons = 0 /\ held = {}
    /\ bus = <<>> /\ relay = [up |-> mix.watched # {}, now |-> None, gap |-> FALSE]
    /\ subs = [s \in Subs |-> NoClient]
    /\ crashes = 0
    /\ log = mix.log /\ pages = [c \in Calls |-> NoPage]
    /\ channel = mix.channel /\ stream = <<>> /\ group = mix.group
    /\ disp = mix.disp /\ retries = {} /\ sent = {}

Works(e) == IF mix.flaky /\ e.do # "log" THEN BOOLEAN ELSE {TRUE}

Next ==
    \/ \E c \in Calls :
          \/ CreateSandbox(c) \/ PauseSandbox(c) \/ ResumeSandbox(c) \/ DestroySandbox(c) \/ RequestSnapshot(c)
          \/ CreateVolume(c) \/ DeleteVolume(c) \/ DeleteSnapshot(c) \/ AddMember(c) \/ HostMarked(c)
          \/ Callback(c) \/ Monitor(c)
          \/ CreateChannel(c) \/ RenameChannel(c) \/ GetChannel(c) \/ \E reached \in BOOLEAN : TestChannel(c, reached)
          \/ RotateLookup(c) \/ RotateConfig(c) \/ DeleteChannel(c) \/ DeleteTeam(c) \/ ReadAudit(c)
          \/ \E ok \in (IF mix.fails THEN BOOLEAN ELSE {TRUE}) : Background(c, ok) \/ BackgroundSnapshot(c, ok)
          \/ LeftToMonitor(c)
          \/ \E t \in Threads : todo[<<c, t>>] # <<>> /\ \E works \in Works(Head(todo[<<c, t>>])) : Effect(c, t, works)
    \/ \E hooked \in (IF mix.hooks THEN BOOLEAN ELSE {TRUE}) : Consume(hooked)
    \/ RelayDrop \/ RelayBack \/ Hydrate \/ BrokerDispatch
    \/ \E s \in Subs : Stream(s) \/ AdminStream(s) \/ SendNext(s) \/ Disconnect(s)
    \/ DispatcherStep \/ Retry \/ Crash

\* The goroutines run, Redis and the receivers answer, and timers fire.
Fairness ==
    /\ WF_vars(\E c \in Calls : RotateConfig(c) \/ ReadAudit(c))
    /\ WF_vars(\E c \in Calls, ok \in BOOLEAN : (mix.fails \/ ok) /\ (Background(c, ok) \/ BackgroundSnapshot(c, ok)))
    /\ WF_vars(\E c \in Calls, t \in Threads : Effect(c, t, TRUE))
    /\ WF_vars(\E hooked \in BOOLEAN : (mix.hooks \/ hooked) /\ Consume(hooked))
    /\ WF_vars(RelayBack \/ Hydrate \/ BrokerDispatch) /\ WF_vars(\E s \in Subs : SendNext(s))
    /\ WF_vars(DispatcherStep) /\ WF_vars(Retry)

Spec == NotifyInit /\ [][Next]_vars /\ Fairness

----------------------------------------------------------------------------
(* Properties *)

Kinds == Subscribable \union {"changed"}
Events == [kind : Kinds, outcome : {"success", "error", None}, actor : {"user", "system"},
           team : mix.teams, box : Boxes \union {None},
           reason : {None, "ttl_expired", "host_state_sync", "transient_timeout", "destroy_retry", "destroy_failed",
                     "transient_timeout_inferred", "host_failure", "pause_failed", "resume_failed", "create_failed", "snapshot_failed"},
           op : Calls, n : Nat]
Statuses == {None, "starting", "running", "pausing", "paused", "resuming", "snapshotting", "stopping",
             "stopped", "error"}

\* What the tables, the stream and the goroutines hold: channel rows a request
\* may create, events of a kind the taxonomy knows, clients within their
\* buffer, statuses of the sandboxes table.
TypeOK ==
    /\ \A b \in Boxes : row[b] \in Statuses
    /\ \A i \in DOMAIN stream : stream[i] \in Events /\ stream[i].kind # "changed"
    /\ \A i \in DOMAIN bus : bus[i] \in Events
    /\ \A c \in Chans : channel[c] # None => validEvents(channel[c].events) /\ channel[c].conf.gen \in Nat
    /\ \A c, d \in Chans : c # d /\ channel[c] # None /\ channel[d] # None =>
           <<channel[c].team, channel[c].name>> # <<channel[d].team, channel[d].name>>
    /\ \A s \in Subs : Len(subs[s].buf) <= SseBuffer
    /\ group \in (0 .. Len(stream)) \union {None} /\ cons \in 0 .. Len(stream) /\ held \subseteq 1 .. cons
    /\ disp.life \in {"off", "on", "dead"} /\ (disp.event = None <=> disp.left = {})

\* A user's request that succeeds is notified once: the channel receives the
\* handler's event, never the background goroutine's or the host's repetition
\* of it (isRedundantSystemFollowup).
OneNotice ==
    \A ch \in Chans, c \in AsCalls :
        result[c] \in {"good", None} =>
            Cardinality({a.event : a \in {b \in sent : b.ch = ch /\ b.event.op = c}}) <= 1

\* A delivery is attempted at most three times, and never again once the
\* receiver has accepted it (dispatch, retryDeliver).
NoneAfterSuccess ==
    \A a, b \in sent :
        a.ch = b.ch /\ a.event = b.event =>
            a.try <= 1 + Len(retryDelays) /\ (a.ok => b.try <= a.try)

\* However many receivers are down, no more than maxConcurrentRetries
\* deliveries are held for another attempt (retrySem).
RetriesBounded == Cardinality(retries) <= MaxRetrying

\* The rows attributed to the system.
SystemRows(P(_)) == {i \in DOMAIN log : log[i].row.actor = "system" /\ P(log[i].row)}

\* One occurrence, one row: a capsule's automatic pause and the failure of an
\* operation are each recorded by the consumer or by the host monitor, not by
\* both (handleAutoPaused, handleFailed).
AuditOnce ==
    /\ \A c \in AsCalls : Cardinality(SystemRows(LAMBDA r : r.op = c)) <= 1
    /\ \A b \in Boxes :
           Cardinality(SystemRows(LAMBDA r : r.on = b /\ r.action = "pause"))
               <= 1 + Cardinality({c \in AsCalls : Q(c).kind = "resume" /\ Q(c).box = b /\ pc[c] = "done"})

\* A pause the log attributes to the system is one no user asked for
\* (handleAutoPaused).
AutonomousOnly ==
    \A i \in SystemRows(LAMBDA r : r.action = "pause") : Q(log[i].row.op).kind # "pause"

\* Nothing is left to be told.
Quiet ==
    /\ \A k \in DOMAIN todo : todo[k] = <<>>
    /\ \A c \in Calls : rpc[c] # "waiting"
    /\ cons = Len(stream) /\ bus = <<>> /\ relay.now = None

\* A destroyed capsule leaves the list, whatever status came along.
Agrees(m, status) == (m.event.kind = "destroy" /\ m.event.outcome = "success") \/ m.status = status

\* Once everything has been told, a dashboard that missed nothing and has been
\* sent a capsule's newest event shows the status the capsule has, although
\* the row was read while the consumer was still to write it
\* (impliedSandboxStatus).
ViewSettles ==
    Quiet /\ ~relay.gap => \A s \in Subs, b \in Boxes :
        LET m == subs[s].seen[b]
        IN  subs[s].on /\ ~subs[s].missed /\ m # None /\ subs[s].buf = <<>> /\ m.event.n = made[b]
                => Agrees(m, row[b])

\* A client that pages through the audit log is shown each row once, newest
\* first (the cursor before, before_id of ListAuditLogs).
PagesOrdered ==
    \A c \in Calls : \A i, j \in DOMAIN pages[c].shown :
        i < j => Later(pages[c].shown[i], pages[c].shown[j])

\* A row such a client is never shown lies within the second in which one of
\* its pages ended (writeAuditResponse).
MissedSameSecond ==
    \A c \in AsCalls : Q(c).kind = "audit" /\ pages[c].over =>
        \A i \in 1 .. pages[c].asked :
            Visible(Q(c), log[i]) /\ log[i] \notin ToSet(pages[c].shown) =>
                \E at \in pages[c].ends : at \div Second = log[i].at \div Second

\* A client that has paged to the end has been shown every row that was there
\* when it began.
PagesComplete == \A c \in AsCalls : Q(c).kind = "audit" /\ Q(c).limit > 0 /\ pages[c].over => AllShown(c, Q(c))

KindOf(q) == IF q.kind = "snapshot" THEN "snapcreate" ELSE q.kind
Undisturbed == mix.disp.life = "off" /\ ~mix.flaky /\ ~mix.crash
\* The channel was there when the run began and nobody changes it.
Standing(ch) == mix.channel[ch] # None /\ \A d \in AsCalls : Q(d).kind \notin {"chupdate", "chrotate", "chdelete", "teamdelete"}

\* An operation that failed after its request was accepted is notified to every
\* channel subscribed to it; the handler has told of a success before
\* (serviceEventToCanonical: failures carry a reason).
FailureHeard ==
    []<>(\A c \in AsCalls, ch \in Chans :
            Undisturbed /\ result[c] = "bad" /\ Standing(ch) /\ mix.channel[ch].team = Q(c).team
            /\ mix.endpoint[ch] # "unread" /\ KindOf(Q(c)) \in mix.channel[ch].events
                => \E a \in sent : a.ch = ch /\ a.event.op = c /\ a.event.outcome = "error")

\* Deliveries come to an end: as long as the dispatcher runs, whatever the
\* receivers do, it is again and again through with the stream and with every retry.
DeliveryEnds == []<>(disp.life = "dead" \/ (Idle /\ group = Len(stream) /\ retries = {}))

\* An entry whose hook failed is handled again.
HookRedelivered == \A n \in 1 .. 3 : (n \in held) ~> (n \notin held)

\* A channel is told of a success once, and of nothing more often than the retry
\* budget allows (dispatch, retryDeliver, isRedundantSystemFollowup).
NoticesExact == OneNotice /\ NoneAfterSuccess /\ RetriesBounded

\* The audit log tells each occurrence once, to those who page through it too,
\* over well-typed state (pkg/audit, handlers_audit.go).
AuditExact == TypeOK /\ AuditOnce /\ PagesOrdered /\ MissedSameSecond

\* The channels hear of every failure, and the dispatcher gets through with what
\* it has to deliver.
Delivered == FailureHeard /\ DeliveryEnds
=============================================================================
