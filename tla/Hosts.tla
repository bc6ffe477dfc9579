------------------------------- MODULE Hosts -------------------------------
(***************************************************************************)
(* The life of one host: HostService creates its row, hands out one-time   *)
(* registration tokens (tickets), registers the machine that presents one, *)
(* rotates its refresh token, takes its heartbeats and finally deletes it; *)
(* the agent on a machine registers, beats, sends callbacks and refreshes  *)
(* its credentials file from both loops; the monitor marks a silent host   *)
(* unreachable and reconciles it when it is back.  A step is one SQL or    *)
(* Redis statement of the control plane, or one local step of the agent.   *)
(***************************************************************************)
EXTENDS Naturals

CONSTANTS
    Machines,     \* machines on which an agent may be started
    Tickets,      \* registration tokens
    Tokens,       \* refresh tokens
    Boxes,        \* capsules that may be placed on the host
    Mixes,        \* the scenarios: one of them is chosen initially
    MaxEpoch,     \* bound: how often host JWTs expire
    FailureLimit, \* consecutive failed heartbeats before PauseAll
    None          \* no machine, no token

Clients == {"heartbeat", "callback"}

(***************************************************************************)
(* A scenario is the set of things that may happen in it.  "fresh" starts  *)
(* before the host row exists; otherwise the first machine is registered.  *)
(***************************************************************************)
Features == {"fresh", "expire", "callback", "fail", "drop", "crash", "delete",
             "force", "place", "monitor"}
First == CHOOSE m \in Machines : TRUE
FirstToken == CHOOSE t \in Tokens : TRUE

ASSUME HostsAssumption ==
    /\ Mixes \subseteq SUBSET Features
    /\ MaxEpoch \in Nat /\ FailureLimit \in Nat \ {0}
    /\ Machines # {} /\ Tokens # {}
    /\ None \notin Machines \cup Tokens \cup Boxes

VARIABLES
    mix,      \* the scenario
    host,     \* the hosts row: status (or "absent") and address
    tickets,  \* host:reg:<token> keys in Redis
    tokens,   \* host_refresh_tokens rows
    epoch,    \* generation of host JWTs: older ones have expired
    row,      \* sandboxes.status of the capsules placed on the host
    vol,      \* the capsule the one volume is attached to; pinned to the host
    agent,    \* the agent process and the credentials file of every machine
    live,     \* the capsules the host's agent runs
    reg,      \* the registration call of every machine
    ref,      \* the credential refresh of every client of every machine
    del,      \* the DELETE /hosts request
    silent,   \* last_heartbeat_at lies further back than the threshold
    lost,     \* history: new credentials were lost on their way to the file
    budget    \* network failures, lost replies and crashes still to come

vars == <<mix, host, tickets, tokens, epoch, row, vol, agent, live, reg, ref,
          del, silent, lost, budget>>

NoCreds == [refresh |-> None, jwt |-> 0]
Off == [up |-> FALSE, loop |-> "off", beatJWT |-> 0, sendJWT |-> 0, cert |-> 0, fails |-> 0,
        paused |-> FALSE, file |-> NoCreds]
IdleReg == [at |-> "idle", token |-> None]
IdleRef == [at |-> "idle", old |-> None, new |-> None, jwt |-> 0]
IdleDel == [at |-> "idle", listed |-> {}, kill |-> {}]

Has(f) == f \in mix
RowStates == {"none", "selected", "starting", "running", "paused", "missing", "stopped", "error"}

AgentState == [up : BOOLEAN, loop : {"off", "on", "stopped"}, beatJWT : Nat, sendJWT : Nat, cert : Nat,
               fails : 0..FailureLimit, paused : BOOLEAN, file : [refresh : Tokens \cup {None}, jwt : Nat]]
RegState == [at : {"idle", "consumed", "claimed", "reply", "done", "failed"}, token : Tokens \cup {None}]
RefState == [at : {"idle", "load", "sent", "looked", "issued", "reply", "failed"},
             old : Tokens \cup {None}, new : Tokens \cup {None}, jwt : Nat]
DelState == [at : {"idle", "count", "agent", "rows", "revoke", "volumes", "host", "refused", "done"},
             listed : SUBSET Boxes, kill : SUBSET Boxes]

TypeOK ==
    /\ mix \in Mixes
    /\ host \in [status : {"absent", "pending", "online", "unreachable"},
                 address : Machines \cup {None}]
    /\ tickets \in [Tickets -> {"unissued", "live", "gone"}]
    /\ tokens \in [Tokens -> {"unissued", "valid", "revoked"}]
    /\ epoch \in 1..(MaxEpoch + 1)
    /\ row \in [Boxes -> RowStates]
    /\ vol \in [pin : BOOLEAN, owner : Boxes \cup {None}]
    /\ agent \in [Machines -> AgentState]
    /\ live \in [Boxes -> {"absent", "running", "paused"}]
    /\ reg \in [Machines -> RegState]
    /\ ref \in [Machines -> [Clients -> RefState]]
    /\ del \in DelState
    /\ silent \in BOOLEAN /\ lost \in BOOLEAN /\ budget \in Nat

\* main: both loops and the TLS listener start from the saved credentials; the
\* JWT and the certificate have been issued together and live equally long.
Boot(file) ==
    [Off EXCEPT !.file = file, !.up = file # NoCreds,
                !.loop = IF file # NoCreds THEN "on" ELSE "off",
                !.beatJWT = file.jwt, !.sendJWT = file.jwt, !.cert = file.jwt]

Init ==
    /\ mix \in Mixes
    /\ LET fresh == "fresh" \in mix IN
       /\ host = IF fresh THEN [status |-> "absent", address |-> None]
                          ELSE [status |-> "online", address |-> First]
       /\ tokens = [t \in Tokens |-> IF ~fresh /\ t = FirstToken THEN "valid" ELSE "unissued"]
       /\ agent = [m \in Machines |-> IF ~fresh /\ m = First THEN Boot([refresh |-> FirstToken, jwt |-> 1]) ELSE Off]
       /\ reg = [m \in Machines |-> IF ~fresh /\ m = First THEN [IdleReg EXCEPT !.at = "done"] ELSE IdleReg]
    /\ tickets = [k \in Tickets |-> "unissued"]
    /\ epoch = 1
    /\ row = [b \in Boxes |-> "none"]
    /\ vol = [pin |-> FALSE, owner |-> None]
    /\ live = [b \in Boxes |-> "absent"]
    /\ ref = [m \in Machines |-> [c \in Clients |-> IdleRef]]
    /\ del = IdleDel
    /\ silent = FALSE /\ lost = FALSE
    /\ budget = IF "fail" \in mix THEN FailureLimit + 1 ELSE 1

db == <<host, tokens, row, vol>>

-----------------------------------------------------------------------------
(* SQL and Redis statements: what each makes of the table it writes *)

GetHost == host.status # "absent"

InsertHost == [status |-> "pending", address |-> None]

\* UPDATE hosts SET status = 'online', address ... WHERE status = 'pending'
RegisterHost(m) ==
    IF host.status = "pending" THEN [status |-> "online", address |-> m] ELSE host

UpdateHostHeartbeat == host
UpdateHostHeartbeatAndStatus ==
    [host EXCEPT !.status = IF @ = "unreachable" THEN "online" ELSE @]

MarkHostUnreachable == [host EXCEPT !.status = "unreachable"]

DeleteHostOnly == host' = [status |-> "absent", address |-> None] /\ UNCHANGED tokens

\* The refresh tokens and the ticket records go with the row (ON DELETE
\* CASCADE); a volume that still names the host blocks the delete.
DeleteHost ==
    /\ host' = [status |-> "absent", address |-> None]
    /\ tokens' = [t \in Tokens |-> IF tokens[t] = "valid" THEN "revoked" ELSE tokens[t]]

GetHostRefreshTokenByHash(t) == t # None /\ tokens[t] = "valid"
InsertHostRefreshToken(t) == [tokens EXCEPT ![t] = "valid"]
RevokeEvery(t) == [u \in Tokens |-> IF tokens[u] = "valid" THEN "revoked" ELSE tokens[u]]
RevokeHostRefreshToken(t) == [tokens EXCEPT ![t] = "revoked"]
RevokeHostRefreshTokensByHost ==
    [t \in Tokens |-> IF tokens[t] = "valid" THEN "revoked" ELSE tokens[t]]

Unissued(f) == {x \in DOMAIN f : f[x] = "unissued"}
Next1(S) == CHOOSE x \in S : TRUE   \* fresh random tokens are interchangeable

ListSandboxesByHostAndStatus == {b \in Boxes : row[b] \in {"starting", "running", "missing"}}
BulkUpdateStatusByIDs(S, status) == [b \in Boxes |-> IF b \in S THEN status ELSE row[b]]
CountVolumesByHost == IF vol.pin THEN 1 ELSE 0
DetachVolumesByHost == [pin |-> FALSE, owner |-> None]

-----------------------------------------------------------------------------
(* HostService: Create, RegenerateToken *)

\* SET host:reg:<token> with a TTL; the host_tokens record is an audit trail.
issueRegistrationToken ==
    /\ Unissued(tickets) # {}
    /\ tickets' = [tickets EXCEPT ![Next1(Unissued(tickets))] = "live"]

\* The Redis write may fail after the row was inserted.
Create ==
    /\ Has("fresh") /\ host.status = "absent" /\ del.at = "idle"
    /\ Unissued(tickets) = Tickets
    /\ host' = InsertHost
    /\ \/ issueRegistrationToken /\ UNCHANGED budget
       \/ budget > 0 /\ budget' = budget - 1 /\ UNCHANGED tickets
    /\ UNCHANGED <<mix, tokens, epoch, row, vol, agent, live, reg, ref, del, silent, lost>>

\* Only for a host that is still pending; it does not withdraw older tickets.
RegenerateToken ==
    /\ host.status = "pending"
    /\ issueRegistrationToken
    /\ UNCHANGED <<mix, host, tokens, epoch, row, vol, agent, live, reg, ref, del, silent, lost, budget>>

TicketExpires(k) ==
    /\ tickets[k] = "live"
    /\ tickets' = [tickets EXCEPT ![k] = "gone"]
    /\ UNCHANGED <<mix, host, tokens, epoch, row, vol, agent, live, reg, ref, del, silent, lost, budget>>

-----------------------------------------------------------------------------
(* Registration: an agent is started with --register and a ticket *)

RegStep(m, at) == reg' = [reg EXCEPT ![m].at = at]

\* GETDEL of the ticket, then GetHost.
RegisterConsume(m, k) ==
    /\ reg[m].at \in {"idle", "failed"} /\ ~agent[m].up
    /\ tickets[k] = "live"
    /\ tickets' = [tickets EXCEPT ![k] = "gone"]
    /\ RegStep(m, IF GetHost THEN "consumed" ELSE "failed")
    /\ UNCHANGED <<mix, host, tokens, epoch, row, vol, agent, live, ref, del, silent, lost, budget>>

\* UPDATE ... WHERE status = 'pending'; no row updated is an error.
RegisterClaim(m) ==
    /\ reg[m].at = "consumed"
    /\ host' = RegisterHost(m)
    /\ RegStep(m, IF host' # host THEN "claimed" ELSE "failed")
    /\ silent' = FALSE
    /\ UNCHANGED <<mix, tickets, tokens, epoch, row, vol, agent, live, ref, del, lost, budget>>

\* issueRefreshToken and the re-read of the row; the insert fails if the host
\* has been deleted meanwhile.
RegisterIssue(m) ==
    /\ reg[m].at = "claimed"
    /\ Unissued(tokens) # {}
    /\ LET t == Next1(Unissued(tokens)) IN
       IF GetHost THEN /\ tokens' = InsertHostRefreshToken(t)
                       /\ reg' = [reg EXCEPT ![m] = [at |-> "reply", token |-> t]]
                  ELSE RegStep(m, "failed") /\ UNCHANGED tokens
    /\ UNCHANGED <<mix, host, tickets, epoch, row, vol, agent, live, ref, del, silent, lost, budget>>

\* The agent saves the credentials file and starts its loops.
RegisterSave(m) ==
    /\ reg[m].at = "reply"
    /\ agent' = [agent EXCEPT ![m] = Boot([refresh |-> reg[m].token, jwt |-> epoch])]
    /\ RegStep(m, "done")
    /\ UNCHANGED <<mix, host, tickets, tokens, epoch, row, vol, live, ref, del, silent, lost, budget>>

\* The reply is lost, or the file cannot be written: the agent exits.
RegisterLost(m) ==
    /\ Has("drop") /\ budget > 0
    /\ reg[m].at = "reply"
    /\ RegStep(m, "failed")
    /\ budget' = budget - 1
    /\ UNCHANGED <<mix, host, tickets, tokens, epoch, row, vol, agent, live, ref, del, silent, lost>>

-----------------------------------------------------------------------------
(* The agent: heartbeat loop and callbacks *)

\* Host JWTs are valid for seven days; the epoch advances when one runs out.
JWTsExpire ==
    /\ Has("expire") /\ epoch <= MaxEpoch
    /\ epoch' = epoch + 1
    /\ UNCHANGED <<mix, host, tickets, tokens, row, vol, agent, live, reg, ref, del, silent, lost, budget>>

Valid(jwt) == jwt = epoch

\* requireHostToken looks at the JWT only; an error without a code of its own
\* is written as 500 by apperr, "host not found" included.
HeartbeatStatus(m) ==
    IF ~Valid(agent[m].beatJWT) THEN 401
    ELSE IF GetHost THEN 204 ELSE 500

\* What PauseAll does to the capsules the agent runs.
Paused == [b \in Boxes |-> IF live[b] = "running" THEN "paused" ELSE live[b]]

PauseAll(m, changed) ==
    /\ agent' = [agent EXCEPT ![m] = changed]
    /\ live' = IF changed.paused /\ ~agent[m].paused THEN Paused ELSE live

\* beat: the outcome of one heartbeat request that got an answer.
AfterBeat(m, status) ==
    CASE status = 204 -> [agent[m] EXCEPT !.fails = 0, !.paused = FALSE]
      [] status = 404 -> [agent[m] EXCEPT !.file = NoCreds, !.up = FALSE, !.loop = "off"]
      [] OTHER -> agent[m]

Beating(m) == agent[m].up /\ agent[m].loop = "on" /\ ref[m]["heartbeat"].at = "idle"

Beat(m) ==
    /\ Beating(m)
    /\ LET status == HeartbeatStatus(m) IN
       /\ agent' = [agent EXCEPT ![m] = AfterBeat(m, status)]
       /\ host' = IF status = 204 THEN UpdateHostHeartbeatAndStatus ELSE host
       /\ silent' = (silent /\ status # 204)
       /\ ref' = IF status = 401 THEN [ref EXCEPT ![m]["heartbeat"].at = "load"] ELSE ref
    /\ UNCHANGED <<mix, tickets, tokens, epoch, row, vol, live, reg, del, lost, budget>>

\* A heartbeat that never reaches the control plane.
BeatFails(m) ==
    /\ Has("fail") /\ budget > 0
    /\ Beating(m)
    /\ LET n == IF agent[m].fails < FailureLimit THEN agent[m].fails + 1 ELSE FailureLimit IN
       PauseAll(m, [agent[m] EXCEPT !.fails = n, !.paused = @ \/ n >= FailureLimit])
    /\ budget' = budget - 1
    /\ UNCHANGED <<mix, host, tickets, tokens, epoch, row, vol, reg, ref, del, silent, lost>>

\* CallbackSender.Send is answered 401 or 403.
CallbackRejected(m) ==
    /\ Has("callback") /\ agent[m].up
    /\ ~Valid(agent[m].sendJWT)
    /\ ref[m]["callback"].at = "idle"
    /\ ref' = [ref EXCEPT ![m]["callback"].at = "load"]
    /\ UNCHANGED <<mix, host, tickets, tokens, epoch, row, vol, agent, live, reg, del, silent, lost, budget>>

-----------------------------------------------------------------------------
(* RefreshCredentials, run by either client, and HostService.Refresh *)

RefStep(m, c, at) == ref' = [ref EXCEPT ![m][c].at = at]

\* LoadTokenFile; no refresh token is an error.
RefreshLoad(m, c) ==
    /\ ref[m][c].at = "load"
    /\ ref' = [ref EXCEPT ![m][c] = [IdleRef EXCEPT
                  !.at = IF agent[m].file.refresh = None THEN "failed" ELSE "sent",
                  !.old = agent[m].file.refresh]]
    /\ UNCHANGED <<mix, host, tickets, tokens, epoch, row, vol, agent, live, reg, del, silent, lost, budget>>

\* The token must be on record, unrevoked and unexpired, and its host exist.
RefreshLookup(m, c) ==
    /\ ref[m][c].at = "sent"
    /\ RefStep(m, c, IF GetHostRefreshTokenByHash(ref[m][c].old) /\ GetHost THEN "looked" ELSE "failed")
    /\ UNCHANGED <<mix, host, tickets, tokens, epoch, row, vol, agent, live, reg, del, silent, lost, budget>>

\* The JWT is signed, the certificate renewed, the new token inserted.
RefreshIssue(m, c) ==
    /\ ref[m][c].at = "looked"
    /\ Unissued(tokens) # {}
    /\ LET t == Next1(Unissued(tokens)) IN
       IF GetHost THEN /\ tokens' = InsertHostRefreshToken(t)
                       /\ ref' = [ref EXCEPT ![m][c] =
                                    [@ EXCEPT !.at = "issued", !.new = t, !.jwt = epoch]]
                  ELSE RefStep(m, c, "failed") /\ UNCHANGED tokens
    /\ UNCHANGED <<mix, host, tickets, epoch, row, vol, agent, live, reg, del, silent, lost, budget>>

RefreshRevoke(m, c) ==
    /\ ref[m][c].at = "issued"
    /\ tokens' = RevokeHostRefreshToken(ref[m][c].old)
    /\ RefStep(m, c, "reply")
    /\ UNCHANGED <<mix, host, tickets, epoch, row, vol, agent, live, reg, del, silent, lost, budget>>

\* The heartbeat loop adopts the JWT, hands it to the callback sender and swaps
\* the TLS certificate (onCredsRefreshed); the sender adopts the JWT for itself.
Adopted(m, c, file) ==
    IF c = "heartbeat"
    THEN [agent[m] EXCEPT !.file = file, !.beatJWT = file.jwt, !.sendJWT = file.jwt, !.cert = file.jwt]
    ELSE [agent[m] EXCEPT !.file = file, !.sendJWT = file.jwt]

RefreshSave(m, c) ==
    /\ ref[m][c].at = "reply"
    /\ agent' = [agent EXCEPT ![m] =
                   Adopted(m, c, [refresh |-> ref[m][c].new, jwt |-> ref[m][c].jwt])]
    /\ ref' = [ref EXCEPT ![m][c] = IdleRef]
    /\ UNCHANGED <<mix, host, tickets, tokens, epoch, row, vol, live, reg, del, silent, lost, budget>>

\* The answer is lost on its way back.
RefreshLost(m, c) ==
    /\ Has("drop") /\ budget > 0
    /\ ref[m][c].at = "reply"
    /\ RefStep(m, c, "failed")
    /\ budget' = budget - 1 /\ lost' = TRUE
    /\ UNCHANGED <<mix, host, tickets, tokens, epoch, row, vol, agent, live, reg, del, silent>>

\* The heartbeat loop pauses everything and stops; a callback tries again.
RefreshFailed(m, c) ==
    /\ ref[m][c].at = "failed"
    /\ ref' = [ref EXCEPT ![m][c] = IdleRef]
    /\ IF c = "heartbeat"
       THEN PauseAll(m, [agent[m] EXCEPT !.paused = TRUE, !.loop = "stopped"])
       ELSE UNCHANGED <<agent, live>>
    /\ UNCHANGED <<mix, host, tickets, tokens, epoch, row, vol, reg, del, silent, lost, budget>>

\* The agent process dies and is started again without --register: it loads the
\* file, and Setup kills the VMs.  A file that was just being written is left
\* truncated; a refresh the control plane is still serving is cancelled with it.
Crash(m) ==
    /\ Has("crash") /\ budget > 0 /\ agent[m].up
    /\ \E torn \in BOOLEAN :
         /\ torn => \E c \in Clients : ref[m][c].at = "reply"
         /\ agent' = [agent EXCEPT ![m] = Boot(IF torn THEN NoCreds ELSE @.file)]
    /\ ref' = [ref EXCEPT ![m] = [c \in Clients |-> IdleRef]]
    /\ live' = [b \in Boxes |-> IF live[b] = "running" THEN "absent" ELSE live[b]]
    /\ budget' = budget - 1
    /\ lost' = (lost \/ \E c \in Clients : ref[m][c].at = "reply")
    /\ UNCHANGED <<mix, host, tickets, tokens, epoch, row, vol, reg, del, silent>>

-----------------------------------------------------------------------------
(* Capsules on the host: placement and the host monitor *)

\* The machine the row's address names serves RPCs, over mutual TLS.
Serves == host.address # None /\ agent[host.address].up /\ Valid(agent[host.address].cert)

\* SelectHost considers online hosts only; the row is inserted later.
PlaceSelect(b) ==
    /\ Has("place") /\ row[b] = "none"
    /\ host.status = "online"
    /\ row' = [row EXCEPT ![b] = "selected"]
    /\ UNCHANGED <<mix, host, tickets, tokens, epoch, vol, agent, live, reg, ref, del, silent, lost, budget>>

\* InsertSandbox (sandboxes.host_id references nothing) and the link of the
\* volume, which must reference a host that exists.
PlaceInsert(b) ==
    /\ row[b] = "selected"
    /\ row' = [row EXCEPT ![b] = IF GetHost THEN "starting" ELSE "error"]
    /\ vol' = IF GetHost /\ vol.owner = None THEN [pin |-> TRUE, owner |-> b] ELSE vol
    /\ UNCHANGED <<mix, host, tickets, tokens, epoch, agent, live, reg, ref, del, silent, lost, budget>>

\* The CreateSandbox RPC and what its background goroutine writes.
PlaceBoot(b) ==
    /\ row[b] = "starting"
    /\ LET ok == Serves IN
       /\ row' = [row EXCEPT ![b] = IF ok THEN "running" ELSE "error"]
       /\ live' = IF ok THEN [live EXCEPT ![b] = "running"] ELSE live
       /\ vol' = IF ~ok /\ vol.owner = b THEN [vol EXCEPT !.owner = None] ELSE vol
    /\ UNCHANGED <<mix, host, tickets, tokens, epoch, agent, reg, ref, del, silent, lost, budget>>

\* Three heartbeats are missed: 90 seconds without one.
Missed(m) == ~agent[m].up \/ agent[m].loop # "on" \/ agent[m].fails >= FailureLimit
FallSilent ==
    /\ Has("monitor") /\ ~silent /\ GetHost
    /\ host.address # None /\ Missed(host.address)
    /\ silent' = TRUE
    /\ UNCHANGED <<mix, host, tickets, tokens, epoch, row, vol, agent, live, reg, ref, del, lost, budget>>

MonitorUnreachable ==
    /\ Has("monitor") /\ silent /\ host.status = "online"
    /\ host' = MarkHostUnreachable
    /\ row' = [b \in Boxes |-> IF row[b] = "running" THEN "missing" ELSE row[b]]
    /\ UNCHANGED <<mix, tickets, tokens, epoch, vol, agent, live, reg, ref, del, silent, lost, budget>>

\* What the agent reports decides: gone means stopped, and frees the volume.
Reported(b) ==
    CASE row[b] = "missing" /\ live[b] # "absent" -> live[b]
      [] row[b] = "running" /\ live[b] = "paused" -> "paused"
      [] row[b] \in {"missing", "running"} /\ live[b] = "absent" -> "stopped"
      [] OTHER -> row[b]

MonitorReconcile ==
    /\ Has("monitor") /\ host.status = "online" /\ Serves
    /\ \E b \in Boxes : Reported(b) # row[b]
    /\ row' = [b \in Boxes |-> Reported(b)]
    /\ vol' = IF vol.owner # None /\ row'[vol.owner] = "stopped" THEN [vol EXCEPT !.owner = None] ELSE vol
    /\ UNCHANGED <<mix, host, tickets, tokens, epoch, agent, live, reg, ref, del, silent, lost, budget>>

-----------------------------------------------------------------------------
(* HostService.Delete *)

DelStep(at) == del' = [del EXCEPT !.at = at]

\* checkDeletePermission, then the list of active capsules.
DeleteList ==
    /\ Has("delete") /\ del.at = "idle" /\ GetHost
    /\ LET S == ListSandboxesByHostAndStatus IN
       del' = [at |-> IF Has("force") THEN "agent" ELSE IF S # {} THEN "refused" ELSE "count",
               listed |-> S, kill |-> {b \in S : row[b] # "missing"}]
    /\ UNCHANGED <<mix, host, tickets, tokens, epoch, row, vol, agent, live, reg, ref, silent, lost, budget>>

DeleteCount ==
    /\ del.at = "count"
    /\ DelStep(IF CountVolumesByHost > 0 THEN "refused" ELSE "agent")
    /\ UNCHANGED <<mix, host, tickets, tokens, epoch, row, vol, agent, live, reg, ref, silent, lost, budget>>

\* DestroySandbox for those that were running or starting, then Terminate: the
\* agent pauses what is left and exits; its credentials file stays.
DeleteTerminate ==
    /\ del.at = "agent"
    /\ IF Serves
       THEN /\ live' = [b \in Boxes |-> IF b \in del.kill THEN "absent" ELSE Paused[b]]
            /\ agent' = [agent EXCEPT ![host.address] = [Off EXCEPT !.file = agent[host.address].file]]
            /\ ref' = [ref EXCEPT ![host.address] = [c \in Clients |-> IdleRef]]
       ELSE UNCHANGED <<live, agent, ref>>
    /\ DelStep("rows")
    /\ UNCHANGED <<mix, host, tickets, tokens, epoch, row, vol, reg, silent, lost, budget>>

DeleteUnheard ==
    /\ del.at = "agent" /\ Has("drop") /\ budget > 0
    /\ DelStep("rows")
    /\ budget' = budget - 1
    /\ UNCHANGED <<mix, host, tickets, tokens, epoch, row, vol, agent, live, reg, ref, silent, lost>>

DeleteRows ==
    /\ del.at = "rows"
    /\ row' = BulkUpdateStatusByIDs(del.listed, "stopped")
    /\ DelStep("revoke")
    /\ UNCHANGED <<mix, host, tickets, tokens, epoch, vol, agent, live, reg, ref, silent, lost, budget>>

DeleteRevoke ==
    /\ del.at = "revoke"
    /\ tokens' = RevokeHostRefreshTokensByHost
    /\ DelStep("volumes")
    /\ UNCHANGED <<mix, host, tickets, epoch, row, vol, agent, live, reg, ref, silent, lost, budget>>

DeleteVolumes ==
    /\ del.at = "volumes"
    /\ vol' = DetachVolumesByHost
    /\ DelStep("host")
    /\ UNCHANGED <<mix, host, tickets, tokens, epoch, row, agent, live, reg, ref, silent, lost, budget>>

DeleteRow ==
    /\ del.at = "host"
    /\ IF vol.pin THEN DelStep("refused") /\ UNCHANGED <<host, tokens>>
                  ELSE DelStep("done") /\ DeleteHost
    /\ UNCHANGED <<mix, tickets, epoch, row, vol, agent, live, reg, ref, silent, lost, budget>>

-----------------------------------------------------------------------------
Registration(m) ==
    \/ \E k \in Tickets : RegisterConsume(m, k)
    \/ RegisterClaim(m) \/ RegisterIssue(m) \/ RegisterSave(m) \/ RegisterLost(m)
Refreshing(m, c) ==
    \/ RefreshLoad(m, c) \/ RefreshLookup(m, c) \/ RefreshIssue(m, c)
    \/ RefreshRevoke(m, c) \/ RefreshSave(m, c) \/ RefreshFailed(m, c)
Deletion ==
    \/ DeleteCount \/ DeleteTerminate \/ DeleteRows \/ DeleteRevoke \/ DeleteVolumes \/ DeleteRow
Monitor == FallSilent \/ MonitorUnreachable \/ MonitorReconcile

Next ==
    \/ Create \/ RegenerateToken \/ JWTsExpire
    \/ \E k \in Tickets : TicketExpires(k)
    \/ \E m \in Machines :
         \/ Registration(m) \/ Beat(m) \/ BeatFails(m) \/ CallbackRejected(m) \/ Crash(m)
         \/ \E c \in Clients : Refreshing(m, c) \/ RefreshLost(m, c)
    \/ \E b \in Boxes : PlaceSelect(b) \/ PlaceInsert(b) \/ PlaceBoot(b)
    \/ Monitor
    \/ DeleteList \/ Deletion \/ DeleteUnheard

\* The tickers of the heartbeat loop and of the monitor keep running, and a
\* request in flight is carried on.
Fairness ==
    /\ \A m \in Machines :
         /\ WF_vars(Beat(m))
         /\ \A c \in Clients : WF_vars(Refreshing(m, c))
    /\ WF_vars(Monitor) /\ WF_vars(Deletion)
    /\ \A b \in Boxes : WF_vars(PlaceInsert(b) \/ PlaceBoot(b))

Spec == Init /\ [][Next]_vars /\ Fairness

-----------------------------------------------------------------------------
(* Properties *)

\* The machine has claimed the host row, or holds credentials for it.
Holds(m) == reg[m].at \in {"claimed", "reply", "done"} \/ agent[m].file # NoCreds

\* One machine per host: of all agents started with tickets of this host, at
\* most one ever holds credentials or is about to get them, however many tickets
\* RegenerateToken issued.  RegisterHost updates pending rows only.
OneMachine == \A m, n \in Machines : Holds(m) /\ Holds(n) => m = n

\* Refreshing never burns the credentials: as long as no new credentials are
\* lost before they are saved and the host is not being deleted, the refresh token in the credentials file is one
\* the control plane accepts, unless a refresh has already replaced it and is on
\* its way to the file, even while the heartbeat and the callback sender refresh
\* at the same time.  Refresh issues first and revokes the old token only.
CredentialsUsable ==
    (~lost /\ del.at = "idle") =>
        \A m \in Machines :
            agent[m].file.refresh # None =>
               \/ GetHostRefreshTokenByHash(agent[m].file.refresh)
               \/ \E c \in Clients : /\ ref[m][c].at = "reply"
                                     /\ ref[m][c].old = agent[m].file.refresh

\* A deleted host leaves nothing behind it would have to answer for: once Delete
\* has run, the capsules it listed are stopped for good, no refresh token is
\* accepted and no volume names the host, whatever was placed on the host meanwhile.
DeleteSettles ==
    del.at = "done" => /\ \A b \in del.listed : row[b] = "stopped"
                       /\ \A t \in Tokens : tokens[t] # "valid"
                       /\ ~vol.pin

\* The heartbeat loop stops for good only when the refresh token in the
\* credentials file is no longer accepted (StartHeartbeat's 401 branch).
GivesUpForCause ==
    \A m \in Machines :
        agent[m].loop = "stopped" => ~GetHostRefreshTokenByHash(agent[m].file.refresh)

\* A host that was unreachable while its agent runs is online again once its
\* heartbeats get through, unless it is deleted or its credentials ran out: the
\* failures of a heartbeat end neither the loop nor the host.
ComesBack ==
    (host.status = "unreachable") ~>
        \/ host.status # "unreachable"
        \/ ~agent[host.address].up \/ agent[host.address].loop = "stopped"

\* What an outage leaves behind is resolved: a capsule marked missing is running,
\* paused or stopped again once the host is back.
MissingResolved ==
    \A b \in Boxes : (row[b] = "missing") ~>
        \/ row[b] # "missing"
        \/ host.status # "online" \/ ~Serves

\* A certificate that ran out is replaced while the agent runs, also when the
\* callback sender, which does not swap it, was first to refresh the file: the
\* heartbeat's own JWT runs out as well and it refreshes again.
CertRenewed ==
    \A m \in Machines :
        (agent[m].up /\ ~Valid(agent[m].cert)) ~>
            \/ Valid(agent[m].cert)
            \/ ~agent[m].up \/ agent[m].loop = "stopped" \/ ~GetHost

\* An agent whose host was deleted learns of it from its heartbeat and exits.
DeletedHostExits ==
    \A m \in Machines : (host.status = "absent" /\ agent[m].up) ~> ~agent[m].up

\* The credentials of a host belong to one machine and keep working for it, over
\* well-typed rows (HostService.Register, Refresh).
Enrolled == TypeOK /\ OneMachine /\ CredentialsUsable

\* What an outage or the passing of time took away comes back: the host is
\* online, its missing capsules are resolved, its certificate is replaced
\* (StartHeartbeat, HostMonitor).
Recovers == ComesBack /\ MissingResolved /\ CertRenewed
=============================================================================
