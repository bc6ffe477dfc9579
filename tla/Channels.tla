------------------------------ MODULE Channels ------------------------------
(***************************************************************************)
(* Notification channels (pkg/channels): the rows a team configures, and   *)
(* the dispatcher that reads the durable event stream as a Redis consumer  *)
(* group and delivers each event to the channels subscribed to it.         *)
(* Secrets are generations: conf.gen counts the configurations a channel   *)
(* has had, conf.told says whether the team knows the webhook secret.      *)
(***************************************************************************)
EXTENDS AuditLog, FiniteSets

CONSTANTS Chans,        \* channel ids, in order of creation
          ReadCount,    \* Count of XREADGROUP (10 in the code)
          MaxRetrying   \* maxConcurrentRetries (64 in the code)

VARIABLES channel,      \* table channels: [Chans -> row or None]
          stream,       \* the stream wrenn:events, every entry ever added
          group,        \* last entry given to group wrenn-channels-v1; None: no group
          disp,         \* the dispatcher goroutine
          retries,      \* its retry goroutines
          sent          \* history: every delivery attempted

ChannelVars == <<channel, stream, group, disp, retries, sent>>

retryDelays == <<10, 30>>

Subscribable == {"create", "pause", "resume", "destroy", "snapcreate", "snapdelete",
                 "volcreate", "voldelete", "hostup", "hostdown"}

----------------------------------------------------------------------------
(* SQL statements *)

\* The unique index on (team_id, name).
NameTaken(team, name, c) ==
    \E d \in Chans \ {c} : channel[d] # None /\ channel[d].team = team /\ channel[d].name = name

InsertChannel(c, q, conf) ==
    [channel EXCEPT ![c] = [team |-> q.team, name |-> q.name, provider |-> q.provider,
                            events |-> q.events, conf |-> conf]]
GetChannelByTeam(c, team) == IF channel[c] # None /\ channel[c].team = team THEN channel[c] ELSE None
ListChannelsByTeam(team) == {c \in Chans : GetChannelByTeam(c, team) # None}
ListChannelsForEvent(team, kind) ==
    {[ch |-> c, provider |-> channel[c].provider, conf |-> channel[c].conf] :
        c \in {d \in ListChannelsByTeam(team) : kind \in channel[d].events}}
UpdateChannel(c, q) == [channel EXCEPT ![c].name = q.name, ![c].events = q.events]
UpdateChannelConfig(c, conf) == [channel EXCEPT ![c].conf = conf]
DeleteChannelByTeam(c, team) ==
    IF GetChannelByTeam(c, team) = None THEN channel ELSE [channel EXCEPT ![c] = None]
DeleteAllChannelsByTeam(team) ==
    [c \in Chans |-> IF channel[c] # None /\ channel[c].team = team THEN None ELSE channel[c]]

----------------------------------------------------------------------------
(* Service: each operator gives the table after the call and the reply.    *)

validEvents(es) == es # {} /\ es \subseteq Subscribable
\* The fields the provider requires are there, and no URL is refused.
validConfig(q) == q.config # "bad"

\* A webhook without a secret is given one.
Configured(q, gen, told) == [gen |-> gen, told |-> told \/ q.config = "secret"]

serviceCreate(q) ==
    IF ~validEvents(q.events) \/ ~validConfig(q) THEN [channel |-> channel, reply |-> "invalid"]
    ELSE IF NameTaken(q.team, q.name, q.ch) THEN [channel |-> channel, reply |-> "conflict"]
    ELSE [channel |-> InsertChannel(q.ch, q, Configured(q, 1, TRUE)), reply |-> "ok"]

serviceUpdate(q) ==
    IF ~validEvents(q.events) THEN [channel |-> channel, reply |-> "invalid"]
    ELSE IF GetChannelByTeam(q.ch, q.team) = None THEN [channel |-> channel, reply |-> "notfound"]
    ELSE IF NameTaken(q.team, q.name, q.ch) THEN [channel |-> channel, reply |-> "conflict"]
    ELSE [channel |-> UpdateChannel(q.ch, q), reply |-> "ok"]

serviceTest(q, reached) == IF ~validConfig(q) THEN "invalid" ELSE IF reached THEN "ok" ELSE "unreachable"

\* RotateConfig validates against the row it read, then updates the row there is.
serviceRotateLookup(q) ==
    IF GetChannelByTeam(q.ch, q.team) = None THEN "notfound"
    ELSE IF ~validConfig(q) THEN "invalid" ELSE "found"
serviceRotate(q) ==
    LET row == GetChannelByTeam(q.ch, q.team)
    IN  IF row = None THEN [channel |-> channel, reply |-> "notfound"]
        ELSE [channel |-> UpdateChannelConfig(q.ch, Configured(q, row.conf.gen + 1, FALSE)), reply |-> "ok"]

----------------------------------------------------------------------------
(* Dispatcher *)

NoDispatcher == [life |-> "off", batch |-> <<>>, event |-> None, left |-> {}]

\* Capsule events of the system that only repeat what a handler has announced.
isRedundantNever(e) == FALSE
isRedundantSystemFollowup(e) ==
    /\ e.actor = "system"
    /\ e.kind \in {"create", "pause", "resume", "destroy"}
    /\ e.reason = None

\* run: the group starts after what the stream holds; without it nothing is read.
StartDispatcher(works) ==
    /\ disp.life = "off"
    /\ disp' = [disp EXCEPT !.life = IF works THEN "on" ELSE "dead"]
    /\ group' = IF works /\ group = None THEN Len(stream) ELSE group
    /\ UNCHANGED <<channel, stream, retries, sent>>

Idle == disp.life = "on" /\ disp.batch = <<>> /\ disp.event = None

ReadGroup ==
    /\ Idle
    /\ group < Len(stream)
    /\ LET upto == IF group + ReadCount < Len(stream) THEN group + ReadCount ELSE Len(stream)
       IN  /\ disp' = [disp EXCEPT !.batch = SubSeq(stream, group + 1, upto)]
           /\ group' = upto
    /\ UNCHANGED <<channel, stream, retries, sent>>

\* handleMessage up to the loop over the channels; acknowledged whatever happens.
HandleMessage(listed) ==
    /\ disp.life = "on" /\ disp.event = None /\ disp.batch # <<>>
    /\ LET e == Head(disp.batch)
           to == IF isRedundantSystemFollowup(e) \/ ~listed THEN {} ELSE ListChannelsForEvent(e.team, e.kind)
       IN  disp' = [disp EXCEPT !.batch = Tail(@), !.left = to, !.event = IF to = {} THEN None ELSE e]
    /\ UNCHANGED <<channel, stream, group, retries, sent>>

\* A delivery as its receiver sees it: a webhook is signed with the secret
\* of the configuration used.
Deliver(to, e, try, ok) ==
    [ch |-> to.ch, event |-> e, try |-> try, ok |-> ok,
     signed |-> IF to.provider = "webhook" THEN to.conf ELSE None]

\* A failed delivery takes a slot of retrySem, or is dropped.
Scheduled(to, e) ==
    IF Cardinality(retries) < MaxRetrying THEN retries \union {[to |-> to, event |-> e, try |-> 1]} ELSE retries

\* The loop over the channels: ok, failed, or the configuration cannot be decrypted.
Past(to) == [disp EXCEPT !.left = @ \ {to}, !.event = IF disp.left = {to} THEN None ELSE @]

Dispatch(to, res) ==
    /\ disp.event # None
    /\ sent' = IF res = "unread" THEN sent ELSE sent \union {Deliver(to, disp.event, 1, res = "ok")}
    /\ retries' = IF res = "failed" THEN Scheduled(to, disp.event) ELSE retries
    /\ disp' = Past(to)
    /\ UNCHANGED <<channel, stream, group>>

RetryDeliver(r, ok) ==
    /\ sent' = sent \union {Deliver(r.to, r.event, r.try + 1, ok)}
    /\ retries' = (retries \ {r}) \union
                  (IF ~ok /\ r.try < Len(retryDelays) THEN {[r EXCEPT !.try = @ + 1]} ELSE {})
    /\ UNCHANGED <<channel, stream, group, disp>>
=============================================================================
