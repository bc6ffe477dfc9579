----------------------------- MODULE MCNotify -----------------------------
(* Scenarios for model-checking Notify, Channels and AuditLog.             *)
EXTENDS Notify

CONSTANTS b1, s1, s2

All == {"create", "pause", "resume", "destroy", "snapcreate", "volcreate", "hostdown"}
Hook(team, name, events) == [team |-> team, name |-> name, provider |-> "webhook", events |-> events,
                             conf |-> [gen |-> 1, told |-> TRUE]]

Base == [teams |-> {"t", "u"}, row |-> [b \in Boxes |-> "running"], log |-> <<>>, group |-> 0,
         channel |-> [c \in Chans |-> None], endpoint |-> [c \in Chans |-> "up"],
         subs |-> [s \in Subs |-> [team |-> IF s = s1 THEN "t" ELSE "u", admin |-> FALSE]],
         fails |-> FALSE, flaky |-> FALSE, crash |-> FALSE, hooks |-> FALSE, patient |-> TRUE, watched |-> {s1},
         disp |-> [NoDispatcher EXCEPT !.life = "dead"], calls |-> <<>>]
\* A channel of team t, and one of team u.
Told == [Base EXCEPT !.watched = {}, !.disp = NoDispatcher,
    !.channel = [c \in Chans |-> CASE c = 1 -> Hook("t", "a", All) [] c = 2 -> Hook("u", "a", All) [] OTHER -> None]]

Ask(kind) == [kind |-> kind, team |-> "t", box |-> b1, ch |-> 1, name |-> "a", provider |-> "webhook",
              events |-> All, config |-> "plain", role |-> "member", types |-> {}, limit |-> 2, after |-> {}]
After(a, cs) == [a EXCEPT !.after = cs]

\* What the dashboard sees.
Created == [Base EXCEPT !.row = [b \in Boxes |-> None], !.fails = TRUE, !.calls = <<Ask("create")>>]
Paused == [Base EXCEPT !.fails = TRUE, !.calls = <<Ask("pause")>>]
Destroyed == [Base EXCEPT !.fails = TRUE, !.calls = <<Ask("destroy")>>]
Snapped == [Base EXCEPT !.fails = TRUE, !.calls = <<Ask("snapshot")>>]
PauseExpire == [Base EXCEPT !.calls = <<Ask("pause"), Ask("auto_paused")>>]
Resumed == [Base EXCEPT !.row = [b \in Boxes |-> "paused"], !.fails = TRUE, !.calls = <<Ask("resume")>>]
Expired == [Base EXCEPT !.calls = <<Ask("auto_paused"), Ask("sync")>>]
Stopped == [Base EXCEPT !.calls = <<Ask("stopped")>>]
Abandoned == [Base EXCEPT !.row = [b \in Boxes |-> None], !.crash = TRUE, !.calls = <<Ask("create"), After(Ask("timeout"), {1})>>]
Stuck == [Base EXCEPT !.crash = TRUE, !.calls = <<Ask("destroy"), After(Ask("retry"), {1})>>]
StuckResume == [Base EXCEPT !.row = [b \in Boxes |-> "paused"], !.crash = TRUE,
                            !.calls = <<Ask("resume"), After(Ask("timeout"), {1})>>]
StuckPause == [Base EXCEPT !.crash = TRUE, !.calls = <<Ask("pause"), After(Ask("timeout"), {1})>>]
StuckSnapshot == [Base EXCEPT !.crash = TRUE, !.calls = <<Ask("snapshot"), After(Ask("timeout"), {1})>>]
Lossy == [Base EXCEPT !.flaky = TRUE, !.hooks = TRUE, !.calls = <<Ask("auto_paused")>>]
Noisy == [Base EXCEPT !.subs[s2].admin = TRUE, !.watched = Subs, !.calls = <<Ask("volcreate"), Ask("voldelete")>>]

\* What the channels receive.
Notified == [Told EXCEPT !.row = [b \in Boxes |-> None], !.fails = TRUE, !.calls =
    <<Ask("create"), [Ask("volcreate") EXCEPT !.team = "u"]>>]
Overtaken == [Told EXCEPT !.row = [b \in Boxes |-> None], !.fails = TRUE, !.patient = FALSE, !.channel[2] = None, !.calls =
    <<Ask("create"), After(Ask("timeout"), {1})>>]
Crashed == [Told EXCEPT !.fails = TRUE, !.channel[2] = None, !.calls = <<Ask("snapshot"), Ask("crashed")>>]
Again == [Told EXCEPT !.channel[2] = None, !.calls = <<Ask("resume"), Ask("crashed")>>]
Flaky == [Told EXCEPT !.endpoint[1] = "flaky", !.fails = TRUE, !.calls = <<Ask("snapshot"), After(Ask("hostdown"), {1})>>]
Outage == [Told EXCEPT !.channel[2] = Hook("t", "b", All), !.endpoint = [c \in Chans |-> "down"], !.calls =
    <<Ask("hostdown"), Ask("volcreate")>>]
Broken == [Told EXCEPT !.flaky = TRUE, !.endpoint[1] = "unread", !.group = None, !.calls = <<Ask("volcreate"), Ask("snapdelete")>>]
Restarted == [Told EXCEPT !.crash = TRUE, !.endpoint[1] = "flaky", !.calls = <<Ask("destroy")>>]
Configuring == [Told EXCEPT !.endpoint[1] = "flaky", !.calls =
    <<Ask("volcreate"), [Ask("chcreate") EXCEPT !.ch = 3, !.name = "b"],
      [Ask("chupdate") EXCEPT !.name = "b"], Ask("chrotate"), Ask("chdelete")>>]
Refused == [Told EXCEPT !.calls =
    <<[Ask("chcreate") EXCEPT !.ch = 3, !.config = "bad"], [Ask("chcreate") EXCEPT !.ch = 3],
      [Ask("chupdate") EXCEPT !.ch = 2], [Ask("chupdate") EXCEPT !.events = {}],
      [Ask("chrotate") EXCEPT !.ch = 2], [Ask("chtest") EXCEPT !.config = "bad"], Ask("teamdelete")>>]

\* Who reads the log: four rows two to a second, and rows being written.
Rows == [i \in 1 .. 4 |-> [row |-> newEntry("t", "user", "volume", "create", IF i = 2 THEN "admin" ELSE "team", 0),
                           at |-> i - 1, id |-> 100 - i]]
Queried == [Told EXCEPT !.calls = <<[Ask("chrotate") EXCEPT !.config = "bad"], Ask("chget"), Ask("chtest"), Ask("chdelete")>>]
Reading == [Base EXCEPT !.watched = {}, !.log = Rows, !.calls =
    <<Ask("audit"), [Ask("audit") EXCEPT !.role = "owner", !.limit = 1, !.types = {"volume"}], Ask("member"),
      [Ask("audit") EXCEPT !.limit = 0], [Ask("hostup") EXCEPT !.team = None],
      [Ask("audit") EXCEPT !.team = "u"]>>]

Mixes == {Created, Paused, Destroyed, Snapped, PauseExpire, Resumed, Expired, Stopped, Abandoned, Stuck, StuckResume,
          StuckPause, StuckSnapshot, Lossy, Noisy, Notified, Overtaken, Crashed, Again, Flaky, Outage, Broken, Restarted, Configuring, Refused, Queried, Reading}

MCInit == mix \in Mixes /\ NotifyInit
MCSpec == MCInit /\ [][Next]_vars /\ Fairness

PagedSpec == mix = Reading /\ NotifyInit /\ [][Next]_vars

Hooked == [Base EXCEPT !.hooks = TRUE, !.watched = {}, !.calls = <<Ask("auto_paused"), Ask("volcreate")>>]
HookSpec == mix = Hooked /\ NotifyInit /\ [][Next]_vars /\ Fairness

\* A user pauses and resumes before the consumer has come to the pause.
PauseResume == [Base EXCEPT !.watched = {}, !.calls = <<Ask("pause"), Ask("resume")>>]
StaleSpec == mix = PauseResume /\ NotifyInit /\ [][Next]_vars
=============================================================================
