---------------------------- MODULE MCPauseStore ----------------------------
(* Scenarios for model-checking PauseStore.                                 *)
EXTENDS PauseStore

Ask(op, b) == [op |-> op, box |-> b, img |-> 0, after |-> {}]
From(a, i) == [a EXCEPT !.img = i]
After(a, cs) == [a EXCEPT !.after = cs]

Calm == [calls |-> <<>>, fails |-> {}, crashes |-> 0, reboot |-> FALSE, skip |-> FALSE, work |-> 2]

\* The life of one capsule, paused twice.
Life == <<Ask("create", 1), After(Ask("pause", 1), {1}), After(Ask("resume", 1), {2}), After(Ask("pause", 1), {3}),
          After(Ask("resume", 1), {4}), After(Ask("destroy", 1), {5})>>

Living    == [Calm EXCEPT !.calls = Life, !.crashes = 2, !.reboot = TRUE]
Adopting  == [Calm EXCEPT !.calls = Life, !.crashes = 2, !.skip = TRUE]
Failing   == [Calm EXCEPT !.calls = Life, !.work = 1, !.crashes = 1,
                !.fails = {"vm", "freeze", "snap", "thaw", "preload", "dmremove"}]
Renaming  == [Calm EXCEPT !.calls = Life, !.work = 1, !.fails = {"rename", "boot", "net"}, !.crashes = 1]
Unrouted  == [Calm EXCEPT !.calls = SubSeq(Life, 1, 3) \o <<After(Ask("destroy", 1), {3})>>, !.work = 0,
                !.fails = {"uplink", "guard"}, !.crashes = 1]

\* A template is made of a running or a paused capsule; a second capsule runs on it.
Templating == [Calm EXCEPT !.work = 1, !.crashes = 1, !.fails = {"meta"}, !.calls =
    <<Ask("create", 1), After(From(Ask("snap", 1), 1), {1}), After(From(Ask("create", 2), 1), {2}),
      After(Ask("pause", 2), {3}), After(From(Ask("delete", 2), 1), {4}), After(Ask("resume", 2), {5})>>]
FromPaused == [Calm EXCEPT !.work = 1, !.crashes = 1, !.fails = {"dmremove"}, !.calls =
    <<Ask("create", 1), After(Ask("pause", 1), {1}), After(From(Ask("snap", 1), 1), {2}),
      After(From(Ask("create", 2), 1), {3}), After(Ask("destroy", 1), {3})>>]
Chaining == [Calm EXCEPT !.work = 1, !.fails = {"freeze", "snap", "vm"}, !.calls =
    <<Ask("create", 1), After(From(Ask("flatten", 1), 1), {1}), After(From(Ask("create", 2), 1), {2}),
      After(From(Ask("delete", 1), 1), {3})>>]

\* /init fails for a capsule restored from an image of a cold-booted one.
Unheard == [Calm EXCEPT !.work = 1, !.fails = {"init", "snap"}, !.calls =
    <<Ask("create", 1), After(From(Ask("snap", 1), 1), {1}), After(From(Ask("create", 2), 1), {2}),
      After(Ask("pause", 2), {3}), After(Ask("destroy", 2), {4})>>]

\* Two capsules; the slot of the one that goes is taken by the one that comes.
Neighbours == [Calm EXCEPT !.work = 1, !.crashes = 1, !.fails = {"boot"}, !.calls =
    <<Ask("create", 1), After(Ask("pause", 1), {1}), After(Ask("destroy", 1), {2}), After(Ask("create", 2), {2}),
      After(Ask("pause", 2), {4}), After(Ask("resume", 2), {5})>>]

Mixes == {Living, Adopting, Failing, Renaming, Unrouted, Templating, FromPaused, Chaining, Unheard, Neighbours}

MCInit == mix \in Mixes /\ NoStore

\* A capsule whose disk has moved on from the image beside it, with no VM that
\* outlives the agent's start.
Torn(b) == /\ dir[b] # None /\ dir[b].snap # None /\ dir[b].cow \notin {None, dir[b].snap.mem}
           /\ vm[b] = None \/ ~mix.skip
\* A restored VM whose guest agent has not been told so.
Unaware(b) == vm[b] # None /\ ~vm[b].resident /\ vm[b].pre = "done"

\* A capsule that is up and not yet in its running-state file.
Launching(b) == \E c \in Calls : Op(c).box = b /\ Op(c).op \in {"create", "resume"} /\ InFlight(c)

\* The agent is not down just then; one whose successor takes VMs over does
\* not crash in a launch either.
Untorn ==
    /\ phase' # "up" => \A b \in Boxes : ~Torn(b)'
    /\ phase' = "down" /\ phase # "down" /\ mix.skip => \A b \in Boxes : ~Unaware(b) /\ ~Launching(b)

MCSpec == MCInit /\ [][Next /\ Untorn]_vars /\ Fairness

\* The agent crashes after a resumed capsule has written.
TornSpec == mix = Living /\ NoStore /\ [][Next]_vars

\* /init fails after a resume.
SilentInit == [Calm EXCEPT !.calls = SubSeq(Life, 1, 5) \o <<After(Ask("pause", 1), {5})>>, !.fails = {"init"}, !.work = 0]
SilentSpec == mix = SilentInit /\ NoStore /\ [][Next]_vars
=============================================================================
