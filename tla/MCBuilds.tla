------------------------------ MODULE MCBuilds ------------------------------
(* Scenarios for model-checking Builds and Templates.                       *)
EXTENDS Builds, TLC

CONSTANTS n1, n2, t1, t2, c1, c2

NoRows == {}
NoFiles == [n \in Nodes |-> {}]
NoCalls == [c \in {} |-> None]

ABuild == [root |-> FALSE, skip |-> FALSE, recipe |-> <<"ENV", "RUN">>, hc |-> FALSE,
           archive |-> FALSE, fails |-> FALSE, cancel |-> FALSE, crash |-> FALSE,
           flaky |-> FALSE, sick |-> FALSE, garbled |-> FALSE, retries |-> 2, consoles |-> {},
           id |-> 1, node |-> n1, name |-> "a"]

Scenario(b, rows, fs, us, calls, flaps) ==
    [build |-> b, rows |-> rows, files |-> fs, used |-> us, calls |-> calls, flaps |-> flaps]

Only(b) == Scenario(b, NoRows, NoFiles, NoFiles, NoCalls, FALSE)

\* A build that may fail anywhere, with an archive; as root; with a healthcheck.
Failing   == Only([ABuild EXCEPT !.fails = TRUE, !.archive = TRUE, !.recipe = <<"COPY", "START">>, !.hc = TRUE])
AsRoot    == Only([ABuild EXCEPT !.root = TRUE, !.skip = TRUE])
\* A recipe with a line, or a healthcheck, that does not parse.
Garbled   == Only([ABuild EXCEPT !.recipe = <<"RUN", "BAD">>])
GarbledHC == Only([ABuild EXCEPT !.recipe = <<"RUN">>, !.hc = TRUE, !.garbled = TRUE, !.cancel = TRUE])
\* Cancelled at any moment; with a healthcheck that never succeeds nor gives up.
Cancelled == Only([ABuild EXCEPT !.cancel = TRUE, !.hc = TRUE, !.recipe = <<"RUN">>])
Endless   == Only([ABuild EXCEPT !.cancel = TRUE, !.hc = TRUE, !.recipe = <<"RUN">>, !.sick = TRUE, !.retries = 0, !.consoles = {c1}])
\* The control plane stops in the middle; a COPY finds its archive gone.
Crashing  == Only([ABuild EXCEPT !.crash = TRUE, !.archive = TRUE, !.recipe = <<"COPY">>, !.consoles = {c1}])
\* Consoles and a Redis connection that come and go, before a healthcheck.
Watched   == Only([ABuild EXCEPT !.root = TRUE, !.skip = TRUE, !.recipe = <<"RUN", "RUN">>, !.flaky = TRUE, !.consoles = {c1, c2}])
WatchedHC == Only([ABuild EXCEPT !.root = TRUE, !.recipe = <<"RUN">>, !.hc = TRUE, !.consoles = {c1}])

Ask(kind, team, name) ==
    [kind |-> kind, team |-> team, name |-> name, to |-> "b", owner |-> None, node |-> n1, id |-> 2]

R(i, team, name, public) == Row(i, team, name, public)
On(n, ids) == [m \in Nodes |-> IF m = n THEN ids ELSE {}]

\* A team publishes, renames and republishes while another launches by name.
Publishing == Scenario(None, {R(1, t1, "a", FALSE), R(3, Platform, "c", FALSE)}, On(n1, {1, 3}), NoFiles,
    (1 :> Ask("publish", t1, "a")) @@ (2 :> Ask("rename", t1, "a"))
      @@ (3 :> [Ask("launch", t2, "a") EXCEPT !.owner = t1]) @@ (4 :> Ask("unpublish", t1, "b"))
      @@ (5 :> Ask("launch", t2, "c")) @@ (6 :> Ask("rename", t2, "c")), FALSE)
\* A team deletes a template held by two hosts that come and go, one of them
\* running a sandbox on it or not, while a snapshot takes the same name.
Deleting(us) == Scenario(None, {R(1, t1, "a", FALSE)}, [n \in Nodes |-> {1}], us,
    (1 :> Ask("delete", t1, "a")) @@ (2 :> Ask("delete", t1, "a")) @@ (3 :> Ask("snapshot", t1, "a"))
      @@ (4 :> Ask("delete", t2, "c")), TRUE)
\* An administrator renames and deletes the template of a build, or another of
\* its name, while the build runs.
BuildAndDelete == Scenario([ABuild EXCEPT !.root = TRUE, !.skip = TRUE, !.recipe = <<"RUN">>],
    {R(2, Platform, "b", FALSE)}, On(n2, {2}), NoFiles,
    (1 :> Ask("delete", Platform, "a")) @@ (2 :> Ask("delete", Platform, "b"))
      @@ (3 :> [Ask("rename", Platform, "b") EXCEPT !.to = "a"]) @@ (4 :> [Ask("snapshot", t1, "a") EXCEPT !.id = 3]), FALSE)

Mixes == {Failing, AsRoot, Garbled, GarbledHC, Cancelled, Endless, Crashing, Watched, WatchedHC,
          Publishing, Deleting(NoFiles), Deleting(On(n2, {1})), BuildAndDelete}

MCInit == mix \in Mixes /\ Init
MCSpec == MCInit /\ [][Next]_vars /\ Fairness

\* The consoles of a build with a healthcheck.
DedupInit == mix = WatchedHC /\ Init
DedupSpec == DedupInit /\ [][Next]_vars
=============================================================================
