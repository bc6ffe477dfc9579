--------------------------- MODULE MCControlPlane ---------------------------
EXTENDS ControlPlane

CONSTANTS s1, s2, v1

Base == [calls |-> {}, wants |-> [s \in Sandboxes |-> {}], up |-> {}, monitor |-> FALSE,
         idle |-> FALSE, crashes |-> 0, outages |-> 0, fault |-> "none"]
Both == [s \in Sandboxes |-> {v1}]
First == [s \in Sandboxes |-> IF s = s1 THEN {v1} ELSE {}]

\* Two creates compete for a volume that is also being deleted.
Claims == {[Base EXCEPT !.calls = {<<"create", s1>>, <<"create", s2>>, <<"delete", v1>>},
                        !.wants = Both, !.crashes = IF f = "cancel" THEN 0 ELSE 1, !.fault = f]
           : f \in {"none", "cancel", "attach"}}

\* A destroy hands its volume over to a create, or to a delete.
HandOver == [Base EXCEPT !.calls = {<<"destroy", s1>>, <<"create", s2>>},
                         !.wants = Both, !.up = {s1}, !.crashes = 1]
Teardown == [Base EXCEPT !.calls = {<<"destroy", s1>>, <<"delete", v1>>},
                         !.wants = First, !.up = {s1}]

\* Pauses and snapshots are overtaken by a destroy, between two ticks.
Overtaken == [Base EXCEPT !.calls = {"snapshot", "pause", "resume", "destroy"} \X {s1}, !.up = {s1}]

\* The monitor watches one capsule that users operate on.
One(ops) == [Base EXCEPT !.calls = ops \X {s1}, !.up = {s1}, !.monitor = TRUE]
Cycle == One({"pause", "resume"})
Freeze == One({"snapshot", "pause"})
\* Its VM expires or dies by itself, alone or during a call.
ExpiresP == [One({"pause"}) EXCEPT !.idle = TRUE]
ExpiresS == [One({"snapshot"}) EXCEPT !.idle = TRUE, !.wants = First]
ExpiresD == [One({"destroy"}) EXCEPT !.idle = TRUE, !.wants = First]
ExpiresV == [One({}) EXCEPT !.calls = {<<"delete", v1>>}, !.idle = TRUE, !.wants = First]
\* The control plane crashes, or the host drops off the network.
BootC == [One({"create"}) EXCEPT !.up = {}, !.crashes = 1]
BootO == [One({"create"}) EXCEPT !.up = {}, !.outages = 1]
PauseO == [One({"pause"}) EXCEPT !.outages = 1]
DestroyO == [One({"destroy"}) EXCEPT !.outages = 1, !.wants = First]

AllMixes == Claims \cup {HandOver, Teardown, Overtaken, Cycle, Freeze,
                        ExpiresP, ExpiresS, ExpiresD, ExpiresV, BootC, BootO, PauseO, DestroyO}

\* A paused capsule with a volume is resumed and the resume fails.
ResumeFails == {[One({"pause", "resume"}) EXCEPT !.monitor = FALSE, !.wants = First]}

\* A boot with a volume, watched by the monitor.
WatchedBoot == {[One({"create"}) EXCEPT !.up = {}, !.wants = First]}

\* The control plane crashes while a capsule is being paused.
PauseCrash == {[One({"pause"}) EXCEPT !.crashes = 1]}
=============================================================================
