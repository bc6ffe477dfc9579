----------------------------- MODULE SavedState -----------------------------
(***************************************************************************)
(* What a host promises of a capsule's state.  A capsule runs, and its work *)
(* grows; or it is saved, and its work stands still.  A running capsule can *)
(* be lost with its VM or its agent.  A saved one cannot: it comes back     *)
(* with exactly the work it was saved with, and goes only when its removal  *)
(* was asked for.                                                           *)
(***************************************************************************)
EXTENDS Naturals

CONSTANT Capsules

VARIABLES
    st,     \* capsule -> <<"none", 0>>, <<"running", work>>, <<"saved", work>>
    asked   \* capsules whose removal was asked for

abstract == <<st, asked>>

Nothing == <<"none", 0>>
Running(w) == <<"running", w>>
Saved(w) == <<"saved", w>>

Init == st = [b \in Capsules |-> Nothing] /\ asked = {}

Becomes(b, s) == st' = [st EXCEPT ![b] = s] /\ UNCHANGED asked

\* A new capsule starts with its template's work.
Start(b) == st[b] = Nothing /\ st'[b][1] = "running" /\ Becomes(b, Running(st'[b][2]))
Work(b)  == st[b][1] = "running" /\ Becomes(b, Running(st[b][2] + 1))
Save(b)  == st[b][1] = "running" /\ Becomes(b, Saved(st[b][2]))
Load(b)  == st[b][1] = "saved" /\ Becomes(b, Running(st[b][2]))
Ask(b)   == asked' = asked \cup {b} /\ (UNCHANGED st \/ st' = [st EXCEPT ![b] = Nothing])
Drop(b)  == (st[b][1] = "running" \/ b \in asked) /\ Becomes(b, Nothing)

\* A crash takes, or turns into a save, any number of running capsules at once.
CrashAll ==
    /\ \A b \in Capsules :
        \/ st'[b] = st[b]
        \/ st[b][1] = "running" /\ st'[b] \in {Nothing, Saved(st[b][2])}
        \/ b \in asked /\ st'[b] = Nothing
    /\ UNCHANGED asked

Next ==
    \/ \E b \in Capsules : Start(b) \/ Work(b) \/ Save(b) \/ Load(b) \/ Ask(b) \/ Drop(b)
    \/ CrashAll

Spec == Init /\ [][Next]_abstract
=============================================================================
