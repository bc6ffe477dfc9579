---------------------------- MODULE ConnTracker ----------------------------
(***************************************************************************)
(* The tracker of proxied requests of one capsule                           *)
(* (pkg/sandbox/conntracker.go).  A request is counted by Acquire, takes the *)
(* tracker's context in a later step, and is counted out by Release.  A      *)
(* pause drains the tracker, cancels its context and, when the capsule goes  *)
(* on running, resets it.                                                   *)
(*                                                                         *)
(* A context is told apart only by what may still happen to it: "live" may   *)
(* be cancelled, "dead" is cancelled, and "lost" was replaced by Reset while  *)
(* a request held it, so nothing will cancel it any more.                    *)
(***************************************************************************)
EXTENDS Naturals

CONSTANT Conns      \* requests that may arrive

VARIABLES
    tracker,    \* draining flag, and the context: "nil" until first asked for
    conn        \* conn[c]: progress of request c and the context it holds

At(c, pc) == conn[c].pc = pc
Goto(c, pc) == conn' = [conn EXCEPT ![c].pc = pc]

\* count: the requests between Acquire and Release.
InFlight == {c \in Conns : conn[c].pc \in {"counted", "bumped", "proxied"}}

\* Acquire: the second, locked look at draining decides; the first only spares the lock.
Acquire(c) ==
    /\ At(c, "found")
    /\ IF tracker.draining THEN Goto(c, "refused") ELSE Goto(c, "counted")
    /\ UNCHANGED tracker

ensureCtx == IF tracker.ctx = "nil" THEN "live" ELSE tracker.ctx

Context(c) ==
    /\ At(c, "bumped")
    /\ tracker' = [tracker EXCEPT !.ctx = ensureCtx]
    /\ conn' = [conn EXCEPT ![c] = [pc |-> "proxied", ctx |-> ensureCtx]]

Release(c, how) == Goto(c, how) /\ UNCHANGED tracker

\* Drain: refuse from now on.  The wait that follows ends at zero or on its timeout.
Drain == tracker' = [tracker EXCEPT !.draining = TRUE] /\ UNCHANGED conn

Held(from, to) == [c \in Conns |-> IF conn[c].ctx = from THEN [conn[c] EXCEPT !.ctx = to] ELSE conn[c]]

\* Mutant: the shared context is left alone.
ForceCloseWaits == UNCHANGED <<tracker, conn>>

\* ForceClose: cancel the context, if there is one yet.
ForceClose ==
    /\ tracker' = [tracker EXCEPT !.ctx = IF @ = "nil" THEN "nil" ELSE "dead"]
    /\ conn' = Held("live", "dead")

\* Reset: a fresh context, and requests are admitted again.
Reset ==
    /\ tracker' = [draining |-> FALSE, ctx |-> "live"]
    /\ conn' = Held("live", "lost")

ConnTypeOK ==
    /\ tracker \in [draining : BOOLEAN, ctx : {"nil", "live", "dead"}]
    /\ conn \in [Conns -> [pc : {"idle", "routed", "found", "counted", "bumped", "proxied", "refused", "done", "aborted"},
                           ctx : {"none", "live", "dead", "lost"}]]
=============================================================================
