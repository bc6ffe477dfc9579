------------------------------ MODULE MCGuest ------------------------------
(* Scenarios for model-checking Guest and the modules it composes.          *)
EXTENDS Guest

CONSTANTS c1, c2

Quiet == [requests |-> {}, served |-> TRUE, fails |-> FALSE, expires |-> FALSE, pings |-> FALSE, samples |-> 0,
          ticks |-> 0, terminal |-> FALSE, leaves |-> FALSE, before |-> 0, frames |-> <<>>, calls |-> <<>>,
          transfer |-> "none", size |-> 0]

\* Requests around a pause that may fail, a resume and another pause.
Paused == [Quiet EXCEPT !.requests = Conns, !.fails = TRUE, !.calls = <<"pause", "resume", "pause">>]
First == [Paused EXCEPT !.served = FALSE, !.calls = <<"pause", "resume">>]
Destroyed == [Quiet EXCEPT !.requests = Conns, !.calls = <<"destroy">>]
\* The capsule expires or is kept alive.
Expiring == [Quiet EXCEPT !.requests = {c1}, !.expires = TRUE, !.pings = TRUE, !.fails = TRUE, !.calls = <<"resume">>]
Overtaken == [Quiet EXCEPT !.expires = TRUE, !.fails = TRUE, !.calls = <<"pause", "resume", "pause">>]
\* Its metrics, over pauses.
Measured == [Quiet EXCEPT !.samples = 9]
Flushing == [Quiet EXCEPT !.samples = 4, !.fails = TRUE, !.calls = <<"pause", "resume", "pause", "destroy">>]
\* Its usage over three days.
Billed == [Quiet EXCEPT !.ticks = MaxNow, !.fails = TRUE]
BilledPaused == [Quiet EXCEPT !.ticks = 3, !.calls = <<"pause">>]
\* Terminals.
Typing == [Quiet EXCEPT !.terminal = TRUE, !.leaves = TRUE, !.frames = <<"key", "resize", "key", "kill">>]
Flaky == [Quiet EXCEPT !.terminal = TRUE, !.fails = TRUE, !.frames = <<"key", "junk", "resize", "key">>]
Attached == [Quiet EXCEPT !.terminal = TRUE, !.fails = TRUE, !.before = 1, !.frames = <<"key", "kill">>,
                          !.calls = <<"pause", "destroy">>]
IdleShell == [Quiet EXCEPT !.terminal = TRUE, !.expires = TRUE]

\* Transfers and commands around a pause.
Uploading == [Quiet EXCEPT !.transfer = "upload", !.size = 3, !.fails = TRUE, !.calls = <<"pause", "resume">>]
Downloading == [Uploading EXCEPT !.transfer = "download"]
Executing == [Uploading EXCEPT !.transfer = "exec"]
Collecting == [Uploading EXCEPT !.transfer = "run", !.size = 2]
TooMuch == [Quiet EXCEPT !.transfer = "run", !.size = 4, !.expires = TRUE]

Mixes == {Uploading, Downloading, Executing, Collecting, TooMuch, Paused, First, Destroyed, Expiring, Overtaken,
          Measured, Flushing, Billed, BilledPaused, Typing, Flaky, Attached, IdleShell}

MCInit == mix \in Mixes /\ GuestInit
MCSpec == MCInit /\ [][Next]_vars /\ Fairness
=============================================================================
