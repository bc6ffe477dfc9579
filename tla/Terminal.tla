------------------------------ MODULE Terminal ------------------------------
(***************************************************************************)
(* One interactive terminal: the WebSocket session of the control plane      *)
(* (internal/api/handlers_pty.go), the host agent's PtyAttach stream, the     *)
(* envd client that drains the guest's events (pkg/envdclient/pty.go), and    *)
(* the guest process.                                                       *)
(*                                                                         *)
(* The session's goroutines are the fields reader, sender, pump and keep.     *)
(* The client's frames are numbered in the order it sends them; mix.frames    *)
(* says what each is: "key", "resize", "kill", or "junk" that does not parse. *)
(* A remote call reaches the guest or fails; the code then goes on.  A        *)
(* reconnecting client finds a process that already printed mix.before.      *)
(***************************************************************************)
EXTENDS Naturals, Sequences, FiniteSets

CONSTANTS
    InputBuffer,    \* capacity of inputCh
    EventBuffer,    \* events between the guest and the output pump
    MaxOutput       \* bound: chunks the guest process prints

ASSUME TerminalAssumption == {InputBuffer, EventBuffer, MaxOutput} \subseteq Nat

VARIABLES
    mix,        \* the scenario
    pty         \* the session

NoSession == [life |-> "none", client |-> TRUE, open |-> TRUE, cancelled |-> FALSE,
              reader |-> FALSE, sender |-> "off", pump |-> FALSE, keep |-> FALSE,
              sent |-> 0, ch |-> <<>>, pending |-> <<>>, buf |-> <<>>, taken |-> {}, called |-> {}, applied |-> <<>>,
              guest |-> "none", printed |-> 0, events |-> <<>>, stream |-> "none", shown |-> <<>>]

Frame(i) == mix.frames[i]
Exit == 0       \* the end event; chunk k of the output is k

\* PtyAttach succeeded and the loop's goroutines start (handleStart, handleConnect).
runPtyLoop(reconnect) ==
    pty' = [pty EXCEPT !.life = "open", !.reader = TRUE, !.sender = "idle", !.pump = TRUE, !.keep = TRUE,
                       !.guest = "runs", !.stream = "open", !.printed = IF reconnect THEN mix.before ELSE 0]

\* The attach failed: an error frame, and the handler returns.
AttachFails == pty' = [pty EXCEPT !.life = "over", !.open = FALSE]

Running == pty.life = "open"

\* Reader: the next frame goes into inputCh, or is dropped when that is full.
ReadFrame ==
    /\ Running /\ pty.reader /\ pty.open /\ pty.client
    /\ pty.sent < Len(mix.frames)
    /\ LET i == pty.sent + 1
           room == Len(pty.ch) < InputBuffer
       IN pty' = [pty EXCEPT !.sent = i,
                             !.ch = IF Frame(i) # "junk" /\ room THEN Append(@, i) ELSE @,
                             !.taken = IF Frame(i) # "junk" /\ room THEN @ \cup {i} ELSE @]

ClientLeaves == Running /\ pty.client /\ pty' = [pty EXCEPT !.client = FALSE]

\* ReadMessage fails: the channel is closed and the session cancelled.
ReaderEnds ==
    /\ Running /\ pty.reader
    /\ ~pty.open \/ ~pty.client
    /\ pty' = [pty EXCEPT !.reader = FALSE, !.cancelled = TRUE]

\* Sender: the message kept from coalescing comes first.
SenderTakes ==
    /\ Running /\ pty.sender = "idle"
    /\ \/ /\ pty.pending # <<>>
          /\ pty' = [pty EXCEPT !.buf = @ \o pty.pending, !.pending = <<>>,
                                !.sender = IF Frame(pty.pending[1]) = "key" THEN "coalesce" ELSE "call"]
       \/ /\ pty.pending = <<>> /\ pty.ch # <<>>
          /\ pty' = [pty EXCEPT !.buf = <<Head(pty.ch)>>, !.ch = Tail(@),
                                !.sender = IF Frame(Head(pty.ch)) = "key" THEN "coalesce" ELSE "call"]

\* coalescePtyInput: keystrokes already queued are sent along; a control message ends it and waits its turn.
coalescePtyInput ==
    /\ Running /\ pty.sender = "coalesce"
    /\ \/ pty.ch = <<>> /\ pty' = [pty EXCEPT !.sender = "call"]
       \/ /\ pty.ch # <<>>
          /\ pty' = IF Frame(Head(pty.ch)) = "key" THEN [pty EXCEPT !.buf = Append(@, Head(pty.ch)), !.ch = Tail(@)]
                    ELSE [pty EXCEPT !.pending = <<Head(pty.ch)>>, !.ch = Tail(@), !.sender = "call"]

\* PtySendInput, PtyResize or PtyKill: ok says whether the call reached the guest process.
SenderCalls(ok) ==
    /\ Running /\ pty.sender = "call"
    /\ LET reached == ok /\ pty.guest = "runs"
       IN pty' = [pty EXCEPT !.sender = "idle", !.buf = <<>>,
                             !.called = @ \cup {pty.buf[i] : i \in DOMAIN pty.buf},
                             !.applied = IF reached THEN @ \o pty.buf ELSE @,
                             !.guest = IF reached /\ Frame(pty.buf[1]) = "kill" THEN "killed" ELSE @]

\* The channel is closed and empty.
SenderEnds ==
    /\ Running /\ pty.sender = "idle" /\ pty.pending = <<>> /\ pty.ch = <<>> /\ ~pty.reader
    /\ pty' = [pty EXCEPT !.sender = "off", !.cancelled = TRUE]

\* The guest process prints, and exits on its own or because it was killed.
GuestPrints ==
    /\ Running /\ pty.guest = "runs" /\ pty.printed < MaxOutput
    /\ Len(pty.events) < EventBuffer \/ pty.stream # "open"
    /\ pty' = [pty EXCEPT !.printed = @ + 1,
                          !.events = IF pty.stream = "open" THEN Append(@, pty.printed + 1) ELSE @]

GuestExits ==
    /\ Running /\ pty.guest \in {"runs", "killed"}
    /\ Len(pty.events) < EventBuffer \/ pty.stream # "open"
    /\ pty' = [pty EXCEPT !.guest = "exited", !.events = IF pty.stream = "open" THEN Append(@, Exit) ELSE @,
                          !.stream = IF @ = "open" THEN "ended" ELSE @]

\* Output pump: one event is written to the WebSocket, after a cancellation too while
\* the stream still has one; the exit is the last.
PumpShows ==
    /\ Running /\ pty.pump /\ pty.open /\ pty.events # <<>>
    /\ LET e == Head(pty.events)
       IN pty' = [pty EXCEPT !.shown = Append(@, e), !.events = Tail(@),
                             !.pump = e # Exit, !.cancelled = @ \/ e = Exit]

\* The stream is over, or its context was cancelled.
PumpEnds ==
    /\ Running /\ pty.pump
    /\ pty.cancelled \/ (pty.events = <<>> /\ pty.stream = "broken")
    /\ pty' = [pty EXCEPT !.pump = FALSE, !.cancelled = TRUE, !.stream = "closed"]

KeepEnds == Running /\ pty.keep /\ pty.cancelled /\ pty' = [pty EXCEPT !.keep = FALSE]

\* Whoever cancels, the WebSocket is closed, so that the reader returns.
Closer == Running /\ pty.cancelled /\ pty.open /\ pty' = [pty EXCEPT !.open = FALSE]

\* wg.Wait returned.
SessionOver ==
    /\ Running /\ ~pty.reader /\ pty.sender = "off" /\ ~pty.pump /\ ~pty.keep
    /\ pty' = [pty EXCEPT !.life = "over"]

\* The VM is gone: envd's stream breaks without an end event.
StreamBroken(p) == IF p.stream = "open" THEN [p EXCEPT !.stream = "broken", !.guest = "gone"]
                   ELSE [p EXCEPT !.guest = IF @ \in {"runs", "killed"} THEN "gone" ELSE @]

-----------------------------------------------------------------------------
\* What the client does reaches the guest in the order the client did it:
\* keystrokes are never overtaken by a resize or kill sent after them, nor the
\* reverse, although keystrokes are coalesced (runPtyLoop's sender).
KeysInOrder == \A i, j \in DOMAIN pty.applied : i < j => pty.applied[i] < pty.applied[j]

\* A frame taken into the input buffer is sent even when the client is gone by
\* then: the session is not over before each has been called for (runPtyLoop).
InputDrained == pty.life = "over" => pty.taken \subseteq pty.called

\* What the client is shown is what the guest printed since the client attached,
\* without gaps, and the exit comes after all of it (drainPtyStream, PtyAttach,
\* runPtyLoop's output pump).
OutputWhole ==
    \A i \in DOMAIN pty.shown :
        IF pty.shown[i] = Exit THEN i = Len(pty.shown) /\ mix.before + i = pty.printed + 1
        ELSE pty.shown[i] = mix.before + i
=============================================================================
