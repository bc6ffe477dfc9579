----------------------------- MODULE Transfers -----------------------------
(***************************************************************************)
(* One file transfer or command of a client, through the control plane's     *)
(* handler, the host agent's and the guest's envd: streamed uploads and       *)
(* downloads (internal/api/handlers_files_stream.go), streamed commands and    *)
(* connections to running ones (handlers_exec_stream.go, handlers_process.go) *)
(* and commands whose output is collected (handlers_exec.go).                 *)
(*                                                                         *)
(* Data is a sequence of numbered chunks.  xf.kind is the kind of the         *)
(* transfer and xf.size how many chunks it has.                             *)
(***************************************************************************)
EXTENDS Naturals, Sequences

CONSTANTS
    Window,         \* chunks in flight between the control plane and the agent, or the guest and the agent
    CaptureCap      \* maxExecCaptureBytes, in chunks

ASSUME TransfersAssumption == {Window, CaptureCap} \subseteq Nat

VARIABLE xf     \* the transfer

NewTransfer(kind, size) ==
              [kind |-> kind, size |-> size,
               at |-> "none",       \* the control plane's handler
               told |-> "none",     \* what the client was told last: "ok", "error" or "ended"
               moved |-> 0,         \* upload: chunks read from the client; else chunks the guest produced
               wire |-> <<>>, ended |-> "no",           \* the stream to or from the agent, and how its sender ended it
               pump |-> "off", resp |-> "none", reply |-> "none",   \* WriteFileStream: errCh, envd's answer, its own
               body |-> <<>>, stored |-> "no",          \* upload: what envd received, and what became of the file
               shown |-> <<>>]                          \* else: what the client received

Upload == xf.kind = "upload"
Over(t, what) == [t EXCEPT !.at = "over", !.told = what]
All == [i \in 1..xf.size |-> i]

\* The handlers up to the first byte: the agent takes the request, or it is refused.
Begin(ok) ==
    xf' = IF ok THEN [xf EXCEPT !.at = "open", !.pump = IF Upload THEN "on" ELSE "off"] ELSE Over(xf, "error")

-----------------------------------------------------------------------------
(* Uploads                                                                  *)

\* StreamUpload: a chunk is read and sent.
UploadReads ==
    /\ Upload /\ xf.at = "open" /\ xf.reply = "none"
    /\ xf.moved < xf.size /\ Len(xf.wire) < Window
    /\ xf' = [xf EXCEPT !.moved = @ + 1, !.wire = Append(@, xf.moved + 1)]

\* The agent answered before the end: sending fails, and the deferred CloseAndReceive ends the stream.
UploadRefused ==
    /\ Upload /\ xf.at = "open" /\ xf.reply # "none"
    /\ xf' = [Over(xf, "error") EXCEPT !.ended = "closed"]

\* The body breaks off.  When the client is still there the stream is closed as at the
\* end of a file, by the deferred CloseAndReceive; when it left, everything is cancelled.
UploadBreaks ==
    /\ Upload /\ xf.at \in {"open", "closing"}
    /\ \/ xf.at = "open" /\ xf' = [Over(xf, "error") EXCEPT !.ended = "closed"]
       \/ xf' = [Over(xf, "none") EXCEPT !.ended = "cancelled"]

UploadAtEnd ==
    /\ Upload /\ xf.at = "open" /\ xf.reply = "none" /\ xf.moved = xf.size
    /\ xf' = [xf EXCEPT !.at = "closing", !.ended = "closed"]

\* CloseAndReceive returns.
UploadAnswered ==
    /\ Upload /\ xf.at = "closing" /\ xf.reply # "none"
    /\ xf' = Over(xf, xf.reply)

\* WriteFileStream's goroutine: a chunk goes through the pipe into envd's request body.
PumpWrites ==
    /\ xf.pump = "on" /\ xf.wire # <<>> /\ xf.resp = "none"
    /\ xf' = [xf EXCEPT !.wire = Tail(@), !.body = Append(@, Head(xf.wire))]

\* Mutant: nobody closes the pipe when the request to envd is over.
PumpWriteHangs == xf.pump = "never" /\ xf' = xf

\* The request is over: the pipe is closed, and the write fails.
PumpWriteFails ==
    /\ xf.pump = "on" /\ xf.wire # <<>> /\ xf.resp # "none"
    /\ xf' = [xf EXCEPT !.pump = "failed"]

\* The stream is over: the pipe is closed with its error, if it had one.
PumpDone ==
    /\ xf.pump = "on"
    /\ \/ xf.ended = "closed" /\ xf.wire = <<>> /\ xf' = [xf EXCEPT !.pump = "ok"]
       \/ xf.ended = "cancelled" /\ xf' = [xf EXCEPT !.pump = "failed"]

\* envd stores the file at the end of the body, or answers with an error at any time.
GuestStores(fails) ==
    /\ Upload /\ xf.at # "none" /\ xf.resp = "none"
    /\ \/ xf.pump = "ok" /\ xf' = [xf EXCEPT !.resp = "ok", !.stored = "whole"]
       \/ fails /\ xf' = [xf EXCEPT !.resp = "error"]

\* The request breaks: its body failed, its context was cancelled, or the guest is gone.
GuestLost(gone) ==
    /\ Upload /\ xf.pump # "off" /\ xf.resp = "none"
    /\ gone \/ xf.pump = "failed" \/ xf.ended = "cancelled"
    /\ xf' = [xf EXCEPT !.resp = "lost", !.stored = IF xf.body = <<>> THEN "no" ELSE "cut"]

\* Mutant: the status of envd's answer is not looked at.
WriteFileStreamAnyStatus ==
    /\ xf.resp # "none" /\ xf.pump \in {"ok", "failed"} /\ xf.reply = "none"
    /\ xf' = [xf EXCEPT !.reply = IF xf.resp # "lost" /\ xf.pump = "ok" THEN "ok" ELSE "error"]

\* WriteFileStream returns once its goroutine is done.
WriteFileStream ==
    /\ xf.resp # "none" /\ xf.pump \in {"ok", "failed"} /\ xf.reply = "none"
    /\ xf' = [xf EXCEPT !.reply = IF xf.resp = "ok" /\ xf.pump = "ok" THEN "ok" ELSE "error"]

-----------------------------------------------------------------------------
(* Downloads and commands                                                   *)

EndEvent == xf.size + 1    \* the process's end event

\* The guest produces a chunk (pumpProcessEvents); the end of a file, or of a process, comes after them.
GuestSends ==
    /\ ~Upload /\ xf.at = "open" /\ xf.ended = "no"
    /\ Len(xf.wire) < Window
    /\ IF xf.moved < xf.size THEN xf' = [xf EXCEPT !.moved = @ + 1, !.wire = Append(@, xf.moved + 1)]
       ELSE xf' = [xf EXCEPT !.ended = "closed", !.wire = IF xf.kind = "download" THEN @ ELSE Append(@, EndEvent)]

\* The agent and the control plane's handler pass on what came; the exit of a process like its output.
ReadFileStream ==
    /\ xf.kind = "download" /\ xf.at = "open" /\ xf.wire # <<>>
    /\ xf' = [xf EXCEPT !.wire = Tail(@), !.shown = Append(@, Head(xf.wire))]

ExecStream ==
    /\ xf.kind = "exec" /\ xf.at = "open" /\ xf.wire # <<>>
    /\ xf' = IF Head(xf.wire) = EndEvent THEN [xf EXCEPT !.wire = Tail(@), !.told = "ok"]
             ELSE [xf EXCEPT !.wire = Tail(@), !.shown = Append(@, Head(xf.wire))]

\* Client.Exec collects the output, up to the cap.
Exec ==
    /\ xf.kind = "run" /\ xf.at = "open" /\ xf.wire # <<>>
    /\ xf' = IF Head(xf.wire) = EndEvent THEN Over(xf, "ok")
             ELSE IF Len(xf.shown) + 1 > CaptureCap THEN Over(xf, "error")
             ELSE [xf EXCEPT !.wire = Tail(@), !.shown = Append(@, Head(xf.wire))]

\* Everything was passed on.  A stream that broke ends the same way, without a word,
\* unless the output is collected.
StreamOver(gone) ==
    /\ ~Upload /\ xf.at = "open" /\ xf.wire = <<>>
    /\ xf.ended = "closed" \/ gone
    /\ xf' = Over(xf, IF xf.kind = "run" THEN "error" ELSE IF xf.told = "ok" THEN "ok" ELSE "ended")

\* The client stops it or leaves.
StreamStopped == ~Upload /\ xf.at = "open" /\ xf' = Over(xf, xf.told)

-----------------------------------------------------------------------------
\* A client is told that its upload succeeded only when envd stored every byte of
\* it, and that its command ended only after it got all of the output
\* (StreamUpload, WriteFileStream; ExecStream, Exec).
TransferHonest == xf.told = "ok" => IF Upload THEN xf.stored = "whole" /\ xf.body = All ELSE xf.shown = All
=============================================================================
