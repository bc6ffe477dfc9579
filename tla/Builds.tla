------------------------------- MODULE Builds -------------------------------
(***************************************************************************)
(* Template builds (pkg/service/build.go): a build is queued in Redis,      *)
(* taken by a worker, run in a sandbox of its own - pre-build steps, the    *)
(* recipe, the healthcheck, post-build steps - and snapshotted into a       *)
(* template of the registry (module Templates).  Meanwhile it can be        *)
(* cancelled, and consoles follow it: a console replays the persisted log   *)
(* and then tails the events the build publishes                            *)
(* (internal/api/handlers_build_stream.go, pkg/service/build_broker.go).    *)
(*                                                                         *)
(* One build is followed; a step is one SQL statement, agent call or        *)
(* published event.  What a command prints is left out.                     *)
(***************************************************************************)
EXTENDS Templates, Sequences

CONSTANTS
    Consoles,   \* WebSocket clients
    PreSteps,   \* number of pre-build commands (1 in the code)
    PostSteps,  \* number of post-build commands (4 in the code)
    BufCap      \* capacity of a subscriber's event buffer (256 in the code)

ASSUME BuildsAssumption == PreSteps \in Nat /\ PostSteps \in Nat /\ BufCap \in Nat \ {0}

VARIABLES
    build,      \* row of template_builds: status, current_step, logs
    queue,      \* the build's id is in the Redis queue
    archive,    \* BuildService.filesMap holds the uploaded archive
    work,       \* the worker that executes the build
    cancel,     \* progress of a Cancel request: "new", "mark", "signal", "done"
    con,        \* consoles
    attached    \* the broker's Redis subscription is established

bvars == <<build, queue, archive, work, cancel, con, attached>>
vars == <<mix, tmpl, files, used, up, call, pub, build, queue, archive, work, cancel, con, attached>>

Terminal == {"success", "failed", "cancelled"}

-----------------------------------------------------------------------------
(* The plan of a build                                                     *)

Run(n) == [i \in 1..n |-> "RUN"]

\* BuildService.Create: unless the build runs as root, the persisted recipe
\* starts with the steps that create and enter the build user's home.
Recipe == IF mix.build.root THEN mix.build.recipe ELSE <<"USER", "WORKDIR">> \o mix.build.recipe

TotalSteps == Len(Recipe) + IF mix.build.skip THEN 0 ELSE PreSteps + PostSteps

Pre  == IF mix.build.skip THEN <<>> ELSE Run(PreSteps)
Post == IF mix.build.skip THEN <<>> ELSE Run(PostSteps)

\* The phases in the order executeBuild runs them.
Phases == Pre \o Recipe \o (IF mix.build.hc THEN <<"HEALTHCHECK">> ELSE <<>>) \o Post

HasHealthcheckBefore(i) == \E j \in 1..(i - 1) : Phases[j] = "HEALTHCHECK"

\* Step numbers count recipe and pre/post steps; the healthcheck is numbered
\* after all of them (runHealthcheck: hcStep = TotalSteps + 1).
Number(i) ==
    IF Phases[i] = "HEALTHCHECK" THEN TotalSteps + 1
    ELSE IF HasHealthcheckBefore(i) THEN i - 1 ELSE i

-----------------------------------------------------------------------------
(* The recipe's execution context (internal/recipe)                        *)

\* ExecContext: the user commands run as, the working directory, and the
\* environment, of which three variables are followed: PATH, HOME, and APP,
\* which the recipe's ENV step sets to "$HOME".
Context == [user : {"root", "wrenn-user"}, dir : {"", "/home"},
            env : [{"PATH", "HOME", "APP"} -> {"", "default", "/root", "/home"}]]

\* fetchSandboxEnv, or the defaults when it fails.
FirstContext == [user |-> "root", dir |-> "",
                 env |-> [v \in {"PATH", "HOME", "APP"} |->
                     CASE v = "PATH" -> "default" [] v = "HOME" -> "/root" [] v = "APP" -> ""]]

\* expandEnv on the value "$HOME".
expandEnv(ctx) == ctx.env["HOME"]

execUser(ctx)    == [ctx EXCEPT !.user = "wrenn-user", !.env["HOME"] = "/home"]
execWorkdir(ctx) == [ctx EXCEPT !.dir = "/home"]
execEnv(ctx)     == [ctx EXCEPT !.env["APP"] = expandEnv(ctx)]

\* Execute: the context after a step of the given kind.
After(ctx, kind) ==
    CASE kind = "USER"    -> execUser(ctx)
      [] kind = "WORKDIR" -> execWorkdir(ctx)
      [] kind = "ENV"     -> execEnv(ctx)
      [] OTHER            -> ctx

\* ParseStep: a line that is not one of the six instructions, well formed, is
\* an error; ParseRecipe stops at the first.
ParseStep(kind) == kind \in {"RUN", "START", "ENV", "WORKDIR", "USER", "COPY"}
ParseRecipe(lines) == \A i \in DOMAIN lines : ParseStep(lines[i])

\* filterBuildEnv: what belongs to the user or to the run is not baked in.
filterBuildEnv(env) == [v \in DOMAIN env \ {"HOME"} |-> env[v]]


-----------------------------------------------------------------------------
(* Initial state and events                                                *)

BuildsInit ==
    /\ build = [status |-> "none", step |-> 0, logs |-> <<>>, ok |-> TRUE, defaults |-> None]
    /\ queue = FALSE /\ archive = FALSE
    /\ work = [at |-> "idle", i |-> 1, dead |-> FALSE, vm |-> FALSE, files |-> FALSE,
               ok |-> TRUE, fails |-> 0, ctx |-> FirstContext, defaults |-> None,
               then |-> None, orphan |-> FALSE]
    /\ cancel = "new"
    /\ con = [c \in Consoles |-> [at |-> "new", shown |-> <<>>, last |-> 0, skipped |-> {}, buf |-> <<>>]]
    /\ attached = FALSE

Live == ~work.dead

StepEvent(type, n) == [type |-> type, step |-> n, status |-> None]
StatusEvent(st) == [type |-> "status", step |-> 0, status |-> st]

\* publishBuildEvent and BuildBroker.dispatch: the event reaches every console
\* that is subscribed while the broker is attached to Redis; one whose buffer
\* is full misses it.
Publish(ev) ==
    con' = [c \in Consoles |->
        IF con[c].at = "tail" /\ attached /\ Len(con[c].buf) < BufCap
        THEN [con[c] EXCEPT !.buf = Append(@, ev)]
        ELSE con[c]]

\* An event published under the build's context is lost once it is cancelled.
PublishLive(ev) == IF Live THEN Publish(ev) ELSE UNCHANGED con

Work(w) == work' = w /\ UNCHANGED <<mix, tvars, queue, cancel, attached>>

-----------------------------------------------------------------------------
(* Requests: Create and Cancel                                             *)

\* BuildService.Create: insert the row, keep the archive, push the id; when
\* the push fails the archive is dropped and the row stays pending.
Create ==
    /\ build.status = "none"
    /\ build' = [build EXCEPT !.status = "pending"]
    /\ \E pushed \in BOOLEAN :
        /\ pushed \/ mix.build.fails
        /\ queue' = pushed
        /\ archive' = (pushed /\ mix.build.archive)
    /\ UNCHANGED <<mix, tvars, work, cancel, con, attached>>

\* BuildService.Cancel: read the status ...
CancelRead ==
    /\ mix.build.cancel /\ cancel = "new" /\ build.status # "none"
    /\ cancel' = IF build.status \in Terminal THEN "done" ELSE "mark"
    /\ UNCHANGED <<mix, tvars, build, queue, archive, work, con, attached>>

\* ... write "cancelled", whatever the status is by now, and publish it ...
CancelMark ==
    /\ cancel = "mark"
    /\ build' = [build EXCEPT !.status = "cancelled"]
    /\ Publish(StatusEvent("cancelled"))
    /\ cancel' = "signal"
    /\ UNCHANGED <<mix, tvars, queue, archive, work, attached>>

\* The build is in cancelMap from before it is fetched until executeBuild returns.
Registered == work.at \notin {"idle", "done", "lost"}

SignalledNobody == work

Signalled == IF Registered THEN [work EXCEPT !.dead = TRUE] ELSE work

\* ... and cancel the build's context if a worker has it.
CancelSignal ==
    /\ cancel = "signal"
    /\ cancel' = "done"
    /\ work' = Signalled
    /\ UNCHANGED <<mix, tvars, build, queue, archive, con, attached>>

-----------------------------------------------------------------------------
(* The worker: executeBuild                                                *)

\* worker: BLPOP; executeBuild registers the build in cancelMap first.
Dequeue ==
    /\ queue /\ work.at = "idle"
    /\ queue' = FALSE
    /\ work' = [work EXCEPT !.at = "fetch"]
    /\ UNCHANGED <<mix, tvars, build, archive, cancel, con, attached>>

\* GetTemplateBuild: a build cancelled while it was queued is skipped.
Fetch ==
    /\ work.at = "fetch"
    /\ Work([work EXCEPT !.at = IF Live /\ build.status # "cancelled" THEN "mark" ELSE "done"])
    /\ UNCHANGED <<build, archive, con>>

MarkRunning ==
    /\ work.at = "mark"
    /\ IF Live
       THEN build' = [build EXCEPT !.status = "running"] /\ Work([work EXCEPT !.at = "provision"])
       ELSE UNCHANGED build /\ Work([work EXCEPT !.at = "done"])
    /\ PublishLive(StatusEvent("running"))
    /\ UNCHANGED archive

NextAt(i) == IF i > Len(Phases) THEN "snapshot" ELSE "step"

\* provisionBuildSandbox up to CreateSandbox.  A failure fails the build and
\* destroys nothing: a sandbox the agent made for a call that was cancelled
\* stays behind (orphan).
Provision ==
    /\ work.at = "provision"
    /\ \/ Live /\ Work([work EXCEPT !.at = "upload", !.vm = TRUE])
       \/ ~Live /\ \E made \in BOOLEAN : Work([work EXCEPT !.at = "fail", !.orphan = made])
       \/ Live /\ mix.build.fails /\ Work([work EXCEPT !.at = "fail"])
    /\ UNCHANGED <<build, archive, con>>

\* provisionBuildSandbox: upload and extract the archive, if there is one.
Upload ==
    /\ work.at = "upload"
    /\ archive' = FALSE
    /\ \/ (Live \/ ~archive) /\ Work([work EXCEPT !.at = "parse", !.files = archive])
       \/ archive /\ (mix.build.fails \/ ~Live)
          /\ Work([work EXCEPT !.at = "destroy", !.then = "fail"])
    /\ UNCHANGED <<build, con>>

\* The persisted recipe is parsed only now: a bad line costs the sandbox.
Parse ==
    /\ work.at = "parse"
    /\ Work(IF ParseRecipe(Recipe) THEN [work EXCEPT !.at = NextAt(1)]
            ELSE [work EXCEPT !.at = "destroy", !.then = "fail"])
    /\ UNCHANGED <<build, archive, con>>

\* The healthcheck's flags and command are parsed when its turn comes.
ParseHealthcheck == ~mix.build.garbled

\* runPhase and runHealthcheck: announce the step.
StepStart ==
    /\ work.at = "step"
    /\ IF Phases[work.i] = "HEALTHCHECK" /\ ~ParseHealthcheck
       THEN Work([work EXCEPT !.at = "destroy", !.then = "fail"]) /\ UNCHANGED con
       ELSE /\ Work([work EXCEPT !.at = "exec", !.fails = 0])
            /\ PublishLive(StepEvent("start", Number(work.i)))
    /\ UNCHANGED <<build, archive>>

Kind1 == Phases[work.i]

\* updateLogs, under the build's context.
updateLogs(n, step, ok) ==
    IF Live THEN [build EXCEPT !.logs = Append(@, n), !.step = step, !.ok = @ /\ ok] ELSE build

FailStep == [work EXCEPT !.at = "destroy", !.then = "check"]

\* runPhase's failure path: log the step, destroy the sandbox, then decide
\* whether the build was cancelled.
StepFailed == FailStep

\* How a call of the agent can end: a command that ran to its end, one that
\* failed, an error, or a stream that stops before it reports an exit code.
Ends == (IF Live THEN {"exit 0"} ELSE {})
    \cup (IF Live /\ mix.build.fails THEN {"exit 1"} ELSE {})
    \cup (IF ~Live \/ mix.build.fails THEN {"error", "closed"} ELSE {})

\* The outcomes of each kind of step: TRUE is success.
execRawShell == {e = "exit 0" : e \in Ends \ {"closed"}}
execRunStreaming == {e = "exit 0" : e \in Ends}
execStart == {e = "exit 0" : e \in Ends \ {"closed"}}
execCopy == IF work.files THEN execRawShell ELSE {FALSE}

Outcomes(kind) ==
    CASE kind = "RUN" -> execRunStreaming
      [] kind = "START" -> execStart
      [] kind = "COPY" -> execCopy
      [] kind \in {"USER", "WORKDIR"} -> execRawShell
      [] kind = "ENV" -> {TRUE}

\* Execute, one step: ENV is the only kind that does not need the agent, and
\* COPY needs the archive.
ExecStep ==
    /\ work.at = "exec" /\ Kind1 # "HEALTHCHECK"
    /\ \E ok \in Outcomes(Kind1) :
        IF ok THEN /\ Work([work EXCEPT !.at = "log", !.ok = TRUE, !.ctx = After(@, Kind1)])
                   /\ UNCHANGED build
        ELSE Work(StepFailed) /\ build' = updateLogs(Number(work.i), Number(work.i), FALSE)
    /\ UNCHANGED <<archive, con>>

\* runHealthcheck's entry: Ok is whether the check returned no error.
HealthcheckEntry(ok) == [work EXCEPT !.at = "log", !.ok = ok]

\* streamHealthcheck: a failed attempt counts; the last one the retries allow,
\* the deadline they imply, or a cancelled context, ends the check.  Without
\* retries only success or cancellation ends it.
Healthcheck ==
    /\ work.at = "exec" /\ Kind1 = "HEALTHCHECK"
    /\ \/ Live /\ ~mix.build.sick /\ Work(HealthcheckEntry(TRUE))
       \/ Live /\ mix.build.retries > work.fails + 1 /\ Work([work EXCEPT !.fails = @ + 1])
       \/ mix.build.retries > 0 /\ Work(HealthcheckEntry(FALSE))
       \/ ~Live /\ Work(HealthcheckEntry(FALSE))
    /\ UNCHANGED <<build, archive, con>>

\* The healthcheck pins current_step to the total.
Progress(i) == IF Phases[i] = "HEALTHCHECK" THEN TotalSteps ELSE Number(i)

\* onProgress and runHealthcheck: persist the log.
StepLog ==
    /\ work.at = "log"
    /\ build' = updateLogs(Number(work.i), Progress(work.i), work.ok)
    /\ Work([work EXCEPT !.at = "publish"])
    /\ UNCHANGED <<archive, con>>

AfterRecipe == Len(Pre) + Len(Recipe)

\* The defaults of the template are the context the recipe ended with; the
\* post-build phase runs as root.
Captured(w) ==
    [w EXCEPT
        !.defaults = IF w.i = AfterRecipe
                     THEN [user |-> w.ctx.user, env |-> filterBuildEnv(w.ctx.env)] ELSE @,
        !.ctx.user = IF w.i = Len(Phases) - Len(Post) THEN "root" ELSE @]

GoesOnAnyway == TRUE

GoesOn == work.ok

\* Publish step-end and go on, or stop after a healthcheck that failed.
StepPublish ==
    /\ work.at = "publish"
    /\ PublishLive(StepEvent("end", Number(work.i)))
    /\ IF GoesOn
       THEN Work([Captured(work) EXCEPT !.at = NextAt(work.i + 1), !.i = @ + 1])
       ELSE Work(FailStep)
    /\ UNCHANGED <<build, archive>>

-----------------------------------------------------------------------------
(* finalizeBuild, destroySandbox, failBuild                                *)

Store == files' = [files EXCEPT ![mix.build.node] = @ \cup {mix.build.id}]

\* CreateSnapshot or FlattenRootfs.
Snapshot ==
    /\ work.at = "snapshot"
    /\ \/ Live /\ Store /\ work' = [work EXCEPT !.at = "insert"]
       \/ ~Live /\ (Store \/ UNCHANGED files) /\ work' = FailStep
       \/ Live /\ mix.build.fails /\ UNCHANGED files /\ work' = FailStep
    /\ UNCHANGED <<mix, tmpl, used, up, call, pub, queue, cancel, attached, build, archive, con>>

\* InsertTemplate; an error is only logged.
Insert ==
    /\ work.at = "insert"
    /\ IF Live THEN InsertTemplate(Row(mix.build.id, Platform, mix.build.name, FALSE)) ELSE UNCHANGED tmpl
    /\ work' = [work EXCEPT !.at = "defaults"]
    /\ UNCHANGED <<mix, files, used, up, call, pub, queue, cancel, attached, build, archive, con>>

UpdateBuildDefaults ==
    /\ work.at = "defaults"
    /\ build' = IF Live THEN [build EXCEPT !.defaults = work.defaults] ELSE build
    /\ Work([work EXCEPT !.at = "success"])
    /\ UNCHANGED <<archive, con>>

MarkSuccess ==
    /\ work.at = "success"
    /\ build' = IF Live THEN [build EXCEPT !.status = "success"] ELSE build
    /\ PublishLive(StatusEvent("success"))
    /\ Work([work EXCEPT !.at = "destroy", !.then = "done"])
    /\ UNCHANGED archive

AfterDestroy == IF work.then = "done" \/ (work.then = "check" /\ ~Live) THEN "done" ELSE "fail"

\* destroySandbox, under a context of its own; afterwards a step that failed
\* under a cancelled context leaves the status alone.
DestroySandbox ==
    /\ work.at = "destroy"
    /\ Work([work EXCEPT !.vm = FALSE, !.at = AfterDestroy])
    /\ UNCHANGED <<build, archive, con>>

\* failBuild, under a context of its own.
FailBuild ==
    /\ work.at = "fail"
    /\ build' = [build EXCEPT !.status = "failed"]
    /\ Publish(StatusEvent("failed"))
    /\ Work([work EXCEPT !.at = "done"])
    /\ UNCHANGED archive

\* The control plane stops: the worker, the requests, the archives and the
\* consoles are gone; the row and the queue stay.
Crash ==
    /\ mix.build.crash
    /\ work' = [work EXCEPT !.at = IF Registered THEN "lost" ELSE @]
    /\ archive' = FALSE
    /\ cancel' = IF cancel = "new" THEN "new" ELSE "done"
    /\ con' = [c \in Consoles |-> IF con[c].at = "new" THEN con[c] ELSE [con[c] EXCEPT !.at = "closed", !.buf = <<>>]]
    /\ attached' = FALSE
    /\ UNCHANGED <<mix, tvars, build, queue>>

-----------------------------------------------------------------------------
(* Consoles: buildStreamHandler.Stream and BuildBroker                     *)

Highest(seq) == IF seq = <<>> THEN 0 ELSE CHOOSE n \in {seq[j] : j \in DOMAIN seq} : \A j \in DOMAIN seq : seq[j] <= n

\* Read the row and replay its log (replayBuildHistory returns the highest
\* step); a finished build has nothing to follow.
ConsoleOpen(c) ==
    /\ c \in mix.build.consoles /\ con[c].at = "new" /\ build.status # "none"
    /\ con' = [con EXCEPT ![c].at = IF build.status \in Terminal THEN "closed" ELSE "open",
                          ![c].shown = build.logs, ![c].last = Highest(build.logs)]
    /\ UNCHANGED <<mix, tvars, build, queue, archive, work, cancel, attached>>

ConsoleSubscribe(c) ==
    /\ con[c].at = "open"
    /\ con' = [con EXCEPT ![c].at = "tail"]
    /\ UNCHANGED <<mix, tvars, build, queue, archive, work, cancel, attached>>

\* BuildBroker.run and subscribeOnce: the goroutine the first subscriber
\* starts reaches Redis some time later, and again after the connection broke.
BrokerAttach ==
    /\ ~attached /\ \E c \in Consoles : con[c].at = "tail"
    /\ attached' = TRUE
    /\ UNCHANGED <<mix, tvars, build, queue, archive, work, cancel, con>>

BrokerDrop ==
    /\ mix.build.flaky /\ attached
    /\ attached' = FALSE
    /\ UNCHANGED <<mix, tvars, build, queue, archive, work, cancel, con>>

NeverCovered(c, ev) == FALSE

\* runStream: "Skip step events already covered by the history replay".
Covered(c, ev) == ev.type # "status" /\ ev.step <= con[c].last

ConsoleNext(c) ==
    LET ev == Head(con[c].buf)
        took == [con[c] EXCEPT !.buf = Tail(@)]
        ends == ev.type = "status" /\ ev.status \in Terminal
        next == IF Covered(c, ev)
                THEN [took EXCEPT !.skipped = @ \cup {ev.step}]
                ELSE CASE ends            -> [took EXCEPT !.at = "closed", !.buf = <<>>]
                       [] ev.type = "end" -> [took EXCEPT !.shown = Append(@, ev.step)]
                       [] OTHER           -> took IN
    /\ con[c].at = "tail" /\ con[c].buf # <<>>
    /\ con' = [con EXCEPT ![c] = next]
    \* The last subscriber to leave closes the broker's subscription.
    /\ attached' = (attached /\ \E d \in Consoles : con'[d].at = "tail")
    /\ UNCHANGED <<mix, tvars, build, queue, archive, work, cancel>>

ConsoleLeave(c) ==
    /\ mix.build.flaky /\ con[c].at = "tail"
    /\ con' = [con EXCEPT ![c].at = "closed", ![c].buf = <<>>]
    /\ attached' = (attached /\ \E d \in Consoles : con'[d].at = "tail")
    /\ UNCHANGED <<mix, tvars, build, queue, archive, work, cancel>>

-----------------------------------------------------------------------------

Worker ==
    \/ Dequeue \/ Fetch \/ MarkRunning \/ Provision \/ Upload \/ Parse
    \/ StepStart \/ ExecStep \/ Healthcheck \/ StepLog \/ StepPublish
    \/ Snapshot \/ Insert \/ UpdateBuildDefaults \/ MarkSuccess
    \/ DestroySandbox \/ FailBuild

Canceller == CancelRead \/ CancelMark \/ CancelSignal

Console(c) == ConsoleOpen(c) \/ ConsoleSubscribe(c) \/ ConsoleNext(c) \/ ConsoleLeave(c)

BuildsNext == mix.build # None /\ (Create \/ Canceller \/ Worker \/ Crash
                \/ BrokerAttach \/ BrokerDrop \/ \E c \in Consoles : Console(c))

Init == TemplatesInit /\ BuildsInit
Next == BuildsNext \/ (TemplatesNext /\ UNCHANGED <<mix, bvars>>)

\* The workers' loops and the requests run on; an agent call returns.
Fairness == WF_vars(BuildsNext /\ Worker) /\ WF_vars(mix.build # None /\ Canceller)

-----------------------------------------------------------------------------
(* Properties                                                              *)

TypeOK ==
    /\ build.status \in Terminal \cup {"none", "pending", "running"}
    /\ mix.build # None => build.step \in 0..TotalSteps
    /\ work.ctx \in Context
    /\ \A n \in Nodes : files[n] \subseteq Ids /\ used[n] \subseteq Ids
    /\ \A c \in Consoles : Len(con[c].buf) <= BufCap

\* A template is registered only after every phase of its build succeeded, the
\* healthcheck included, and with the user and the environment the recipe left
\* behind rather than those of the post-build phase (finalizeBuild runs after
\* runHealthcheck and the post-build phase).
TemplateVerified ==
    mix.build # None /\ build.status = "success" =>
        /\ build.ok /\ Len(build.logs) = Len(Phases)
        /\ build.defaults.user = (IF mix.build.root THEN "root" ELSE "wrenn-user")
        /\ "HOME" \notin DOMAIN build.defaults.env
        /\ (\E i \in DOMAIN Recipe : Recipe[i] = "ENV") =>
              build.defaults.env["APP"] = (IF mix.build.root THEN "/root" ELSE "/home")

\* When executeBuild returns, the sandbox the build ran in is destroyed: every
\* failure after provisioning goes through destroySandbox.
BuildVMGone == work.at = "done" => ~work.vm

\* A console shows the end of a step once: what the replay has shown, the live
\* tail skips (runStream's lastStep).
StepsOnce ==
    \A c \in Consoles : \A i, j \in DOMAIN con[c].shown :
        i # j => con[c].shown[i] # con[c].shown[j]

\* Every step the live tail skips was shown by the replay ("Skip step events
\* already covered by the history replay").
SkippedWereShown ==
    \A c \in Consoles : \A n \in con[c].skipped : \E i \in DOMAIN con[c].shown : con[c].shown[i] = n

\* A build a worker took ends in a terminal status when nobody cancels it, the
\* control plane stays up and its healthcheck has a retry budget.
BuildEnds ==
    (work.at = "fetch" /\ ~mix.build.cancel /\ ~mix.build.crash /\ mix.build.retries > 0)
        ~> (build.status \in Terminal)

\* A build that was cancelled stops, and its sandbox is destroyed, even when
\* its healthcheck would be retried for ever.
CancelEnds ==
    (cancel = "done" /\ build.status = "cancelled" /\ Registered /\ ~mix.build.crash) ~> (~Registered /\ ~work.vm)

\* A build ends with everything it promised: a verified template or none, and no
\* sandbox left behind (executeBuild).
BuildSound == TypeOK /\ TemplateVerified /\ BuildVMGone

\* Every build comes to an end, by itself or when it is cancelled (executeBuild,
\* BuildService.Cancel).
BuildSettles == BuildEnds /\ CancelEnds
=============================================================================
