----------------------------- MODULE Templates -----------------------------
(***************************************************************************)
(* The template registry: rows of the templates table, the directories that *)
(* hold a template's files on the hosts, and the requests that create,      *)
(* publish, rename, launch and delete templates (pkg/service/template.go,   *)
(* internal/api/handlers_snapshots.go, handlers_builds.go, and the part of  *)
(* pkg/service/sandbox.go that resolves and registers templates).           *)
(*                                                                         *)
(* Several requests run at once; a step is one SQL statement or one agent   *)
(* call.  A request is described by the scenario (mix.calls): its kind, the *)
(* team that makes it, the name it gives and, where it needs them, a second *)
(* name, the owner a reference is qualified with, and the host it runs on.  *)
(***************************************************************************)
EXTENDS Naturals, FiniteSets

CONSTANTS
    Nodes,      \* hosts that may hold template files
    Ids,        \* template ids
    Names,      \* template names
    Teams,      \* teams other than the platform
    None

Platform == "platform"

VARIABLES
    mix,        \* the scenario: rows and files at the start, and the requests
    tmpl,       \* table templates: set of rows
    files,      \* files[n]: ids whose directory exists on host n
    used,       \* used[n]: ids of templates the sandboxes of host n run on
    up,         \* hosts.status = 'online'
    call,       \* progress of each request
    pub         \* pub[i]: the name template i was last published under

tvars == <<tmpl, files, used, up, call, pub>>

Row(i, team, name, public) == [id |-> i, team |-> team, name |-> name, public |-> public]

Calls == DOMAIN mix.calls
Kind(c) == mix.calls[c].kind
Team(c) == mix.calls[c].team
Name(c) == mix.calls[c].name

TemplatesInit ==
    /\ tmpl = mix.rows
    /\ files = mix.files
    /\ used = mix.used
    /\ up = [n \in Nodes |-> TRUE]
    /\ call = [c \in Calls |-> [at |-> "new", id |-> None, left |-> {}, node |-> None]]
    /\ pub = [i \in Ids |-> IF \E t \in mix.rows : t.id = i /\ t.public
                            THEN (CHOOSE t \in mix.rows : t.id = i).name ELSE None]

At(c, kind, at) == Kind(c) = kind /\ call[c].at = at

Goto(c, at) == call' = [call EXCEPT ![c].at = at]

-----------------------------------------------------------------------------
(* Statements of db/queries/templates.sql                                  *)

\* The row a statement that matches (team, name) acts on, as a set.
Owned(team, name) == {t \in tmpl : t.team = team /\ t.name = name}

\* Own team's row, else the platform's.
GetTemplateByTeam(team, name) ==
    IF Owned(team, name) # {} THEN Owned(team, name) ELSE Owned(Platform, name)

ResolveTemplateForTeam(team, name) == GetTemplateByTeam(team, name)

GetVisibleTemplateByTeamName(owner, name, team) ==
    {t \in Owned(owner, name) : t.public \/ t.team = Platform \/ t.team = team}

\* UNIQUE (team_id, name), and the trigger that reserves the platform's names,
\* which runs before every INSERT and every UPDATE of a team's row.
Admitted(row) ==
    /\ \A t \in tmpl : t.id # row.id => ~(t.team = row.team /\ t.name = row.name)
    /\ row.team # Platform => Owned(Platform, row.name) = {}

InsertTemplate(row) ==
    IF Admitted(row) THEN tmpl' = tmpl \cup {row} ELSE UNCHANGED tmpl

\* UPDATE ... SET name, is_public = FALSE WHERE id.
RenameTemplate(i, new) ==
    LET old == CHOOSE t \in tmpl : t.id = i
        row == [old EXCEPT !.name = new, !.public = FALSE] IN
    IF (\E t \in tmpl : t.id = i) /\ Admitted(row)
    THEN tmpl' = (tmpl \ {old}) \cup {row} ELSE UNCHANGED tmpl

\* UPDATE ... SET is_public WHERE team_id AND name.
SetTemplateVisibility(team, name, public) ==
    LET new == {[t EXCEPT !.public = public] : t \in Owned(team, name)} IN
    IF \A row \in new : Admitted(row)
    THEN /\ tmpl' = (tmpl \ Owned(team, name)) \cup new
         /\ pub' = [i \in Ids |-> IF public /\ \E row \in new : row.id = i THEN name ELSE pub[i]]
    ELSE UNCHANGED <<tmpl, pub>>

DeleteTemplate(i) == tmpl' = {t \in tmpl : t.id # i}

DeleteTemplateByTeam(team, name) == tmpl' = tmpl \ Owned(team, name)

-----------------------------------------------------------------------------
(* Snapshots of a sandbox, registered as a template                        *)

\* SandboxService.CreateSnapshot: a name the team can already see is refused.
SnapshotCheck(c) ==
    /\ At(c, "snapshot", "new")
    /\ Goto(c, IF GetTemplateByTeam(Team(c), Name(c)) = {} THEN "store" ELSE "done")
    /\ UNCHANGED <<tmpl, files, used, up, pub>>

\* snapshotInBackground: the agent writes the files under a fresh id ...
SnapshotStore(c) ==
    /\ At(c, "snapshot", "store")
    /\ \/ files' = [files EXCEPT ![mix.calls[c].node] = @ \cup {mix.calls[c].id}]
          /\ Goto(c, "insert")
       \/ Goto(c, "done") /\ UNCHANGED files
    /\ UNCHANGED <<tmpl, used, up, pub>>

\* ... and the row is inserted; a refused row leaves the files where they are.
SnapshotInsert(c) ==
    /\ At(c, "snapshot", "insert")
    /\ InsertTemplate(Row(mix.calls[c].id, Team(c), Name(c), FALSE))
    /\ Goto(c, "done")
    /\ UNCHANGED <<files, used, up, pub>>

-----------------------------------------------------------------------------
(* Visibility and names                                                    *)

SetVisibility(c) ==
    /\ At(c, "publish", "new") \/ At(c, "unpublish", "new")
    /\ SetTemplateVisibility(Team(c), Name(c), Kind(c) = "publish")
    /\ Goto(c, "done")
    /\ UNCHANGED <<files, used, up>>

\* The rename handlers look the template up by name and rename it by id; a
\* team's request that resolves to a platform template is refused.
RenameLookup(c) ==
    /\ At(c, "rename", "new")
    /\ \E t \in GetTemplateByTeam(Team(c), Name(c)) \cup {None} :
        /\ t = None => GetTemplateByTeam(Team(c), Name(c)) = {}
        /\ call' = [call EXCEPT ![c] =
             IF t = None \/ (t.team = Platform /\ Team(c) # Platform)
             THEN [@ EXCEPT !.at = "done"] ELSE [@ EXCEPT !.at = "write", !.id = t.id]]
    /\ UNCHANGED <<tmpl, files, used, up, pub>>

Rename(c) ==
    /\ At(c, "rename", "write")
    /\ RenameTemplate(call[c].id, mix.calls[c].to)
    /\ Goto(c, "done")
    /\ UNCHANGED <<files, used, up, pub>>

-----------------------------------------------------------------------------
(* Launching from a template                                               *)

\* resolveTemplateRef: an unqualified name is the team's own or the platform's;
\* a qualified one must be visible to the team.
resolveTemplateRef(c) ==
    IF mix.calls[c].owner = None THEN ResolveTemplateForTeam(Team(c), Name(c))
    ELSE GetVisibleTemplateByTeamName(mix.calls[c].owner, Name(c), Team(c))

LaunchResolve(c) ==
    /\ At(c, "launch", "new")
    /\ call' = [call EXCEPT ![c] =
         IF resolveTemplateRef(c) = {} THEN [@ EXCEPT !.at = "done"]
         ELSE [@ EXCEPT !.at = "start", !.id = (CHOOSE t \in resolveTemplateRef(c) : TRUE).id]]
    /\ UNCHANGED <<tmpl, files, used, up, pub>>

\* The agent opens the files it finds ...
LaunchOpen(c) ==
    /\ At(c, "launch", "start")
    /\ Goto(c, IF call[c].id \in files[mix.calls[c].node] THEN "register" ELSE "done")
    /\ UNCHANGED <<tmpl, files, used, up, pub>>

\* ... and registers the sandbox once its VM runs.
LaunchRegister(c) ==
    /\ At(c, "launch", "register")
    /\ used' = [used EXCEPT ![mix.calls[c].node] = @ \cup {call[c].id}]
    /\ Goto(c, "done")
    /\ UNCHANGED <<tmpl, files, up, pub>>

-----------------------------------------------------------------------------
(* Deletion                                                                *)

\* Delete and DeleteTemplate: the template is looked up by name (a platform
\* template only by an administrator), then the active hosts are listed.
DeleteLookup(c) ==
    /\ At(c, "delete", "new")
    /\ \E t \in GetTemplateByTeam(Team(c), Name(c)) \cup {None} :
        /\ t = None => GetTemplateByTeam(Team(c), Name(c)) = {}
        /\ call' = [call EXCEPT ![c] =
             IF t = None \/ (t.team = Platform /\ Team(c) # Platform)
             THEN [@ EXCEPT !.at = "done"]
             ELSE [@ EXCEPT !.at = "files", !.id = t.id, !.left = {<<n, up[n]>> : n \in Nodes}]]
    /\ UNCHANGED <<tmpl, files, used, up, pub>>

\* Manager.DeleteSnapshot, its first half: a template some sandbox of the host
\* runs on is refused.
InUse(n, i) == i \in used[n]

AskHostSkip(c) ==
    \E h \in call[c].left :
        call' = [call EXCEPT ![c] =
            IF h[2] /\ up[h[1]] /\ ~InUse(h[1], call[c].id)
            THEN [@ EXCEPT !.at = "remove", !.left = @ \ {h}, !.node = h[1]]
            ELSE [@ EXCEPT !.left = @ \ {h}]]

\* deleteSnapshotEverywhere: host by host; a host listed as not online, one
\* that does not answer, or one that refuses, ends the request.
AskHost(c) ==
    \E h \in call[c].left :
        call' = [call EXCEPT ![c] =
            IF h[2] /\ up[h[1]] /\ ~InUse(h[1], call[c].id)
            THEN [@ EXCEPT !.at = "remove", !.left = @ \ {h}, !.node = h[1]]
            ELSE [@ EXCEPT !.at = "done"]]

DeleteAsk(c) ==
    /\ At(c, "delete", "files") /\ call[c].left # {}
    /\ AskHost(c)
    /\ UNCHANGED <<tmpl, files, used, up, pub>>

\* Manager.DeleteSnapshot, its second half, outside the lock: the directory goes.
DeleteSnapshot(c) ==
    /\ At(c, "delete", "remove")
    /\ files' = [files EXCEPT ![call[c].node] = @ \ {call[c].id}]
    /\ Goto(c, "files")
    /\ UNCHANGED <<tmpl, used, up, pub>>

\* The row: by name for a team, by id for an administrator.
DeleteRow(c) ==
    /\ At(c, "delete", "files") /\ call[c].left = {}
    /\ IF Team(c) = Platform THEN DeleteTemplate(call[c].id)
       ELSE DeleteTemplateByTeam(Team(c), Name(c))
    /\ Goto(c, "done")
    /\ UNCHANGED <<files, used, up, pub>>

\* A host stops answering and the monitor marks it, or it comes back.
HostFlaps(n) ==
    /\ mix.flaps
    /\ up' = [up EXCEPT ![n] = ~@]
    /\ UNCHANGED <<tmpl, files, used, call, pub>>

TemplatesNext ==
    \/ \E c \in Calls :
        \/ SnapshotCheck(c) \/ SnapshotStore(c) \/ SnapshotInsert(c)
        \/ SetVisibility(c) \/ RenameLookup(c) \/ Rename(c)
        \/ LaunchResolve(c) \/ LaunchOpen(c) \/ LaunchRegister(c)
        \/ DeleteLookup(c) \/ DeleteAsk(c) \/ DeleteSnapshot(c) \/ DeleteRow(c)
    \/ \E n \in Nodes : HostFlaps(n)

-----------------------------------------------------------------------------
(* Properties                                                              *)

\* A public template is public under the name its owner published: renaming
\* clears the flag (RenameTemplate), so a "<slug>/<name>" another team kept
\* never comes to mean a template that was published as something else.
PublishedByName == \A t \in tmpl : t.public => pub[t.id] = t.name

\* The row of a template outlives its files: files on a host that no row
\* describes belong to a request that is still on its way to insert the row or
\* whose insert was refused, never to a template whose deletion was reported
\* (deleteSnapshotEverywhere asks every host before the row goes).
NoOrphanFiles ==
    \A c \in Calls : Kind(c) = "delete" /\ call[c].at = "done" =>
        \A n \in Nodes : call[c].id \in files[n] => \E t \in tmpl : t.id = call[c].id

\* A sandbox never loses the files of the template it runs on
\* (Manager.DeleteSnapshot refuses a template in use).
UsedFilesKept == \A n \in Nodes : used[n] \subseteq files[n]

\* Rows and files of the templates agree, with the names they were published
\* under and with the sandboxes that run on them (handlers_snapshots.go).
RegistrySound == PublishedByName /\ NoOrphanFiles /\ UsedFilesKept
============================================================================
