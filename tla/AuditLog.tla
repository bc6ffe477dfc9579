------------------------------ MODULE AuditLog ------------------------------
(***************************************************************************)
(* The audit log: the rows AuditLogger inserts, and the cursor by which    *)
(* GET /v1/audit-logs is read page by page.  Time is counted in ticks; the *)
(* cursor a page hands out is a timestamp written with the layout RFC3339, *)
(* which keeps whole seconds only.                                         *)
(***************************************************************************)
EXTENDS Naturals, Sequences, SequencesExt

CONSTANTS None,
          Second,       \* ticks per second
          AuditMaxLimit \* auditMaxLimit, 200 in the code

VARIABLES log,          \* table audit_logs: sequence of rows in insertion order
          pages         \* [Calls -> what a client paging through the log has seen]

\* What a row says: its team, who acted, on what, and for whose eyes.
newEntry(team, actor, on, action, scope, op) ==
    [team |-> team, actor |-> actor, on |-> on, action |-> action, scope |-> scope, op |-> op]

\* created_at defaults to NOW(), id is random: here the ids descend, so that
\* no row's id happens to follow its time.
InsertAuditLog(l, e) == Append(l, [row |-> e, at |-> Len(l), id |-> 100 - Len(l)])

\* time.Format(time.RFC3339) and time.Parse of the result.
RFC3339(at) == at - (at % Second)

----------------------------------------------------------------------------
NoPage == [shown |-> <<>>, before |-> None, beforeID |-> None, asked |-> 0, ends |-> {}, over |-> FALSE]

ScopesOf(role) == IF role \in {"owner", "admin"} THEN {"team", "admin"} ELSE {"team"}

ListAuditLogs(q, before, beforeID, r) ==
    /\ r.row.team = q.team
    /\ r.row.scope \in ScopesOf(q.role)
    /\ (q.types = {} \/ r.row.on \in q.types)
    /\ before # None => (r.at < before \/ (r.at = before /\ r.id < beforeID))

Later(r, s) == r.at > s.at \/ (r.at = s.at /\ r.id > s.id)

\* The page: newest first, at most limit rows, the limit clamped by the service.
PageOf(q, before, beforeID) ==
    LET rows == SetToSortSeq({log[i] : i \in {j \in DOMAIN log : ListAuditLogs(q, before, beforeID, log[j])}}, Later)
        limit == IF q.limit > AuditMaxLimit THEN AuditMaxLimit ELSE q.limit
    IN  SubSeq(rows, 1, IF Len(rows) < limit THEN Len(rows) ELSE limit)

\* The cursor of the next request: the time of the page's last row, and its id.
writeAuditResponse(p, page) ==
    IF page = <<>> THEN [p EXCEPT !.over = TRUE]
    ELSE [p EXCEPT !.shown = @ \o page,
                   !.before = RFC3339(Last(page).at),
                   !.beforeID = Last(page).id,
                   !.ends = @ \union {Last(page).at}]

\* GET /v1/audit-logs of client c; a limit below one is refused, the client stops.
List(c, q) ==
    /\ ~pages[c].over
    /\ pages' = [pages EXCEPT ![c] =
           IF q.limit < 1 THEN [@ EXCEPT !.over = TRUE]
           ELSE writeAuditResponse([@ EXCEPT !.asked = IF @ = 0 THEN Len(log) ELSE @],
                                   PageOf(q, @.before, @.beforeID))]

----------------------------------------------------------------------------
Visible(q, r) == ListAuditLogs(q, None, None, r)

\* Every row the log held at the first request and the client may see has been shown.
AllShown(c, q) ==
    \A i \in 1 .. pages[c].asked : Visible(q, log[i]) => log[i] \in ToSet(pages[c].shown)
=============================================================================
