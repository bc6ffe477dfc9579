----------------------------- MODULE Sessions -----------------------------
(***************************************************************************)
(* Browser sessions (pkg/auth/session and its middleware): rows of the       *)
(* sessions table, which live until an absolute cap, and the Redis cache in  *)
(* front of it, whose entries lapse after an idle window that every request  *)
(* slides.                                                                  *)
(*                                                                         *)
(* Requests run concurrently; a step is one SQL statement or one Redis       *)
(* command.  Time is counted in ticks.  A request is described by the        *)
(* scenario (mix.calls); a Redis command may fail when mix.flaky, and the    *)
(* code goes on when it does.                                               *)
(***************************************************************************)
EXTENDS Naturals, FiniteSets

CONSTANTS
    Users,      \* user ids
    Teams,      \* team ids
    Sids,       \* session ids, in the order of their random draw
    Idle,       \* IdleWindow, in ticks
    Cap,        \* AbsoluteTTL, in ticks
    MaxNow,     \* bound: the last instant considered
    None

ASSUME SessionsAssumption == Idle \in Nat \ {0} /\ Cap \in Nat \ {0} /\ MaxNow \in Nat /\ None \notin Users \cup Teams

VARIABLES
    mix,        \* the scenario
    now,        \* the clock
    user,       \* table users: user[u] is None or the row
    member,     \* table users_teams: member[u][t] is the role, or None
    row,        \* table sessions: row[s] is None or the row
    cache,      \* Redis: cache[s] is None or the entry and when it lapses
    born,       \* born[s]: when session s was created, or None
    issued,     \* sessions whose cookie reached a browser
    call        \* progress of each request

svars == <<now, row, cache, born, issued>>

Calls == DOMAIN mix.calls
Arg(c) == mix.calls[c]

At(c, at) == call[c].at = at
Goto(c, at) == call' = [call EXCEPT ![c].at = at]
Starts(c, kind) == Arg(c).kind = kind /\ At(c, "new") /\ \A d \in Arg(c).after : At(d, "done")

SessionsInit ==
    /\ now = 0
    /\ row = [s \in Sids |-> None]
    /\ cache = [s \in Sids |-> None]
    /\ born = [s \in Sids |-> None]
    /\ issued = {}
    /\ call = [c \in Calls |-> [at |-> "new", now |-> 0, sid |-> None, ids |-> {}, user |-> None,
                                team |-> None, todo |-> {}, sess |-> None, seen |-> None]]

\* A best-effort Redis command: it takes effect, or it fails and is logged.
BestEffort(effect, var) == \/ effect
                           \/ mix.flaky /\ UNCHANGED var

-----------------------------------------------------------------------------
(* Statements of db/queries/sessions.sql                                    *)

InsertSession(s, u, t) == row' = [row EXCEPT ![s] = [user |-> u, team |-> t, exp |-> now + Cap]]

DeleteSession(s) == row' = [row EXCEPT ![s] = None]

SessionsOf(u) == {s \in Sids : row[s] # None /\ row[s].user = u}

DeleteSessionsByUserID(u) == row' = [s \in Sids |-> IF s \in SessionsOf(u) THEN None ELSE row[s]]

DeleteExpiredSessions == row' = [s \in Sids |-> IF row[s] # None /\ row[s].exp < now THEN None ELSE row[s]]

-----------------------------------------------------------------------------
(* The cache                                                               *)

Lower(a, b) == IF a <= b THEN a ELSE b

\* SET with a lifetime of an idle window, or what is left until the cap.
writeCache(s, sess) ==
    IF sess.exp <= now THEN UNCHANGED cache
    ELSE cache' = [cache EXCEPT ![s] = [user |-> sess.user, team |-> sess.team, exp |-> sess.exp,
                                        until |-> Lower(now + Idle, sess.exp)]]

\* EXPIRE: the key, if it is still there, gets a new lifetime.
slideIdle(s) ==
    IF cache[s].exp <= now THEN UNCHANGED cache
    ELSE cache' = [cache EXCEPT ![s].until = Lower(now + Idle, cache[s].exp)]

\* DEL of several keys.
Del(ids) == cache' = [s \in Sids |-> IF s \in ids THEN None ELSE cache[s]]

-----------------------------------------------------------------------------
(* Get, for a request that presents the cookie of session s                 *)

\* The cache holds the session: it is past the cap, and revoked, or it is
\* accepted as it stands.
GetCache(c) ==
    /\ Starts(c, "request")
    /\ \E s \in issued :
        \/ /\ cache[s] = None \/ mix.flaky
           /\ call' = [call EXCEPT ![c].at = "row", ![c].sid = s, ![c].now = now]
           /\ UNCHANGED cache
        \/ /\ cache[s] # None
           /\ call' = [call EXCEPT ![c].at = IF now > cache[s].exp THEN "unset" ELSE "accepted",
                                   ![c].sid = s, ![c].now = now, ![c].sess = cache[s]]
           /\ IF now > cache[s].exp THEN UNCHANGED cache ELSE BestEffort(slideIdle(s), cache)
    /\ UNCHANGED <<mix, user, member, now, row, born, issued>>

\* The row, read after a miss: absent, past the cap (and deleted), or used.
GetRow(c) ==
    /\ Arg(c).kind = "request" /\ At(c, "row")
    /\ LET s == call[c].sid IN
        IF row[s] = None THEN Goto(c, "done") /\ UNCHANGED row
        ELSE IF call[c].now > row[s].exp THEN Goto(c, "done") /\ DeleteSession(s)
        ELSE call' = [call EXCEPT ![c].at = "hydrate", ![c].sess = row[s]] /\ UNCHANGED row
    /\ UNCHANGED <<mix, user, member, now, cache, born, issued>>

\* hydrateFromDB: the account must be active; a team the user no longer
\* belongs to is stripped from the session.
GetHydrate(c) ==
    /\ Arg(c).kind = "request" /\ At(c, "hydrate")
    /\ LET u == call[c].sess.user
           t == call[c].sess.team IN
        IF user[u] = None \/ user[u].status # "active" THEN Goto(c, "done")
        ELSE call' = [call EXCEPT ![c].at = "cache",
                                  ![c].sess.team = IF t # None /\ member[u][t] # None THEN t ELSE None]
    /\ UNCHANGED <<mix, user, member, svars>>

GetWrite(c) ==
    /\ Arg(c).kind = "request" /\ At(c, "cache")
    /\ BestEffort(writeCache(call[c].sid, call[c].sess), cache)
    /\ Goto(c, "accepted")
    /\ UNCHANGED <<mix, user, member, now, row, born, issued>>

-----------------------------------------------------------------------------
(* Create, Revoke, Rotate, RevokeAllForUser, InvalidateCacheForUser: the    *)
(* tails that the handlers reach                                           *)

\* Create: a row, then the cache entry, then the cookie.
CreateRow(c) ==
    /\ At(c, "create")
    /\ now + Cap < MaxNow
    /\ \E s \in Sids :
        /\ born[s] = None /\ \A r \in Sids : r < s => born[r] # None
        /\ InsertSession(s, call[c].user, call[c].team)
        /\ born' = [born EXCEPT ![s] = now]
        /\ call' = [call EXCEPT ![c].at = "cookie", ![c].sid = s,
                                ![c].sess = [user |-> call[c].user, team |-> call[c].team, exp |-> now + Cap]]
    /\ UNCHANGED <<mix, user, member, now, cache, issued>>

CreateCookie(c) ==
    /\ At(c, "cookie")
    /\ BestEffort(writeCache(call[c].sid, call[c].sess), cache)
    /\ issued' = issued \cup {call[c].sid}
    /\ Goto(c, "done")
    /\ UNCHANGED <<mix, user, member, now, row, born>>

\* revokeByHash: the cache entry first, then the row.  Rotate goes on to Create.
RevokeKey(c) ==
    /\ At(c, "unset")
    /\ BestEffort(Del({call[c].sid}), cache)
    /\ Goto(c, "unrow")
    /\ UNCHANGED <<mix, user, member, now, row, born, issued>>

RevokeRow(c) ==
    /\ At(c, "unrow")
    /\ DeleteSession(call[c].sid)
    /\ Goto(c, IF Arg(c).kind = "switch" THEN "create" ELSE "done")
    /\ UNCHANGED <<mix, user, member, now, cache, born, issued>>

\* RevokeAllForUser: DELETE ... RETURNING id, then DEL of those keys.
RevokeAll(c) ==
    /\ At(c, "revokeall")
    /\ DeleteSessionsByUserID(call[c].user)
    /\ call' = [call EXCEPT ![c].at = "drop", ![c].ids = SessionsOf(call[c].user)]
    /\ UNCHANGED <<mix, user, member, now, cache, born, issued>>

\* InvalidateCacheForUser lists the rows and leaves them.
Invalidate(c) ==
    /\ At(c, "invalidate")
    /\ call' = [call EXCEPT ![c].at = "drop", ![c].ids = SessionsOf(call[c].user)]
    /\ UNCHANGED <<mix, user, member, svars>>

DropKeys(c) ==
    /\ At(c, "drop")
    /\ BestEffort(Del(call[c].ids), cache)
    /\ Goto(c, "done")
    /\ UNCHANGED <<mix, user, member, now, row, born, issued>>

\* A request with a session of user Arg(c).user: Logout, DeleteForUser (the
\* sessions page), LogoutAll.
LogoutBegin(c) ==
    /\ \E s \in issued :
        /\ born[s] # None
        /\ \/ Starts(c, "logout") /\ call' = [call EXCEPT ![c].at = "unset", ![c].sid = s]
           \/ Starts(c, "logoutAll") /\ call' = [call EXCEPT ![c].at = "revokeall", ![c].user = Arg(c).user]
    /\ UNCHANGED <<mix, user, member, svars>>

-----------------------------------------------------------------------------
(* The clock: a tick passes and Redis drops what lapsed.  The              *)
(* cleaner removes rows past the cap.                                       *)

Tick ==
    /\ mix.clock /\ now < MaxNow
    /\ now' = now + 1
    /\ cache' = [s \in Sids |-> IF cache[s] # None /\ cache[s].until <= now' THEN None ELSE cache[s]]
    /\ UNCHANGED <<mix, user, member, row, born, issued, call>>

NoCleaner == UNCHANGED <<mix, user, member, svars, call>>

StartCleaner ==
    /\ \E s \in Sids : row[s] # None /\ row[s].exp < now
    /\ DeleteExpiredSessions
    /\ UNCHANGED <<mix, user, member, now, cache, born, issued, call>>

\* The steps of a request that is under way.
Underway(c) ==
    \/ GetRow(c) \/ GetHydrate(c) \/ GetWrite(c)
    \/ CreateRow(c) \/ CreateCookie(c) \/ RevokeKey(c) \/ RevokeRow(c)
    \/ RevokeAll(c) \/ Invalidate(c) \/ DropKeys(c)

SessionStep(c) == GetCache(c) \/ LogoutBegin(c) \/ Underway(c)

-----------------------------------------------------------------------------
(* Properties                                                              *)

\* No request that begins later than the absolute cap after the login is
\* accepted, whatever requests, logouts and revocations run at the same time
\* and whichever of the two stores the session was found in (session.go, Get).
AbsoluteCap ==
    \A c \in Calls :
        Arg(c).kind = "request" /\ At(c, "accepted") => call[c].now <= born[call[c].sid] + Cap

\* Every session ends: from some moment on it is neither in Redis nor in the
\* table, even one that a request put back into Redis after its revocation
\* (writeCache's lifetime and StartCleaner).
SessionEnds == \A s \in Sids : mix.clock /\ born[s] # None ~> [](cache[s] = None /\ row[s] = None)
=============================================================================
