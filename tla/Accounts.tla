----------------------------- MODULE Accounts -----------------------------
(***************************************************************************)
(* Accounts and teams: signup, activation, login by password and by OAuth,   *)
(* password resets, linked identities, administrators, teams with their      *)
(* members, slugs and API keys, and the deletion of teams and accounts       *)
(* (internal/api/handlers_auth.go, handlers_me.go, handlers_oauth.go,        *)
(* handlers_users.go, pkg/service/team.go, user.go, apikey.go).  Sessions     *)
(* supplies the tails in which a handler creates or revokes sessions.        *)
(*                                                                         *)
(* A step is one SQL statement or transaction, one Redis command or one      *)
(* agent call.  Each team has one capsule (box) with one volume (vol).       *)
(* Slugs and tombstones run on a second clock that counts 30-day months.     *)
(***************************************************************************)
EXTENDS Sessions

CONSTANTS
    Emails,     \* email addresses
    Idents,     \* accounts at the OAuth provider
    Slugs,      \* team slugs
    Reserve,    \* slug tombstone, in months (30 days)
    Cooldown,   \* time between two slug changes of a team, in months (60 days)
    MaxMonth    \* bound: the last month considered

ASSUME AccountsAssumption == Reserve \in Nat /\ Cooldown \in Nat /\ MaxMonth \in Nat

VARIABLES
    link,       \* table oauth_providers: link[i] is the user of identity i, or None
    team,       \* table teams: team[t] is None or the row
    keys,       \* table team_api_keys: pairs <<team, creator>>
    reserved,   \* table reserved_slugs: reserved[g] is None or [by, till]
    gave,       \* gave[g]: who last gave slug g up and until when it is parked (history)
    month,
    token,      \* one-shot tokens in Redis
    mailed,     \* one-shot tokens that were mailed
    spent,      \* <<request, token>>: a request that took the token and used it
    box,        \* box[t]: status of the team's sandbox row, or None
    vm,         \* teams whose virtual machine runs on the host
    vol         \* vol[t]: status of the team's volume row, or None

avars == <<link, team, keys, reserved, gave, month, token, mailed, spent, box, vm, vol>>
vars == <<mix, user, member, svars, call, avars>>

Live(t) == team[t] # None /\ ~team[t].deleted
Exists(u) == user[u] # None /\ user[u].status # "deleted"
MembersOf(t) == {u \in Users : member[u][t] # None}

AccountsInit ==
    /\ SessionsInit
    /\ user = mix.user /\ member = mix.member /\ link = mix.link /\ team = mix.team
    /\ keys = mix.keys
    /\ reserved = [g \in Slugs |-> None] /\ gave = reserved
    /\ month = 0
    /\ token = {} /\ mailed = {} /\ spent = {}
    /\ box = mix.box /\ vm = {t \in Teams : box[t] = "running"}
    /\ vol = [t \in Teams |-> IF box[t] = "running" THEN "attached" ELSE None]

\* What the steps of this module leave alone.
Sess == <<mix, now, row, cache, born, issued>>
TeamVars == <<team, keys, reserved, gave, month, box, vm, vol>>
TokenVars == <<token, mailed, spent>>

-----------------------------------------------------------------------------
(* Statements of db/queries/users.sql, oauth.sql, teams.sql                 *)

GetUserByEmail(e) == {u \in Users : Exists(u) /\ user[u].email = e}

\* users.email is unique, the rows of deleted accounts included.
EmailFree(e) == \A u \in Users : user[u] = None \/ user[u].email # e

CountActiveUsers == Cardinality({u \in Users : user[u] # None /\ user[u].status = "active"})
CountUsers == Cardinality({u \in Users : user[u] # None})

\* Ids are random and never used again; they are taken in order here.
FreshUser(u) ==
    LET gone == {m.user : m \in mailed} IN
    /\ user[u] = None /\ u \notin gone
    /\ \A x \in Users : x < u => user[x] # None \/ x \in gone

NewUser(e, status, pw) ==
    [email |-> e, status |-> status, admin |-> FALSE, pw |-> pw, old |-> FALSE, billed |-> FALSE]

SetUserStatus(u, status) == user' = [user EXCEPT ![u] = IF @ = None THEN None ELSE [@ EXCEPT !.status = status]]

\* ON DELETE CASCADE: memberships, sessions and identities go with the row; the
\* user's keys stay, without a creator.
HardDeleteUser(u) ==
    /\ user' = [user EXCEPT ![u] = None]
    /\ member' = [member EXCEPT ![u] = [t \in Teams |-> None]]
    /\ link' = [i \in Idents |-> IF link[i] = u THEN None ELSE link[i]]
    /\ keys' = {<<k[1], IF k[2] = u THEN None ELSE k[2]>> : k \in keys}
    /\ row' = [s \in Sids |-> IF s \in SessionsOf(u) THEN None ELSE row[s]]

GetTeamBySlug(g) == {t \in Teams : Live(t) /\ team[t].slug = g}

GetActiveReservedSlug(g) == reserved[g] # None /\ reserved[g].till > month

\* teams.slug is unique, deleted teams included.
SlugFree(g) == \A t \in Teams : team[t] = None \/ team[t].slug # g

CountUserOwnedTeamsWithOtherMembers(u) ==
    Cardinality({t \in Teams : member[u][t] = "owner" /\ MembersOf(t) # {u}})

ListSoleOwnedTeams(u) == {t \in Teams : member[u][t] = "owner" /\ Live(t) /\ MembersOf(t) = {u}}

GetOwnedTeamIDs(u) == {t \in Teams : member[u][t] = "owner" /\ Live(t)}

\* InsertTeam and InsertTeamMember in one transaction; a generated slug is new.
InsertOwnedTeam(u, t) ==
    /\ team[t] = None /\ \A x \in Teams : x < t => team[x] # None
    /\ team' = [team EXCEPT ![t] = [slug |-> None, deleted |-> FALSE, changed |-> None]]
    /\ member' = [member EXCEPT ![u][t] = "owner"]

-----------------------------------------------------------------------------
(* Signup and activation                                                   *)

\* An email that waits for its activation is released after the cooldown.
SignupLookup(c) ==
    /\ Starts(c, "signup")
    /\ LET found == GetUserByEmail(Arg(c).email) IN
        IF found = {} THEN Goto(c, "insert") /\ UNCHANGED <<user, member, link, keys, row>>
        ELSE LET u == CHOOSE x \in found : TRUE IN
            IF user[u].status = "inactive" /\ user[u].old
            THEN Goto(c, "insert") /\ HardDeleteUser(u)
            ELSE Goto(c, "done") /\ UNCHANGED <<user, member, link, keys, row>>
    /\ UNCHANGED <<mix, now, cache, born, issued, team, reserved, gave, month, box, vm, vol, TokenVars>>

InsertUserInactive(c) ==
    /\ Arg(c).kind = "signup" /\ At(c, "insert")
    /\ IF EmailFree(Arg(c).email)
       THEN \E u \in Users : /\ FreshUser(u)
                             /\ user' = [user EXCEPT ![u] = NewUser(Arg(c).email, "inactive", TRUE)]
                             /\ call' = [call EXCEPT ![c].at = "mail", ![c].user = u]
       ELSE Goto(c, "done") /\ UNCHANGED user
    /\ UNCHANGED <<Sess, member, link, TeamVars, TokenVars>>

\* RequestPasswordReset: the account must be active.
RequestPasswordReset(c) ==
    /\ Starts(c, "forgot")
    /\ LET found == {u \in GetUserByEmail(Arg(c).email) : user[u].status = "active"} IN
        IF found = {} THEN Goto(c, "done")
        ELSE call' = [call EXCEPT ![c].at = "mail", ![c].user = CHOOSE u \in found : TRUE]
    /\ UNCHANGED <<Sess, user, member, link, TeamVars, TokenVars>>

\* The token is stored in Redis, then mailed; if Redis fails the request does.
SendToken(c) ==
    /\ At(c, "mail")
    /\ LET tok == [kind |-> Arg(c).kind, user |-> call[c].user, by |-> c] IN
        \/ token' = token \cup {tok} /\ mailed' = mailed \cup {tok}
        \/ mix.flaky /\ UNCHANGED <<token, mailed>>
    /\ Goto(c, "done")
    /\ UNCHANGED <<Sess, user, member, link, TeamVars, spent>>

TokensExpire ==
    /\ token # {} /\ token' = {}
    /\ UNCHANGED <<Sess, user, member, call, link, TeamVars, mailed, spent>>

SignupCools ==
    /\ \E u \in Users : /\ user[u] # None /\ user[u].status = "inactive" /\ ~user[u].old
                        /\ user' = [user EXCEPT ![u].old = TRUE]
    /\ UNCHANGED <<Sess, member, call, avars>>

\* GETDEL: one command reads and removes the token.
GetDelToken(tok) == tok \in token /\ token' = token \ {tok}

\* Activate and ConfirmPasswordReset begin by taking the token of a mail.
TakeToken(c) ==
    /\ \E tok \in mailed :
        /\ Starts(c, IF tok.kind = "signup" THEN "activate" ELSE "reset")
        /\ \/ GetDelToken(tok) /\ call' = [call EXCEPT ![c].at = "token", ![c].user = tok.user, ![c].seen = tok]
           \/ tok \notin token /\ Goto(c, "done") /\ UNCHANGED token
    /\ UNCHANGED <<Sess, user, member, link, TeamVars, mailed, spent>>

ActivateCheck(c) ==
    /\ Arg(c).kind = "activate" /\ At(c, "token")
    /\ Goto(c, IF user[call[c].user] # None /\ user[call[c].user].status = "inactive" THEN "set" ELSE "done")
    /\ UNCHANGED <<Sess, user, member, avars>>

ActivateSet(c) ==
    /\ Arg(c).kind = "activate" /\ At(c, "set")
    /\ SetUserStatus(call[c].user, "active")
    /\ spent' = spent \cup {<<c, call[c].seen>>}
    /\ Goto(c, "team")
    /\ UNCHANGED <<Sess, member, link, TeamVars, token, mailed>>

\* ConfirmPasswordReset: the account exists; the password, then every session.
ConfirmPasswordReset(c) ==
    /\ Arg(c).kind = "reset" /\ At(c, "token")
    /\ LET u == call[c].user IN
        IF Exists(u)
        THEN /\ user' = [user EXCEPT ![u].pw = TRUE]
             /\ spent' = spent \cup {<<c, call[c].seen>>}
             /\ Goto(c, "revokeall")
        ELSE Goto(c, "done") /\ UNCHANGED <<user, spent>>
    /\ UNCHANGED <<Sess, member, link, TeamVars, token, mailed>>

-----------------------------------------------------------------------------
(* Login                                                                   *)

Login(c) ==
    /\ Starts(c, "login")
    /\ LET u == Arg(c).user IN
        IF Exists(u) /\ user[u].pw /\ user[u].status = "active"
        THEN call' = [call EXCEPT ![c].at = "team", ![c].user = u]
        ELSE Goto(c, "done")
    /\ UNCHANGED <<Sess, user, member, avars>>

\* ensureDefaultTeam: loginTeam finds a live team of the user, or there is none.
LoginTeam(c) ==
    /\ At(c, "team")
    /\ LET u == call[c].user
           mine == {t \in Teams : Live(t) /\ member[u][t] # None} IN
        IF mine # {} THEN \E t \in mine : call' = [call EXCEPT ![c].at = "hook", ![c].team = t]
        ELSE Goto(c, "newteam")
    /\ UNCHANGED <<Sess, user, member, avars>>

\* ... then one is created in a transaction; the first active user becomes
\* administrator.  A user deleted meanwhile fails the foreign key.
EnsureDefaultTeam(c) ==
    /\ At(c, "newteam")
    /\ LET u == call[c].user IN
        IF user[u] = None THEN Goto(c, "done") /\ UNCHANGED <<user, team, member>>
        ELSE \E t \in Teams :
            /\ InsertOwnedTeam(u, t)
            /\ user' = [user EXCEPT ![u].admin = @ \/ CountActiveUsers = 1]
            /\ call' = [call EXCEPT ![c].at = "hook", ![c].team = t]
    /\ UNCHANGED <<Sess, link, keys, reserved, gave, month, box, vm, vol, TokenVars>>

\* fireOnSignup, for a new account; an error ends the request.
SignupHook(c) ==
    /\ At(c, "hook")
    /\ IF Arg(c).kind = "activate" \/ call[c].seen = "registered"
       THEN \/ /\ user[call[c].user] # None
               /\ user' = [user EXCEPT ![call[c].user].billed = TRUE]
               /\ Goto(c, "create")
            \/ mix.flaky /\ Goto(c, "done") /\ UNCHANGED user
       ELSE Goto(c, "create") /\ UNCHANGED user
    /\ UNCHANGED <<Sess, member, avars>>

\* The OAuth callback: link to the signed-in user, log in, or register.
CallbackLookup(c) ==
    /\ Starts(c, "oauth")
    /\ LET i == Arg(c).ident
           u == link[i] IN
        CASE Arg(c).intent = "link" -> Goto(c, IF u = None THEN "link" ELSE "done")
          [] Arg(c).intent # "link" /\ u # None ->
                IF Exists(u) /\ user[u].status = "active"
                THEN call' = [call EXCEPT ![c].at = "team", ![c].user = u] ELSE Goto(c, "done")
          [] Arg(c).intent = "login" /\ u = None -> Goto(c, "done")
          [] OTHER -> Goto(c, "email")
    /\ UNCHANGED <<Sess, user, member, avars>>

\* The primary key refuses an identity that was linked meanwhile.
InsertOAuthProvider(c) ==
    /\ Arg(c).kind = "oauth" /\ At(c, "link")
    /\ IF link[Arg(c).ident] = None /\ user[Arg(c).user] # None
       THEN link' = [link EXCEPT ![Arg(c).ident] = Arg(c).user] ELSE UNCHANGED link
    /\ Goto(c, "done")
    /\ UNCHANGED <<Sess, user, member, TeamVars, TokenVars>>

\* An unactivated signup gives way to the provider's word for the email.
CallbackEmail(c) ==
    /\ Arg(c).kind = "oauth" /\ At(c, "email")
    /\ LET found == GetUserByEmail(Arg(c).email) IN
        IF found = {} THEN Goto(c, "register") /\ UNCHANGED <<user, member, link, keys, row>>
        ELSE LET u == CHOOSE x \in found : TRUE IN
            IF user[u].status = "inactive"
            THEN Goto(c, "register") /\ HardDeleteUser(u)
            ELSE Goto(c, "done") /\ UNCHANGED <<user, member, link, keys, row>>
    /\ UNCHANGED <<mix, now, cache, born, issued, team, reserved, gave, month, box, vm, vol, TokenVars>>

\* User, team, membership and identity in one transaction.  An email taken
\* meanwhile means another request registered it: retry as a login.
CallbackRegister(c) ==
    /\ Arg(c).kind = "oauth" /\ At(c, "register")
    /\ LET i == Arg(c).ident IN
        IF ~EmailFree(Arg(c).email)
        THEN /\ IF link[i] # None /\ Exists(link[i]) /\ user[link[i]].status = "active"
                THEN call' = [call EXCEPT ![c].at = "team", ![c].user = link[i]]
                ELSE Goto(c, "done")
             /\ UNCHANGED <<user, link, team, member>>
        ELSE IF link[i] # None THEN Goto(c, "done") /\ UNCHANGED <<user, link, team, member>>
        ELSE \E u \in Users, t \in Teams :
            /\ FreshUser(u)
            /\ user' = [user EXCEPT ![u] = [NewUser(Arg(c).email, "active", FALSE) EXCEPT !.admin = CountUsers = 0]]
            /\ InsertOwnedTeam(u, t)
            /\ link' = [link EXCEPT ![i] = u]
            /\ call' = [call EXCEPT ![c].at = "hook", ![c].user = u, ![c].team = t, ![c].seen = "registered"]
    /\ UNCHANGED <<Sess, keys, reserved, gave, month, box, vm, vol, TokenVars>>

\* SwitchTeam: a live team the user belongs to; Rotate replaces the session.
SwitchTeam(c) ==
    /\ Starts(c, "switch")
    /\ LET u == Arg(c).user
           t == Arg(c).team IN
        \E s \in issued :
            /\ row[s] # None /\ row[s].user = u
            /\ IF Live(t) /\ member[u][t] # None /\ Exists(u)
               THEN call' = [call EXCEPT ![c].at = "unset", ![c].sid = s, ![c].user = u, ![c].team = t]
               ELSE Goto(c, "done")
    /\ UNCHANGED <<Sess, user, member, avars>>

-----------------------------------------------------------------------------
(* The signed-in user's own account                                        *)

ChangePassword(c) ==
    /\ Starts(c, "password")
    /\ LET u == Arg(c).user IN
        IF Exists(u)
        THEN /\ user' = [user EXCEPT ![u].pw = TRUE]
             /\ call' = [call EXCEPT ![c].at = "revokeall", ![c].user = u]
        ELSE Goto(c, "done") /\ UNCHANGED user
    /\ UNCHANGED <<Sess, member, avars>>

\* UpdateName drops the cached copies of the name.
UpdateName(c) ==
    /\ Starts(c, "name")
    /\ call' = [call EXCEPT ![c].at = "invalidate", ![c].user = Arg(c).user]
    /\ UNCHANGED <<Sess, user, member, avars>>

Linked(u) == {i \in Idents : link[i] = u}

\* A user without a password keeps one identity.
DisconnectAllowed(u) == Exists(u) /\ (user[u].pw \/ Cardinality(Linked(u)) > 1)

DisconnectCheck(c) ==
    /\ Starts(c, "disconnect")
    /\ LET u == Arg(c).user IN
        Goto(c, IF DisconnectAllowed(u) /\ Linked(u) # {} THEN "unlink" ELSE "done")
    /\ UNCHANGED <<Sess, user, member, avars>>

\* DELETE ... WHERE user_id AND provider: there is one provider.
DeleteOAuthProvider(c) ==
    /\ Arg(c).kind = "disconnect" /\ At(c, "unlink")
    /\ link' = [i \in Idents |-> IF link[i] = Arg(c).user THEN None ELSE link[i]]
    /\ Goto(c, "done")
    /\ UNCHANGED <<Sess, user, member, TeamVars, TokenVars>>

\* DeleteAccount: refused while other people belong to a team of the user's;
\* the teams that are the user's alone are deleted one by one.
DeleteAccountCheck(c) ==
    /\ Starts(c, "account")
    /\ LET u == Arg(c).user IN
        IF Exists(u) /\ CountUserOwnedTeamsWithOtherMembers(u) = 0
        THEN call' = [call EXCEPT ![c].at = "sole", ![c].user = u] ELSE Goto(c, "done")
    /\ UNCHANGED <<Sess, user, member, avars>>

DeleteAccountTeams(c) ==
    /\ Arg(c).kind = "account" /\ At(c, "sole")
    /\ LET todo == ListSoleOwnedTeams(Arg(c).user) IN
        IF todo = {} THEN Goto(c, "erase")
        ELSE \E t \in todo :
            call' = [call EXCEPT ![c].at = "boxes", ![c].team = t, ![c].todo = todo \ {t}]
    /\ UNCHANGED <<Sess, user, member, avars>>

\* DeleteAPIKeysByCreator and SoftDeleteUser, in one transaction.
Erase(u) ==
    /\ user' = [user EXCEPT ![u].status = "deleted"]
    /\ keys' = {k \in keys : k[2] # u}

SoftDeleteUser(c) ==
    /\ Arg(c).kind = "account" /\ At(c, "erase")
    /\ Erase(Arg(c).user)
    /\ Goto(c, "revokeall")
    /\ UNCHANGED <<Sess, member, link, team, reserved, gave, month, box, vm, vol, TokenVars>>

-----------------------------------------------------------------------------
(* Administration of users                                                 *)

SetUserActive(c) ==
    /\ Starts(c, "disable") \/ Starts(c, "enable")
    /\ LET u == Arg(c).on IN
        IF ~Exists(u) \/ (Arg(c).kind = "disable" /\ Arg(c).user = u) THEN Goto(c, "done") /\ UNCHANGED user
        ELSE IF Arg(c).kind = "enable" THEN Goto(c, "done") /\ SetUserStatus(u, "active")
        ELSE call' = [call EXCEPT ![c].at = "keys", ![c].user = u] /\ SetUserStatus(u, "disabled")
    /\ UNCHANGED <<Sess, member, avars>>

DeleteAPIKeysByCreator(c) ==
    /\ Arg(c).kind = "disable" /\ At(c, "keys")
    /\ keys' = {k \in keys : k[2] # call[c].user}
    /\ Goto(c, "owned")
    /\ UNCHANGED <<Sess, user, member, link, team, reserved, gave, month, box, vm, vol, TokenVars>>

\* destroySandboxesForOwnedTeams, best effort; then every session.
DestroyOwned(c) ==
    /\ Arg(c).kind = "disable" /\ At(c, "owned")
    /\ LET gone == {t \in GetOwnedTeamIDs(call[c].user) : box[t] = "running"} IN
        /\ box' = [t \in Teams |-> IF t \in gone THEN "stopped" ELSE box[t]]
        /\ vm' = vm \ gone
        /\ vol' = [t \in Teams |-> IF t \in gone THEN "available" ELSE vol[t]]
    /\ Goto(c, "revokeall")
    /\ UNCHANGED <<Sess, user, member, link, team, keys, reserved, gave, month, TokenVars>>

SetUserAdmin(c) ==
    /\ Starts(c, "grant") \/ Starts(c, "revoke")
    /\ LET u == Arg(c).on
           to == Arg(c).kind = "grant" IN
        IF ~Exists(u) \/ user[u].admin = to THEN Goto(c, "done") /\ UNCHANGED user
        ELSE /\ user' = [user EXCEPT ![u].admin = @ \/ to]
             /\ call' = [call EXCEPT ![c].at = IF to THEN "invalidate" ELSE "count", ![c].user = u]
    /\ UNCHANGED <<Sess, member, avars>>

\* RevokeUserAdmin: one UPDATE, whose subquery counts the administrators as
\* they were when it began; two of them on different rows do not conflict.
RevokeCount(c) ==
    /\ At(c, "count")
    /\ Goto(c, IF Cardinality({v \in Users : Exists(v) /\ user[v].admin}) > 1 THEN "demote" ELSE "done")
    /\ UNCHANGED <<Sess, user, member, avars>>

RevokeUserAdmin(c) ==
    /\ At(c, "demote")
    /\ user' = [user EXCEPT ![call[c].user] = IF @ = None THEN None ELSE [@ EXCEPT !.admin = FALSE]]
    /\ Goto(c, "invalidate")
    /\ UNCHANGED <<Sess, member, avars>>

\* Accounts deleted more than 15 days ago, at the daily cleanup.
AccountCleanup ==
    /\ month > 0
    /\ \E u \in Users : user[u] # None /\ user[u].status = "deleted" /\ HardDeleteUser(u)
    /\ UNCHANGED <<mix, now, cache, born, issued, call, team, reserved, gave, month, box, vm, vol, TokenVars>>

-----------------------------------------------------------------------------
(* Teams and members                                                       *)

IsAdmin(u, t) == member[u][t] \in {"owner", "admin"}

CreateTeam(c) ==
    /\ Starts(c, "newteam")
    /\ user[Arg(c).user] # None
    /\ \E t \in Teams : InsertOwnedTeam(Arg(c).user, t)
    /\ Goto(c, "done")
    /\ UNCHANGED <<Sess, user, link, keys, reserved, gave, month, box, vm, vol, TokenVars>>

\* AddMember, RemoveMember, UpdateMemberRole and LeaveTeam check, then write.
AddMemberCheck(c) ==
    /\ Starts(c, "add")
    /\ Goto(c, IF IsAdmin(Arg(c).user, Arg(c).team) /\ Exists(Arg(c).on) /\ member[Arg(c).on][Arg(c).team] = None
               THEN "join" ELSE "done")
    /\ UNCHANGED <<Sess, user, member, avars>>

InsertTeamMember(c) ==
    /\ At(c, "join")
    /\ IF member[Arg(c).on][Arg(c).team] = None /\ user[Arg(c).on] # None
       THEN member' = [member EXCEPT ![Arg(c).on][Arg(c).team] = "member"] ELSE UNCHANGED member
    /\ Goto(c, "done")
    /\ UNCHANGED <<Sess, user, avars>>

RemovableAny(u, t) == member[u][t] # None

Removable(u, t) == member[u][t] \notin {None, "owner"}

RemoveCheck(c) ==
    /\ \/ Starts(c, "remove") /\ IsAdmin(Arg(c).user, Arg(c).team)
       \/ Starts(c, "leave") /\ Arg(c).user = Arg(c).on
       \/ Starts(c, "role") /\ IsAdmin(Arg(c).user, Arg(c).team)
    /\ call' = [call EXCEPT ![c].at = IF ~Removable(Arg(c).on, Arg(c).team) THEN "done"
                                      ELSE IF Arg(c).kind = "role" THEN "role" ELSE "part",
                            ![c].user = Arg(c).on]
    /\ UNCHANGED <<Sess, user, member, avars>>

UpdateMemberRole(c) ==
    /\ At(c, "role")
    /\ member' = [member EXCEPT ![Arg(c).on][Arg(c).team] = IF @ = None THEN None ELSE Arg(c).to]
    /\ Goto(c, "done")
    /\ UNCHANGED <<Sess, user, avars>>

DeleteTeamMember(c) ==
    /\ At(c, "part")
    /\ member' = [member EXCEPT ![Arg(c).on][Arg(c).team] = None]
    /\ Goto(c, "unkey")
    /\ UNCHANGED <<Sess, user, avars>>

KeepKeys(t, u) == keys

DeleteAPIKeysByTeamAndCreator(t, u) == keys \ {<<t, u>>}

PurgeMemberKeys(c) ==
    /\ At(c, "unkey")
    /\ keys' = DeleteAPIKeysByTeamAndCreator(Arg(c).team, Arg(c).on)
    /\ Goto(c, "invalidate")
    /\ UNCHANGED <<Sess, user, member, link, team, reserved, gave, month, box, vm, vol, TokenVars>>

\* APIKeyService.Create, with the team of an accepted request's session.
CreateAPIKey(c) ==
    /\ Arg(c).kind = "request" /\ At(c, "accepted") /\ Arg(c).key
    /\ LET sess == call[c].sess IN
        IF sess.team # None /\ user[sess.user] # None
        THEN keys' = keys \cup {<<sess.team, sess.user>>} ELSE UNCHANGED keys
    /\ Goto(c, "done")
    /\ UNCHANGED <<Sess, user, member, link, team, reserved, gave, month, box, vm, vol, TokenVars>>

-----------------------------------------------------------------------------
(* ChangeSlug: the team is read, the new slug checked twice, and the change *)
(* made in one transaction                                                 *)

CoolingOff(t) == team[t].changed # None /\ month < team[t].changed + Cooldown

SlugRead(c) ==
    /\ Starts(c, "slug")
    /\ LET t == Arg(c).team IN
        IF IsAdmin(Arg(c).user, t) /\ Live(t) /\ team[t].slug # Arg(c).to /\ ~CoolingOff(t)
        THEN call' = [call EXCEPT ![c].at = "held", ![c].seen = team[t].slug] ELSE Goto(c, "done")
    /\ UNCHANGED <<Sess, user, member, avars>>

\* A look at the tombstones before the teams would miss a slug parked between.
SlugHeldLast(c) ==
    /\ Arg(c).kind = "slug" /\ At(c, "held")
    /\ Goto(c, IF GetActiveReservedSlug(Arg(c).to) /\ reserved[Arg(c).to].by # Arg(c).team THEN "done" ELSE "parked")
    /\ UNCHANGED <<Sess, user, member, avars>>

\* First: no live team has it.
SlugHeld(c) ==
    /\ Arg(c).kind = "slug" /\ At(c, "held")
    /\ Goto(c, IF GetTeamBySlug(Arg(c).to) # {} THEN "done" ELSE "parked")
    /\ UNCHANGED <<Sess, user, member, avars>>

\* Second: no other team parked it.
SlugParkedCheck(c) ==
    /\ Arg(c).kind = "slug" /\ At(c, "parked")
    /\ Goto(c, IF GetActiveReservedSlug(Arg(c).to) /\ reserved[Arg(c).to].by # Arg(c).team THEN "done" ELSE "adopt")
    /\ UNCHANGED <<Sess, user, member, avars>>

\* The slug that was read is parked, the new one's tombstone cleared, and the
\* team renamed unless it is deleted; the unique index may refuse it all.
SlugAdopt(c) ==
    /\ Arg(c).kind = "slug" /\ At(c, "adopt")
    /\ LET t == Arg(c).team
           g == Arg(c).to
           parked == [reserved EXCEPT ![call[c].seen] = [by |-> t, till |-> month + Reserve], ![g] = None] IN
        IF Live(t) /\ ~SlugFree(g) THEN UNCHANGED <<reserved, gave, team>>
        ELSE /\ reserved' = parked
             /\ gave' = [gave EXCEPT ![call[c].seen] = parked[call[c].seen]]
             /\ team' = IF Live(t) THEN [team EXCEPT ![t].slug = g, ![t].changed = month] ELSE team
    /\ Goto(c, "done")
    /\ UNCHANGED <<Sess, user, member, link, keys, month, box, vm, vol, TokenVars>>

\* Thirty days pass; nothing else of the model lasts that long.
Month ==
    /\ mix.months /\ month < MaxMonth
    /\ \A c \in Calls : call[c].at \in {"new", "done"}
    /\ month' = month + 1
    /\ UNCHANGED <<Sess, user, member, call, link, team, keys, reserved, gave, box, vm, vol, TokenVars>>

-----------------------------------------------------------------------------
(* deleteTeamCore                                                          *)

\* DeleteTeam is the owner's; AdminDeleteTeam any administrator's.
DeleteTeam(c) ==
    /\ Starts(c, "deleteTeam")
    /\ IF member[Arg(c).user][Arg(c).team] = "owner" \/ (Exists(Arg(c).user) /\ user[Arg(c).user].admin /\ Live(Arg(c).team))
       THEN call' = [call EXCEPT ![c].at = "boxes", ![c].team = Arg(c).team] ELSE Goto(c, "done")
    /\ UNCHANGED <<Sess, user, member, avars>>

ListActiveSandboxesByTeam(c) ==
    /\ At(c, "boxes")
    /\ Goto(c, IF box[call[c].team] = "running" THEN "destroy" ELSE "purge")
    /\ UNCHANGED <<Sess, user, member, avars>>

\* The agent destroys the capsule, or the call fails and is only logged.
DestroyRPC(c) ==
    /\ At(c, "destroy")
    /\ \/ vm' = vm \ {call[c].team}
       \/ mix.hostdown /\ UNCHANGED vm
    /\ Goto(c, "stop")
    /\ UNCHANGED <<Sess, user, member, link, team, keys, reserved, gave, month, box, vol, TokenVars>>

\* BulkUpdateStatusByIDs; when it fails the deletion is given up.
Stop(c) ==
    \/ box' = [box EXCEPT ![call[c].team] = "stopped"] /\ Goto(c, "detach")
    \/ mix.dbfails /\ Goto(c, "done") /\ UNCHANGED box

StopRows(c) ==
    /\ At(c, "stop")
    /\ Stop(c)
    /\ UNCHANGED <<Sess, user, member, link, team, keys, reserved, gave, month, vm, vol, TokenVars>>

DetachVolumesBySandboxIDs(c) ==
    /\ At(c, "detach")
    /\ \/ vol' = [vol EXCEPT ![call[c].team] = IF @ = "attached" THEN "available" ELSE @]
       \/ mix.dbfails /\ UNCHANGED vol
    /\ Goto(c, "purge")
    /\ UNCHANGED <<Sess, user, member, link, team, keys, reserved, gave, month, box, vm, TokenVars>>

\* Metrics, API keys and channels of the team.
DeleteAPIKeysByTeam(c) ==
    /\ At(c, "purge")
    /\ keys' = {k \in keys : k[1] # call[c].team}
    /\ Goto(c, "mark")
    /\ UNCHANGED <<Sess, user, member, link, team, reserved, gave, month, box, vm, vol, TokenVars>>

\* The cleanup of volumes starts in the background; the team is marked.
SoftDeleteTeam(c) ==
    /\ At(c, "mark")
    /\ team' = [team EXCEPT ![call[c].team].deleted = TRUE]
    /\ IF call[c].todo # {}
       THEN \E t \in call[c].todo : call' = [call EXCEPT ![c].at = "boxes", ![c].team = t, ![c].todo = @ \ {t}]
       ELSE Goto(c, IF Arg(c).kind = "account" THEN "erase" ELSE "done")
    /\ UNCHANGED <<Sess, user, member, link, keys, reserved, gave, month, box, vm, vol, TokenVars>>

\* cleanupTeamVolumes: files on the host, then the rows, whatever became of
\* the files.
CleanupTeamVolumes ==
    /\ \E t \in Teams : /\ team[t] # None /\ team[t].deleted /\ vol[t] # None
                        /\ vol' = [vol EXCEPT ![t] = None]
    /\ UNCHANGED <<Sess, user, member, call, link, team, keys, reserved, gave, month, box, vm, TokenVars>>

-----------------------------------------------------------------------------
AccountStep(c) ==
    \/ SignupLookup(c) \/ InsertUserInactive(c) \/ RequestPasswordReset(c) \/ SendToken(c)
    \/ TakeToken(c) \/ ActivateCheck(c) \/ ActivateSet(c) \/ ConfirmPasswordReset(c)
    \/ Login(c) \/ LoginTeam(c) \/ EnsureDefaultTeam(c) \/ SignupHook(c)
    \/ CallbackLookup(c) \/ InsertOAuthProvider(c) \/ CallbackEmail(c) \/ CallbackRegister(c)
    \/ SwitchTeam(c) \/ ChangePassword(c) \/ UpdateName(c) \/ DisconnectCheck(c) \/ DeleteOAuthProvider(c)
    \/ DeleteAccountCheck(c) \/ DeleteAccountTeams(c) \/ SoftDeleteUser(c)
    \/ SetUserActive(c) \/ DeleteAPIKeysByCreator(c) \/ DestroyOwned(c)
    \/ SetUserAdmin(c) \/ RevokeCount(c) \/ RevokeUserAdmin(c)
    \/ CreateTeam(c) \/ AddMemberCheck(c) \/ InsertTeamMember(c) \/ RemoveCheck(c) \/ UpdateMemberRole(c)
    \/ DeleteTeamMember(c) \/ PurgeMemberKeys(c) \/ CreateAPIKey(c)
    \/ SlugRead(c) \/ SlugHeld(c) \/ SlugParkedCheck(c) \/ SlugAdopt(c)
    \/ DeleteTeam(c) \/ ListActiveSandboxesByTeam(c) \/ DestroyRPC(c) \/ StopRows(c)
    \/ DetachVolumesBySandboxIDs(c) \/ DeleteAPIKeysByTeam(c) \/ SoftDeleteTeam(c)

Next ==
    \/ \E c \in Calls : SessionStep(c) /\ UNCHANGED avars
    \/ Tick /\ UNCHANGED avars
    \/ StartCleaner /\ UNCHANGED avars
    \/ \E c \in Calls : AccountStep(c)
    \/ TokensExpire \/ SignupCools \/ Month \/ AccountCleanup \/ CleanupTeamVolumes

\* The clock and the cleaner run for ever; a request that began goes on.
Fairness ==
    /\ WF_vars(Tick /\ UNCHANGED avars)
    /\ WF_vars(StartCleaner /\ UNCHANGED avars)
    /\ WF_vars(\E c \in Calls : Underway(c) /\ UNCHANGED avars)

-----------------------------------------------------------------------------
(* Properties                                                              *)

Roles == {"owner", "admin", "member"}
Statuses == {"inactive", "active", "disabled", "deleted"}

\* The values of the tables; a cached session lapses no later than its cap,
\* an identity belongs to a user that exists, and a team gets an owner with
\* its row.
TypeOK ==
    /\ \A u \in Users : user[u] # None => user[u].status \in Statuses /\ user[u].email \in Emails
    /\ \A u \in Users, t \in Teams :
        member[u][t] # None => member[u][t] \in Roles /\ user[u] # None /\ team[t] # None
    /\ \A i \in Idents : link[i] # None => user[link[i]] # None
    /\ \A s \in Sids : cache[s] # None => cache[s].until <= cache[s].exp
    /\ \A s \in Sids : row[s] # None => row[s].exp = born[s] + Cap
    /\ \A g \in Slugs : Cardinality({t \in Teams : team[t] # None /\ team[t].slug = g}) <= 1

\* A team that is not deleted has exactly one owner, whose account is not
\* deleted either: members are removed, leave, and change roles, accounts are
\* deleted and purged, and no order of these strands a team (team.go,
\* RemoveMember, UpdateMemberRole, LeaveTeam; handlers_me.go, DeleteAccount).
OneOwner ==
    \A t \in Teams : Live(t) =>
        /\ Cardinality({u \in Users : member[u][t] = "owner"}) = 1
        /\ \A u \in Users : member[u][t] = "owner" => Exists(u)

\* A mailed token changes an account once, however many requests present it
\* (handlers_auth.go Activate, handlers_me.go ConfirmPasswordReset).
TokenOnce == \A a, b \in spent : a[2] = b[2] => a = b

\* A slug that a team gave up is not another team's until the reservation ran
\* out, even when both changes run at once (team.go, ChangeSlug: the teams are
\* looked at before the tombstones).
SlugParked ==
    \A g \in Slugs, t \in Teams :
        gave[g] # None /\ month < gave[g].till /\ Live(t) /\ team[t].slug = g => t = gave[g].by

Quiet == \A c \in Calls : call[c].at \in {"new", "done", "accepted"}

\* With no request under way, an API key's creator is a member of a team that
\* is not deleted and has an account in use, and no session row belongs to a
\* disabled or deleted account (RemoveMember, LeaveTeam, SetUserStatus,
\* DeleteAccount and deleteTeamCore purge what they should).
CredentialsEnd ==
    Quiet =>
        /\ \A k \in keys :
             k[2] # None => Live(k[1]) /\ member[k[2]][k[1]] # None /\ user[k[2]].status = "active"
        /\ \A s \in Sids : row[s] = None \/ user[row[s].user].status = "active"

\* A team is marked deleted only when the rows of its capsules say stopped,
\* whatever fails on the way (deleteTeamCore).
DeletedTeamIdle == \A t \in Teams : team[t] # None /\ team[t].deleted => box[t] # "running"

\* Every account that is in use can be logged into: it has a password or a
\* linked identity ("Ensure the user will still have at least one login method
\* after disconnecting", DisconnectProvider).
LoginMethodKept ==
    \A u \in Users : user[u] # None /\ user[u].status = "active" => user[u].pw \/ Linked(u) # {}

\* A team has its owner as long as it lives and nothing running afterwards, over
\* well-typed tables (pkg/service/team.go).
TeamsWhole == TypeOK /\ OneOwner /\ DeletedTeamIdle

\* What a user gets in with works as long as it should, as often as it should and
\* no longer: keys, sessions, mailed tokens, and at least one login method.
LoginsSound == CredentialsEnd /\ TokenOnce /\ LoginMethodKept /\ AbsoluteCap
=============================================================================
