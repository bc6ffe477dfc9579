---------------------------- MODULE MCAccounts ----------------------------
(* Scenarios for model-checking Accounts and Sessions.                      *)
EXTENDS Accounts, TLC

Active(e, admin) == [NewUser(e, "active", TRUE) EXCEPT !.admin = admin, !.billed = TRUE]
Nobody == [u \in Users |-> None]
NoMembers == [u \in Users |-> [t \in Teams |-> None]]
ATeam(g) == [slug |-> g, deleted |-> FALSE, changed |-> None]

Empty == [user |-> Nobody, member |-> NoMembers, link |-> [i \in Idents |-> None],
          team |-> [t \in Teams |-> None], keys |-> {}, box |-> [t \in Teams |-> None],
          flaky |-> FALSE, hostdown |-> FALSE, dbfails |-> FALSE, months |-> FALSE,
          clock |-> FALSE, calls |-> <<>>]

\* Two users: 1 owns team 1 and administers the platform, 2 is a member of it.
Pair == [Empty EXCEPT
    !.user = [u \in Users |-> IF u = 1 THEN Active("e1", TRUE) ELSE IF u = 2 THEN Active("e2", FALSE) ELSE None],
    !.member = [u \in Users |-> [t \in Teams |-> IF t # 1 THEN None ELSE IF u = 1 THEN "owner"
                                                 ELSE IF u = 2 THEN "member" ELSE None]],
    !.team = [t \in Teams |-> IF t = 1 THEN ATeam("a") ELSE None],
    !.keys = {<<1, 1>>, <<1, 2>>},
    !.box = [t \in Teams |-> IF t = 1 THEN "running" ELSE None]]

Ask(kind, u) == [kind |-> kind, user |-> u, on |-> u, team |-> 1, to |-> "member", email |-> "e1",
                 ident |-> 1, intent |-> "signup", key |-> FALSE, after |-> {}]
After(a, cs) == [a EXCEPT !.after = cs]
On(a, u) == [a EXCEPT !.on = u]

Browsing == [Pair EXCEPT !.flaky = TRUE, !.clock = TRUE, !.calls =
    <<Ask("login", 1), Ask("request", 1), Ask("request", 1), Ask("logout", 1)>>]
Switching == [Pair EXCEPT !.calls =
    <<Ask("login", 2), Ask("switch", 2), Ask("request", 2), Ask("request", 2), Ask("logoutAll", 2)>>]
SigningUp == [Empty EXCEPT !.flaky = TRUE, !.calls =
    <<Ask("signup", None), Ask("signup", None), Ask("activate", None), Ask("activate", None), Ask("login", 1)>>]
Registering == [Empty EXCEPT !.flaky = TRUE, !.calls =
    <<Ask("oauth", None), Ask("oauth", None), Ask("signup", None),
      [Ask("oauth", None) EXCEPT !.intent = "login"]>>]
Linking == [Pair EXCEPT !.user[2].pw = FALSE, !.link = [i \in Idents |-> IF i = 2 THEN 2 ELSE None], !.calls =
    <<[Ask("oauth", 1) EXCEPT !.intent = "link"], [Ask("oauth", None) EXCEPT !.email = "e3"], Ask("disconnect", 1),
      Ask("disconnect", 2), Ask("disconnect", 2), [Ask("oauth", None) EXCEPT !.ident = 2, !.intent = "login"],
      After(Ask("password", 2), {4})>>]
Resetting == [Pair EXCEPT !.calls =
    <<Ask("forgot", None), Ask("login", 1), Ask("reset", None), Ask("reset", None),
      After(Ask("request", 1), {2}), [Ask("forgot", None) EXCEPT !.email = "e3"]>>]
Membership == [Pair EXCEPT !.calls =
    <<On(Ask("remove", 1), 2), On([Ask("role", 1) EXCEPT !.to = "admin"], 2), Ask("leave", 2), On(Ask("add", 1), 2),
      On(Ask("remove", 2), 1), On(Ask("role", 2), 1), Ask("leave", 1), After(Ask("newteam", 2), {3})>>]
KeyMaking == [Pair EXCEPT !.keys = {}, !.calls =
    <<Ask("login", 2), After([Ask("request", 2) EXCEPT !.key = TRUE], {1}), After(Ask("name", 2), {1}),
      After(On(Ask("remove", 1), 2), {2}), After(Ask("request", 2), {1})>>]
Slugging == [Pair EXCEPT !.months = TRUE,
    !.member[2][2] = "owner", !.team[2] = ATeam("b"), !.calls =
    <<[Ask("slug", 1) EXCEPT !.to = "c"], [Ask("slug", 2) EXCEPT !.team = 2, !.to = "a"],
      After([Ask("slug", 2) EXCEPT !.team = 2, !.to = "a"], {2}),
      After([Ask("slug", 1) EXCEPT !.to = "b"], {1}), Ask("deleteTeam", 2)>>]
\* User 2 also owns team 2 alone.
Owners == [Pair EXCEPT !.member[2][2] = "owner", !.team[2] = ATeam("b"), !.box[2] = "running",
                       !.keys = {<<1, 1>>, <<1, 2>>, <<2, 2>>}]
Deleting == [Owners EXCEPT !.hostdown = TRUE, !.dbfails = TRUE, !.calls =
    <<Ask("account", 2), [Ask("deleteTeam", 1) EXCEPT !.team = 2], [Ask("deleteTeam", 2) EXCEPT !.team = 1]>>]
Purging == [Owners EXCEPT !.months = TRUE, !.calls =
    <<Ask("login", 2), After(Ask("account", 2), {1}), Ask("account", 1), After(Ask("request", 2), {1})>>]
Disabling == [Pair EXCEPT !.user[2].admin = TRUE, !.months = TRUE, !.calls =
    <<Ask("login", 2), After(On(Ask("disable", 1), 2), {1}), After(On(Ask("enable", 1), 2), {2}),
      On(Ask("revoke", 1), 2), On(Ask("grant", 1), 2), Ask("disable", 1), After(Ask("request", 2), {1})>>]

Mixes == {Browsing, Switching, SigningUp, Registering, Linking, Resetting, Membership, KeyMaking,
          Slugging, Deleting, Purging, Disabling}

MCInit == mix \in Mixes /\ AccountsInit
MCSpec == MCInit /\ [][Next]_vars /\ Fairness

\* A user without a password links a second identity of the provider.
TwoIdentities == [Pair EXCEPT !.user[2].pw = FALSE, !.link = [i \in Idents |-> IF i = 2 THEN 2 ELSE None], !.calls =
    <<[Ask("oauth", 2) EXCEPT !.intent = "link"], After(Ask("disconnect", 2), {1})>>]
LinkedSpec == mix = TwoIdentities /\ AccountsInit /\ [][Next]_vars
=============================================================================
