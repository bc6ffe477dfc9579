---------------------------- MODULE HostsProofs ----------------------------
(***************************************************************************)
(* For any number of machines, tickets, refresh tokens and capsules: the    *)
(* credentials of a host belong to one machine and keep working, and a      *)
(* deleted host leaves nothing behind.                                      *)
(***************************************************************************)
EXTENDS Hosts, TLAPS

(* A leaf is Zenon's unless it names SMT; each is tried again with more time. *)
USE Zenon, SlowZenon

(* Nobody can have registered yet.                                          *)
Unclaimed == host.status = "pending" \/ (host.status = "absent" /\ del.at = "idle")

(* One machine holds the host, and none before a row was claimed.  An agent *)
(* runs on credentials it has, and only a running agent refreshes them; one *)
(* that is registering does not run yet.                                    *)
MachineInv ==
    /\ \A m, n \in Machines : Holds(m) /\ Holds(n) => m = n
    /\ Unclaimed => \A m \in Machines : ~Holds(m)
    /\ \A m \in Machines :
         /\ agent[m].up => agent[m].file # NoCreds
         /\ \A c \in Clients : ref[m][c].at # "idle" => agent[m].up
         /\ reg[m].at \in {"consumed", "claimed", "reply"} => ~agent[m].up

(* A token that anybody holds has been issued.                              *)
IssuedInv ==
    \A m \in Machines :
        /\ agent[m].file.refresh # None => tokens[agent[m].file.refresh] # "unissued"
        /\ reg[m].at = "reply" => reg[m].token # None /\ tokens[reg[m].token] # "unissued"
        /\ \A c \in Clients :
             /\ ref[m][c].old # None => tokens[ref[m][c].old] # "unissued"
             /\ ref[m][c].at \in {"issued", "reply"} => ref[m][c].new # None /\ tokens[ref[m][c].new] # "unissued"
             /\ ref[m][c].at \in {"sent", "looked", "issued", "reply"} => ref[m][c].old # None

(* While nothing was lost and nobody deletes the host: a token that is on   *)
(* its way to the file is accepted and nobody presents it yet, and the one  *)
(* in the file is accepted unless its successor is on its way.              *)
FreshInv(m, c) ==
    ref[m][c].at \in {"issued", "reply"} =>
        /\ tokens[ref[m][c].new] = "valid"
        /\ ref[m][c].new # agent[m].file.refresh
        /\ \A d \in Clients :
             /\ ref[m][d].old # ref[m][c].new
             /\ ref[m][d].at \in {"issued", "reply"} /\ d # c => ref[m][d].new # ref[m][c].new

TokenInv ==
    ~lost /\ del.at = "idle" =>
        \A m \in Machines :
            /\ reg[m].at = "reply" => tokens[reg[m].token] = "valid"
            /\ \A c \in Clients : FreshInv(m, c)
            /\ agent[m].file.refresh # None =>
                 \/ tokens[agent[m].file.refresh] = "valid"
                 \/ \E c \in Clients : ref[m][c].at = "reply" /\ ref[m][c].old = agent[m].file.refresh

(* What Delete has done by the time it reaches each of its steps.           *)
DelInv ==
    /\ del.at \in {"revoke", "volumes", "host", "done"} => \A b \in del.listed : row[b] = "stopped"
    /\ del.at = "done" =>
         /\ host.status = "absent" /\ ~vol.pin
         /\ \A t \in Tokens : tokens[t] # "valid"

IInv == TypeOK /\ MachineInv /\ IssuedInv /\ TokenInv /\ DelInv

(* What moving a registration, or a refresh, to its next point changes.     *)
LEMMA RegMoved ==
    ASSUME TypeOK, NEW m \in Machines, NEW at \in {"idle", "consumed", "claimed", "reply", "done", "failed"},
           RegStep(m, at)
    PROVE  /\ reg' \in [Machines -> RegState]
           /\ reg'[m].at = at /\ reg'[m].token = reg[m].token
           /\ \A n \in Machines \ {m} : reg'[n] = reg[n]
<1>1. reg[m] \in RegState
  BY DEF TypeOK
<1>2. [reg[m] EXCEPT !.at = at] \in RegState
  BY <1>1 DEF RegState
<1> QED
  BY <1>1, <1>2 DEF TypeOK, RegStep, RegState

LEMMA RefSet ==
    ASSUME TypeOK, NEW m \in Machines, NEW c \in Clients, NEW r \in RefState,
           ref' = [ref EXCEPT ![m][c] = r]
    PROVE  /\ ref' \in [Machines -> [Clients -> RefState]]
           /\ ref'[m][c] = r
           /\ \A d \in Clients \ {c} : ref'[m][d] = ref[m][d]
           /\ \A n \in Machines \ {m} : ref'[n] = ref[n]
<1>1. [ref[m] EXCEPT ![c] = r] \in [Clients -> RefState]
  BY DEF TypeOK
<1> QED
  BY <1>1 DEF TypeOK

LEMMA RefMoved ==
    ASSUME TypeOK, NEW m \in Machines, NEW c \in Clients,
           NEW at \in {"idle", "load", "sent", "looked", "issued", "reply", "failed"},
           RefStep(m, c, at)
    PROVE  /\ ref' \in [Machines -> [Clients -> RefState]]
           /\ ref'[m][c].at = at /\ ref'[m][c].old = ref[m][c].old /\ ref'[m][c].new = ref[m][c].new
           /\ \A d \in Clients \ {c} : ref'[m][d] = ref[m][d]
           /\ \A n \in Machines \ {m} : ref'[n] = ref[n]
<1>1. ref[m][c] \in RefState
  BY SMT, SMTT(20) DEF TypeOK
<1>2. [ref[m][c] EXCEPT !.at = at] \in RefState
  BY <1>1 DEF RefState
<1>3. ref' = [ref EXCEPT ![m][c] = [ref[m][c] EXCEPT !.at = at]]
  BY DEF RefStep
<1>4. [ref[m][c] EXCEPT !.at = at].at = at /\ [ref[m][c] EXCEPT !.at = at].old = ref[m][c].old
      /\ [ref[m][c] EXCEPT !.at = at].new = ref[m][c].new
  BY <1>1 DEF RefState
<1> QED
  BY <1>2, <1>3, <1>4, RefSet

(* A refresh that issues a token is at "issued" with it.                    *)
LEMMA RefIssued ==
    ASSUME TypeOK, NEW m \in Machines, NEW c \in Clients, NEW t \in Tokens
    PROVE  LET r == [ref[m][c] EXCEPT !.at = "issued", !.new = t, !.jwt = epoch]
           IN  r \in RefState /\ r.at = "issued" /\ r.old = ref[m][c].old /\ r.new = t
<1>1. ref[m][c] \in RefState /\ epoch \in Nat
  BY HostsAssumption, SMT, SMTT(20) DEF TypeOK
<1>2. [ref[m][c] EXCEPT !.at = "issued", !.new = t, !.jwt = epoch] \in RefState
  BY <1>1 DEF RefState
<1> QED
  BY <1>1, <1>2 DEF RefState

(* A random token is one that was not issued before.                        *)
LEMMA Fresh == ASSUME NEW S, S # {} PROVE Next1(S) \in S
  BY DEF Next1

(* A changed agent is the one whose state changes.                          *)
LEMMA AgentSet ==
    ASSUME TypeOK, NEW m \in Machines, NEW a \in AgentState, agent' = [agent EXCEPT ![m] = a]
    PROVE  agent' \in [Machines -> AgentState] /\ agent'[m] = a /\ \A n \in Machines \ {m} : agent'[n] = agent[n]
  BY DEF TypeOK

(* Boot keeps the file, and runs the agent if there is one.                 *)
LEMMA Booted ==
    ASSUME NEW file \in [refresh : Tokens \cup {None}, jwt : Nat]
    PROVE  /\ Boot(file) \in AgentState
           /\ Boot(file).file = file /\ (Boot(file).up <=> file # NoCreds)
<1>1. Off \in AgentState
  BY HostsAssumption, SMT, SMTT(20) DEF Off, AgentState, NoCreds
<1>2. file.jwt \in Nat
  OBVIOUS
<1>3. Boot(file) \in AgentState
  BY <1>1, <1>2 DEF Boot, AgentState
<1>4. Boot(file).file = file /\ (Boot(file).up <=> file # NoCreds)
  BY <1>1 DEF Boot, Off
<1> QED
  BY <1>3, <1>4

-----------------------------------------------------------------------------
(* What keeps each part of the invariant.                                   *)

(* The tokens that anybody holds.                                           *)
LEMMA HeldTokens ==
    ASSUME TypeOK, NEW m \in Machines
    PROVE  /\ agent[m].file.refresh \in Tokens \cup {None} /\ reg[m].token \in Tokens \cup {None}
           /\ \A c \in Clients : ref[m][c].old \in Tokens \cup {None} /\ ref[m][c].new \in Tokens \cup {None}
<1>1. agent[m] \in AgentState /\ reg[m] \in RegState /\ \A c \in Clients : ref[m][c] \in RefState
  BY SMT, SMTT(20) DEF TypeOK
<1>2. agent[m].file.refresh \in Tokens \cup {None}
  BY <1>1 DEF AgentState
<1>3. reg[m].token \in Tokens \cup {None}
  BY <1>1 DEF RegState
<1>4. ASSUME NEW c \in Clients PROVE ref[m][c].old \in Tokens \cup {None} /\ ref[m][c].new \in Tokens \cup {None}
  BY <1>1 DEF RefState
<1> QED
  BY <1>2, <1>3, <1>4

(* A refresh holds tokens that were issued.                                 *)
RefOK(m, c) ==
    /\ ref[m][c].old # None => tokens[ref[m][c].old] # "unissued"
    /\ ref[m][c].at \in {"issued", "reply"} => ref[m][c].new # None /\ tokens[ref[m][c].new] # "unissued"
    /\ ref[m][c].at \in {"sent", "looked", "issued", "reply"} => ref[m][c].old # None

LEMMA RefHolds == ASSUME IInv, NEW m \in Machines, NEW c \in Clients PROVE RefOK(m, c)
  BY DEF IInv, IssuedInv, RefOK

(* Only a running agent refreshes.                                          *)
LEMMA RefreshRuns == ASSUME IInv, NEW m \in Machines, NEW c \in Clients, ref[m][c].at # "idle" PROVE agent[m].up
  BY DEF IInv, MachineInv

LEMMA RefreshersRun ==
    ASSUME IInv, NEW m \in Machines, NEW c \in Clients, ref'[m][c].at # "idle" => agent[m].up,
           \A d \in Clients \ {c} : ref'[m][d] = ref[m][d], \A n \in Machines \ {m} : ref'[n] = ref[n]
    PROVE  \A n \in Machines, d \in Clients : ref'[n][d].at # "idle" => agent[n].up
<1> SUFFICES ASSUME NEW n \in Machines, NEW d \in Clients, ref'[n][d].at # "idle" PROVE agent[n].up
  OBVIOUS
<1>1. CASE n = m /\ d = c
  BY <1>1
<1>2. CASE ~(n = m /\ d = c)
  <2>1. ref'[n][d] = ref[n][d]
    BY <1>2
  <2> QED
    BY <2>1, RefreshRuns
<1> QED
  BY <1>1, <1>2

(* Machines stay apart when agents and registrations do not move, and a     *)
(* refresh starts on a running agent only.                                  *)
LEMMA MachinesKept ==
    ASSUME IInv, UNCHANGED <<host, reg, del>>,
           \A n \in Machines : /\ agent'[n].up = agent[n].up
                               /\ agent'[n].file = agent[n].file \/ (agent'[n].file # NoCreds /\ agent[n].file # NoCreds),
           \A n \in Machines, d \in Clients : ref'[n][d].at # "idle" => agent[n].up
    PROVE  MachineInv'
<1>1. (Unclaimed' <=> Unclaimed) /\ \A n \in Machines : Holds(n)' <=> Holds(n)
  BY DEF Unclaimed, Holds
<1> QED
  BY <1>1 DEF IInv, MachineInv

(* Tokens are never taken back: what was held before is still issued.       *)
LEMMA IssuedKept ==
    ASSUME IInv, reg' = reg, \A u \in Tokens : tokens[u] # "unissued" => tokens'[u] # "unissued",
           \A n \in Machines : \/ agent'[n].file.refresh \in {agent[n].file.refresh, None}
                               \/ tokens'[agent'[n].file.refresh] # "unissued",
           \A n \in Machines, d \in Clients : ref'[n][d] = ref[n][d] \/ RefOK(n, d)'
    PROVE  IssuedInv'
<1> SUFFICES ASSUME NEW n \in Machines
             PROVE  /\ agent'[n].file.refresh # None => tokens'[agent'[n].file.refresh] # "unissued"
                    /\ reg'[n].at = "reply" => reg'[n].token # None /\ tokens'[reg'[n].token] # "unissued"
                    /\ \A d \in Clients : RefOK(n, d)'
  BY DEF IssuedInv, RefOK
<1>1. /\ agent[n].file.refresh \in Tokens \cup {None} /\ reg[n].token \in Tokens \cup {None}
      /\ \A d \in Clients : ref[n][d].old \in Tokens \cup {None} /\ ref[n][d].new \in Tokens \cup {None}
  BY HeldTokens DEF IInv
<1>2. /\ agent[n].file.refresh # None => tokens[agent[n].file.refresh] # "unissued"
      /\ reg[n].at = "reply" => reg[n].token # None /\ tokens[reg[n].token] # "unissued"
  BY DEF IInv, IssuedInv
<1>3. agent'[n].file.refresh # None => tokens'[agent'[n].file.refresh] # "unissued"
  BY <1>1, <1>2
<1>4. reg'[n].at = "reply" => reg'[n].token # None /\ tokens'[reg'[n].token] # "unissued"
  BY <1>1, <1>2
<1>5. ASSUME NEW d \in Clients PROVE RefOK(n, d)'
  BY <1>1, RefHolds DEF RefOK
<1> QED
  BY <1>3, <1>4, <1>5

(* What a refresh that has no new token does is nobody's loss.              *)
LEMMA TokensKept ==
    ASSUME IInv, UNCHANGED <<tokens, reg, del>>, lost' = lost, \A n \in Machines : agent'[n].file = agent[n].file,
           \A n \in Machines, d \in Clients :
              \/ ref'[n][d] = ref[n][d]
              \/ /\ ref[n][d].at # "reply" /\ ref'[n][d].at \notin {"issued", "reply"}
                 /\ ref'[n][d].old \in {ref[n][d].old, None, agent[n].file.refresh}
    PROVE  TokenInv'
<1> SUFFICES ASSUME ~lost, del.at = "idle", NEW n \in Machines
             PROVE  /\ reg'[n].at = "reply" => tokens'[reg'[n].token] = "valid"
                    /\ \A d \in Clients : FreshInv(n, d)'
                    /\ agent'[n].file.refresh # None =>
                         \/ tokens'[agent'[n].file.refresh] = "valid"
                         \/ \E d \in Clients : ref'[n][d].at = "reply" /\ ref'[n][d].old = agent'[n].file.refresh
  BY DEF TokenInv
<1>1. /\ reg[n].at = "reply" => tokens[reg[n].token] = "valid"
      /\ \A d \in Clients : FreshInv(n, d)
      /\ agent[n].file.refresh # None =>
           \/ tokens[agent[n].file.refresh] = "valid"
           \/ \E d \in Clients : ref[n][d].at = "reply" /\ ref[n][d].old = agent[n].file.refresh
  BY DEF IInv, TokenInv
<1>2. ASSUME NEW d \in Clients PROVE FreshInv(n, d)'
  <2> SUFFICES ASSUME ref'[n][d].at \in {"issued", "reply"} PROVE FreshInv(n, d)'
    BY DEF FreshInv
  <2>1. ref'[n][d] = ref[n][d] /\ ref[n][d].new # None /\ FreshInv(n, d)
    BY <1>1, RefHolds DEF RefOK
  <2>2. tokens'[ref'[n][d].new] = "valid" /\ ref'[n][d].new # agent'[n].file.refresh
    BY <2>1 DEF FreshInv
  <2>3. ASSUME NEW e \in Clients
        PROVE  /\ ref'[n][e].old # ref'[n][d].new
               /\ ref'[n][e].at \in {"issued", "reply"} /\ e # d => ref'[n][e].new # ref'[n][d].new
    <3>1. /\ ref[n][e].old # ref[n][d].new /\ ref[n][d].new # agent[n].file.refresh
          /\ ref[n][e].at \in {"issued", "reply"} /\ e # d => ref[n][e].new # ref[n][d].new
      BY <2>1 DEF FreshInv
    <3> QED
      BY <2>1, <3>1
  <2> QED
    BY <2>2, <2>3 DEF FreshInv
<1>3. agent'[n].file.refresh # None =>
        \/ tokens'[agent'[n].file.refresh] = "valid"
        \/ \E d \in Clients : ref'[n][d].at = "reply" /\ ref'[n][d].old = agent'[n].file.refresh
  BY <1>1
<1> QED
  BY <1>1, <1>2, <1>3

(* A machine that nothing happens to.                                       *)
LEMMA TokenElsewhere ==
    ASSUME IInv, ~lost, del.at = "idle", UNCHANGED <<tokens, reg>>,
           NEW n \in Machines, agent'[n] = agent[n], ref'[n] = ref[n]
    PROVE  /\ reg'[n].at = "reply" => tokens'[reg'[n].token] = "valid"
           /\ \A d \in Clients : FreshInv(n, d)'
           /\ agent'[n].file.refresh # None =>
                \/ tokens'[agent'[n].file.refresh] = "valid"
                \/ \E d \in Clients : ref'[n][d].at = "reply" /\ ref'[n][d].old = agent'[n].file.refresh
<1>1. \A d \in Clients : FreshInv(n, d) => FreshInv(n, d)'
  BY DEF FreshInv
<1> QED
  BY <1>1 DEF IInv, TokenInv

(* Create inserts a row that nobody has claimed.                            *)
LEMMA CreateInv == ASSUME IInv, Create PROVE IInv'
<1>1. host' = [status |-> "pending", address |-> None] /\ del.at = "idle" /\ host.status = "absent"
      /\ UNCHANGED <<mix, tokens, epoch, row, vol, agent, live, reg, ref, del, silent, lost>>
  BY DEF Create, InsertHost
<1>2. tickets' \in [Tickets -> {"unissued", "live", "gone"}] /\ budget' \in Nat
  BY Fresh, SMT, SMTT(20) DEF Create, issueRegistrationToken, IInv, TypeOK, Unissued
<1>3. TypeOK'
  BY <1>1, <1>2 DEF IInv, TypeOK
<1>4. MachineInv' /\ IssuedInv'
  <2>1. MachineInv'
    BY <1>1 DEF IInv, MachineInv, Holds, Unclaimed
  <2>2. IssuedInv'
    BY <1>1 DEF IInv, IssuedInv
  <2> QED
    BY <2>1, <2>2
<1>5. TokenInv'
  BY <1>1 DEF IInv, TokenInv, FreshInv
<1>6. DelInv'
  BY <1>1 DEF DelInv
<1> QED
  BY <1>3, <1>4, <1>5, <1>6 DEF IInv

(* A registration that consumes a ticket holds nothing yet.                 *)
LEMMA RegisterConsumeInv == ASSUME IInv, NEW m \in Machines, NEW k \in Tickets, RegisterConsume(m, k) PROVE IInv'
<1>1. PICK at \in {"consumed", "failed"} : RegStep(m, at)
  BY DEF RegisterConsume
<1>2. /\ reg' \in [Machines -> RegState] /\ reg'[m].at = at /\ reg[m].at \in {"idle", "failed"} /\ ~agent[m].up
      /\ \A n \in Machines \ {m} : reg'[n] = reg[n]
  BY <1>1, RegMoved DEF IInv, RegisterConsume
<1>3. /\ tickets' \in [Tickets -> {"unissued", "live", "gone"}]
      /\ UNCHANGED <<mix, host, tokens, epoch, row, vol, agent, live, ref, del, silent, lost, budget>>
  BY DEF RegisterConsume, IInv, TypeOK
<1>4. TypeOK'
  BY <1>2, <1>3 DEF IInv, TypeOK
<1>5. MachineInv' /\ IssuedInv'
  BY <1>2, <1>3, SMT, SMTT(20) DEF IInv, MachineInv, Holds, Unclaimed, IssuedInv
<1>6. TokenInv' /\ DelInv'
  BY <1>2, <1>3, SMT, SMTT(20) DEF IInv, TokenInv, FreshInv, DelInv
<1> QED
  BY <1>4, <1>5, <1>6 DEF IInv

(* Only the first machine finds the row pending.                            *)
LEMMA RegisterClaimInv == ASSUME IInv, NEW m \in Machines, RegisterClaim(m) PROVE IInv'
<1>1. PICK at \in {"claimed", "failed"} : RegStep(m, at) /\ (at = "claimed" => host' # host)
  BY DEF RegisterClaim
<1>2. /\ reg' \in [Machines -> RegState] /\ reg'[m].at = at /\ reg[m].at = "consumed"
      /\ \A n \in Machines \ {m} : reg'[n] = reg[n]
  BY <1>1, RegMoved DEF IInv, RegisterClaim
<1>3. /\ host' = RegisterHost(m) /\ silent' = FALSE
      /\ UNCHANGED <<mix, tickets, tokens, epoch, row, vol, agent, live, ref, del, lost, budget>>
  BY DEF RegisterClaim
<1>4. TypeOK'
  BY <1>2, <1>3 DEF IInv, TypeOK, RegisterHost
<1>5. MachineInv' /\ IssuedInv'
  BY <1>1, <1>2, <1>3, SMT, SMTT(20) DEF IInv, MachineInv, Holds, Unclaimed, IssuedInv, RegisterHost
<1>6. TokenInv' /\ DelInv'
  BY <1>2, <1>3, SMT, SMTT(20) DEF IInv, TokenInv, FreshInv, DelInv, RegisterHost
<1> QED
  BY <1>4, <1>5, <1>6 DEF IInv

(* The first refresh token is a fresh one.                                  *)
LEMMA RegisterIssueInv == ASSUME IInv, NEW m \in Machines, RegisterIssue(m) PROVE IInv'
<1>1. reg[m].at = "claimed" /\ UNCHANGED <<mix, host, tickets, epoch, row, vol, agent, live, ref, del, silent, lost, budget>>
  BY DEF RegisterIssue
<1>2. CASE ~GetHost
  <2>1. /\ reg' \in [Machines -> RegState] /\ reg'[m].at = "failed"
        /\ \A n \in Machines \ {m} : reg'[n] = reg[n]
        /\ UNCHANGED tokens
    BY <1>2, RegMoved DEF IInv, RegisterIssue
  <2>2. TypeOK'
    BY <1>1, <2>1 DEF IInv, TypeOK
  <2>3. MachineInv' /\ IssuedInv'
    BY <1>1, <2>1, SMT, SMTT(20) DEF IInv, MachineInv, Holds, Unclaimed, IssuedInv
  <2>4. TokenInv' /\ DelInv'
    BY <1>1, <2>1, SMT, SMTT(20) DEF IInv, TokenInv, FreshInv, DelInv
  <2> QED
    BY <2>2, <2>3, <2>4 DEF IInv
<1>3. CASE GetHost
  <2>1. PICK t \in Tokens : /\ tokens[t] = "unissued" /\ tokens' = [tokens EXCEPT ![t] = "valid"]
                            /\ reg' = [reg EXCEPT ![m] = [at |-> "reply", token |-> t]]
    BY <1>3, Fresh DEF IInv, TypeOK, RegisterIssue, Unissued, InsertHostRefreshToken
  <2>2. /\ reg' \in [Machines -> RegState] /\ reg'[m].at = "reply" /\ reg'[m].token = t /\ t # None
        /\ \A n \in Machines \ {m} : reg'[n] = reg[n]
    BY <2>1, HostsAssumption DEF IInv, TypeOK, RegState
  <2>3. /\ tokens' \in [Tokens -> {"unissued", "valid", "revoked"}] /\ tokens'[t] = "valid"
        /\ \A u \in Tokens : tokens[u] # "unissued" => tokens'[u] = tokens[u]
    BY <2>1 DEF IInv, TypeOK
  <2>4. TypeOK'
    BY <1>1, <2>2, <2>3 DEF IInv, TypeOK
  <2>5. MachineInv'
    BY <1>1, <2>2, SMT, SMTT(20) DEF IInv, MachineInv, Holds, Unclaimed
  <2>6. \A n \in Machines : /\ agent[n].file.refresh \in Tokens \cup {None}
                            /\ \A c \in Clients : ref[n][c].old \in Tokens \cup {None} /\ ref[n][c].new \in Tokens \cup {None}
                            /\ reg[n].token \in Tokens \cup {None}
    BY SMT, SMTT(20) DEF IInv, TypeOK, AgentState, RefState, RegState
  <2>7. IssuedInv'
    BY <1>1, <2>2, <2>3, <2>6, SMT, SMTT(20) DEF IInv, IssuedInv
  <2>8. TokenInv'
    BY <1>1, <2>2, <2>3, <2>6, SMT, SMTT(20) DEF IInv, IssuedInv, TokenInv, FreshInv
  <2>9. DelInv'
    BY <1>1, <1>3, <2>3 DEF IInv, DelInv, GetHost
  <2> QED
    BY <2>4, <2>5, <2>7, <2>8, <2>9 DEF IInv
<1> QED
  BY <1>2, <1>3

(* The agent that registered runs on the token it was given.                *)
LEMMA RegisterSaveInv == ASSUME IInv, NEW m \in Machines, RegisterSave(m) PROVE IInv'
<1>1. /\ reg[m].at = "reply" /\ reg[m].token \in Tokens
      /\ UNCHANGED <<mix, host, tickets, tokens, epoch, row, vol, live, ref, del, silent, lost, budget>>
  BY DEF RegisterSave, IInv, TypeOK, IssuedInv, RegState
<1>2. PICK file \in [refresh : Tokens \cup {None}, jwt : Nat] : file = [refresh |-> reg[m].token, jwt |-> epoch]
  <2>1. epoch \in Nat
    BY HostsAssumption, SMT, SMTT(20) DEF IInv, TypeOK
  <2> QED
    BY <1>1, <2>1
<1>3. PICK a \in AgentState : a = Boot(file)
  BY Booted
<1>4. /\ agent' \in [Machines -> AgentState] /\ agent'[m] = a
      /\ \A n \in Machines \ {m} : agent'[n] = agent[n]
  BY <1>2, <1>3, AgentSet DEF RegisterSave, IInv
<1>5. /\ reg' \in [Machines -> RegState] /\ reg'[m].at = "done"
      /\ \A n \in Machines \ {m} : reg'[n] = reg[n]
  BY RegMoved DEF RegisterSave, IInv
<1>6. a.file.refresh = reg[m].token /\ a.up /\ a.file # NoCreds
  BY <1>1, <1>2, <1>3, Booted, HostsAssumption, SMT, SMTT(20) DEF NoCreds
<1>7. TypeOK'
  BY <1>1, <1>4, <1>5 DEF IInv, TypeOK
<1>8. MachineInv'
  BY <1>1, <1>4, <1>5, <1>6, SMT, SMTT(20) DEF IInv, MachineInv, Holds, Unclaimed
<1>9. \A n \in Machines, c \in Clients : ref[n][c].at = "idle"
  BY <1>1 DEF IInv, MachineInv, Holds
<1>10. IssuedInv'
  <2>1. tokens[reg[m].token] # "unissued"
    BY <1>1 DEF IInv, IssuedInv
  <2> QED
    BY <1>1, <1>4, <1>5, <1>6, <2>1, SMT, SMTT(20) DEF IInv, IssuedInv
<1>11. TokenInv' /\ DelInv'
  BY <1>1, <1>4, <1>5, <1>6, <1>9, SMT, SMTT(20) DEF IInv, TokenInv, FreshInv, DelInv
<1> QED
  BY <1>7, <1>8, <1>10, <1>11 DEF IInv

(* So does one whose answer is lost: the machine is as before.              *)
LEMMA RegisterLostInv == ASSUME IInv, NEW m \in Machines, RegisterLost(m) PROVE IInv'
<1>1. /\ reg' \in [Machines -> RegState] /\ reg'[m].at = "failed" /\ reg[m].at = "reply"
      /\ \A n \in Machines \ {m} : reg'[n] = reg[n]
  BY RegMoved DEF IInv, RegisterLost
<1>2. /\ UNCHANGED <<mix, host, tickets, tokens, epoch, row, vol, agent, live, ref, del, silent, lost>>
      /\ budget' \in Nat
  BY SMT, SMTT(20) DEF RegisterLost, IInv, TypeOK
<1>3. TypeOK'
  BY <1>1, <1>2 DEF IInv, TypeOK
<1>4. MachineInv' /\ IssuedInv'
  BY <1>1, <1>2, SMT, SMTT(20) DEF IInv, MachineInv, Holds, Unclaimed, IssuedInv
<1>5. TokenInv' /\ DelInv'
  BY <1>1, <1>2, SMT, SMTT(20) DEF IInv, TokenInv, FreshInv, DelInv
<1> QED
  BY <1>3, <1>4, <1>5 DEF IInv

(* An agent that changes neither its file nor whether it runs.              *)
LEMMA AgentKept ==
    ASSUME IInv, NEW m \in Machines, NEW a \in AgentState, agent' = [agent EXCEPT ![m] = a],
           a.file = agent[m].file, a.up = agent[m].up
    PROVE  /\ agent' \in [Machines -> AgentState]
           /\ \A n \in Machines : agent'[n].file = agent[n].file /\ agent'[n].up = agent[n].up
  BY AgentSet DEF IInv

(* A client that begins to refresh presents no token yet.                  *)
LEMMA RefreshBegins ==
    ASSUME IInv, NEW m \in Machines, NEW c \in Clients, agent[m].up, ref[m][c].at = "idle",
           ref' = ref \/ RefStep(m, c, "load"), UNCHANGED <<tokens, reg, del, lost>>,
           \A n \in Machines : agent'[n].file = agent[n].file /\ agent'[n].up = agent[n].up
    PROVE  /\ ref' \in [Machines -> [Clients -> RefState]] /\ IssuedInv' /\ TokenInv'
           /\ \A n \in Machines, d \in Clients : ref'[n][d].at # "idle" => agent'[n].up
<1>1. CASE ref' = ref
  <2>1. IssuedInv'
    BY <1>1, IssuedKept
  <2>2. TokenInv'
    BY <1>1, TokensKept
  <2>3. \A n \in Machines, d \in Clients : ref'[n][d].at # "idle" => agent'[n].up
    BY <1>1 DEF IInv, MachineInv
  <2> QED
    BY <1>1, <2>1, <2>2, <2>3 DEF IInv, TypeOK
<1>2. CASE RefStep(m, c, "load")
  <2>1. /\ ref' \in [Machines -> [Clients -> RefState]]
        /\ ref'[m][c].at = "load" /\ ref'[m][c].old = ref[m][c].old
        /\ \A d \in Clients \ {c} : ref'[m][d] = ref[m][d]
        /\ \A n \in Machines \ {m} : ref'[n] = ref[n]
    BY <1>2, RefMoved DEF IInv
  <2>2. RefOK(m, c)'
    BY <2>1, RefHolds, SMT, SMTT(20) DEF RefOK
  <2>3. IssuedInv'
    BY <2>1, <2>2, IssuedKept
  <2>4. TokenInv'
    BY <2>1, TokensKept
  <2>5. \A n \in Machines, d \in Clients : ref'[n][d].at # "idle" => agent'[n].up
    BY <2>1, RefreshersRun
  <2> QED
    BY <2>1, <2>3, <2>4, <2>5
<1> QED
  BY <1>1, <1>2

(* A heartbeat: the outcome touches no credentials, as no answer is 404.    *)
LEMMA BeatInv == ASSUME IInv, NEW m \in Machines, Beat(m) PROVE IInv'
<1>1. /\ agent[m].up /\ ref[m]["heartbeat"].at = "idle"
      /\ UNCHANGED <<mix, tickets, tokens, epoch, row, vol, live, reg, del, lost, budget>>
  BY DEF Beat, Beating
<1>2. PICK a \in AgentState : /\ a = AfterBeat(m, HeartbeatStatus(m))
                              /\ a.file = agent[m].file /\ a.up = agent[m].up
  <2>1. agent[m] \in AgentState
    BY DEF IInv, TypeOK
  <2>2. CASE HeartbeatStatus(m) = 204
    <3>1. [agent[m] EXCEPT !.fails = 0, !.paused = FALSE] \in AgentState
      <4>1. 0 \in 0..FailureLimit
        BY HostsAssumption, SMT, SMTT(20)
      <4> QED
        BY <2>1, <4>1 DEF AgentState
    <3>2. AfterBeat(m, HeartbeatStatus(m)) = [agent[m] EXCEPT !.fails = 0, !.paused = FALSE]
      BY <2>2, SMT, SMTT(20) DEF AfterBeat
    <3> QED
      BY <2>1, <3>1, <3>2 DEF AgentState
  <2>3. CASE HeartbeatStatus(m) \in {401, 500}
    <3>1. AfterBeat(m, HeartbeatStatus(m)) = agent[m]
      BY <2>3, SMT, SMTT(20) DEF AfterBeat
    <3> QED
      BY <2>1, <3>1
  <2> QED
    BY <2>2, <2>3, SMT, SMTT(20) DEF HeartbeatStatus
<1>3. /\ agent' \in [Machines -> AgentState]
      /\ \A n \in Machines : agent'[n].file = agent[n].file /\ agent'[n].up = agent[n].up
  BY <1>2, AgentKept DEF Beat
<1>4. /\ host' \in [status : {"absent", "pending", "online", "unreachable"}, address : Machines \cup {None}]
      /\ host.status \in {"absent", "pending"} => host'.status = host.status
      /\ host'.status \in {"absent", "pending"} => host.status = host'.status
      /\ silent' \in BOOLEAN
  BY DEF Beat, UpdateHostHeartbeatAndStatus, IInv, TypeOK
<1>5. /\ ref' \in [Machines -> [Clients -> RefState]] /\ IssuedInv' /\ TokenInv'
      /\ \A n \in Machines, c \in Clients : ref'[n][c].at # "idle" => agent'[n].up
  <2>1. "heartbeat" \in Clients /\ (ref' = ref \/ RefStep(m, "heartbeat", "load"))
    BY DEF Beat, RefStep, Clients
  <2> QED
    BY <1>1, <1>3, <2>1, RefreshBegins
<1>6. TypeOK'
  BY <1>1, <1>3, <1>4, <1>5 DEF IInv, TypeOK
<1>7. MachineInv'
  <2>1. (Unclaimed' <=> Unclaimed) /\ \A n \in Machines : Holds(n)' <=> Holds(n)
    BY <1>1, <1>3, <1>4 DEF Unclaimed, Holds
  <2> QED
    BY <1>1, <1>3, <1>5, <2>1 DEF IInv, MachineInv
<1>8. DelInv'
  BY <1>1, <1>4 DEF IInv, DelInv
<1> QED
  BY <1>5, <1>6, <1>7, <1>8 DEF IInv

(* A failed heartbeat counts, and pauses what runs at the limit.            *)
LEMMA BeatFailsInv == ASSUME IInv, NEW m \in Machines, BeatFails(m) PROVE IInv'
<1>1. /\ UNCHANGED <<mix, host, tickets, tokens, epoch, row, vol, reg, ref, del, silent, lost>> /\ budget' \in Nat
  BY SMT, SMTT(20) DEF BeatFails, IInv, TypeOK
<1>2. agent[m] \in AgentState /\ agent[m].fails \in 0..FailureLimit /\ agent[m].paused \in BOOLEAN
  BY DEF IInv, TypeOK, AgentState
<1>3. PICK n \in 0..FailureLimit : n = IF agent[m].fails < FailureLimit THEN agent[m].fails + 1 ELSE FailureLimit
  BY <1>2, HostsAssumption, SMT, SMTT(20)
<1>4. PICK p \in BOOLEAN : p = (agent[m].paused \/ n >= FailureLimit)
  OBVIOUS
<1>5. PICK a \in AgentState : /\ a = [agent[m] EXCEPT !.fails = n, !.paused = p]
                              /\ a.file = agent[m].file /\ a.up = agent[m].up
  <2>1. [agent[m] EXCEPT !.fails = n, !.paused = p] \in AgentState
    BY <1>2 DEF AgentState
  <2> QED
    BY <1>2, <2>1 DEF AgentState
<1>6. PauseAll(m, a)
  BY <1>2, <1>3, <1>4, <1>5 DEF BeatFails, AgentState
<1>7. /\ agent' \in [Machines -> AgentState]
      /\ \A l \in Machines : agent'[l].file = agent[l].file /\ agent'[l].up = agent[l].up
      /\ live' \in [Boxes -> {"absent", "running", "paused"}]
  BY <1>5, <1>6, AgentKept DEF PauseAll, Paused, IInv, TypeOK
<1>8. TypeOK'
  BY <1>1, <1>7 DEF IInv, TypeOK
<1>9. MachineInv'
  <2>1. \A l \in Machines, d \in Clients : ref'[l][d].at # "idle" => agent[l].up
    BY <1>1 DEF IInv, MachineInv
  <2> QED
    BY <1>1, <1>7, <2>1, MachinesKept
<1>10. IssuedInv'
  BY <1>1, <1>7, IssuedKept
<1>11. TokenInv'
  BY <1>1, <1>7, TokensKept
<1>12. DelInv'
  BY <1>1 DEF IInv, DelInv
<1> QED
  BY <1>8, <1>9, <1>10, <1>11, <1>12 DEF IInv

(* A callback that is rejected makes the sender refresh as well.            *)
LEMMA CallbackRejectedInv == ASSUME IInv, NEW m \in Machines, CallbackRejected(m) PROVE IInv'
<1>1. /\ agent[m].up /\ ref[m]["callback"].at = "idle" /\ "callback" \in Clients /\ RefStep(m, "callback", "load")
      /\ UNCHANGED <<mix, host, tickets, tokens, epoch, row, vol, agent, live, reg, del, silent, lost, budget>>
  BY DEF CallbackRejected, RefStep, Clients
<1>2. /\ ref' \in [Machines -> [Clients -> RefState]] /\ IssuedInv' /\ TokenInv'
      /\ \A n \in Machines, c \in Clients : ref'[n][c].at # "idle" => agent'[n].up
  BY <1>1, RefreshBegins
<1>3. TypeOK'
  BY <1>1, <1>2 DEF IInv, TypeOK
<1>4. MachineInv' /\ DelInv'
  BY <1>1, <1>2 DEF IInv, MachineInv, Holds, Unclaimed, DelInv
<1> QED
  BY <1>2, <1>3, <1>4 DEF IInv

-----------------------------------------------------------------------------
(* RefreshCredentials and HostService.Refresh *)

(* The client presents the token it found in the file.                      *)
LEMMA RefreshLoadInv == ASSUME IInv, NEW m \in Machines, NEW c \in Clients, RefreshLoad(m, c) PROVE IInv'
<1>1. /\ ref[m][c].at = "load"
      /\ UNCHANGED <<mix, host, tickets, tokens, epoch, row, vol, agent, live, reg, del, silent, lost, budget>>
  BY DEF RefreshLoad
<1>2. agent[m].file.refresh \in Tokens \cup {None}
  BY DEF IInv, TypeOK, AgentState
<1>3. PICK r \in RefState : /\ ref' = [ref EXCEPT ![m][c] = r]
                            /\ r.at \in {"failed", "sent"} /\ r.old = agent[m].file.refresh
                            /\ r.at = "sent" => r.old # None
  <2>1. PICK at \in {"failed", "sent"} : at = IF agent[m].file.refresh = None THEN "failed" ELSE "sent"
    OBVIOUS
  <2>2. [IdleRef EXCEPT !.at = at, !.old = agent[m].file.refresh] \in RefState
    BY <1>2, <2>1 DEF IdleRef, RefState
  <2>3. ref' = [ref EXCEPT ![m][c] = [IdleRef EXCEPT !.at = at, !.old = agent[m].file.refresh]]
    BY <2>1 DEF RefreshLoad
  <2> QED
    BY <2>1, <2>2, <2>3 DEF IdleRef
<1>4. /\ ref' \in [Machines -> [Clients -> RefState]] /\ ref'[m][c] = r
      /\ \A d \in Clients \ {c} : ref'[m][d] = ref[m][d]
      /\ \A n \in Machines \ {m} : ref'[n] = ref[n]
  BY <1>3, RefSet DEF IInv
<1>5. TypeOK'
  BY <1>1, <1>4 DEF IInv, TypeOK
<1>6. MachineInv'
  <2>1. \A n \in Machines, d \in Clients : ref'[n][d].at # "idle" => agent[n].up
    BY <1>1, <1>4, RefreshRuns, RefreshersRun
  <2> QED
    BY <1>1, <2>1, MachinesKept
<1>7. IssuedInv'
  <2>1. RefOK(m, c)'
    BY <1>1, <1>3, <1>4 DEF RefOK, IInv, IssuedInv
  <2> QED
    BY <1>1, <1>4, <2>1, IssuedKept
<1>8. TokenInv'
  BY <1>1, <1>3, <1>4, TokensKept
<1>9. DelInv'
  BY <1>1 DEF IInv, DelInv
<1> QED
  BY <1>5, <1>6, <1>7, <1>8, <1>9 DEF IInv

(* The lookup decides, and changes nothing else.                            *)
LEMMA RefreshLookupInv == ASSUME IInv, NEW m \in Machines, NEW c \in Clients, RefreshLookup(m, c) PROVE IInv'
<1>1. /\ ref[m][c].at = "sent"
      /\ UNCHANGED <<mix, host, tickets, tokens, epoch, row, vol, agent, live, reg, del, silent, lost, budget>>
  BY DEF RefreshLookup
<1>2. PICK at \in {"looked", "failed"} : RefStep(m, c, at)
  BY DEF RefreshLookup
<1>3. /\ ref' \in [Machines -> [Clients -> RefState]]
      /\ ref'[m][c].at = at /\ ref'[m][c].old = ref[m][c].old /\ ref'[m][c].new = ref[m][c].new
      /\ \A d \in Clients \ {c} : ref'[m][d] = ref[m][d]
      /\ \A n \in Machines \ {m} : ref'[n] = ref[n]
  BY <1>2, RefMoved DEF IInv
<1>4. TypeOK'
  BY <1>1, <1>3 DEF IInv, TypeOK
<1>5. MachineInv'
  <2>1. \A n \in Machines, d \in Clients : ref'[n][d].at # "idle" => agent[n].up
    BY <1>1, <1>3, RefreshRuns, RefreshersRun
  <2> QED
    BY <1>1, <2>1, MachinesKept
<1>6. IssuedInv'
  <2>1. RefOK(m, c)'
    BY <1>1, <1>3, RefHolds DEF RefOK
  <2> QED
    BY <1>1, <1>3, <2>1, IssuedKept
<1>7. TokenInv'
  BY <1>1, <1>3, TokensKept
<1>8. DelInv'
  BY <1>1 DEF IInv, DelInv
<1> QED
  BY <1>4, <1>5, <1>6, <1>7, <1>8 DEF IInv

(* The new token is one that nobody has presented.                          *)
LEMMA RefreshIssueInv == ASSUME IInv, NEW m \in Machines, NEW c \in Clients, RefreshIssue(m, c) PROVE IInv'
<1>1. /\ ref[m][c].at = "looked"
      /\ UNCHANGED <<mix, host, tickets, epoch, row, vol, agent, live, reg, del, silent, lost, budget>>
  BY DEF RefreshIssue
<1>2. CASE ~GetHost
  <2>1. UNCHANGED tokens /\ RefStep(m, c, "failed")
    BY <1>2 DEF RefreshIssue
  <2>2. /\ ref' \in [Machines -> [Clients -> RefState]]
        /\ ref'[m][c].at = "failed" /\ ref'[m][c].old = ref[m][c].old /\ ref'[m][c].new = ref[m][c].new
        /\ \A d \in Clients \ {c} : ref'[m][d] = ref[m][d]
        /\ \A n \in Machines \ {m} : ref'[n] = ref[n]
    BY <2>1, RefMoved DEF IInv
  <2>3. TypeOK'
    BY <1>1, <2>1, <2>2 DEF IInv, TypeOK
  <2>4. MachineInv'
    <3>1. \A n \in Machines, d \in Clients : ref'[n][d].at # "idle" => agent[n].up
      BY <1>1, <2>2, RefreshRuns, RefreshersRun
    <3> QED
      BY <1>1, <3>1, MachinesKept
  <2>5. IssuedInv'
    <3>1. RefOK(m, c)'
      BY <1>1, <2>1, <2>2, RefHolds DEF RefOK
    <3> QED
      BY <1>1, <2>1, <2>2, <3>1, IssuedKept
  <2>6. TokenInv'
    BY <1>1, <2>1, <2>2, TokensKept
  <2>7. DelInv'
    BY <1>1, <2>1 DEF IInv, DelInv
  <2> QED
    BY <2>3, <2>4, <2>5, <2>6, <2>7 DEF IInv
<1>3. CASE GetHost
  <2>1. PICK t \in Tokens :
          /\ tokens[t] = "unissued" /\ tokens' = [tokens EXCEPT ![t] = "valid"]
          /\ ref' = [ref EXCEPT ![m][c] = [ref[m][c] EXCEPT !.at = "issued", !.new = t, !.jwt = epoch]]
    <3>1. Next1(Unissued(tokens)) \in Unissued(tokens)
      BY Fresh DEF RefreshIssue
    <3>2. Next1(Unissued(tokens)) \in Tokens /\ tokens[Next1(Unissued(tokens))] = "unissued"
      BY <3>1 DEF Unissued, IInv, TypeOK
    <3> QED
      BY <1>3, <3>2 DEF RefreshIssue, InsertHostRefreshToken
  <2>2. PICK r \in RefState : /\ ref' = [ref EXCEPT ![m][c] = r]
                              /\ r.at = "issued" /\ r.old = ref[m][c].old /\ r.new = t
    BY <2>1, RefIssued DEF IInv
  <2>3. /\ ref' \in [Machines -> [Clients -> RefState]] /\ ref'[m][c] = r
        /\ \A d \in Clients \ {c} : ref'[m][d] = ref[m][d]
        /\ \A n \in Machines \ {m} : ref'[n] = ref[n]
    BY <2>2, RefSet DEF IInv
  <2>4. /\ tokens' \in [Tokens -> {"unissued", "valid", "revoked"}] /\ tokens'[t] = "valid" /\ t # None
        /\ \A u \in Tokens : tokens[u] # "unissued" => tokens'[u] = tokens[u] /\ u # t
    BY <2>1, HostsAssumption DEF IInv, TypeOK
  <2>5. \A n \in Machines : /\ agent[n].file.refresh \in Tokens \cup {None} /\ reg[n].token \in Tokens \cup {None}
                            /\ \A d \in Clients : ref[n][d].old \in Tokens \cup {None} /\ ref[n][d].new \in Tokens \cup {None}
    BY HeldTokens DEF IInv
  <2>6. TypeOK'
    BY <1>1, <2>3, <2>4 DEF IInv, TypeOK
  <2>7. MachineInv'
    <3>1. \A n \in Machines, d \in Clients : ref'[n][d].at # "idle" => agent[n].up
      BY <1>1, <2>3, RefreshRuns, RefreshersRun
    <3> QED
      BY <1>1, <3>1, MachinesKept
  <2>8. IssuedInv'
    <3>1. ref[m][c].old \in Tokens /\ tokens[ref[m][c].old] # "unissued" /\ ref[m][c].old # None
      BY <1>1, <2>5, RefHolds DEF RefOK
    <3>2. RefOK(m, c)'
      <4>1. ref'[m][c].old = ref[m][c].old /\ ref'[m][c].new = t
        BY <2>2, <2>3
      <4>2. tokens'[ref[m][c].old] # "unissued" /\ tokens'[t] # "unissued" /\ ref[m][c].old # None /\ t # None
        BY <2>4, <3>1 DEF IInv, IssuedInv
      <4> QED
        BY <4>1, <4>2 DEF RefOK
    <3> QED
      BY <1>1, <2>3, <2>4, <3>2, IssuedKept
  <2>9. TokenInv'
    <3>1. SUFFICES ASSUME ~lost, del.at = "idle", NEW n \in Machines
                   PROVE  /\ reg'[n].at = "reply" => tokens'[reg'[n].token] = "valid"
                          /\ \A d \in Clients : FreshInv(n, d)'
                          /\ agent'[n].file.refresh # None =>
                               \/ tokens'[agent'[n].file.refresh] = "valid"
                               \/ \E d \in Clients : ref'[n][d].at = "reply" /\ ref'[n][d].old = agent'[n].file.refresh
      BY <1>1 DEF TokenInv
    <3>2. /\ reg[n].at = "reply" => tokens[reg[n].token] = "valid"
          /\ \A d \in Clients : FreshInv(n, d)
          /\ agent[n].file.refresh # None =>
               \/ tokens[agent[n].file.refresh] = "valid"
               \/ \E d \in Clients : ref[n][d].at = "reply" /\ ref[n][d].old = agent[n].file.refresh
      BY <3>1 DEF IInv, TokenInv
    <3>3. reg'[n].at = "reply" => tokens'[reg'[n].token] = "valid"
      BY <1>1, <2>4, <2>5, <3>2 DEF IInv, IssuedInv
    <3>4. agent'[n].file.refresh # None =>
               \/ tokens'[agent'[n].file.refresh] = "valid"
               \/ \E d \in Clients : ref'[n][d].at = "reply" /\ ref'[n][d].old = agent'[n].file.refresh
      <4>1. agent[n].file.refresh # None => tokens'[agent[n].file.refresh] = tokens[agent[n].file.refresh]
        BY <2>4, <2>5 DEF IInv, IssuedInv
      <4>2. \A d \in Clients : ref[n][d].at = "reply" => ref'[n][d] = ref[n][d]
        BY <1>1, <2>3
      <4> QED
        BY <1>1, <3>2, <4>1, <4>2
    <3>5. ASSUME NEW d \in Clients PROVE FreshInv(n, d)'
      <4>1. /\ agent[n].file.refresh # t
            /\ \A e \in Clients : /\ ref[n][e].old # t
                                  /\ ref[n][e].at \in {"issued", "reply"} => ref[n][e].new # t
        <5>1. agent[n].file.refresh # t
          BY <2>4, <2>5 DEF IInv, IssuedInv
        <5>2. ASSUME NEW e \in Clients PROVE ref[n][e].old # t /\ (ref[n][e].at \in {"issued", "reply"} => ref[n][e].new # t)
          <6>1. RefOK(n, e) /\ ref[n][e].old \in Tokens \cup {None} /\ ref[n][e].new \in Tokens \cup {None}
            BY <2>5, RefHolds
          <6>2. ref[n][e].old # t
            BY <2>4, <6>1 DEF RefOK
          <6>3. ref[n][e].at \in {"issued", "reply"} => ref[n][e].new # t
            BY <2>4, <6>1 DEF RefOK
          <6> QED
            BY <6>2, <6>3
        <5> QED
          BY <5>1, <5>2
      <4>2. \A e \in Clients : ref'[n][e].old = ref[n][e].old /\ (ref'[n][e] = ref[n][e] \/ (n = m /\ e = c))
        BY <2>2, <2>3
      <4>3. CASE n = m /\ d = c
        <5>1. \A e \in Clients : /\ ref'[n][e].old # ref'[n][d].new
                                 /\ ref'[n][e].at \in {"issued", "reply"} /\ e # d => ref'[n][e].new # ref'[n][d].new
          <6>1. ref'[n][d].new = t
            BY <2>2, <2>3, <4>3
          <6> QED
            <7> TAKE e \in Clients
            <7>1. ref'[n][e].old # ref'[n][d].new
              BY <4>1, <4>2, <6>1
            <7>2. e # d => ref'[n][e] = ref[n][e]
              BY <4>2, <4>3
            <7>3. ref'[n][e].at \in {"issued", "reply"} /\ e # d => ref'[n][e].new # ref'[n][d].new
              BY <4>1, <6>1, <7>2
            <7> QED
              BY <7>1, <7>3
        <5> QED
          BY <1>1, <2>2, <2>3, <2>4, <4>1, <4>3, <5>1 DEF FreshInv
      <4>4. CASE ~(n = m /\ d = c)
        <5> SUFFICES ASSUME ref[n][d].at \in {"issued", "reply"} PROVE FreshInv(n, d)'
          BY <4>2, <4>4 DEF FreshInv
        <5>1. ref'[n][d] = ref[n][d] /\ FreshInv(n, d) /\ ref[n][d].new \in Tokens /\ ref[n][d].new # t
          <6>1. ref'[n][d] = ref[n][d] /\ FreshInv(n, d) /\ RefOK(n, d)
            BY <3>2, <4>2, <4>4, RefHolds
          <6>2. ref[n][d].new # None
            BY <6>1 DEF RefOK
          <6> QED
            <7>1. ref[n][d].new \in Tokens
              BY <2>5, <6>2
            <7>2. ref[n][d].new # t
              BY <4>1
            <7> QED
              BY <6>1, <7>1, <7>2
        <5>2. tokens'[ref[n][d].new] = "valid" /\ ref[n][d].new # agent'[n].file.refresh
          BY <1>1, <2>4, <5>1, RefHolds DEF FreshInv, RefOK
        <5>3. ASSUME NEW e \in Clients
              PROVE  /\ ref'[n][e].old # ref[n][d].new
                     /\ ref'[n][e].at \in {"issued", "reply"} /\ e # d => ref'[n][e].new # ref[n][d].new
          <6>1. /\ ref[n][e].old # ref[n][d].new
                /\ ref[n][e].at \in {"issued", "reply"} /\ e # d => ref[n][e].new # ref[n][d].new
            BY <5>1 DEF FreshInv
          <6>2. ref'[n][e] = ref[n][e] \/ ref'[n][e].new = t
            BY <2>2, <2>3, <4>2
          <6> QED
            BY <4>2, <5>1, <6>1, <6>2
        <5> QED
          BY <5>1, <5>2, <5>3 DEF FreshInv
      <4> QED
        BY <4>3, <4>4
    <3> QED
      BY <3>3, <3>4, <3>5
  <2>10. DelInv'
    BY <1>1, <1>3, <2>4 DEF IInv, DelInv, GetHost
  <2> QED
    BY <2>6, <2>7, <2>8, <2>9, <2>10 DEF IInv
<1> QED
  BY <1>2, <1>3

(* Only the token that was presented is revoked.                            *)
LEMMA RefreshRevokeInv == ASSUME IInv, NEW m \in Machines, NEW c \in Clients, RefreshRevoke(m, c) PROVE IInv'
<1>1. /\ ref[m][c].at = "issued" /\ RefStep(m, c, "reply") /\ tokens' = [tokens EXCEPT ![ref[m][c].old] = "revoked"]
      /\ UNCHANGED <<mix, host, tickets, epoch, row, vol, agent, live, reg, del, silent, lost, budget>>
  BY DEF RefreshRevoke, RevokeHostRefreshToken
<1>2. /\ ref' \in [Machines -> [Clients -> RefState]]
      /\ ref'[m][c].at = "reply" /\ ref'[m][c].old = ref[m][c].old /\ ref'[m][c].new = ref[m][c].new
      /\ \A d \in Clients \ {c} : ref'[m][d] = ref[m][d]
      /\ \A n \in Machines \ {m} : ref'[n] = ref[n]
  BY <1>1, RefMoved DEF IInv
<1>3. PICK t \in Tokens : t = ref[m][c].old
  BY <1>1, HeldTokens, RefHolds DEF IInv, RefOK
<1>4. /\ tokens' \in [Tokens -> {"unissued", "valid", "revoked"}] /\ tokens'[t] = "revoked"
      /\ \A u \in Tokens \ {t} : tokens'[u] = tokens[u]
  BY <1>1, <1>3 DEF IInv, TypeOK
<1>5. \A n \in Machines : /\ agent[n].file.refresh \in Tokens \cup {None} /\ reg[n].token \in Tokens \cup {None}
                          /\ \A d \in Clients : ref[n][d].old \in Tokens \cup {None} /\ ref[n][d].new \in Tokens \cup {None}
  BY HeldTokens DEF IInv
<1>6. TypeOK'
  BY <1>1, <1>2, <1>4 DEF IInv, TypeOK
<1>7. MachineInv'
  <2>1. \A n \in Machines, d \in Clients : ref'[n][d].at # "idle" => agent[n].up
    BY <1>1, <1>2, RefreshRuns, RefreshersRun
  <2> QED
    BY <1>1, <2>1, MachinesKept
<1>8. IssuedInv'
  <2>1. \A u \in Tokens : tokens[u] # "unissued" => tokens'[u] # "unissued"
    BY <1>4
  <2>2. RefOK(m, c)'
    BY <1>1, <1>2, <1>5, <2>1, RefHolds, SMT, SMTT(20) DEF RefOK
  <2> QED
    BY <1>1, <1>2, <2>1, <2>2, IssuedKept
<1>9. TokenInv'
  <2> SUFFICES ASSUME ~lost, del.at = "idle", NEW n \in Machines
               PROVE  /\ reg'[n].at = "reply" => tokens'[reg'[n].token] = "valid"
                      /\ \A d \in Clients : FreshInv(n, d)'
                      /\ agent'[n].file.refresh # None =>
                           \/ tokens'[agent'[n].file.refresh] = "valid"
                           \/ \E d \in Clients : ref'[n][d].at = "reply" /\ ref'[n][d].old = agent'[n].file.refresh
    BY <1>1 DEF TokenInv
  <2>1. agent[m].up /\ Holds(m) /\ (Holds(n) => n = m)
    BY <1>1 DEF IInv, MachineInv, Holds
  <2>2. n # m => ~Holds(n) /\ agent[n].file = NoCreds /\ \A d \in Clients : ref[n][d].at = "idle"
    BY <2>1 DEF IInv, MachineInv, Holds
  <2>3. reg[n].at # "reply"
    BY <2>1, <2>2 DEF IInv, MachineInv, Holds
  <2>4. \A d \in Clients : FreshInv(n, d)'
    <3>1. CASE n = m
      <4> SUFFICES ASSUME NEW d \in Clients PROVE FreshInv(m, d)'
        BY <3>1
      <4>1. FreshInv(m, d)
        BY <1>1 DEF IInv, TokenInv
      <4>2. \A e \in Clients : /\ ref'[m][e].old = ref[m][e].old /\ ref'[m][e].new = ref[m][e].new
                               /\ (ref'[m][e].at \in {"issued", "reply"} <=> ref[m][e].at \in {"issued", "reply"})
        BY <1>1, <1>2
      <4>3. ref[m][d].at \in {"issued", "reply"} => ref[m][d].new \in Tokens \ {t}
        BY <1>3, <1>5, <4>1 DEF IInv, IssuedInv, FreshInv
      <4>4. ref'[m][d].at \in {"issued", "reply"} =>
              tokens'[ref'[m][d].new] = "valid" /\ ref'[m][d].new # agent'[m].file.refresh
        BY <1>1, <1>4, <4>1, <4>2, <4>3 DEF FreshInv
      <4>5. ref'[m][d].at \in {"issued", "reply"} =>
              \A e \in Clients :
                 /\ ref'[m][e].old # ref'[m][d].new
                 /\ ref'[m][e].at \in {"issued", "reply"} /\ e # d => ref'[m][e].new # ref'[m][d].new
        BY <4>1, <4>2 DEF FreshInv
      <4> QED
        BY <4>4, <4>5 DEF FreshInv
    <3>2. CASE n # m
      BY <1>1, <1>2, <2>2, <3>2 DEF FreshInv
    <3> QED
      BY <3>1, <3>2
  <2>5. agent'[n].file.refresh # None =>
           \/ tokens'[agent'[n].file.refresh] = "valid"
           \/ \E d \in Clients : ref'[n][d].at = "reply" /\ ref'[n][d].old = agent'[n].file.refresh
    <3>1. CASE n = m
      <4>1. CASE agent[m].file.refresh = t
        BY <1>1, <1>2, <1>3, <3>1, <4>1
      <4>2. CASE agent[m].file.refresh # t
        <5>1. agent[m].file.refresh # None => tokens'[agent[m].file.refresh] = tokens[agent[m].file.refresh]
          BY <1>4, <1>5, <4>2
        <5>2. \A d \in Clients : ref[m][d].at = "reply" => ref'[m][d].at = "reply" /\ ref'[m][d].old = ref[m][d].old
          BY <1>1, <1>2
        <5> QED
          BY <1>1, <3>1, <5>1, <5>2 DEF IInv, TokenInv
      <4> QED
        BY <4>1, <4>2
    <3>2. CASE n # m
      BY <1>1, <2>2, <3>2, SMT, SMTT(20) DEF NoCreds
    <3> QED
      BY <3>1, <3>2
  <2> QED
    BY <1>1, <2>3, <2>4, <2>5
<1>10. DelInv'
  BY <1>1, <1>4 DEF IInv, DelInv
<1> QED
  BY <1>6, <1>7, <1>8, <1>9, <1>10 DEF IInv

(* The new token replaces the one in the file, which nobody else presents.  *)
LEMMA RefreshSaveInv == ASSUME IInv, NEW m \in Machines, NEW c \in Clients, RefreshSave(m, c) PROVE IInv'
<1>1. /\ ref[m][c].at = "reply" /\ ref' = [ref EXCEPT ![m][c] = IdleRef]
      /\ UNCHANGED <<mix, host, tickets, tokens, epoch, row, vol, live, reg, del, silent, lost, budget>>
  BY DEF RefreshSave
<1>2. IdleRef \in RefState /\ IdleRef.at = "idle" /\ IdleRef.old = None
  BY DEF IdleRef, RefState
<1>3. /\ ref' \in [Machines -> [Clients -> RefState]] /\ ref'[m][c].at = "idle" /\ ref'[m][c].old = None
      /\ \A d \in Clients \ {c} : ref'[m][d] = ref[m][d]
      /\ \A n \in Machines \ {m} : ref'[n] = ref[n]
  BY <1>1, <1>2, RefSet DEF IInv
<1>4. PICK t \in Tokens : t = ref[m][c].new /\ t # None
  BY <1>1, HeldTokens, RefHolds DEF IInv, RefOK
<1>5. PICK a \in AgentState : /\ agent' = [agent EXCEPT ![m] = a] /\ a.file.refresh = t /\ a.file # NoCreds
                              /\ a.up = agent[m].up
  <2>1. agent[m] \in AgentState /\ ref[m][c].jwt \in Nat
    BY SMT, SMTT(20) DEF IInv, TypeOK, RefState
  <2>2. PICK file \in [refresh : Tokens \cup {None}, jwt : Nat] : file = [refresh |-> t, jwt |-> ref[m][c].jwt]
    BY <2>1
  <2>3. file.jwt \in Nat /\ file.refresh = t /\ file # NoCreds
    BY <1>4, <2>2 DEF NoCreds
  <2>4. agent' = [agent EXCEPT ![m] = Adopted(m, c, file)]
    BY <1>4, <2>2 DEF RefreshSave
  <2>5. Adopted(m, c, file) \in AgentState
    BY <2>1, <2>3 DEF Adopted, AgentState
  <2>6. Adopted(m, c, file).file = file /\ Adopted(m, c, file).up = agent[m].up
    BY <2>1 DEF Adopted, AgentState
  <2> QED
    BY <2>3, <2>4, <2>5, <2>6
<1>6. /\ agent' \in [Machines -> AgentState] /\ agent'[m] = a
      /\ \A n \in Machines \ {m} : agent'[n] = agent[n]
  BY <1>5, AgentSet DEF IInv
<1>7. TypeOK'
  BY <1>1, <1>3, <1>6 DEF IInv, TypeOK
<1>8. agent[m].up /\ agent[m].file # NoCreds
  BY <1>1 DEF IInv, MachineInv
<1>9. MachineInv'
  <2>1. \A n \in Machines, d \in Clients : ref'[n][d].at # "idle" => agent[n].up
    BY <1>3, RefreshRuns, RefreshersRun
  <2> QED
    BY <1>1, <1>5, <1>6, <1>8, <2>1, MachinesKept
<1>10. IssuedInv'
  <2>1. RefOK(m, c)'
    BY <1>3 DEF RefOK
  <2>2. tokens'[agent'[m].file.refresh] # "unissued"
    BY <1>1, <1>4, <1>5, <1>6, RefHolds, SMT, SMTT(20) DEF RefOK
  <2> QED
    BY <1>1, <1>3, <1>6, <2>1, <2>2, IssuedKept
<1>11. TokenInv'
  <2> SUFFICES ASSUME ~lost, del.at = "idle", NEW n \in Machines
               PROVE  /\ reg'[n].at = "reply" => tokens'[reg'[n].token] = "valid"
                      /\ \A d \in Clients : FreshInv(n, d)'
                      /\ agent'[n].file.refresh # None =>
                           \/ tokens'[agent'[n].file.refresh] = "valid"
                           \/ \E d \in Clients : ref'[n][d].at = "reply" /\ ref'[n][d].old = agent'[n].file.refresh
    BY <1>1 DEF TokenInv
  <2>1. CASE n = m
    <3>1. tokens[t] = "valid"
      BY <1>1, <1>4 DEF IInv, TokenInv, FreshInv
    <3>2. ASSUME NEW d \in Clients PROVE FreshInv(m, d)'
      <4>1. FreshInv(m, d)
        BY <1>1 DEF IInv, TokenInv
      <4>2. ref[m][d].at \in {"issued", "reply"} => ref[m][d].new # None
        BY DEF IInv, IssuedInv
      <4>3. d # c /\ ref[m][d].at \in {"issued", "reply"} => ref[m][d].new # t
        BY <1>1, <1>4, <4>1 DEF FreshInv
      <4> SUFFICES ASSUME ref'[m][d].at \in {"issued", "reply"} PROVE FreshInv(m, d)'
        BY DEF FreshInv
      <4>4. d # c /\ ref'[m][d] = ref[m][d] /\ agent'[m].file.refresh = t
        BY <1>3, <1>5, <1>6
      <4>5. tokens'[ref[m][d].new] = "valid" /\ ref[m][d].new # t
        BY <1>1, <4>1, <4>3, <4>4 DEF FreshInv
      <4>6. ASSUME NEW e \in Clients
            PROVE  /\ ref'[m][e].old # ref[m][d].new
                   /\ ref'[m][e].at \in {"issued", "reply"} /\ e # d => ref'[m][e].new # ref[m][d].new
        BY <1>3, <4>1, <4>2, <4>4 DEF FreshInv
      <4> QED
        BY <4>4, <4>5, <4>6 DEF FreshInv
    <3> QED
      BY <1>1, <1>5, <1>6, <2>1, <3>1, <3>2 DEF IInv, TokenInv
  <2>2. CASE n # m
    <3>1. agent'[n] = agent[n] /\ ref'[n] = ref[n]
      BY <1>3, <1>6, <2>2
    <3> QED
      BY <1>1, <3>1, TokenElsewhere
  <2> QED
    BY <2>1, <2>2
<1>12. DelInv'
  BY <1>1 DEF IInv, DelInv
<1> QED
  BY <1>7, <1>9, <1>10, <1>11, <1>12 DEF IInv

(* A refresh that failed burns nothing; the heartbeat loop pauses and stops.*)
LEMMA RefreshFailedInv == ASSUME IInv, NEW m \in Machines, NEW c \in Clients, RefreshFailed(m, c) PROVE IInv'
<1>1. /\ ref[m][c].at = "failed" /\ ref' = [ref EXCEPT ![m][c] = IdleRef]
      /\ UNCHANGED <<mix, host, tickets, tokens, epoch, row, vol, reg, del, silent, lost, budget>>
  BY DEF RefreshFailed
<1>2. IdleRef \in RefState /\ IdleRef.at = "idle" /\ IdleRef.old = None
  BY DEF IdleRef, RefState
<1>3. /\ ref' \in [Machines -> [Clients -> RefState]] /\ ref'[m][c].at = "idle" /\ ref'[m][c].old = None
      /\ \A d \in Clients \ {c} : ref'[m][d] = ref[m][d]
      /\ \A n \in Machines \ {m} : ref'[n] = ref[n]
  BY <1>1, <1>2, RefSet DEF IInv
<1>4. PICK a \in AgentState : /\ a = [agent[m] EXCEPT !.paused = TRUE, !.loop = "stopped"]
                              /\ a.file = agent[m].file /\ a.up = agent[m].up
  <2>1. agent[m] \in AgentState
    BY DEF IInv, TypeOK
  <2>2. [agent[m] EXCEPT !.paused = TRUE, !.loop = "stopped"] \in AgentState
    BY <2>1 DEF AgentState
  <2> QED
    BY <2>1, <2>2 DEF AgentState
<1>5. /\ agent' \in [Machines -> AgentState] /\ live' \in [Boxes -> {"absent", "running", "paused"}]
      /\ \A n \in Machines : agent'[n].file = agent[n].file /\ agent'[n].up = agent[n].up
  <2>1. CASE c = "heartbeat"
    <3>1. agent' = [agent EXCEPT ![m] = a] /\ (live' = live \/ live' = Paused)
      BY <1>4, <2>1 DEF RefreshFailed, PauseAll
    <3>2. live \in [Boxes -> {"absent", "running", "paused"}] /\ Paused \in [Boxes -> {"absent", "running", "paused"}]
      BY DEF IInv, TypeOK, Paused
    <3> QED
      BY <1>4, <3>1, <3>2, AgentKept
  <2>2. CASE c # "heartbeat"
    BY <2>2 DEF RefreshFailed, IInv, TypeOK
  <2> QED
    BY <2>1, <2>2
<1>6. TypeOK'
  BY <1>1, <1>3, <1>5 DEF IInv, TypeOK
<1>7. MachineInv'
  <2>1. \A n \in Machines, d \in Clients : ref'[n][d].at # "idle" => agent[n].up
    BY <1>3, RefreshRuns, RefreshersRun
  <2> QED
    BY <1>1, <1>5, <2>1, MachinesKept
<1>8. IssuedInv'
  <2>1. RefOK(m, c)'
    BY <1>3 DEF RefOK
  <2> QED
    BY <1>1, <1>3, <1>5, <2>1, IssuedKept
<1>9. TokenInv'
  BY <1>1, <1>3, <1>5, TokensKept
<1>10. DelInv'
  BY <1>1 DEF IInv, DelInv
<1> QED
  BY <1>6, <1>7, <1>8, <1>9, <1>10 DEF IInv

(* New credentials that are lost on their way are not promised anything.    *)
LEMMA RefreshLostInv == ASSUME IInv, NEW m \in Machines, NEW c \in Clients, RefreshLost(m, c) PROVE IInv'
<1>1. /\ budget > 0 /\ ref[m][c].at = "reply" /\ RefStep(m, c, "failed") /\ budget' = budget - 1 /\ lost' = TRUE
      /\ UNCHANGED <<mix, host, tickets, tokens, epoch, row, vol, agent, live, reg, del, silent>>
  BY DEF RefreshLost
<1>2. /\ ref' \in [Machines -> [Clients -> RefState]]
      /\ ref'[m][c].at = "failed" /\ ref'[m][c].old = ref[m][c].old /\ ref'[m][c].new = ref[m][c].new
      /\ \A d \in Clients \ {c} : ref'[m][d] = ref[m][d]
      /\ \A n \in Machines \ {m} : ref'[n] = ref[n]
  BY <1>1, RefMoved DEF IInv
<1>3. budget' \in Nat
  BY <1>1, SMT, SMTT(20) DEF IInv, TypeOK
<1>4. TypeOK'
  BY <1>1, <1>2, <1>3 DEF IInv, TypeOK
<1>5. MachineInv'
  <2>1. \A n \in Machines, d \in Clients : ref'[n][d].at # "idle" => agent[n].up
    BY <1>1, <1>2, RefreshRuns, RefreshersRun
  <2> QED
    BY <1>1, <2>1, MachinesKept
<1>6. IssuedInv'
  <2>1. RefOK(m, c)'
    BY <1>1, <1>2, RefHolds DEF RefOK
  <2> QED
    BY <1>1, <1>2, <2>1, IssuedKept
<1>7. TokenInv' /\ DelInv'
  BY <1>1 DEF IInv, TokenInv, DelInv
<1> QED
  BY <1>4, <1>5, <1>6, <1>7 DEF IInv

(* An agent that stops, or starts again, keeps its file or loses it, and    *)
(* its refreshes are gone.                                                  *)
LEMMA Restarted ==
    ASSUME IInv, NEW m \in Machines, agent[m].up, NEW a \in AgentState, agent' = [agent EXCEPT ![m] = a],
           a.file \in {agent[m].file, NoCreds}, a.up => a.file # NoCreds,
           ref' = [ref EXCEPT ![m] = [c \in Clients |-> IdleRef]],
           UNCHANGED <<host, tokens, reg>>, Unclaimed' => Unclaimed
    PROVE  /\ agent' \in [Machines -> AgentState] /\ ref' \in [Machines -> [Clients -> RefState]]
           /\ MachineInv' /\ IssuedInv'
           /\ \A c \in Clients : ref'[m][c].at = "idle" /\ ref'[m][c].old = None
           /\ \A n \in Machines \ {m} : agent'[n] = agent[n] /\ ref'[n] = ref[n]
           /\ agent'[m].file \in {agent[m].file, NoCreds}
<1>1. IdleRef \in RefState /\ IdleRef.at = "idle" /\ IdleRef.old = None
  BY DEF IdleRef, RefState
<1>2. /\ ref' \in [Machines -> [Clients -> RefState]]
      /\ \A c \in Clients : ref'[m][c].at = "idle" /\ ref'[m][c].old = None
      /\ \A n \in Machines \ {m} : ref'[n] = ref[n]
  BY <1>1 DEF IInv, TypeOK
<1>3. /\ agent' \in [Machines -> AgentState] /\ agent'[m] = a
      /\ \A n \in Machines \ {m} : agent'[n] = agent[n]
  BY AgentSet DEF IInv
<1>4. MachineInv'
  <2>1. \A n \in Machines : Holds(n)' => Holds(n)
    BY <1>3 DEF Holds
  <2>2. reg[m].at \notin {"consumed", "claimed", "reply"}
    BY DEF IInv, MachineInv
  <2>3. \A n \in Machines : /\ agent'[n].up => agent'[n].file # NoCreds
                            /\ \A c \in Clients : ref'[n][c].at # "idle" => agent'[n].up
                            /\ reg'[n].at \in {"consumed", "claimed", "reply"} => ~agent'[n].up
    BY <1>2, <1>3, <2>2 DEF IInv, MachineInv
  <2> QED
    BY <2>1, <2>3 DEF IInv, MachineInv
<1>5. IssuedInv'
  <2>1. \A c \in Clients : RefOK(m, c)'
    BY <1>2 DEF RefOK
  <2>2. agent'[m].file.refresh \in {agent[m].file.refresh, None}
    BY <1>3, SMT, SMTT(20) DEF NoCreds
  <2> QED
    BY <1>2, <1>3, <2>1, <2>2, IssuedKept
<1> QED
  BY <1>2, <1>3, <1>4, <1>5

LEMMA CrashInv == ASSUME IInv, NEW m \in Machines, Crash(m) PROVE IInv'
<1>1. /\ budget > 0 /\ agent[m].up
      /\ ref' = [ref EXCEPT ![m] = [c \in Clients |-> IdleRef]]
      /\ live' = [b \in Boxes |-> IF live[b] = "running" THEN "absent" ELSE live[b]]
      /\ budget' = budget - 1 /\ lost' = (lost \/ \E c \in Clients : ref[m][c].at = "reply")
      /\ UNCHANGED <<mix, host, tickets, tokens, epoch, row, vol, reg, del, silent>>
  BY DEF Crash
<1>2. PICK file \in {agent[m].file, NoCreds} :
        agent' = [agent EXCEPT ![m] = Boot(file)] /\ (file = NoCreds \/ file = agent[m].file)
  BY DEF Crash
<1>3. Boot(file) \in AgentState /\ Boot(file).file = file /\ (Boot(file).up <=> file # NoCreds)
  <2>1. agent[m].file \in [refresh : Tokens \cup {None}, jwt : Nat]
    BY DEF IInv, TypeOK, AgentState
  <2>2. NoCreds \in [refresh : Tokens \cup {None}, jwt : Nat]
    BY DEF NoCreds
  <2> QED
    BY <1>2, <2>1, <2>2, Booted
<1>4. /\ agent' \in [Machines -> AgentState] /\ ref' \in [Machines -> [Clients -> RefState]]
      /\ MachineInv' /\ IssuedInv'
      /\ \A c \in Clients : ref'[m][c].at = "idle" /\ ref'[m][c].old = None
      /\ \A n \in Machines \ {m} : agent'[n] = agent[n] /\ ref'[n] = ref[n]
      /\ agent'[m].file \in {agent[m].file, NoCreds}
  <2>1. Unclaimed' => Unclaimed
    BY <1>1 DEF Unclaimed
  <2> QED
    BY <1>1, <1>2, <1>3, <2>1, Restarted
<1>5. TypeOK'
  <2>1. budget' \in Nat
    BY <1>1, SMT, SMTT(20) DEF IInv, TypeOK
  <2>2. live' \in [Boxes -> {"absent", "running", "paused"}]
    BY <1>1 DEF IInv, TypeOK
  <2>3. lost' \in BOOLEAN
    BY <1>1
  <2> QED
    BY <1>1, <1>4, <2>1, <2>2, <2>3 DEF IInv, TypeOK
<1>6. TokenInv'
  <2> SUFFICES ASSUME ~lost', del'.at = "idle", NEW n \in Machines
               PROVE  /\ reg'[n].at = "reply" => tokens'[reg'[n].token] = "valid"
                      /\ \A d \in Clients : FreshInv(n, d)'
                      /\ agent'[n].file.refresh # None =>
                           \/ tokens'[agent'[n].file.refresh] = "valid"
                           \/ \E d \in Clients : ref'[n][d].at = "reply" /\ ref'[n][d].old = agent'[n].file.refresh
    BY DEF TokenInv
  <2>1. ~lost /\ del.at = "idle" /\ \A c \in Clients : ref[m][c].at # "reply"
    BY <1>1
  <2>2. CASE n = m
    <3>1. \A d \in Clients : FreshInv(n, d)'
      BY <1>4, <2>2 DEF FreshInv
    <3>2. agent[m].file.refresh # None => tokens[agent[m].file.refresh] = "valid"
      BY <2>1 DEF IInv, TokenInv
    <3>3. agent'[m].file.refresh = agent[m].file.refresh \/ agent'[m].file.refresh = None
      BY <1>4, SMT, SMTT(20) DEF NoCreds
    <3>4. reg'[n].at = "reply" => tokens'[reg'[n].token] = "valid"
      BY <1>1, <2>1 DEF IInv, TokenInv
    <3> QED
      BY <1>1, <2>2, <3>1, <3>2, <3>3, <3>4
  <2>3. CASE n # m
    <3>1. agent'[n] = agent[n] /\ ref'[n] = ref[n]
      BY <1>4, <2>3
    <3> QED
      BY <1>1, <2>1, <3>1, TokenElsewhere
  <2> QED
    BY <2>2, <2>3
<1>7. DelInv'
  BY <1>1 DEF IInv, DelInv
<1> QED
  BY <1>4, <1>5, <1>6, <1>7 DEF IInv

(* Terminate stops the agent on the machine that the row names.             *)
LEMMA DeleteTerminateInv == ASSUME IInv, DeleteTerminate PROVE IInv'
<1>1. /\ del.at = "agent" /\ DelStep("rows")
      /\ UNCHANGED <<mix, host, tickets, tokens, epoch, row, vol, reg, silent, lost, budget>>
  BY DEF DeleteTerminate
<1>2. del' \in DelState /\ del'.at = "rows"
  BY <1>1 DEF IInv, TypeOK, DelState, DelStep
<1>3. Unclaimed' => Unclaimed
  BY <1>1, <1>2 DEF Unclaimed
<1>4. /\ agent' \in [Machines -> AgentState] /\ ref' \in [Machines -> [Clients -> RefState]]
      /\ live' \in [Boxes -> {"absent", "running", "paused"}] /\ MachineInv' /\ IssuedInv'
  <2>1. CASE Serves
    <3>1. PICK m \in Machines : m = host.address
      BY <2>1 DEF Serves, IInv, TypeOK
    <3>2. PICK a \in AgentState : /\ a = [Off EXCEPT !.file = agent[m].file]
                                  /\ a.file = agent[m].file /\ a.up = FALSE
      <4>1. Off \in AgentState /\ agent[m].file \in [refresh : Tokens \cup {None}, jwt : Nat]
        BY HostsAssumption, SMT, SMTT(20) DEF Off, AgentState, NoCreds, IInv, TypeOK
      <4>2. [Off EXCEPT !.file = agent[m].file] \in AgentState
        BY <4>1 DEF AgentState
      <4>3. [Off EXCEPT !.file = agent[m].file].up = FALSE
        BY DEF Off
      <4> QED
        BY <4>1, <4>2, <4>3 DEF AgentState
    <3>3. /\ agent' = [agent EXCEPT ![m] = a] /\ ref' = [ref EXCEPT ![m] = [c \in Clients |-> IdleRef]]
          /\ live' = [b \in Boxes |-> IF b \in del.kill THEN "absent" ELSE Paused[b]]
      BY <2>1, <3>1, <3>2 DEF DeleteTerminate
    <3>4. live' \in [Boxes -> {"absent", "running", "paused"}]
      BY <3>3 DEF IInv, TypeOK, Paused
    <3>5. agent[m].up
      BY <2>1, <3>1 DEF Serves
    <3> QED
      BY <1>1, <1>3, <3>2, <3>3, <3>4, <3>5, Restarted
  <2>2. CASE ~Serves
    <3>1. UNCHANGED <<live, agent, ref>>
      BY <2>2 DEF DeleteTerminate
    <3>2. MachineInv'
      BY <1>1, <1>3, <3>1 DEF IInv, MachineInv, Holds
    <3>3. IssuedInv'
      BY <1>1, <3>1, IssuedKept
    <3> QED
      BY <3>1, <3>2, <3>3 DEF IInv, TypeOK
  <2> QED
    BY <2>1, <2>2
<1>5. TypeOK'
  BY <1>1, <1>2, <1>4 DEF IInv, TypeOK
<1>6. TokenInv' /\ DelInv'
  BY <1>2 DEF TokenInv, DelInv
<1> QED
  BY <1>4, <1>5, <1>6 DEF IInv

(* The steps that concern neither agents nor registrations; some may revoke *)
(* tokens, in the course of a deletion.                                     *)
LEMMA Quiet ==
    ASSUME IInv, UNCHANGED <<agent, reg, ref, lost>>, Unclaimed' => Unclaimed,
           del'.at = "idle" => del.at = "idle" /\ tokens' = tokens,
           \A t \in Tokens : tokens[t] # "unissued" => tokens'[t] # "unissued"
    PROVE  MachineInv' /\ IssuedInv' /\ TokenInv'
<1>1. MachineInv'
  BY DEF IInv, MachineInv, Holds
<1>2. IssuedInv'
  <2>1. \A n \in Machines : /\ agent[n].file.refresh \in Tokens \cup {None} /\ reg[n].token \in Tokens \cup {None}
                            /\ \A d \in Clients : ref[n][d].old \in Tokens \cup {None} /\ ref[n][d].new \in Tokens \cup {None}
    BY SMT, SMTT(20) DEF IInv, TypeOK, AgentState, RefState, RegState
  <2> QED
    BY <2>1 DEF IInv, IssuedInv
<1>3. TokenInv'
  BY SMT, SMTT(20) DEF IInv, TokenInv, FreshInv
<1> QED
  BY <1>1, <1>2, <1>3

LEMMA RegenerateTokenInv == ASSUME IInv, RegenerateToken PROVE IInv'
<1>1. TypeOK'
  BY Fresh DEF IInv, TypeOK, RegenerateToken, issueRegistrationToken, Unissued
<1>2. MachineInv' /\ IssuedInv' /\ TokenInv'
  BY Quiet DEF RegenerateToken, Unclaimed
<1>3. DelInv'
  BY DEF IInv, DelInv, RegenerateToken
<1> QED
  BY <1>1, <1>2, <1>3 DEF IInv

LEMMA TicketExpiresInv == ASSUME IInv, NEW k \in Tickets, TicketExpires(k) PROVE IInv'
<1>1. TypeOK'
  BY DEF IInv, TypeOK, TicketExpires
<1>2. MachineInv' /\ IssuedInv' /\ TokenInv'
  BY Quiet DEF TicketExpires, Unclaimed
<1>3. DelInv'
  BY DEF IInv, DelInv, TicketExpires
<1> QED
  BY <1>1, <1>2, <1>3 DEF IInv

LEMMA JWTsExpireInv == ASSUME IInv, JWTsExpire PROVE IInv'
<1>1. TypeOK'
  BY HostsAssumption, SMT, SMTT(20) DEF IInv, TypeOK, JWTsExpire
<1>2. MachineInv' /\ IssuedInv' /\ TokenInv'
  BY Quiet DEF JWTsExpire, Unclaimed
<1>3. DelInv'
  BY DEF IInv, DelInv, JWTsExpire
<1> QED
  BY <1>1, <1>2, <1>3 DEF IInv

(* No step of a placement wakes a capsule that Delete has stopped.          *)
LEMMA PlaceInv == ASSUME IInv, NEW b \in Boxes, PlaceSelect(b) \/ PlaceInsert(b) \/ PlaceBoot(b) PROVE IInv'
<1>1. /\ UNCHANGED <<mix, host, tickets, tokens, epoch, agent, reg, ref, del, silent, lost, budget>>
      /\ row[b] \in {"none", "selected", "starting"}
  BY DEF PlaceSelect, PlaceInsert, PlaceBoot
<1>2. MachineInv' /\ IssuedInv' /\ TokenInv'
  BY <1>1, Quiet DEF Unclaimed
<1>3. /\ row' \in [Boxes -> RowStates] /\ \A a \in Boxes \ {b} : row'[a] = row[a]
      /\ vol' \in [pin : BOOLEAN, owner : Boxes \cup {None}]
      /\ live' \in [Boxes -> {"absent", "running", "paused"}]
      /\ ~GetHost /\ ~vol.pin => ~vol'.pin
  <2>1. CASE PlaceSelect(b)
    BY <2>1 DEF PlaceSelect, IInv, TypeOK, RowStates
  <2>2. CASE PlaceInsert(b)
    <3>1. row' \in [Boxes -> RowStates] /\ \A a \in Boxes \ {b} : row'[a] = row[a]
      BY <2>2 DEF PlaceInsert, IInv, TypeOK, RowStates
    <3> QED
      BY <2>2, <3>1 DEF PlaceInsert, IInv, TypeOK
  <2>3. CASE PlaceBoot(b)
    <3>1. row' \in [Boxes -> RowStates] /\ \A a \in Boxes \ {b} : row'[a] = row[a]
      BY <2>3 DEF PlaceBoot, IInv, TypeOK, RowStates
    <3>2. live' \in [Boxes -> {"absent", "running", "paused"}]
      BY <2>3 DEF PlaceBoot, IInv, TypeOK
    <3>3. vol' = vol \/ vol' = [vol EXCEPT !.owner = None]
      BY <2>3 DEF PlaceBoot
    <3> QED
      BY <3>1, <3>2, <3>3 DEF IInv, TypeOK
  <2> QED
    BY <2>1, <2>2, <2>3
<1>6. TypeOK'
  BY <1>1, <1>3 DEF IInv, TypeOK
<1>7. DelInv'
  <2>1. del.at \in {"revoke", "volumes", "host", "done"} => b \notin del.listed
    BY <1>1 DEF IInv, DelInv
  <2>2. del.listed \subseteq Boxes
    BY DEF IInv, TypeOK, DelState
  <2> QED
    BY <1>1, <1>3, <2>1, <2>2 DEF IInv, DelInv, GetHost
<1> QED
  BY <1>2, <1>6, <1>7 DEF IInv

(* The monitor leaves a stopped capsule alone.                              *)
LEMMA MonitorInv == ASSUME IInv, Monitor PROVE IInv'
<1>1. /\ UNCHANGED <<mix, tickets, tokens, epoch, agent, live, reg, ref, del, lost, budget>>
      /\ silent' \in BOOLEAN /\ (host.status = "absent" => UNCHANGED <<host, row, vol>>)
  BY DEF Monitor, FallSilent, MonitorUnreachable, MonitorReconcile, IInv, TypeOK
<1>2. /\ host' \in [status : {"absent", "pending", "online", "unreachable"}, address : Machines \cup {None}]
      /\ Unclaimed' => Unclaimed
  BY DEF Monitor, FallSilent, MonitorUnreachable, MonitorReconcile, MarkHostUnreachable, Unclaimed, IInv, TypeOK
<1>3. row' \in [Boxes -> RowStates] /\ \A b \in Boxes : row[b] = "stopped" => row'[b] = "stopped"
  <2>1. CASE MonitorReconcile
    <3>1. \A b \in Boxes : Reported(b) \in RowStates /\ (row[b] = "stopped" => Reported(b) = "stopped")
      BY DEF Reported, IInv, TypeOK, RowStates
    <3> QED
      BY <2>1, <3>1 DEF MonitorReconcile
  <2>2. CASE MonitorUnreachable
    BY <2>2 DEF MonitorUnreachable, IInv, TypeOK, RowStates
  <2>3. CASE FallSilent
    BY <2>3 DEF FallSilent, IInv, TypeOK
  <2> QED
    BY <2>1, <2>2, <2>3 DEF Monitor
<1>4. vol' \in [pin : BOOLEAN, owner : Boxes \cup {None}]
  BY DEF Monitor, FallSilent, MonitorUnreachable, MonitorReconcile, IInv, TypeOK
<1>5. MachineInv' /\ IssuedInv' /\ TokenInv'
  BY <1>1, <1>2, Quiet
<1>6. TypeOK'
  BY <1>1, <1>2, <1>3, <1>4 DEF IInv, TypeOK
<1>7. DelInv'
  <2>1. del.listed \subseteq Boxes
    BY DEF IInv, TypeOK, DelState
  <2> QED
    BY <1>1, <1>3, <2>1 DEF IInv, DelInv
<1> QED
  BY <1>5, <1>6, <1>7 DEF IInv

LEMMA DeleteListInv == ASSUME IInv, DeleteList PROVE IInv'
<1>1. /\ del.at = "idle" /\ UNCHANGED <<mix, host, tickets, tokens, epoch, row, vol, agent, live, reg, ref, silent, lost, budget>>
  BY DEF DeleteList
<1>2. del' \in DelState /\ del'.at \in {"agent", "refused", "count"}
  BY DEF DeleteList, ListSandboxesByHostAndStatus, DelState
<1>3. GetHost
  BY DEF DeleteList
<1>4. MachineInv' /\ IssuedInv' /\ TokenInv'
  BY <1>1, <1>2, Quiet DEF Unclaimed
<1>5. TypeOK' /\ DelInv'
  BY <1>1, <1>2 DEF IInv, TypeOK, DelInv
<1> QED
  BY <1>4, <1>5 DEF IInv

(* The steps of Delete that only move on.                                   *)
LEMMA DeleteStepInv == ASSUME IInv, DeleteCount \/ DeleteUnheard \/ DeleteRows \/ DeleteVolumes PROVE IInv'
<1>1. /\ UNCHANGED <<mix, host, tickets, tokens, epoch, agent, live, reg, ref, silent, lost>>
      /\ del.at \in {"count", "agent", "rows", "volumes"}
      /\ \E at \in {"refused", "agent", "rows", "revoke", "host"} : DelStep(at)
  BY DEF DeleteCount, DeleteUnheard, DeleteRows, DeleteVolumes
<1>2. del' \in DelState /\ del'.at \in {"refused", "agent", "rows", "revoke", "host"} /\ del'.listed = del.listed
  BY <1>1 DEF DelStep, IInv, TypeOK, DelState
<1>3. MachineInv' /\ IssuedInv' /\ TokenInv'
  BY <1>1, <1>2, Quiet DEF Unclaimed
<1>4. /\ row' \in [Boxes -> RowStates] /\ vol' \in [pin : BOOLEAN, owner : Boxes \cup {None}]
      /\ del'.at \in {"revoke", "host"} => \A b \in del.listed : row'[b] = "stopped"
  <2>1. del.listed \subseteq Boxes
    BY DEF IInv, TypeOK, DelState
  <2>2. CASE DeleteRows
    BY <2>1, <2>2 DEF DeleteRows, BulkUpdateStatusByIDs, IInv, TypeOK, RowStates
  <2>3. CASE DeleteVolumes
    BY <2>3 DEF DeleteVolumes, DetachVolumesByHost, IInv, TypeOK, DelInv
  <2>4. CASE DeleteCount \/ DeleteUnheard
    <3>1. UNCHANGED <<row, vol>> /\ \E at \in {"refused", "agent", "rows"} : DelStep(at)
      BY <2>4 DEF DeleteCount, DeleteUnheard
    <3>2. del'.at \in {"refused", "agent", "rows"}
      BY <3>1 DEF DelStep, IInv, TypeOK, DelState
    <3> QED
      BY <3>1, <3>2 DEF IInv, TypeOK
  <2> QED
    BY <2>2, <2>3, <2>4
<1>5. budget' \in Nat
  <2>1. budget \in Nat /\ (budget' = budget \/ (budget > 0 /\ budget' = budget - 1))
    BY DEF DeleteCount, DeleteUnheard, DeleteRows, DeleteVolumes, IInv, TypeOK
  <2> QED
    BY <2>1, SMT, SMTT(20)
<1>6. TypeOK'
  BY <1>1, <1>2, <1>4, <1>5 DEF IInv, TypeOK
<1>7. DelInv'
  BY <1>2, <1>4 DEF DelInv
<1> QED
  BY <1>3, <1>6, <1>7 DEF IInv

LEMMA DeleteRevokeInv == ASSUME IInv, DeleteRevoke PROVE IInv'
<1>1. /\ del.at = "revoke" /\ tokens' = [t \in Tokens |-> IF tokens[t] = "valid" THEN "revoked" ELSE tokens[t]]
      /\ DelStep("volumes") /\ UNCHANGED <<mix, host, tickets, epoch, row, vol, agent, live, reg, ref, silent, lost, budget>>
  BY DEF DeleteRevoke, RevokeHostRefreshTokensByHost
<1>2. del' \in DelState /\ del'.at = "volumes" /\ del'.listed = del.listed
  BY <1>1 DEF DelStep, IInv, TypeOK, DelState
<1>3. /\ tokens' \in [Tokens -> {"unissued", "valid", "revoked"}]
      /\ \A t \in Tokens : tokens[t] # "unissued" => tokens'[t] # "unissued"
  BY <1>1 DEF IInv, TypeOK
<1>4. MachineInv' /\ IssuedInv' /\ TokenInv'
  BY <1>1, <1>2, <1>3, Quiet DEF Unclaimed
<1>5. TypeOK' /\ DelInv'
  BY <1>1, <1>2, <1>3 DEF IInv, TypeOK, DelInv
<1> QED
  BY <1>4, <1>5 DEF IInv

(* The row goes last, with its tokens, unless a volume was pinned meanwhile.*)
LEMMA DeleteRowInv == ASSUME IInv, DeleteRow PROVE IInv'
<1>1. del.at = "host" /\ UNCHANGED <<mix, tickets, epoch, row, vol, agent, live, reg, ref, silent, lost, budget>>
  BY DEF DeleteRow
<1>2. PICK at \in {"refused", "done"} : DelStep(at) /\ (at = "refused" \/ ~vol.pin)
  BY <1>1 DEF DeleteRow, IInv, TypeOK
<1>3. del' \in DelState /\ del'.at = at /\ del'.listed = del.listed
  BY <1>2 DEF DelStep, IInv, TypeOK, DelState
<1>4. /\ tokens' \in [Tokens -> {"unissued", "valid", "revoked"}]
      /\ \A t \in Tokens : tokens[t] # "unissued" => tokens'[t] # "unissued"
      /\ del'.at = "done" => \A t \in Tokens : tokens'[t] # "valid"
  <2>1. CASE vol.pin
    BY <1>3, <2>1 DEF DeleteRow, DelStep, IInv, TypeOK, DelState
  <2>2. CASE ~vol.pin
    BY <2>2, SMT, SMTT(20) DEF DeleteRow, DeleteHost, IInv, TypeOK
  <2> QED
    BY <2>1, <2>2
<1>5. /\ host' \in [status : {"absent", "pending", "online", "unreachable"}, address : Machines \cup {None}]
      /\ (host' = host \/ host'.status = "absent") /\ (del'.at = "done" => host'.status = "absent")
  <2>1. CASE vol.pin
    BY <1>2, <1>3, <2>1 DEF DeleteRow, IInv, TypeOK
  <2>2. CASE ~vol.pin
    BY <2>2, SMT, SMTT(20) DEF DeleteRow, DeleteHost
  <2> QED
    BY <2>1, <2>2
<1>6. MachineInv' /\ IssuedInv' /\ TokenInv'
  <2>1. Unclaimed' => Unclaimed
    BY <1>3, <1>5 DEF Unclaimed
  <2> QED
    BY <1>1, <1>3, <1>4, <2>1, Quiet
<1>7. TypeOK'
  BY <1>1, <1>3, <1>4, <1>5 DEF IInv, TypeOK
<1>8. DelInv'
  BY <1>1, <1>2, <1>3, <1>4, <1>5 DEF IInv, DelInv
<1> QED
  BY <1>6, <1>7, <1>8 DEF IInv

LEMMA InitInv == Init => IInv
<1> SUFFICES ASSUME Init PROVE IInv
  OBVIOUS
<1> DEFINE fresh == "fresh" \in mix
<1>1. First \in Machines /\ FirstToken \in Tokens /\ FirstToken # None
  BY HostsAssumption DEF First, FirstToken
<1>2. /\ Off \in AgentState /\ Off.file = NoCreds /\ ~Off.up /\ NoCreds.refresh = None
      /\ NoCreds \in [refresh : Tokens \cup {None}, jwt : Nat]
  BY HostsAssumption, SMT, SMTT(20) DEF Off, AgentState, NoCreds
<1>3. PICK file : /\ file \in [refresh : Tokens \cup {None}, jwt : Nat] /\ file = [refresh |-> FirstToken, jwt |-> 1]
                  /\ file.refresh = FirstToken /\ file # NoCreds
  <2>1. [refresh |-> FirstToken, jwt |-> 1] \in [refresh : Tokens \cup {None}, jwt : Nat]
    BY <1>1
  <2>2. [refresh |-> FirstToken, jwt |-> 1].refresh # NoCreds.refresh
    BY <1>1, <1>2
  <2> QED
    BY <2>1, <2>2
<1>4. Boot(file) \in AgentState /\ Boot(file).file = file /\ Boot(file).up
  BY <1>3, Booted
<1>5. /\ agent \in [Machines -> AgentState]
      /\ \A m \in Machines : agent[m] = IF ~fresh /\ m = First THEN Boot(file) ELSE Off
  BY <1>2, <1>3, <1>4 DEF Init
<1>6. /\ reg \in [Machines -> RegState]
      /\ \A m \in Machines : reg[m].at = IF ~fresh /\ m = First THEN "done" ELSE "idle"
  BY DEF Init, IdleReg, RegState
<1>7. /\ ref \in [Machines -> [Clients -> RefState]]
      /\ \A m \in Machines, c \in Clients : ref[m][c].at = "idle" /\ ref[m][c].old = None
  BY DEF Init, IdleRef, RefState
<1>8. /\ tokens \in [Tokens -> {"unissued", "valid", "revoked"}]
      /\ ~fresh => tokens[FirstToken] = "valid"
  BY <1>1 DEF Init
<1>9. /\ host \in [status : {"absent", "pending", "online", "unreachable"}, address : Machines \cup {None}]
      /\ ~fresh => host.status = "online"
  BY <1>1 DEF Init
<1>10. del \in DelState /\ del.at = "idle"
  BY DEF Init, IdleDel, DelState
<1>11. epoch \in 1..(MaxEpoch + 1) /\ budget \in Nat
  BY HostsAssumption, SMT, SMTT(20) DEF Init
<1>12. TypeOK
  <2>1. /\ mix \in Mixes /\ tickets \in [Tickets -> {"unissued", "live", "gone"}]
        /\ row \in [Boxes -> RowStates] /\ vol \in [pin : BOOLEAN, owner : Boxes \cup {None}]
        /\ live \in [Boxes -> {"absent", "running", "paused"}] /\ silent \in BOOLEAN /\ lost \in BOOLEAN
    BY DEF Init, RowStates
  <2> QED
    BY <1>5, <1>6, <1>7, <1>8, <1>9, <1>10, <1>11, <2>1 DEF TypeOK
<1>13. MachineInv
  <2>1. \A m \in Machines : Holds(m) => ~fresh /\ m = First
    BY <1>2, <1>5, <1>6 DEF Holds
  <2> QED
    BY <1>2, <1>3, <1>4, <1>5, <1>6, <1>7, <1>9, <1>10, <2>1, SMT, SMTT(20) DEF MachineInv, Unclaimed
<1>14. IssuedInv
  <2>1. ASSUME NEW m \in Machines PROVE agent[m].file.refresh # None => tokens[agent[m].file.refresh] # "unissued"
    BY <1>2, <1>3, <1>4, <1>5, <1>8
  <2>2. ASSUME NEW m \in Machines PROVE reg[m].at # "reply"
    BY <1>6
  <2> QED
    BY <1>7, <2>1, <2>2 DEF IssuedInv
<1>15. TokenInv
  BY <1>2, <1>3, <1>4, <1>5, <1>6, <1>7, <1>8 DEF TokenInv, FreshInv
<1>16. DelInv
  BY <1>10 DEF DelInv
<1> QED
  BY <1>12, <1>13, <1>14, <1>15, <1>16 DEF IInv

LEMMA StutterInv == ASSUME IInv, UNCHANGED vars PROVE IInv'
<1> USE DEF vars
<1>1. TypeOK'
  BY DEF IInv, TypeOK
<1>2. MachineInv'
  BY DEF IInv, MachineInv, Holds, Unclaimed
<1>3. IssuedInv'
  BY DEF IInv, IssuedInv
<1>4. TokenInv'
  BY DEF IInv, TokenInv, FreshInv
<1>5. DelInv'
  BY DEF IInv, DelInv
<1> QED
  BY <1>1, <1>2, <1>3, <1>4, <1>5 DEF IInv

LEMMA NextInv == ASSUME IInv, [Next]_vars PROVE IInv'
<1>1. CASE Create
  BY <1>1, CreateInv
<1>2. CASE RegenerateToken
  BY <1>2, RegenerateTokenInv
<1>3. CASE JWTsExpire
  BY <1>3, JWTsExpireInv
<1>4. CASE \E k \in Tickets : TicketExpires(k)
  BY <1>4, TicketExpiresInv
<1>5. ASSUME NEW m \in Machines, Registration(m) PROVE IInv'
  BY <1>5, RegisterConsumeInv, RegisterClaimInv, RegisterIssueInv, RegisterSaveInv, RegisterLostInv DEF Registration
<1>6. ASSUME NEW m \in Machines, Beat(m) \/ BeatFails(m) \/ CallbackRejected(m) \/ Crash(m) PROVE IInv'
  BY <1>6, BeatInv, BeatFailsInv, CallbackRejectedInv, CrashInv
<1>7. ASSUME NEW m \in Machines, NEW c \in Clients, Refreshing(m, c) \/ RefreshLost(m, c) PROVE IInv'
  BY <1>7, RefreshLoadInv, RefreshLookupInv, RefreshIssueInv, RefreshRevokeInv, RefreshSaveInv, RefreshFailedInv,
     RefreshLostInv DEF Refreshing
<1>8. CASE \E b \in Boxes : PlaceSelect(b) \/ PlaceInsert(b) \/ PlaceBoot(b)
  BY <1>8, PlaceInv
<1>9. CASE Monitor
  BY <1>9, MonitorInv
<1>10. CASE DeleteList \/ Deletion \/ DeleteUnheard
  BY <1>10, DeleteListInv, DeleteStepInv, DeleteTerminateInv, DeleteRevokeInv, DeleteRowInv DEF Deletion
<1>11. CASE UNCHANGED vars
  BY <1>11, StutterInv
<1> QED
  BY <1>1, <1>2, <1>3, <1>4, <1>5, <1>6, <1>7, <1>8, <1>9, <1>10, <1>11 DEF Next

LEMMA Invariant == Spec => []IInv
  BY InitInv, NextInv, PTL DEF Spec

-----------------------------------------------------------------------------
(* Whatever tickets were issued and however calls, refreshes of both loops, *)
(* lost replies and crashes interleave: at most one machine holds the       *)
(* credentials of a host, and unless new ones were lost before they were    *)
(* saved or the host is being deleted, the ones in its file are accepted or *)
(* their successor is on its way (HostService.Register and Refresh).        *)
THEOREM HostEnrolled == Spec => []Enrolled
<1>1. IInv => OneMachine
  BY DEF IInv, MachineInv, OneMachine
<1>2. IInv => CredentialsUsable
  BY DEF IInv, TokenInv, CredentialsUsable, GetHostRefreshTokenByHash
<1>3. IInv => Enrolled
  BY <1>1, <1>2 DEF IInv, Enrolled
<1> QED
  BY <1>3, Invariant, PTL

(* Once Delete is through, the capsules it listed are stopped for good, no  *)
(* refresh token is accepted and no volume names the host, whatever was     *)
(* placed, reported or registered while it ran (HostService.Delete).        *)
THEOREM DeletedHostSettles == Spec => []DeleteSettles
<1>1. IInv => DeleteSettles
  BY DEF IInv, DelInv, DeleteSettles
<1> QED
  BY <1>1, Invariant, PTL

=============================================================================
