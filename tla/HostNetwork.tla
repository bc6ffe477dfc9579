----------------------------- MODULE HostNetwork -----------------------------
(***************************************************************************)
(* A capsule's network on its host (pkg/network/setup.go): a namespace with *)
(* the TAP device, a veth pair into it, a host route to the capsule's       *)
(* address, and the iptables rules that let it out; and the guard rules     *)
(* the agent installs once for all capsules.                                *)
(*                                                                         *)
(* A record net holds what the kernel has.  A rule is a tuple of what it    *)
(* matches and the slot it is for (0: every capsule); a chain is the        *)
(* sequence of its rules, first match first.                                *)
(***************************************************************************)
EXTENDS Naturals, Sequences, SequencesExt, FiniteSets

CONSTANT Slots  \* slot indices

NoNetwork == [ns |-> {}, veth |-> {}, route |-> {}, forward |-> <<>>, input |-> <<>>,
              masq |-> [s \in Slots |-> 0], blackhole |-> FALSE]

PrivateDrop  == <<"drop-private", 0>>
InterDrop    == <<"drop-capsule", 0>>
InputDrop    == <<"drop-input", 0>>
Established  == <<"accept-established", 0>>
Out(s) == <<"accept-out", s>>
In(s)  == <<"accept-in", s>>

-----------------------------------------------------------------------------
(* Addresses                                                               *)

MaxIndex == 32767
Byte(x) == x % 256

HostIP(i) == <<10, 11, Byte(i \div 256), Byte(i % 256)>>

VrtIP(off) == <<10, 12, Byte(off \div 256), Byte(off % 256)>>
VethIP(i)  == VrtIP(2 * i)
VpeerIP(i) == VrtIP(2 * i + 1)

\* Every slot the allocator can hand out has three addresses no other slot
\* has (NewSlot derives them from the index with byte arithmetic).
AddressesDistinct ==
    /\ Cardinality({HostIP(i) : i \in 1..MaxIndex}) = MaxIndex
    /\ Cardinality({IF near THEN VethIP(i) ELSE VpeerIP(i) : i \in 1..MaxIndex, near \in BOOLEAN}) = 2 * MaxIndex

-----------------------------------------------------------------------------
(* CreateNetwork                                                           *)

\* The steps of CreateNetwork, in order.
Steps == <<"namespace", "veth", "move veth", "inside", "host veth", "host route",
           "default interface", "forward out", "forward in", "masquerade">>
StepNo(name) == CHOOSE i \in DOMAIN Steps : Steps[i] = name

\* What stands when the first k steps succeeded.
Built(n, s, k) ==
    LET Did(name) == StepNo(name) <= k
    IN [n EXCEPT !.ns = IF Did("namespace") THEN @ \cup {s} ELSE @,
                 !.veth = IF Did("move veth") THEN @ \cup {s} ELSE @,
                 !.route = IF Did("host route") THEN @ \cup {s} ELSE @,
                 !.forward = @ \o (IF Did("forward out") THEN <<Out(s)>> ELSE <<>>)
                               \o (IF Did("forward in") THEN <<In(s)>> ELSE <<>>),
                 !.masq[s] = IF Did("masquerade") THEN @ + 1 ELSE @]

\* Mutant: the rules are not taken back.
RollbackKeepsRules(n, s, k) ==
    LET Did(name) == StepNo(name) <= k
    IN [n EXCEPT !.ns = IF Did("namespace") THEN @ \ {s} ELSE @,
                 !.veth = IF Did("move veth") THEN @ \ {s} ELSE @,
                 !.route = IF Did("host route") THEN @ \ {s} ELSE @]

\* The rollbacks the first k steps registered, run in reverse.  (The veth is
\* looked up in whichever namespace the thread is in; its peer's namespace
\* goes next, and the veth with it.)
NetRollback(n, s, k) ==
    LET Did(name) == StepNo(name) <= k
    IN [n EXCEPT !.ns = IF Did("namespace") THEN @ \ {s} ELSE @,
                 !.veth = IF Did("move veth") THEN @ \ {s} ELSE @,
                 !.route = IF Did("host route") THEN @ \ {s} ELSE @,
                 !.forward = RemoveFirst(RemoveFirst(@, IF Did("forward out") THEN Out(s) ELSE <<"none", s>>),
                                         IF Did("forward in") THEN In(s) ELSE <<"none", s>>)]

\* Whether step i can succeed: names and routes must be new, the rules need
\* the default interface.
StepCan(n, s, uplink, i) ==
    CASE Steps[i] = "namespace"         -> s \notin n.ns
      [] Steps[i] = "move veth"         -> s \notin n.veth
      [] Steps[i] = "host route"        -> s \notin n.route
      [] Steps[i] = "default interface" -> uplink
      [] OTHER                          -> TRUE

\* How many steps a call may complete: all of them, or, when commands can
\* fail, any number up to the first that cannot succeed.
Reached(n, s, uplink, fails) ==
    LET most == CHOOSE k \in 0..Len(Steps) :
                    /\ \A i \in 1..k : StepCan(n, s, uplink, i)
                    /\ k = Len(Steps) \/ ~StepCan(n, s, uplink, k + 1)
    IN IF fails THEN 0..most ELSE {most}

Complete(k) == k = Len(Steps)

CreateNetwork(n, s, k) == IF Complete(k) THEN Built(n, s, k) ELSE NetRollback(Built(n, s, k), s, k)

-----------------------------------------------------------------------------
(* RemoveNetwork and the cleanup at startup                                *)

\* Every step is tried.  Without a default interface the rules stay.
RemoveNetwork(n, s, uplink) ==
    [n EXCEPT !.ns = @ \ {s}, !.veth = @ \ {s}, !.route = @ \ {s},
              !.forward = IF uplink THEN RemoveFirst(RemoveFirst(@, Out(s)), In(s)) ELSE @,
              !.masq[s] = IF uplink /\ @ > 0 THEN @ - 1 ELSE @]

\* Rules that name a capsule's veth go; the masquerade rules name an address
\* and stay.
cleanupStaleIptablesRules(n) == [n EXCEPT !.forward = SelectSeq(@, LAMBDA r : r[2] = 0), !.route = @ \ n.veth]

CleanupStaleNamespaces(n) ==
    cleanupStaleIptablesRules([n EXCEPT !.ns = {}, !.veth = @ \ n.ns, !.route = @ \ n.ns])

-----------------------------------------------------------------------------
(* The guard                                                               *)

ensureHostRule(chain, rule) == IF Contains(chain, rule) THEN chain ELSE Cons(rule, chain)

GuardSteps == 5

\* EnsureEgressGuard as far as its first k steps.  Each rule is inserted at
\* the head of its chain unless it is there.
EnsureEgressGuard(n, k) ==
    LET Do(i, chain, rule) == IF i <= k THEN ensureHostRule(chain, rule) ELSE chain
    IN [n EXCEPT !.forward = Do(2, Do(1, @, PrivateDrop), InterDrop),
                 !.input = Do(4, Do(3, @, InputDrop), Established),
                 !.blackhole = @ \/ 5 <= k]

Position(chain, rule) == SelectInSeq(chain, LAMBDA r : r = rule)

\* A chain as the guard needs it: each rule once; drops before any rule that
\* lets a capsule out; replies to the host accepted before the drop.
Guarded(n) ==
    /\ n.blackhole
    /\ \A r \in {PrivateDrop, InterDrop} :
        /\ Cardinality({i \in DOMAIN n.forward : n.forward[i] = r}) = 1
        /\ \A i \in DOMAIN n.forward : n.forward[i][2] # 0 => Position(n.forward, r) < i
    /\ n.input = <<Established, InputDrop>>
=============================================================================
