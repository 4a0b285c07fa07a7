----------------------------- MODULE Reconciler -----------------------------
(***************************************************************************)
(* The connection reconciler of a node: rounds that dial every configured  *)
(* host the node is not directly connected to. A round works on one        *)
(* snapshot of the topology; a host that is only indirectly reachable is   *)
(* dialled with a backoff of its own, and the pause between rounds doubles *)
(* until a round connects to somebody.                                     *)
(*                                                                         *)
(* A dial tries every address of the host, and for each a plain TCP        *)
(* connection, the proxies of the configuration, the proxies that peers    *)
(* announce, and an SSH tunnel. One host is dialled at a time, and a dial  *)
(* may take any time: it holds up the hosts that come after it.            *)
(***************************************************************************)
EXTENDS Integers, Sequences, FiniteSets

CONSTANTS
    FleetHosts,      \* the hosts of the configuration
    RouteOf,         \* per host: addresses, proxies, gossiped, credential
    BaseInterval, MaxInterval,       \* pause between rounds
    IndirectBase, IndirectMax,       \* backoff of an indirect host
    MaxRoundTime,    \* bound: the clock
    MaxChanges       \* bound: changes of the topology from outside

ASSUME ReconcilerAssumption ==
    /\ BaseInterval \in Nat \ {0} /\ MaxInterval \in Nat /\ MaxInterval >= BaseInterval
    /\ IndirectBase \in Nat \ {0} /\ IndirectMax \in Nat /\ IndirectMax >= IndirectBase
    /\ MaxRoundTime \in Nat /\ MaxChanges \in Nat

VARIABLES
    clock,       \* the time
    nextRound,   \* when the timer fires
    pause,       \* currentInterval, 0 in the first round
    pendingHosts,        \* hosts this round has still to look at
    snapshot,    \* the topology as the round saw it
    anyConnected,\* this round has connected to somebody
    reach,       \* per host: "none", "indirect" or "direct"
    backoffs,    \* per host: the next attempt and the interval after it
    dial,        \* the dial under way: host and ways that are left
    idle,        \* per host: time without a dial or a connection
    heldUp,      \* per host: the part of it in which another host was dialled
    changes

reconcilerVars == <<clock, nextRound, pause, pendingHosts, snapshot, anyConnected, reach,
                    backoffs, dial, idle, heldUp, changes>>

NoDial == [host |-> "", methods |-> <<>>]
NoBackoff == [next |-> 0, interval |-> IndirectBase]
Least(a, b) == IF a < b THEN a ELSE b
Times(n, m) == [i \in 1..n |-> m]

\* The ways createResilientDialer tries for one address, in its order.
createResilientDialer(h) ==
    <<"tcp">> \o Times(RouteOf[h].proxies, "proxy") \o
    Times(RouteOf[h].gossiped, "gossip_proxy") \o
    Times(IF RouteOf[h].credential THEN 1 ELSE 0, "ssh")
Methods(h) == LET ways == createResilientDialer(h)
              IN [i \in 1..(RouteOf[h].addresses * Len(ways)) |->
                     ways[((i - 1) % Len(ways)) + 1]]

ReconcilerInit ==
    /\ clock = 0 /\ nextRound = 0 /\ pause = 0
    /\ pendingHosts = {} /\ anyConnected = FALSE /\ changes = 0
    /\ reach = [h \in FleetHosts |-> "none"]
    /\ snapshot = reach
    /\ backoffs = [h \in FleetHosts |-> NoBackoff]
    /\ dial = NoDial
    /\ idle = [h \in FleetHosts |-> 0] /\ heldUp = idle

-----------------------------------------------------------------------------
InRound == nextRound <= clock

\* The first round, or the timer fires; the topology is read once for the
\* whole round.
StartRound ==
    /\ InRound /\ pendingHosts = {} /\ dial = NoDial
    /\ nextRound >= 0
    /\ pendingHosts' = FleetHosts
    /\ snapshot' = reach /\ anyConnected' = FALSE
    /\ nextRound' = 0 - 1
    /\ UNCHANGED <<clock, pause, reach, backoffs, dial, idle, heldUp, changes>>

NextInterval(i) == Least(2 * i, IndirectMax)

\* A host of the round: skipped if it is direct, or indirect and backed off;
\* otherwise its dial begins, and an indirect host's backoff doubles.
Consider(h) ==
    /\ nextRound < 0 /\ h \in pendingHosts /\ dial = NoDial
    /\ pendingHosts' = pendingHosts \ {h}
    /\ LET indirect == snapshot[h] = "indirect"
           skip == \/ snapshot[h] = "direct"
                   \/ indirect /\ clock < backoffs[h].next
                   \/ RouteOf[h].addresses = 0
       IN /\ backoffs' = IF indirect /\ clock >= backoffs[h].next
                         THEN [backoffs EXCEPT ![h] =
                                  [next |-> clock + @.interval,
                                   interval |-> NextInterval(@.interval)]]
                         ELSE backoffs
          /\ IF skip
             THEN UNCHANGED <<dial, idle, heldUp>>
             ELSE /\ dial' = [host |-> h, methods |-> Methods(h)]
                  /\ idle' = [idle EXCEPT ![h] = 0] /\ heldUp' = [heldUp EXCEPT ![h] = 0]
    /\ UNCHANGED <<clock, nextRound, pause, snapshot, anyConnected, reach, changes>>

\* A way fails: the next one is tried, or the host is given up.
DialFails ==
    /\ dial # NoDial
    /\ dial' = IF Len(dial.methods) = 1 THEN NoDial
               ELSE [dial EXCEPT !.methods = Tail(@)]
    /\ UNCHANGED <<clock, nextRound, pause, pendingHosts, snapshot, anyConnected, reach,
                   backoffs, idle, heldUp, changes>>

\* A way succeeds and AddPeer runs the handshake. Success resets the backoff;
\* after a failure the host is left for the next round.
AddPeer(ok) ==
    /\ dial # NoDial
    /\ dial' = NoDial
    /\ reach' = IF ok THEN [reach EXCEPT ![dial.host] = "direct"] ELSE reach
    /\ backoffs' = IF ok THEN [backoffs EXCEPT ![dial.host] = NoBackoff] ELSE backoffs
    /\ anyConnected' = (anyConnected \/ ok)
    /\ UNCHANGED <<clock, nextRound, pause, pendingHosts, snapshot, idle, heldUp, changes>>

\* The pause after the first round is BaseInterval, whatever came of it.
EndRound ==
    /\ nextRound < 0 /\ pendingHosts = {} /\ dial = NoDial
    /\ pause' = IF anyConnected \/ pause = 0 THEN BaseInterval ELSE Least(2 * pause, MaxInterval)
    /\ nextRound' = clock + pause'
    /\ UNCHANGED <<clock, pendingHosts, snapshot, anyConnected, reach, backoffs, dial, idle, heldUp, changes>>

\* Between rounds and during a dial time passes; the host that is dialled is
\* not idle.
PassTime ==
    /\ nextRound > clock \/ dial # NoDial
    /\ clock < MaxRoundTime /\ clock' = clock + 1
    /\ LET busy(h) == reach[h] = "direct" \/ dial.host = h
       IN /\ idle' = [h \in FleetHosts |-> IF busy(h) THEN idle[h] ELSE idle[h] + 1]
          /\ heldUp' = [h \in FleetHosts |->
                          IF busy(h) \/ dial = NoDial THEN heldUp[h] ELSE heldUp[h] + 1]
    /\ UNCHANGED <<nextRound, pause, pendingHosts, snapshot, anyConnected, reach, backoffs, dial, changes>>

\* At any time peers are lost, gossip brings or forgets hosts, a host connects
\* on its own.
TopologyChanges(h, r) ==
    /\ changes < MaxChanges /\ reach[h] # r
    /\ changes' = changes + 1
    /\ reach' = [reach EXCEPT ![h] = r]
    /\ IF r = "direct"
       THEN idle' = [idle EXCEPT ![h] = 0] /\ heldUp' = [heldUp EXCEPT ![h] = 0]
       ELSE UNCHANGED <<idle, heldUp>>
    /\ UNCHANGED <<clock, nextRound, pause, pendingHosts, snapshot, anyConnected, backoffs, dial>>

ReconcilerNext ==
    \/ StartRound
    \/ \E h \in FleetHosts : Consider(h)
    \/ DialFails
    \/ \E ok \in BOOLEAN : AddPeer(ok)
    \/ EndRound
    \/ PassTime
    \/ \E h \in FleetHosts, r \in {"none", "indirect", "direct"} : TopologyChanges(h, r)

-----------------------------------------------------------------------------
\* A host that has an address and no direct connection is dialled at least
\* once every IndirectMax + MaxInterval, not counting the time in which the
\* dial of another host kept the reconciler, whatever backoffs an earlier time
\* of indirect reachability has left behind (cli.go 1010-1028, 933-944). Nothing
\* bounds that time: the plain TCP dial has no timeout of its own.
HostsAreRetried ==
    \A h \in FleetHosts :
        RouteOf[h].addresses > 0 => idle[h] - heldUp[h] <= IndirectMax + MaxInterval
=============================================================================
