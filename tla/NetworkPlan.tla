----------------------------- MODULE NetworkPlan -----------------------------
(***************************************************************************)
(* What controlled_network_backend.py computes: the plan _build_plan makes *)
(* of a requested policy, the ports SocketPortAllocator picks, and where a *)
(* new connection of the guest ends under the rules that                   *)
(* _configure_firewall and _catch_all_commands install in the namespace.   *)
(* The kernel's part (nat OUTPUT before filter OUTPUT, first match wins,   *)
(* REDIRECT of a local packet goes to 127.0.0.1) is in Filter and Deliver. *)
(***************************************************************************)
EXTENDS Naturals, Sequences, FiniteSets

CONSTANTS
  Remotes,           \* addresses outside the host
  Ports,             \* destination ports
  MinPort, MaxPort,  \* SocketPortAllocator.MIN_PORT and MAX_PORT
  CatchTcp, CatchUdp \* the logger's ports

ASSUME PortRange == MinPort \in Nat /\ MaxPort \in Nat /\ MinPort <= MaxPort
ASSUME CatchAllPorts == CatchTcp # CatchUdp   \* _build_plan insists on it

Loopback  == "127.0.0.1"
Gateway   == "host_ip"
Namespace == "namespace_ip"
Addresses == Remotes \cup {Loopback, Gateway, Namespace}
Packets   == [proto : {"tcp", "udp", "icmp"}, ip : Addresses, port : Ports]

\* A request q is what a plan is made from: `items', the services of the policy
\* (those that are skipped included); `catchAll', catch_all.enabled; `seed', the
\* port the search starts from; `busy', ports of the gateway address that
\* something else has bound.

-----------------------------------------------------------------------------
(* _build_plan                                                             *)

\* Skipped are: not TCP, an address that is missing, malformed or IPv6, a port
\* that is malformed or out of range.
Usable(item) ==
  /\ item.service_type = "tcp"
  /\ item.remote_ip # "invalid"
  /\ item.remote_port # 0

\* The places of the usable items outside and on loopback.
HostItems(q) ==
  {i \in 1 .. Len(q.items) : Usable(q.items[i]) /\ q.items[i].remote_ip # Loopback}
LoopbackItems(q) ==
  {i \in 1 .. Len(q.items) : Usable(q.items[i]) /\ q.items[i].remote_ip = Loopback}

\* allocate(host, preferred_start): from the clamped start upwards, then from
\* MIN_PORT up to the start.  The probing socket is closed again at once.
Allocate(q, start) ==
  LET first == IF start < MinPort THEN MinPort
               ELSE IF start > MaxPort THEN MaxPort ELSE start
      size  == MaxPort - MinPort + 1
      Port(k) == MinPort + ((first - MinPort + k) % size)
      free  == {k \in 0 .. size - 1 : Port(k) \notin q.busy}
  IN  Port(CHOOSE k \in free : \A j \in free : k <= j)

\* _build_plan raises when a host service finds no port.
Planned(q) == HostItems(q) = {} \/ ~(MinPort .. MaxPort \subseteq q.busy)

\* The number of host services before it offsets the seed of a service.
HostServices(q) ==
  [i \in HostItems(q) |->
     [ip |-> q.items[i].remote_ip, port |-> q.items[i].remote_port,
      bind |-> Allocate(q, q.seed + Cardinality({j \in HostItems(q) : j < i}))]]

\* The processes that _start_services makes for a plan
Wanted(q) ==
  (IF HostItems(q) # {} THEN {"host"} ELSE {})
  \cup (IF LoopbackItems(q) # {} THEN {"loopback"} ELSE {})
  \cup (IF q.catchAll THEN {"transparent"} ELSE {})

-----------------------------------------------------------------------------
(* The firewall                                                            *)

\* The host services whose DNAT rule matches; the first rule wins.
Matching(q, p) ==
  {i \in DOMAIN HostServices(q) :
     p.proto = "tcp" /\ HostServices(q)[i].ip = p.ip /\ HostServices(q)[i].port = p.port}
FirstOf(S) == CHOOSE i \in S : \A j \in S : i <= j

\* _catch_all_commands: the chains of the two protocols
CatchAll(p) ==
  [ip |-> Loopback, port |-> IF p.proto = "tcp" THEN CatchTcp ELSE CatchUdp]

\* Mutant: the catch-all chains are never jumped to.
NatWithoutJump(q, p) ==
  IF Matching(q, p) # {}
  THEN [ip |-> Gateway, port |-> HostServices(q)[FirstOf(Matching(q, p))].bind]
  ELSE [ip |-> p.ip, port |-> p.port]

\* nat OUTPUT: DNAT for the known endpoints, then the catch-all chains, which
\* return for the gateway and for loopback.
NatOutput(q, p) ==
  CASE Matching(q, p) # {} ->
         [ip |-> Gateway, port |-> HostServices(q)[FirstOf(Matching(q, p))].bind]
    [] Matching(q, p) = {} /\ q.catchAll /\ p.proto # "icmp" /\ p.ip \notin {Gateway, Loopback} ->
         CatchAll(p)
    [] OTHER -> [ip |-> p.ip, port |-> p.port]

\* filter OUTPUT for a new flow: the policy is DROP; loopback (which carries the
\* namespace's own address too), the responders and the catch-all ports pass.
Filter(q, p, d) ==
  \/ d.ip \in {Loopback, Namespace}
  \/ /\ p.proto = "tcp"
     /\ d.ip = Gateway
     /\ \E i \in DOMAIN HostServices(q) : HostServices(q)[i].bind = d.port
  \/ q.catchAll /\ p.proto = "tcp" /\ d.port = CatchTcp
  \/ q.catchAll /\ p.proto = "udp" /\ d.port = CatchUdp

Dropped == [ip |-> "dropped", port |-> 0]
Deliver(q, p) ==
  LET d == NatOutput(q, p) IN IF Filter(q, p, d) THEN d ELSE Dropped

\* Mutant: the responder logs the address it was reached at.
LoggedLocally(q, p) == <<Deliver(q, p).ip, Deliver(q, p).port>>

\* The original destination a responder logs: its configured endpoint on the
\* gateway (network_stub.py), SO_ORIGINAL_DST in the TCP logger.
Logged(q, p) ==
  LET d == Deliver(q, p)
      here == {i \in DOMAIN HostServices(q) : HostServices(q)[i].bind = d.port}
  IN  IF d.ip = Gateway
      THEN <<HostServices(q)[FirstOf(here)].ip, HostServices(q)[FirstOf(here)].port>>
      ELSE <<p.ip, p.port>>

\* Two responders on one port: the second cannot bind it.
SharedPort(q) ==
  \E i, j \in DOMAIN HostServices(q) :
    i # j /\ HostServices(q)[i].bind = HostServices(q)[j].bind
=============================================================================
