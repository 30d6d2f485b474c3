-------------------------- MODULE MCStaticPipeline --------------------------
(* Endpoints on both sides of the threshold, one that looks like DNS, one on *)
(* the loopback interface, a datagram, and three without a usable endpoint.  *)
EXTENDS StaticPipeline

Event(op, host, port, type) == [op |-> op, host |-> host, port |-> port, type |-> type]

MCEvents ==
  {Event("connect", "h1", 80, "tcp"), Event("connect", "h2", 80, "tcp"),
   Event("connect", "h1", 23, "tcp"), Event("connect", "h1", 8080, "none"),
   Event("connect", "lo", 80, "tcp"), Event("sendto", "h1", 53, "udp"),
   Event("sendto", "h1", 7, "udp"), Event("socket", "h1", 80, "tcp"),
   Event("connect", "invalid", 80, "tcp"), Event("connect", "h1", 0, "tcp")}
=============================================================================
