--------------------------- MODULE MCNetworkBackend ---------------------------
(* Small instances of NetworkBackend for TLC.                              *)
EXTENDS NetworkBackend

Tcp(ip, port) == [service_type |-> "tcp", remote_ip |-> ip, remote_port |-> port]

\* Known, equal and skipped endpoints, outside, on the gateway and on loopback,
\* on ordinary ports and on those of the logger.
Policies ==
  {<<>>, <<Tcp("c2", 80), Tcp("cdn", 80)>>, <<Tcp("c2", 80), Tcp("c2", 80)>>,
   <<Tcp(Gateway, 80), Tcp("c2", CatchTcp)>>, <<Tcp(Loopback, 80), Tcp("c2", 80)>>,
   <<Tcp("invalid", 80), Tcp("c2", 0)>>, <<Tcp(Loopback, 80)>>,
   <<[service_type |-> "udp", remote_ip |-> "c2", remote_port |-> CatchUdp], Tcp("c2", 80)>>}

\* All ports free, the preferred one taken, the last one preferred, none free.
Hosts == {[seed |-> 20, busy |-> {}], [seed |-> 20, busy |-> {20}],
          [seed |-> 22, busy |-> {}], [seed |-> 21, busy |-> {20, 21, 22}]}

MCRequests ==
  {[items |-> is, catchAll |-> c, seed |-> h.seed, busy |-> h.busy] :
     is \in Policies, c \in BOOLEAN, h \in Hosts}
=============================================================================
