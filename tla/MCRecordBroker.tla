---------------------------- MODULE MCRecordBroker ----------------------------
(* Small instances of RecordBroker for TLC.                                *)
EXTENDS RecordBroker

Policy(kind, ack, original, upstream, conns, c2s, s2c) ==
  [kind |-> kind, acknowledged |-> ack, original |-> original,
   upstream |-> upstream, maxConnections |-> conns,
   limit |-> [d \in Directions |-> IF d = "c2s" THEN c2s ELSE s2c]]

\* Admissible and inadmissible policies; limits at and below what a peer sends.
SmallPolicies ==
  {Policy("local_test", FALSE, "global", "loopback", 2, 1, 2),
   Policy("live", TRUE, "global", "global", 1, 2, 1),
   Policy("live", FALSE, "global", "global", 1, 2, 1),
   Policy("live", TRUE, "global", "other_global", 1, 2, 1),
   Policy("live", TRUE, "global", "global", 2, 2, 1)}
=============================================================================
