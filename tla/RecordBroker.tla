---------------------------- MODULE RecordBroker ----------------------------
(***************************************************************************)
(* taintforge_env/c2_record_broker.py: one relay session of the broker,    *)
(* as asyncio interleaves it.  Two pumps copy between the sample (client)  *)
(* and the upstream, recording before they forward; a monitor watches the  *)
(* timeouts; the session task waits for the first of the three to finish,  *)
(* closes both transports and writes session.json.  Payload is counted in  *)
(* units.  c2_record_policy.py decides which policies are admissible, and  *)
(* scripts/validate_c2_record_capture.py which captures are accepted.      *)
(***************************************************************************)
EXTENDS Naturals, FiniteSets

CONSTANTS
  Policies,       \* policies an operator may write
  MaxSend,        \* bound: units a peer sends in one direction
  MaxSessions     \* bound: connections of the sample

ASSUME BoundsAssumption == MaxSend \in Nat /\ MaxSessions \in Nat

VARIABLES
  policy,     \* the loaded policy
  stopped,    \* close() was called with a session under way
  accepted,   \* accepted_connections, never decremented
  offered,    \* connections the sample has tried
  pc,         \* where the session task is
  pump,       \* state of each direction's pump
  monitor,    \* state of _monitor_timeouts
  handled,    \* finished tasks the session has already looked at
  inbox,      \* per direction: units that arrived and were not read
  sent,       \* per direction: units the peer has sent
  eofIn,      \* per direction: the peer has closed its side
  lost,       \* endpoints whose connection is gone
  cap,        \* per direction: total and chunks (DirectionState), file (bytes
              \* on disk), fwd (handed to the transport), flushed (gone out)
  reason,     \* close_reason
  failed,     \* error_text is set
  events      \* names in events.jsonl

stream == <<pump, monitor, handled, inbox, sent, eofIn, lost, cap>>
vars == <<policy, stopped, accepted, offered, pc, stream, reason, failed, events>>

Directions == {"c2s", "s2c"}

\* max_client_bytes and max_server_bytes are positive.
ASSUME PoliciesAssumption == \A p \in Policies : p.limit \in [Directions -> Nat \ {0}]

Source(d) == IF d = "c2s" THEN "client" ELSE "upstream"
Sink(d)   == IF d = "c2s" THEN "upstream" ELSE "client"
Limit(d)  == policy.limit[d]
Finished  == {"eof", "limit", "error", "cancelled"}
LimitReason(d) == IF d = "c2s" THEN "c2s_limit_exceeded" ELSE "s2c_limit_exceeded"
NoCapture == [total |-> 0, chunks |-> 0, file |-> 0, fwd |-> 0, flushed |-> 0]

-----------------------------------------------------------------------------
(* parse_c2_record_policy: the rules that tie fields together              *)

Admissible(p) ==
  \/ p.kind = "local_test" /\ p.upstream \in {"loopback", "private"}
  \/ /\ p.kind = "live"
     /\ p.acknowledged
     /\ p.original \notin {"loopback", "private"}
     /\ p.upstream = p.original
     /\ p.maxConnections = 1

Init ==
  /\ policy \in {p \in Policies : Admissible(p)}
  /\ stopped = FALSE
  /\ accepted = 0
  /\ offered = 0
  /\ pc = "listening"
  /\ pump = [d \in Directions |-> "off"]
  /\ monitor = "off"
  /\ handled = {}
  /\ inbox = [d \in Directions |-> 0]
  /\ sent = [d \in Directions |-> 0]
  /\ eofIn = [d \in Directions |-> FALSE]
  /\ lost = {}
  /\ cap = [d \in Directions |-> NoCapture]
  /\ reason = "unknown"
  /\ failed = FALSE
  /\ events = {}

-----------------------------------------------------------------------------
(* The peers: they send, close, vanish, and read when they like            *)

Connected(e) ==
  /\ e \notin lost
  /\ pc \notin {"listening", "summary"}
  /\ e = "upstream" => pump["s2c"] # "off"

PeerSends(d) ==
  /\ Connected(Source(d))
  /\ ~eofIn[d]
  /\ sent[d] < MaxSend
  /\ sent' = [sent EXCEPT ![d] = @ + 1]
  /\ inbox' = [inbox EXCEPT ![d] = @ + 1]
  /\ UNCHANGED <<policy, stopped, accepted, offered, pc, pump, monitor, handled, eofIn,
                 lost, cap, reason, failed, events>>

PeerCloses(d) ==
  /\ Connected(Source(d))
  /\ ~eofIn[d]
  /\ eofIn' = [eofIn EXCEPT ![d] = TRUE]
  /\ UNCHANGED <<policy, stopped, accepted, offered, pc, pump, monitor, handled, inbox,
                 sent, lost, cap, reason, failed, events>>

PeerVanishes(e) ==
  /\ Connected(e)
  /\ lost' = lost \cup {e}
  /\ UNCHANGED <<policy, stopped, accepted, offered, pc, pump, monitor, handled, inbox,
                 sent, eofIn, cap, reason, failed, events>>

\* The transport's buffer empties because the sink reads.
PeerReads(d) ==
  /\ Sink(d) \notin lost
  /\ cap[d].flushed < cap[d].fwd
  /\ cap' = [cap EXCEPT ![d].flushed = cap[d].fwd]
  /\ UNCHANGED <<policy, stopped, accepted, offered, pc, pump, monitor, handled, inbox,
                 sent, eofIn, lost, reason, failed, events>>

-----------------------------------------------------------------------------
(* _accept_client and the start of _handle_session                         *)

NoSession == pc \in {"listening", "abandoned"}

Accept ==
  /\ NoSession /\ ~stopped
  /\ offered < MaxSessions
  /\ accepted < policy.maxConnections
  /\ offered' = offered + 1
  /\ accepted' = accepted + 1
  /\ pc' = "connecting"
  /\ pump' = [d \in Directions |-> "off"]
  /\ monitor' = "off"
  /\ handled' = {}
  /\ inbox' = [d \in Directions |-> 0]
  /\ sent' = [d \in Directions |-> 0]
  /\ eofIn' = [d \in Directions |-> FALSE]
  /\ lost' = {}
  /\ cap' = [d \in Directions |-> NoCapture]
  /\ reason' = "unknown"
  /\ failed' = FALSE
  /\ events' = {"session_started"}
  /\ UNCHANGED <<policy, stopped>>

Reject ==
  /\ NoSession /\ ~stopped
  /\ offered < MaxSessions
  /\ accepted >= policy.maxConnections
  /\ offered' = offered + 1
  /\ UNCHANGED <<policy, stopped, accepted, pc, stream, reason, failed, events>>

UpstreamConnected ==
  /\ pc = "connecting"
  /\ pc' = "relaying"
  /\ pump' = [d \in Directions |-> "reading"]
  /\ monitor' = "sleeping"
  /\ events' = events \cup {"upstream_connected"}
  /\ UNCHANGED <<policy, stopped, accepted, offered, handled, inbox, sent, eofIn, lost,
                 cap, reason, failed>>

ConnectFails ==
  /\ pc = "connecting"
  /\ pc' = "close_client"
  /\ \/ reason' = "upstream_connect_timeout" /\ failed' = FALSE
     \/ reason' = "upstream_connect_error" /\ failed' = TRUE
  /\ UNCHANGED <<policy, stopped, accepted, offered, stream, events>>

-----------------------------------------------------------------------------
(* _pump: from one await to the next                                       *)

PumpBecomes(d, state) == pump' = [pump EXCEPT ![d] = state]

Chunk(d, n) ==
  /\ cap' = [cap EXCEPT ![d].total = @ + n, ![d].chunks = @ + 1, ![d].file = @ + n,
               ![d].fwd = IF Sink(d) \in lost THEN @ ELSE @ + n]
  /\ events' = events \cup {"stream_chunk"}

OverLimitLate(d, n) == cap[d].total > Limit(d)
OverLimit(d, n) == cap[d].total + n > Limit(d)

\* A reset makes read() raise; a connection the session closed itself can be
\* read to its end.
Reset(d) == Source(d) \in lost /\ pc = "relaying"

PumpReads(d) ==
  /\ pump[d] = "reading"
  /\ ~Reset(d)
  /\ \E n \in 1 .. inbox[d] :
       /\ inbox' = [inbox EXCEPT ![d] = @ - n]
       /\ \/ OverLimit(d, n) /\ PumpBecomes(d, "limit") /\ UNCHANGED <<cap, events>>
          \/ ~OverLimit(d, n) /\ Chunk(d, n) /\ PumpBecomes(d, "draining")
  /\ UNCHANGED <<policy, stopped, accepted, offered, pc, monitor, handled, sent, eofIn,
                 lost, reason, failed>>

\* A disk error: the counters have moved, the file has not.
RecordFails(d) ==
  /\ pump[d] = "reading"
  /\ inbox[d] > 0 /\ ~Reset(d)
  /\ ~OverLimit(d, 1)
  /\ inbox' = [inbox EXCEPT ![d] = @ - 1]
  /\ cap' = [cap EXCEPT ![d].total = @ + 1, ![d].chunks = @ + 1]
  /\ PumpBecomes(d, "error")
  /\ UNCHANGED <<policy, stopped, accepted, offered, pc, monitor, handled, sent, eofIn,
                 lost, reason, failed, events>>

PumpEof(d) ==
  /\ pump[d] = "reading"
  /\ inbox[d] = 0
  /\ ~Reset(d)
  /\ eofIn[d] \/ Source(d) \in lost
  /\ PumpBecomes(d, "eof")
  /\ events' = events \cup {"stream_eof"}
  /\ UNCHANGED <<policy, stopped, accepted, offered, pc, monitor, handled, inbox, sent,
                 eofIn, lost, cap, reason, failed>>

\* read() or drain() raises because a connection was reset.
PumpFails(d) ==
  /\ \/ pump[d] = "reading" /\ Source(d) \in lost
     \/ pump[d] = "draining" /\ Sink(d) \in lost
  /\ PumpBecomes(d, "error")
  /\ UNCHANGED <<policy, stopped, accepted, offered, pc, monitor, handled, inbox, sent,
                 eofIn, lost, cap, reason, failed, events>>

\* drain() returns at once while the buffer is below the high-water mark.
PumpDrained(d) ==
  /\ pump[d] = "draining"
  /\ Sink(d) \notin lost
  /\ PumpBecomes(d, "reading")
  /\ UNCHANGED <<policy, stopped, accepted, offered, pc, monitor, handled, inbox, sent,
                 eofIn, lost, cap, reason, failed, events>>

\* _monitor_timeouts returns; idle when no pump has moved for long enough.
MonitorFires ==
  /\ monitor = "sleeping"
  /\ monitor' \in {"session_timeout", "idle_timeout"}
  /\ UNCHANGED <<policy, stopped, accepted, offered, pc, pump, handled, inbox, sent,
                 eofIn, lost, cap, reason, failed, events>>

-----------------------------------------------------------------------------
(* The session task                                                        *)

\* break: what has not finished is cancelled, and gather waits for it.
StopRelay(why, err) ==
  /\ pc' = "close_upstream"
  /\ reason' = why
  /\ failed' = err
  /\ pump' = [d \in Directions |-> IF pump[d] \in Finished THEN pump[d] ELSE "cancelled"]
  /\ monitor' = IF monitor = "sleeping" THEN "cancelled" ELSE monitor
  /\ UNCHANGED <<policy, stopped, accepted, offered, handled, inbox, sent, eofIn, lost,
                 cap, events>>

MonitorWaitsForPumps ==
  /\ pc = "relaying"
  /\ monitor \in {"session_timeout", "idle_timeout"}
  /\ \A d \in Directions : pump[d] \in Finished
  /\ StopRelay(monitor, FALSE)

\* asyncio.wait returns a set: of several finished tasks any may come first.
MonitorFinished ==
  /\ pc = "relaying"
  /\ monitor \in {"session_timeout", "idle_timeout"}
  /\ StopRelay(monitor, FALSE)

PumpFinishedLoosely(d) ==
  /\ pc = "relaying"
  /\ pump[d] \in {"limit", "eof"}
  /\ StopRelay("upstream_closed", FALSE)

PumpFinished(d) ==
  /\ pc = "relaying"
  /\ \/ pump[d] = "limit" /\ StopRelay(LimitReason(d), FALSE)
     \/ pump[d] = "error" /\ StopRelay("relay_error", TRUE)
     \/ d = "s2c" /\ pump[d] = "eof" /\ StopRelay("upstream_closed", FALSE)

\* The client's eof is passed on with write_eof, and the session goes on.
ClientEof ==
  /\ pc = "relaying"
  /\ pump["c2s"] = "eof"
  /\ "c2s" \notin handled
  /\ handled' = handled \cup {"c2s"}
  /\ UNCHANGED <<policy, stopped, accepted, offered, pc, pump, monitor, inbox, sent,
                 eofIn, lost, cap, reason, failed, events>>

\* close() closes the listening socket and cancels the session at the await where it
\* is; the end of the event loop cancels it again if it still runs.  asyncio.wait does
\* not cancel the pumps; they run on until their connections are closed.  In the
\* finally clause only OSError is caught: the rest of it, the summary included, is
\* skipped.  (A broker that is stopped without a session takes no further step.)
CancelSession ==
  /\ \/ pc = "connecting" /\ pc' = "close_client"
     \/ pc = "relaying" /\ pc' = "close_upstream"
     \/ pc \in {"close_upstream", "close_client", "summary"} /\ pc' = "abandoned"
  /\ stopped' = TRUE
  /\ UNCHANGED <<policy, accepted, offered, stream, reason, failed, events>>

\* finally: close() and wait_closed(), which returns once the buffer is flushed
\* or the connection is lost.
FlushedTo(e) == e \in lost \/ \A d \in Directions : Sink(d) = e => cap[d].flushed = cap[d].fwd

CloseUpstream ==
  /\ pc = "close_upstream"
  /\ FlushedTo("upstream")
  /\ lost' = lost \cup {"upstream"}
  /\ pc' = "close_client"
  /\ UNCHANGED <<policy, stopped, accepted, offered, pump, monitor, handled, inbox, sent,
                 eofIn, cap, reason, failed, events>>

CloseClient ==
  /\ pc = "close_client"
  /\ FlushedTo("client")
  /\ lost' = lost \cup {"client"}
  /\ pc' = "summary"
  /\ UNCHANGED <<policy, stopped, accepted, offered, pump, monitor, handled, inbox, sent,
                 eofIn, cap, reason, failed, events>>

\* session.json and session_finished.  A pump that outlived a cancelled session
\* is woken by the loss of its connection before the session task is.
WriteSummary ==
  /\ pc = "summary"
  /\ \A d \in Directions : pump[d] \in Finished \cup {"off"}
  /\ pc' = "listening"
  /\ events' = events \cup {"session_finished"}
  /\ UNCHANGED <<policy, stopped, accepted, offered, stream, reason, failed>>

\* A disk error: the task ends without a summary.
SummaryFails ==
  /\ pc = "summary"
  /\ \A d \in Directions : pump[d] \in Finished \cup {"off"}
  /\ pc' = "abandoned"
  /\ UNCHANGED <<policy, stopped, accepted, offered, stream, reason, failed, events>>

-----------------------------------------------------------------------------
\* What the event loop runs without waiting for a peer.
BrokerStep ==
  \/ UpstreamConnected \/ ConnectFails
  \/ MonitorFinished \/ ClientEof
  \/ CloseUpstream \/ CloseClient \/ WriteSummary \/ SummaryFails
  \/ \E d \in Directions : \/ PumpReads(d) \/ RecordFails(d) \/ PumpEof(d)
                           \/ PumpFails(d) \/ PumpFinished(d)

Next ==
  \/ BrokerStep
  \/ MonitorFires
  \/ \E d \in Directions : PumpDrained(d) \/ PeerSends(d) \/ PeerCloses(d) \/ PeerReads(d)
  \/ \E e \in {"client", "upstream"} : PeerVanishes(e)
  \/ Accept \/ Reject \/ CancelSession

Spec == Init /\ [][Next]_vars

\* The event loop runs every task that is ready, and the monitor's clock goes on.
\* Nothing is assumed of the peers, nor that a full transport is ever drained.
FairSpec ==
  /\ Spec
  /\ WF_vars(BrokerStep)
  /\ WF_vars(MonitorFires)
  /\ WF_vars(MonitorFinished)

-----------------------------------------------------------------------------
(* validate_c2_record_capture.py, with the capture's own content expected  *)

Accepts ==
  /\ pc = "listening"
  /\ reason \in {"upstream_closed", "client_closed", "completed"}
  /\ ~failed
  /\ \A d \in Directions : cap[d].total = cap[d].file /\ cap[d].chunks >= 1
  /\ {"session_started", "upstream_connected", "stream_chunk", "session_finished"}
       \subseteq events

-----------------------------------------------------------------------------
(* Properties                                                              *)

\* However chunks are cut, no direction ever records or relays more than its
\* limit, and nothing is relayed that is not on disk first.
RelayedIsRecordedAndBounded ==
  \A d \in Directions : /\ cap[d].flushed <= cap[d].fwd
                        /\ cap[d].fwd <= cap[d].file
                        /\ cap[d].file <= cap[d].total
                        /\ cap[d].total <= Limit(d)

\* A capture that the validator accepts holds everything the upstream sent, up
\* to its own end of stream: no timeout, limit, reset or cancelled session
\* passes for a complete answer.
AcceptedCaptureIsComplete ==
  Accepts => /\ cap["s2c"].file = sent["s2c"]
             /\ eofIn["s2c"]

\* The session is in wait_closed(), for a peer that has not read what it was sent
\* and has not gone.
WaitsForReader ==
  \/ pc = "close_upstream" /\ ~FlushedTo("upstream")
  \/ pc = "close_client" /\ ~FlushedTo("client")

\* Whatever the peers do or leave undone, and whichever of pumps and monitor finish
\* together, a session ends, or it has stopped relaying and one peer that never
\* reads keeps it in wait_closed() for ever: there alone is no timeout.
SessionEnds == (pc = "connecting") ~> (NoSession \/ []WaitsForReader)
=============================================================================
