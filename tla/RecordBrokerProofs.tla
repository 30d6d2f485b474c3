------------------------- MODULE RecordBrokerProofs -------------------------
(***************************************************************************)
(* Proofs about RecordBroker, for every set of policies, any number of     *)
(* connections and any amount of traffic.  A unit is counted, recorded and *)
(* forwarded in this order and within the limit; and the one reason an     *)
(* accepted capture can have is given only after the upstream's own end of *)
(* stream, behind which nothing can arrive.                                *)
(***************************************************************************)
EXTENDS RecordBroker, TLAPS

PcLabels == {"listening", "connecting", "relaying", "close_upstream", "close_client", "summary",
             "abandoned"}
PumpStates == {"off", "reading", "draining"} \cup Finished
Captures == [total : Nat, chunks : Nat, file : Nat, fwd : Nat, flushed : Nat]
Reasons == {"unknown", "upstream_connect_timeout", "upstream_connect_error",
            "session_timeout", "idle_timeout", "c2s_limit_exceeded",
            "s2c_limit_exceeded", "relay_error", "upstream_closed"}

\* Type correctness.
TypeOK ==
  /\ policy \in Policies
  /\ pc \in PcLabels
  /\ pump \in [Directions -> PumpStates]
  /\ inbox \in [Directions -> Nat]
  /\ sent \in [Directions -> Nat]
  /\ eofIn \in [Directions -> BOOLEAN]
  /\ cap \in [Directions -> Captures]
  /\ reason \in Reasons

\* Until a pump stops at a limit or an error, whatever its peer has sent is
\* either waiting or on disk.
NothingSkipped ==
  \A d \in Directions :
    pump[d] \notin {"limit", "error"} => inbox[d] + cap[d].file = sent[d]

\* A session that waits for its upstream has no pumps and no reason to close yet.
FreshSession ==
  pc = "connecting" => reason = "unknown" /\ \A d \in Directions : pump[d] = "off"

\* A direction has ended when its peer has closed it and everything was read.
Ended(d) == eofIn[d] /\ inbox[d] = 0

\* While the session relays, a pump sees the end of its stream only when there is
\* one: a connection that is lost raises instead.
EofIsReal == \A d \in Directions : pc = "relaying" /\ pump[d] = "eof" => Ended(d)

\* upstream_closed is said only after the upstream's end of stream.
ReasonIsReal == reason = "upstream_closed" => pump["s2c"] = "eof" /\ Ended("s2c")

Inv ==
  /\ TypeOK
  /\ NothingSkipped /\ FreshSession /\ EofIsReal /\ ReasonIsReal
  /\ RelayedIsRecordedAndBounded

\* Limits are natural numbers.
LEMMA LimitType ==
  ASSUME TypeOK, NEW d \in Directions
  PROVE  Limit(d) \in Nat
  BY PoliciesAssumption DEF TypeOK, Limit

\* A fresh capture.
LEMMA NoCaptureType == NoCapture \in Captures
  BY DEF NoCapture, Captures

\* Nothing has been relayed at first.
LEMMA InitInv == Init => Inv
<1> SUFFICES ASSUME Init PROVE Inv
  OBVIOUS
<1>1. TypeOK
  BY NoCaptureType DEF Init, TypeOK, PcLabels, PumpStates, Reasons
<1>2. NothingSkipped /\ FreshSession /\ EofIsReal /\ ReasonIsReal
  BY DEF Init, NothingSkipped, FreshSession, EofIsReal, ReasonIsReal, NoCapture
<1>3. RelayedIsRecordedAndBounded
  BY <1>1, LimitType DEF Init, RelayedIsRecordedAndBounded, NoCapture
<1> QED BY <1>1, <1>2, <1>3 DEF Inv

\* The peers: a side that was closed sends nothing more, and what a sink reads
\* was handed to it before.
LEMMA PeersInv ==
  ASSUME Inv,
         \/ \E d \in Directions : PeerSends(d) \/ PeerCloses(d) \/ PeerReads(d)
         \/ \E e \in {"client", "upstream"} : PeerVanishes(e)
  PROVE  Inv'
<1>1. ASSUME NEW d \in Directions, PeerSends(d) PROVE Inv'
  <2>1. TypeOK'
    BY <1>1 DEF PeerSends, Inv, TypeOK
  <2>2. NothingSkipped' /\ FreshSession' /\ EofIsReal' /\ ReasonIsReal'
    BY <1>1
    DEF PeerSends, Inv, TypeOK, NothingSkipped, FreshSession, EofIsReal, ReasonIsReal,
        Ended,
                Captures, Directions
  <2>3. RelayedIsRecordedAndBounded'
    BY <1>1 DEF PeerSends, Inv, RelayedIsRecordedAndBounded, Limit
  <2> QED BY <2>1, <2>2, <2>3 DEF Inv
<1>2. ASSUME NEW d \in Directions, PeerCloses(d) PROVE Inv'
  <2>1. TypeOK'
    BY <1>2 DEF PeerCloses, Inv, TypeOK
  <2>2. NothingSkipped' /\ FreshSession' /\ EofIsReal' /\ ReasonIsReal'
    BY <1>2
    DEF PeerCloses, Inv, TypeOK, NothingSkipped, FreshSession, EofIsReal, ReasonIsReal,
        Ended,
                Directions
  <2>3. RelayedIsRecordedAndBounded'
    BY <1>2 DEF PeerCloses, Inv, RelayedIsRecordedAndBounded, Limit
  <2> QED BY <2>1, <2>2, <2>3 DEF Inv
<1>3. ASSUME NEW d \in Directions, PeerReads(d) PROVE Inv'
  <2>0. cap[d] \in Captures
    BY DEF Inv, TypeOK
  <2> DEFINE c == [cap[d] EXCEPT !.flushed = cap[d].fwd]
  <2>1. /\ c \in Captures /\ c.total = cap[d].total /\ c.file = cap[d].file
        /\ c.fwd = cap[d].fwd /\ c.flushed = cap[d].fwd
    BY <2>0 DEF Captures
  <2>2. cap' = [cap EXCEPT ![d] = c]
    BY <1>3 DEF PeerReads, Inv, TypeOK
  <2> HIDE DEF c
  <2>3. TypeOK'
    BY <1>3, <2>1, <2>2 DEF PeerReads, Inv, TypeOK
  <2>4. NothingSkipped' /\ FreshSession' /\ EofIsReal' /\ ReasonIsReal'
    BY <1>3, <2>1, <2>2
    DEF PeerReads, Inv, TypeOK, NothingSkipped, FreshSession, EofIsReal,
                            ReasonIsReal, Ended
  <2>5. RelayedIsRecordedAndBounded'
    BY <1>3, <2>1, <2>2, LimitType DEF PeerReads, Inv, TypeOK,
       RelayedIsRecordedAndBounded, Limit, Captures
  <2> QED BY <2>3, <2>4, <2>5 DEF Inv
<1>4. ASSUME NEW e \in {"client", "upstream"}, PeerVanishes(e) PROVE Inv'
  BY <1>4
  DEF PeerVanishes, Inv, TypeOK, NothingSkipped, FreshSession, EofIsReal, ReasonIsReal,
      Ended,
              RelayedIsRecordedAndBounded, Limit
<1> QED BY <1>1, <1>2, <1>3, <1>4

\* A new session starts with a new capture; a refused one changes nothing.
LEMMA AcceptInv ==
  ASSUME Inv, Accept \/ Reject \/ UpstreamConnected \/ ConnectFails
  PROVE  Inv'
<1>1. CASE Accept
  <2>1. TypeOK'
    BY <1>1, NoCaptureType DEF Accept, Inv, TypeOK, PcLabels, PumpStates, Reasons
  <2>2. NothingSkipped' /\ FreshSession' /\ EofIsReal' /\ ReasonIsReal'
    BY <1>1 DEF Accept, NothingSkipped, FreshSession, EofIsReal, ReasonIsReal, NoCapture
  <2>3. RelayedIsRecordedAndBounded'
    BY <1>1, LimitType DEF Accept, Inv, RelayedIsRecordedAndBounded, Limit, NoCapture
  <2> QED BY <2>1, <2>2, <2>3 DEF Inv
<1>2. CASE Reject
  BY <1>2
  DEF Reject, Inv, TypeOK, NothingSkipped, FreshSession, EofIsReal, ReasonIsReal, Ended,
              RelayedIsRecordedAndBounded, Limit, stream
<1>3. CASE UpstreamConnected
  <2>1. TypeOK'
    BY <1>3 DEF UpstreamConnected, Inv, TypeOK, PcLabels, PumpStates
  <2>2. NothingSkipped' /\ FreshSession' /\ EofIsReal' /\ ReasonIsReal'
    BY <1>3 DEF UpstreamConnected, Inv, TypeOK, NothingSkipped, FreshSession, EofIsReal,
                ReasonIsReal
  <2>3. RelayedIsRecordedAndBounded'
    BY <1>3 DEF UpstreamConnected, Inv, RelayedIsRecordedAndBounded, Limit
  <2> QED BY <2>1, <2>2, <2>3 DEF Inv
<1>4. CASE ConnectFails
  BY <1>4 DEF ConnectFails, Inv, TypeOK, NothingSkipped, FreshSession, EofIsReal,
              ReasonIsReal, Ended, RelayedIsRecordedAndBounded, Limit, stream, PcLabels,
              Reasons
<1> QED BY <1>1, <1>2, <1>3, <1>4

\* What one await of a pump does to its direction decides the invariant: it may
\* record at most what was waiting, forward at most what is recorded, and claim
\* the end of the stream only where there is one.
LEMMA PumpStep ==
  ASSUME Inv, NEW d \in Directions, NEW s \in PumpStates, NEW c \in Captures, NEW i \in Nat,
         pump[d] \in {"reading", "draining"},
         pump' = [pump EXCEPT ![d] = s],
         cap' = [cap EXCEPT ![d] = c],
         inbox' = [inbox EXCEPT ![d] = i],
         UNCHANGED <<policy, pc, sent, eofIn, reason>>,
         s \notin {"limit", "error"} => i + c.file = sent[d],
         pc = "relaying" /\ s = "eof" => eofIn[d] /\ i = 0,
         c.flushed <= c.fwd, c.fwd <= c.file, c.file <= c.total, c.total <= Limit(d)
  PROVE  Inv'
<1>1. TypeOK'
  BY DEF Inv, TypeOK
<1>2. NothingSkipped'
  BY DEF Inv, TypeOK, NothingSkipped
<1>3. FreshSession' /\ EofIsReal' /\ ReasonIsReal'
  BY DEF Inv, TypeOK, FreshSession, EofIsReal, ReasonIsReal, Ended, Directions
<1>4. RelayedIsRecordedAndBounded'
  BY DEF Inv, TypeOK, RelayedIsRecordedAndBounded, Limit
<1> QED BY <1>1, <1>2, <1>3, <1>4 DEF Inv

\* The pumps: recording comes before forwarding and stays below the limit.
LEMMA PumpInv ==
  ASSUME Inv, NEW d \in Directions,
         \/ PumpReads(d) \/ RecordFails(d) \/ PumpEof(d) \/ PumpFails(d) \/ PumpDrained(d)
  PROVE  Inv'
<1>0. /\ cap[d] \in Captures /\ inbox[d] \in Nat /\ sent[d] \in Nat /\ Limit(d) \in Nat
      /\ cap = [cap EXCEPT ![d] = cap[d]] /\ inbox = [inbox EXCEPT ![d] = inbox[d]]
  BY LimitType DEF Inv, TypeOK
<1>1. /\ cap[d].flushed <= cap[d].fwd /\ cap[d].fwd <= cap[d].file
      /\ cap[d].file <= cap[d].total /\ cap[d].total <= Limit(d)
  BY DEF Inv, RelayedIsRecordedAndBounded
<1>2. pump[d] \in {"reading", "draining"} => inbox[d] + cap[d].file = sent[d]
  BY DEF Inv, NothingSkipped
<1>3. CASE PumpReads(d)
  <2>1. PICK n \in 1 .. inbox[d] :
          /\ inbox' = [inbox EXCEPT ![d] = @ - n]
          /\ \/ OverLimit(d, n) /\ PumpBecomes(d, "limit") /\ UNCHANGED <<cap, events>>
             \/ ~OverLimit(d, n) /\ Chunk(d, n) /\ PumpBecomes(d, "draining")
    BY <1>3 DEF PumpReads
  <2>2. inbox' = [inbox EXCEPT ![d] = inbox[d] - n] /\ inbox[d] - n \in Nat
    BY <1>0, <2>1 DEF Inv, TypeOK
  <2>3. CASE OverLimit(d, n) /\ PumpBecomes(d, "limit") /\ UNCHANGED cap
    BY <1>0, <1>1, <1>3, <2>2, <2>3, PumpStep
    DEF PumpReads, PumpBecomes, PumpStates, Finished
  <2>4. CASE ~OverLimit(d, n) /\ Chunk(d, n) /\ PumpBecomes(d, "draining")
    <3> DEFINE f == IF Sink(d) \in lost THEN cap[d].fwd ELSE cap[d].fwd + n
               c == [total |-> cap[d].total + n, chunks |-> cap[d].chunks + 1,
                     file |-> cap[d].file + n, fwd |-> f, flushed |-> cap[d].flushed]
    <3>1. n \in Nat /\ f \in Nat /\ f <= cap[d].fwd + n /\ cap[d].fwd <= f
      BY <1>0, <2>1 DEF Captures
    <3>2. cap' = [cap EXCEPT ![d] = c]
      BY <1>0, <2>4 DEF Chunk, Inv, TypeOK, Captures
    <3>3. /\ c \in Captures /\ c.flushed <= c.fwd /\ c.fwd <= c.file /\ c.file <= c.total
          /\ c.total <= Limit(d) /\ inbox[d] - n + c.file = sent[d]
      BY <1>0, <1>1, <1>2, <1>3, <2>1, <2>4, <3>1 DEF Captures, OverLimit, PumpReads
    <3> HIDE DEF c, f
    <3> QED BY <1>3, <2>2, <2>4, <3>2, <3>3, PumpStep DEF PumpReads, PumpBecomes, PumpStates
  <2> QED BY <2>1, <2>3, <2>4
<1>4. CASE RecordFails(d)
  <2> DEFINE c == [total |-> cap[d].total + 1, chunks |-> cap[d].chunks + 1,
                   file |-> cap[d].file, fwd |-> cap[d].fwd, flushed |-> cap[d].flushed]
  <2>1. cap' = [cap EXCEPT ![d] = c]
    BY <1>0, <1>4 DEF RecordFails, Inv, TypeOK, Captures
  <2>2. /\ c \in Captures /\ c.flushed <= c.fwd /\ c.fwd <= c.file /\ c.file <= c.total
        /\ c.total <= Limit(d)
    BY <1>0, <1>1, <1>4 DEF Captures, OverLimit, RecordFails
  <2>3. inbox' = [inbox EXCEPT ![d] = inbox[d] - 1] /\ inbox[d] - 1 \in Nat
    BY <1>0, <1>4 DEF RecordFails, Inv, TypeOK
  <2> HIDE DEF c
  <2> QED BY <1>4, <2>1, <2>2, <2>3, PumpStep DEF RecordFails, PumpBecomes, PumpStates, Finished
<1>5. CASE PumpEof(d)
  <2>1. pc = "relaying" => eofIn[d] /\ inbox[d] = 0
    BY <1>5 DEF PumpEof, Reset
  <2> QED BY <1>0, <1>1, <1>2, <1>5, <2>1, PumpStep DEF PumpEof, PumpBecomes, PumpStates, Finished
<1>6. CASE PumpFails(d)
  BY <1>0, <1>1, <1>6, PumpStep DEF PumpFails, PumpBecomes, PumpStates, Finished
<1>7. CASE PumpDrained(d)
  BY <1>0, <1>1, <1>2, <1>7, PumpStep DEF PumpDrained, PumpBecomes, PumpStates
<1> QED BY <1>3, <1>4, <1>5, <1>6, <1>7

\* Ending the relay: every reason but upstream_closed promises nothing, and that
\* one is given when the upstream's pump has met the end.
LEMMA StopRelayInv ==
  ASSUME Inv, NEW why \in Reasons, NEW err, StopRelay(why, err), pc = "relaying",
         why = "upstream_closed" => pump["s2c"] = "eof"
  PROVE  Inv'
<1>1. TypeOK'
  BY DEF StopRelay, Inv, TypeOK, PcLabels, PumpStates, Finished
<1>2. NothingSkipped' /\ FreshSession' /\ EofIsReal'
  BY DEF StopRelay, Inv, TypeOK, NothingSkipped, FreshSession, EofIsReal, Finished
<1>3. ReasonIsReal'
  BY DEF StopRelay, Inv, TypeOK, EofIsReal, ReasonIsReal, Ended, Finished, Directions
<1>4. RelayedIsRecordedAndBounded'
  BY DEF StopRelay, Inv, RelayedIsRecordedAndBounded, Limit
<1> QED BY <1>1, <1>2, <1>3, <1>4 DEF Inv

\* The session task.
LEMMA SessionInv ==
  ASSUME Inv,
         \/ MonitorFires \/ MonitorFinished \/ ClientEof \/ CancelSession
         \/ CloseUpstream \/ CloseClient \/ WriteSummary \/ SummaryFails
         \/ \E d \in Directions : PumpFinished(d)
  PROVE  Inv'
<1>1. CASE MonitorFinished
  BY <1>1, StopRelayInv DEF MonitorFinished, Reasons
<1>2. ASSUME NEW d \in Directions, PumpFinished(d) PROVE Inv'
  BY <1>2, StopRelayInv DEF PumpFinished, Reasons, LimitReason
<1>3. CASE MonitorFires \/ ClientEof
  BY <1>3 DEF MonitorFires, ClientEof, Inv, TypeOK, NothingSkipped, FreshSession,
     EofIsReal, ReasonIsReal, Ended, RelayedIsRecordedAndBounded, Limit
<1>4. CASE CancelSession \/ CloseUpstream \/ CloseClient \/ WriteSummary \/ SummaryFails
  BY <1>4 DEF CancelSession, CloseUpstream, CloseClient, WriteSummary, SummaryFails, Inv, TypeOK,
     NothingSkipped, FreshSession, EofIsReal, ReasonIsReal, Ended,
     RelayedIsRecordedAndBounded, Limit, stream, PcLabels
<1> QED BY <1>1, <1>2, <1>3, <1>4

\* The invariant is inductive.
LEMMA NextInv == Inv /\ [Next]_vars => Inv'
<1> SUFFICES ASSUME Inv, [Next]_vars PROVE Inv'
  OBVIOUS
<1>1. CASE Next
  BY <1>1, PeersInv, AcceptInv, PumpInv, SessionInv DEF Next, BrokerStep
<1>2. CASE UNCHANGED vars
  BY <1>2 DEF vars, stream, Inv, TypeOK, NothingSkipped, FreshSession, EofIsReal,
     ReasonIsReal, Ended, RelayedIsRecordedAndBounded, Limit
<1> QED BY <1>1, <1>2

\* However a stream is cut into chunks, and whatever fails or is cancelled, no
\* direction records or relays more than its limit, and nothing is relayed that
\* is not on disk.
THEOREM RelayIsBounded == Spec => []RelayedIsRecordedAndBounded
<1>1. Inv => RelayedIsRecordedAndBounded
  BY DEF Inv
<1> QED BY <1>1, InitInv, NextInv, PTL DEF Spec

\* A capture the validator accepts holds all the upstream sent, up to its own end
\* of stream.
THEOREM AcceptedCapturesAreComplete == Spec => []AcceptedCaptureIsComplete
<1>1. Inv => AcceptedCaptureIsComplete
  <2> SUFFICES ASSUME Inv, Accepts
               PROVE  cap["s2c"].file = sent["s2c"] /\ eofIn["s2c"]
    BY DEF AcceptedCaptureIsComplete
  <2>1. reason = "upstream_closed"
    BY DEF Accepts, Inv, TypeOK, Reasons
  <2>2. pump["s2c"] = "eof" /\ eofIn["s2c"] /\ inbox["s2c"] = 0
    BY <2>1 DEF Inv, ReasonIsReal, Ended
  <2> QED BY <2>2 DEF Inv, TypeOK, NothingSkipped, Captures, Directions
<1> QED BY <1>1, InitInv, NextInv, PTL DEF Spec
=============================================================================
