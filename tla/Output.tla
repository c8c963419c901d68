------------------------------- MODULE Output -------------------------------
(***************************************************************************)
(* The way of a session's output from the shell to the browser: the        *)
(* worker's output gate, the link, the connection with its credits, the    *)
(* socket, the client, and the flow control that runs the other way.       *)
(*                                                                         *)
(* Sources: worker/output-gate.js and worker/core.js; the output half of   *)
(* gateway/connection.js; the send half of gateway/ws.js; the receiving    *)
(* half of client/ws-adapter.js; the waits of kernel.js.                   *)
(*                                                                         *)
(* Output is numbered byte by byte as the shell writes it. A chunk is the  *)
(* bytes from `from` on; the marker of a gap has no number.                *)
(***************************************************************************)
EXTENDS CreditLimits, Sequences, SequencesExt

CONSTANTS Backends,        \* cfg.workerBackend: "thread", "process"
          MaxPending,      \* of the gate; a marker counts as MarkerBytes
          MarkerBytes,
          PipeBytes,       \* process: stdout reports itself full beyond this
          SendQueue,       \* cfg.sendQueueBytes of the socket
          QueuedOut,       \* what the connection's account grants for output
          WriteSizes,      \* the lengths of the shell's writes
          MaxBytes,        \* bound: bytes the shell writes
          MaxRefused       \* bound: grants refused for the message rate

\* A chunk has 16384 bytes and the marker less than a hundred (output-gate.js:44).
ASSUME OutputAssumption ==
    /\ MarkerBytes \in 1..ChunkBytes /\ WriteSizes \subseteq Nat
    /\ MaxPending \in Nat /\ PipeBytes \in Nat /\ SendQueue \in Nat /\ QueuedOut \in Nat

VARIABLES shell, written, gate, toGateway, toWorker, conn, wire, client, toServer, over

outputVars == <<shell, written, gate, toGateway, toWorker, conn, wire, client, toServer, over>>
ends == <<client, toServer>>
link == <<toGateway, toWorker>>

Bytes(q) == FoldLeft(LAMBDA sum, c : sum + c.n, 0, q)
First(q, k) == SubSeq(q, 1, k)
After(q, k) == SubSeq(q, k + 1, Len(q))
Marker == [from |-> 0, n |-> MarkerBytes]
IsMarker(c) == c.from = 0

-----------------------------------------------------------------------------
(* The output gate of the worker.                                          *)

Full(bytes) == conn.backend = "process" /\ bytes > PipeBytes

Congested(g) ==
    \/ g.remotePaused \/ g.sinkFull
    \/ Bytes(g.queue) > 4 * ChunkBytes
    \/ 2 * g.inflight > MaxPending

\* _pump hands chunks over until the queue is empty, the sink is full, or more
\* than half of MaxPending is in flight; it looks at that after the first one.
Handed(g) ==
    LET stop(k) == \/ k = Len(g.queue)
                   \/ k = 0 /\ (g.remotePaused \/ g.sinkFull)
                   \/ k > 0 /\ \/ 2 * (g.inflight + Bytes(First(g.queue, k))) > MaxPending
                               \/ Full(Bytes(toGateway) + Bytes(First(g.queue, k)))
    IN  CHOOSE k \in 0..Len(g.queue) : stop(k) /\ \A j \in 0..(k - 1) : ~stop(j)

Pump(g) ==
    LET k == Handed(g)
        some == First(g.queue, k)
        pumped == [g EXCEPT !.queue = After(g.queue, k),
                            !.inflight = g.inflight + Bytes(some),
                            !.sinkFull = g.sinkFull \/ (k > 0 /\ Full(Bytes(toGateway) + Bytes(some)))]
    IN  /\ gate' = [pumped EXCEPT !.waiter = g.waiter /\ Congested(pumped)]
        /\ toGateway' = toGateway \o some

\* Text is cut into chunks of at most ChunkBytes.
Chunks(n) ==
    [i \in 1..((n + ChunkBytes - 1) \div ChunkBytes) |->
        LET before == (i - 1) * ChunkBytes
        IN  [from |-> written + before + 1,
             n |-> IF n - before < ChunkBytes THEN n - before ELSE ChunkBytes]]

\* An overflow interrupts the command that runs, and until it has ended its
\* output is dropped; with no command (an echo, a prompt) nothing is to end.
Running == shell \in {"runs", "yields"}

\* Mutant: the gap is not marked.
OverflowedSilently(g) == [g EXCEPT !.dropping = Running]

Overflowed(g) == [g EXCEPT !.queue = Append(g.queue, Marker), !.dropping = Running]

Write(n) ==
    /\ over = "no" /\ written + n <= MaxBytes
    /\ written' = written + n
    /\ \/ gate.dropping /\ UNCHANGED <<gate, toGateway>>
       \/ /\ ~gate.dropping /\ Bytes(gate.queue) + n > MaxPending
          /\ Pump(Overflowed(gate))
       \/ /\ ~gate.dropping /\ Bytes(gate.queue) + n <= MaxPending
          /\ Pump([gate EXCEPT !.queue = gate.queue \o Chunks(n)])
    /\ UNCHANGED <<shell, toWorker, conn, wire, ends, over>>

\* A pipeline starts, and a producer goes on after a yield, when the gate is not
\* congested, or when it has called its waiters. Neither wait sees an interrupt.
Shell(from, to, g) ==
    /\ over = "no" /\ shell = from /\ shell' = to /\ gate' = g
    /\ UNCHANGED <<written, link, conn, wire, ends, over>>

StartCommand ==
    IF Congested(gate) THEN Shell("idle", "starts", [gate EXCEPT !.waiter = TRUE])
                       ELSE Shell("idle", "runs", gate)
Yield == Congested(gate) /\ Shell("runs", "yields", [gate EXCEPT !.waiter = TRUE])
Resume == \/ ~gate.waiter /\ Shell("starts", "runs", gate)
          \/ ~gate.waiter /\ Shell("yields", "runs", gate)
CommandEnds == Shell("runs", "idle", [gate EXCEPT !.dropping = FALSE])

SinkDrained ==
    /\ over = "no" /\ gate.sinkFull /\ Bytes(toGateway) <= PipeBytes
    /\ Pump([gate EXCEPT !.sinkFull = FALSE])
    /\ UNCHANGED <<shell, written, toWorker, conn, wire, ends, over>>

Less(n) == [gate EXCEPT !.inflight = IF gate.inflight > n THEN gate.inflight - n ELSE 0]

\* Mutant: what waits in the queue is not sent on.
TakesConsumedOnly(n) == gate' = Less(n) /\ UNCHANGED toGateway

TakesConsumed(n) == Pump(Less(n))

WorkerHandles ==
    /\ over = "no" /\ toWorker # <<>> /\ toWorker' = Tail(toWorker)
    /\ LET m == Head(toWorker)
       IN  \/ /\ m.t = "pause"
              /\ gate' = [gate EXCEPT !.remotePaused = TRUE] /\ UNCHANGED toGateway
           \/ m.t = "resume" /\ Pump([gate EXCEPT !.remotePaused = FALSE])
           \/ m.t = "consumed" /\ TakesConsumed(m.n)
    /\ UNCHANGED <<shell, written, conn, wire, ends, over>>

-----------------------------------------------------------------------------
(* The connection.                                                         *)

\* Mutant: there is credit as long as it is not used up.
CreditForSome(c, k) == c.sentBytes + Bytes(First(c.pendingOut, k)) < c.creditBytes + ChunkBytes

\* _canSend, of the first k of the waiting chunks.
CreditFor(c, k) == c.sentBytes + Bytes(First(c.pendingOut, k)) <= c.creditBytes

\* How many of the waiting chunks _flush sends: what credit, the limit of
\* outstanding messages and the budget of the socket w all allow.
Sendable(c, w) ==
    CHOOSE k \in 0..Len(c.pendingOut) :
        LET fits(j) == /\ CreditFor(c, j) /\ Len(c.outstanding) + j <= MaxOutstanding
                       /\ Bytes(w) + Bytes(First(c.pendingOut, j)) <= SendQueue
        IN  fits(k) /\ (k < Len(c.pendingOut) => ~fits(k + 1))

Frames(c, k) ==
    [i \in 1..k |-> [seq |-> c.outSeq + i, n |-> c.pendingOut[i].n, from |-> c.pendingOut[i].from]]
Cumulated(c, k) ==
    [i \in 1..k |-> [seq |-> c.outSeq + i, cum |-> c.sentBytes + Bytes(First(c.pendingOut, i))]]

\* The socket asks for more when it has drained below a quarter of its queue.
SocketFull(c, w, k) ==
    \/ 2 * Bytes(w) >= SendQueue
    \/ /\ k < Len(c.pendingOut) /\ Bytes(w) + c.pendingOut[k + 1].n > SendQueue
       /\ CreditFor(c, k + 1) /\ Len(c.outstanding) + k < MaxOutstanding

Post(records) == toWorker' = toWorker \o records

\* _flush, and _flow after it: pause the worker while anything waits here.
Flush(c, w) ==
    LET k == Sendable(c, w)
        some == First(c.pendingOut, k)
        frames == w \o Frames(c, k)
        waits == k < Len(c.pendingOut)
    IN  /\ wire' = frames
        /\ conn' = [c EXCEPT !.pendingOut = After(c.pendingOut, k),
                             !.outSeq = c.outSeq + k, !.sentBytes = c.sentBytes + Bytes(some),
                             !.outstanding = c.outstanding \o Cumulated(c, k),
                             !.consumedPending = c.consumedPending + Bytes(some),
                             !.socketFull = c.socketFull \/ SocketFull(c, frames, k),
                             !.paused = waits]
        /\ Post(IF waits /\ ~c.paused THEN <<[t |-> "pause"]>>
                ELSE IF ~waits /\ c.paused THEN <<[t |-> "resume"]>> ELSE <<>>)

\* _output: a chunk comes out of the link, which a paused pipe holds back.
Output ==
    /\ over = "no" /\ toGateway # <<>> /\ (conn.backend = "process" => ~conn.paused)
    /\ toGateway' = Tail(toGateway)
    /\ IF Bytes(conn.pendingOut) + Bytes(wire) + Head(toGateway).n > QueuedOut
       THEN over' = "quota" /\ UNCHANGED <<conn, wire, toWorker>>
       ELSE /\ Flush([conn EXCEPT !.pendingOut = Append(conn.pendingOut, Head(toGateway))], wire)
            /\ UNCHANGED over
    /\ UNCHANGED <<shell, written, gate, ends>>

\* Mutant: what has been reported is reported again.
ReportConsumedAgain ==
    /\ over = "no" /\ conn.consumedPending > 0 /\ Len(toWorker) < 3
    /\ Post(<<[t |-> "consumed", n |-> conn.consumedPending]>>)
    /\ UNCHANGED <<shell, written, gate, toGateway, conn, wire, ends, over>>

\* One `consumed` record per turn of the event loop.
ReportConsumed ==
    /\ over = "no" /\ conn.consumedPending > 0
    /\ Post(<<[t |-> "consumed", n |-> conn.consumedPending]>>)
    /\ conn' = [conn EXCEPT !.consumedPending = 0]
    /\ UNCHANGED <<shell, written, gate, toGateway, wire, ends, over>>

\* _credit. A grant an honest client never sends ends the session.
Violates(c, m, left) ==
    \/ m.seq < c.consumedSeq \/ m.seq > c.outSeq \/ m.credit < c.creditBytes
    \/ m.credit - left > Window

Granted(c, m) ==
    LET k == Cardinality({i \in DOMAIN c.outstanding : c.outstanding[i].seq <= m.seq})
        left == IF k = 0 THEN c.consumedBytes ELSE c.outstanding[k].cum
    IN  IF Violates(c, m, left)
        THEN over' = "violation" /\ UNCHANGED <<conn, wire, toWorker>>
        ELSE /\ Flush([c EXCEPT !.outstanding = After(c.outstanding, k), !.consumedBytes = left,
                                !.consumedSeq = m.seq, !.creditBytes = m.credit], wire)
             /\ UNCHANGED over

Credited ==
    /\ over = "no" /\ toServer # <<>> /\ toServer' = Tail(toServer)
    /\ Granted(conn, Head(toServer))
    /\ UNCHANGED <<shell, written, gate, toGateway, client>>

\* The message rate is exceeded: whatever the message, it is not looked at.
CreditRefused ==
    /\ over = "no" /\ toServer # <<>> /\ toServer' = Tail(toServer)
    /\ conn.strikes < MaxRefused
    /\ conn' = [conn EXCEPT !.strikes = conn.strikes + 1, !.refused = Len(toServer) = 1]
    /\ UNCHANGED <<shell, written, gate, link, wire, client, over>>

-----------------------------------------------------------------------------
(* The client.                                                             *)

RenewalDue(c) ==
    \/ 4 * (c.consumed - c.creditedAt) >= Window
    \/ 2 * (c.credit - c.consumed) < Window
    \/ c.since >= RenewMessages

Consumed(c, m) ==
    [c EXCEPT !.lastOut = m.seq, !.consumed = c.consumed + m.n, !.since = c.since + 1,
              !.upto = IF m.from = 0 THEN c.upto ELSE m.from + m.n - 1, !.marked = m.from = 0]
Renewed(c) == [c EXCEPT !.credit = c.consumed + Window, !.creditedAt = c.consumed, !.since = 0]

\* The browser takes a message from the socket: the write of it is settled,
\* which may drain the socket and flush what waits for it.
ClientReceives ==
    /\ over = "no" /\ wire # <<>>
    /\ LET c == Consumed(client, Head(wire))
           drained == conn.socketFull /\ 4 * Bytes(Tail(wire)) < SendQueue
           s == IF RenewalDue(c) THEN [conn EXCEPT !.refused = FALSE] ELSE conn
       IN  /\ IF RenewalDue(c)
              THEN /\ client' = Renewed(c)
                   /\ toServer' = Append(toServer, [seq |-> c.lastOut, credit |-> c.consumed + Window])
              ELSE client' = c /\ UNCHANGED toServer
           /\ IF drained THEN Flush([s EXCEPT !.socketFull = FALSE], Tail(wire))
                         ELSE conn' = s /\ wire' = Tail(wire) /\ UNCHANGED toWorker
    /\ UNCHANGED <<shell, written, gate, toGateway, over>>

-----------------------------------------------------------------------------
OutputInit ==
    /\ shell = "idle" /\ written = 0 /\ over = "no"
    /\ gate = [queue |-> <<>>, inflight |-> 0, remotePaused |-> FALSE, sinkFull |-> FALSE,
               dropping |-> FALSE, waiter |-> FALSE]
    /\ toGateway = <<>> /\ toWorker = <<>> /\ wire = <<>> /\ toServer = <<>>
    /\ \E b \in Backends :
       conn = [backend |-> b, pendingOut |-> <<>>, outstanding |-> <<>>, outSeq |-> 0, sentBytes |-> 0,
               creditBytes |-> Window, consumedSeq |-> 0, consumedBytes |-> 0,
               consumedPending |-> 0, paused |-> FALSE, socketFull |-> FALSE,
               strikes |-> 0, refused |-> FALSE]
    /\ client = [lastOut |-> 0, consumed |-> 0, credit |-> Window, creditedAt |-> 0,
                 since |-> 0, upto |-> 0, marked |-> FALSE]

Moves == Resume \/ SinkDrained \/ WorkerHandles \/ Output \/ ReportConsumed \/ Credited \/ ClientReceives
OutputNext ==
    \/ \E n \in WriteSizes : Write(n)
    \/ StartCommand \/ Yield \/ CommandEnds \/ CreditRefused
    \/ Moves

\* While a message is unhandled or a continuation can run, something of that kind
\* happens: the two event loops and the browser go on. The shell need not write,
\* end or start anything, and no timer is relied upon.
OutputSpec == OutputInit /\ [][OutputNext]_outputVars /\ WF_outputVars(Moves)
-----------------------------------------------------------------------------
(* Properties.                                                             *)

\* Everything on its way, from the browser's end to the gate's.
Pipeline == [i \in 1..Len(wire) |-> [from |-> wire[i].from, n |-> wire[i].n]]
            \o conn.pendingOut \o toGateway \o gate.queue
Shown(i) == LET data == {j \in 1..i : ~IsMarker(Pipeline[j])}
            IN  IF data = {} THEN client.upto
                ELSE LET j == CHOOSE j \in data : \A l \in data : l <= j
                     IN  Pipeline[j].from + Pipeline[j].n - 1
Marked(i) == IF i = 0 THEN client.marked ELSE IsMarker(Pipeline[i])

\* What the browser shows is what the shell wrote, in order, and where output is
\* missing the marker of the gap stands in its place: "output is never dropped
\* silently" (output-gate.js:12). Only a session that ends for its quota is not
\* sent the rest.
InOrder == over # "quota" =>
    /\ \A i \in 1..Len(Pipeline) :
          ~IsMarker(Pipeline[i]) =>
              \/ Pipeline[i].from = Shown(i - 1) + 1
              \/ Pipeline[i].from > Shown(i - 1) /\ Marked(i - 1)
    /\ Shown(Len(Pipeline)) < written => Marked(Len(Pipeline))

\* The gate's window counts exactly the bytes that are in the link, wait in the
\* connection, or have been sent without the worker having been told: nothing is
\* forgotten (the window would shrink for good) and nothing counted twice.
Reported(q) == [i \in 1..Len(q) |-> [n |-> IF q[i].t = "consumed" THEN q[i].n ELSE 0]]
WindowIsExact == over # "quota" =>
    gate.inflight = Bytes(toGateway) + Bytes(conn.pendingOut) + conn.consumedPending
                    + Bytes(Reported(toWorker))

\* A producer that waits for the gate goes on, and once the shell writes no more,
\* all it wrote has reached the screen: output never waits for a credit or a
\* callback that nobody will send any more. Excused is a session ended for its
\* quota, and one whose last grant was refused for the message rate, but not one
\* whose grant was taken for a violation: this client makes none.
Excused == over = "quota" \/ conn.refused
Flows ==
    /\ shell \in {"starts", "yields"} ~> shell = "runs" \/ Excused
    /\ <>[](Pipeline = <<>> \/ Excused)

\* The credits are those of the abstract protocol.
Protocol == INSTANCE Credit WITH
    sent <- [bytes |-> conn.sentBytes, messages |-> conn.outSeq],
    known <- [credit |-> conn.creditBytes, messages |-> conn.consumedSeq],
    grants <- {[credit |-> m.credit, messages |-> m.seq] : m \in Range(toServer)},
    consumed <- [bytes |-> client.consumed, messages |-> client.lastOut],
    last <- [bytes |-> client.creditedAt, messages |-> client.lastOut - client.since],
    lost <- conn.refused
KeepsCredit == Protocol!CreditInit /\ [][Protocol!CreditNext]_<<Protocol!creditVars>>
=============================================================================
