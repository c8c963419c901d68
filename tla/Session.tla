------------------------------- MODULE Session -------------------------------
(***************************************************************************)
(* The terminal gateway's connections, from the upgrade to the last        *)
(* callback: class Connection of src/runtime/hermit/gateway/connection.js  *)
(* with its registry entry and the gateway's shutdown (server.js), its     *)
(* worker link (worker-link.js), its socket (ws.js) and the life of its    *)
(* worker (worker/core.js, host.js, thread.js).                            *)
(*                                                                         *)
(* Handlers run to completion, but a control message that cannot be queued *)
(* terminates the socket, and the socket's close handler then runs in the  *)
(* middle of the handler that sent it.  A handler is therefore the set of  *)
(* the states it can leave the connection in, composed of its calls.       *)
(* Bytes, credits and leases are left out: output is a number of chunks,   *)
(* sent as far as credit and socket allow.                                 *)
(***************************************************************************)
EXTENDS Integers, Sequences, FiniteSets

CONSTANTS
  Conn,             \* connections
  Backends,         \* the worker backends to choose from
  SessionCap,       \* admittedSessionCap
  ControlRunsOut,   \* whether the send queue's control reserve can be exhausted
  MaxOut            \* bound: chunks of output a worker produces

ASSUME BackendAssumption == Backends \subseteq {"thread", "process"}
ASSUME CapacityAssumption == SessionCap \in Nat /\ MaxOut \in Nat
ASSUME ControlAssumption == ControlRunsOut \in BOOLEAN

VARIABLES
  backend,    \* cfg.workerBackend
  conn,       \* the connections
  draining,   \* registry.draining
  stopped,    \* what shutdown() resolved to: no, clean, forced
  overdue     \* ghost: the shutdown deadline found connections open

sessionVars == <<backend, conn, draining, stopped, overdue>>

Reason == {"closed", "shutdown", "expired", "quota", "logout", "worker_failure"}
Live == {"starting", "ready", "open", "finishing"}

Connection ==
  [state : {"none", "AUTHENTICATED", "OPENING", "ACTIVE", "DRAINING", "CLOSED"},
   closing : BOOLEAN, endReason : Reason \cup {"none"},
   gen : 1..2,                       \* callbacks of an older generation are ignored
   ws : {"none", "OPEN", "CLOSING", "CLOSED"},
   timers : SUBSET {"open", "idle", "ready", "ping"},
   known : BOOLEAN,                  \* in registry.conns
   reserved : BOOLEAN,               \* in registry.reserved
   charged : BOOLEAN,                \* has sessAccount
   account : BOOLEAN,                \* the transport account is open
   sid : BOOLEAN,                    \* has a session id
   link : BOOLEAN, linkGen : 0..2,   \* has a link; the generation of its callbacks
   paused : BOOLEAN, discard : BOOLEAN, pending : 0..MaxOut,
   exitSent : BOOLEAN, workerExit : Reason \cup {"none"}, killedByUs : BOOLEAN,
   sent : Seq({"opened", "output", "exit"}),     \* ghost: what the client is sent
   told : Reason \cup {"none"},                  \* ghost: the reason of session.exit
   \* the worker and its link
   proc : {"none", "dead"} \cup Live,
   inbox : Seq({"open", "close"}), outbox : Seq({"ready", "opened", "output", "exit"}),
   produced : 0..MaxOut,
   ending : Reason \cup {"none"},    \* the reason of the worker's exit record
   doomed : BOOLEAN,                 \* killed, and not dead yet
   stopping : {"no", "plain", "forced"},         \* the timer of stop()
   gone : {"no", "ok", "failed", "oom", "seen"}, \* the worker's exit event
   broken : BOOLEAN,                 \* ghost: the worker failed, or was found unresponsive
   left : BOOLEAN]                   \* ghost: the client's end started the closing handshake

Fresh ==
  [state |-> "none", closing |-> FALSE, endReason |-> "none", gen |-> 1, ws |-> "none",
   timers |-> {}, known |-> FALSE, reserved |-> FALSE, charged |-> FALSE, account |-> FALSE,
   sid |-> FALSE, link |-> FALSE, linkGen |-> 0, paused |-> FALSE, discard |-> FALSE,
   pending |-> 0, exitSent |-> FALSE, workerExit |-> "none", killedByUs |-> FALSE,
   sent |-> <<>>, told |-> "none", proc |-> "none", inbox |-> <<>>, outbox |-> <<>>,
   produced |-> 0, ending |-> "none", doomed |-> FALSE, stopping |-> "no", gone |-> "no",
   broken |-> FALSE, left |-> FALSE]

SessionTypeOK ==
  /\ backend \in Backends
  /\ conn \in [Conn -> Connection]
  /\ draining \in BOOLEAN
  /\ stopped \in {"no", "clean", "forced"}
  /\ overdue \in BOOLEAN

SessionInit ==
  /\ backend \in Backends
  /\ conn = [c \in Conn |-> Fresh]
  /\ draining = FALSE
  /\ stopped = "no"
  /\ overdue = FALSE

-----------------------------------------------------------------------------
(* The link to the worker *)

Kill(s) == [s EXCEPT !.doomed = s.proc \in Live]

Post(s, rec) == IF s.proc \in Live THEN [s EXCEPT !.inbox = Append(@, rec)] ELSE s

(* Mutant: the worker is asked, and no timer runs. *)
StopWorkerPolitely(s, how) == {Post(s, "close")}

(* send of a close record, then stop; a process that is dead may refuse    *)
(* the record and is killed instead.                                       *)
StopWorker(s, how) ==
  {[Post(s, "close") EXCEPT !.stopping = how]} \cup
  (IF backend = "process" /\ s.proc = "dead"
   THEN {[s EXCEPT !.killedByUs = (how = "forced")]} ELSE {})

-----------------------------------------------------------------------------
(* The calls of a connection: each yields the set of its outcomes *)

Then(outcomes, F(_)) == UNION {F(s) : s \in outcomes}

(* _releaseSession. *)
Release(s) == [s EXCEPT !.reserved = FALSE, !.charged = FALSE]

Fenced(s) ==
  Release([s EXCEPT !.state = "CLOSED", !.ws = "CLOSED", !.gen = @ + 1, !.timers = {},
                    !.pending = 0, !.account = FALSE, !.known = FALSE])

(* Mutant: the worker is left alone. *)
SocketClosedOnly(s) ==
  IF s.state = "CLOSED" THEN {[s EXCEPT !.ws = "CLOSED"]} ELSE {Fenced(s)}

(* _onSocketClose. *)
SocketClosed(s) ==
  IF s.state = "CLOSED" THEN {[s EXCEPT !.ws = "CLOSED"]}
  ELSE IF s.link /\ ~ s.closing
       THEN {Fenced(t) : t \in
               StopWorker([s EXCEPT !.closing = TRUE, !.endReason = "closed"], "plain")}
       ELSE {Fenced(s)}

(* _control: a message that is not queued terminates the socket. *)
Control(s, msg) ==
  (IF s.ws = "OPEN"
   THEN {[s EXCEPT !.sent = IF msg = "note" THEN @ ELSE Append(@, msg)]} ELSE {}) \cup
  (IF s.ws = "CLOSING" \/ (s.ws = "OPEN" /\ ControlRunsOut) THEN SocketClosed(s) ELSE {}) \cup
  (IF s.ws = "CLOSED" THEN {s} ELSE {})

(* _closeSocket. *)
CloseSocket(s) ==
  [s EXCEPT !.timers = {}, !.ws = IF @ = "OPEN" THEN "CLOSING" ELSE @]

ExitReason(s) ==
  IF s.workerExit # "none" THEN s.workerExit
  ELSE IF s.endReason # "none" THEN s.endReason ELSE "closed"

(* _finalExit. *)
FinalExit(s) ==
  IF s.exitSent \/ ~ s.sid THEN {Release(s)}
  ELSE {Release(t) : t \in Control([s EXCEPT !.exitSent = TRUE, !.pending = 0,
                                             !.told = ExitReason(s)], "exit")}

(* Mutant: without a worker, the socket is left to its client. *)
EndOpen(s, reason) ==
  LET d == [s EXCEPT !.closing = TRUE, !.endReason = reason, !.state = "DRAINING"]
  IN IF s.closing \/ s.state = "CLOSED" THEN {s}
     ELSE IF ~ s.link THEN FinalExit(d)
     ELSE StopWorker([d EXCEPT !.discard = @ \/ d.paused, !.paused = FALSE], "forced")

(* end. *)
End(s, reason) ==
  LET d == [s EXCEPT !.closing = TRUE, !.endReason = reason, !.state = "DRAINING"]
  IN IF s.closing \/ s.state = "CLOSED" THEN {s}
     ELSE IF ~ s.link THEN {CloseSocket(t) : t \in FinalExit(d)}
     ELSE StopWorker([d EXCEPT !.discard = @ \/ d.paused, !.paused = FALSE], "forced")

(* _error, then end: _fatal, and the refusals that end the session. *)
Fail(s, reason) == Then(Control(s, "note"), LAMBDA t : End(t, reason))

(* _workerFailed. *)
WorkerFailed(s) ==
  {CloseSocket(t) : t \in FinalExit(Kill([s EXCEPT !.workerExit = "worker_failure",
                                                  !.broken = TRUE]))}

(* _flow. *)
Flow(s) == IF s.closing \/ ~ s.link THEN s ELSE [s EXCEPT !.paused = s.pending > 0]

(* Mutant: output is sent on a closing socket. *)
FlushClosing(s) ==
  IF s.state \notin {"ACTIVE", "DRAINING"} THEN {Flow([s EXCEPT !.pending = 0])}
  ELSE {Flow([s EXCEPT !.pending = @ - k, !.sent = @ \o [i \in 1..k |-> "output"]]) :
          k \in 0..s.pending}

(* _flush: what credit and socket allow is sent, in order. *)
Flush(s) ==
  IF s.state \notin {"ACTIVE", "DRAINING"} THEN {Flow([s EXCEPT !.pending = 0])}
  ELSE {Flow([s EXCEPT !.pending = @ - k, !.sent = @ \o [i \in 1..k |-> "output"]]) :
          k \in 0..(IF s.ws = "OPEN" THEN s.pending ELSE 0)}

(* _output: the chunk is queued, or the account refuses it. *)
Output(s) ==
  IF s.discard \/ s.state \notin {"ACTIVE", "DRAINING"} THEN {s}
  ELSE (IF s.account THEN Flush([s EXCEPT !.pending = @ + 1]) ELSE {}) \cup Fail(s, "quota")

-----------------------------------------------------------------------------
(* The handlers of a connection *)

(* _open, once admitted.  previous: the client asks for a session that is  *)
(* gone, and is told so before the worker is linked.                       *)
Opened(s, previous) ==
  LET linked(t) == {[t EXCEPT !.state = "OPENING", !.link = TRUE, !.linkGen = t.gen,
                              !.timers = @ \cup {"ready"}, !.proc = "starting"]}
      admitted == [s EXCEPT !.reserved = TRUE, !.charged = TRUE]
  IN IF previous THEN Then(Control(admitted, "note"), linked) ELSE linked(admitted)

(* _fromWorker.  A record that finds no link breaks the pipe's decoder. *)
FromWorker(s, rec) ==
  CASE rec = "ready"  -> IF s.link THEN {Post(s, "open")} ELSE {[s EXCEPT !.outbox = <<>>]}
    [] rec = "opened" -> IF s.state # "OPENING" THEN {s}
                         ELSE {[t EXCEPT !.timers = @ \cup {"ping"}] :
                               t \in Control([s EXCEPT !.sid = TRUE, !.state = "ACTIVE"],
                                             "opened")}
    [] rec = "output" -> Output(s)
    [] rec = "exit"   -> {[s EXCEPT !.workerExit = s.ending]}

(* Why the session is over, if the worker did not say. *)
ExitedBecause(s, how) ==
  IF s.closing /\ (how = "ok" \/ s.killedByUs) THEN s.endReason
  ELSE IF how = "oom" THEN "quota" ELSE "worker_failure"

Exited(s, how) ==
  [s EXCEPT !.link = FALSE, !.workerExit = IF @ = "none" THEN ExitedBecause(s, how) ELSE @]

(* _workerExited. *)
WorkerExited(s, how) ==
  LET noted == IF how = "oom" THEN Control(Exited(s, how), "note") ELSE {Exited(s, how)}
  IN {CloseSocket(t) : t \in Then(noted, FinalExit)}

-----------------------------------------------------------------------------
(* The registry *)

Reserved == {c \in Conn : conn[c].reserved}
Known == {c \in Conn : conn[c].known}

(* A step of the gateway that leaves connection c as one of outcomes.      *)
(* forget of the last connection ends a shutdown.                          *)
Becomes(c, outcomes) ==
  /\ stopped = "no"
  /\ \E s \in outcomes : conn' = [conn EXCEPT ![c] = s]
  /\ stopped' = IF draining /\ Known # {} /\ \A d \in Conn : ~ conn'[d].known
                THEN "clean" ELSE "no"
  /\ UNCHANGED <<backend, draining, overdue>>

Timer(c, t) == t \in conn[c].timers

(* A message of the client is handled. *)
Listens(c) == conn[c].ws = "OPEN" /\ conn[c].state # "CLOSED" /\ ~ conn[c].closing

(* The upgrade: admit and the constructor. *)
Accept(c) ==
  /\ conn[c].state = "none"
  /\ ~ draining
  /\ Cardinality(Known) < 2 * SessionCap
  /\ Becomes(c, {[conn[c] EXCEPT !.state = "AUTHENTICATED", !.ws = "OPEN", !.known = TRUE,
                                 !.account = TRUE, !.timers = {"open", "idle"}]})

(* session.open, admitted; memory may be refused instead. *)
Open(c, previous) ==
  /\ Listens(c)
  /\ conn[c].state = "AUTHENTICATED"
  /\ ~ draining
  /\ Cardinality(Reserved) < SessionCap
  /\ Becomes(c, Opened(conn[c], previous))

(* session.open refused: capacity, memory, a draining service. *)
OpenRefused(c) ==
  /\ Listens(c)
  /\ conn[c].state = "AUTHENTICATED"
  /\ Becomes(c, Fail(conn[c], IF draining THEN "closed" ELSE "quota"))

(* session.close, of an open session; a violation of the protocol or of a  *)
(* limit, at any time.                                                     *)
ClientEnds(c) ==
  /\ Listens(c)
  /\ conn[c].state = "ACTIVE"
  /\ \E r \in {"closed", "logout"} : Becomes(c, End(conn[c], r))
ClientFails(c) == Listens(c) /\ \E r \in {"closed", "quota"} : Becomes(c, Fail(conn[c], r))

(* Credit arrives, or the socket drains. *)
Drain(c) ==
  /\ conn[c].pending > 0
  /\ conn[c].ws = "OPEN"
  /\ Becomes(c, Flush(conn[c]))

(* The timers: no session.open, idle or heartbeat, no worker, worker ping. *)
OpenDeadline(c) ==
  Timer(c, "open") /\ conn[c].state = "AUTHENTICATED" /\ Becomes(c, Fail(conn[c], "closed"))
Expire(c) == Timer(c, "idle") /\ Becomes(c, End(conn[c], "expired"))
ReadyDeadline(c) ==
  Timer(c, "ready") /\ conn[c].state = "OPENING" /\ Becomes(c, WorkerFailed(conn[c]))
PingDeadline(c) ==
  /\ Timer(c, "ping")
  /\ conn[c].link /\ conn[c].state = "ACTIVE"
  /\ LET slow == Fail(conn[c], "quota")
     IN Becomes(c, IF ~ conn[c].paused THEN WorkerFailed(conn[c])
                   ELSE IF backend = "process" THEN slow
                   ELSE slow \cup WorkerFailed(conn[c]) \cup Then(slow, WorkerFailed))

(* The client closes, or breaks the framing: the handshake begins. *)
ClientLeaves(c) ==
  /\ conn[c].ws = "OPEN"
  /\ Becomes(c, {[conn[c] EXCEPT !.ws = "CLOSING", !.left = TRUE]})

(* The socket is gone: lost, or the closing handshake or its timer is over. *)
SocketGone(c) ==
  /\ conn[c].ws \in {"OPEN", "CLOSING"}
  /\ Becomes(c, SocketClosed(conn[c]))

(* The next record of the worker. *)
Receive(c) ==
  LET s == [conn[c] EXCEPT !.outbox = Tail(@)] IN
  /\ conn[c].outbox # <<>>
  /\ backend = "process" => ~ conn[c].paused
  /\ Becomes(c, IF s.linkGen = s.gen THEN FromWorker(s, Head(conn[c].outbox)) ELSE {s})

(* The worker's exit event.  A thread's messages come before it; a child's *)
(* pipe may still hold records, always if it is paused.                    *)
ExitEvent(c) ==
  LET s == [conn[c] EXCEPT !.gone = "seen", !.stopping = "no"] IN
  /\ conn[c].gone \in {"ok", "failed", "oom"}
  /\ backend = "thread" => conn[c].outbox = <<>>
  /\ Becomes(c, IF s.linkGen = s.gen THEN WorkerExited(s, conn[c].gone) ELSE {s})

(* Mutant: nobody notes whose doing the end was. *)
GraceOverUnnoted(c) ==
  /\ conn[c].stopping # "no"
  /\ Becomes(c, {Kill([conn[c] EXCEPT !.stopping = "no"])})

(* The grace period of stop is over. *)
GraceOver(c) ==
  /\ conn[c].stopping # "no"
  /\ Becomes(c, {Kill([conn[c] EXCEPT !.stopping = "no",
                                      !.killedByUs = @ \/ conn[c].stopping = "forced"])})

-----------------------------------------------------------------------------
(* The worker *)

Worker(c, s) ==
  /\ stopped = "no"
  /\ conn' = [conn EXCEPT ![c] = s]
  /\ UNCHANGED <<backend, draining, stopped, overdue>>

Emit(s, rec) == [s EXCEPT !.outbox = Append(@, rec)]

Finish(s, reason) ==
  IF s.proc = "finishing" THEN s
  ELSE Emit([s EXCEPT !.proc = "finishing", !.ending = reason], "exit")

(* The open record: opened, and the banner, in one step. *)
WorkerOpens(s) ==
  LET t == Emit([s EXCEPT !.proc = "open"], "opened")
  IN IF s.produced < MaxOut THEN Emit([t EXCEPT !.produced = @ + 1], "output") ELSE t

WorkerReady(c) ==
  /\ conn[c].proc = "starting"
  /\ Worker(c, Emit([conn[c] EXCEPT !.proc = "ready"], "ready"))

WorkerHandles(c) ==
  LET s == [conn[c] EXCEPT !.inbox = Tail(@)] IN
  /\ conn[c].proc \in {"ready", "open", "finishing"}
  /\ conn[c].inbox # <<>>
  /\ Worker(c, IF Head(conn[c].inbox) = "close" THEN Finish(s, s.endReason)
               ELSE IF s.proc = "ready" THEN WorkerOpens(s) ELSE s)

WorkerPrints(c) ==
  /\ conn[c].proc = "open"
  /\ conn[c].produced < MaxOut
  /\ Worker(c, Emit([conn[c] EXCEPT !.produced = @ + 1], "output"))

(* The user's exit command. *)
WorkerLogout(c) == conn[c].proc = "open" /\ Worker(c, Finish(conn[c], "logout"))

WorkerEnds(c) ==
  /\ conn[c].proc = "finishing"
  /\ Worker(c, [conn[c] EXCEPT !.proc = "dead", !.doomed = FALSE, !.inbox = <<>>,
                               !.gone = "ok"])

(* The worker crashes, runs into its heap cap, or is killed. *)
WorkerDies(c) ==
  /\ conn[c].proc \in Live
  /\ \E how \in {"failed"} \cup (IF backend = "thread" THEN {"oom"} ELSE {}) :
       Worker(c, [conn[c] EXCEPT !.proc = "dead", !.doomed = FALSE, !.inbox = <<>>,
                                 !.gone = how, !.broken = @ \/ ~ conn[c].doomed])

-----------------------------------------------------------------------------
(* Shutdown *)

(* Every known connection becomes one of F of it, in one step. *)
EachKnown(F(_)) ==
  \E next \in [Known -> UNION {F(conn[c]) : c \in Known}] :
    /\ \A c \in Known : next[c] \in F(conn[c])
    /\ conn' = [c \in Conn |-> IF c \in Known THEN next[c] ELSE conn[c]]

Resolved == IF \A c \in Conn : ~ conn'[c].known THEN "clean" ELSE "no"

(* shutdown: every connection is told, and ended. *)
Shutdown ==
  /\ ~ draining /\ stopped = "no"
  /\ draining' = TRUE
  /\ EachKnown(LAMBDA s : Fail(s, "shutdown"))
  /\ stopped' = Resolved
  /\ UNCHANGED <<backend, overdue>>

(* finish(true): what is left is killed and terminated.  When that forgets *)
(* the last connection, finish(false) runs inside it and resolves first.   *)
ShutdownDeadline ==
  /\ draining /\ stopped = "no"
  /\ EachKnown(LAMBDA s : SocketClosed(IF s.link THEN Kill(s) ELSE s))
  /\ stopped' = IF Resolved = "clean" THEN "clean" ELSE "forced"
  /\ overdue' = TRUE
  /\ UNCHANGED <<backend, draining>>

GatewayNext ==
  \/ \E c \in Conn :
       \/ Accept(c) \/ (\E previous \in BOOLEAN : Open(c, previous)) \/ OpenRefused(c)
       \/ ClientEnds(c) \/ ClientFails(c) \/ Drain(c)
       \/ OpenDeadline(c) \/ Expire(c) \/ ReadyDeadline(c) \/ PingDeadline(c)
       \/ ClientLeaves(c) \/ SocketGone(c) \/ Receive(c) \/ ExitEvent(c) \/ GraceOver(c)
  \/ Shutdown \/ ShutdownDeadline

WorkerNext ==
  \E c \in Conn :
    \/ WorkerReady(c) \/ WorkerHandles(c) \/ WorkerPrints(c) \/ WorkerLogout(c)
    \/ WorkerEnds(c) \/ WorkerDies(c)

SessionNext == GatewayNext \/ WorkerNext

SessionSpec == SessionInit /\ [][SessionNext]_sessionVars

(* A socket that is closing is gone after its timer; timers fire, callbacks *)
(* run, and what is killed dies.  A worker owes nothing but to end once it  *)
(* has finished: it may loop.                                               *)
SessionFairness ==
  \A c \in Conn :
    /\ WF_sessionVars(conn[c].ws = "CLOSING" /\ SocketGone(c))
    /\ WF_sessionVars(ReadyDeadline(c))
    /\ WF_sessionVars(Receive(c))
    /\ WF_sessionVars(ExitEvent(c))
    /\ WF_sessionVars(GraceOver(c))
    /\ WF_sessionVars(WorkerEnds(c))
    /\ WF_sessionVars(conn[c].doomed /\ WorkerDies(c))

SessionLive == SessionSpec /\ SessionFairness

-----------------------------------------------------------------------------
(* Properties *)

Running(s) == s.proc \in {"starting", "ready", "open"}

Dismissed(s) == s.doomed \/ s.stopping # "no" \/ "close" \in {s.inbox[i] : i \in DOMAIN s.inbox}

(* What a client is sent (_control, _flush, _finalExit): session.opened    *)
(* first or not at all, session.exit last and only of an opened session,   *)
(* and neither of them twice.  A session that is ended while it opens is   *)
(* never opened, but its banner may still be sent.  An opened one is told  *)
(* its end before the gateway closes the socket (_finalExit before         *)
(* _closeSocket), unless the client closes first or the socket is lost.    *)
WireDiscipline ==
  \A c \in Conn :
    LET sent == conn[c].sent IN
    /\ \A i \in DOMAIN sent :
         /\ sent[i] = "opened" => i = 1
         /\ sent[i] = "exit" => i = Len(sent) /\ sent[1] = "opened"
    /\ conn[c].ws = "CLOSING" /\ ~ conn[c].left /\ sent # <<>> /\ sent[1] = "opened" =>
         sent[Len(sent)] = "exit"

(* A running worker is charged for "BEFORE the worker exists": "the        *)
(* worker's whole reservation" (connection.js:228).                        *)
ReservedBeforeWorker ==
  \A c \in Conn :
    Running(conn[c]) => (conn[c].reserved /\ conn[c].charged) \/ Dismissed(conn[c])

(* A connection the registry has forgotten holds nothing: no place, no     *)
(* account of either kind; and a worker runs only while its session holds  *)
(* them, or has been told to stop, or is being killed (_onSocketClose,     *)
(* _open, end).  Of a worker linked by a connection that was closed before *)
(* see ReservedBeforeWorker.                                               *)
NothingKept ==
  \A c \in Conn :
    /\ ~ conn[c].known => ~ conn[c].reserved /\ ~ conn[c].charged /\ ~ conn[c].account
    /\ conn[c].linkGen = 1 /\ Running(conn[c]) =>
         (conn[c].reserved /\ conn[c].charged) \/ Dismissed(conn[c])

(* The reason in session.exit is the worker's own, or the gateway's for    *)
(* ending the session; "worker_failure" only if the worker failed or was   *)
(* found unresponsive (_workerExited, end, stop).  So with threads; the    *)
(* exit event of a child can overtake the exit record.                     *)
ExitIsTruthful ==
  backend = "thread" =>
    \A c \in Conn :
      LET s == conn[c] IN
      CASE s.told = "none" -> TRUE
        [] s.told = "worker_failure" -> s.broken
        [] OTHER -> s.told \in {s.ending, s.endReason} \/ (s.told = "quota" /\ s.broken)

(* Whatever ends a connection, its socket is closed and it is forgotten:   *)
(* nothing waits for ever for a worker (stop, kill, the closing timer).    *)
ConnectionEnds ==
  \A c \in Conn :
    conn[c].closing \/ conn[c].workerExit # "none" \/ conn[c].ws = "CLOSING" ~>
      ~ conn[c].known \/ stopped # "no"

(* A worker does not outlive its connection, even one that loops, unless   *)
(* the gateway itself ends first (_onSocketClose, stop).                   *)
WorkerReaped ==
  \A c \in Conn : conn[c].ws = "CLOSED" ~> conn[c].proc \notin Live \/ stopped # "no"

(* A shutdown that ran into its deadline says so: "r.forced ? 1 : 0" is    *)
(* the exit code of the process (server.js:299, 323).                      *)
ForcedIsReported == overdue /\ stopped # "no" => stopped = "forced"
=============================================================================
