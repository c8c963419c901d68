---------------------------- MODULE Session_proofs ----------------------------
(***************************************************************************)
(* What the gateway owes a client and itself, for any set of connections   *)
(* and both worker backends: Sound is inductive, connection by connection, *)
(* over every call a handler makes.                                        *)
(***************************************************************************)
EXTENDS Session, TLAPS

Typed(s) ==
  /\ s.state \in {"none", "AUTHENTICATED", "OPENING", "ACTIVE", "DRAINING", "CLOSED"}
  /\ s.closing \in BOOLEAN /\ s.endReason \in Reason \cup {"none"} /\ s.gen \in Nat
  /\ s.ws \in {"none", "OPEN", "CLOSING", "CLOSED"}
  /\ s.timers \subseteq {"open", "idle", "ready", "ping"}
  /\ s.known \in BOOLEAN /\ s.reserved \in BOOLEAN /\ s.charged \in BOOLEAN
  /\ s.account \in BOOLEAN /\ s.sid \in BOOLEAN /\ s.link \in BOOLEAN
  /\ s.linkGen \in Nat /\ s.paused \in BOOLEAN /\ s.discard \in BOOLEAN
  /\ s.pending \in Nat /\ s.exitSent \in BOOLEAN
  /\ s.workerExit \in Reason \cup {"none"} /\ s.killedByUs \in BOOLEAN
  /\ s.sent \in Seq({"opened", "output", "exit"}) /\ s.told \in Reason \cup {"none"}
  /\ s.proc \in {"none", "dead"} \cup Live
  /\ s.inbox \in Seq({"open", "close"})
  /\ s.outbox \in Seq({"ready", "opened", "output", "exit"})
  /\ s.produced \in Nat /\ s.ending \in Reason \cup {"none"} /\ s.doomed \in BOOLEAN
  /\ s.stopping \in {"no", "plain", "forced"}
  /\ s.gone \in {"no", "ok", "failed", "oom", "seen"}
  /\ s.broken \in BOOLEAN /\ s.left \in BOOLEAN

(* The connection's own state, its socket and its generation agree. *)
Phase(s) ==
  /\ s.ws = "none" <=> s.state = "none"
  /\ s.state = "none" => s.timers = {}
  /\ s.known <=> s.ws \in {"OPEN", "CLOSING"}
  /\ s.gen = IF s.ws = "CLOSED" THEN 2 ELSE 1
  /\ s.linkGen <= s.gen
  /\ s.ws \in {"none", "CLOSED"} =>
       s.reserved = FALSE /\ s.charged = FALSE /\ s.account = FALSE
  /\ s.state = "CLOSED" => s.ws = "CLOSED"
  /\ s.state \in {"none", "AUTHENTICATED"} => s.linkGen = 0 /\ s.closing = FALSE

(* The link and the worker agree. *)
Linked(s) ==
  /\ s.proc = "none" <=> s.linkGen = 0
  /\ s.link => s.linkGen # 0
  /\ s.link = FALSE => s.proc \in {"none", "dead"}
  /\ s.proc = "dead" <=> s.gone # "no"
  /\ s.link = FALSE /\ s.proc = "dead" => s.gone = "seen"
  /\ s.doomed => s.proc \in Live

(* Who is to stop a worker. *)
Stops(s) ==
  /\ s.closing /\ s.link /\ Running(s) => Dismissed(s)
  /\ s.linkGen = 1 /\ Running(s) => (s.reserved /\ s.charged) \/ Dismissed(s)
  /\ s.killedByUs => s.closing
  /\ s.stopping = "forced" => s.closing
  /\ s.stopping = "plain" => s.linkGen # s.gen
  /\ s.linkGen = 0 => s.stopping = "no"
  /\ \A i \in DOMAIN s.inbox : s.inbox[i] = "close" => s.closing

(* What was sent, whatever the socket is doing ... *)
Form(s) ==
  /\ s.state \in {"none", "AUTHENTICATED", "OPENING"} => s.sent = <<>> /\ s.sid = FALSE
  /\ \A i \in DOMAIN s.sent :
       /\ s.sent[i] = "opened" => i = 1
       /\ s.sent[i] = "exit" => i = Len(s.sent) /\ s.sent[1] = "opened"
  /\ s.sent # <<>> /\ s.sent[1] = "opened" => s.sid

(* ... and in what the socket is doing. *)
Said(s) ==
  /\ s.ws \in {"OPEN", "CLOSING"} /\ s.sid => s.sent # <<>> /\ s.sent[1] = "opened"
  /\ s.ws \in {"none", "OPEN"} =>
       s.exitSent = FALSE /\ \A i \in DOMAIN s.sent : s.sent[i] # "exit"
  /\ s.ws = "CLOSING" /\ s.left = FALSE /\ s.sent # <<>> /\ s.sent[1] = "opened" =>
       s.sent[Len(s.sent)] = "exit"

(* The reasons ExitIsTruthful allows. *)
TrueReason(s, r) ==
  IF r = "worker_failure" THEN s.broken
  ELSE r \in {s.ending, s.endReason} \/ (r = "quota" /\ s.broken)

Reasons(s, b) ==
  /\ s.closing <=> s.endReason # "none"
  /\ s.endReason # "worker_failure" /\ s.ending # "worker_failure"
  /\ s.proc \in {"none", "starting", "ready", "open"} => s.ending = "none"
  /\ s.proc = "finishing" => s.ending # "none"
  /\ \A i \in DOMAIN s.outbox : s.outbox[i] = "exit" => s.ending # "none"
  /\ b = "thread" => /\ s.workerExit # "none" => TrueReason(s, s.workerExit)
                     /\ s.told # "none" => TrueReason(s, s.told)

(* Why a thread the gateway still listens to is dying, and that a thread   *)
(* which finished has said so.                                             *)
Causes(s, b) ==
  b = "thread" /\ s.linkGen = s.gen =>
    /\ s.doomed \/ s.gone \in {"failed", "oom"} => s.broken \/ (s.killedByUs /\ s.closing)
    /\ s.link /\ (s.proc = "finishing" \/ s.gone = "ok") =>
         s.workerExit # "none" \/ \E i \in DOMAIN s.outbox : s.outbox[i] = "exit"

Core(s, b) ==
  Typed(s) /\ Phase(s) /\ Linked(s) /\ Stops(s) /\ Form(s) /\ Reasons(s, b)

Sound(s, b) == Core(s, b) /\ Said(s) /\ Causes(s, b)

SessionInv == DOMAIN conn = Conn /\ \A c \in Conn : Sound(conn[c], backend)

-----------------------------------------------------------------------------
(* Appending to a sequence adds one element, the last. *)
LEMMA AppendFacts ==
  ASSUME NEW S, NEW q \in Seq(S), NEW e \in S
  PROVE  /\ Append(q, e) \in Seq(S)
         /\ Len(Append(q, e)) = Len(q) + 1
         /\ DOMAIN Append(q, e) = 1..(Len(q) + 1)
         /\ Append(q, e)[Len(q) + 1] = e
         /\ \A i \in DOMAIN q : Append(q, e)[i] = q[i]
         /\ Append(q, e) # <<>>
         /\ DOMAIN q = 1..Len(q) /\ Len(q) \in Nat
         /\ (q = <<>>) = (Len(q) = 0)
OBVIOUS

(* The tail of a sequence is the rest of it. *)
LEMMA TailFacts ==
  ASSUME NEW S, NEW q \in Seq(S), q # <<>>
  PROVE  /\ Tail(q) \in Seq(S)
         /\ DOMAIN Tail(q) = 1..(Len(q) - 1)
         /\ \A i \in DOMAIN Tail(q) : Tail(q)[i] = q[i + 1] /\ i + 1 \in DOMAIN q
         /\ Head(q) = q[1] /\ 1 \in DOMAIN q /\ Head(q) \in S
         /\ \A i \in DOMAIN q : i # 1 => i - 1 \in DOMAIN Tail(q) /\ Tail(q)[i - 1] = q[i]
OBVIOUS

(* What outputs sent add to the client's messages. *)
LEMMA OutputsFacts ==
  ASSUME NEW S, NEW q \in Seq(S), NEW k \in Nat, "output" \in S,
         NEW r, r = q \o [i \in 1..k |-> "output"]
  PROVE  /\ r \in Seq(S)
         /\ DOMAIN r = 1..(Len(q) + k) /\ Len(r) = Len(q) + k
         /\ \A i \in DOMAIN r : r[i] = IF i <= Len(q) THEN q[i] ELSE "output"
         /\ k = 0 => r = q
         /\ DOMAIN q = 1..Len(q) /\ Len(q) \in Nat
<1>1. [i \in 1..k |-> "output"] \in Seq(S)
  OBVIOUS
<1> QED BY <1>1

-----------------------------------------------------------------------------
(* A message put in the worker's inbox is one more there. *)
LEMMA PostFacts ==
  ASSUME NEW s, Typed(s), NEW rec \in {"open", "close"}
  PROVE  LET q == Append(s.inbox, rec) IN
         /\ q \in Seq({"open", "close"})
         /\ \A i \in DOMAIN q : (i \in DOMAIN s.inbox /\ q[i] = s.inbox[i]) \/ q[i] = rec
         /\ \E i \in DOMAIN q : q[i] = rec
         /\ \A i \in DOMAIN s.inbox : i \in DOMAIN q /\ q[i] = s.inbox[i]
<1>1. PICK p, q : p = s.inbox /\ q = Append(p, rec)
  OBVIOUS
<1>2. p \in Seq({"open", "close"})
  BY <1>1 DEF Typed
<1>3. /\ q \in Seq({"open", "close"}) /\ DOMAIN q = 1..(Len(p) + 1) /\ q[Len(p) + 1] = rec
      /\ \A i \in DOMAIN p : q[i] = p[i]
      /\ DOMAIN p = 1..Len(p) /\ Len(p) \in Nat
  BY ONLY <1>1, <1>2, rec \in {"open", "close"}, AppendFacts
<1>4. /\ Len(p) + 1 \in DOMAIN q
      /\ \A i \in DOMAIN p : i \in DOMAIN q
      /\ \A i \in DOMAIN q : i \in DOMAIN p \/ i = Len(p) + 1
  BY ONLY <1>3
<1> QED BY ONLY <1>1, <1>3, <1>4

(* What stop leaves alone. *)
SameButStop(d, u) ==
  /\ u.state = d.state /\ u.closing = d.closing /\ u.endReason = d.endReason
  /\ u.gen = d.gen /\ u.ws = d.ws /\ u.timers = d.timers /\ u.known = d.known
  /\ u.reserved = d.reserved /\ u.charged = d.charged /\ u.account = d.account
  /\ u.sid = d.sid /\ u.link = d.link /\ u.linkGen = d.linkGen /\ u.paused = d.paused
  /\ u.discard = d.discard /\ u.pending = d.pending /\ u.exitSent = d.exitSent
  /\ u.workerExit = d.workerExit /\ u.sent = d.sent /\ u.told = d.told
  /\ u.proc = d.proc /\ u.outbox = d.outbox /\ u.produced = d.produced
  /\ u.ending = d.ending /\ u.doomed = d.doomed /\ u.gone = d.gone
  /\ u.broken = d.broken /\ u.left = d.left

(* stop: a live worker is asked, and a timer runs; a dead one may refuse.  *)
LEMMA StopWorkerFacts ==
  ASSUME NEW d, NEW how, NEW u \in StopWorker(d, how)
  PROVE  /\ SameButStop(d, u)
         /\ \/ /\ u.stopping = how /\ u.killedByUs = d.killedByUs
               /\ u.inbox = IF d.proc \in Live THEN Append(d.inbox, "close") ELSE d.inbox
            \/ /\ d.proc = "dead" /\ u.killedByUs = (how = "forced")
               /\ u.stopping = d.stopping /\ u.inbox = d.inbox
<1>1. CASE d.proc \in Live /\ u = [[d EXCEPT !.inbox = Append(@, "close")] EXCEPT !.stopping = how]
  BY <1>1 DEF SameButStop
<1>2. CASE d.proc \notin Live /\ u = [d EXCEPT !.stopping = how]
  BY <1>2 DEF SameButStop
<1>3. CASE d.proc = "dead" /\ u = [d EXCEPT !.killedByUs = (how = "forced")]
  BY <1>3 DEF SameButStop
<1> QED BY <1>1, <1>2, <1>3 DEF StopWorker, Post
(* _onSocketClose fences a connection whose worker, if it runs, has been   *)
(* told to stop.                                                           *)
LEMMA FencedSound ==
  ASSUME NEW u, NEW b, Typed(u), u.gen = 1, u.linkGen <= 1, Linked(u), Form(u),
         Reasons(u, b), Running(u) => Dismissed(u), u.killedByUs => u.closing,
         u.stopping = "forced" => u.closing, u.linkGen = 0 => u.stopping = "no",
         \A i \in DOMAIN u.inbox : u.inbox[i] = "close" => u.closing,
         NEW t, t = Fenced(u)
  PROVE  /\ Sound(t, b)
         /\ t.ws = "CLOSED" /\ t.proc = u.proc /\ t.workerExit = u.workerExit
<1>1. Typed(t)
  BY SMT DEF Fenced, Release, Typed
<1>2. /\ t.ws = "CLOSED" /\ t.state = "CLOSED" /\ t.known = FALSE /\ t.reserved = FALSE
      /\ t.charged = FALSE /\ t.account = FALSE /\ t.gen = 2 /\ t.linkGen = u.linkGen
      /\ t.proc = u.proc /\ t.workerExit = u.workerExit
  BY SMT DEF Fenced, Release
<1>0. Phase(t)
  BY SMT, <1>1, <1>2 DEF Typed, Phase
<1>3. Linked(t)
  BY SMT DEF Fenced, Release, Typed, Linked
<1>4. Stops(t)
  BY SMT DEF Fenced, Release, Typed, Stops, Running, Dismissed
<1>5. Form(t) /\ Said(t)
  BY SMT DEF Fenced, Release, Typed, Form, Said
<1>6. Reasons(t, b) /\ Causes(t, b)
  BY SMT DEF Fenced, Release, Typed, Reasons, Causes, TrueReason
<1> QED BY <1>0, <1>1, <1>2, <1>3, <1>4, <1>5, <1>6 DEF Sound, Core

(* _onSocketClose leaves a sound connection: closed, fenced, and its       *)
(* worker told to stop.                                                    *)
LEMMA SocketClosedSound ==
  ASSUME NEW s, Core(s, backend), s.ws \in {"OPEN", "CLOSING"},
         NEW t \in SocketClosed(s)
  PROVE  /\ Sound(t, backend)
         /\ t.ws = "CLOSED" /\ t.proc = s.proc /\ t.workerExit = s.workerExit
<1>0. Typed(s) /\ Phase(s) /\ Linked(s) /\ Stops(s) /\ Form(s) /\ Reasons(s, backend)
  BY DEF Core
<1>s. s.state # "CLOSED" /\ s.gen = 1 /\ s.linkGen <= 1
  BY <1>0 DEF Phase
<1>1. CASE s.link = FALSE \/ s.closing
  <2>1. t = Fenced(s)
    BY <1>0, <1>1, <1>s DEF SocketClosed, Typed
  <2>2. Running(s) => Dismissed(s)
    BY <1>0, <1>1 DEF Typed, Stops, Linked, Running, Live
  <2> QED BY <1>0, <2>1, <2>2, <1>s, FencedSound DEF Stops
<1>2. CASE s.link /\ s.closing = FALSE
  <2>d. PICK d : d = [s EXCEPT !.closing = TRUE, !.endReason = "closed"]
    OBVIOUS
  <2>1. \E u \in StopWorker(d, "plain") : t = Fenced(u)
    BY <2>d, <1>2, <1>s DEF SocketClosed
  <2>2. PICK u \in StopWorker(d, "plain") : t = Fenced(u)
    BY <2>1
  <2>3. /\ SameButStop(d, u)
        /\ \/ /\ u.stopping = "plain" /\ u.killedByUs = d.killedByUs
              /\ u.inbox = IF d.proc \in Live THEN Append(d.inbox, "close") ELSE d.inbox
           \/ /\ d.proc = "dead" /\ u.killedByUs = ("plain" = "forced")
              /\ u.stopping = d.stopping /\ u.inbox = d.inbox
    BY <2>2, StopWorkerFacts
  <2>4. Typed(d)
    BY <2>d, <1>0 DEF Typed, Reason
  <2>a. /\ d.gen = 1 /\ d.linkGen <= 1 /\ d.closing /\ d.link /\ d.linkGen # 0
        /\ d.proc = s.proc /\ d.workerExit = s.workerExit /\ d.stopping = s.stopping
    BY <2>d, <1>0, <1>2, <1>s DEF Linked
  <2>5. Linked(d) /\ Form(d)
    BY <2>d, <1>0, <1>2 DEF Linked, Form
  <2>e. s.endReason = "none"
    BY <1>0, <1>2 DEF Reasons
  <2>b. /\ d.endReason = "closed" /\ d.ending = s.ending
        /\ d.outbox = s.outbox /\ d.told = s.told /\ d.closing = TRUE /\ d.broken = s.broken
    BY <2>d
  <2>6. Reasons(d, backend)
    BY <2>a, <2>b, <2>e, <1>0 DEF Reasons, TrueReason
  <2>c. u.inbox \in Seq({"open", "close"})
    <3>1. d.inbox \in Seq({"open", "close"})
      BY <2>4 DEF Typed
    <3>2. Append(d.inbox, "close") \in Seq({"open", "close"})
      BY <3>1
    <3> QED BY <2>3, <3>1, <3>2
  <2>7. Typed(u)
    BY <2>3, <2>4, <2>c DEF Typed, SameButStop
  <2>8. Linked(u) /\ Form(u) /\ Reasons(u, backend)
    BY <2>3, <2>5, <2>6 DEF Linked, Form, Reasons, TrueReason, SameButStop
  <2>9. Running(u) => Dismissed(u)
    BY <2>3, <2>4, PostFacts DEF Running, Dismissed, Live, SameButStop
  <2>10. /\ u.gen = 1 /\ u.linkGen <= 1 /\ u.closing /\ u.linkGen # 0
         /\ u.proc = s.proc /\ u.workerExit = s.workerExit
    BY <2>3, <2>a DEF SameButStop
  <2> QED BY <2>2, <2>7, <2>8, <2>9, <2>10, FencedSound
<1> QED BY <1>0, <1>1, <1>2 DEF Typed

(* An error message leaves a connection as it is, or loses the socket.     *)
LEMMA NoteSound ==
  ASSUME NEW s, Sound(s, backend), NEW t \in Control(s, "note")
  PROVE  /\ Sound(t, backend) /\ t.ws # "none"
         /\ t.proc = s.proc /\ t.workerExit = s.workerExit
<1>0. Typed(s) /\ Phase(s) /\ Linked(s) /\ Stops(s) /\ Form(s) /\ Reasons(s, backend)
      /\ Said(s) /\ Causes(s, backend)
  BY DEF Core, Sound
<1>1. CASE s.ws = "OPEN" /\ t = [s EXCEPT !.sent = s.sent]
  <2>1. Typed(t) /\ t.proc = s.proc /\ t.workerExit = s.workerExit /\ t.ws # "none"
    BY <1>0, <1>1 DEF Typed
  <2>2. Phase(t)
    BY <1>0, <1>1 DEF Phase
  <2>3. Linked(t)
    BY <1>0, <1>1 DEF Linked
  <2>4. Stops(t)
    BY <1>0, <1>1 DEF Stops, Running, Dismissed
  <2>5. Form(t) /\ Said(t)
    BY <1>0, <1>1 DEF Form, Said
  <2>6. Reasons(t, backend)
    BY <1>0, <1>1 DEF Reasons, TrueReason
  <2>7. Causes(t, backend)
    BY <1>0, <1>1 DEF Causes
  <2> QED BY <2>1, <2>2, <2>3, <2>4, <2>5, <2>6, <2>7 DEF Sound, Core
<1>2. CASE s.ws \in {"OPEN", "CLOSING"} /\ t \in SocketClosed(s)
  BY <1>2, SocketClosedSound DEF Sound
<1>3. CASE s.ws = "CLOSED" /\ t = s
  BY <1>3
<1> QED BY <1>1, <1>2, <1>3 DEF Control

(* _closeSocket, where no session.exit is owed, and _releaseSession, where *)
(* no worker runs that was not told to stop.                               *)
LEMMA QuietCloseSound ==
  ASSUME NEW s, NEW b, Sound(s, b), s.ws = "OPEN" => s.sid = FALSE,
         s.linkGen = 1 /\ Running(s) => Dismissed(s),
         NEW t, t = CloseSocket(Release(s))
  PROVE  Sound(t, b)
<1>0. Typed(s) /\ Phase(s) /\ Linked(s) /\ Stops(s) /\ Form(s) /\ Reasons(s, b)
      /\ Said(s) /\ Causes(s, b)
  BY DEF Core, Sound
<1>1. Typed(t)
  BY <1>0 DEF Typed, CloseSocket, Release
<1>2. Phase(t)
  BY <1>0 DEF Phase, CloseSocket, Release
<1>3. Linked(t)
  BY <1>0 DEF Linked, CloseSocket, Release
<1>4. Stops(t)
  BY <1>0 DEF Stops, Running, Dismissed, CloseSocket, Release
<1>5. Form(t)
  BY <1>0 DEF Form, CloseSocket, Release
<1>6. Said(t)
  BY <1>0 DEF Form, Said, CloseSocket, Release
<1>7. Reasons(t, b)
  BY <1>0 DEF Reasons, TrueReason, CloseSocket, Release
<1>8. Causes(t, b)
  BY <1>0 DEF Causes, CloseSocket, Release
<1> QED BY <1>1, <1>2, <1>3, <1>4, <1>5, <1>6, <1>7, <1>8 DEF Sound, Core

(* What _finalExit leaves, once the socket is closed: of an opened session *)
(* the exit was sent, with a true reason, or the socket is lost.           *)
LEMMA FinalExitSound ==
  ASSUME NEW s, Sound(s, backend), s.workerExit # "none" \/ s.endReason # "none",
         s.linkGen = 1 /\ Running(s) => Dismissed(s),
         NEW t \in FinalExit(s), NEW w, w = CloseSocket(t)
  PROVE  Sound(w, backend)
<1>0. Typed(s) /\ Phase(s) /\ Linked(s) /\ Stops(s) /\ Form(s) /\ Reasons(s, backend)
      /\ Said(s) /\ Causes(s, backend)
  BY DEF Core, Sound
<1>1. CASE s.exitSent \/ s.sid = FALSE
  <2>1. t = Release(s)
    BY <1>0, <1>1 DEF FinalExit, Typed
  <2>2. s.ws = "OPEN" => s.sid = FALSE
    BY <1>0, <1>1 DEF Said
  <2> QED BY <2>1, <2>2, QuietCloseSound
<1>2. CASE s.exitSent = FALSE /\ s.sid
  <2>u. PICK u : u = [s EXCEPT !.exitSent = TRUE, !.pending = 0, !.told = ExitReason(s)]
    OBVIOUS
  <2>1. \E v \in Control(u, "exit") : t = Release(v)
    BY <1>2, <2>u DEF FinalExit
  <2>2. PICK v \in Control(u, "exit") : t = Release(v)
    BY <2>1
  <2>r. ExitReason(s) \in Reason
    BY <1>0 DEF Typed, ExitReason, Reason
  <2>3. Typed(u)
    BY <1>0, <2>u, <2>r DEF Typed
  <2>4. Phase(u) /\ Linked(u) /\ Form(u)
    BY <1>0, <2>u DEF Phase, Linked, Form
  <2>5. Stops(u) /\ (u.linkGen = 1 /\ Running(u) => Dismissed(u))
    BY <1>0, <2>u DEF Stops, Running, Dismissed
  <2>6. /\ u.told = ExitReason(s) /\ u.broken = s.broken /\ u.workerExit = s.workerExit
        /\ u.endReason = s.endReason /\ u.ending = s.ending /\ u.outbox = s.outbox
        /\ u.closing = s.closing /\ u.proc = s.proc /\ u.ws = s.ws /\ u.sid = s.sid
        /\ u.sent = s.sent
    BY <2>u
  <2>7. Reasons(u, backend)
    BY <1>0, <2>6 DEF Reasons, TrueReason, ExitReason
  <2>8. Core(u, backend) /\ Causes(u, backend)
    BY <1>0, <2>u, <2>3, <2>4, <2>5, <2>7 DEF Core, Causes
  <2>9. CASE s.ws = "OPEN" /\ v = [u EXCEPT !.sent = Append(@, "exit")]
    <3>q. s.sent \in Seq({"opened", "output", "exit"})
      BY <1>0 DEF Typed
    <3>a. /\ w.sent = Append(s.sent, "exit") /\ w.ws = "CLOSING" /\ w.sid /\ w.exitSent
          /\ w.state = s.state
      BY <1>2, <2>u, <2>2, <2>9 DEF Release, CloseSocket
    <3>b. /\ Append(s.sent, "exit") \in Seq({"opened", "output", "exit"})
          /\ Append(s.sent, "exit") # <<>>
          /\ Len(Append(s.sent, "exit")) = Len(s.sent) + 1
          /\ DOMAIN Append(s.sent, "exit") = 1..(Len(s.sent) + 1)
          /\ Append(s.sent, "exit")[Len(s.sent) + 1] = "exit"
          /\ \A i \in DOMAIN s.sent : Append(s.sent, "exit")[i] = s.sent[i]
          /\ DOMAIN s.sent = 1..Len(s.sent) /\ Len(s.sent) \in Nat
          /\ (s.sent = <<>>) = (Len(s.sent) = 0)
      BY <3>q, AppendFacts
    <3>1. Typed(w)
      BY <2>3, <2>6, <2>2, <2>9, <3>b DEF Typed, Release, CloseSocket
    <3>2. Phase(w) /\ Linked(w)
      BY <2>4, <2>2, <2>6, <2>9 DEF Phase, Linked, Release, CloseSocket
    <3>3. Stops(w)
      BY <2>5, <2>2, <2>9 DEF Stops, Running, Dismissed, Release, CloseSocket
    <3>4. Form(w)
      BY <1>0, <1>2, <2>9, <3>a, <3>b DEF Form, Said
    <3>5. Said(w)
      BY <1>0, <1>2, <2>9, <3>a, <3>b DEF Form, Said
    <3>6. Reasons(w, backend)
      BY <2>7, <2>2, <2>9 DEF Reasons, TrueReason, Release, CloseSocket
    <3>7. Causes(w, backend)
      BY <2>8, <2>2, <2>9 DEF Causes, Release, CloseSocket
    <3> QED BY <3>1, <3>2, <3>3, <3>4, <3>5, <3>6, <3>7 DEF Sound, Core
  <2>10. CASE s.ws \in {"OPEN", "CLOSING"} /\ v \in SocketClosed(u)
    <3>1. Sound(v, backend) /\ v.ws = "CLOSED"
      BY <2>6, <2>8, <2>10, SocketClosedSound
    <3>2. v.linkGen = 1 /\ Running(v) => Dismissed(v)
      BY <3>1 DEF Sound, Core, Phase, Stops
    <3> QED BY <2>2, <3>1, <3>2, QuietCloseSound
  <2>11. CASE s.ws = "CLOSED" /\ v = u
    <3>1. Said(u)
      BY <2>6, <2>11 DEF Said
    <3>2. Sound(u, backend) /\ u.ws # "OPEN"
      BY <2>6, <2>8, <2>11, <3>1 DEF Sound
    <3> QED BY <2>2, <2>5, <2>11, <3>2, QuietCloseSound
  <2> QED BY <1>0, <2>2, <2>6, <2>9, <2>10, <2>11 DEF Control, Typed
<1> QED BY <1>0, <1>1, <1>2 DEF Typed

(* end leaves a sound connection, whatever the reason.                     *)
LEMMA EndSound ==
  ASSUME NEW s, Sound(s, backend), s.ws # "none",
         NEW reason \in Reason \ {"worker_failure"}, NEW t \in End(s, reason)
  PROVE  Sound(t, backend)
<1>0. Typed(s) /\ Phase(s) /\ Linked(s) /\ Stops(s) /\ Form(s) /\ Reasons(s, backend)
      /\ Said(s) /\ Causes(s, backend)
  BY DEF Core, Sound
<1>1. CASE s.closing \/ s.state = "CLOSED"
  BY <1>1 DEF End
<1>2. CASE s.closing = FALSE /\ s.state # "CLOSED"
  <2>d. PICK d : d = [s EXCEPT !.closing = TRUE, !.endReason = reason, !.state = "DRAINING"]
    OBVIOUS
  <2>e. s.endReason = "none" /\ reason # "none" /\ reason # "worker_failure"
        /\ s.state # "none"
    BY <1>0, <1>2 DEF Reasons, Reason, Phase
  <2>1. Typed(d)
    BY <1>0, <2>d, <2>e DEF Typed
  <2>2. Phase(d) /\ Linked(d)
    BY <1>0, <2>d, <2>e DEF Phase, Linked
  <2>3. Form(d) /\ Said(d)
    BY <1>0, <2>d DEF Form, Said
  <2>b. /\ d.endReason = reason /\ d.ending = s.ending /\ d.workerExit = s.workerExit
        /\ d.outbox = s.outbox /\ d.told = s.told /\ d.closing = TRUE /\ d.broken = s.broken
        /\ d.proc = s.proc /\ d.link = s.link /\ d.linkGen = s.linkGen
    BY <2>d
  <2>4. Reasons(d, backend)
    BY <1>0, <2>b, <2>e DEF Reasons, TrueReason
  <2>5. Causes(d, backend)
    BY <1>0, <1>2, <2>d DEF Causes
  <2>6. CASE s.link = FALSE
    <3>1. Stops(d) /\ ~ Running(d)
      BY <1>0, <2>6, <2>d DEF Stops, Running, Dismissed, Linked
    <3>2. Sound(d, backend)
      BY <2>1, <2>2, <2>3, <2>4, <2>5, <3>1 DEF Sound, Core
    <3>3. PICK f \in FinalExit(d) : t = CloseSocket(f)
      BY <1>2, <2>6, <2>d DEF End
    <3> QED BY <2>b, <2>e, <3>1, <3>2, <3>3, FinalExitSound
  <2>7. CASE s.link
    <3>e. PICK e : e = [d EXCEPT !.discard = @ \/ d.paused, !.paused = FALSE]
      OBVIOUS
    <3>1. t \in StopWorker(e, "forced")
      BY <1>2, <2>7, <2>d, <3>e DEF End
    <3>2. /\ SameButStop(e, t)
          /\ \/ /\ t.stopping = "forced" /\ t.killedByUs = e.killedByUs
                /\ t.inbox = IF e.proc \in Live THEN Append(e.inbox, "close") ELSE e.inbox
             \/ /\ e.proc = "dead" /\ t.killedByUs = ("forced" = "forced")
                /\ t.stopping = e.stopping /\ t.inbox = e.inbox
      BY <3>1, StopWorkerFacts
    <3>3. Typed(e)
      BY <2>1, <3>e DEF Typed
    <3>l. s.linkGen # 0
      BY <1>0, <2>7 DEF Linked
    <3>4. Phase(e) /\ Linked(e)
      BY <2>2, <3>e DEF Phase, Linked
    <3>f. e.closing = TRUE /\ e.linkGen # 0
      BY <2>b, <3>l, <3>e
    <3>5. Form(e) /\ Said(e)
      BY <2>3, <3>e DEF Form, Said
    <3>6. Reasons(e, backend)
      BY <2>4, <3>e DEF Reasons, TrueReason
    <3>7. Causes(e, backend) /\ e.killedByUs = s.killedByUs /\ e.stopping = s.stopping
          /\ e.gen = s.gen /\ e.linkGen = s.linkGen
      BY <2>5, <2>d, <3>e DEF Causes
    <3>8. t.inbox \in Seq({"open", "close"})
      <4>1. e.inbox \in Seq({"open", "close"})
        BY <3>3 DEF Typed
      <4>2. Append(e.inbox, "close") \in Seq({"open", "close"})
        BY <4>1
      <4> QED BY <3>2, <4>1, <4>2
    <3>9. Typed(t)
      BY <3>2, <3>3, <3>8 DEF Typed, SameButStop
    <3>10. Phase(t) /\ Linked(t)
      BY <3>2, <3>4 DEF Phase, Linked, SameButStop
    <3>11. Form(t) /\ Said(t)
      BY <3>2, <3>5 DEF Form, Said, SameButStop
    <3>12. Reasons(t, backend)
      BY <3>2, <3>6 DEF Reasons, TrueReason, SameButStop
    <3>13. t.closing = TRUE /\ t.proc = e.proc /\ t.linkGen # 0
           /\ t.gen = s.gen /\ t.linkGen = s.linkGen
      BY <3>2, <3>f, <3>7 DEF SameButStop
    <3>14. Stops(t)
      BY <1>0, <3>2, <3>7, <3>13 DEF Stops, Running, Dismissed
    <3>15. Causes(t, backend)
      <4>1. CASE t.killedByUs = e.killedByUs
        BY <3>2, <3>7, <4>1 DEF Causes, SameButStop
      <4>2. CASE t.killedByUs = TRUE
        BY <3>2, <3>7, <3>13, <4>2 DEF Causes, SameButStop
      <4> QED BY <3>2, <4>1, <4>2
    <3> QED BY <3>9, <3>10, <3>11, <3>12, <3>14, <3>15 DEF Sound, Core
  <2> QED BY <1>0, <2>6, <2>7 DEF Typed
<1> QED BY <1>0, <1>1, <1>2 DEF Typed

(* A failure reported and the session ended.                               *)
LEMMA FailSound ==
  ASSUME NEW s, Sound(s, backend), NEW reason \in Reason \ {"worker_failure"},
         NEW t \in Fail(s, reason)
  PROVE  Sound(t, backend)
<1>1. PICK u \in Control(s, "note") : t \in End(u, reason)
  BY DEF Fail, Then
<1> QED BY <1>1, NoteSound, EndSound

(* _workerFailed: the worker is killed, and is the reason.                 *)
LEMMA WorkerFailedSound ==
  ASSUME NEW s, Sound(s, backend), NEW t \in WorkerFailed(s)
  PROVE  Sound(t, backend)
<1>0. Typed(s) /\ Phase(s) /\ Linked(s) /\ Stops(s) /\ Form(s) /\ Reasons(s, backend)
      /\ Said(s) /\ Causes(s, backend)
  BY DEF Core, Sound
<1>d. PICK d : d = Kill([s EXCEPT !.workerExit = "worker_failure", !.broken = TRUE])
  OBVIOUS
<1>1. PICK f \in FinalExit(d) : t = CloseSocket(f)
  BY <1>d DEF WorkerFailed
<1>2. d.workerExit = "worker_failure" /\ d.broken = TRUE /\ d.doomed = (s.proc \in Live)
      /\ d.proc = s.proc /\ d.linkGen = s.linkGen /\ d.gen = s.gen /\ d.gone = s.gone
      /\ d.outbox = s.outbox /\ d.link = s.link
  BY <1>d DEF Kill
<1>3. Typed(d)
  BY <1>0, <1>d DEF Typed, Kill, Reason
<1>4. Phase(d)
  BY <1>0, <1>d DEF Phase, Kill
<1>5. Linked(d)
  BY <1>0, <1>d, <1>2 DEF Linked, Kill
<1>6. Running(d) => Dismissed(d)
  BY <1>2 DEF Running, Dismissed, Live
<1>7. Stops(d)
  BY <1>0, <1>d, <1>6 DEF Stops, Kill
<1>8. Form(d) /\ Said(d)
  BY <1>0, <1>d DEF Form, Said, Kill
<1>9. Reasons(d, backend)
  BY <1>0, <1>d, <1>2 DEF Reasons, TrueReason, Kill
<1>10. Causes(d, backend)
  BY <1>2 DEF Causes
<1> QED BY <1>1, <1>2, <1>3, <1>4, <1>5, <1>6, <1>7, <1>8, <1>9, <1>10, FinalExitSound
        DEF Sound, Core

(* _flush sends outputs after what was sent, on an open socket only.       *)
LEMMA FlushSound ==
  ASSUME NEW s, NEW b, Sound(s, b), NEW t \in Flush(s)
  PROVE  Sound(t, b)
<1>0. Typed(s) /\ Phase(s) /\ Linked(s) /\ Stops(s) /\ Form(s) /\ Reasons(s, b)
      /\ Said(s) /\ Causes(s, b)
  BY DEF Core, Sound
<1>1. ASSUME NEW d, Sound(d, b), NEW e, e = Flow(d)
      PROVE  Sound(e, b)
  <2>0. Typed(d) /\ Phase(d) /\ Linked(d) /\ Stops(d) /\ Form(d) /\ Reasons(d, b)
        /\ Said(d) /\ Causes(d, b)
    BY <1>1 DEF Core, Sound
  <2>1. CASE e = d
    BY <1>1, <2>1
  <2>2. CASE e = [d EXCEPT !.paused = d.pending > 0]
    <3>0. Typed(e)
      BY <2>0, <2>2 DEF Typed
    <3>1. Phase(e) /\ Linked(e)
      BY <2>0, <2>2 DEF Phase, Linked
    <3>2. Stops(e) /\ Form(e) /\ Said(e)
      BY <2>0, <2>2 DEF Stops, Running, Dismissed, Form, Said
    <3>3. Reasons(e, b) /\ Causes(e, b)
      BY <2>0, <2>2 DEF Reasons, TrueReason, Causes
    <3> QED BY <3>0, <3>1, <3>2, <3>3 DEF Sound, Core
  <2> QED BY <1>1, <2>1, <2>2 DEF Flow
<1>2. CASE s.state \notin {"ACTIVE", "DRAINING"}
  <2>d. PICK d : d = [s EXCEPT !.pending = 0]
    OBVIOUS
  <2>1. t = Flow(d)
    BY <1>2, <2>d DEF Flush
  <2>0. Typed(d)
    BY <1>0, <2>d DEF Typed
  <2>2. Phase(d) /\ Linked(d)
    BY <1>0, <2>d DEF Phase, Linked
  <2>3. Stops(d) /\ Form(d) /\ Said(d)
    BY <1>0, <2>d DEF Stops, Running, Dismissed, Form, Said
  <2>4. Reasons(d, b) /\ Causes(d, b)
    BY <1>0, <2>d DEF Reasons, TrueReason, Causes
  <2> QED BY <1>1, <2>0, <2>1, <2>2, <2>3, <2>4 DEF Sound, Core
<1>3. CASE s.state \in {"ACTIVE", "DRAINING"}
  <2>1. PICK k \in 0..(IF s.ws = "OPEN" THEN s.pending ELSE 0) :
          t = Flow([s EXCEPT !.pending = @ - k, !.sent = @ \o [i \in 1..k |-> "output"]])
    BY <1>3 DEF Flush
  <2>q. PICK q : q = s.sent \o [i \in 1..k |-> "output"]
    OBVIOUS
  <2>d. PICK d : d = [s EXCEPT !.pending = @ - k, !.sent = q]
    OBVIOUS
  <2>2. t = Flow(d)
    BY <2>1, <2>q, <2>d
  <2>3. k \in Nat /\ s.pending - k \in Nat /\ (k # 0 => s.ws = "OPEN")
    BY <1>0, <2>1 DEF Typed
  <2>4. s.sent \in Seq({"opened", "output", "exit"})
    BY <1>0 DEF Typed
  <2>5. /\ q \in Seq({"opened", "output", "exit"})
        /\ DOMAIN q = 1..(Len(s.sent) + k) /\ Len(q) = Len(s.sent) + k
        /\ \A i \in DOMAIN q : q[i] = IF i <= Len(s.sent) THEN s.sent[i] ELSE "output"
        /\ k = 0 => q = s.sent
        /\ DOMAIN s.sent = 1..Len(s.sent) /\ Len(s.sent) \in Nat
    <3>1. PICK S : S = {"opened", "output", "exit"}
      OBVIOUS
    <3>2. s.sent \in Seq(S) /\ "output" \in S
      BY <2>4, <3>1
    <3>3. /\ q \in Seq(S)
          /\ DOMAIN q = 1..(Len(s.sent) + k) /\ Len(q) = Len(s.sent) + k
          /\ \A i \in DOMAIN q : q[i] = IF i <= Len(s.sent) THEN s.sent[i] ELSE "output"
          /\ k = 0 => q = s.sent
          /\ DOMAIN s.sent = 1..Len(s.sent) /\ Len(s.sent) \in Nat
      BY <2>3, <3>2, <2>q, OutputsFacts
    <3> QED BY <3>1, <3>3
  <2>6. Typed(d)
    BY <1>0, <2>d, <2>3, <2>5 DEF Typed
  <2>7. Phase(d) /\ Linked(d) /\ Stops(d)
    BY <1>0, <2>d DEF Phase, Linked, Stops, Running, Dismissed
  <2>8. Reasons(d, b) /\ Causes(d, b)
    BY <1>0, <2>d DEF Reasons, TrueReason, Causes
  <2>9. d.sent = q /\ d.state = s.state /\ d.sid = s.sid /\ d.ws = s.ws
        /\ d.exitSent = s.exitSent /\ d.left = s.left
    BY <2>d
  <2>10. Form(d) /\ Said(d)
    <3>1. CASE k = 0
      BY <1>0, <2>5, <2>9, <3>1 DEF Form, Said
    <3>2. CASE k # 0
      <4>1. s.ws = "OPEN" /\ s.state \in {"ACTIVE", "DRAINING"} /\ k >= 1
        BY <1>3, <2>3, <3>2
      <4>2. \A i \in DOMAIN s.sent : s.sent[i] # "exit"
        BY <1>0, <4>1 DEF Said
      <4>3. \A i \in DOMAIN q : q[i] # "exit"
        BY <2>3, <2>5, <4>2
      <4>4. q # <<>> /\ q[1] = (IF 1 <= Len(s.sent) THEN s.sent[1] ELSE "output")
        BY <2>3, <2>5, <4>1
      <4>5. (s.sent # <<>>) = (1 <= Len(s.sent))
        BY <2>4
      <4>6. \A i \in DOMAIN q : q[i] = "opened" => i \in DOMAIN s.sent /\ s.sent[i] = "opened"
        BY <2>3, <2>5
      <4>7. Form(d)
        BY <1>0, <2>9, <4>1, <4>3, <4>4, <4>5, <4>6 DEF Form
      <4>8. Said(d)
        BY <1>0, <2>9, <4>1, <4>3, <4>4, <4>5 DEF Said
      <4> QED BY <4>7, <4>8
    <3> QED BY <3>1, <3>2
  <2> QED BY <1>1, <2>2, <2>6, <2>7, <2>8, <2>10 DEF Sound, Core
<1> QED BY <1>2, <1>3

(* A chunk of output is queued, or ends the session.                       *)
LEMMA OutputSound ==
  ASSUME NEW s, Sound(s, backend), NEW t \in Output(s)
  PROVE  Sound(t, backend)
<1>0. Typed(s) /\ Phase(s) /\ Linked(s) /\ Stops(s) /\ Form(s) /\ Reasons(s, backend)
      /\ Said(s) /\ Causes(s, backend)
  BY DEF Core, Sound
<1>1. CASE t = s
  BY <1>1
<1>2. CASE t \in Fail(s, "quota")
  BY <1>2, FailSound DEF Reason
<1>3. CASE t \in Flush([s EXCEPT !.pending = @ + 1])
  <2>d. PICK d : d = [s EXCEPT !.pending = @ + 1]
    OBVIOUS
  <2>1. Typed(d)
    BY <1>0, <2>d DEF Typed
  <2>2. Phase(d) /\ Linked(d)
    BY <1>0, <2>d DEF Phase, Linked
  <2>3. Stops(d) /\ Form(d) /\ Said(d)
    BY <1>0, <2>d DEF Stops, Running, Dismissed, Form, Said
  <2>4. Reasons(d, backend) /\ Causes(d, backend)
    BY <1>0, <2>d DEF Reasons, TrueReason, Causes
  <2>5. Sound(d, backend) /\ t \in Flush(d)
    BY <1>3, <2>d, <2>1, <2>2, <2>3, <2>4 DEF Sound, Core
  <2> QED BY <2>5, FlushSound
<1> QED BY <1>1, <1>2, <1>3 DEF Output

(* _workerExited: the reason it settles on is true.  A thread's exit comes *)
(* after its records, so a worker that ended by itself has said why.       *)
LEMMA WorkerExitedSound ==
  ASSUME NEW s, NEW r, Sound(r, backend), r.linkGen = r.gen,
         r.gone \in {"ok", "failed", "oom"}, backend = "thread" => r.outbox = <<>>,
         s = [r EXCEPT !.gone = "seen", !.stopping = "no"],
         NEW t \in WorkerExited(s, r.gone)
  PROVE  Sound(t, backend)
<1>0. Typed(r) /\ Phase(r) /\ Linked(r) /\ Stops(r) /\ Form(r) /\ Reasons(r, backend)
      /\ Said(r) /\ Causes(r, backend)
  BY DEF Core, Sound
<1>d. PICK d : d = Exited(s, r.gone)
  OBVIOUS
<1>1. r.proc = "dead" /\ r.link = TRUE /\ r.linkGen # 0 /\ r.doomed = FALSE
  BY <1>0 DEF Linked, Typed, Live
<1>w. ExitedBecause(s, r.gone) =
        IF r.closing /\ (r.gone = "ok" \/ r.killedByUs) THEN r.endReason
        ELSE IF r.gone = "oom" THEN "quota" ELSE "worker_failure"
  BY DEF ExitedBecause
<1>2. /\ d.link = FALSE /\ d.gone = "seen" /\ d.stopping = "no" /\ d.proc = r.proc
      /\ d.workerExit = (IF r.workerExit = "none" THEN ExitedBecause(s, r.gone)
                         ELSE r.workerExit)
      /\ d.endReason = r.endReason /\ d.ending = r.ending /\ d.broken = r.broken
      /\ d.told = r.told /\ d.closing = r.closing /\ d.outbox = r.outbox
      /\ d.linkGen = r.linkGen /\ d.gen = r.gen /\ d.doomed = r.doomed
  BY <1>d DEF Exited
<1>r. d.workerExit \in Reason
  BY <1>0, <1>2, <1>w DEF Typed, Reasons, Reason
<1>3. Typed(d)
  BY <1>0, <1>d, <1>r DEF Typed, Exited
<1>4. Phase(d)
  BY <1>0, <1>d DEF Phase, Exited
<1>5. Linked(d)
  BY <1>1, <1>2, <1>0 DEF Linked
<1>6. Stops(d) /\ ~ Running(d)
  BY <1>0, <1>1, <1>2, <1>d DEF Stops, Running, Dismissed, Exited
<1>7. Form(d) /\ Said(d)
  BY <1>0, <1>d DEF Form, Said, Exited
<1>8. backend = "thread" => TrueReason(d, d.workerExit)
  <2>1. CASE r.workerExit # "none"
    BY <1>0, <1>2, <2>1 DEF Reasons, TrueReason
  <2>2. CASE r.workerExit = "none" /\ backend = "thread"
    <3>1. r.gone # "ok" /\ (r.broken \/ (r.killedByUs /\ r.closing))
      BY <1>0, <1>1, <2>2 DEF Causes
    <3> QED BY <1>0, <1>2, <1>w, <2>2, <3>1 DEF TrueReason, Reasons
  <2> QED BY <2>1, <2>2
<1>9. Reasons(d, backend)
  BY <1>0, <1>1, <1>2, <1>8 DEF Reasons, TrueReason
<1>10. Causes(d, backend)
  BY <1>1, <1>2 DEF Causes
<1>11. Sound(d, backend)
  BY <1>3, <1>4, <1>5, <1>6, <1>7, <1>9, <1>10 DEF Sound, Core
<1>12. \E e \in Control(d, "note") \cup {d} :
         \E f \in FinalExit(e) : t = CloseSocket(f)
  BY <1>d DEF WorkerExited, Then
<1>13. PICK e \in Control(d, "note") \cup {d} : \E f \in FinalExit(e) : t = CloseSocket(f)
  BY <1>12
<1>14. Sound(e, backend) /\ e.workerExit # "none" /\ ~ Running(e)
  BY <1>6, <1>11, <1>13, <1>r, NoteSound DEF Running, Reason
<1> QED BY <1>13, <1>14, FinalExitSound

(* A link is a record of the right kind. *)
LEMMA LinkTyped ==
  ASSUME NEW r, Typed(r),
         NEW t, t = [r EXCEPT !.state = "OPENING", !.link = TRUE, !.linkGen = r.gen,
                              !.timers = @ \cup {"ready"}, !.proc = "starting"]
  PROVE  Typed(t)
BY DEF Typed, Live

(* _open links a worker to a connection that has none: with its place      *)
(* reserved, or on a socket that was lost meanwhile.                       *)
LEMMA LinkSound ==
  ASSUME NEW r, NEW b, Typed(r), Phase(r), Linked(r), Stops(r), Form(r), Reasons(r, b),
         r.linkGen = 0, r.closing = FALSE, r.sent = <<>>, r.sid = FALSE,
         r.ws \in {"OPEN", "CLOSED"}, r.ws = "OPEN" => r.exitSent = FALSE,
         r.ws = "OPEN" => r.reserved /\ r.charged,
         NEW t, t = [r EXCEPT !.state = "OPENING", !.link = TRUE, !.linkGen = r.gen,
                              !.timers = @ \cup {"ready"}, !.proc = "starting"]
  PROVE  Sound(t, b)
<1>1. r.proc = "none" /\ r.gone = "no" /\ r.doomed = FALSE /\ r.stopping = "no"
      /\ r.ending = "none" /\ r.link = FALSE
  BY DEF Linked, Stops, Reasons, Typed, Live
<1>2. Typed(t)
  BY LinkTyped
<1>3. Phase(t)
  BY DEF Phase, Typed
<1>4. Linked(t)
  BY <1>1 DEF Linked, Live, Phase
<1>5. Stops(t)
  <2>1. t.linkGen = 1 => r.ws = "OPEN"
    BY DEF Phase
  <2> QED BY <1>1, <2>1 DEF Stops, Running, Dismissed, Phase
<1>6. Form(t) /\ Said(t)
  BY DEF Form, Said
<1>7. Reasons(t, b)
  BY <1>1 DEF Reasons, TrueReason
<1>8. Causes(t, b)
  BY <1>1 DEF Causes
<1> QED BY <1>2, <1>3, <1>4, <1>5, <1>6, <1>7, <1>8 DEF Sound, Core

(* _open leaves a sound connection, even if the socket is lost in it.      *)
LEMMA OpenedSound ==
  ASSUME NEW r, Sound(r, backend), r.ws = "OPEN", r.state = "AUTHENTICATED",
         NEW previous \in BOOLEAN, NEW t \in Opened(r, previous)
  PROVE  Sound(t, backend)
<1>0. Typed(r) /\ Phase(r) /\ Linked(r) /\ Stops(r) /\ Form(r) /\ Reasons(r, backend)
      /\ Said(r) /\ Causes(r, backend)
  BY DEF Core, Sound
<1>a. PICK a : a = [r EXCEPT !.reserved = TRUE, !.charged = TRUE]
  OBVIOUS
<1>1. PICK u \in Control(a, "note") \cup {a} :
        t = [u EXCEPT !.state = "OPENING", !.link = TRUE, !.linkGen = u.gen,
                      !.timers = @ \cup {"ready"}, !.proc = "starting"]
  BY <1>a DEF Opened, Then
<1>2. r.linkGen = 0 /\ r.closing = FALSE /\ r.sent = <<>> /\ r.sid = FALSE
      /\ r.exitSent = FALSE /\ r.link = FALSE
  BY <1>0 DEF Phase, Form, Said, Linked, Typed
<1>3. Typed(a)
  BY <1>0, <1>a DEF Typed
<1>4. Phase(a) /\ Linked(a)
  BY <1>0, <1>a DEF Phase, Linked
<1>5. Stops(a) /\ Form(a)
  BY <1>0, <1>a DEF Stops, Running, Dismissed, Form
<1>6. Reasons(a, backend)
  BY <1>0, <1>a DEF Reasons, TrueReason
<1>7. /\ a.linkGen = 0 /\ a.closing = FALSE /\ a.sent = <<>> /\ a.sid = FALSE
      /\ a.exitSent = FALSE /\ a.ws = "OPEN" /\ a.reserved = TRUE /\ a.charged = TRUE
      /\ a.link = FALSE /\ a.state # "CLOSED"
  BY <1>2, <1>a
<1>8. CASE u = a
  BY <1>1, <1>3, <1>4, <1>5, <1>6, <1>7, <1>8, LinkSound
<1>9. CASE u = [a EXCEPT !.sent = a.sent]
  <2>1. Typed(u)
    BY <1>3, <1>9 DEF Typed
  <2>2. Phase(u) /\ Linked(u)
    BY <1>4, <1>9 DEF Phase, Linked
  <2>3. Stops(u) /\ Form(u)
    BY <1>5, <1>9 DEF Stops, Running, Dismissed, Form
  <2>4. Reasons(u, backend)
    BY <1>6, <1>9 DEF Reasons, TrueReason
  <2>5. /\ u.linkGen = 0 /\ u.closing = FALSE /\ u.sent = <<>> /\ u.sid = FALSE
        /\ u.exitSent = FALSE /\ u.ws = "OPEN" /\ u.reserved = TRUE /\ u.charged = TRUE
    BY <1>7, <1>9
  <2> QED BY <1>1, <2>1, <2>2, <2>3, <2>4, <2>5, LinkSound
<1>10. CASE u \in SocketClosed(a)
  <2>1. Sound(u, backend) /\ u.ws = "CLOSED"
    BY <1>3, <1>4, <1>5, <1>6, <1>7, <1>10, SocketClosedSound DEF Core
  <2>2. u = Fenced(a)
    BY <1>7, <1>10 DEF SocketClosed
  <2>3. u.linkGen = 0 /\ u.closing = FALSE /\ u.sent = <<>> /\ u.sid = FALSE
    BY <1>7, <2>2 DEF Fenced, Release
  <2> QED BY <1>1, <2>1, <2>3, LinkSound DEF Sound, Core
<1> QED BY <1>1, <1>7, <1>8, <1>9, <1>10 DEF Control

(* A record taken from the pipe, other than the exit of a worker whose     *)
(* reason is still to be noted.                                            *)
LEMMA TakenSound ==
  ASSUME NEW r, NEW b, Sound(r, b), r.outbox # <<>>,
         r.linkGen # r.gen \/ Head(r.outbox) # "exit",
         NEW t, t = [r EXCEPT !.outbox = Tail(@)]
  PROVE  Sound(t, b)
<1>0. Typed(r) /\ Phase(r) /\ Linked(r) /\ Stops(r) /\ Form(r) /\ Reasons(r, b)
      /\ Said(r) /\ Causes(r, b)
  BY DEF Core, Sound
<1>q. r.outbox \in Seq({"ready", "opened", "output", "exit"})
  BY <1>0 DEF Typed
<1>1. /\ Tail(r.outbox) \in Seq({"ready", "opened", "output", "exit"})
      /\ \A i \in DOMAIN Tail(r.outbox) :
            Tail(r.outbox)[i] = r.outbox[i + 1] /\ i + 1 \in DOMAIN r.outbox
      /\ Head(r.outbox) = r.outbox[1]
      /\ \A i \in DOMAIN r.outbox :
            i # 1 => i - 1 \in DOMAIN Tail(r.outbox) /\ Tail(r.outbox)[i - 1] = r.outbox[i]
  BY <1>q, TailFacts
<1>2. Typed(t)
  BY <1>0, <1>1 DEF Typed
<1>3. Phase(t) /\ Linked(t)
  BY <1>0 DEF Phase, Linked
<1>4. Stops(t) /\ Form(t) /\ Said(t)
  BY <1>0 DEF Stops, Running, Dismissed, Form, Said
<1>5. Reasons(t, b)
  BY <1>0, <1>1 DEF Reasons, TrueReason
<1>6. Causes(t, b)
  <2>1. t.outbox = Tail(r.outbox)
    OBVIOUS
  <2>2. r.linkGen = r.gen /\ (\E i \in DOMAIN r.outbox : r.outbox[i] = "exit")
          => \E i \in DOMAIN t.outbox : t.outbox[i] = "exit"
    <3> SUFFICES ASSUME r.linkGen = r.gen, NEW i \in DOMAIN r.outbox, r.outbox[i] = "exit"
                 PROVE  \E j \in DOMAIN Tail(r.outbox) : Tail(r.outbox)[j] = "exit"
      BY <2>1
    <3>1. i # 1
      BY <1>1
    <3>2. i - 1 \in DOMAIN Tail(r.outbox) /\ Tail(r.outbox)[i - 1] = "exit"
      BY <1>1, <3>1
    <3> QED BY <3>2
  <2> QED BY <1>0, <2>2 DEF Causes
<1> QED BY <1>2, <1>3, <1>4, <1>5, <1>6 DEF Sound, Core

(* A record for the worker, other than a close. *)
LEMMA PostOpenSound ==
  ASSUME NEW r, NEW b, Sound(r, b), NEW t \in {Post(r, "open")}
  PROVE  Sound(t, b)
<1>0. Typed(r) /\ Phase(r) /\ Linked(r) /\ Stops(r) /\ Form(r) /\ Reasons(r, b)
      /\ Said(r) /\ Causes(r, b)
  BY DEF Core, Sound
<1>1. CASE t = r
  BY <1>1
<1>2. CASE t = [r EXCEPT !.inbox = Append(@, "open")]
  <2>q. PICK q : q = Append(r.inbox, "open")
    OBVIOUS
  <2>1. /\ q \in Seq({"open", "close"})
        /\ \A i \in DOMAIN q : (i \in DOMAIN r.inbox /\ q[i] = r.inbox[i]) \/ q[i] = "open"
        /\ \A i \in DOMAIN r.inbox : i \in DOMAIN q /\ q[i] = r.inbox[i]
    BY <1>0, <2>q, PostFacts
  <2>t. t = [r EXCEPT !.inbox = q]
    BY <1>2, <2>q
  <2>2. Typed(t)
    BY <1>0, <2>1, <2>t DEF Typed
  <2>3. Phase(t) /\ Linked(t)
    BY <1>0, <2>t DEF Phase, Linked
  <2>4. Dismissed(r) => Dismissed(t)
    BY <2>1, <2>t DEF Dismissed
  <2>5. Stops(t)
    BY <1>0, <2>1, <2>t, <2>4 DEF Stops, Running
  <2>6. Form(t) /\ Said(t)
    BY <1>0, <2>t DEF Form, Said
  <2>7. Reasons(t, b) /\ Causes(t, b)
    BY <1>0, <2>t DEF Reasons, TrueReason, Causes
  <2> QED BY <2>2, <2>3, <2>5, <2>6, <2>7 DEF Sound, Core
<1> QED BY <1>1, <1>2 DEF Post

(* The first record of a session opens it, or finds the socket lost.       *)
LEMMA SessionOpenedSound ==
  ASSUME NEW r, Sound(r, backend), r.state = "OPENING",
         NEW d, d = [r EXCEPT !.sid = TRUE, !.state = "ACTIVE"],
         NEW v \in Control(d, "opened")
  PROVE  Sound(v, backend) /\ v.state # "none"
<1>0. Typed(r) /\ Phase(r) /\ Linked(r) /\ Stops(r) /\ Form(r) /\ Reasons(r, backend)
      /\ Said(r) /\ Causes(r, backend)
  BY DEF Core, Sound
<1>s. r.sent = <<>> /\ r.ws # "none"
  BY <1>0 DEF Form, Phase
<1>1. Typed(d)
  BY <1>0 DEF Typed
<1>2. Phase(d) /\ Linked(d)
  BY <1>0 DEF Phase, Linked
<1>3. Stops(d) /\ Form(d)
  BY <1>0, <1>s DEF Stops, Running, Dismissed, Form
<1>4. Reasons(d, backend) /\ Causes(d, backend)
  BY <1>0 DEF Reasons, TrueReason, Causes
<1>5. d.ws = r.ws /\ d.sent = <<>> /\ d.exitSent = r.exitSent /\ d.sid = TRUE
      /\ d.state = "ACTIVE" /\ d.left = r.left
  BY <1>s
<1>6. CASE d.ws \in {"OPEN", "CLOSING"} /\ v \in SocketClosed(d)
  <2>1. Sound(v, backend) /\ v.ws = "CLOSED"
    BY <1>1, <1>2, <1>3, <1>4, <1>6, SocketClosedSound DEF Core
  <2> QED BY <2>1 DEF Sound, Core, Phase
<1>7. CASE d.ws = "CLOSED" /\ v = d
  BY <1>1, <1>2, <1>3, <1>4, <1>5, <1>7 DEF Sound, Core, Said
<1>8. CASE d.ws = "OPEN" /\ v = [d EXCEPT !.sent = Append(@, "opened")]
  <2>q. PICK q : q = Append(d.sent, "opened")
    OBVIOUS
  <2>1. q = <<"opened">>
    BY <1>5, <2>q
  <2>2. q \in Seq({"opened", "output", "exit"}) /\ q # <<>> /\ Len(q) = 1 /\ q[1] = "opened"
        /\ DOMAIN q = {1}
    BY <2>1
  <2>3. ASSUME NEW w, w = [d EXCEPT !.sent = q]
        PROVE  Sound(w, backend) /\ w.state # "none"
    <3>1. Typed(w)
      BY <1>1, <2>2, <2>3 DEF Typed
    <3>2. Phase(w) /\ Linked(w)
      BY <1>2, <2>3 DEF Phase, Linked
    <3>3. Stops(w)
      BY <1>3, <2>3 DEF Stops, Running, Dismissed
    <3>4. w.sent = q /\ w.ws = "OPEN" /\ w.sid = TRUE /\ w.state = "ACTIVE"
          /\ w.exitSent = r.exitSent
      BY <1>5, <1>8, <2>3
    <3>5. Form(w) /\ Said(w)
      BY <1>0, <1>5, <1>8, <2>2, <3>4 DEF Form, Said
    <3>6. Reasons(w, backend) /\ Causes(w, backend)
      BY <1>4, <2>3 DEF Reasons, TrueReason, Causes
    <3> QED BY <3>1, <3>2, <3>3, <3>4, <3>5, <3>6 DEF Sound, Core
  <2> QED BY <1>8, <2>q, <2>3
<1> QED BY <1>6, <1>7, <1>8 DEF Control

(* The worker's ping timer is no part of the invariant. *)
LEMMA TimersSound ==
  ASSUME NEW r, NEW b, Sound(r, b), r.state # "none",
         NEW t, t = [r EXCEPT !.timers = @ \cup {"ping"}]
  PROVE  Sound(t, b)
<1>0. Typed(r) /\ Phase(r) /\ Linked(r) /\ Stops(r) /\ Form(r) /\ Reasons(r, b)
      /\ Said(r) /\ Causes(r, b)
  BY DEF Core, Sound
<1>1. Typed(t)
  BY <1>0 DEF Typed
<1>2. Phase(t) /\ Linked(t)
  BY <1>0 DEF Phase, Linked
<1>3. Stops(t) /\ Form(t) /\ Said(t)
  BY <1>0 DEF Stops, Running, Dismissed, Form, Said
<1>4. Reasons(t, b) /\ Causes(t, b)
  BY <1>0 DEF Reasons, TrueReason, Causes
<1> QED BY <1>1, <1>2, <1>3, <1>4 DEF Sound, Core

(* Whatever record the worker sends, the connection stays sound.           *)
LEMMA ReceiveSound ==
  ASSUME NEW r, Sound(r, backend), r.outbox # <<>>,
         NEW s, s = [r EXCEPT !.outbox = Tail(@)],
         NEW t \in IF s.linkGen = s.gen THEN FromWorker(s, Head(r.outbox)) ELSE {s}
  PROVE  Sound(t, backend)
<1>0. Typed(r) /\ Phase(r) /\ Linked(r) /\ Stops(r) /\ Form(r) /\ Reasons(r, backend)
      /\ Said(r) /\ Causes(r, backend)
  BY DEF Core, Sound
<1>q. Head(r.outbox) \in {"ready", "opened", "output", "exit"}
      /\ (Head(r.outbox) = "exit" => r.ending # "none")
  BY <1>0, TailFacts DEF Typed, Reasons
<1>g. s.linkGen = r.linkGen /\ s.gen = r.gen
  OBVIOUS
<1>1. CASE s.linkGen # s.gen
  BY <1>1, <1>g, TakenSound
<1>2. CASE s.linkGen = s.gen /\ Head(r.outbox) # "exit"
  <2>1. Sound(s, backend)
    BY <1>2, TakenSound
  <2>2. CASE Head(r.outbox) = "ready"
    <3>1. CASE t \in {Post(s, "open")}
      BY <2>1, <3>1, PostOpenSound
    <3>2. CASE s.link = FALSE /\ t \in {[s EXCEPT !.outbox = <<>>]}
      <4>1. ASSUME NEW p, Sound(p, backend), p.link = FALSE,
                   NEW w, w = [p EXCEPT !.outbox = <<>>]
            PROVE  Sound(w, backend)
        <5>0. Typed(p) /\ Phase(p) /\ Linked(p) /\ Stops(p) /\ Form(p) /\ Reasons(p, backend)
              /\ Said(p) /\ Causes(p, backend)
          BY <4>1 DEF Core, Sound
        <5>1. Typed(w)
          BY <4>1, <5>0 DEF Typed
        <5>2. Phase(w) /\ Linked(w)
          BY <4>1, <5>0 DEF Phase, Linked
        <5>3. Stops(w) /\ Form(w) /\ Said(w)
          BY <4>1, <5>0 DEF Stops, Running, Dismissed, Form, Said
        <5>4. Reasons(w, backend)
          BY <4>1, <5>0 DEF Reasons, TrueReason
        <5>5. Causes(w, backend)
          BY <4>1, <5>0 DEF Causes
        <5> QED BY <5>1, <5>2, <5>3, <5>4, <5>5 DEF Sound, Core
      <4> QED BY <2>1, <3>2, <4>1
    <3> QED BY <1>2, <2>1, <2>2, <3>1, <3>2 DEF FromWorker, Sound, Core, Typed
  <2>3. CASE Head(r.outbox) = "opened"
    <3>1. CASE s.state # "OPENING"
      <4>1. t = s
        BY <1>2, <2>3, <3>1 DEF FromWorker
      <4> QED BY <2>1, <4>1
    <3>2. CASE s.state = "OPENING"
      <4>1. PICK v \in Control([s EXCEPT !.sid = TRUE, !.state = "ACTIVE"], "opened") :
              t = [v EXCEPT !.timers = @ \cup {"ping"}]
        BY <1>2, <2>3, <3>2 DEF FromWorker
      <4>2. Sound(v, backend) /\ v.state # "none"
        BY <2>1, <3>2, SessionOpenedSound
      <4> QED BY <4>1, <4>2, TimersSound
    <3> QED BY <3>1, <3>2
  <2>4. CASE Head(r.outbox) = "output"
    <3>1. t \in Output(s)
      BY <1>2, <2>4 DEF FromWorker
    <3> QED BY <2>1, <3>1, OutputSound
  <2> QED BY <1>2, <1>q, <2>2, <2>3, <2>4
<1>3. CASE s.linkGen = s.gen /\ Head(r.outbox) = "exit"
  <2>1. t \in {[s EXCEPT !.workerExit = s.ending]}
    BY <1>3 DEF FromWorker
  <2>2. ASSUME NEW w, w = [[r EXCEPT !.outbox = Tail(@)] EXCEPT !.workerExit = r.ending]
        PROVE  Sound(w, backend)
    <3>q. r.outbox \in Seq({"ready", "opened", "output", "exit"})
      BY <1>0 DEF Typed
    <3>1. /\ Tail(r.outbox) \in Seq({"ready", "opened", "output", "exit"})
          /\ \A i \in DOMAIN Tail(r.outbox) :
                Tail(r.outbox)[i] = r.outbox[i + 1] /\ i + 1 \in DOMAIN r.outbox
      BY <3>q, TailFacts
    <3>2. Typed(w)
      BY <1>0, <2>2, <3>1 DEF Typed
    <3>3. Phase(w) /\ Linked(w)
      BY <1>0, <2>2 DEF Phase, Linked
    <3>4. Stops(w) /\ Form(w) /\ Said(w)
      BY <1>0, <2>2 DEF Stops, Running, Dismissed, Form, Said
    <3>5. w.workerExit = r.ending /\ w.ending = r.ending /\ w.outbox = Tail(r.outbox)
          /\ w.closing = r.closing /\ w.endReason = r.endReason /\ w.broken = r.broken
          /\ w.told = r.told /\ w.proc = r.proc /\ w.doomed = r.doomed /\ w.gone = r.gone
          /\ w.killedByUs = r.killedByUs /\ w.linkGen = r.linkGen /\ w.gen = r.gen
      BY <2>2
    <3>6. Reasons(w, backend)
      BY <1>0, <3>1, <3>5 DEF Reasons, TrueReason
    <3>7. Causes(w, backend)
      BY <1>0, <1>3, <1>q, <3>5 DEF Causes
    <3> QED BY <3>2, <3>3, <3>4, <3>6, <3>7 DEF Sound, Core
  <2> QED BY <2>1, <2>2
<1> QED BY <1>1, <1>2, <1>3

(* The grace period is over: a worker the gateway still listens to is      *)
(* killed for a session that was ended.                                    *)
LEMMA GraceOverSound ==
  ASSUME NEW r, NEW b, Sound(r, b), r.stopping # "no",
         NEW t, t = Kill([r EXCEPT !.stopping = "no",
                                   !.killedByUs = @ \/ r.stopping = "forced"])
  PROVE  Sound(t, b)
<1>0. Typed(r) /\ Phase(r) /\ Linked(r) /\ Stops(r) /\ Form(r) /\ Reasons(r, b)
      /\ Said(r) /\ Causes(r, b)
  BY DEF Core, Sound
<1>1. /\ t.stopping = "no" /\ t.killedByUs = (r.killedByUs \/ r.stopping = "forced")
      /\ t.doomed = (r.proc \in Live) /\ t.closing = r.closing /\ t.broken = r.broken
      /\ t.linkGen = r.linkGen /\ t.gen = r.gen /\ t.gone = r.gone /\ t.link = r.link
      /\ t.proc = r.proc /\ t.workerExit = r.workerExit /\ t.outbox = r.outbox
  BY DEF Kill
<1>2. Typed(t)
  BY <1>0 DEF Typed, Kill
<1>3. Phase(t)
  BY <1>0 DEF Phase, Kill
<1>4. Linked(t)
  BY <1>0, <1>1 DEF Linked
<1>5. Running(t) => Dismissed(t)
  BY <1>1 DEF Running, Dismissed, Live
<1>6. t.killedByUs => t.closing
  BY <1>0, <1>1 DEF Stops
<1>7. \A i \in DOMAIN t.inbox : t.inbox[i] = "close" => t.closing
  BY <1>0 DEF Stops, Kill
<1>8. Stops(t)
  BY <1>1, <1>5, <1>6, <1>7 DEF Stops
<1>9. Form(t) /\ Said(t)
  BY <1>0 DEF Form, Said, Kill
<1>10. Reasons(t, b)
  BY <1>0 DEF Reasons, TrueReason, Kill
<1>11. Causes(t, b)
  <2>1. r.linkGen = r.gen => r.stopping = "forced"
    BY <1>0 DEF Stops, Typed
  <2>2. r.linkGen = r.gen => t.killedByUs /\ t.closing
    BY <1>0, <1>1, <2>1 DEF Stops
  <2> QED BY <1>0, <1>1, <2>2 DEF Causes
<1> QED BY <1>2, <1>3, <1>4, <1>8, <1>9, <1>10, <1>11 DEF Sound, Core

(* A worker that is killed needs nothing else to stop it.                  *)
LEMMA KillCore ==
  ASSUME NEW r, NEW b, Sound(r, b), NEW d, d = Kill(r)
  PROVE  Core(d, b) /\ d.ws = r.ws
<1>0. Typed(r) /\ Phase(r) /\ Linked(r) /\ Stops(r) /\ Form(r) /\ Reasons(r, b)
  BY DEF Core, Sound
<1>1. Typed(d)
  BY <1>0 DEF Typed, Kill
<1>2. Phase(d) /\ d.ws = r.ws
  BY <1>0 DEF Phase, Kill
<1>3. /\ d.doomed = (r.proc \in Live) /\ d.proc = r.proc /\ d.link = r.link
      /\ d.linkGen = r.linkGen /\ d.gone = r.gone
  BY DEF Kill
<1>4. Linked(d)
  BY <1>0, <1>3 DEF Linked
<1>5. Running(d) => Dismissed(d)
  BY <1>3 DEF Running, Dismissed, Live
<1>6. Stops(d)
  BY <1>0, <1>5 DEF Stops, Kill
<1>7. Form(d)
  BY <1>0 DEF Form, Kill
<1>8. Reasons(d, b)
  BY <1>0 DEF Reasons, TrueReason, Kill
<1> QED BY <1>1, <1>2, <1>4, <1>6, <1>7, <1>8 DEF Core

(* At the shutdown's deadline the worker is killed and the socket closed.  *)
LEMMA TerminatedSound ==
  ASSUME NEW r, Sound(r, backend), r.known,
         NEW t \in SocketClosed(IF r.link THEN Kill(r) ELSE r)
  PROVE  Sound(t, backend)
<1>0. Typed(r) /\ Phase(r) /\ Linked(r) /\ Stops(r) /\ Form(r) /\ Reasons(r, backend)
      /\ Said(r) /\ Causes(r, backend)
  BY DEF Core, Sound
<1>1. r.ws \in {"OPEN", "CLOSING"}
  BY <1>0 DEF Phase
<1>2. CASE r.link = FALSE
  BY <1>1, <1>2, SocketClosedSound DEF Sound
<1>3. CASE r.link
  <2>1. PICK d : d = Kill(r)
    OBVIOUS
  <2>2. t \in SocketClosed(d)
    BY <1>3, <2>1
  <2>3. Core(d, backend) /\ d.ws = r.ws
    BY <2>1, KillCore
  <2> QED BY <1>1, <2>2, <2>3, SocketClosedSound
<1> QED BY <1>0, <1>2, <1>3 DEF Typed

(* A connection is accepted. *)
LEMMA AcceptedSound ==
  ASSUME NEW r, NEW b, Sound(r, b), r.state = "none",
         NEW t, t = [r EXCEPT !.state = "AUTHENTICATED", !.ws = "OPEN", !.known = TRUE,
                              !.account = TRUE, !.timers = {"open", "idle"}]
  PROVE  Sound(t, b)
<1>0. Typed(r) /\ Phase(r) /\ Linked(r) /\ Stops(r) /\ Form(r) /\ Reasons(r, b)
      /\ Said(r) /\ Causes(r, b)
  BY DEF Core, Sound
<1>1. r.ws = "none" /\ r.linkGen = 0 /\ r.sid = FALSE
  BY <1>0 DEF Phase, Form
<1>2. Typed(t)
  BY <1>0 DEF Typed
<1>8. r.gen = 1 /\ r.closing = FALSE
  BY <1>0, <1>1 DEF Phase
<1>9. t.ws = "OPEN" /\ t.state = "AUTHENTICATED" /\ t.known = TRUE /\ t.gen = 1
      /\ t.linkGen = 0 /\ t.closing = FALSE
  BY <1>1, <1>8
<1>3. Phase(t)
  BY <1>9 DEF Phase
<1>7. Linked(t)
  BY <1>0, <1>1 DEF Linked
<1>4. Stops(t)
  BY <1>0, <1>1 DEF Stops, Running, Dismissed
<1>5. Form(t) /\ Said(t)
  BY <1>0, <1>1 DEF Form, Said
<1>6. Reasons(t, b) /\ Causes(t, b)
  BY <1>0 DEF Reasons, TrueReason, Causes
<1> QED BY <1>2, <1>3, <1>7, <1>4, <1>5, <1>6 DEF Sound, Core

(* The client starts the closing handshake. *)
LEMMA LeftSound ==
  ASSUME NEW r, NEW b, Sound(r, b), r.ws = "OPEN",
         NEW t, t = [r EXCEPT !.ws = "CLOSING", !.left = TRUE]
  PROVE  Sound(t, b)
<1>0. Typed(r) /\ Phase(r) /\ Linked(r) /\ Stops(r) /\ Form(r) /\ Reasons(r, b)
      /\ Said(r) /\ Causes(r, b)
  BY DEF Core, Sound
<1>1. Typed(t)
  BY <1>0 DEF Typed
<1>2. Phase(t) /\ Linked(t)
  BY <1>0 DEF Phase, Linked
<1>3. Stops(t)
  BY <1>0 DEF Stops, Running, Dismissed
<1>4. Form(t) /\ Said(t)
  BY <1>0 DEF Form, Said
<1>5. Reasons(t, b) /\ Causes(t, b)
  BY <1>0 DEF Reasons, TrueReason, Causes
<1> QED BY <1>1, <1>2, <1>3, <1>4, <1>5 DEF Sound, Core

(* The exit of a worker the gateway no longer listens to. *)
LEMMA ExitUnheardSound ==
  ASSUME NEW r, NEW b, Sound(r, b), r.gone \in {"ok", "failed", "oom"}, r.linkGen # r.gen,
         NEW t, t = [r EXCEPT !.gone = "seen", !.stopping = "no"]
  PROVE  Sound(t, b)
<1>0. Typed(r) /\ Phase(r) /\ Linked(r) /\ Stops(r) /\ Form(r) /\ Reasons(r, b)
      /\ Said(r) /\ Causes(r, b)
  BY DEF Core, Sound
<1>p. r.proc = "dead"
  BY <1>0 DEF Linked
<1>1. Typed(t)
  BY <1>0 DEF Typed
<1>2. Phase(t) /\ Linked(t)
  BY <1>0, <1>p DEF Phase, Linked
<1>3. Stops(t)
  BY <1>0, <1>p DEF Stops, Running
<1>4. Form(t) /\ Said(t)
  BY <1>0 DEF Form, Said
<1>5. Reasons(t, b) /\ Causes(t, b)
  BY <1>0 DEF Reasons, TrueReason, Causes
<1> QED BY <1>1, <1>2, <1>3, <1>4, <1>5 DEF Sound, Core

-----------------------------------------------------------------------------
(* The worker's steps *)

(* A record other than the last is put in the pipe. *)
LEMMA EmitSound ==
  ASSUME NEW r, NEW b, Sound(r, b), NEW rec \in {"ready", "opened", "output"},
         NEW t, t = Emit(r, rec)
  PROVE  Sound(t, b)
<1>0. Typed(r) /\ Phase(r) /\ Linked(r) /\ Stops(r) /\ Form(r) /\ Reasons(r, b)
      /\ Said(r) /\ Causes(r, b)
  BY DEF Core, Sound
<1>q. PICK q : q = Append(r.outbox, rec)
  OBVIOUS
<1>1. r.outbox \in Seq({"ready", "opened", "output", "exit"})
  BY <1>0 DEF Typed
<1>2. /\ q \in Seq({"ready", "opened", "output", "exit"})
      /\ DOMAIN q = 1..(Len(r.outbox) + 1) /\ q[Len(r.outbox) + 1] = rec
      /\ \A i \in DOMAIN r.outbox : q[i] = r.outbox[i]
      /\ DOMAIN r.outbox = 1..Len(r.outbox) /\ Len(r.outbox) \in Nat
  BY <1>1, <1>q, AppendFacts
<1>3. /\ \A i \in DOMAIN q : q[i] = "exit" => i \in DOMAIN r.outbox /\ r.outbox[i] = "exit"
      /\ \A i \in DOMAIN r.outbox : i \in DOMAIN q /\ q[i] = r.outbox[i]
  BY <1>2
<1>t. t.outbox = q
  BY <1>q DEF Emit
<1>4. Typed(t)
  BY <1>0, <1>2, <1>q DEF Typed, Emit
<1>5. Phase(t) /\ Linked(t)
  BY <1>0 DEF Phase, Linked, Emit
<1>6. Stops(t) /\ Form(t) /\ Said(t)
  BY <1>0 DEF Stops, Running, Dismissed, Form, Said, Emit
<1>7. /\ t.closing = r.closing /\ t.endReason = r.endReason /\ t.ending = r.ending
      /\ t.proc = r.proc /\ t.workerExit = r.workerExit /\ t.told = r.told
      /\ t.broken = r.broken /\ t.linkGen = r.linkGen /\ t.gen = r.gen /\ t.link = r.link
      /\ t.doomed = r.doomed /\ t.gone = r.gone /\ t.killedByUs = r.killedByUs
  BY DEF Emit
<1>8. Reasons(t, b)
  BY <1>0, <1>3, <1>t, <1>7 DEF Reasons, TrueReason
<1>9. Causes(t, b)
  BY <1>0, <1>3, <1>t, <1>7 DEF Causes
<1> QED BY <1>4, <1>5, <1>6, <1>8, <1>9 DEF Sound, Core

(* A worker comes up, or opens its session. *)
LEMMA RisingSound ==
  ASSUME NEW r, NEW b, Sound(r, b), NEW p \in {"ready", "open"},
         r.proc \in {"starting", "ready"}, NEW t, t = [r EXCEPT !.proc = p]
  PROVE  Sound(t, b)
<1>0. Typed(r) /\ Phase(r) /\ Linked(r) /\ Stops(r) /\ Form(r) /\ Reasons(r, b)
      /\ Said(r) /\ Causes(r, b)
  BY DEF Core, Sound
<1>1. Typed(t)
  BY <1>0 DEF Typed, Live
<1>2. Phase(t) /\ Linked(t)
  BY <1>0 DEF Phase, Linked, Live
<1>3. Running(r) /\ Running(t)
  BY DEF Running
<1>4. Stops(t)
  BY <1>0, <1>3 DEF Stops, Dismissed
<1>5. Form(t) /\ Said(t)
  BY <1>0 DEF Form, Said
<1>6. Reasons(t, b) /\ Causes(t, b)
  BY <1>0 DEF Reasons, TrueReason, Causes
<1> QED BY <1>1, <1>2, <1>4, <1>5, <1>6 DEF Sound, Core

(* The count of what it printed is no part of the invariant. *)
LEMMA PrintedSound ==
  ASSUME NEW r, NEW b, Sound(r, b), NEW t, t = [r EXCEPT !.produced = @ + 1]
  PROVE  Sound(t, b)
<1>0. Typed(r) /\ Phase(r) /\ Linked(r) /\ Stops(r) /\ Form(r) /\ Reasons(r, b)
      /\ Said(r) /\ Causes(r, b)
  BY DEF Core, Sound
<1>1. Typed(t)
  BY <1>0 DEF Typed
<1>2. Phase(t) /\ Linked(t)
  BY <1>0 DEF Phase, Linked
<1>3. Stops(t) /\ Form(t) /\ Said(t)
  BY <1>0 DEF Stops, Running, Dismissed, Form, Said
<1>4. Reasons(t, b) /\ Causes(t, b)
  BY <1>0 DEF Reasons, TrueReason, Causes
<1> QED BY <1>1, <1>2, <1>3, <1>4 DEF Sound, Core

(* Sound, but for what keeps a running worker: one that is finishing needs *)
(* none of it.                                                             *)
Idle(s, b) ==
  /\ Typed(s) /\ Phase(s) /\ Linked(s) /\ Form(s) /\ Reasons(s, b) /\ Said(s) /\ Causes(s, b)
  /\ s.killedByUs => s.closing
  /\ s.stopping = "forced" => s.closing
  /\ s.stopping = "plain" => s.linkGen # s.gen
  /\ s.linkGen = 0 => s.stopping = "no"
  /\ \A i \in DOMAIN s.inbox : s.inbox[i] = "close" => s.closing

(* A worker that runs finishes, for a reason of the user's or of the       *)
(* gateway's: its last record is the exit.                                 *)
LEMMA FinishSound ==
  ASSUME NEW r, NEW b, Idle(r, b), r.proc \in {"ready", "open"},
         NEW reason \in Reason \ {"worker_failure"}, NEW t, t = Finish(r, reason)
  PROVE  Sound(t, b)
<1>0. Typed(r) /\ Phase(r) /\ Linked(r) /\ Form(r) /\ Reasons(r, b)
      /\ Said(r) /\ Causes(r, b)
  BY DEF Idle
<1>o. r.outbox \in Seq({"ready", "opened", "output", "exit"})
  BY <1>0 DEF Typed
<1>e. PICK e : e = Append(r.outbox, "exit")
  OBVIOUS
<1>1. /\ e \in Seq({"ready", "opened", "output", "exit"})
      /\ DOMAIN e = 1..(Len(r.outbox) + 1) /\ e[Len(r.outbox) + 1] = "exit"
      /\ Len(r.outbox) \in Nat
  BY <1>o, <1>e, AppendFacts
<1>2. Len(r.outbox) + 1 \in DOMAIN e /\ reason # "none" /\ reason # "worker_failure"
      /\ reason \in Reason
  BY <1>1 DEF Reason
<1>3. r.ending = "none" /\ r.gone = "no" /\ r.link # FALSE
  BY <1>0 DEF Reasons, Linked
<1>4. ASSUME NEW w, w = [[r EXCEPT !.proc = "finishing", !.ending = reason] EXCEPT !.outbox = e]
      PROVE  Sound(w, b)
  <2>1. Typed(w)
    BY <1>0, <1>1, <1>2, <1>4 DEF Typed, Live
  <2>2. Phase(w)
    BY <1>0, <1>4 DEF Phase
  <2>l. Linked(w)
    BY <1>0, <1>3, <1>4 DEF Linked, Live
  <2>3. ~ Running(w)
    BY <1>4 DEF Running
  <2>4. Stops(w)
    BY <1>4, <2>3 DEF Stops, Idle
  <2>5. Form(w) /\ Said(w)
    BY <1>0, <1>4 DEF Form, Said
  <2>6. /\ w.closing = r.closing /\ w.endReason = r.endReason /\ w.ending = reason
        /\ w.proc = "finishing" /\ w.workerExit = r.workerExit /\ w.told = r.told
        /\ w.broken = r.broken /\ w.linkGen = r.linkGen /\ w.gen = r.gen
        /\ w.doomed = r.doomed /\ w.gone = r.gone /\ w.killedByUs = r.killedByUs
        /\ w.outbox = e
    BY <1>4
  <2>7. Reasons(w, b)
    BY <1>0, <1>2, <1>3, <2>6 DEF Reasons, TrueReason
  <2>8. Causes(w, b)
    BY <1>0, <1>1, <1>2, <2>6 DEF Causes
  <2> QED BY <2>1, <2>2, <2>l, <2>4, <2>5, <2>7, <2>8 DEF Sound, Core
<1> QED BY <1>e, <1>4 DEF Finish, Emit

(* A record taken from the worker's inbox: a close may have been the only  *)
(* one that dismissed it.                                                  *)
LEMMA TakeFacts ==
  ASSUME NEW r, NEW b, Sound(r, b), r.inbox # <<>>, NEW t, t = [r EXCEPT !.inbox = Tail(@)]
  PROVE  /\ Idle(t, b)
         /\ Head(r.inbox) # "close" \/ ~ Running(r) => Sound(t, b)
         /\ Head(r.inbox) \in {"open", "close"} /\ (Head(r.inbox) = "close" => r.closing)
<1>0. Typed(r) /\ Phase(r) /\ Linked(r) /\ Stops(r) /\ Form(r) /\ Reasons(r, b)
      /\ Said(r) /\ Causes(r, b)
  BY DEF Core, Sound
<1>q. r.inbox \in Seq({"open", "close"})
  BY <1>0 DEF Typed
<1>1. /\ Tail(r.inbox) \in Seq({"open", "close"})
      /\ \A i \in DOMAIN Tail(r.inbox) :
            Tail(r.inbox)[i] = r.inbox[i + 1] /\ i + 1 \in DOMAIN r.inbox
      /\ Head(r.inbox) = r.inbox[1] /\ 1 \in DOMAIN r.inbox
      /\ Head(r.inbox) \in {"open", "close"}
      /\ \A i \in DOMAIN r.inbox :
            i # 1 => i - 1 \in DOMAIN Tail(r.inbox) /\ Tail(r.inbox)[i - 1] = r.inbox[i]
  BY <1>q, TailFacts
<1>2. Typed(t)
  BY <1>0, <1>1 DEF Typed
<1>3. Phase(t) /\ Linked(t)
  BY <1>0 DEF Phase, Linked
<1>4. Form(t) /\ Said(t)
  BY <1>0 DEF Form, Said
<1>5. Reasons(t, b) /\ Causes(t, b)
  BY <1>0 DEF Reasons, TrueReason, Causes
<1>6. /\ t.killedByUs => t.closing
      /\ t.stopping = "forced" => t.closing
      /\ t.stopping = "plain" => t.linkGen # t.gen
      /\ t.linkGen = 0 => t.stopping = "no"
  BY <1>0 DEF Stops
<1>7. (\A i \in DOMAIN t.inbox : t.inbox[i] = "close" => t.closing)
      /\ (Head(r.inbox) = "close" => r.closing)
  BY <1>0, <1>1 DEF Stops
<1>8. Idle(t, b)
  BY <1>2, <1>3, <1>4, <1>5, <1>6, <1>7 DEF Idle
<1>9. ASSUME Head(r.inbox) # "close" \/ ~ Running(r) PROVE Sound(t, b)
  <2>1. Running(t) => Running(r) /\ (Dismissed(r) => Dismissed(t))
    <3>1. CASE ~ Running(r)
      BY <3>1 DEF Running
    <3>2. CASE Head(r.inbox) # "close"
      <4>1. ASSUME NEW i \in DOMAIN r.inbox, r.inbox[i] = "close"
            PROVE  \E j \in DOMAIN Tail(r.inbox) : Tail(r.inbox)[j] = "close"
        <5>1. i # 1
          BY <1>1, <3>2, <4>1
        <5>2. i - 1 \in DOMAIN Tail(r.inbox) /\ Tail(r.inbox)[i - 1] = "close"
          BY <1>1, <4>1, <5>1
        <5> QED BY <5>2
      <4> QED BY <4>1 DEF Running, Dismissed
    <3> QED BY <1>9, <3>1, <3>2
  <2>2. Stops(t)
    BY <1>0, <1>6, <1>7, <2>1 DEF Stops
  <2> QED BY <1>2, <1>3, <1>4, <1>5, <2>2 DEF Sound, Core
<1> QED BY <1>1, <1>7, <1>8, <1>9

(* A worker that finished is dead, and its exit event under way. *)
LEMMA EndedSound ==
  ASSUME NEW r, NEW b, Sound(r, b), r.proc = "finishing",
         NEW t, t = [r EXCEPT !.proc = "dead", !.doomed = FALSE, !.inbox = <<>>, !.gone = "ok"]
  PROVE  Sound(t, b)
<1>0. Typed(r) /\ Phase(r) /\ Linked(r) /\ Stops(r) /\ Form(r) /\ Reasons(r, b)
      /\ Said(r) /\ Causes(r, b)
  BY DEF Core, Sound
<1>1. Typed(t)
  BY <1>0 DEF Typed
<1>2. Phase(t) /\ Linked(t)
  BY <1>0 DEF Phase, Linked
<1>3. Stops(t) /\ Form(t) /\ Said(t)
  BY <1>0 DEF Stops, Running, Form, Said
<1>4. Reasons(t, b)
  BY <1>0 DEF Reasons, TrueReason
<1>5. Causes(t, b)
  BY <1>0 DEF Causes
<1> QED BY <1>1, <1>2, <1>3, <1>4, <1>5 DEF Sound, Core

(* So is one that failed: by itself, or because it was killed. *)
LEMMA DiedSound ==
  ASSUME NEW r, NEW b, Sound(r, b), r.proc \in Live, NEW how \in {"failed", "oom"},
         NEW t, t = [r EXCEPT !.proc = "dead", !.doomed = FALSE, !.inbox = <<>>, !.gone = how,
                              !.broken = @ \/ ~ r.doomed]
  PROVE  Sound(t, b)
<1>0. Typed(r) /\ Phase(r) /\ Linked(r) /\ Stops(r) /\ Form(r) /\ Reasons(r, b)
      /\ Said(r) /\ Causes(r, b)
  BY DEF Core, Sound
<1>1. Typed(t)
  BY <1>0 DEF Typed
<1>2. Phase(t)
  BY <1>0 DEF Phase
<1>3. Linked(t)
  BY <1>0 DEF Linked, Live
<1>4. Stops(t) /\ Form(t) /\ Said(t)
  BY <1>0 DEF Stops, Running, Form, Said
<1>5. /\ t.closing = r.closing /\ t.endReason = r.endReason /\ t.ending = r.ending
      /\ t.proc = "dead" /\ t.workerExit = r.workerExit /\ t.told = r.told
      /\ t.broken = (r.broken \/ ~ r.doomed) /\ t.linkGen = r.linkGen /\ t.gen = r.gen
      /\ t.doomed = FALSE /\ t.gone = how /\ t.killedByUs = r.killedByUs
      /\ t.outbox = r.outbox
  OBVIOUS
<1>6. Reasons(t, b)
  BY <1>0, <1>5 DEF Reasons, TrueReason
<1>7. Causes(t, b)
  BY <1>0, <1>5 DEF Causes
<1> QED BY <1>1, <1>2, <1>3, <1>4, <1>6, <1>7 DEF Sound, Core

(* What a worker does leaves its connection sound. *)
LEMMA WorkerHandlesSound ==
  ASSUME NEW r, NEW b, Sound(r, b), r.proc \in {"ready", "open", "finishing"},
         r.inbox # <<>>, NEW s, s = [r EXCEPT !.inbox = Tail(@)],
         NEW t \in {IF Head(r.inbox) = "close" THEN Finish(s, s.endReason)
                     ELSE IF s.proc = "ready" THEN WorkerOpens(s) ELSE s}
  PROVE  Sound(t, b)
<1>1. /\ Idle(s, b)
      /\ Head(r.inbox) # "close" \/ ~ Running(r) => Sound(s, b)
      /\ Head(r.inbox) = "close" => r.closing
  BY TakeFacts
<1>2. s.proc = r.proc /\ s.closing = r.closing /\ s.endReason = r.endReason
  OBVIOUS
<1>3. CASE Head(r.inbox) = "close" /\ r.proc = "finishing"
  <2>1. t \in {s}
    BY <1>2, <1>3 DEF Finish
  <2>2. ~ Running(r)
    BY <1>3 DEF Running
  <2> QED BY <1>1, <2>1, <2>2
<1>4. CASE Head(r.inbox) = "close" /\ r.proc # "finishing"
  <2>1. s.endReason \in Reason \ {"worker_failure"}
    BY <1>1, <1>2, <1>4 DEF Idle, Reasons, Typed, Reason
  <2>2. t \in {Finish(s, s.endReason)}
    BY <1>4
  <2> QED BY <1>1, <1>2, <1>4, <2>1, <2>2, FinishSound
<1>5. CASE Head(r.inbox) # "close" /\ r.proc # "ready"
  <2>1. t \in {s}
    BY <1>2, <1>5
  <2> QED BY <1>1, <1>5, <2>1
<1>6. CASE Head(r.inbox) # "close" /\ r.proc = "ready"
  <2>1. Sound(s, b) /\ t \in {WorkerOpens(s)} /\ s.proc = "ready"
    BY <1>1, <1>2, <1>6
  <2>2. PICK o : o = [s EXCEPT !.proc = "open"]
    OBVIOUS
  <2>3. Sound(o, b)
    BY <2>1, <2>2, RisingSound
  <2>4. PICK e : e = Emit(o, "opened")
    OBVIOUS
  <2>5. Sound(e, b)
    BY <2>3, <2>4, EmitSound
  <2>6. PICK p : p = [e EXCEPT !.produced = @ + 1]
    OBVIOUS
  <2>7. Sound(p, b)
    BY <2>5, <2>6, PrintedSound
  <2>8. Sound(Emit(p, "output"), b)
    BY <2>7, EmitSound
  <2> QED BY <2>1, <2>2, <2>4, <2>5, <2>6, <2>8 DEF WorkerOpens
<1> QED BY <1>3, <1>4, <1>5, <1>6

-----------------------------------------------------------------------------
(* The steps of the gateway and of its workers *)

(* What a step owes: every connection sound, with the same backend.        *)
StepSound ==
  /\ DOMAIN conn' = Conn /\ backend' = backend
  /\ \A c \in Conn : Sound(conn'[c], backend)

(* A handler leaves its connection in one of its outcomes, and no other    *)
(* connection is touched.                                                  *)
LEMMA BecomesSound ==
  ASSUME SessionInv, NEW c \in Conn, NEW outcomes,
         \A t \in outcomes : Sound(t, backend), Becomes(c, outcomes)
  PROVE  StepSound
<1>1. PICK t \in outcomes : conn' = [conn EXCEPT ![c] = t]
  BY DEF Becomes
<1>2. DOMAIN conn' = Conn /\ \A d \in Conn : conn'[d] = IF d = c THEN t ELSE conn[d]
  BY <1>1 DEF SessionInv
<1>3. backend' = backend
  BY DEF Becomes
<1> QED BY <1>1, <1>2, <1>3 DEF StepSound, SessionInv

(* So does a worker. *)
LEMMA WorkerStepSound ==
  ASSUME SessionInv, NEW c \in Conn, NEW t, Sound(t, backend), Worker(c, t)
  PROVE  StepSound
<1>1. DOMAIN conn' = Conn /\ \A d \in Conn : conn'[d] = IF d = c THEN t ELSE conn[d]
  BY DEF Worker, SessionInv
<1>2. backend' = backend
  BY DEF Worker
<1> QED BY <1>1, <1>2 DEF StepSound, SessionInv

(* Whatever a known connection becomes, all at once. *)
LEMMA EachKnownSound ==
  ASSUME SessionInv, NEW G, DOMAIN G = Conn,
         \A c \in Known : \A t \in G[c] : Sound(t, backend),
         NEW next, \A c \in Known : next[c] \in G[c],
         conn' = [c \in Conn |-> IF c \in Known THEN next[c] ELSE conn[c]],
         backend' = backend
  PROVE  StepSound
BY DEF StepSound, SessionInv

(* The gateway's handlers of one connection. *)
LEMMA HandlerSound ==
  ASSUME SessionInv, NEW c \in Conn,
         \/ Accept(c) \/ (\E previous \in BOOLEAN : Open(c, previous)) \/ OpenRefused(c)
         \/ ClientEnds(c) \/ ClientFails(c) \/ Drain(c)
         \/ OpenDeadline(c) \/ Expire(c) \/ ReadyDeadline(c) \/ PingDeadline(c)
         \/ ClientLeaves(c) \/ SocketGone(c) \/ Receive(c) \/ ExitEvent(c) \/ GraceOver(c)
  PROVE  StepSound
<1>r. PICK r : r = conn[c]
  OBVIOUS
<1>s. Sound(r, backend)
  BY <1>r DEF SessionInv
<1>0. Typed(r) /\ Phase(r) /\ Linked(r) /\ Stops(r) /\ Form(r) /\ Reasons(r, backend)
      /\ Said(r) /\ Causes(r, backend)
  BY <1>s DEF Core, Sound
<1>f. ASSUME NEW reason \in {"closed", "quota", "shutdown", "expired", "logout"}
      PROVE  reason \in Reason \ {"worker_failure"}
  BY DEF Reason
<1>1. CASE Accept(c)
  <2>1. r.state = "none" /\ r.ws = "none" /\ r.linkGen = 0
    BY <1>0, <1>1, <1>r DEF Accept, Phase
  <2>2. ASSUME NEW t, t = [r EXCEPT !.state = "AUTHENTICATED", !.ws = "OPEN", !.known = TRUE,
                                    !.account = TRUE, !.timers = {"open", "idle"}]
        PROVE  Sound(t, backend)
    BY <1>s, <2>1, <2>2, AcceptedSound
  <2>3. Becomes(c, {[r EXCEPT !.state = "AUTHENTICATED", !.ws = "OPEN", !.known = TRUE,
                              !.account = TRUE, !.timers = {"open", "idle"}]})
    BY <1>1, <1>r DEF Accept
  <2> QED BY <2>2, <2>3, BecomesSound
<1>2. CASE \E previous \in BOOLEAN : Open(c, previous)
  <2>1. PICK previous \in BOOLEAN : Open(c, previous)
    BY <1>2
  <2>2. r.ws = "OPEN" /\ r.state = "AUTHENTICATED" /\ Becomes(c, Opened(r, previous))
    BY <1>r, <2>1 DEF Open, Listens
  <2>3. \A t \in Opened(r, previous) : Sound(t, backend)
    BY <1>s, <2>2, OpenedSound
  <2> QED BY <2>2, <2>3, BecomesSound
<1>3. CASE OpenRefused(c)
  <2>1. PICK reason \in {"closed", "quota"} : Becomes(c, Fail(r, reason))
    BY <1>3, <1>r DEF OpenRefused
  <2>2. \A t \in Fail(r, reason) : Sound(t, backend)
    BY <1>s, <1>f, FailSound
  <2> QED BY <2>1, <2>2, BecomesSound
<1>4. CASE ClientEnds(c)
  <2>1. PICK reason \in {"closed", "logout"} : Becomes(c, End(r, reason))
    BY <1>4, <1>r DEF ClientEnds
  <2>2. r.ws # "none"
    BY <1>4, <1>r DEF ClientEnds, Listens
  <2>3. \A t \in End(r, reason) : Sound(t, backend)
    BY <1>s, <1>f, <2>2, EndSound
  <2> QED BY <2>1, <2>3, BecomesSound
<1>5. CASE ClientFails(c)
  <2>1. PICK reason \in {"closed", "quota"} : Becomes(c, Fail(r, reason))
    BY <1>5, <1>r DEF ClientFails
  <2>2. \A t \in Fail(r, reason) : Sound(t, backend)
    BY <1>s, <1>f, FailSound
  <2> QED BY <2>1, <2>2, BecomesSound
<1>6. CASE Drain(c)
  <2>1. \A t \in Flush(r) : Sound(t, backend)
    BY <1>s, FlushSound
  <2>2. Becomes(c, Flush(r))
    BY <1>6, <1>r DEF Drain
  <2> QED BY <2>1, <2>2, BecomesSound
<1>7. CASE OpenDeadline(c)
  <2>1. Becomes(c, Fail(r, "closed"))
    BY <1>7, <1>r DEF OpenDeadline
  <2>2. \A t \in Fail(r, "closed") : Sound(t, backend)
    BY <1>s, <1>f, FailSound
  <2> QED BY <2>1, <2>2, BecomesSound
<1>8. CASE Expire(c)
  <2>1. Becomes(c, End(r, "expired")) /\ "idle" \in r.timers
    BY <1>8, <1>r DEF Expire, Timer
  <2>2. r.ws # "none"
    BY <1>0, <2>1 DEF Phase
  <2>3. \A t \in End(r, "expired") : Sound(t, backend)
    BY <1>s, <1>f, <2>2, EndSound
  <2> QED BY <2>1, <2>3, BecomesSound
<1>9. CASE ReadyDeadline(c)
  <2>1. Becomes(c, WorkerFailed(r))
    BY <1>9, <1>r DEF ReadyDeadline
  <2>2. \A t \in WorkerFailed(r) : Sound(t, backend)
    BY <1>s, WorkerFailedSound
  <2> QED BY <2>1, <2>2, BecomesSound
<1>10. CASE PingDeadline(c)
  <2>1. PICK outcomes : /\ Becomes(c, outcomes)
                        /\ outcomes \subseteq Fail(r, "quota") \cup WorkerFailed(r)
                                               \cup Then(Fail(r, "quota"), WorkerFailed)
    BY <1>10, <1>r DEF PingDeadline
  <2>2. \A t \in Fail(r, "quota") : Sound(t, backend)
    BY <1>s, <1>f, FailSound
  <2>3. \A t \in WorkerFailed(r) : Sound(t, backend)
    BY <1>s, WorkerFailedSound
  <2>4. \A t \in Then(Fail(r, "quota"), WorkerFailed) : Sound(t, backend)
    BY <2>2, WorkerFailedSound DEF Then
  <2> QED BY <2>1, <2>2, <2>3, <2>4, BecomesSound
<1>11. CASE ClientLeaves(c)
  <2>1. r.ws = "OPEN" /\ Becomes(c, {[r EXCEPT !.ws = "CLOSING", !.left = TRUE]})
    BY <1>11, <1>r DEF ClientLeaves
  <2>2. ASSUME NEW t, t = [r EXCEPT !.ws = "CLOSING", !.left = TRUE]
        PROVE  Sound(t, backend)
    BY <1>s, <2>1, <2>2, LeftSound
  <2> QED BY <2>1, <2>2, BecomesSound
<1>12. CASE SocketGone(c)
  <2>1. r.ws \in {"OPEN", "CLOSING"} /\ Becomes(c, SocketClosed(r))
    BY <1>12, <1>r DEF SocketGone
  <2>2. \A t \in SocketClosed(r) : Sound(t, backend)
    BY <1>s, <2>1, SocketClosedSound DEF Sound
  <2> QED BY <2>1, <2>2, BecomesSound
<1>13. CASE Receive(c)
  <2>s. PICK s : s = [r EXCEPT !.outbox = Tail(@)]
    OBVIOUS
  <2>1. /\ r.outbox # <<>>
        /\ Becomes(c, IF s.linkGen = s.gen THEN FromWorker(s, Head(r.outbox)) ELSE {s})
    BY <1>13, <1>r, <2>s DEF Receive
  <2>2. \A t \in IF s.linkGen = s.gen THEN FromWorker(s, Head(r.outbox)) ELSE {s} :
          Sound(t, backend)
    BY <1>s, <2>s, <2>1, ReceiveSound
  <2> QED BY <2>1, <2>2, BecomesSound
<1>14. CASE ExitEvent(c)
  <2>s. PICK s : s = [r EXCEPT !.gone = "seen", !.stopping = "no"]
    OBVIOUS
  <2>1. /\ r.gone \in {"ok", "failed", "oom"} /\ (backend = "thread" => r.outbox = <<>>)
        /\ Becomes(c, IF s.linkGen = s.gen THEN WorkerExited(s, r.gone) ELSE {s})
    BY <1>14, <1>r, <2>s DEF ExitEvent
  <2>2. s.linkGen = r.linkGen /\ s.gen = r.gen
    BY <2>s
  <2>3. CASE s.linkGen = s.gen
    <3>1. \A t \in WorkerExited(s, r.gone) : Sound(t, backend)
      BY <1>s, <2>s, <2>1, <2>2, <2>3, WorkerExitedSound
    <3> QED BY <2>1, <2>3, <3>1, BecomesSound
  <2>4. CASE s.linkGen # s.gen
    <3>1. Sound(s, backend)
      BY <1>s, <2>s, <2>1, <2>2, <2>4, ExitUnheardSound
    <3> QED BY <2>1, <2>4, <3>1, BecomesSound
  <2> QED BY <2>3, <2>4
<1>15. CASE GraceOver(c)
  <2>1. /\ r.stopping # "no"
        /\ Becomes(c, {Kill([r EXCEPT !.stopping = "no",
                                      !.killedByUs = @ \/ r.stopping = "forced"])})
    BY <1>15, <1>r DEF GraceOver
  <2>2. ASSUME NEW t, t = Kill([r EXCEPT !.stopping = "no",
                                         !.killedByUs = @ \/ r.stopping = "forced"])
        PROVE  Sound(t, backend)
    BY <1>s, <2>1, <2>2, GraceOverSound
  <2> QED BY <2>1, <2>2, BecomesSound
<1> QED BY <1>1, <1>2, <1>3, <1>4, <1>5, <1>6, <1>7, <1>8, <1>9, <1>10, <1>11, <1>12,
           <1>13, <1>14, <1>15

(* The worker's steps. *)
LEMMA WorkerNextSound ==
  ASSUME SessionInv, NEW c \in Conn,
         \/ WorkerReady(c) \/ WorkerHandles(c) \/ WorkerPrints(c) \/ WorkerLogout(c)
         \/ WorkerEnds(c) \/ WorkerDies(c)
  PROVE  StepSound
<1>r. PICK r : r = conn[c]
  OBVIOUS
<1>s. Sound(r, backend)
  BY <1>r DEF SessionInv
<1>1. CASE WorkerReady(c)
  <2>p. PICK p : p = [r EXCEPT !.proc = "ready"]
    OBVIOUS
  <2>e. PICK e : e = Emit(p, "ready")
    OBVIOUS
  <2>1. r.proc = "starting" /\ Worker(c, e)
    BY <1>1, <1>r, <2>p, <2>e DEF WorkerReady
  <2>2. Sound(p, backend)
    BY <1>s, <2>p, <2>1, RisingSound
  <2>3. Sound(e, backend)
    BY <2>e, <2>2, EmitSound
  <2> QED BY <2>1, <2>3, WorkerStepSound
<1>2. CASE WorkerHandles(c)
  <2>s. PICK s : s = [r EXCEPT !.inbox = Tail(@)]
    OBVIOUS
  <2>t. PICK t : t = IF Head(r.inbox) = "close" THEN Finish(s, s.endReason)
                     ELSE IF s.proc = "ready" THEN WorkerOpens(s) ELSE s
    OBVIOUS
  <2>1. r.proc \in {"ready", "open", "finishing"} /\ r.inbox # <<>> /\ Worker(c, t)
    BY <1>2, <1>r, <2>s, <2>t DEF WorkerHandles
  <2>2. Sound(t, backend)
    BY <1>s, <2>s, <2>t, <2>1, WorkerHandlesSound
  <2> QED BY <2>1, <2>2, WorkerStepSound
<1>3. CASE WorkerPrints(c)
  <2>p. PICK p : p = [r EXCEPT !.produced = @ + 1]
    OBVIOUS
  <2>e. PICK e : e = Emit(p, "output")
    OBVIOUS
  <2>1. Worker(c, e)
    BY <1>3, <1>r, <2>p, <2>e DEF WorkerPrints
  <2>2. Sound(p, backend)
    BY <1>s, <2>p, PrintedSound
  <2>3. Sound(e, backend)
    BY <2>e, <2>2, EmitSound
  <2> QED BY <2>1, <2>3, WorkerStepSound
<1>4. CASE WorkerLogout(c)
  <2>t. PICK t : t = Finish(r, "logout")
    OBVIOUS
  <2>1. r.proc = "open" /\ Worker(c, t)
    BY <1>4, <1>r, <2>t DEF WorkerLogout
  <2>2. Idle(r, backend)
    BY <1>s DEF Sound, Core, Stops, Idle
  <2>3. Sound(t, backend)
    BY <2>t, <2>1, <2>2, FinishSound DEF Reason
  <2> QED BY <2>1, <2>3, WorkerStepSound
<1>5. CASE WorkerEnds(c)
  <2>t. PICK t : t = [r EXCEPT !.proc = "dead", !.doomed = FALSE, !.inbox = <<>>, !.gone = "ok"]
    OBVIOUS
  <2>1. r.proc = "finishing" /\ Worker(c, t)
    BY <1>5, <1>r, <2>t DEF WorkerEnds
  <2>2. Sound(t, backend)
    BY <1>s, <2>t, <2>1, EndedSound
  <2> QED BY <2>1, <2>2, WorkerStepSound
<1>6. CASE WorkerDies(c)
  <2>1. PICK how \in {"failed", "oom"} :
          Worker(c, [r EXCEPT !.proc = "dead", !.doomed = FALSE, !.inbox = <<>>,
                              !.gone = how, !.broken = @ \/ ~ r.doomed])
    BY <1>6, <1>r DEF WorkerDies
  <2>t. PICK t : t = [r EXCEPT !.proc = "dead", !.doomed = FALSE, !.inbox = <<>>,
                               !.gone = how, !.broken = @ \/ ~ r.doomed]
    OBVIOUS
  <2>2. r.proc \in Live /\ Worker(c, t)
    BY <1>6, <1>r, <2>1, <2>t DEF WorkerDies
  <2>3. Sound(t, backend)
    BY <1>s, <2>t, <2>2, DiedSound
  <2> QED BY <2>2, <2>3, WorkerStepSound
<1> QED BY <1>1, <1>2, <1>3, <1>4, <1>5, <1>6

(* A shutdown, and its deadline, of all known connections at once. *)
LEMMA ShutdownSound ==
  ASSUME SessionInv, Shutdown \/ ShutdownDeadline
  PROVE  StepSound
<1>1. ASSUME NEW c \in Known
      PROVE  c \in Conn /\ Sound(conn[c], backend) /\ conn[c].known
  BY DEF Known, SessionInv
<1>2. CASE Shutdown
  <2>g. PICK G : G = [c \in Conn |-> Fail(conn[c], "shutdown")]
    OBVIOUS
  <2>1. PICK next : /\ \A c \in Known : next[c] \in Fail(conn[c], "shutdown")
                    /\ conn' = [c \in Conn |-> IF c \in Known THEN next[c] ELSE conn[c]]
    BY <1>2 DEF Shutdown, EachKnown
  <2>2. DOMAIN G = Conn /\ \A c \in Known : next[c] \in G[c]
    BY <1>1, <2>1, <2>g
  <2>3. \A c \in Known : \A t \in Fail(conn[c], "shutdown") : Sound(t, backend)
    BY <1>1, FailSound DEF Reason
  <2>4. \A c \in Known : \A t \in G[c] : Sound(t, backend)
    BY <1>1, <2>g, <2>3
  <2>5. backend' = backend
    BY <1>2 DEF Shutdown
  <2> QED BY <2>1, <2>2, <2>4, <2>5, EachKnownSound
<1>3. CASE ShutdownDeadline
  <2>g. PICK G : G = [c \in Conn |-> SocketClosed(IF conn[c].link THEN Kill(conn[c])
                                                 ELSE conn[c])]
    OBVIOUS
  <2>1. PICK next : /\ \A c \in Known :
                          next[c] \in SocketClosed(IF conn[c].link THEN Kill(conn[c])
                                                   ELSE conn[c])
                    /\ conn' = [c \in Conn |-> IF c \in Known THEN next[c] ELSE conn[c]]
    BY <1>3 DEF ShutdownDeadline, EachKnown
  <2>2. DOMAIN G = Conn /\ \A c \in Known : next[c] \in G[c]
    BY <1>1, <2>1, <2>g
  <2>3. \A c \in Known :
          \A t \in SocketClosed(IF conn[c].link THEN Kill(conn[c]) ELSE conn[c]) :
            Sound(t, backend)
    BY <1>1, TerminatedSound
  <2>4. \A c \in Known : \A t \in G[c] : Sound(t, backend)
    BY <1>1, <2>g, <2>3
  <2>5. backend' = backend
    BY <1>3 DEF ShutdownDeadline
  <2> QED BY <2>1, <2>2, <2>4, <2>5, EachKnownSound
<1> QED BY <1>2, <1>3

-----------------------------------------------------------------------------
(* A connection that does not exist yet is sound. *)
LEMMA FreshSound ==
  ASSUME NEW b
  PROVE  Sound(Fresh, b)
<1>1. <<>> \in Seq({"opened", "output", "exit"}) /\ <<>> \in Seq({"open", "close"})
      /\ <<>> \in Seq({"ready", "opened", "output", "exit"})
  OBVIOUS
<1>2. Typed(Fresh)
  BY <1>1 DEF Typed, Fresh
<1>f. /\ Fresh.state = "none" /\ Fresh.ws = "none" /\ Fresh.timers = {} /\ Fresh.gen = 1
      /\ Fresh.known = FALSE /\ Fresh.reserved = FALSE /\ Fresh.charged = FALSE
      /\ Fresh.account = FALSE /\ Fresh.closing = FALSE /\ Fresh.linkGen = 0
      /\ Fresh.link = FALSE /\ Fresh.proc = "none" /\ Fresh.gone = "no"
      /\ Fresh.doomed = FALSE /\ Fresh.killedByUs = FALSE /\ Fresh.stopping = "no"
      /\ Fresh.inbox = <<>>
  BY DEF Fresh
<1>3. Phase(Fresh) /\ Linked(Fresh)
  BY <1>f DEF Phase, Linked
<1>4. Stops(Fresh)
  BY <1>f DEF Stops, Running
<1>5. Form(Fresh) /\ Said(Fresh)
  BY DEF Form, Said, Fresh
<1>6. Reasons(Fresh, b) /\ Causes(Fresh, b)
  BY DEF Reasons, Causes, Fresh
<1> QED BY <1>2, <1>3, <1>4, <1>5, <1>6 DEF Sound, Core

(* Every connection is sound, whatever the gateway, its clients and its    *)
(* workers do, and with either backend.                                    *)
THEOREM SessionSound == SessionSpec => []SessionInv
<1>1. SessionInit => SessionInv
  BY FreshSound DEF SessionInit, SessionInv
<1>2. SessionInv /\ [SessionNext]_sessionVars => SessionInv'
  <2> SUFFICES ASSUME SessionInv, [SessionNext]_sessionVars
               PROVE  SessionInv'
    OBVIOUS
  <2>1. CASE UNCHANGED sessionVars
    BY <2>1 DEF SessionInv, sessionVars
  <2>2. CASE SessionNext
    <3>1. StepSound
      BY <2>2, HandlerSound, WorkerNextSound, ShutdownSound
         DEF SessionNext, GatewayNext, WorkerNext
    <3> QED BY <3>1 DEF StepSound, SessionInv
  <2> QED BY <2>1, <2>2
<1> QED BY <1>1, <1>2, PTL DEF SessionSpec

(* What a client is sent, for any number of connections: session.opened    *)
(* first or not at all, session.exit last and only of an opened session,   *)
(* and before the gateway closes the socket (_control, _flush, _finalExit).*)
THEOREM ClientIsToldInOrder == SessionSpec => []WireDiscipline
<1>1. SessionInv => WireDiscipline
  BY DEF SessionInv, Sound, Core, Typed, Form, Said, WireDiscipline
<1> QED BY <1>1, SessionSound, PTL

(* A forgotten connection holds nothing, and a worker runs only while its  *)
(* session holds its place and memory, or it is being stopped.             *)
THEOREM NothingIsKept == SessionSpec => []NothingKept
<1>1. SessionInv => NothingKept
  <2> SUFFICES ASSUME SessionInv, NEW c \in Conn
               PROVE  /\ ~ conn[c].known => ~ conn[c].reserved /\ ~ conn[c].charged
                                             /\ ~ conn[c].account
                      /\ conn[c].linkGen = 1 /\ Running(conn[c]) =>
                           (conn[c].reserved /\ conn[c].charged) \/ Dismissed(conn[c])
    BY DEF NothingKept
  <2>1. Typed(conn[c]) /\ Phase(conn[c]) /\ Stops(conn[c])
    BY DEF SessionInv, Sound, Core
  <2>2. ~ conn[c].known => ~ conn[c].reserved /\ ~ conn[c].charged /\ ~ conn[c].account
    BY <2>1 DEF Typed, Phase
  <2> QED BY <2>1, <2>2 DEF Stops
<1> QED BY <1>1, SessionSound, PTL

(* The reason in session.exit is true, of threads: the worker's own, or    *)
(* the gateway's for ending it, and a failure only if the worker failed.   *)
THEOREM ExitReasonIsTrue == SessionSpec => []ExitIsTruthful
<1>1. SessionInv => ExitIsTruthful
  <2> SUFFICES ASSUME SessionInv, backend = "thread", NEW c \in Conn
               PROVE  CASE conn[c].told = "none" -> TRUE
                        [] conn[c].told = "worker_failure" -> conn[c].broken
                        [] OTHER -> \/ conn[c].told \in {conn[c].ending, conn[c].endReason}
                                    \/ (conn[c].told = "quota" /\ conn[c].broken)
    BY DEF ExitIsTruthful
  <2>1. conn[c].told # "none" => TrueReason(conn[c], conn[c].told)
    BY DEF SessionInv, Sound, Core, Reasons
  <2> QED BY <2>1 DEF TrueReason
<1> QED BY <1>1, SessionSound, PTL
===============================================================================
