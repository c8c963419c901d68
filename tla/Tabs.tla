--------------------------------- MODULE Tabs ---------------------------------
(***************************************************************************)
(* The terminal tabs of one browser: how each is admitted, reconnects and  *)
(* ends, and what the gateway and the browser keep for it.                 *)
(*                                                                         *)
(* Sources: client/ws-adapter.js (WsTransport), gateway/tickets.js, the    *)
(* ticket request and the upgrade of gateway/server.js, gateway/auth.js,   *)
(* and the end of a connection in gateway/connection.js.                   *)
(*                                                                         *)
(* A tab exchanges its credential for a ticket, which comes as a cookie;   *)
(* the browser has one place for it, whatever the number of its tabs, and  *)
(* sends what is there with the next upgrade. Either side may lose the     *)
(* other at any time, and the gateway may restart. One person uses the     *)
(* browser; others make the gateway refuse what it otherwise would grant.  *)
(***************************************************************************)
EXTENDS Integers, FiniteSets

CONSTANTS Tab,          \* tab ids, each used once
          Tickets,      \* bound: tickets that exist at a time
          MaxAttempts,  \* o.maxAttempts
          MaxConns      \* cfg.maxConnectionsPerPrincipal

VARIABLES tab,      \* the tabs, as the client has them
          jar,      \* the ticket cookie of the browser
          store,    \* the tickets that may be consumed
          served,   \* the gateway's connections: [tab, ticket]
          revoked   \* the credential is revoked

tabVars == <<tab, jar, store, served, revoked>>

NoTicket == 0
Ticket == 1..Tickets

\* What goes on for a tab: a request for a ticket, its answer on the way, an upgrade,
\* its answer on the way, the opening of a session, a session, a timer.
Attempting == {"asks", "connects", "accepted", "opening", "waits"}

Fresh == {k \in Ticket : /\ k \notin store \cup {jar} \cup {tab[t].ticket : t \in Tab}
                         /\ \A c \in served : c.ticket # k}

-----------------------------------------------------------------------------
(* The client.                                                             *)

Set(t, r) == tab' = [tab EXCEPT ![t] = r]

\* The tab's end is told by an exit, or by the failure of open().
Over(r) == [r EXCEPT !.phase = "over", !.listed = FALSE, !.first = FALSE, !.ticket = NoTicket, !.told = TRUE]

\* scheduleReconnect
Waits(r) == [r EXCEPT !.phase = "waits", !.attempt = @ + 1, !.ticket = NoTicket]

\* The flow of open() or of the timer has failed; status is of the ticket request.
Failed(r, status) ==
    IF r.first \/ status = 401 \/ r.attempt >= MaxAttempts THEN Over(r) ELSE Waits(r)

Open(t) ==
    /\ tab[t].phase = "none"
    /\ Set(t, [tab[t] EXCEPT !.phase = "asks", !.first = TRUE])
    /\ UNCHANGED <<jar, store, served, revoked>>

\* Mutant: whoever had a credential once is given tickets.
MayAskOnce(t) == TRUE
\* authenticate()
MayAsk(t) == ~revoked

\* The request /api/ws-ticket; its answer sets the cookie, and connect() follows at
\* once. It may be refused for its rate, for a full store or a restart, or get lost.
Answer(t) ==
    /\ tab[t].phase = "asks"
    /\ \/ /\ MayAsk(t) /\ Fresh # {}
          /\ LET k == CHOOSE k \in Fresh : \A j \in Fresh : k <= j
             IN  store' = store \cup {k} /\ jar' = k
          /\ Set(t, [tab[t] EXCEPT !.phase = "connects"])
       \/ ~MayAsk(t) /\ Set(t, Failed(tab[t], 401)) /\ UNCHANGED <<jar, store>>
       \/ Set(t, Failed(tab[t], 503)) /\ UNCHANGED <<jar, store>>
    /\ UNCHANGED <<served, revoked>>

\* Mutant: a ticket is only marked, not taken out.
ConsumeKept(k) == UNCHANGED store
\* consume(): the ticket is gone, whatever comes of the upgrade.
Consume(k) == store' = store \ {k}

\* The upgrade, with the cookie there is by now. A refusal has no status for the
\* client, and clears no cookie.
Upgrade(t) ==
    /\ tab[t].phase = "connects"
    /\ IF jar \in store THEN Consume(jar) ELSE UNCHANGED store
    /\ \/ /\ jar \in store /\ Cardinality(served) < MaxConns
          /\ served' = served \cup {[tab |-> t, ticket |-> jar]}
          /\ Set(t, [tab[t] EXCEPT !.phase = "accepted", !.ticket = jar])
       \/ Set(t, Failed(tab[t], 0)) /\ UNCHANGED served
    /\ UNCHANGED <<jar, revoked>>

Served(t) == [tab |-> t, ticket |-> tab[t].ticket] \in served

\* Mutant: the attempts are forgotten as soon as the gateway has accepted.
EstablishedAnew(t) == [tab[t] EXCEPT !.phase = "opening", !.attempt = 0]
Established(t) == [tab[t] EXCEPT !.phase = "opening"]

\* The answer of the gateway clears the cookie, whosever it is by now.
TakeAnswer(t) ==
    /\ tab[t].phase = "accepted" /\ Served(t)
    /\ jar' = NoTicket
    /\ Set(t, Established(t))
    /\ UNCHANGED <<store, served, revoked>>

\* hello, session.open, session.opened. open() lists its tab only now.
Opened(t) ==
    /\ tab[t].phase = "opening" /\ Served(t)
    /\ Set(t, [tab[t] EXCEPT !.phase = "open", !.attempt = 0, !.exited = FALSE,
                             !.listed = @ \/ tab[t].first, !.first = FALSE])
    /\ UNCHANGED <<jar, store, served, revoked>>

\* The connection is closed before a session is open: by the gateway, which refuses
\* the session, or by the network.
ClosedBeforeOpen(t) ==
    /\ tab[t].phase \in {"accepted", "opening"}
    /\ Set(t, Failed(tab[t], 0))
    /\ UNCHANGED <<jar, store, served, revoked>>

\* onDisconnected. Without the gateway's word the code is 1006, which is retried.
Disconnected(t) ==
    /\ tab[t].phase = "open"
    /\ \E retryable \in IF Served(t) THEN {TRUE} ELSE BOOLEAN :
          LET r == tab[t]
          IN  Set(t, IF r.exited \/ r.closing \/ ~retryable \/ r.attempt >= MaxAttempts
                     THEN Over(r) ELSE Waits(r))
    /\ UNCHANGED <<jar, store, served, revoked>>

TimerFires(t) ==
    /\ tab[t].phase = "waits"
    /\ Set(t, [tab[t] EXCEPT !.phase = IF tab[t].closing THEN "over" ELSE "asks"])
    /\ UNCHANGED <<jar, store, served, revoked>>

\* close(): the timer is cleared, an open session is asked to end. What else goes on
\* for the tab goes on, and its tab is told over.
Close(t) ==
    /\ tab[t].listed /\ ~tab[t].closing
    /\ LET r == [tab[t] EXCEPT !.closing = TRUE]
       IN  Set(t, CASE r.phase = "open"  -> [r EXCEPT !.asked = TRUE]
                    [] r.phase = "waits" -> Over(r)
                    [] OTHER -> [r EXCEPT !.listed = FALSE, !.told = TRUE])
    /\ UNCHANGED <<jar, store, served, revoked>>

-----------------------------------------------------------------------------
(* The gateway.                                                            *)

\* The connection c ends: the worker, the idle time, an error, a heartbeat that is
\* not answered. If the client is there, it is told an exit first, or nothing.
Ends(c, told) ==
    /\ served' = served \ {c}
    /\ IF tab[c.tab].phase = "open" /\ tab[c.tab].ticket = c.ticket
       THEN Set(c.tab, [tab[c.tab] EXCEPT !.exited = told]) ELSE UNCHANGED tab
    /\ UNCHANGED <<jar, store, revoked>>

\* session.close
SessionClose(t) == tab[t].phase = "open" /\ tab[t].asked /\ Served(t)
                  /\ Ends([tab |-> t, ticket |-> tab[t].ticket], TRUE)

\* Nobody is there any more: the ping is not answered.
HalfOpen(c) == tab[c.tab].ticket # c.ticket \/ tab[c.tab].phase \notin {"accepted", "opening", "open"}
EndHalfOpen == \E c \in served : HalfOpen(c) /\ Ends(c, FALSE)

\* stillValid(), which each connection asks from time to time.
EndRevoked == \E c \in served : revoked /\ Ends(c, TRUE)

Revoke == ~revoked /\ revoked' = TRUE /\ UNCHANGED <<tab, jar, store, served>>

\* The time of a ticket is over.
Expire == \E k \in store \ {jar} : store' = store \ {k} /\ UNCHANGED <<tab, jar, served, revoked>>

Restart ==
    /\ store' = {} /\ served' = {}
    /\ UNCHANGED <<tab, jar, revoked>>

-----------------------------------------------------------------------------
TabsInit ==
    /\ tab = [t \in Tab |-> [phase |-> "none", first |-> FALSE, listed |-> FALSE, closing |-> FALSE,
                             asked |-> FALSE, exited |-> FALSE, attempt |-> 0,
                             ticket |-> NoTicket, told |-> FALSE]]
    /\ jar = NoTicket /\ store = {} /\ served = {} /\ revoked = FALSE

\* What goes on for a tab, without anybody's doing.
Goes(t) == \/ Answer(t) \/ Upgrade(t) \/ TakeAnswer(t) \/ Opened(t)
           \/ ClosedBeforeOpen(t) \/ TimerFires(t) \/ SessionClose(t)
           \/ ~Served(t) /\ Disconnected(t)

TabsNext ==
    \/ \E t \in Tab : Open(t) \/ Goes(t) \/ Disconnected(t) \/ Close(t)
    \/ \E c \in served, told \in BOOLEAN : Ends(c, told)
    \/ EndHalfOpen \/ EndRevoked \/ Revoke \/ Expire \/ Restart

TabsSpec == TabsInit /\ [][TabsNext]_tabVars

\* Requests are answered, timers fire, the gateway looks after its connections.
TabsFairness == /\ \A t \in Tab : WF_tabVars(Goes(t))
                /\ WF_tabVars(EndHalfOpen \/ EndRevoked)

TabsLive == TabsSpec /\ TabsFairness
-----------------------------------------------------------------------------
(* Properties.                                                             *)

\* A ticket is "consumed atomically on first presentation" (tickets.js:9): tabs that
\* find the same cookie are not both admitted with it, and one that was admitted
\* leaves nothing behind that admits another.
AdmittedOnce ==
    /\ \A c, d \in served : c.ticket = d.ticket => c = d
    /\ \A c \in served : c.ticket \notin store

\* A tab never hangs: whatever tickets, cookies and connections are lost, and though
\* its tabs take the cookie from each other, it comes to a session or is told its
\* end; and one that is closed is told.
Settles ==
    \A t \in Tab :
        /\ tab[t].phase \in Attempting ~> tab[t].phase \in {"open", "over"}
        /\ tab[t].closing ~> tab[t].told

\* Nobody stays, or comes back, on a credential that has been revoked: the tickets
\* it was given run out (connection.js:56).
RevokedIsOut == <>[](revoked => served = {})

\* "explicit close cancels retries" (ws-adapter.js:199): a tab that was closed has no
\* session any more.
ClosedIsOver == \A t \in Tab : tab[t].phase = "open" => tab[t].listed
=============================================================================
