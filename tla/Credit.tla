------------------------------- MODULE Credit -------------------------------
(***************************************************************************)
(* What the byte credits of hermit.vws.v2 promise, without the sockets,    *)
(* queues and workers between the two ends: the server may send what the   *)
(* client has granted, the client grants again as it consumes.             *)
(*                                                                         *)
(* Sources: _canSend, _flush and _credit of gateway/connection.js; the     *)
(* renewal rule and credit() of client/ws-adapter.js.                      *)
(***************************************************************************)
EXTENDS CreditLimits

VARIABLES
    sent,      \* bytes and messages the server has sent
    known,     \* what the server knows: the credit, and the last message consumed
    grants,    \* the grants on their way to the server
    consumed,  \* bytes and messages the client has consumed
    last,      \* the client's last grant, and the bytes consumed when it was made
    lost       \* the server refused to read the last grant

creditVars == <<sent, known, grants, consumed, last, lost>>

Grant(bytes, messages) == [credit |-> bytes + Window, messages |-> messages]

CreditInit ==
    /\ sent = [bytes |-> 0, messages |-> 0]
    /\ known = Grant(0, 0)
    /\ grants = {}
    /\ consumed = [bytes |-> 0, messages |-> 0]
    /\ last = [bytes |-> 0, messages |-> 0]
    /\ lost = FALSE

\* _canSend, and what _flush may have sent when it returns: the server flushes
\* when there is output, when a grant arrives and when the socket has drained.
CanSend(n) == /\ sent.bytes + n <= known.credit
              /\ sent.messages - known.messages < MaxOutstanding

Flush ==
    \E k \in 0..MaxOutstanding : \E b \in k..(k * ChunkBytes) :
        /\ sent' = [bytes |-> sent.bytes + b, messages |-> sent.messages + k]
        /\ k > 0 => /\ sent'.bytes <= known'.credit
                    /\ sent'.messages - known'.messages <= MaxOutstanding

\* The client consumes a message of n bytes and decides whether to grant.
Due(bytes, messages) ==
    \/ 4 * (bytes - last.bytes) >= Window
    \/ 2 * (last.bytes + Window - bytes) < Window
    \/ messages - last.messages >= RenewMessages

Consume(n) ==
    LET bytes == consumed.bytes + n
        messages == consumed.messages + 1
    IN  /\ messages <= sent.messages /\ bytes <= sent.bytes
        /\ messages = sent.messages <=> bytes = sent.bytes
        /\ consumed' = [bytes |-> bytes, messages |-> messages]
        /\ IF Due(bytes, messages)
           THEN /\ last' = [bytes |-> bytes, messages |-> messages]
                /\ grants' = grants \cup {Grant(bytes, messages)}
                /\ lost' = FALSE
           ELSE UNCHANGED <<last, grants, lost>>
        /\ UNCHANGED known

\* Grants are cumulative and come in the order in which they were made.
First(g) == g \in grants /\ \A h \in grants : g.messages <= h.messages

Take(g) ==
    /\ First(g)
    /\ known' = g
    /\ grants' = grants \ {g}
    /\ UNCHANGED <<consumed, last, lost>>

\* The gateway is over its message rate: the grant is answered with an error.
Refuse(g) ==
    /\ First(g)
    /\ grants' = grants \ {g}
    /\ lost' = (grants = {g})
    /\ UNCHANGED <<known, consumed, last>>

CreditNext ==
    /\ \/ UNCHANGED <<known, grants, consumed, last, lost>>
       \/ \E n \in 1..ChunkBytes : Consume(n)
       \/ \E g \in grants : Take(g) \/ Refuse(g)
    /\ Flush

CreditSpec == CreditInit /\ [][CreditNext]_creditVars

\* A browser is never sent more than one window beyond what it has consumed:
\* "the server can never overrun the browser" (client/ws-adapter.js:4).
NeverOverrun == sent.bytes <= consumed.bytes + Window

\* When everything sent is consumed and every grant has arrived, the next
\* message fits, however long it is, and however many there were: the two ends
\* are never both waiting. Two things can do that: a grant the gateway refused to
\* read, and limits with which the client does not renew in time (RenewsInTime).
NeverStalls ==
    sent = consumed /\ grants = {} /\ ~lost => CanSend(ChunkBytes)
=============================================================================
