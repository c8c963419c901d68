--------------------------- MODULE Terminal_proofs --------------------------
(***************************************************************************)
(* Theorems about the terminal: Output, Shell and Tabs, which have no      *)
(* variable in common.                                                     *)
(*                                                                         *)
(* Tabs.  A ticket that is used is in no store, and none that is made is   *)
(* in use: so none admits twice.                                           *)
(*                                                                         *)
(* Shell.  ExitsInv says where the message of the exit is: not sent yet,   *)
(* with its timer, the last on the way to the gateway, or come. KeysInv    *)
(* says where each key is: fed, waiting behind all that was fed, or        *)
(* dropped; and that each message on its way goes on where the one before  *)
(* it ends, up to the last key typed if the gateway has refused none.      *)
(*                                                                         *)
(* Output.  WindowInv says that the gate's window counts each byte in one  *)
(* place: on the way to the gateway, in its queue, or in a report of what  *)
(* was consumed.  Every step moves a first part of one queue to the end of *)
(* the next, so the sums of Sums are split and joined.  OrderInv puts all  *)
(* queues together to one pipeline, from socket to gate: each chunk        *)
(* continues the last one, or follows a marker.  CreditsInv says what the  *)
(* two ends know of the messages: the outstanding ones are numbered        *)
(* without a gap, the last of them are on the wire, each noted sum is what *)
(* the client will have consumed, and each grant on its way has the sum of *)
(* its message.  With it each step is one of the protocol in Credit.       *)
(***************************************************************************)
EXTENDS Output, Shell, Tabs, Sums

-----------------------------------------------------------------------------
(* Tabs: a ticket admits once.                                             *)

(* The ticket that is made is fresh. *)
LEMMA FreshTicket ==
  ASSUME Fresh # {}, NEW k, k = CHOOSE i \in Fresh : \A j \in Fresh : i <= j
  PROVE  k \in Fresh
<1>1. Fresh \subseteq Nat
  <2>1. CASE Tickets \in Int
    BY <2>1 DEF Fresh, Ticket
  <2> QED BY <2>1 DEF Fresh, Ticket
<1>2. \E x \in Fresh : \A j \in Fresh : x <= j
  BY <1>1, LeastOne
<1> QED BY <1>2

(* A ticket admits one connection, for any number of tabs, tickets and     *)
(* connections: it is taken out of the store before it is used, and none   *)
(* is made that is in use (consume(), the upgrade).                        *)
THEOREM AdmittedOnceOnly == TabsSpec => []AdmittedOnce
<1>1. TabsInit => AdmittedOnce
  BY DEF TabsInit, AdmittedOnce
<1>2. AdmittedOnce /\ [TabsNext]_tabVars => AdmittedOnce'
  <2> SUFFICES ASSUME AdmittedOnce, [TabsNext]_tabVars PROVE AdmittedOnce'
    OBVIOUS
  <2>1. ASSUME UNCHANGED <<store, served>> PROVE AdmittedOnce'
    BY <2>1 DEF AdmittedOnce
  <2>2. ASSUME NEW t \in Tab, Answer(t) PROVE AdmittedOnce'
    <3>1. CASE UNCHANGED <<jar, store>>
      BY <2>1, <2>2, <3>1 DEF Answer
    <3>2. CASE Fresh # {} /\ store' = store \cup {CHOOSE i \in Fresh : \A j \in Fresh : i <= j}
      <4>1. PICK k : k = CHOOSE i \in Fresh : \A j \in Fresh : i <= j
        OBVIOUS
      <4>2. k \in Fresh /\ store' = store \cup {k} /\ UNCHANGED served
        BY <2>2, <3>2, <4>1, FreshTicket DEF Answer
      <4> QED BY <4>2 DEF AdmittedOnce, Fresh
    <3> QED BY <2>2, <3>1, <3>2 DEF Answer
  <2>3. ASSUME NEW t \in Tab, Upgrade(t) PROVE AdmittedOnce'
    <3>1. CASE jar \in store /\ store' = store \ {jar}
      BY <2>3, <3>1 DEF AdmittedOnce, Upgrade
    <3>2. CASE jar \notin store /\ UNCHANGED <<store, served>>
      BY <2>1, <3>2
    <3> QED BY <2>3, <3>1, <3>2 DEF Upgrade, Consume
  <2>4. ASSUME NEW c, NEW told, Ends(c, told) PROVE AdmittedOnce'
    BY <2>4 DEF Ends, AdmittedOnce
  <2>5. CASE \E t \in Tab : Open(t) \/ Goes(t) \/ Disconnected(t) \/ Close(t)
    BY <2>1, <2>2, <2>3, <2>4, <2>5
       DEF Open, Goes, TakeAnswer, Opened, ClosedBeforeOpen, TimerFires, SessionClose, Disconnected, Close
  <2>6. CASE EndHalfOpen \/ EndRevoked \/ \E c \in served, told \in BOOLEAN : Ends(c, told)
    BY <2>4, <2>6 DEF EndHalfOpen, EndRevoked
  <2>7. CASE Revoke \/ Expire \/ Restart \/ UNCHANGED tabVars
    BY <2>1, <2>7 DEF Revoke, Expire, Restart, AdmittedOnce, tabVars
  <2> QED BY <2>5, <2>6, <2>7 DEF TabsNext
<1> QED BY <1>1, <1>2, PTL DEF TabsSpec

-----------------------------------------------------------------------------
(* Shell: a session exits once.                                            *)

(* The fields of the session, of the gateway's connection to it, and where *)
(* an exit can be.                                                         *)
ShFields == {"pc", "reader", "typeahead", "plan", "aborted", "alive", "exited", "exitCode",
             "exit", "gone", "inputSeq", "arrived", "fed", "told"}
GwFields == {"backend", "inSeq", "executedSeq", "refused", "closing", "exit"}

(* The message of an exit; a logout is the end of the shell.               *)
Exits(x, s) ==
  x.t = "exit" /\ (x.reason = "logout" => x.code = s.exitCode /\ s.pc = "over")
NoExit(q) == \A i \in DOMAIN q : q[i].t # "exit"

(* Where the exit is: it has not happened, its timer runs, it is on its    *)
(* way to the gateway, behind everything else, or it has come.             *)
WhereExitIs(given, way, s) ==
  \/ s.exited = FALSE /\ given = <<>> /\ NoExit(way) /\ s.exit = <<>>
  \/ s.exited = TRUE /\ given = <<>> /\ NoExit(way) /\ \E x : s.exit = <<x>> /\ Exits(x, s)
  \/ /\ s.exited = TRUE /\ given = <<>> /\ s.exit = <<>>
     /\ way # <<>> /\ Exits(way[Len(way)], s) /\ \A i \in 1..(Len(way) - 1) : way[i].t # "exit"
  \/ s.exited = TRUE /\ way = <<>> /\ s.exit = <<>> /\ \E x : given = <<x>> /\ Exits(x, s)

ExitsInv ==
  /\ DOMAIN sh = ShFields /\ DOMAIN gw = GwFields
  /\ \E S : up \in Seq(S)
  /\ WhereExitIs(gw.exit, up, sh)

(* The session's exit is as it was. *)
Stays(s, t) ==
  DOMAIN t = DOMAIN s /\ t.exited = s.exited /\ t.exit = s.exit /\ t.exitCode = s.exitCode

(* The shell is alive as it was, too, and no input has arrived.            *)
Rests(s, t) == Stays(s, t) /\ t.alive = s.alive /\ t.arrived = s.arrived

(* The session exits. *)
Leaves(s, t) ==
  /\ DOMAIN t = DOMAIN s
  /\ s.exited = FALSE /\ t.exited = TRUE
  /\ \E x : /\ t.exit = <<x>> /\ x.t = "exit"
            /\ x.reason = "logout" => x.code = t.exitCode /\ t.pc = "over"

(* What the kernel does with keys leaves the exit alone.                   *)
LEMMA AheadStays == \A s, keys : DOMAIN s = ShFields => Rests(s, Ahead(s, keys)) /\ Ahead(s, keys).pc = s.pc
BY DEF Ahead, Rests, Stays, ShFields

(* Keys for the reader of a line leave it alone. *)
LEMMA FeedStays == \A s, keys : DOMAIN s = ShFields => Rests(s, Feed(s, keys)) /\ Feed(s, keys).pc = s.pc
<1> SUFFICES ASSUME NEW s, NEW keys, DOMAIN s = ShFields
             PROVE  Rests(s, Feed(s, keys)) /\ Feed(s, keys).pc = s.pc
  OBVIOUS
<1>1. PICK f : f = Fed(s.reader, keys)
  OBVIOUS
<1>2. PICK d : d = [s EXCEPT !.reader = f.r, !.fed = s.fed \cup Ids(SubSeq(keys, 1, f.n))]
  OBVIOUS
<1>3. Rests(s, d) /\ d.pc = s.pc /\ DOMAIN d = ShFields
  BY <1>2 DEF Rests, Stays, ShFields
<1>4. Feed(s, keys) = IF f.n = Len(keys) THEN d ELSE Ahead(d, SubSeq(keys, f.n + 1, Len(keys)))
  BY <1>1, <1>2 DEF Feed
<1>5. PICK a : a = Ahead(d, SubSeq(keys, f.n + 1, Len(keys)))
  OBVIOUS
<1>6. Rests(d, a) /\ a.pc = d.pc
  BY <1>3, <1>5, AheadStays
<1> QED BY <1>3, <1>4, <1>5, <1>6 DEF Rests, Stays

(* So does a reader that opens, with the keys that came before it. *)
LEMMA OpenStays ==
  \A s, pc : DOMAIN s = ShFields => Rests(s, OpenReader(s, pc)) /\ OpenReader(s, pc).pc = pc
<1> SUFFICES ASSUME NEW s, NEW pc, DOMAIN s = ShFields
             PROVE  Rests(s, OpenReader(s, pc)) /\ OpenReader(s, pc).pc = pc
  OBVIOUS
<1>1. PICK d : d = [s EXCEPT !.pc = pc, !.reader = [buf |-> 0, value |-> "none"], !.typeahead = <<>>]
  OBVIOUS
<1>2. Rests(s, d) /\ d.pc = pc /\ DOMAIN d = ShFields
  BY <1>1 DEF Rests, Stays, ShFields
<1>3. PICK a : a = Feed(d, s.typeahead)
  OBVIOUS
<1>4. Rests(d, a) /\ a.pc = d.pc
  BY <1>2, <1>3, FeedStays
<1>5. OpenReader(s, pc) = a
  BY <1>1, <1>3 DEF OpenReader
<1> QED BY <1>2, <1>4, <1>5 DEF Rests, Stays

(* An abort leaves it alone. *)
LEMMA AbortedStays ==
  \A s : DOMAIN s = ShFields => Rests(s, Aborted(s)) /\ (s.pc = "over" => Aborted(s).pc = "over")
BY DEF Aborted, Rests, Stays, ShFields

(* So do keys, wherever the kernel puts them. *)
LEMMA WrittenStays ==
  ASSUME NEW s, NEW keys, DOMAIN s = ShFields, NEW t, t = Written(s, keys)
  PROVE  Rests(s, t) /\ (s.pc = "over" => t.pc = "over")
<1>1. PICK d : d = [s EXCEPT !.told = s.told \cup Ids(s.typeahead) \cup Ids(keys), !.typeahead = <<>>]
  OBVIOUS
<1>2. Rests(s, d) /\ d.pc = s.pc /\ DOMAIN d = ShFields
  BY <1>1 DEF Rests, Stays, ShFields
<1>3. PICK a : a = Aborted(d)
  OBVIOUS
<1>4. Rests(d, a) /\ (d.pc = "over" => a.pc = "over")
  BY <1>2, <1>3, AbortedStays
<1>5. t \in {s, Feed(s, keys), Ahead(s, keys), a}
  BY <1>1, <1>3 DEF Written
<1>6. Rests(s, a) /\ (s.pc = "over" => a.pc = "over") /\ Rests(s, s)
  BY <1>2, <1>4 DEF Rests, Stays
<1> QED BY <1>5, <1>6, FeedStays, AheadStays

(* So does a signal. *)
LEMMA SignalledStays ==
  ASSUME NEW s, DOMAIN s = ShFields, NEW t, t = Signalled(s)
  PROVE  Rests(s, t) /\ (s.pc = "over" => t.pc = "over")
<1>1. PICK c : c = [s EXCEPT !.told = s.told \cup Ids(s.typeahead), !.typeahead = <<>>]
  OBVIOUS
<1>2. Rests(s, c) /\ c.pc = s.pc /\ DOMAIN c = ShFields /\ Rests(s, s)
  BY <1>1 DEF Rests, Stays, ShFields
<1>3. PICK a : a = Aborted(c)
  OBVIOUS
<1>4. Rests(c, a) /\ (c.pc = "over" => a.pc = "over")
  BY <1>2, <1>3, AbortedStays
<1>5. PICK r : r = [c EXCEPT !.reader = [buf |-> 0, value |-> "aborted"]]
  OBVIOUS
<1>6. Rests(c, r) /\ r.pc = c.pc
  BY <1>2, <1>5 DEF Rests, Stays, ShFields
<1>7. t \in {s, a, r, c}
  BY <1>1, <1>3, <1>5 DEF Signalled
<1> QED BY <1>2, <1>4, <1>6, <1>7 DEF Rests, Stays

(* _finishSession: a session that has not exited exits.                    *)
Quits(s, t, code, reason) ==
  IF s.exited THEN t = s
  ELSE /\ DOMAIN t = ShFields /\ t.exited = TRUE /\ t.exitCode = s.exitCode
       /\ t.exit = <<[t |-> "exit", code |-> code, reason |-> reason]>>

(* That is what Finished does. *)
LEMMA FinishedQuits ==
  \A s, code, reason :
    DOMAIN s = ShFields /\ s.exited \in BOOLEAN => Quits(s, Finished(s, code, reason), code, reason)
<1> SUFFICES ASSUME NEW s, NEW code, NEW reason, DOMAIN s = ShFields, s.exited \in BOOLEAN,
                    NEW t, t = Finished(s, code, reason)
             PROVE  Quits(s, t, code, reason)
  OBVIOUS
<1>1. PICK a : a = Aborted(s)
  OBVIOUS
<1>2. PICK c : c = IF Busy(s) THEN a ELSE s
  OBVIOUS
<1>3. DOMAIN c = ShFields /\ c.exitCode = s.exitCode
  BY <1>1, <1>2, AbortedStays DEF Rests, Stays
<1>4. ASSUME s.exited = FALSE
      PROVE  t = [c EXCEPT !.exited = TRUE, !.alive = FALSE,
                    !.reader.value = IF Pending(s) /\ s.reader.value = "none" THEN "null" ELSE s.reader.value,
                    !.exit = <<[t |-> "exit", code |-> code, reason |-> reason]>>]
  BY <1>1, <1>2, <1>4 DEF Finished
<1>5. ASSUME s.exited = FALSE
      PROVE  /\ DOMAIN t = ShFields /\ t.exited = TRUE /\ t.exitCode = c.exitCode
             /\ t.exit = <<[t |-> "exit", code |-> code, reason |-> reason]>>
  BY <1>3, <1>4, <1>5 DEF ShFields
<1> QED BY <1>3, <1>5 DEF Finished, Quits

(* The end of _repl, after a logout.                                       *)
LEMMA LogoutLeaves ==
  ASSUME NEW s, DOMAIN s = ShFields, s.exited \in BOOLEAN,
         NEW t, t = [Finished(s, s.exitCode, "logout") EXCEPT !.pc = "over"]
  PROVE  (Stays(s, t) /\ t.pc = "over") \/ Leaves(s, t)
<1>0. PICK code, reason : code = s.exitCode /\ reason = "logout"
  OBVIOUS
<1>1. PICK f : f = Finished(s, code, reason)
  OBVIOUS
<1>f. t = [f EXCEPT !.pc = "over"]
  BY <1>0, <1>1
<1>l. Quits(s, f, code, reason)
  BY ONLY DOMAIN s = ShFields, s.exited \in BOOLEAN, <1>1, FinishedQuits
<1>2. CASE s.exited = TRUE
  <2>1. f = s
    BY ONLY <1>2, <1>l DEF Quits
  <2> QED BY ONLY <1>f, <2>1, DOMAIN s = ShFields DEF Stays, ShFields
<1>3. CASE s.exited = FALSE
  <2>1. /\ DOMAIN f = ShFields /\ f.exited = TRUE /\ f.exitCode = s.exitCode
        /\ f.exit = <<[t |-> "exit", code |-> code, reason |-> reason]>>
    BY ONLY <1>3, <1>l DEF Quits
  <2>2. PICK x : x = [t |-> "exit", code |-> code, reason |-> reason]
    OBVIOUS
  <2>4. DOMAIN t = ShFields /\ t.exited = TRUE /\ t.exitCode = s.exitCode /\ t.exit = <<x>> /\ t.pc = "over"
    BY ONLY <1>f, <2>1, <2>2 DEF ShFields
  <2>5. x.t = "exit" /\ x.code = t.exitCode
    BY ONLY <1>0, <2>2, <2>4
  <2> QED BY ONLY <1>3, <2>4, <2>5, DOMAIN s = ShFields DEF Leaves
<1> QED BY <1>2, <1>3

(* The loop of the shell goes on, or it ends and the session exits. *)
LEMMA LoopLeaves ==
  ASSUME NEW s, DOMAIN s = ShFields, s.exited \in BOOLEAN, NEW t, t = Loop(s)
  PROVE  (Stays(s, t) /\ (s.pc = "over" => t.pc \in {"over", "prompt"})) \/ Leaves(s, t)
BY LogoutLeaves, OpenStays DEF Loop, Rests

(* The shell has exited, or not, and has said something more, or not.      *)
LEMMA StepExits ==
  ASSUME NEW S, NEW given, NEW way \in Seq(S), NEW more, NEW s, NEW t,
         WhereExitIs(given, way, s),
         more = <<>> \/ (s.exited = FALSE /\ \E r : more = <<r>> /\ r.t = "executed"),
         \/ Stays(s, t) /\ (s.pc = "over" => t.pc = "over")
         \/ Leaves(s, t)
         \/ s.pc = "runs" /\ t.exited = s.exited /\ t.exit = s.exit
  PROVE  WhereExitIs(given, way \o more, t) /\ \E T : way \o more \in Seq(T)
<1>1. PICK d : d = way \o more
  OBVIOUS
<1>2. CASE more = <<>>
  <2>1. d = way
    BY <1>1, <1>2
  <2>2. WhereExitIs(given, way, t)
    BY DEF WhereExitIs, Stays, Leaves, Exits
  <2> QED BY <1>1, <2>1, <2>2
<1>3. CASE s.exited = FALSE /\ \E r : more = <<r>> /\ r.t = "executed"
  <2>1. PICK r : more = <<r>> /\ r.t = "executed"
    BY <1>3
  <2>2. PICK T : T = S \cup {r}
    OBVIOUS
  <2>3. way \in Seq(T) /\ more \in Seq(T) /\ d \in Seq(T)
    BY <1>1, <2>1, <2>2
  <2>4. d = Append(way, r)
    BY <1>1, <2>1
  <2>5. NoExit(way)
    BY <1>3 DEF WhereExitIs
  <2>6. NoExit(d)
    BY <2>1, <2>4, <2>5 DEF NoExit
  <2>7. given = <<>> /\ s.exit = <<>>
    BY <1>3 DEF WhereExitIs
  <2>8. ASSUME Leaves(s, t) PROVE WhereExitIs(given, d, t)
    <3>1. t.exited = TRUE /\ \E x : t.exit = <<x>> /\ Exits(x, t)
      BY <2>8 DEF Leaves, Exits
    <3> QED BY <2>6, <2>7, <3>1 DEF WhereExitIs
  <2>9. ASSUME t.exited = s.exited, t.exit = s.exit PROVE WhereExitIs(given, d, t)
    BY <1>3, <2>6, <2>7, <2>9 DEF WhereExitIs
  <2>10. WhereExitIs(given, d, t)
    BY <2>8, <2>9 DEF Stays
  <2> QED BY <1>1, <2>3, <2>10
<1> QED BY <1>2, <1>3

(* A step of the shell keeps it: it says more, and exits at most once.     *)
LEMMA ShellStep ==
  ASSUME ExitsInv, NEW more,
         sh.exited \in BOOLEAN => (more = <<>> \/ (sh.exited = FALSE /\ \E r : more = <<r>> /\ r.t = "executed")),
         up' = up \o more, gw' = gw, DOMAIN sh' = ShFields,
         \/ Stays(sh, sh') /\ (sh.pc = "over" => sh'.pc = "over")
         \/ Leaves(sh, sh')
         \/ sh.pc = "runs" /\ sh'.exited = sh.exited /\ sh'.exit = sh.exit
  PROVE  ExitsInv'
<1>1. PICK S : up \in Seq(S)
  BY DEF ExitsInv
<1>2. PICK w, v, s, t, g : w = up /\ v = up' /\ s = sh /\ t = sh' /\ g = gw.exit
  OBVIOUS
<1>3. WhereExitIs(g, w, s) /\ s.exited \in BOOLEAN
  BY <1>2 DEF ExitsInv, WhereExitIs
<1>4. \/ Stays(s, t) /\ (s.pc = "over" => t.pc = "over")
      \/ Leaves(s, t)
      \/ s.pc = "runs" /\ t.exited = s.exited /\ t.exit = s.exit
  BY <1>2
<1>5. WhereExitIs(g, w \o more, t) /\ \E T : w \o more \in Seq(T)
  BY <1>1, <1>2, <1>3, <1>4, StepExits
<1>6. WhereExitIs(gw'.exit, up', sh') /\ \E T : up' \in Seq(T)
  BY <1>2, <1>5
<1> QED BY <1>6 DEF ExitsInv, GwFields

(* Whether the session has exited is yes or no. *)
LEMMA ExitedIsBoolean == ExitsInv => sh.exited \in BOOLEAN
BY DEF ExitsInv, WhereExitIs

(* The shell moves and says nothing.                                       *)
LEMMA WayOn ==
  ASSUME ExitsInv, up' = up, gw' = gw, DOMAIN sh' = ShFields,
         \/ Stays(sh, sh') /\ (sh.pc = "over" => sh'.pc = "over")
         \/ Leaves(sh, sh')
         \/ sh.pc = "runs" /\ sh'.exited = sh.exited /\ sh'.exit = sh.exit
  PROVE  ExitsInv'
<1>1. PICK more : more = <<>>
  OBVIOUS
<1>2. up' = up \o more
  BY <1>1 DEF ExitsInv
<1> QED BY <1>1, <1>2, ShellStep

(* The line is complete, and the loop goes on.                             *)
LEMMA CompletedExits ==
  ASSUME ExitsInv, sh' = Loop(sh), up' = up \o Completed(sh), gw' = gw, sh.pc # "over"
  PROVE  ExitsInv'
<1>0. DOMAIN sh = ShFields /\ sh.exited \in BOOLEAN
  BY ExitedIsBoolean DEF ExitsInv
<1>1. (Stays(sh, sh') /\ (sh.pc = "over" => sh'.pc = "over")) \/ Leaves(sh, sh')
  BY <1>0, LoopLeaves
<1>2. PICK more : more = Completed(sh)
  OBVIOUS
<1>3. DOMAIN sh' = ShFields
  BY <1>0, <1>1 DEF Stays, Leaves
<1>4. more = <<>> \/ (sh.exited = FALSE /\ \E r : more = <<r>> /\ r.t = "executed")
  BY <1>0, <1>2 DEF Completed
<1>5. up' = up \o more
  BY <1>2
<1> QED BY ONLY ExitsInv, gw' = gw, <1>1, <1>3, <1>4, <1>5, ShellStep

(* The shell goes on with the line, or has completed it.                   *)
LEMMA NextSegmentExits ==
  ASSUME ExitsInv, NEW plan, NEW code, NextSegment(sh, plan, code), gw' = gw, sh.pc # "over"
  PROVE  ExitsInv'
<1>0. DOMAIN sh = ShFields /\ sh.exited \in BOOLEAN
  BY ExitedIsBoolean DEF ExitsInv
<1>1. CASE sh' = Loop(sh) /\ up' = up \o Completed(sh)
  BY <1>1, CompletedExits
<1>2. CASE sh' = [sh EXCEPT !.pc = "boundary", !.plan = Rest(plan, code)] /\ up' = up
  <2>1. Stays(sh, sh') /\ DOMAIN sh' = ShFields
    BY <1>0, <1>2 DEF Stays, ShFields
  <2> QED BY <1>0, <1>2, <2>1, WayOn
<1> QED BY <1>1, <1>2 DEF NextSegment

(* A line is read: the loop goes on, or logs out. *)
LEMMA LineReadExits == ExitsInv /\ LineRead => ExitsInv'
<1> SUFFICES ASSUME ExitsInv, LineRead PROVE ExitsInv'
  OBVIOUS
<1>0. DOMAIN sh = ShFields /\ sh.exited \in BOOLEAN /\ sh.pc = "prompt" /\ gw' = gw
  BY ExitedIsBoolean DEF ExitsInv, LineRead
<1>1. ASSUME sh' = [Finished(sh, sh.exitCode, "logout") EXCEPT !.pc = "over"], up' = up PROVE ExitsInv'
  <2>1. (Stays(sh, sh') /\ sh'.pc = "over") \/ Leaves(sh, sh')
    BY <1>0, <1>1, LogoutLeaves
  <2> QED BY <1>0, <1>1, <2>1, WayOn DEF Stays, Leaves
<1>2. (Stays(sh, Loop(sh)) /\ (sh.pc = "over" => Loop(sh).pc = "over")) \/ Leaves(sh, Loop(sh))
  BY <1>0, LoopLeaves
<1>3. ASSUME sh' = Loop(sh), up' = up PROVE ExitsInv'
  BY <1>0, <1>2, <1>3, WayOn DEF Stays, Leaves
<1>4. ASSUME NEW plan, NextSegment(sh, plan, 0) PROVE ExitsInv'
  <2>1. PICK code : code = 0
    OBVIOUS
  <2> QED BY <1>0, <1>4, <2>1, NextSegmentExits
<1>5. ASSUME sh' = Loop(sh), up' = up \o Completed(sh) PROVE ExitsInv'
  <2>1. PICK plan, code : plan = <<>> /\ code = 0
    OBVIOUS
  <2> QED BY <1>0, <1>2, <1>5, CompletedExits
<1> QED BY <1>1, <1>3, <1>4, <1>5 DEF LineRead

(* A pipeline runs, reads, ends or asks to exit. *)
LEMMA RunExits ==
  ExitsInv /\ (Boundary \/ CommandReads \/ CommandReadLine \/ CommandDone \/ CommandExits \/ PipelineEnds) => ExitsInv'
<1> SUFFICES ASSUME ExitsInv PROVE Boundary \/ CommandReads \/ CommandReadLine \/ CommandDone \/ CommandExits \/ PipelineEnds => ExitsInv'
  OBVIOUS
<1>0. DOMAIN sh = ShFields /\ sh.exited \in BOOLEAN
  BY ExitedIsBoolean DEF ExitsInv
<1>1. ASSUME Boundary PROVE ExitsInv'
  <2>0. sh.pc = "boundary" /\ gw' = gw
    BY <1>1 DEF Boundary
  <2>1. ASSUME sh' = [sh EXCEPT !.pc = "runs", !.aborted = FALSE], up' = up PROVE ExitsInv'
    <3>1. Stays(sh, sh') /\ DOMAIN sh' = ShFields
      BY <1>0, <2>1 DEF Stays, ShFields
    <3> QED BY <2>0, <2>1, <3>1, WayOn
  <2>2. ASSUME NEW plan, NEW code, plan = <<>>, code = 0, NextSegment(sh, plan, code) PROVE ExitsInv'
    BY <2>0, <2>2, NextSegmentExits
  <2> QED BY <1>1, <2>1, <2>2 DEF Boundary
<1>2. ASSUME NEW pc, pc = "reads", sh' = OpenReader(sh, pc), up' = up, gw' = gw, sh.pc # "over" PROVE ExitsInv'
  <2>1. Stays(sh, sh')
    BY <1>0, <1>2, OpenStays DEF Rests
  <2> QED BY <1>0, <1>2, <2>1, WayOn DEF Stays
<1>3. CommandReads => ExitsInv'
  BY <1>2 DEF CommandReads, Worker
<1>4. ASSUME sh' = [sh EXCEPT !.pc = "ends"], up' = up, gw' = gw, sh.pc # "over" PROVE ExitsInv'
  <2>1. Stays(sh, sh') /\ DOMAIN sh' = ShFields
    BY <1>0, <1>4 DEF Stays, ShFields
  <2> QED BY <1>4, <2>1, WayOn
<1>5. CommandDone \/ CommandReadLine => ExitsInv'
  BY <1>2, <1>4 DEF CommandDone, CommandReadLine, Worker
<1>6. ASSUME CommandExits PROVE ExitsInv'
  <2>1. DOMAIN sh' = ShFields /\ sh'.exited = sh.exited /\ sh'.exit = sh.exit /\ sh.pc = "runs"
    BY <1>0, <1>6 DEF CommandExits, Worker, ShFields
  <2> QED BY <1>6, <2>1, WayOn DEF CommandExits, Worker
<1>7. ASSUME PipelineEnds PROVE ExitsInv'
  <2>1. ASSUME NEW plan, NEW code, NextSegment(sh, plan, code) PROVE ExitsInv'
    BY <1>7, <2>1, NextSegmentExits DEF PipelineEnds
  <2>2. ASSUME NEW code, NextSegment(sh, Tail(sh.plan), code) PROVE ExitsInv'
    <3>1. PICK plan : plan = Tail(sh.plan)
      OBVIOUS
    <3> QED BY <2>1, <2>2, <3>1
  <2>3. ASSUME NextSegment(sh, <<>>, 0) PROVE ExitsInv'
    <3>1. PICK plan, code : plan = <<>> /\ code = 0
      OBVIOUS
    <3> QED BY <2>1, <2>3, <3>1
  <2> QED BY <1>7, <2>2, <2>3 DEF PipelineEnds
<1> QED BY <1>1, <1>3, <1>5, <1>6, <1>7

(* The records of the gateway.                                             *)
LEMMA HandleExits == ExitsInv /\ (HandleInput \/ HandleSignal \/ HandleClose) => ExitsInv'
<1> SUFFICES ASSUME ExitsInv, HandleInput \/ HandleSignal \/ HandleClose PROVE ExitsInv'
  OBVIOUS
<1>0. DOMAIN sh = ShFields /\ sh.exited \in BOOLEAN /\ gw' = gw /\ up' = up
  BY ExitedIsBoolean DEF ExitsInv, HandleInput, HandleSignal, HandleClose
<1>1. ASSUME HandleInput PROVE ExitsInv'
  <2>1. PICK keys, seq, last : keys = Head(pipe).keys /\ seq = Head(pipe).seq /\ last = keys[Len(keys)].id
    OBVIOUS
  <2>2. PICK w : w = Written(sh, keys)
    OBVIOUS
  <2>3. Stays(sh, w) /\ (sh.pc = "over" => w.pc = "over")
    BY <1>0, <2>2, WrittenStays DEF Rests
  <2>4. sh' = [w EXCEPT !.inputSeq = seq, !.arrived = last]
    BY <1>1, <2>1, <2>2 DEF HandleInput
  <2>5. Stays(sh, sh') /\ sh'.pc = w.pc /\ DOMAIN sh' = ShFields
    BY <1>0, <2>3, <2>4 DEF Stays, ShFields
  <2> QED BY <1>0, <2>3, <2>5, WayOn
<1>2. ASSUME HandleSignal PROVE ExitsInv'
  <2>1. Stays(sh, sh') /\ (sh.pc = "over" => sh'.pc = "over")
    BY <1>0, <1>2, SignalledStays DEF HandleSignal, Rests
  <2> QED BY <1>0, <2>1, WayOn DEF Stays
<1>3. ASSUME HandleClose PROVE ExitsInv'
  <2>1. PICK code, reason : code = 0 /\ reason = "closed"
    OBVIOUS
  <2>2. Quits(sh, sh', code, reason)
    BY <1>0, <1>3, <2>1, FinishedQuits DEF HandleClose
  <2>3. CASE sh.exited = TRUE
    <3>1. sh' = sh
      BY <2>2, <2>3 DEF Quits
    <3> QED BY <1>0, <3>1, WayOn DEF Stays
  <2>4. CASE sh.exited = FALSE
    <3>1. PICK x : x = [t |-> "exit", code |-> code, reason |-> reason]
      OBVIOUS
    <3>2. DOMAIN sh' = ShFields /\ sh'.exited = TRUE /\ sh'.exit = <<x>>
      BY <2>2, <2>4, <3>1 DEF Quits
    <3>3. x.t = "exit" /\ x.reason # "logout"
      BY <2>1, <3>1
    <3>4. Leaves(sh, sh')
      BY <1>0, <2>4, <3>2, <3>3 DEF Leaves
    <3> QED BY <1>0, <3>2, <3>4, WayOn
  <2> QED BY <1>0, <2>3, <2>4
<1> QED BY <1>1, <1>2, <1>3

(* The timer of the exit fires: the exit is sent to the gateway. *)
LEMMA TimerExits == ExitsInv /\ ExitTimer => ExitsInv'
<1> SUFFICES ASSUME ExitsInv, ExitTimer PROVE ExitsInv'
  OBVIOUS
<1>1. sh.exited = TRUE /\ gw.exit = <<>> /\ NoExit(up) /\ \E x : sh.exit = <<x>> /\ Exits(x, sh)
  BY DEF ExitsInv, ExitTimer, WhereExitIs
<1>2. PICK x : sh.exit = <<x>> /\ Exits(x, sh)
  BY <1>1
<1>3. PICK S : up \in Seq(S)
  BY DEF ExitsInv
<1>4. PICK T : T = S \cup {x}
  OBVIOUS
<1>5. PICK w, v : w = up /\ v = up'
  OBVIOUS
<1>6. w \in Seq(T) /\ <<x>> \in Seq(T) /\ v = w \o <<x>> /\ v \in Seq(T)
  <2>1. w \in Seq(T) /\ <<x>> \in Seq(T)
    BY <1>3, <1>4, <1>5
  <2>2. v = w \o <<x>>
    BY <1>2, <1>5 DEF ExitTimer
  <2> QED BY ONLY <2>1, <2>2
<1>7. v = Append(w, x)
  BY <1>6
<1>8. v # <<>> /\ v[Len(v)] = x /\ \A i \in 1..(Len(v) - 1) : v[i].t # "exit"
  BY <1>1, <1>5, <1>6, <1>7 DEF NoExit
<1>9. /\ DOMAIN sh' = ShFields /\ sh'.exited = TRUE /\ sh'.exit = <<>> /\ sh'.exitCode = sh.exitCode
      /\ sh'.pc = sh.pc /\ gw' = gw
  BY <1>1 DEF ExitTimer, ShFields, ExitsInv
<1>10. Exits(x, sh')
  BY <1>2, <1>9 DEF Exits
<1>11. WhereExitIs(gw.exit, v, sh')
  BY <1>1, <1>8, <1>9, <1>10 DEF WhereExitIs
<1> QED BY <1>5, <1>6, <1>9, <1>11 DEF ExitsInv

(* The gateway takes what the worker sends: after an exit, nothing. *)
LEMMA GatewayExits == ExitsInv /\ FromWorker => ExitsInv'
<1> SUFFICES ASSUME ExitsInv, FromWorker PROVE ExitsInv'
  OBVIOUS
<1>1. PICK S : up \in Seq(S)
  BY DEF ExitsInv
<1>2. PICK w, v, r, s : w = up /\ v = up' /\ r = Head(up) /\ s = sh
  OBVIOUS
<1>3. /\ w \in Seq(S) /\ w # <<>> /\ v = Tail(w) /\ r = w[1] /\ v \in Seq(S) /\ Len(w) \in Nat
      /\ Len(v) = Len(w) - 1 /\ \A i \in 1..Len(v) : v[i] = w[i + 1]
  BY <1>1, <1>2 DEF FromWorker
<1>4. sh' = sh /\ DOMAIN sh = ShFields /\ DOMAIN gw = GwFields /\ WhereExitIs(gw.exit, w, s)
  BY <1>2 DEF FromWorker, ExitsInv
<1>5. ASSUME r.t = "executed", gw'.exit = gw.exit, DOMAIN gw' = GwFields PROVE ExitsInv'
  <2>1. PICK g : g = gw.exit
    OBVIOUS
  <2>2. WhereExitIs(g, v, s)
    <3>1. NoExit(w) => NoExit(v)
      BY <1>3 DEF NoExit
    <3>2. ASSUME Exits(w[Len(w)], s), \A i \in 1..(Len(w) - 1) : w[i].t # "exit"
          PROVE  v # <<>> /\ v[Len(v)] = w[Len(w)] /\ \A i \in 1..(Len(v) - 1) : v[i].t # "exit"
      <4>1. Len(w) # 1
        BY <1>3, <1>5, <3>2 DEF Exits
      <4>2. Len(w) > 1
        BY <1>3, <4>1
      <4>3. v # <<>> /\ Len(v) \in 1..Len(v) /\ Len(v) + 1 = Len(w)
        <5>1. PICK k, l : k = Len(w) /\ l = Len(v) /\ k \in Nat /\ k > 1 /\ l = k - 1
          BY <1>3, <4>2
        <5>2. l \in 1..l /\ l + 1 = k /\ l # 0
          BY ONLY <5>1
        <5> QED BY <5>1, <5>2
      <4>4. v[Len(v)] = w[Len(w)]
        BY <1>3, <4>3
      <4>5. ASSUME NEW i \in 1..(Len(v) - 1) PROVE v[i].t # "exit"
        <5>1. PICK k : k = i + 1
          OBVIOUS
        <5>2. k \in 1..(Len(w) - 1) /\ v[i] = w[k]
          BY <1>3, <4>3, <5>1
        <5> QED BY <3>2, <5>2
      <4> QED BY <4>3, <4>4, <4>5
    <3>3. WhereExitIs(g, w, s)
      BY <1>4, <2>1
    <3>4. w # <<>>
      BY <1>3
    <3> QED BY <3>1, <3>2, <3>3, <3>4 DEF WhereExitIs
  <2> QED BY <1>2, <1>3, <1>4, <1>5, <2>1, <2>2 DEF ExitsInv
<1>6. r.t = "executed" => ExitsInv'
  <2>1. ASSUME gw' = gw \/ gw' = [gw EXCEPT !.executedSeq = r.upto]
        PROVE  gw'.exit = gw.exit /\ DOMAIN gw' = GwFields
    BY <1>4, <2>1 DEF GwFields
  <2>2. ASSUME r.t = "executed" PROVE gw' = gw \/ gw' = [gw EXCEPT !.executedSeq = r.upto]
    BY <1>2, <2>2 DEF FromWorker
  <2> QED BY <1>5, <2>1, <2>2
<1>7. ASSUME r.t = "exit" PROVE ExitsInv'
  <2>1. gw' = [gw EXCEPT !.closing = TRUE, !.exit = Append(gw.exit, r)]
    BY <1>2, <1>7 DEF FromWorker
  <2>2. ~ NoExit(w)
    BY <1>3, <1>7 DEF NoExit
  <2>3. /\ s.exited = TRUE /\ gw.exit = <<>> /\ s.exit = <<>>
        /\ Exits(w[Len(w)], s) /\ \A i \in 1..(Len(w) - 1) : w[i].t # "exit"
    BY <1>3, <1>4, <2>2 DEF WhereExitIs
  <2>4. Len(w) = 1
    <3>1. Len(w) > 1 => 1 \in 1..(Len(w) - 1)
      BY <1>3
    <3> QED BY <1>3, <1>7, <2>3, <3>1
  <2>5. v = <<>> /\ Exits(r, s)
    BY <1>3, <2>3, <2>4
  <2>6. gw'.exit = <<r>> /\ DOMAIN gw' = GwFields
    BY <1>4, <2>1, <2>3 DEF GwFields
  <2>7. WhereExitIs(gw'.exit, v, s)
    BY <2>3, <2>5, <2>6 DEF WhereExitIs
  <2> QED BY <1>2, <1>3, <1>4, <2>6, <2>7 DEF ExitsInv
<1> QED BY <1>2, <1>6, <1>7 DEF FromWorker

(* The user, the client and the gateway.                                   *)
LEMMA ClientExits ==
  ExitsInv /\ ((\E kinds \in Bursts : Type(kinds)) \/ SendSignal \/ End \/ Acknowledge \/ UNCHANGED shellVars)
    => ExitsInv'
<1> SUFFICES ASSUME ExitsInv, (\E kinds \in Bursts : Type(kinds)) \/ SendSignal \/ End \/ Acknowledge \/ UNCHANGED shellVars PROVE ExitsInv'
  OBVIOUS
<1>1. up' = up /\ sh' = sh
  BY DEF Type, SendSignal, End, Acknowledge, shellVars
<1>2. ASSUME gw' = gw \/ gw' = [gw EXCEPT !.closing = TRUE] \/ (\E n : gw' = [gw EXCEPT !.refused = n])
             \/ (\E n : gw' = [gw EXCEPT !.inSeq = n])
      PROVE  gw'.exit = gw.exit /\ DOMAIN gw' = GwFields
  BY <1>2 DEF ExitsInv, GwFields
<1>3. ASSUME NEW kinds, Type(kinds)
      PROVE  gw' = gw \/ (\E n : gw' = [gw EXCEPT !.refused = n]) \/ (\E n : gw' = [gw EXCEPT !.inSeq = n])
  BY <1>3 DEF Type
<1>4. gw' = gw \/ gw' = [gw EXCEPT !.closing = TRUE] \/ (\E n : gw' = [gw EXCEPT !.refused = n])
             \/ (\E n : gw' = [gw EXCEPT !.inSeq = n])
  BY <1>3 DEF SendSignal, End, Acknowledge, shellVars
<1>5. gw'.exit = gw.exit /\ DOMAIN gw' = GwFields
  BY <1>2, <1>4
<1> QED BY <1>1, <1>5 DEF ExitsInv

(* It holds at the start. *)
LEMMA ShellInitExits == ShellInit => ExitsInv
<1> SUFFICES ASSUME ShellInit PROVE ExitsInv
  OBVIOUS
<1>1. DOMAIN sh = ShFields /\ sh.exited = FALSE /\ sh.exit = <<>> /\ up = <<>>
  BY DEF ShellInit, ShFields
<1>2. DOMAIN gw = GwFields /\ gw.exit = <<>>
  BY DEF ShellInit, GwFields
<1>3. <<>> \in Seq({}) /\ NoExit(<<>>)
  BY DEF NoExit
<1> QED BY <1>1, <1>2, <1>3 DEF ExitsInv, WhereExitIs

(* It says what ExitsOnce asks for. *)
LEMMA SaidOnce == ExitsInv => ExitsOnce
<1> SUFFICES ASSUME ExitsInv, NEW i \in DOMAIN Said, Said[i].t = "exit"
             PROVE  i = Len(Said) /\ (Said[i].reason = "logout" => Said[i].code = sh.exitCode)
  BY DEF ExitsOnce
<1>1. PICK S : up \in Seq(S)
  BY DEF ExitsInv
<1>2. PICK w, q, s : w = up /\ q = Said /\ s = sh
  OBVIOUS
<1>3. WhereExitIs(gw.exit, w, s) /\ q = gw.exit \o w \o s.exit /\ w \in Seq(S) /\ i \in DOMAIN q /\ q[i].t = "exit"
  BY <1>1, <1>2 DEF ExitsInv, Said
<1>4. ASSUME gw.exit = <<>>, s.exit = <<>> PROVE q = w
  BY <1>3, <1>4
<1>5. CASE gw.exit = <<>> /\ NoExit(w) /\ s.exit = <<>>
  BY <1>3, <1>4, <1>5 DEF NoExit
<1>6. CASE gw.exit = <<>> /\ NoExit(w) /\ \E x : s.exit = <<x>> /\ Exits(x, s)
  <2>1. PICK x : s.exit = <<x>> /\ Exits(x, s)
    BY <1>6
  <2>2. q = w \o <<x>>
    BY <1>3, <1>6, <2>1
  <2>3. q = Append(w, x)
    BY <1>3, <2>2
  <2>4. i = Len(q) /\ q[i] = x
    BY <1>3, <1>6, <2>3 DEF NoExit
  <2> QED BY <1>2, <2>1, <2>4 DEF Exits
<1>7. CASE /\ gw.exit = <<>> /\ s.exit = <<>>
           /\ w # <<>> /\ Exits(w[Len(w)], s) /\ \A k \in 1..(Len(w) - 1) : w[k].t # "exit"
  <2>1. i = Len(w)
    BY <1>3, <1>4, <1>7
  <2> QED BY <1>2, <1>4, <1>7, <2>1 DEF Exits
<1>8. CASE w = <<>> /\ s.exit = <<>> /\ \E x : gw.exit = <<x>> /\ Exits(x, s)
  <2>1. PICK x : gw.exit = <<x>> /\ Exits(x, s)
    BY <1>8
  <2>2. q = <<x>>
    BY <1>3, <1>8, <2>1
  <2>3. i = Len(q) /\ q[i] = x
    BY <1>3, <2>2
  <2> QED BY <1>2, <2>1, <2>3 DEF Exits
<1> QED BY <1>3, <1>5, <1>6, <1>7, <1>8 DEF WhereExitIs

(* Every step keeps it. *)
LEMMA ExitsStep == ExitsInv /\ [ShellNext]_shellVars => ExitsInv'
BY LineReadExits, RunExits, HandleExits, TimerExits, GatewayExits, ClientExits DEF ShellNext, ShellMoves

(* A session exits once, with its own code, and says nothing afterwards.   *)
THEOREM ExitsOnceOnly == ShellSpec => []ExitsOnce
<1>1. ExitsInv /\ [ShellNext]_shellVars => ExitsInv'
  BY ExitsStep
<1> QED BY ShellInitExits, <1>1, SaidOnce, PTL DEF ShellSpec

-----------------------------------------------------------------------------
(* Shell: keys in order.                                                   *)

KeyKind == {"char", "enter", "int", "eof"}
Keys == [id : Nat, kind : KeyKind]
Values == {"none", "line", "aborted", "null"}
Readers == [buf : Nat, value : Values]

(* One after the other; all of one set before all of another. *)
Rising(q) == \A i, j \in DOMAIN q : i < j => q[i].id < q[j].id
Below(A, B) == \A x \in A, y \in B : x < y

(* What keys are, one by one. *)
LEMMA KeysAre ==
  ASSUME NEW q \in Seq(Keys)
  PROVE  /\ Len(q) \in Nat /\ DOMAIN q = 1..Len(q)
         /\ \A i \in 1..Len(q) : q[i] \in Keys /\ q[i].id \in Nat /\ q[i].kind \in KeyKind
         /\ Ids(q) = {q[i].id : i \in 1..Len(q)} /\ Ids(q) \subseteq Nat
<1>1. Len(q) \in Nat /\ DOMAIN q = 1..Len(q) /\ \A i \in 1..Len(q) : q[i] \in Keys
  OBVIOUS
<1>2. \A k \in Keys : k.id \in Nat /\ k.kind \in KeyKind
  BY DEF Keys
<1> QED BY <1>1, <1>2 DEF Ids

(* A sequence cut in two. *)
IsCut(q, n, a, b) == n \in 0..Len(q) /\ a = SubSeq(q, 1, n) /\ b = SubSeq(q, n + 1, Len(q))
Halves(q, n, a, b) ==
  /\ a \in Seq(Keys) /\ b \in Seq(Keys) /\ Len(a) = n /\ Len(b) = Len(q) - n
  /\ Ids(q) = Ids(a) \cup Ids(b) /\ Rising(a) /\ Rising(b) /\ Below(Ids(a), Ids(b))

(* Its halves are in order, one before the other. *)
LEMMA CutKeys ==
  ASSUME NEW q \in Seq(Keys), Rising(q), NEW n, NEW a, NEW b, IsCut(q, n, a, b)
  PROVE  Halves(q, n, a, b)
<1>0. n \in 0..Len(q) /\ a = SubSeq(q, 1, n) /\ b = SubSeq(q, n + 1, Len(q))
  BY DEF IsCut
<1>1. PICK m : m = Len(q)
  OBVIOUS
<1>2. m \in Nat /\ n \in Nat /\ n <= m /\ DOMAIN q = 1..m /\ \A i \in 1..m : q[i] \in Keys
  BY <1>0, <1>1
<1>3. a \in Seq(Keys) /\ Len(a) = n /\ \A i \in 1..n : a[i] = q[i]
  <2>1. \A i \in 1..n : q[i] \in Keys
    BY <1>2
  <2>2. 1 \in Int /\ n \in Int
    BY <1>2
  <2>3. /\ a \in Seq(Keys) /\ Len(a) = IF 1 <= n THEN n - 1 + 1 ELSE 0
        /\ \A i \in 1 .. n - 1 + 1 : a[i] = q[1 + i - 1]
    BY ONLY <1>0, <2>1, <2>2, SubSeqProperties
  <2>4. Len(a) = n
    BY ONLY <1>2, <2>3
  <2>5. \A i \in 1..n : 1 + i - 1 = i /\ i \in 1..(n - 1 + 1)
    BY ONLY <1>2
  <2> QED BY ONLY <2>3, <2>4, <2>5
<1>4. b \in Seq(Keys) /\ Len(b) = m - n /\ \A i \in 1..(m - n) : b[i] = q[n + i]
  <2>0. PICK j : j = n + 1
    OBVIOUS
  <2>1. \A i \in j..m : q[i] \in Keys
    BY <1>2, <2>0
  <2>2. j \in Int /\ m \in Int
    BY <1>2, <2>0
  <2>s. b = SubSeq(q, j, m)
    BY <1>0, <1>1, <2>0
  <2>3. /\ b \in Seq(Keys) /\ Len(b) = IF j <= m THEN m - j + 1 ELSE 0
        /\ \A i \in 1 .. m - j + 1 : b[i] = q[j + i - 1]
    BY ONLY <2>1, <2>2, <2>s, SubSeqProperties
  <2>4. Len(b) = m - n
    BY ONLY <1>2, <2>0, <2>3
  <2>5. \A i \in 1..(m - n) : j + i - 1 = n + i /\ i \in 1..(m - j + 1)
    BY ONLY <1>2, <2>0
  <2> QED BY ONLY <2>3, <2>4, <2>5
<1>5. DOMAIN a = 1..n /\ DOMAIN b = 1..(m - n)
  BY <1>2, <1>3, <1>4
<1>6. Ids(q) = Ids(a) \cup Ids(b)
  <2>1. ASSUME NEW i \in 1..m PROVE q[i].id \in Ids(a) \cup Ids(b)
    <3>1. CASE i <= n
      <4>1. i \in 1..n
        BY <1>2, <3>1
      <4> QED BY <1>3, <1>5, <4>1 DEF Ids
    <3>2. CASE i > n
      <4>1. PICK j : j = i - n
        OBVIOUS
      <4>2. j \in 1..(m - n) /\ n + j = i
        BY <1>2, <3>2, <4>1
      <4> QED BY <1>4, <1>5, <4>2 DEF Ids
    <3> QED BY <1>2, <3>1, <3>2
  <2>2. \A i \in 1..n : i \in 1..m
    BY <1>2
  <2>3. \A i \in 1..(m - n) : n + i \in 1..m
    BY <1>2
  <2>4. Ids(a) \subseteq Ids(q)
    BY <1>2, <1>3, <1>5, <2>2 DEF Ids
  <2>5. Ids(b) \subseteq Ids(q)
    BY <1>2, <1>4, <1>5, <2>3 DEF Ids
  <2>6. Ids(q) \subseteq Ids(a) \cup Ids(b)
    BY <1>2, <2>1 DEF Ids
  <2> QED BY <2>4, <2>5, <2>6
<1>7. Rising(a) /\ Rising(b) /\ Below(Ids(a), Ids(b))
  <2>1. \A i, j \in 1..m : i < j => q[i].id < q[j].id
    BY <1>2 DEF Rising
  <2>2. ASSUME NEW i \in 1..n, NEW j \in 1..n, i < j PROVE a[i].id < a[j].id
    <3>1. i \in 1..m /\ j \in 1..m
      BY <1>2
    <3> QED BY <1>3, <2>1, <2>2, <3>1
  <2>3. ASSUME NEW i \in 1..(m - n), NEW j \in 1..(m - n), i < j PROVE b[i].id < b[j].id
    <3>1. n + i \in 1..m /\ n + j \in 1..m /\ n + i < n + j
      BY <1>2, <2>3
    <3> QED BY <1>4, <2>1, <3>1
  <2>4. ASSUME NEW i \in 1..n, NEW j \in 1..(m - n) PROVE a[i].id < b[j].id
    <3>1. i \in 1..m /\ n + j \in 1..m /\ i < n + j
      BY <1>2
    <3> QED BY <1>3, <1>4, <2>1, <3>1
  <2>5. Rising(a)
    BY <1>5, <2>2 DEF Rising
  <2>6. Rising(b)
    BY <1>5, <2>3 DEF Rising
  <2>7. Ids(a) = {a[i].id : i \in 1..n} /\ Ids(b) = {b[i].id : i \in 1..(m - n)}
    BY <1>5 DEF Ids
  <2>8. Below(Ids(a), Ids(b))
    BY <2>4, <2>7 DEF Below
  <2> QED BY <2>5, <2>6, <2>8
<1> QED BY <1>1, <1>3, <1>4, <1>6, <1>7 DEF Halves

(* Two sequences joined. *)
Fits(p, q) == Rising(p) /\ Rising(q) /\ Below(Ids(p), Ids(q))
Joins(p, q, r) ==
  /\ r \in Seq(Keys) /\ Len(r) = Len(p) + Len(q)
  /\ Ids(r) = Ids(p) \cup Ids(q) /\ Rising(r)

(* They are in order if the second is behind the first. *)
LEMMA JoinKeys ==
  ASSUME NEW p \in Seq(Keys), NEW q \in Seq(Keys), Fits(p, q)
  PROVE  Joins(p, q, p \o q)
<1>0. PICK r : r = p \o q
  OBVIOUS
<1>1. PICK a, b : a = Len(p) /\ b = Len(q)
  OBVIOUS
<1>2. a \in Nat /\ b \in Nat /\ DOMAIN p = 1..a /\ DOMAIN q = 1..b
  BY <1>1
<1>3. /\ r \in Seq(Keys) /\ Len(r) = a + b
      /\ \A i \in 1..(a + b) : r[i] = IF i <= a THEN p[i] ELSE q[i - a]
  BY <1>0, <1>1, ConcatProperties
<1>4. DOMAIN r = 1..(a + b)
  BY <1>3
<1>5. \A i \in 1..a : i \in 1..(a + b) /\ r[i] = p[i]
  BY <1>2, <1>3
<1>6. ASSUME NEW i \in 1..b PROVE a + i \in 1..(a + b) /\ r[a + i] = q[i]
  <2>1. a + i \in 1..(a + b) /\ ~ (a + i <= a) /\ (a + i) - a = i
    BY <1>2
  <2> QED BY <1>3, <2>1
<1>7. \A i \in 1..(a + b) : i \in 1..a \/ (i - a \in 1..b /\ a + (i - a) = i)
  BY <1>2
<1>8. Ids(r) = Ids(p) \cup Ids(q)
  <2>1. Ids(p) \subseteq Ids(r)
    BY <1>2, <1>4, <1>5 DEF Ids
  <2>2. Ids(q) \subseteq Ids(r)
    BY <1>2, <1>4, <1>6 DEF Ids
  <2>3. ASSUME NEW i \in 1..(a + b) PROVE r[i].id \in Ids(p) \cup Ids(q)
    <3>1. CASE i \in 1..a
      BY <1>2, <1>5, <3>1 DEF Ids
    <3>2. CASE i \notin 1..a
      <4>1. PICK j : j = i - a
        OBVIOUS
      <4>2. j \in 1..b /\ a + j = i
        BY <1>7, <3>2, <4>1
      <4> QED BY <1>2, <1>6, <4>2 DEF Ids
    <3> QED BY <3>1, <3>2
  <2>4. Ids(r) \subseteq Ids(p) \cup Ids(q)
    BY <1>4, <2>3 DEF Ids
  <2> QED BY <2>1, <2>2, <2>4
<1>f. Rising(p) /\ Rising(q) /\ Below(Ids(p), Ids(q))
  BY DEF Fits
<1>9. Rising(r)
  <2> SUFFICES ASSUME NEW i \in 1..(a + b), NEW j \in 1..(a + b), i < j PROVE r[i].id < r[j].id
    BY <1>4 DEF Rising
  <2>1. CASE j \in 1..a
    <3>1. i \in 1..a
      BY <1>2, <2>1
    <3> QED BY <1>2, <1>5, <1>f, <2>1, <3>1 DEF Rising
  <2>2. CASE j \notin 1..a
    <3>1. PICK k : k = j - a
      OBVIOUS
    <3>2. k \in 1..b /\ a + k = j
      BY <1>7, <2>2, <3>1
    <3>3. r[j] = q[k]
      BY <1>6, <3>2
    <3>4. CASE i \in 1..a
      BY <1>2, <1>5, <1>f, <3>2, <3>3, <3>4 DEF Below, Ids
    <3>5. CASE i \notin 1..a
      <4>1. PICK l : l = i - a
        OBVIOUS
      <4>2. l \in 1..b /\ a + l = i
        BY <1>7, <3>5, <4>1
      <4>3. l < k /\ r[i] = q[l]
        <5>1. l < k
          BY ONLY <1>2, <3>2, <4>2, i < j
        <5> QED BY <1>6, <4>2, <5>1
      <4> QED BY <1>2, <1>f, <3>2, <3>3, <4>2, <4>3 DEF Rising
    <3> QED BY <3>4, <3>5
  <2> QED BY <2>1, <2>2
<1> QED BY <1>0, <1>1, <1>3, <1>8, <1>9 DEF Joins

-----------------------------------------------------------------------------
(* Shell: the reader of a line.                                            *)

(* A run of printable characters ends. *)
LEMMA RunIs ==
  ASSUME NEW keys \in Seq(Keys), NEW i \in 1..Len(keys), keys[i].kind = "char"
  PROVE  RunAt(keys, i) \in Nat
<1>1. PICK m, k : m = Len(keys) /\ k = m - i + 1
  OBVIOUS
<1>2. m \in Nat /\ i \in 1..m /\ k \in Nat /\ k >= 1
  BY <1>1
<1>3. PICK T : T = {n \in 1..k : \A j \in i..(i + n - 1) : keys[j].kind = "char"}
  OBVIOUS
<1>4. 1 \in T /\ T \subseteq 0..k
  <2>1. \A j \in i..(i + 1 - 1) : j = i
    BY <1>2
  <2>2. 1 \in 1..k
    BY <1>2
  <2> QED BY <1>2, <1>3, <2>1, <2>2
<1>5. PICK n \in T : \A y \in T : n >= y
  BY ONLY <1>2, <1>4, GreatestOne
<1>6. n \in 1..k /\ \A j \in i..(i + n - 1) : keys[j].kind = "char"
  BY <1>3
<1>7. ASSUME i + n <= m, keys[i + n].kind = "char" PROVE FALSE
  <2>1. PICK l : l = n + 1
    OBVIOUS
  <2>2. l \in 1..k
    BY <1>1, <1>2, <1>6, <1>7, <2>1
  <2>3. ASSUME NEW j \in i..(i + l - 1) PROVE keys[j].kind = "char"
    <3>1. j \in i..(i + n - 1) \/ j = i + n
      BY <1>2, <1>6, <2>1
    <3> QED BY <1>6, <1>7, <3>1
  <2>4. l \in T
    BY <1>3, <2>2, <2>3
  <2> QED BY <1>5, <1>6, <2>1, <2>4
<1>8. \E x \in 1..(Len(keys) - i + 1) :
        /\ \A j \in i..(i + x - 1) : keys[j].kind = "char"
        /\ i + x <= Len(keys) => keys[i + x].kind # "char"
  BY <1>1, <1>6, <1>7
<1>9. RunAt(keys, i) \in 1..(Len(keys) - i + 1)
  BY <1>8 DEF RunAt
<1> QED BY <1>9

(* A key leaves a reader one. *)
LEMMA KeyIs ==
  ASSUME NEW r \in Readers, NEW keys \in Seq(Keys), NEW i \in 1..Len(keys)
  PROVE  Key(r, keys, i) \in Readers
<1>1. keys[i].kind \in KeyKind
  BY KeysAre
<1>2. r.buf \in Nat /\ r.value \in Values
  BY DEF Readers
<1>3. CASE keys[i].kind = "char"
  <2>1. PICK n : n = r.buf + RunAt(keys, i)
    OBVIOUS
  <2>2. n \in Nat
    BY <1>2, <1>3, <2>1, RunIs
  <2>3. [r EXCEPT !.buf = n] \in Readers
    BY <2>2 DEF Readers
  <2> QED BY <1>3, <2>1, <2>3 DEF Key
<1>4. CASE keys[i].kind # "char"
  <2>1. /\ [r EXCEPT !.value = "line"] \in Readers /\ [r EXCEPT !.value = "null"] \in Readers
        /\ [buf |-> 0, value |-> "aborted"] \in Readers
    BY DEF Readers, Values
  <2> QED BY <1>1, <1>4, <2>1 DEF Key, KeyKind
<1> QED BY <1>3, <1>4

(* A reader and the number of keys it has taken: all there were, or it is  *)
(* done.                                                                   *)
Feeding == [r : Readers, n : Nat]
FedAfter(r, m) == {s \in Feeding : s.n \in 0..m /\ (s.r.value = "none" => s.n = m)
                                   /\ (r.value # "none" => s.r = r /\ s.n = 0)}

(* One more key, after so many. *)
LEMMA StepIs ==
  ASSUME NEW r \in Readers, NEW keys \in Seq(Keys), NEW m \in Nat, m < Len(keys), NEW s \in FedAfter(r, m)
  PROVE  Step(s, keys, m + 1) \in FedAfter(r, m + 1)
<1>0. s \in Feeding /\ s.n \in 0..m /\ (s.r.value = "none" => s.n = m) /\ (r.value # "none" => s.r = r /\ s.n = 0)
  BY DEF FedAfter
<1>1. CASE s.r.value # "none"
  <2>1. s.n \in 0..(m + 1)
    BY <1>0
  <2> QED BY <1>0, <1>1, <2>1 DEF Step, FedAfter
<1>2. CASE s.r.value = "none"
  <2>1. PICK i, k : i = m + 1 /\ k = Key(s.r, keys, i)
    OBVIOUS
  <2>2. i \in 1..Len(keys) /\ i \in Nat /\ i \in 0..i
    BY <2>1
  <2>3. s.r \in Readers
    BY <1>0 DEF Feeding
  <2>4. k \in Readers
    BY ONLY <2>1, <2>2, <2>3, keys \in Seq(Keys), KeyIs
  <2>5. PICK t : t = [r |-> k, n |-> i]
    OBVIOUS
  <2>6. t \in Feeding /\ t.r = k /\ t.n = i
    BY ONLY <2>2, <2>4, <2>5 DEF Feeding
  <2>7. Step(s, keys, m + 1) = t
    BY <1>2, <2>1, <2>5 DEF Step
  <2>8. r.value = "none"
    BY <1>0, <1>2
  <2>9. t \in FedAfter(r, i)
    BY ONLY <2>2, <2>6, <2>8 DEF FedAfter
  <2> QED BY <2>1, <2>7, <2>9
<1> QED BY <1>1, <1>2

(* A key at any place leaves it one. *)
LEMMA StepFeeds ==
  ASSUME NEW keys \in Seq(Keys), NEW i \in 1..Len(keys), NEW s \in Feeding
  PROVE  Step(s, keys, i) \in Feeding
<1>1. CASE s.r.value # "none"
  BY <1>1 DEF Step
<1>2. CASE s.r.value = "none"
  <2>1. PICK k : k = Key(s.r, keys, i)
    OBVIOUS
  <2>2. s.r \in Readers
    BY DEF Feeding
  <2>3. k \in Readers
    BY ONLY <2>1, <2>2, keys \in Seq(Keys), i \in 1..Len(keys), KeyIs
  <2>4. i \in Nat
    OBVIOUS
  <2>5. [r |-> k, n |-> i] \in Feeding
    BY ONLY <2>3, <2>4 DEF Feeding
  <2> QED BY <1>2, <2>1, <2>5 DEF Step
<1> QED BY <1>1, <1>2

(* What becomes of a reader that is given keys. *)
LEMMA FedIs ==
  ASSUME NEW r \in Readers, NEW keys \in Seq(Keys)
  PROVE  Fed(r, keys) \in FedAfter(r, Len(keys))
<1>1. PICK k, S, base, c, q :
        /\ q = [i \in 1..Len(keys) |-> i] /\ k = Len(keys) /\ S = 1..k /\ base = [r |-> r, n |-> 0]
        /\ c = [s \in SUBSET (1..k) |-> Max(s)]
  OBVIOUS
<1>2. k \in Nat
  BY <1>1
<1>3. Chooses(c, S) /\ IsFiniteSet(S) /\ \A j \in 1..k : c[1..j] = j /\ (1..j) \ {j} = 1..(j - 1)
  <2>1. c = [s \in SUBSET (1..k) |-> Max(s)] /\ S = 1..k
    BY ONLY <1>1
  <2>2. Chooses(c, 1..k) /\ IsFiniteSet(1..k)
    BY ONLY <1>2, <2>1, LastChooses
  <2>3. ASSUME NEW j \in 1..k PROVE c[1..j] = j /\ (1..j) \ {j} = 1..(j - 1)
    <3>1. Lasts(c, k)
      BY <2>1 DEF Lasts
    <3> QED BY ONLY <1>2, <3>1, LastOfFirst, j \in 1..k
  <2> QED BY ONLY <2>1, <2>2, <2>3
<1>4. \A s \in SUBSET S : c[s] = Max(s) /\ (s # {} => c[s] \in S /\ q[Max(s)] = c[s])
  <2>1. \A s \in SUBSET S : c[s] = Max(s) /\ (s # {} => c[s] \in S)
    BY <1>1, <1>3 DEF Chooses
  <2>2. \A i \in S : q[i] = i
    BY <1>1
  <2> QED BY <2>1, <2>2
<1>5. base \in Feeding /\ base.n = 0 /\ base.r = r
  BY <1>1 DEF Feeding
<1> DEFINE Eq(g) == g = [s \in SUBSET S |-> IF s = {} THEN base ELSE Step(g[s \ {Max(s)}], keys, q[Max(s)])]
<1>6. \E g : Eq(g)
  <2>1. PICK F : F = [p \in S \X Feeding |-> Step(p[2], keys, p[1])]
    OBVIOUS
  <2>2. PICK g : Applies(g, F, base, c, S)
    BY <1>3, FoldExists
  <2>3. g = [s \in SUBSET S |-> Applied(g, F, base, c, s)]
    BY <2>2 DEF Applies
  <2>4. \A s \in SUBSET S : g[s] = IF s = {} THEN base ELSE F[<<c[s], g[s \ {c[s]}]>>]
    <3>1. PICK h : h = [s \in SUBSET S |-> Applied(g, F, base, c, s)]
      OBVIOUS
    <3>2. g = h
      BY <2>3, <3>1
    <3> QED BY <3>1, <3>2 DEF Applied
  <2>5. ASSUME NEW s \in SUBSET S, s # {}, g[s \ {c[s]}] \in Feeding
        PROVE  g[s] = Step(g[s \ {c[s]}], keys, c[s]) /\ g[s] \in Feeding
    <3>1. PICK p : p = <<c[s], g[s \ {c[s]}]>>
      OBVIOUS
    <3>2. p \in S \X Feeding /\ p[1] = c[s] /\ p[2] = g[s \ {c[s]}]
      BY <1>4, <2>5, <3>1
    <3>3. g[s] = Step(p[2], keys, p[1])
      BY <2>1, <2>4, <2>5, <3>1, <3>2
    <3>4. PICK i, f : i = p[1] /\ f = p[2]
      OBVIOUS
    <3>5. i \in 1..Len(keys) /\ f \in Feeding
      BY <1>1, <3>2, <3>4
    <3>6. Step(f, keys, i) \in Feeding
      BY ONLY <3>5, keys \in Seq(Keys), StepFeeds
    <3> QED BY <3>2, <3>3, <3>4, <3>6
  <2>6. g[{}] \in Feeding /\ \A s \in SUBSET S : s # {} /\ g[s \ {c[s]}] \in Feeding => g[s] \in Feeding
    BY <1>5, <2>4, <2>5
  <2>7. \A s \in SUBSET S : g[s] \in Feeding
    BY ONLY <1>3, <2>6, FoldStays
  <2>8. \A s \in SUBSET S : Applied(g, F, base, c, s) =
          IF s = {} THEN base ELSE Step(g[s \ {Max(s)}], keys, q[Max(s)])
    <3> SUFFICES ASSUME NEW s \in SUBSET S, s # {}
                 PROVE  Applied(g, F, base, c, s) = Step(g[s \ {Max(s)}], keys, q[Max(s)])
      BY DEF Applied
    <3>1. PICK u : u = s \ {c[s]}
      OBVIOUS
    <3>2. g[u] \in Feeding
      BY <2>7, <3>1
    <3>3. g[s] = Applied(g, F, base, c, s)
      BY <2>4 DEF Applied
    <3> QED BY <1>4, <2>5, <3>1, <3>2, <3>3
  <2> QED BY <2>3, <2>8
<1>7. PICK g : g = CHOOSE f : Eq(f)
  OBVIOUS
<1>8. Eq(g)
  BY <1>6, <1>7
<1>9. Fed(r, keys) = g[S]
  BY <1>1, <1>7 DEF Fed, FoldLeft, MapThenFoldSet
<1>10. g[{}] = base /\ \A j \in 1..k : g[1..j] = Step(g[1..(j - 1)], keys, j)
  <2>1. g[{}] = base
    BY <1>8
  <2>2. ASSUME NEW j \in 1..k PROVE g[1..j] = Step(g[1..(j - 1)], keys, j)
    <3>1. PICK s : s = 1..j
      OBVIOUS
    <3>2. s \in SUBSET S /\ s # {}
      <4>1. 1..j \subseteq 1..k /\ j \in 1..j
        BY ONLY <1>2, j \in 1..k
      <4> QED BY <1>1, <3>1, <4>1
    <3>4. Max(s) = j /\ q[Max(s)] = j /\ s \ {Max(s)} = 1..(j - 1)
      BY <1>3, <1>4, <3>1, <3>2
    <3>3. g[s] = Step(g[s \ {Max(s)}], keys, q[Max(s)])
      BY <1>8, <3>2
    <3> QED BY <3>1, <3>3, <3>4
  <2> QED BY <2>1, <2>2
<1>11. \A m \in 0..k : g[1..m] \in FedAfter(r, m)
  <2> HIDE DEF Eq
  <2> DEFINE Bad == {m \in 0..k : g[1..m] \notin FedAfter(r, m)}
  <2> SUFFICES ASSUME Bad # {} PROVE FALSE
    OBVIOUS
  <2>1. Bad \subseteq Nat
    BY <1>2
  <2>2. PICK m \in Bad : \A j \in Bad : m <= j
    <3> HIDE DEF Bad
    <3> QED BY <2>1, LeastOne
  <2>3. m \in 0..k /\ g[1..m] \notin FedAfter(r, m)
    OBVIOUS
  <2>4. m # 0
    <3>1. base \in FedAfter(r, 0)
      <4>1. base.n \in 0..0
        BY <1>5
      <4> QED BY <1>5, <4>1 DEF FedAfter
    <3>2. 1..0 = {}
      OBVIOUS
    <3> QED BY <1>10, <2>3, <3>1, <3>2
  <2>5. PICK j : j = m - 1
    OBVIOUS
  <2>6. j \in 0..k /\ j \notin Bad /\ j \in Nat /\ j + 1 = m /\ m \in 1..k
    BY <1>2, <2>2, <2>3, <2>4, <2>5
  <2>7. PICK s : s = g[1..j]
    OBVIOUS
  <2>8. s \in FedAfter(r, j)
    BY <2>6, <2>7
  <2>9. j < Len(keys)
    BY <1>1, <1>2, <2>6
  <2>10. Step(s, keys, j + 1) \in FedAfter(r, j + 1)
    BY ONLY <2>6, <2>8, <2>9, r \in Readers, keys \in Seq(Keys), StepIs
  <2>11. g[1..m] = Step(s, keys, j + 1)
    <3>1. g[1..m] = Step(g[1..(m - 1)], keys, m)
      BY <1>10, <2>6
    <3> QED BY <2>5, <2>6, <2>7, <3>1
  <2> QED BY <2>3, <2>6, <2>10, <2>11
<1>12. g[1..k] \in FedAfter(r, k)
  BY <1>2, <1>11
<1> QED BY <1>1, <1>9, <1>12

-----------------------------------------------------------------------------
(* Shell: the kernel keeps the keys.                                       *)

(* The keys that have come so far, wherever they are. *)
Come(s) == s.fed \cup s.told \cup Ids(s.typeahead)

(* What waits is in order, and behind all that was fed. *)
Ordered(s) ==
  /\ DOMAIN s = ShFields
  /\ s.reader \in Readers /\ s.typeahead \in Seq(Keys) /\ Len(s.typeahead) <= 2 * LineChars
  /\ Rising(s.typeahead) /\ Below(s.fed, Ids(s.typeahead))

(* A reader that waits has been given all of it. *)
Empties(s) == s.reader.value = "none" => s.typeahead = <<>>

ReaderHasAll(s) == s.pc \in {"prompt", "reads"} => Empties(s)

(* Between two steps the keys that have come are those that have arrived. *)
InPlace(s) == Ordered(s) /\ Come(s) = 1..s.arrived /\ ReaderHasAll(s)

(* The kernel has put these keys somewhere, and done nothing else. *)
Puts(s, t, A) == Come(t) = Come(s) \cup A /\ t.arrived = s.arrived /\ t.pc = s.pc

(* Keys that come behind all there are. *)
ComesAfter(s, keys) == keys \in Seq(Keys) /\ Rising(keys) /\ Below(s.fed \cup Ids(s.typeahead), Ids(keys))

(* Of no keys there are no numbers. *)
LEMMA NoIds == Ids(<<>>) = {} /\ <<>> \in Seq(Keys) /\ Len(<<>>) = 0 /\ Rising(<<>>)
<1>1. DOMAIN <<>> = {}
  OBVIOUS
<1> QED BY <1>1 DEF Ids, Rising

(* Keys typed ahead wait, as many as there is room for.                    *)
LEMMA AheadKept ==
  ASSUME NEW s, Ordered(s), NEW keys, ComesAfter(s, keys), NEW t, t = Ahead(s, keys)
  PROVE  Ordered(t) /\ Puts(s, t, Ids(keys)) /\ t.reader = s.reader
<1>1. PICK h, m, k, L : h = s.typeahead /\ m = Len(h) /\ k = Len(keys) /\ L = 2 * LineChars
  OBVIOUS
<1>2. h \in Seq(Keys) /\ m \in Nat /\ k \in Nat /\ L \in Nat /\ m <= L /\ keys \in Seq(Keys)
  BY <1>1, ShellAssumption DEF Ordered, ComesAfter
<1>3. PICK n : n = IF L - m < k THEN L - m ELSE k
  OBVIOUS
<1>4. n \in 0..k /\ m + n <= L
  BY ONLY <1>2, <1>3
<1>5. PICK a, b, q : a = SubSeq(keys, 1, n) /\ b = SubSeq(keys, n + 1, Len(keys)) /\ q = h \o a
  OBVIOUS
<1>6. /\ a \in Seq(Keys) /\ b \in Seq(Keys) /\ Len(a) = n /\ Ids(keys) = Ids(a) \cup Ids(b)
      /\ Rising(a)
  <2>1. IsCut(keys, n, a, b) /\ Rising(keys)
    BY <1>1, <1>4, <1>5 DEF ComesAfter, IsCut
  <2>2. Halves(keys, n, a, b)
    BY ONLY <1>2, <2>1, CutKeys
  <2> QED BY <2>2 DEF Halves
<1>7. Below(s.fed, Ids(h)) /\ Below(s.fed, Ids(a)) /\ Below(Ids(h), Ids(a)) /\ Rising(h)
  BY <1>1, <1>6 DEF Ordered, ComesAfter, Below
<1>8. q \in Seq(Keys) /\ Len(q) = m + n /\ Ids(q) = Ids(h) \cup Ids(a) /\ Rising(q)
  <2>1. Fits(h, a)
    BY <1>6, <1>7 DEF Fits
  <2>2. Joins(h, a, h \o a)
    BY ONLY <1>2, <1>6, <2>1, JoinKeys
  <2> QED BY <1>1, <1>5, <1>6, <2>2 DEF Joins
<1>9. t = [s EXCEPT !.typeahead = q, !.told = s.told \cup Ids(b)]
  BY <1>1, <1>3, <1>5 DEF Ahead
<1>10. DOMAIN s = ShFields /\ s.reader \in Readers
  BY DEF Ordered
<1>11. /\ DOMAIN t = ShFields /\ t.typeahead = q /\ t.told = s.told \cup Ids(b) /\ t.fed = s.fed
       /\ t.reader = s.reader /\ t.arrived = s.arrived /\ t.pc = s.pc
  BY ONLY <1>9, <1>10 DEF ShFields
<1>12. Below(s.fed, Ids(q))
  BY ONLY <1>7, <1>8 DEF Below
<1>13. Len(q) <= 2 * LineChars
  BY <1>1, <1>4, <1>8
<1>14. Ordered(t)
  BY ONLY <1>8, <1>10, <1>11, <1>12, <1>13 DEF Ordered
<1>15. Come(t) = Come(s) \cup Ids(keys)
  BY ONLY <1>1, <1>6, <1>8, <1>11 DEF Come
<1> QED BY ONLY <1>11, <1>14, <1>15 DEF Puts

(* Keys for the reader are fed until it is done; the rest wait.            *)
LEMMA FeedKept ==
  ASSUME NEW s, Ordered(s), Empties(s), NEW keys, ComesAfter(s, keys), NEW t, t = Feed(s, keys)
  PROVE  Ordered(t) /\ Puts(s, t, Ids(keys)) /\ Empties(t)
<1>1. PICK f, k : f = Fed(s.reader, keys) /\ k = Len(keys)
  OBVIOUS
<1>2. keys \in Seq(Keys) /\ k \in Nat /\ s.reader \in Readers /\ DOMAIN s = ShFields
  BY <1>1 DEF Ordered, ComesAfter
<1>3. f \in FedAfter(s.reader, k)
  BY ONLY <1>1, <1>2, FedIs
<1>4. /\ f.r \in Readers /\ f.n \in 0..k /\ (f.r.value = "none" => f.n = k)
      /\ (s.reader.value # "none" => f.r = s.reader /\ f.n = 0)
  BY ONLY <1>3 DEF FedAfter, Feeding
<1>5. PICK n, a, b : n = f.n /\ a = SubSeq(keys, 1, n) /\ b = SubSeq(keys, n + 1, Len(keys))
  OBVIOUS
<1>6. /\ a \in Seq(Keys) /\ b \in Seq(Keys) /\ Len(a) = n /\ Len(b) = k - n
      /\ Ids(keys) = Ids(a) \cup Ids(b) /\ Rising(b) /\ Below(Ids(a), Ids(b))
  <2>1. IsCut(keys, n, a, b) /\ Rising(keys)
    BY <1>1, <1>4, <1>5 DEF ComesAfter, IsCut
  <2>2. Halves(keys, n, a, b)
    BY ONLY <1>2, <2>1, CutKeys
  <2> QED BY <1>1, <2>2 DEF Halves
<1>7. PICK d : d = [s EXCEPT !.reader = f.r, !.fed = s.fed \cup Ids(a)]
  OBVIOUS
<1>8. /\ DOMAIN d = ShFields /\ d.typeahead = s.typeahead /\ d.told = s.told /\ d.fed = s.fed \cup Ids(a)
      /\ d.reader = f.r /\ d.arrived = s.arrived /\ d.pc = s.pc
  BY ONLY <1>2, <1>7 DEF ShFields
<1>9. PICK h : h = s.typeahead
  OBVIOUS
<1>10. h = <<>> \/ n = 0
  BY <1>4, <1>5, <1>9 DEF Empties
<1>11. Ids(h) = {} \/ Ids(a) = {}
  <2>1. CASE h = <<>>
    BY <2>1, NoIds
  <2>2. CASE n = 0
    <3>1. a = <<>>
      BY <1>6, <2>2
    <3> QED BY <3>1, NoIds
  <2> QED BY <1>10, <2>1, <2>2
<1>12. Below(s.fed, Ids(h)) /\ Below(s.fed, Ids(b)) /\ Below(Ids(h), Ids(b)) /\ Rising(h)
       /\ h \in Seq(Keys) /\ Len(h) <= 2 * LineChars
  BY <1>6, <1>9 DEF Ordered, ComesAfter, Below
<1>13. Ordered(d) /\ ComesAfter(d, b)
  <2>1. Below(d.fed, Ids(h)) /\ Below(d.fed \cup Ids(h), Ids(b))
    BY ONLY <1>6, <1>8, <1>11, <1>12 DEF Below
  <2> QED BY ONLY <1>4, <1>6, <1>8, <1>9, <1>12, <2>1 DEF Ordered, ComesAfter
<1>14. Puts(s, d, Ids(a))
  BY ONLY <1>8 DEF Puts, Come
<1>15. PICK e : e = Ahead(d, b)
  OBVIOUS
<1>16. Ordered(e) /\ Puts(d, e, Ids(b)) /\ e.reader = d.reader
  BY ONLY <1>13, <1>15, AheadKept
<1>17. t = IF n = k THEN d ELSE e
  BY <1>1, <1>5, <1>7, <1>15 DEF Feed
<1>18. CASE n = k
  <2>1. b = <<>>
    BY <1>2, <1>4, <1>5, <1>6, <1>18
  <2>2. Ids(keys) = Ids(a)
    BY <1>6, <2>1, NoIds
  <2>3. Empties(d)
    BY <1>4, <1>5, <1>8, <1>18 DEF Empties
  <2> QED BY <1>13, <1>14, <1>17, <1>18, <2>2, <2>3
<1>19. CASE n # k
  <2>1. e.reader.value # "none"
    BY <1>4, <1>5, <1>8, <1>16, <1>19
  <2>2. Puts(s, e, Ids(keys))
    BY ONLY <1>6, <1>14, <1>16 DEF Puts
  <2> QED BY <1>16, <1>17, <1>19, <2>1, <2>2 DEF Empties
<1> QED BY <1>18, <1>19

(* A reader that opens is given what was typed ahead.                      *)
LEMMA OpenKept ==
  ASSUME NEW s, InPlace(s), NEW pc, NEW t, t = OpenReader(s, pc)
  PROVE  InPlace(t) /\ t.arrived = s.arrived
<1>1. PICK d, h, r : /\ d = [s EXCEPT !.pc = pc, !.reader = r, !.typeahead = <<>>]
                    /\ h = s.typeahead /\ r = [buf |-> 0, value |-> "none"]
  OBVIOUS
<1>2. /\ DOMAIN s = ShFields /\ h \in Seq(Keys) /\ Rising(h) /\ Below(s.fed, Ids(h))
      /\ Come(s) = 1..s.arrived
  BY <1>1 DEF InPlace, Ordered
<1>3. /\ DOMAIN d = ShFields /\ d.typeahead = <<>> /\ d.told = s.told /\ d.fed = s.fed
      /\ d.reader = r /\ d.arrived = s.arrived /\ d.pc = pc
  BY ONLY <1>1, <1>2 DEF ShFields
<1>4. Ordered(d) /\ Empties(d)
  <2>1. r \in Readers
    BY <1>1 DEF Readers, Values
  <2>2. Below(d.fed, {}) /\ 0 <= 2 * LineChars
    BY ShellAssumption DEF Below
  <2> QED BY ONLY <1>3, <2>1, <2>2, NoIds DEF Ordered, Empties
<1>5. ComesAfter(d, h)
  <2>1. d.fed \cup {} = s.fed
    BY <1>3
  <2> QED BY ONLY <1>2, <1>3, <2>1, NoIds DEF ComesAfter
<1>6. t = Feed(d, h)
  BY <1>1 DEF OpenReader
<1>7. Ordered(t) /\ Puts(d, t, Ids(h)) /\ Empties(t)
  BY ONLY <1>4, <1>5, <1>6, FeedKept
<1>8. Come(t) = Come(s)
  BY ONLY <1>1, <1>3, <1>7, NoIds DEF Puts, Come
<1> QED BY ONLY <1>2, <1>3, <1>7, <1>8 DEF Puts, InPlace, ReaderHasAll

(* The keys are where they were, and no reader waits that did not.         *)
KeysStay(s, t) ==
  /\ DOMAIN t = ShFields /\ t.reader = s.reader /\ t.typeahead = s.typeahead
  /\ t.fed = s.fed /\ t.told = s.told /\ t.arrived = s.arrived
  /\ t.pc \in {"prompt", "reads"} => t.pc = s.pc

(* Then they are kept. *)
LEMMA KeepsKept ==
  ASSUME NEW s, Ordered(s), NEW t, KeysStay(s, t)
  PROVE  Ordered(t) /\ Come(t) = Come(s) /\ t.arrived = s.arrived /\ (ReaderHasAll(s) => ReaderHasAll(t))
         /\ (Empties(s) => Empties(t))
BY DEF Ordered, KeysStay, Come, ReaderHasAll, Empties

(* An abort keeps them. *)
LEMMA AbortedKept == \A s : DOMAIN s = ShFields => KeysStay(s, Aborted(s))
BY DEF Aborted, KeysStay, ShFields

(* What was typed ahead is dropped, and more. *)
Drops(s, t, A) ==
  /\ DOMAIN t = ShFields /\ t.reader \in Readers /\ t.typeahead = <<>>
  /\ t.fed = s.fed /\ t.told = s.told \cup Ids(s.typeahead) \cup A /\ t.arrived = s.arrived

(* Then nothing waits. *)
LEMMA DropsKept ==
  ASSUME NEW s, NEW A, NEW t, Drops(s, t, A)
  PROVE  Ordered(t) /\ Come(t) = Come(s) \cup A /\ t.arrived = s.arrived /\ ReaderHasAll(t)
<1>1. Below(t.fed, {}) /\ 0 <= 2 * LineChars
  BY ShellAssumption DEF Below
<1>2. Ordered(t)
  BY ONLY <1>1, NoIds, Drops(s, t, A) DEF Drops, Ordered
<1>3. Come(t) = Come(s) \cup A
  BY ONLY NoIds, Drops(s, t, A) DEF Drops, Come
<1> QED BY <1>2, <1>3 DEF Drops, ReaderHasAll, Empties

(* Input that comes to the kernel: it is fed, waits, or is dropped.        *)
LEMMA WrittenKept ==
  ASSUME NEW s, InPlace(s), s.alive, NEW keys, ComesAfter(s, keys), NEW t, t = Written(s, keys)
  PROVE  Ordered(t) /\ Come(t) = Come(s) \cup Ids(keys) /\ ReaderHasAll(t)
<1>1. PICK d, a, A : /\ d = [s EXCEPT !.told = s.told \cup Ids(s.typeahead) \cup A, !.typeahead = <<>>]
                    /\ a = Aborted(d) /\ A = Ids(keys)
  OBVIOUS
<1>2. Ordered(s) /\ DOMAIN s = ShFields /\ s.reader \in Readers
  BY DEF InPlace, Ordered
<1>3. Drops(s, d, A)
  <2>1. /\ DOMAIN d = ShFields /\ d.typeahead = <<>> /\ d.reader = s.reader
        /\ d.told = s.told \cup Ids(s.typeahead) \cup A /\ d.fed = s.fed /\ d.arrived = s.arrived
    BY ONLY <1>1, <1>2 DEF ShFields
  <2> QED BY ONLY <1>2, <2>1 DEF Drops
<1>4. Ordered(d) /\ Come(d) = Come(s) \cup A /\ ReaderHasAll(d)
  BY ONLY <1>3, DropsKept
<1>5. Ordered(a) /\ Come(a) = Come(d) /\ ReaderHasAll(a)
  <2>1. KeysStay(d, a)
    BY <1>1, <1>3, AbortedKept DEF Drops
  <2> QED BY ONLY <1>4, <2>1, KeepsKept
<1>6. CASE Pending(s)
  <2>1. Empties(s)
    BY <1>6 DEF InPlace, Pending, ReaderHasAll
  <2>2. PICK e : e = Feed(s, keys)
    OBVIOUS
  <2>3. Ordered(e) /\ Puts(s, e, Ids(keys)) /\ Empties(e)
    BY ONLY <1>2, <2>1, <2>2, ComesAfter(s, keys), FeedKept
  <2>4. t = e
    BY <1>6, <2>2 DEF Written
  <2> QED BY <2>3, <2>4 DEF Puts, ReaderHasAll
<1>7. CASE ~ Pending(s) /\ Busy(s) /\ HasInt(keys)
  <2>1. t = a
    BY <1>1, <1>7 DEF Written
  <2> QED BY <1>1, <1>4, <1>5, <2>1
<1>8. CASE ~ Pending(s) /\ ~ (Busy(s) /\ HasInt(keys))
  <2>2. PICK e : e = Ahead(s, keys)
    OBVIOUS
  <2>3. Ordered(e) /\ Puts(s, e, Ids(keys)) /\ e.reader = s.reader
    BY ONLY <1>2, <2>2, ComesAfter(s, keys), AheadKept
  <2>4. t = e
    BY <1>8, <2>2 DEF Written
  <2>5. s.pc \notin {"prompt", "reads"}
    BY <1>8 DEF Pending
  <2> QED BY <2>3, <2>4, <2>5 DEF Puts, ReaderHasAll
<1> QED BY <1>6, <1>7, <1>8

(* A signal drops what waits.                                              *)
LEMMA SignalledKept ==
  ASSUME NEW s, InPlace(s), NEW t, t = Signalled(s)
  PROVE  InPlace(t) /\ t.arrived = s.arrived
<1>1. PICK c, a, r : /\ c = [s EXCEPT !.told = s.told \cup Ids(s.typeahead), !.typeahead = <<>>]
                    /\ a = Aborted(c) /\ r = [c EXCEPT !.reader = [buf |-> 0, value |-> "aborted"]]
  OBVIOUS
<1>2. Ordered(s) /\ DOMAIN s = ShFields /\ s.reader \in Readers
  BY DEF InPlace, Ordered
<1>3. /\ DOMAIN c = ShFields /\ c.typeahead = <<>> /\ c.reader = s.reader
      /\ c.told = s.told \cup Ids(s.typeahead) /\ c.fed = s.fed /\ c.arrived = s.arrived
  BY ONLY <1>1, <1>2 DEF ShFields
<1>4. /\ DOMAIN r = ShFields /\ r.typeahead = <<>> /\ r.reader = [buf |-> 0, value |-> "aborted"]
      /\ r.told = c.told /\ r.fed = c.fed /\ r.arrived = c.arrived
  BY ONLY <1>1, <1>3 DEF ShFields
<1>5. [buf |-> 0, value |-> "aborted"] \in Readers
  BY DEF Readers, Values
<1>6. Drops(s, c, {}) /\ Drops(s, r, {})
  BY ONLY <1>2, <1>3, <1>4, <1>5 DEF Drops
<1>7. Ordered(c) /\ Come(c) = Come(s) \cup {} /\ c.arrived = s.arrived /\ ReaderHasAll(c)
  BY ONLY <1>6, DropsKept
<1>8. Ordered(r) /\ Come(r) = Come(s) \cup {} /\ r.arrived = s.arrived /\ ReaderHasAll(r)
  BY ONLY <1>6, DropsKept
<1>9. Ordered(a) /\ Come(a) = Come(c) /\ a.arrived = c.arrived /\ ReaderHasAll(a)
  <2>1. KeysStay(c, a)
    BY <1>1, <1>3, AbortedKept
  <2> QED BY ONLY <1>7, <2>1, KeepsKept
<1>10. InPlace(c) /\ InPlace(r) /\ InPlace(a)
  BY <1>7, <1>8, <1>9 DEF InPlace
<1>11. t \in {s, c, r, a}
  BY <1>1 DEF Signalled
<1> QED BY <1>7, <1>8, <1>9, <1>10, <1>11

-----------------------------------------------------------------------------
(* Shell: the interpreter keeps the keys.                                  *)

(* As long as the shell is alive. *)
Alive(s) == s.alive => InPlace(s)
Sound(s) == DOMAIN s = ShFields /\ s.exited \in BOOLEAN /\ Alive(s)
Proceeds(s, t) == Alive(t) /\ t.arrived = s.arrived

(* A step that leaves the keys where they are.                             *)
LEMMA KeepsGoes ==
  ASSUME NEW s, Sound(s), NEW t, KeysStay(s, t), t.alive = s.alive \/ t.alive = FALSE
  PROVE  Proceeds(s, t)
<1>1. t.arrived = s.arrived
  BY DEF KeysStay
<1>2. ASSUME t.alive PROVE InPlace(t)
  <2>1. s.alive
    BY <1>2
  <2>2. Ordered(s) /\ Come(s) = 1..s.arrived /\ ReaderHasAll(s)
    BY <2>1 DEF Sound, Alive, InPlace
  <2>3. Ordered(t) /\ Come(t) = Come(s) /\ (ReaderHasAll(s) => ReaderHasAll(t))
    BY ONLY <2>2, KeysStay(s, t), KeepsKept
  <2> QED BY <1>1, <2>2, <2>3 DEF InPlace
<1> QED BY <1>1, <1>2 DEF Proceeds, Alive

Ended(s, t) == t = s \/ (DOMAIN t = ShFields /\ t.alive = FALSE /\ t.arrived = s.arrived)

(* The end of a session: nothing changes, or the shell is no longer alive. *)
LEMMA FinishedGoes ==
  ASSUME NEW s, Sound(s), NEW code, NEW reason, NEW t, t = Finished(s, code, reason)
  PROVE  Ended(s, t)
<1>1. DOMAIN s = ShFields /\ s.exited \in BOOLEAN
  BY DEF Sound
<1>2. CASE s.exited = TRUE
  BY <1>2 DEF Finished, Ended
<1>3. CASE s.exited = FALSE
  <2>1. PICK a, c, v, x : /\ a = Aborted(s) /\ c = (IF Busy(s) THEN a ELSE s)
            /\ v = (IF Pending(s) /\ s.reader.value = "none" THEN "null" ELSE s.reader.value)
            /\ x = <<[t |-> "exit", code |-> code, reason |-> reason]>>
    OBVIOUS
  <2>2. DOMAIN c = ShFields /\ c.arrived = s.arrived
    BY <1>1, <2>1, AbortedKept DEF KeysStay
  <2>3. t = [c EXCEPT !.exited = TRUE, !.alive = FALSE, !.reader.value = v, !.exit = x]
    BY <1>3, <2>1 DEF Finished
  <2>4. DOMAIN t = ShFields /\ t.alive = FALSE /\ t.arrived = c.arrived
    BY ONLY <2>2, <2>3 DEF ShFields
  <2> QED BY <2>2, <2>4 DEF Ended
<1> QED BY <1>1, <1>2, <1>3

(* A logout. *)
LEMMA LogoutGoes ==
  ASSUME NEW s, Sound(s), NEW t, t = [Finished(s, s.exitCode, "logout") EXCEPT !.pc = "over"]
  PROVE  Proceeds(s, t)
<1>1. PICK f, code, reason : f = Finished(s, code, reason) /\ code = s.exitCode /\ reason = "logout"
  OBVIOUS
<1>2. t = [f EXCEPT !.pc = "over"]
  BY <1>1
<1>3. f = s \/ (DOMAIN f = ShFields /\ f.alive = FALSE /\ f.arrived = s.arrived)
  <2>1. Ended(s, f)
    BY ONLY <1>1, Sound(s), FinishedGoes
  <2> QED BY <2>1 DEF Ended
<1>4. CASE f = s
  <2>1. DOMAIN s = ShFields
    BY DEF Sound
  <2>2. KeysStay(s, t) /\ t.alive = s.alive
    BY ONLY <1>2, <1>4, <2>1 DEF KeysStay, ShFields
  <2> QED BY ONLY <2>2, Sound(s), KeepsGoes
<1>5. CASE DOMAIN f = ShFields /\ f.alive = FALSE /\ f.arrived = s.arrived
  <2>1. t.alive = FALSE /\ t.arrived = s.arrived
    BY ONLY <1>2, <1>5 DEF ShFields
  <2> QED BY <2>1 DEF Proceeds, Alive
<1> QED BY <1>3, <1>4, <1>5

(* A reader opens. *)
LEMMA OpenGoes ==
  ASSUME NEW s, Sound(s), NEW pc, NEW t, t = OpenReader(s, pc)
  PROVE  Proceeds(s, t)
<1>2. DOMAIN s = ShFields
  BY DEF Sound
<1>4. t.alive = s.alive /\ t.arrived = s.arrived
  BY <1>2, OpenStays DEF Rests
<1>5. CASE s.alive
  BY <1>4, <1>5, OpenKept DEF Sound, Alive, Proceeds
<1>6. CASE ~ s.alive
  BY <1>4, <1>6 DEF Proceeds, Alive
<1> QED BY <1>5, <1>6

-----------------------------------------------------------------------------
(* Shell: the input on its way.                                            *)

(* The keys of one message have successive numbers. *)
Burst(keys) == keys \in Seq(Keys) /\ keys # <<>> /\ \A i \in 1..Len(keys) : keys[i].id = keys[1].id + i - 1
LastId(m) == m.keys[Len(m.keys)].id

(* n is the last key before place i of the way q, if a is the last that    *)
(* has arrived.                                                            *)
Prior(q, a, i, n) ==
  \/ n = a /\ \A j \in 1..(i - 1) : q[j].t # "input"
  \/ \E j \in 1..(i - 1) : /\ q[j].t = "input" /\ LastId(q[j]) = n
                           /\ \A l \in (j + 1)..(i - 1) : q[l].t # "input"

(* Each message goes on where the input before it ends. *)
Continued(m, q, a, i) == m.t = "input" => Burst(m.keys) /\ Prior(q, a, i, m.keys[1].id - 1)
Queued(q, a) == (\E S : q \in Seq(S)) /\ \A i \in 1..Len(q) : Continued(q[i], q, a, i)

(* The numbers of a message's keys. *)
LEMMA BurstIs ==
  ASSUME NEW keys, Burst(keys), NEW a \in Nat, keys[1].id - 1 = a, NEW b, b = keys[Len(keys)].id
  PROVE  b \in Nat /\ b >= a /\ Rising(keys) /\ Ids(keys) = (a + 1)..b
<1>1. PICK k : k = Len(keys)
  OBVIOUS
<1>2. keys \in Seq(Keys) /\ k \in Nat /\ k >= 1 /\ DOMAIN keys = 1..k /\ 1 \in 1..k /\ k \in 1..k
  BY <1>1 DEF Burst
<1>3. \A i \in 1..k : keys[i].id = a + i
  <2>1. \A i \in 1..k : keys[i].id \in Nat /\ keys[i].id = keys[1].id + i - 1
    BY <1>1, <1>2, KeysAre DEF Burst
  <2>2. keys[1].id = a + 1
    BY <1>2, <2>1
  <2> QED BY <2>1, <2>2
<1>4. b = a + k
  BY <1>1, <1>2, <1>3
<1>5. Rising(keys)
  BY <1>2, <1>3 DEF Rising
<1>6. Ids(keys) = {keys[i].id : i \in 1..k}
  BY <1>2 DEF Ids
<1>7. ASSUME NEW x \in (a + 1)..b PROVE x \in Ids(keys)
  <2>1. PICK i : i = x - a
    OBVIOUS
  <2>2. i \in 1..k /\ x = a + i
    BY <1>2, <1>4, <2>1
  <2> QED BY <1>3, <1>6, <2>2
<1>8. ASSUME NEW i \in 1..k PROVE keys[i].id \in (a + 1)..b
  BY <1>2, <1>3, <1>4
<1> QED BY <1>2, <1>4, <1>5, <1>6, <1>7, <1>8

(* What has arrived once the first message is handled. *)
Arrived(m, a, b) == IF m.t = "input" THEN b = LastId(m) ELSE b = a

(* The others have the same input before them. *)
LEMMA PriorTail ==
  ASSUME NEW S, NEW q \in Seq(S), q # <<>>, NEW a, NEW b, Arrived(q[1], a, b),
         NEW r, r = Tail(q), NEW i \in 1..Len(q), NEW n, Prior(q, a, i + 1, n)
  PROVE  Prior(r, b, i, n)
<1>1. PICK k : k = Len(q)
  OBVIOUS
<1>2. k \in Nat /\ k >= 1 /\ i \in 1..k
  BY <1>1
<1>3. \A j \in 1..(k - 1) : r[j] = q[j + 1]
  BY <1>1, <1>2
<1>4. \A j \in 1..(i - 1) : r[j] = q[j + 1] /\ j + 1 \in 1..i
  BY <1>2, <1>3
<1>5. CASE n = a /\ \A j \in 1..i : q[j].t # "input"
  <2>1. b = a
    BY <1>2, <1>5 DEF Arrived
  <2> QED BY <1>4, <1>5, <2>1 DEF Prior
<1>6. CASE \E j \in 1..i : /\ q[j].t = "input" /\ LastId(q[j]) = n
                           /\ \A l \in (j + 1)..i : q[l].t # "input"
  <2>1. PICK j \in 1..i : /\ q[j].t = "input" /\ LastId(q[j]) = n
                          /\ \A l \in (j + 1)..i : q[l].t # "input"
    BY <1>6
  <2>2. CASE j = 1
    <3>1. b = n
      BY <2>1, <2>2 DEF Arrived
    <3>2. \A l \in 1..(i - 1) : l + 1 \in 2..i
      BY <1>2
    <3>3. \A l \in 2..i : q[l].t # "input"
      BY <2>1, <2>2
    <3>4. \A l \in 1..(i - 1) : r[l].t # "input"
      BY <1>4, <3>2, <3>3
    <3> QED BY <3>1, <3>4 DEF Prior
  <2>3. CASE j # 1
    <3>1. PICK p : p = j - 1
      OBVIOUS
    <3>2. p \in 1..(i - 1) /\ p + 1 = j
      BY <1>2, <2>3, <3>1
    <3>3. \A l \in (p + 1)..(i - 1) : l \in 1..(i - 1) /\ l + 1 \in (j + 1)..i
      BY <1>2, <3>2
    <3>4. \A l \in (p + 1)..(i - 1) : r[l].t # "input"
      BY <1>4, <2>1, <3>3
    <3>5. r[p] = q[j]
      BY <1>4, <3>2
    <3> QED BY <2>1, <3>2, <3>4, <3>5 DEF Prior
  <2> QED BY <2>2, <2>3
<1>7. i + 1 - 1 = i
  BY <1>2
<1> QED BY <1>5, <1>6, <1>7 DEF Prior

(* A message is handled. *)
LEMMA QueueTail ==
  ASSUME NEW q, NEW a, Queued(q, a), q # <<>>, NEW b, Arrived(q[1], a, b), NEW r, r = Tail(q)
  PROVE  /\ Queued(r, b)
         /\ \A n : Prior(q, a, Len(q) + 1, n) => Prior(r, b, Len(r) + 1, n)
<1>1. PICK S : q \in Seq(S)
  BY DEF Queued
<1>2. PICK k : k = Len(q)
  OBVIOUS
<1>3. k \in Nat /\ k >= 1 /\ r \in Seq(S) /\ Len(r) = k - 1 /\ \A j \in 1..(k - 1) : r[j] = q[j + 1]
  BY <1>1, <1>2
<1>4. ASSUME NEW i \in 1..k, NEW n, Prior(q, a, i + 1, n) PROVE Prior(r, b, i, n)
  <2>1. i \in 1..Len(q)
    BY <1>2
  <2> QED BY ONLY <1>1, <1>4, <2>1, q # <<>>, Arrived(q[1], a, b), r = Tail(q), PriorTail
<1>5. ASSUME NEW i \in 1..(k - 1) PROVE Continued(r[i], r, b, i)
  <2>1. i \in 1..k /\ i + 1 \in 1..k
    BY <1>3
  <2>2. PICK m, n : m = r[i] /\ n = m.keys[1].id - 1
    OBVIOUS
  <2>3. m = q[i + 1]
    BY <1>3, <2>2
  <2>4. Continued(m, q, a, i + 1)
    BY <1>2, <2>1, <2>3 DEF Queued
  <2>5. m.t = "input" => Burst(m.keys) /\ Prior(q, a, i + 1, n)
    BY <2>2, <2>4 DEF Continued
  <2>6. m.t = "input" => Burst(m.keys) /\ Prior(r, b, i, n)
    BY <1>4, <2>1, <2>5
  <2> QED BY <2>2, <2>6 DEF Continued
<1>6. ASSUME NEW n, Prior(q, a, Len(q) + 1, n) PROVE Prior(r, b, Len(r) + 1, n)
  <2>1. k \in 1..k /\ Len(r) + 1 = k
    BY <1>3
  <2> QED BY <1>2, <1>4, <1>6, <2>1
<1> QED BY <1>3, <1>5, <1>6 DEF Queued

(* Nothing of what is before a place changes. *)
LEMMA PriorSame ==
  ASSUME NEW i \in Nat, NEW q, NEW r, \A j \in 1..(i - 1) : r[j] = q[j], NEW a, NEW n, Prior(q, a, i, n)
  PROVE  Prior(r, a, i, n)
<1>1. CASE n = a /\ \A j \in 1..(i - 1) : q[j].t # "input"
  BY <1>1 DEF Prior
<1>2. CASE \E j \in 1..(i - 1) : /\ q[j].t = "input" /\ LastId(q[j]) = n
                                 /\ \A l \in (j + 1)..(i - 1) : q[l].t # "input"
  <2>1. PICK j \in 1..(i - 1) : /\ q[j].t = "input" /\ LastId(q[j]) = n
                                /\ \A l \in (j + 1)..(i - 1) : q[l].t # "input"
    BY <1>2
  <2>2. \A l \in (j + 1)..(i - 1) : l \in 1..(i - 1)
    OBVIOUS
  <2>3. \A l \in (j + 1)..(i - 1) : r[l].t # "input"
    BY <2>1, <2>2
  <2> QED BY <2>1, <2>3 DEF Prior
<1> QED BY <1>1, <1>2 DEF Prior

(* A message is sent. *)
LEMMA QueueAppend ==
  ASSUME NEW q, NEW a, Queued(q, a), NEW m, Continued(m, q, a, Len(q) + 1), NEW r, r = Append(q, m)
  PROVE  /\ Queued(r, a)
         /\ m.t = "input" => Prior(r, a, Len(r) + 1, LastId(m))
         /\ m.t # "input" => \A n : Prior(q, a, Len(q) + 1, n) => Prior(r, a, Len(r) + 1, n)
<1>1. PICK S : q \in Seq(S)
  BY DEF Queued
<1>2. PICK k : k = Len(q)
  OBVIOUS
<1>3. /\ k \in Nat /\ Len(r) = k + 1 /\ r \in Seq(S \cup {m})
      /\ r[k + 1] = m /\ \A j \in 1..k : r[j] = q[j]
  BY <1>1, <1>2
<1>4. ASSUME NEW i \in 1..(k + 1), NEW n, Prior(q, a, i, n) PROVE Prior(r, a, i, n)
  <2>1. \A j \in 1..(i - 1) : r[j] = q[j]
    BY <1>3
  <2>2. i \in Nat
    OBVIOUS
  <2> QED BY ONLY <1>4, <2>1, <2>2, PriorSame
<1>5. ASSUME NEW i \in 1..(k + 1) PROVE Continued(r[i], r, a, i)
  <2>1. PICK x, n : x = r[i] /\ n = x.keys[1].id - 1
    OBVIOUS
  <2>2. x.t = "input" => Burst(x.keys) /\ Prior(q, a, i, n)
    <3>1. CASE i = k + 1
      BY <1>2, <1>3, <2>1, <3>1 DEF Continued
    <3>2. CASE i # k + 1
      <4>1. i \in 1..k /\ x = q[i]
        BY <1>3, <2>1, <3>2
      <4>2. Continued(x, q, a, i)
        BY <1>2, <4>1 DEF Queued
      <4> QED BY <2>1, <4>2 DEF Continued
    <3> QED BY <3>1, <3>2
  <2> QED BY <1>4, <2>1, <2>2 DEF Continued
<1>6. ASSUME m.t = "input" PROVE Prior(r, a, Len(r) + 1, LastId(m))
  <2>1. PICK i : i = k + 2
    OBVIOUS
  <2>2. k + 1 \in 1..(i - 1) /\ \A l \in (k + 1 + 1)..(i - 1) : FALSE
    BY <1>3, <2>1
  <2>3. Prior(r, a, i, LastId(m))
    BY <1>3, <1>6, <2>2 DEF Prior
  <2>4. Len(r) + 1 = i
    BY <1>3, <2>1
  <2> QED BY <2>3, <2>4
<1>7. ASSUME m.t # "input", NEW n, Prior(q, a, k + 1, n) PROVE Prior(r, a, k + 2, n)
  <2>1. k + 1 \in 1..(k + 1)
    BY <1>3
  <2>2. Prior(r, a, k + 1, n)
    BY <1>4, <1>7, <2>1
  <2>3. PICK h, i : h = k + 1 /\ i = k + 2
    OBVIOUS
  <2>4. h - 1 = k /\ i - 1 = h /\ \A j \in 1..h : j \in 1..k \/ j = h
    BY <1>3, <2>3
  <2>5. \/ n = a /\ \A j \in 1..k : r[j].t # "input"
        \/ \E j \in 1..k : /\ r[j].t = "input" /\ LastId(r[j]) = n
                           /\ \A l \in (j + 1)..k : r[l].t # "input"
    <3>1. Prior(r, a, h, n)
      BY <2>2, <2>3
    <3>2. PICK y : y = h - 1
      OBVIOUS
    <3>3. y = k
      BY <2>4, <3>2
    <3> QED BY <3>1, <3>2, <3>3 DEF Prior
  <2>6. r[h].t # "input"
    BY <1>3, <1>7, <2>3
  <2>7. \/ n = a /\ \A j \in 1..h : r[j].t # "input"
        \/ \E j \in 1..h : /\ r[j].t = "input" /\ LastId(r[j]) = n
                           /\ \A l \in (j + 1)..h : r[l].t # "input"
    <3>1. CASE n = a /\ \A j \in 1..k : r[j].t # "input"
      BY <2>4, <2>6, <3>1
    <3>2. CASE \E j \in 1..k : /\ r[j].t = "input" /\ LastId(r[j]) = n
                                /\ \A l \in (j + 1)..k : r[l].t # "input"
      <4>1. PICK j \in 1..k : /\ r[j].t = "input" /\ LastId(r[j]) = n
                              /\ \A l \in (j + 1)..k : r[l].t # "input"
        BY <3>2
      <4>2. j \in 1..h /\ \A l \in (j + 1)..h : l \in (j + 1)..k \/ l = h
        BY <1>3, <2>3
      <4>3. \A l \in (j + 1)..h : r[l].t # "input"
        BY <2>6, <4>1, <4>2
      <4> QED BY <4>1, <4>2, <4>3
    <3> QED BY <2>5, <3>1, <3>2
  <2>8. Prior(r, a, i, n)
    <3>1. PICK y : y = i - 1
      OBVIOUS
    <3>2. y = h
      BY <2>4, <3>1
    <3> QED BY <2>7, <3>1, <3>2 DEF Prior
  <2> QED BY <2>3, <2>8
<1>8. Len(r) + 1 = k + 2 /\ Len(r) = k + 1
  BY <1>3
<1> QED BY <1>2, <1>3, <1>5, <1>6, <1>7, <1>8 DEF Queued

-----------------------------------------------------------------------------
(* Shell: no key is lost or overtaken.                                     *)

UserFields == {"inSeq", "typed", "accepted", "executed", "signals"}

(* The way is in order, and if the gateway has taken all input, its last   *)
(* key is the last that was typed.                                         *)
Coming ==
  /\ DOMAIN user = UserFields /\ user.typed \in Nat /\ user.inSeq \in Nat
  /\ gw.inSeq \in Nat /\ gw.inSeq <= user.inSeq
  /\ sh.arrived \in Nat /\ Queued(pipe, sh.arrived)
  /\ gw.inSeq = user.inSeq => Prior(pipe, sh.arrived, Len(pipe) + 1, user.typed)

KeysInv == Alive(sh) /\ Coming

(* The session is sound between two steps. *)
LEMMA ShIsSound == ExitsInv /\ Alive(sh) => Sound(sh)
BY ExitedIsBoolean DEF ExitsInv, Sound

(* The loop of the shell goes on, or it ends. *)
LEMMA LoopGoes ==
  ASSUME NEW s, Sound(s), NEW t, t = Loop(s)
  PROVE  Proceeds(s, t)
<1>1. CASE s.alive
  <2>1. PICK pc : pc = "prompt"
    OBVIOUS
  <2>2. t = OpenReader(s, pc)
    BY <1>1, <2>1 DEF Loop
  <2> QED BY ONLY <2>2, Sound(s), OpenGoes
<1>2. CASE ~ s.alive
  <2>1. t = [Finished(s, s.exitCode, "logout") EXCEPT !.pc = "over"]
    BY <1>2 DEF Loop
  <2> QED BY ONLY <2>1, Sound(s), LogoutGoes
<1> QED BY <1>1, <1>2

(* So does the line. *)
LEMMA NextSegmentGoes ==
  ASSUME Sound(sh), NEW plan, NEW code, NextSegment(sh, plan, code)
  PROVE  Proceeds(sh, sh')
<1>1. CASE sh' = Loop(sh)
  BY <1>1, LoopGoes
<1>2. CASE sh' = [sh EXCEPT !.pc = "boundary", !.plan = Rest(plan, code)]
  <2>1. PICK s, t, p : s = sh /\ t = sh' /\ p = Rest(plan, code)
    OBVIOUS
  <2>2. DOMAIN s = ShFields /\ t = [s EXCEPT !.pc = "boundary", !.plan = p] /\ Sound(s)
    BY <1>2, <2>1 DEF Sound
  <2>3. KeysStay(s, t) /\ t.alive = s.alive
    BY ONLY <2>2 DEF KeysStay, ShFields
  <2>4. Proceeds(s, t)
    BY ONLY <2>2, <2>3, KeepsGoes
  <2> QED BY <2>1, <2>4
<1> QED BY <1>1, <1>2 DEF NextSegment

(* The interpreter reads a line. *)
LEMMA LineReadGoes == Sound(sh) /\ LineRead => Proceeds(sh, sh')
<1> SUFFICES ASSUME Sound(sh), LineRead PROVE Proceeds(sh, sh')
  OBVIOUS
<1>1. ASSUME sh' = [Finished(sh, sh.exitCode, "logout") EXCEPT !.pc = "over"] PROVE Proceeds(sh, sh')
  BY <1>1, LogoutGoes
<1>2. ASSUME sh' = Loop(sh) PROVE Proceeds(sh, sh')
  BY <1>2, LoopGoes
<1>3. ASSUME NEW plan, NextSegment(sh, plan, 0) PROVE Proceeds(sh, sh')
  <2>1. PICK code : code = 0
    OBVIOUS
  <2> QED BY <1>3, <2>1, NextSegmentGoes
<1> QED BY <1>1, <1>2, <1>3 DEF LineRead

(* A pipeline runs, reads, ends or asks to exit; the timer of the exit.    *)
LEMMA RunGoes ==
  Sound(sh) /\ (Boundary \/ CommandReads \/ CommandReadLine \/ CommandDone \/ CommandExits \/ PipelineEnds \/ ExitTimer)
    => Proceeds(sh, sh')
<1> SUFFICES ASSUME Sound(sh),
                    Boundary \/ CommandReads \/ CommandReadLine \/ CommandDone \/ CommandExits \/ PipelineEnds \/ ExitTimer
             PROVE  Proceeds(sh, sh')
  OBVIOUS
<1>1. ASSUME NEW plan, NEW code, NextSegment(sh, plan, code) PROVE Proceeds(sh, sh')
  BY <1>1, NextSegmentGoes
<1>2. ASSUME NEW pc, sh' = OpenReader(sh, pc) PROVE Proceeds(sh, sh')
  BY <1>2, OpenGoes
<1>3. DOMAIN sh = ShFields
  BY DEF Sound
<1>4. ASSUME KeysStay(sh, sh'), sh'.alive = sh.alive \/ sh'.alive = FALSE PROVE Proceeds(sh, sh')
  BY <1>4, KeepsGoes
<1>5. CASE Boundary
  <2>1. ASSUME sh' = [sh EXCEPT !.pc = "runs", !.aborted = FALSE] PROVE Proceeds(sh, sh')
    <3>1. KeysStay(sh, sh') /\ sh'.alive = sh.alive
      BY ONLY <1>3, <2>1 DEF KeysStay, ShFields
    <3> QED BY <1>4, <3>1
  <2>2. ASSUME NextSegment(sh, <<>>, 0) PROVE Proceeds(sh, sh')
    <3>1. PICK plan, code : plan = <<>> /\ code = 0
      OBVIOUS
    <3> QED BY <1>1, <2>2, <3>1
  <2> QED BY <1>5, <2>1, <2>2 DEF Boundary
<1>6. CASE CommandReads
  <2>1. PICK pc : pc = "reads"
    OBVIOUS
  <2> QED BY <1>2, <1>6, <2>1 DEF CommandReads, Worker
<1>7. ASSUME sh' = [sh EXCEPT !.pc = "ends"] PROVE Proceeds(sh, sh')
  <2>1. KeysStay(sh, sh') /\ sh'.alive = sh.alive
    BY ONLY <1>3, <1>7 DEF KeysStay, ShFields
  <2> QED BY <1>4, <2>1
<1>8. CASE CommandReadLine
  <2>1. PICK pc : pc = "reads"
    OBVIOUS
  <2> QED BY <1>2, <1>7, <1>8, <2>1 DEF CommandReadLine, Worker
<1>9. CASE CommandDone
  BY <1>7, <1>9 DEF CommandDone, Worker
<1>10. CASE CommandExits
  <2>1. sh' = [sh EXCEPT !.pc = "ends", !.alive = FALSE, !.exitCode = ExitCode]
    BY <1>10 DEF CommandExits, Worker
  <2>2. KeysStay(sh, sh') /\ sh'.alive = FALSE
    BY ONLY <1>3, <2>1 DEF KeysStay, ShFields
  <2> QED BY <1>4, <2>2
<1>11. CASE PipelineEnds
  <2>1. ASSUME NEW code, NextSegment(sh, Tail(sh.plan), code) PROVE Proceeds(sh, sh')
    <3>1. PICK plan : plan = Tail(sh.plan)
      OBVIOUS
    <3> QED BY <1>1, <2>1, <3>1
  <2>2. ASSUME NextSegment(sh, <<>>, 0) PROVE Proceeds(sh, sh')
    <3>1. PICK plan, code : plan = <<>> /\ code = 0
      OBVIOUS
    <3> QED BY <1>1, <2>2, <3>1
  <2> QED BY <1>11, <2>1, <2>2 DEF PipelineEnds
<1>12. CASE ExitTimer
  <2>1. sh' = [sh EXCEPT !.exit = <<>>, !.gone = TRUE]
    BY <1>12 DEF ExitTimer
  <2>2. KeysStay(sh, sh') /\ sh'.alive = sh.alive
    BY ONLY <1>3, <2>1 DEF KeysStay, ShFields
  <2> QED BY <1>4, <2>2
<1> QED BY <1>5, <1>6, <1>8, <1>9, <1>10, <1>11, <1>12

(* A step that handles no message, and sends none, keeps the way. *)
LEMMA GoesKeys ==
  ASSUME KeysInv, Proceeds(sh, sh'), user' = user, pipe' = pipe, gw'.inSeq = gw.inSeq
  PROVE  KeysInv'
BY DEF KeysInv, Coming, Proceeds

(* So the steps of the interpreter keep the keys. *)
LEMMA InterpreterKeys ==
  ExitsInv /\ KeysInv
    /\ (LineRead \/ Boundary \/ CommandReads \/ CommandReadLine \/ CommandDone \/ CommandExits \/ PipelineEnds \/ ExitTimer)
    => KeysInv'
<1> SUFFICES ASSUME ExitsInv, KeysInv,
              LineRead \/ Boundary \/ CommandReads \/ CommandReadLine \/ CommandDone \/ CommandExits \/ PipelineEnds \/ ExitTimer
             PROVE  KeysInv'
  OBVIOUS
<1>1. Sound(sh)
  BY ShIsSound DEF KeysInv
<1>2. Proceeds(sh, sh')
  BY <1>1, LineReadGoes, RunGoes
<1>3. user' = user /\ pipe' = pipe /\ gw' = gw
  BY DEF LineRead, Boundary, CommandReads, CommandReadLine, CommandDone, CommandExits, PipelineEnds, ExitTimer, Worker
<1> QED BY <1>2, <1>3, GoesKeys

(* A message is handled. *)
LEMMA HandledKeys ==
  ASSUME Coming, Handles, user' = user, gw' = gw, sh'.arrived \in Nat, Arrived(Head(pipe), sh.arrived, sh'.arrived)
  PROVE  Coming'
<1>1. PICK q, r, a, b, u : q = pipe /\ r = pipe' /\ a = sh.arrived /\ b = sh'.arrived /\ u = user.typed
  OBVIOUS
<1>2. Queued(q, a) /\ q # <<>> /\ r = Tail(q)
  BY <1>1 DEF Coming, Handles
<1>3. Arrived(q[1], a, b)
  <2>1. Head(q) = q[1]
    BY <1>2 DEF Queued
  <2> QED BY <1>1, <2>1
<1>4. Queued(r, b) /\ \A n : Prior(q, a, Len(q) + 1, n) => Prior(r, b, Len(r) + 1, n)
  BY ONLY <1>2, <1>3, QueueTail
<1>5. Queued(pipe', sh'.arrived)
  BY <1>1, <1>4
<1>6. gw'.inSeq = user'.inSeq => Prior(pipe', sh'.arrived, Len(pipe') + 1, user'.typed)
  BY <1>1, <1>4 DEF Coming
<1> QED BY <1>5, <1>6 DEF Coming

(* Input arrives. *)
LEMMA HandleInputKeys == ExitsInv /\ KeysInv /\ HandleInput => KeysInv'
<1> SUFFICES ASSUME ExitsInv, KeysInv, HandleInput PROVE KeysInv'
  OBVIOUS
<1>1. PICK s, t, m, a, b, keys, w, seq :
        /\ s = sh /\ t = sh' /\ m = Head(pipe) /\ a = sh.arrived /\ b = LastId(m) /\ keys = m.keys
        /\ w = Written(sh, keys) /\ seq = Head(pipe).seq
  OBVIOUS
<1>2. /\ Handles /\ m.t = "input" /\ t = [w EXCEPT !.inputSeq = seq, !.arrived = b]
      /\ user' = user /\ gw' = gw
  BY <1>1 DEF HandleInput, LastId
<1>3. Sound(s) /\ DOMAIN s = ShFields
  BY <1>1, ShIsSound DEF KeysInv, Sound
<1>4. Rests(s, w)
  BY <1>1, <1>3, WrittenStays
<1>5. DOMAIN w = ShFields /\ w.alive = s.alive
  BY <1>3, <1>4 DEF Rests, Stays
<1>6. /\ DOMAIN t = ShFields /\ t.arrived = b /\ t.alive = w.alive /\ t.reader = w.reader
      /\ t.typeahead = w.typeahead /\ t.fed = w.fed /\ t.told = w.told /\ t.pc = w.pc
  BY ONLY <1>2, <1>5 DEF ShFields
<1>7. a \in Nat /\ Burst(keys) /\ keys[1].id - 1 = a
  <2>1. Queued(pipe, a) /\ pipe # <<>> /\ a \in Nat
    BY <1>1, <1>2 DEF KeysInv, Coming, Handles
  <2>2. m = pipe[1] /\ 1 \in 1..Len(pipe)
    BY <1>1, <2>1 DEF Queued
  <2>3. PICK i : i = 1
    OBVIOUS
  <2>4. Continued(m, pipe, a, i)
    BY <2>1, <2>2, <2>3 DEF Queued
  <2>5. Burst(m.keys) /\ Prior(pipe, a, i, m.keys[1].id - 1)
    BY <1>2, <2>4 DEF Continued
  <2>6. PICK n : n = m.keys[1].id - 1
    OBVIOUS
  <2>7. \A j \in 1..(i - 1) : FALSE
    BY <2>3
  <2>8. n = a
    BY <2>5, <2>6, <2>7 DEF Prior
  <2> QED BY <1>1, <2>1, <2>5, <2>6, <2>8
<1>8. b = keys[Len(keys)].id
  BY <1>1 DEF LastId
<1>9. b \in Nat /\ b >= a /\ Rising(keys) /\ Ids(keys) = (a + 1)..b
  BY ONLY <1>7, <1>8, BurstIs
<1>10. Coming'
  <2>1. Arrived(Head(pipe), sh.arrived, sh'.arrived)
    BY <1>1, <1>2, <1>6 DEF Arrived
  <2>2. sh'.arrived \in Nat
    BY <1>1, <1>6, <1>9
  <2> QED BY <1>2, <2>1, <2>2, HandledKeys DEF KeysInv
<1>11. ASSUME t.alive PROVE InPlace(t)
  <2>1. s.alive /\ InPlace(s)
    BY <1>3, <1>5, <1>6, <1>11 DEF Sound, Alive
  <2>2. Ordered(s) /\ Come(s) = 1..a
    BY <1>1, <2>1 DEF InPlace
  <2>3. Below(1..a, (a + 1)..b)
    BY ONLY <1>7, <1>9 DEF Below
  <2>4. s.fed \cup Ids(s.typeahead) \subseteq 1..a
    BY ONLY <2>2 DEF Come
  <2>5. Below(s.fed \cup Ids(s.typeahead), Ids(keys))
    BY ONLY <1>9, <2>3, <2>4 DEF Below
  <2>6. ComesAfter(s, keys)
    BY <1>7, <1>9, <2>5 DEF ComesAfter, Burst
  <2>7. w = Written(s, keys)
    BY <1>1
  <2>8. Ordered(w) /\ Come(w) = Come(s) \cup Ids(keys) /\ ReaderHasAll(w)
    BY ONLY <2>1, <2>6, <2>7, WrittenKept
  <2>9. Come(w) = 1..b
    <3>1. \A x \in 1..b : x \in 1..a \/ x \in (a + 1)..b
      BY ONLY <1>7, <1>9
    <3>2. \A x \in 1..a : x \in 1..b
      BY ONLY <1>7, <1>9
    <3>3. \A x \in (a + 1)..b : x \in 1..b
      BY ONLY <1>7, <1>9
    <3>4. 1..b = (1..a) \cup ((a + 1)..b)
      BY ONLY <3>1, <3>2, <3>3
    <3> QED BY ONLY <1>9, <2>2, <2>8, <3>4
  <2>10. Ordered(t) /\ Come(t) = Come(w) /\ ReaderHasAll(t)
    BY ONLY <1>6, <2>8 DEF Ordered, Come, ReaderHasAll, Empties
  <2> QED BY ONLY <1>6, <2>9, <2>10 DEF InPlace
<1> QED BY <1>1, <1>10, <1>11 DEF KeysInv, Alive

(* A signal or a close arrives. *)
LEMMA HandleOtherKeys == ExitsInv /\ KeysInv /\ (HandleSignal \/ HandleClose) => KeysInv'
<1> SUFFICES ASSUME ExitsInv, KeysInv, HandleSignal \/ HandleClose PROVE KeysInv'
  OBVIOUS
<1>1. Sound(sh) /\ Coming /\ Handles /\ Head(pipe).t # "input" /\ user' = user /\ gw' = gw
  BY ShIsSound DEF KeysInv, HandleSignal, HandleClose
<1>2. Proceeds(sh, sh')
  <2>1. CASE HandleSignal
    <3>1. PICK s, t : s = sh /\ t = sh'
      OBVIOUS
    <3>2. t = Signalled(s) /\ DOMAIN s = ShFields /\ Sound(s)
      BY <1>1, <2>1, <3>1 DEF HandleSignal, Sound
    <3>3. Rests(s, t)
      BY ONLY <3>2, SignalledStays
    <3>4. ASSUME s.alive PROVE InPlace(t)
      <4>1. InPlace(s)
        BY <3>2, <3>4 DEF Sound, Alive
      <4> QED BY ONLY <3>2, <4>1, SignalledKept
    <3> QED BY <3>1, <3>3, <3>4 DEF Rests, Proceeds, Alive
  <2>2. CASE HandleClose
    <3>1. PICK s, t, code, reason : s = sh /\ t = sh' /\ code = 0 /\ reason = "closed"
      OBVIOUS
    <3>2. t = Finished(s, code, reason) /\ Sound(s)
      BY <1>1, <2>2, <3>1 DEF HandleClose
    <3>3. Ended(s, t)
      BY ONLY <3>2, FinishedGoes
    <3> QED BY <3>1, <3>2, <3>3 DEF Ended, Proceeds, Alive, Sound
  <2> QED BY <2>1, <2>2
<1>3. sh'.arrived \in Nat /\ Arrived(Head(pipe), sh.arrived, sh'.arrived)
  BY <1>1, <1>2 DEF Proceeds, Arrived, Coming
<1>4. Coming'
  BY <1>1, <1>3, HandledKeys
<1> QED BY <1>2, <1>4 DEF KeysInv, Proceeds

(* A message that is no input is sent. *)
LEMMA SentKeys ==
  ASSUME Coming, NEW m, m.t # "input", pipe' = Append(pipe, m), sh' = sh, gw'.inSeq = gw.inSeq,
         user'.inSeq = user.inSeq, user'.typed = user.typed, DOMAIN user' = UserFields
  PROVE  Coming'
<1>1. PICK q, r, a : q = pipe /\ r = pipe' /\ a = sh.arrived
  OBVIOUS
<1>2. Queued(q, a) /\ r = Append(q, m)
  BY <1>1 DEF Coming
<1>3. Continued(m, q, a, Len(q) + 1)
  BY DEF Continued
<1>4. /\ Queued(r, a)
      /\ m.t # "input" => \A n : Prior(q, a, Len(q) + 1, n) => Prior(r, a, Len(r) + 1, n)
  BY ONLY <1>2, <1>3, QueueAppend
<1>5. \A n : Prior(pipe, sh.arrived, Len(pipe) + 1, n) => Prior(pipe', sh'.arrived, Len(pipe') + 1, n)
  BY <1>1, <1>4
<1>6. Queued(pipe', sh'.arrived)
  BY <1>1, <1>4
<1> QED BY <1>5, <1>6 DEF Coming

(* The keys of an input that is typed are numbered from the last one on. *)
LEMMA InputIs ==
  ASSUME Coming, NEW kinds \in Bursts, NEW m, m = Input(kinds)
  PROVE  /\ m.t = "input" /\ m.seq = user.inSeq + 1 /\ Burst(m.keys)
         /\ m.keys[1].id - 1 = user.typed /\ LastId(m) = user.typed + Len(kinds)
<1>1. kinds \in Seq(KeyKind) /\ kinds # <<>>
  BY ShellAssumption DEF KeyKind
<1>2. PICK k, n, q : k = Len(kinds) /\ n = user.typed /\ q = [i \in 1..k |-> [id |-> n + i, kind |-> kinds[i]]]
  OBVIOUS
<1>3. k \in Nat /\ k >= 1 /\ n \in Nat /\ \A i \in 1..k : kinds[i] \in KeyKind
  BY <1>1, <1>2 DEF Coming
<1>4. \A i \in 1..k : q[i] = [id |-> n + i, kind |-> kinds[i]]
  BY <1>2
<1>5. ASSUME NEW i \in 1..k PROVE q[i].id = n + i /\ q[i] \in Keys
  <2>1. PICK x, y : x = n + i /\ y = kinds[i]
    OBVIOUS
  <2>2. x \in Nat /\ y \in KeyKind
    BY <1>3, <2>1
  <2>3. [id |-> x, kind |-> y] \in Keys
    BY ONLY <2>2 DEF Keys
  <2>4. q[i] = [id |-> x, kind |-> y]
    BY <1>4, <2>1
  <2> QED BY <2>1, <2>3, <2>4
<1>6. q \in Seq(Keys) /\ Len(q) = k
  <2>1. q \in [1..k -> Keys]
    BY <1>2, <1>5
  <2>2. q \in Seq(Keys)
    BY <1>3, <2>1
  <2> QED BY <1>3, <2>1, <2>2
<1>7. q # <<>> /\ q[1].id = n + 1 /\ q[k].id = n + k
  BY <1>3, <1>5, <1>6
<1>8. Burst(q)
  <2>1. \A i \in 1..k : q[i].id = q[1].id + i - 1
    BY ONLY <1>3, <1>5, <1>7
  <2> QED BY <1>6, <1>7, <2>1 DEF Burst
<1>9. m = [t |-> "input", seq |-> user.inSeq + 1, keys |-> q]
  BY <1>2 DEF Input
<1>10. m.t = "input" /\ m.seq = user.inSeq + 1 /\ m.keys = q
  BY ONLY <1>9
<1>11. q[1].id - 1 = n
  BY ONLY <1>3, <1>7
<1> QED BY <1>2, <1>6, <1>7, <1>8, <1>10, <1>11 DEF LastId

(* Input is typed: it goes on where the last one ended, or is never sent.  *)
LEMMA TypeKeys == ExitsInv /\ KeysInv /\ (\E kinds \in Bursts : Type(kinds)) => KeysInv'
<1> SUFFICES ASSUME ExitsInv, KeysInv, NEW kinds \in Bursts, Type(kinds) PROVE KeysInv'
  OBVIOUS
<1>1. PICK m, k, u, v : m = Input(kinds) /\ k = Len(kinds) /\ u = user /\ v = user'
  OBVIOUS
<1>2. Coming /\ sh' = sh /\ DOMAIN gw = GwFields
  BY DEF KeysInv, Type, ExitsInv
<1>3. /\ m.t = "input" /\ m.seq = u.inSeq + 1 /\ Burst(m.keys)
      /\ m.keys[1].id - 1 = u.typed /\ LastId(m) = u.typed + k
  BY <1>1, <1>2, InputIs
<1>4. DOMAIN u = UserFields /\ u.inSeq \in Nat /\ u.typed \in Nat /\ k \in Nat
  BY <1>1, <1>2, ShellAssumption DEF Coming
<1>5. v = [u EXCEPT !.inSeq = u.inSeq + 1, !.typed = u.typed + k]
  BY <1>1 DEF Type, Typed
<1>6. DOMAIN v = UserFields /\ v.inSeq = u.inSeq + 1 /\ v.typed = u.typed + k
  BY ONLY <1>4, <1>5 DEF UserFields
<1>7. v.inSeq \in Nat /\ v.typed \in Nat
  BY ONLY <1>4, <1>6
<1>8. gw.inSeq \in Nat /\ gw.inSeq <= u.inSeq /\ sh.arrived \in Nat /\ Queued(pipe, sh.arrived)
  BY <1>1, <1>2 DEF Coming
<1>9. CASE Accepted(m) /\ gw' = [gw EXCEPT !.inSeq = m.seq] /\ pipe' = Append(pipe, m)
  <2>1. gw'.inSeq = m.seq
    BY ONLY <1>2, <1>9 DEF GwFields
  <2>2. gw.inSeq = u.inSeq
    BY <1>3, <1>4, <1>8, <1>9 DEF Accepted
  <2>3. PICK q, r, a : q = pipe /\ r = pipe' /\ a = sh.arrived
    OBVIOUS
  <2>4. Prior(q, a, Len(q) + 1, u.typed)
    BY <1>1, <1>2, <2>2, <2>3 DEF Coming
  <2>5. Continued(m, q, a, Len(q) + 1)
    BY <1>3, <2>4 DEF Continued
  <2>6. Queued(q, a) /\ r = Append(q, m)
    BY <1>8, <1>9, <2>3
  <2>7. Queued(r, a) /\ (m.t = "input" => Prior(r, a, Len(r) + 1, LastId(m)))
    BY ONLY <2>5, <2>6, QueueAppend
  <2>8. Queued(pipe', sh'.arrived) /\ Prior(pipe', sh'.arrived, Len(pipe') + 1, user'.typed)
    BY <1>1, <1>2, <1>3, <1>6, <2>3, <2>7
  <2>9. gw'.inSeq = user'.inSeq
    BY <1>1, <1>3, <1>6, <2>1
  <2>10. gw'.inSeq \in Nat /\ gw'.inSeq <= user'.inSeq
    BY <1>1, <1>7, <2>9
  <2>11. Coming'
    BY <1>1, <1>2, <1>6, <1>7, <1>8, <2>8, <2>10 DEF Coming
  <2> QED BY <1>2, <2>11 DEF KeysInv
<1>10. CASE gw'.inSeq = gw.inSeq /\ pipe' = pipe
  <2>1. gw'.inSeq \in Nat /\ gw'.inSeq <= user'.inSeq /\ gw'.inSeq # user'.inSeq
    BY <1>1, <1>4, <1>6, <1>8, <1>10
  <2>2. Coming'
    BY <1>1, <1>2, <1>6, <1>7, <1>8, <1>10, <2>1 DEF Coming
  <2> QED BY <1>2, <2>2 DEF KeysInv
<1>11. ASSUME NEW n, gw' = [gw EXCEPT !.refused = n] PROVE gw'.inSeq = gw.inSeq
  BY ONLY <1>2, <1>11 DEF GwFields
<1> QED BY <1>1, <1>9, <1>10, <1>11 DEF Type

(* The other steps of the user, the client and the gateway. *)
LEMMA ClientKeys ==
  ExitsInv /\ KeysInv /\ (SendSignal \/ End \/ FromWorker \/ Acknowledge \/ UNCHANGED shellVars) => KeysInv'
<1> SUFFICES ASSUME ExitsInv, KeysInv, SendSignal \/ End \/ FromWorker \/ Acknowledge \/ UNCHANGED shellVars
             PROVE  KeysInv'
  OBVIOUS
<1>1. sh' = sh /\ Coming /\ DOMAIN gw = GwFields /\ DOMAIN user = UserFields
  BY DEF SendSignal, End, FromWorker, Acknowledge, shellVars, KeysInv, Coming, ExitsInv
<1>2. Alive(sh')
  BY <1>1 DEF KeysInv
<1>3. CASE SendSignal
  <2>1. PICK m, n : m = [t |-> "signal"] /\ n = user.signals + 1
    OBVIOUS
  <2>2. user' = [user EXCEPT !.signals = n] /\ pipe' = Append(pipe, m) /\ gw' = gw
    BY <1>3, <2>1 DEF SendSignal
  <2>3. user'.inSeq = user.inSeq /\ user'.typed = user.typed /\ DOMAIN user' = UserFields
    BY ONLY <1>1, <2>2 DEF UserFields
  <2>4. m.t # "input"
    BY <2>1
  <2>5. Coming'
    BY <1>1, <2>2, <2>3, <2>4, SentKeys
  <2> QED BY <1>2, <2>5 DEF KeysInv
<1>4. CASE End
  <2>1. PICK m : m = [t |-> "close"]
    OBVIOUS
  <2>2. user' = user /\ pipe' = Append(pipe, m) /\ gw' = [gw EXCEPT !.closing = TRUE]
    BY <1>4, <2>1 DEF End
  <2>3. gw'.inSeq = gw.inSeq
    BY ONLY <1>1, <2>2 DEF GwFields
  <2>4. m.t # "input"
    BY <2>1
  <2>5. Coming'
    BY <1>1, <2>2, <2>3, <2>4, SentKeys
  <2> QED BY <1>2, <2>5 DEF KeysInv
<1>5. CASE FromWorker
  <2>1. ASSUME NEW n, gw' = [gw EXCEPT !.executedSeq = n] PROVE gw'.inSeq = gw.inSeq
    BY ONLY <1>1, <2>1 DEF GwFields
  <2>2. ASSUME NEW x, gw' = [gw EXCEPT !.closing = TRUE, !.exit = x] PROVE gw'.inSeq = gw.inSeq
    BY ONLY <1>1, <2>2 DEF GwFields
  <2>3. gw'.inSeq = gw.inSeq /\ user' = user /\ pipe' = pipe
    BY <1>5, <2>1, <2>2 DEF FromWorker
  <2> QED BY <1>1, <1>2, <2>3 DEF KeysInv, Coming
<1>6. CASE Acknowledge
  <2>1. user' = [user EXCEPT !.accepted = gw.inSeq, !.executed = gw.executedSeq] /\ gw' = gw /\ pipe' = pipe
    BY <1>6 DEF Acknowledge
  <2>2. user'.inSeq = user.inSeq /\ user'.typed = user.typed /\ DOMAIN user' = UserFields
    BY ONLY <1>1, <2>1 DEF UserFields
  <2> QED BY <1>1, <1>2, <2>1, <2>2 DEF KeysInv, Coming
<1>7. CASE UNCHANGED shellVars
  BY <1>7 DEF shellVars, KeysInv, Coming
<1> QED BY <1>3, <1>4, <1>5, <1>6, <1>7

(* It holds at the start. *)
LEMMA ShellInitKeys == ShellInit => KeysInv
<1> SUFFICES ASSUME ShellInit PROVE KeysInv
  OBVIOUS
<1>1. /\ DOMAIN sh = ShFields /\ sh.arrived = 0 /\ sh.fed = {} /\ sh.told = {} /\ sh.typeahead = <<>>
      /\ sh.reader = [buf |-> 0, value |-> "none"]
  BY DEF ShellInit, ShFields
<1>2. DOMAIN user = UserFields /\ user.inSeq = 0 /\ user.typed = 0
  BY DEF ShellInit, UserFields
<1>3. gw.inSeq = 0 /\ pipe = <<>>
  BY DEF ShellInit
<1>4. [buf |-> 0, value |-> "none"] \in Readers /\ Below({}, {}) /\ 0 <= 2 * LineChars
  BY ShellAssumption DEF Readers, Values, Below
<1>5. Ordered(sh)
  BY ONLY <1>1, <1>4, NoIds DEF Ordered
<1>6. Come(sh) = 1..sh.arrived
  <2>1. 1..0 = {}
    OBVIOUS
  <2> QED BY ONLY <1>1, <2>1, NoIds DEF Come
<1>7. Alive(sh)
  BY ONLY <1>1, <1>5, <1>6 DEF Alive, InPlace, ReaderHasAll, Empties
<1>8. Queued(<<>>, 0) /\ Prior(<<>>, 0, Len(<<>>) + 1, 0)
  <2>1. <<>> \in Seq({}) /\ Len(<<>>) = 0
    OBVIOUS
  <2>2. \A i \in 1..0 : FALSE
    OBVIOUS
  <2>3. PICK n : n = Len(<<>>) + 1
    OBVIOUS
  <2>4. \A j \in 1..(n - 1) : FALSE
    BY <2>1, <2>3
  <2> QED BY <2>1, <2>2, <2>3, <2>4 DEF Queued, Prior
<1>9. Coming
  BY <1>1, <1>2, <1>3, <1>8 DEF Coming
<1> QED BY <1>7, <1>9 DEF KeysInv

(* It says what KeysKept asks for. *)
LEMMA InPlaceKept == KeysInv => KeysKept
<1> SUFFICES ASSUME KeysInv, sh.alive
             PROVE  /\ \A i \in DOMAIN sh.typeahead :
                         \A k \in sh.fed \cup Ids(SubSeq(sh.typeahead, 1, i - 1)) : k < sh.typeahead[i].id
                    /\ 1..sh.arrived = sh.fed \cup sh.told \cup Ids(sh.typeahead)
                    /\ sh.pc \in {"prompt", "reads"} /\ sh.reader.value = "none" => sh.typeahead = <<>>
  BY DEF KeysKept
<1>1. PICK q, f : q = sh.typeahead /\ f = sh.fed
  OBVIOUS
<1>2. InPlace(sh)
  BY DEF KeysInv, Alive
<1>3. q \in Seq(Keys) /\ Rising(q) /\ Below(f, Ids(q))
  BY <1>1, <1>2 DEF InPlace, Ordered
<1>4. ASSUME NEW i \in DOMAIN q, NEW k \in f \cup Ids(SubSeq(q, 1, i - 1)) PROVE k < q[i].id
  <2>1. CASE k \in f
    BY <1>3, <2>1 DEF Below, Ids
  <2>2. CASE k \in Ids(SubSeq(q, 1, i - 1))
    <3>1. PICK n, a, b : n = i - 1 /\ a = SubSeq(q, 1, n) /\ b = SubSeq(q, n + 1, Len(q))
      OBVIOUS
    <3>2. i \in 1..Len(q) /\ n \in 0..Len(q)
      BY <1>3, <3>1
    <3>3. IsCut(q, n, a, b)
      BY <3>1, <3>2 DEF IsCut
    <3>4. Halves(q, n, a, b)
      BY ONLY <1>3, <3>3, CutKeys
    <3>5. a \in Seq(Keys) /\ Len(a) = n /\ k \in Ids(a)
      BY <2>2, <3>1, <3>4 DEF Halves
    <3>6. PICK j \in 1..n : k = a[j].id
      BY <3>5 DEF Ids
    <3>7. a[j] = q[j] /\ j \in DOMAIN q /\ j < i
      BY <1>3, <3>1, <3>2
    <3> QED BY <1>3, <3>6, <3>7 DEF Rising
  <2> QED BY <2>1, <2>2
<1>5. Come(sh) = 1..sh.arrived /\ ReaderHasAll(sh)
  BY <1>2 DEF InPlace
<1> QED BY <1>1, <1>4, <1>5 DEF Come, ReaderHasAll, Empties

(* As long as the shell is alive the keys that have arrived are fed in the  *)
(* order in which they were typed, wait in that order, or were dropped      *)
(* aloud; a reader that waits has been given all that was typed ahead.      *)
THEOREM KeysAlwaysKept == ShellSpec => []KeysKept
<1>1. ExitsInv /\ [ShellNext]_shellVars => ExitsInv'
  BY ExitsStep
<1>2. ExitsInv /\ KeysInv /\ [ShellNext]_shellVars => KeysInv'
  BY InterpreterKeys, HandleInputKeys, HandleOtherKeys, TypeKeys, ClientKeys DEF ShellNext, ShellMoves
<1> QED BY ShellInitExits, <1>1, ShellInitKeys, <1>2, InPlaceKept, PTL DEF ShellSpec

-----------------------------------------------------------------------------
(* Output: the window is exact, what is shown in order, the credits kept.  *)

(* The bytes of a queue are the sum of those of its chunks. *)
LEMMA BytesIs ==
  ASSUME NEW q, NEW k \in Nat, DOMAIN q = 1..k, \A i \in 1..k : q[i].n \in Int
  PROVE  Bytes(q) = Total([i \in 1..k |-> q[i].n], 1..k)
<1> DEFINE Eq(g) == g = [s \in SUBSET (1..k) |-> IF s = {} THEN 0 ELSE g[s \ {Max(s)}] + q[Max(s)].n]
<1>1. PICK v : v = [i \in 1..k |-> q[i].n]
  OBVIOUS
<1>2. PICK c : c = [s \in SUBSET (1..k) |-> Max(s)]
  OBVIOUS
<1>3. Chooses(c, 1..k)
  <2>1. ASSUME NEW s \in SUBSET (1..k), s # {} PROVE c[s] \in s
    <3>1. s \subseteq 0..k
      OBVIOUS
    <3>2. \E x \in s : \A y \in s : x >= y
      BY <2>1, <3>1, GreatestOne
    <3>3. Max(s) \in s
      BY <3>2 DEF Max
    <3>4. c[s] = Max(s)
      BY <1>2
    <3> QED BY <3>3, <3>4
  <2> QED BY <2>1 DEF Chooses
<1>4. IsFiniteSet(1..k) /\ \A i \in 1..k : v[i] \in Int /\ v[i] = q[i].n
  <2>1. 1 \in Int /\ k \in Int
    OBVIOUS
  <2>2. IsFiniteSet(1..k)
    BY ONLY <2>1, FS_Interval
  <2>3. \A i \in 1..k : v[i] \in Int /\ v[i] = q[i].n
    BY <1>1
  <2> QED BY <2>2, <2>3
<1>5. PICK h : Adds(h, v, c, 1..k)
  BY <1>3, <1>4, SumExists
<1>6. IsSum(h, v, 1..k)
  BY <1>3, <1>4, <1>5, SumSteps, AddsFolds
<1>7. Eq(h)
  <2>1. ASSUME NEW s \in SUBSET (1..k), s # {}
        PROVE  Part(h, v, c, s) = h[s \ {Max(s)}] + q[Max(s)].n
    <3>1. c[s] = Max(s) /\ c[s] \in s /\ v[c[s]] = q[Max(s)].n /\ v[c[s]] \in Int
      BY <1>2, <1>3, <1>4, <2>1 DEF Chooses
    <3>2. h[s \ {c[s]}] \in Int
      BY <1>6 DEF IsSum
    <3>3. Part(h, v, c, s) = v[c[s]] + h[s \ {c[s]}]
      BY <2>1 DEF Part
    <3>4. PICK a, b : a = v[c[s]] /\ b = h[s \ {c[s]}]
      OBVIOUS
    <3>5. a + b = b + a
      BY <3>1, <3>2, <3>4
    <3> QED BY <3>1, <3>3, <3>4, <3>5
  <2>2. \A s \in SUBSET (1..k) : Part(h, v, c, s) = IF s = {} THEN 0 ELSE h[s \ {Max(s)}] + q[Max(s)].n
    BY <2>1 DEF Part
  <2> QED BY <1>5, <2>2 DEF Adds
<1>8. PICK g : g = CHOOSE f : Eq(f)
  OBVIOUS
<1>9. Eq(g)
  BY <1>7, <1>8
<1>10. Bytes(q) = g[1..k]
  BY <1>8 DEF Bytes, FoldLeft, MapThenFoldSet
<1>11. Folds(g, v, c, 1..k)
  <2> SUFFICES ASSUME NEW s \in SUBSET (1..k), s # {} PROVE g[s] = g[s \ {c[s]}] + v[c[s]]
    BY <1>9 DEF Folds, Part
  <2>1. c[s] = Max(s) /\ c[s] \in s
    BY <1>2, <1>3 DEF Chooses
  <2> QED BY <1>4, <1>9, <2>1
<1>12. IsSum(g, v, 1..k)
  BY <1>3, <1>4, <1>11, SumSteps
<1> QED BY <1>1, <1>4, <1>10, <1>12, TotalIs

(* What the elements of a queue are. *)
Sized(S) == \A x \in S : x.n \in Nat

(* They are a number, and one sum. *)
LEMMA BytesNat ==
  ASSUME NEW S, Sized(S), NEW q \in Seq(S)
  PROVE  Bytes(q) \in Nat /\ Bytes(q) = Total([i \in 1..Len(q) |-> q[i].n], 1..Len(q))
<1>1. PICK k : k = Len(q) /\ k \in Nat /\ DOMAIN q = 1..k
  OBVIOUS
<1>2. PICK v : v = [i \in 1..k |-> q[i].n]
  OBVIOUS
<1>3. \A i \in 1..k : q[i].n \in Nat /\ q[i].n \in Int /\ v[i] \in Nat
  BY <1>1, <1>2 DEF Sized
<1>4. Bytes(q) = Total(v, 1..k)
  BY <1>1, <1>2, <1>3, BytesIs
<1>5. IsFiniteSet(1..k)
  BY <1>1, FS_Interval
<1>6. PICK T : T = 1..k
  OBVIOUS
<1>7. \A s \in SUBSET T : Total(v, s) \in Nat
  BY <1>3, <1>5, <1>6, TotalNat
<1> QED BY <1>1, <1>2, <1>4, <1>6, <1>7

(* The bytes of two queues, one behind the other. *)
LEMMA BytesConcat ==
  ASSUME NEW S, Sized(S), NEW p \in Seq(S), NEW q \in Seq(S)
  PROVE  Bytes(p \o q) = Bytes(p) + Bytes(q)
<1>1. PICK r : r = p \o q
  OBVIOUS
<1>2. PICK a, b : a = Len(p) /\ b = Len(q) /\ a \in Nat /\ b \in Nat
  <2>1. Len(p) \in Nat /\ Len(q) \in Nat
    OBVIOUS
  <2> QED BY ONLY <2>1, Zenon
<1>3. r \in Seq(S) /\ Len(r) = a + b /\ (\A i \in 1..a : r[i] = p[i]) /\ \A i \in 1..b : r[a + i] = q[i]
  BY <1>1, <1>2
<1>4. PICK u, v, w : u = [i \in 1..(a + b) |-> r[i].n] /\ v = [i \in 1..a |-> p[i].n] /\ w = [i \in 1..b |-> q[i].n]
  OBVIOUS
<1>5. Bytes(p) = Total(v, 1..a) /\ Bytes(q) = Total(w, 1..b) /\ Bytes(r) = Total(u, 1..(a + b))
  <2>1. Bytes(p) = Total(v, 1..a)
    BY <1>2, <1>4, BytesNat
  <2>2. Bytes(q) = Total(w, 1..b)
    BY <1>2, <1>4, BytesNat
  <2>3. PICK c : c = Len(r)
    OBVIOUS
  <2>4. u = [i \in 1..c |-> r[i].n]
    BY <1>3, <1>4, <2>3
  <2>5. Bytes(r) = Total(u, 1..c)
    BY <1>3, <2>3, <2>4, BytesNat
  <2> QED BY <1>3, <2>1, <2>2, <2>3, <2>5
<1>6. \A i \in 1..a : v[i] \in Int /\ u[i] = v[i]
  BY <1>2, <1>3, <1>4 DEF Sized
<1>7. \A i \in 1..b : w[i] \in Int /\ u[a + i] = w[i]
  <2> SUFFICES ASSUME NEW i \in 1..b PROVE w[i] \in Int /\ u[a + i] = w[i]
    OBVIOUS
  <2>1. a + i \in 1..(a + b)
    BY <1>2
  <2> QED BY <1>2, <1>3, <1>4, <2>1 DEF Sized
<1>n. PICK n : n = a + b
  OBVIOUS
<1>8. Total(u, 1..n) = Total(v, 1..a) + Total(w, 1..b)
  <2>1. a \in Nat /\ b \in Nat
    BY <1>2
  <2>2. Joined(u, v, w, a, b)
    BY <1>6, <1>7 DEF Joined
  <2> QED BY ONLY <2>1, <2>2, <1>n, TotalConcat
<1> QED BY <1>1, <1>5, <1>8, <1>n

(* The bytes of no chunk, and of one. *)
LEMMA BytesFew ==
  /\ Bytes(<< >>) = 0
  /\ \A x : x.n \in Nat => Bytes(<<x>>) = x.n
<1>1. Bytes(<< >>) = 0
  <2>1. PICK q, k : q = << >> /\ k = 0
    OBVIOUS
  <2>2. k \in Nat /\ DOMAIN q = 1..k /\ (\A i \in 1..k : q[i].n \in Int) /\ 1..k = {}
    BY <2>1
  <2>3. Bytes(q) = Total([i \in 1..k |-> q[i].n], 1..k)
    BY <2>2, BytesIs
  <2>4. PICK v : v = [i \in 1..k |-> q[i].n]
    OBVIOUS
  <2>5. Total(v, {}) = 0
    BY TotalFacts, FS_EmptySet
  <2> QED BY <2>1, <2>2, <2>3, <2>4, <2>5
<1>2. ASSUME NEW x, x.n \in Nat PROVE Bytes(<<x>>) = x.n
  <2>1. PICK q, k : q = <<x>> /\ k = 1
    OBVIOUS
  <2>2. k \in Nat /\ DOMAIN q = 1..k /\ (\A i \in 1..k : q[i].n \in Int) /\ 1..k = {1}
    BY <1>2, <2>1
  <2>3. Bytes(q) = Total([i \in 1..k |-> q[i].n], 1..k)
    BY <2>2, BytesIs
  <2>4. PICK v : v = [i \in 1..k |-> q[i].n]
    OBVIOUS
  <2>5. v[1] = x.n /\ v[1] \in Int
    BY <1>2, <2>1, <2>2, <2>4
  <2>6. PICK T : T = {1} /\ IsFiniteSet(T) /\ IsFiniteSet({}) /\ T \ {1} = {}
    BY FS_Singleton, FS_EmptySet
  <2>7. Total(v, T) = v[1] + Total(v, T \ {1})
    BY <2>5, <2>6, TotalFacts
  <2>8. Total(v, {}) = 0
    BY <2>6, TotalFacts
  <2>9. Bytes(q) = Total(v, T)
    BY <2>2, <2>3, <2>4, <2>6
  <2>10. Total(v, T \ {1}) = 0
    BY <2>6, <2>8
  <2> QED BY <1>2, <2>1, <2>5, <2>7, <2>9, <2>10
<1> QED BY <1>1, <1>2

(* The beginning of a queue, and the rest.                                 *)
LEMMA Parts ==
  ASSUME NEW S, NEW q \in Seq(S), NEW k \in 0..Len(q)
  PROVE  /\ First(q, k) \in Seq(S) /\ After(q, k) \in Seq(S)
         /\ Len(First(q, k)) = k /\ Len(After(q, k)) = Len(q) - k
         /\ \A i \in 1..k : First(q, k)[i] = q[i]
         /\ \A i \in 1..(Len(q) - k) : After(q, k)[i] = q[k + i]
         /\ First(q, k) \o After(q, k) = q
<1>1. PICK a, b : a = First(q, k) /\ b = After(q, k)
  OBVIOUS
<1>2. PICK n : n = Len(q) /\ n \in Nat /\ k \in Nat /\ k <= n
  OBVIOUS
<1>3. a \in Seq(S) /\ Len(a) = k /\ \A i \in 1..k : a[i] = q[i]
  BY <1>1, <1>2 DEF First
<1>4. b \in Seq(S) /\ Len(b) = n - k /\ \A i \in 1..(n - k) : b[i] = q[k + i]
  <2>1. PICK l : l = k + 1
    OBVIOUS
  <2>2. b = SubSeq(q, l, n) /\ l \in 1..(n + 1)
    BY <1>1, <1>2, <2>1 DEF After
  <2>3. Len(b) = n - l + 1 /\ b \in Seq(S) /\ \A i \in 1..(n - l + 1) : b[i] = q[l + i - 1]
    BY <1>2, <2>2
  <2>4. n - l + 1 = n - k /\ \A i \in 1..(n - k) : l + i - 1 = k + i
    BY <1>2, <2>1
  <2> QED BY <2>3, <2>4
<1>5. PICK c : c = a \o b
  OBVIOUS
<1>6. c \in Seq(S) /\ Len(c) = n
  <2>0. a \in Seq(S) /\ b \in Seq(S)
    BY <1>3, <1>4
  <2>1. c \in Seq(S) /\ Len(c) = Len(a) + Len(b)
    BY ONLY <2>0, <1>5
  <2>2. Len(a) = k /\ Len(b) = n - k
    BY <1>3, <1>4
  <2>3. k + (n - k) = n
    BY <1>2
  <2> QED BY ONLY <2>1, <2>2, <2>3
<1>7. ASSUME NEW i \in 1..n PROVE c[i] = q[i]
  <2>1. CASE i <= k
    BY <1>2, <1>3, <1>4, <1>5, <2>1
  <2>2. CASE i > k
    <3>1. PICK j : j = i - k
      OBVIOUS
    <3>2. j \in 1..(n - k) /\ k + j = i
      BY <1>2, <2>2, <3>1
    <3>3. c[k + j] = b[j]
      BY <1>2, <1>3, <1>4, <1>5, <3>2
    <3> QED BY <1>4, <3>2, <3>3
  <2> QED BY <1>2, <2>1, <2>2
<1>8. c = q
  BY ONLY <1>2, <1>6, <1>7, q \in Seq(S)
<1> QED BY <1>1, <1>2, <1>3, <1>4, <1>5, <1>8

(* The bytes of the two parts of a queue. *)
LEMMA BytesSplit ==
  ASSUME NEW S, Sized(S), NEW q \in Seq(S), NEW k \in 0..Len(q)
  PROVE  /\ Bytes(q) = Bytes(First(q, k)) + Bytes(After(q, k))
         /\ Bytes(First(q, k)) \in Nat /\ Bytes(After(q, k)) \in Nat
<1>1. PICK a, b : a = First(q, k) /\ b = After(q, k)
  OBVIOUS
<1>2. a \in Seq(S) /\ b \in Seq(S) /\ a \o b = q
  BY <1>1, Parts
<1> QED BY <1>1, <1>2, BytesConcat, BytesNat

(* The bytes of a queue whose head is taken. *)
LEMMA BytesTail ==
  ASSUME NEW S, Sized(S), NEW q \in Seq(S), q # << >>
  PROVE  Bytes(q) = Head(q).n + Bytes(Tail(q)) /\ Head(q).n \in Nat /\ Bytes(Tail(q)) \in Nat
<1>1. PICK x, a, b : x = Head(q) /\ a = <<x>> /\ b = Tail(q)
  OBVIOUS
<1>2. x \in S /\ a \in Seq(S) /\ b \in Seq(S) /\ x.n \in Nat
  BY <1>1 DEF Sized
<1>3. a \o b = q
  BY <1>1
<1>4. Bytes(a) = x.n
  BY <1>1, <1>2, BytesFew
<1> QED BY <1>1, <1>2, <1>3, <1>4, BytesConcat, BytesNat

(* The bytes of a queue that gets one chunk more. *)
LEMMA BytesAppend ==
  ASSUME NEW S, Sized(S), NEW q \in Seq(S), NEW x \in S
  PROVE  Bytes(Append(q, x)) = Bytes(q) + x.n
<1>1. PICK a : a = <<x>>
  OBVIOUS
<1>2. a \in Seq(S) /\ x.n \in Nat /\ Append(q, x) = q \o a
  BY <1>1 DEF Sized
<1>3. Bytes(a) = x.n
  BY <1>1, <1>2, BytesFew
<1> QED BY <1>2, <1>3, BytesConcat

-----------------------------------------------------------------------------
(* Chunks in queues, frames in the socket, and what the connection *)
(* remembers of each frame.                                        *)
Chunk == [from : Nat, n : 1..ChunkBytes]
Frame == [seq : Nat, n : 1..ChunkBytes, from : Nat]
Cum == [seq : Nat, cum : Nat]

(* The fields of the gate and of the connection. *)
GateFields == {"queue", "inflight", "remotePaused", "sinkFull", "dropping", "waiter"}
ConnFields == {"backend", "pendingOut", "outstanding", "outSeq", "sentBytes", "creditBytes",
               "consumedSeq", "consumedBytes", "consumedPending", "paused", "socketFull",
               "strikes", "refused"}

(* Chunks and frames have sizes. *)
LEMMA ChunksSized == Sized(Chunk) /\ Sized(Frame)
BY CreditAssumption DEF Sized, Chunk, Frame

(* What the gate and the connection are. *)
GateOK(g) ==
  /\ DOMAIN g = GateFields /\ g.queue \in Seq(Chunk) /\ g.inflight \in Nat
  /\ g.dropping \in BOOLEAN

(* What the connection is. *)
ConnOK(c) ==
  /\ DOMAIN c = ConnFields /\ c.pendingOut \in Seq(Chunk) /\ c.outstanding \in Seq(Cum)
  /\ c.outSeq \in Nat /\ c.sentBytes \in Nat /\ c.creditBytes \in Nat
  /\ c.consumedSeq \in Nat /\ c.consumedBytes \in Nat /\ c.consumedPending \in Nat
  /\ c.sentBytes <= c.creditBytes /\ Len(c.outstanding) <= MaxOutstanding
  /\ c.paused \in BOOLEAN /\ c.refused \in BOOLEAN

(* The socket's queue keeps to its limit. *)
WireOK(w) == w \in Seq(Frame) /\ Bytes(w) <= SendQueue

(* _pump hands over a part of the queue.                                   *)
Pumps(g, k, h, some) ==
  /\ k \in 0..Len(g.queue) /\ some = First(g.queue, k)
  /\ DOMAIN h = GateFields /\ h.queue = After(g.queue, k)
  /\ h.inflight = g.inflight + Bytes(some) /\ h.dropping = g.dropping

(* The gate hands over no more chunks than it has. *)
LEMMA HandedIs ==
  ASSUME NEW g, g.queue \in Seq(Chunk)
  PROVE  Handed(g) \in 0..Len(g.queue)
<1> DEFINE stop(k) == \/ k = Len(g.queue)
                      \/ k = 0 /\ (g.remotePaused \/ g.sinkFull)
                      \/ k > 0 /\ \/ 2 * (g.inflight + Bytes(First(g.queue, k))) > MaxPending
                                  \/ Full(Bytes(toGateway) + Bytes(First(g.queue, k)))
           T == {k \in 0..Len(g.queue) : stop(k)}
<1>1. Handed(g) = CHOOSE k \in 0..Len(g.queue) : stop(k) /\ \A j \in 0..(k - 1) : ~stop(j)
  BY DEF Handed
<1>2. Len(g.queue) \in T /\ T \subseteq 0..Len(g.queue) /\ T \subseteq Nat /\ T # {}
  OBVIOUS
<1>3. PICK m \in T : \A y \in T : m <= y
  <2> HIDE DEF T
  <2> QED BY <1>2, LeastOne
<1>4. m \in 0..Len(g.queue) /\ stop(m)
  OBVIOUS
<1>5. ASSUME NEW j \in 0..(m - 1) PROVE ~stop(j)
  <2>1. j \in 0..Len(g.queue) /\ ~ (m <= j)
    BY <1>4
  <2> QED BY <1>3, <2>1
<1> HIDE DEF stop
<1>6. \E k \in 0..Len(g.queue) : stop(k) /\ \A j \in 0..(k - 1) : ~stop(j)
  BY <1>4, <1>5
<1> QED BY <1>1, <1>6

(* That is what _pump does. *)
LEMMA PumpIs ==
  ASSUME NEW g, DOMAIN g = GateFields, g.queue \in Seq(Chunk), Pump(g)
  PROVE  \E k, some : Pumps(g, k, gate', some) /\ toGateway' = toGateway \o some
<1>1. PICK k : k = Handed(g)
  OBVIOUS
<1>2. k \in 0..Len(g.queue)
  BY <1>1, HandedIs
<1>3. PICK some, rest : some = First(g.queue, k) /\ rest = After(g.queue, k)
  OBVIOUS
<1>4. PICK inflight, full : /\ inflight = g.inflight + Bytes(some)
                            /\ full = (g.sinkFull \/ (k > 0 /\ Full(Bytes(toGateway) + Bytes(some))))
  OBVIOUS
<1>5. PICK p : p = [g EXCEPT !.queue = rest, !.inflight = inflight, !.sinkFull = full]
  OBVIOUS
<1>6. gate' = [p EXCEPT !.waiter = g.waiter /\ Congested(p)] /\ toGateway' = toGateway \o some
  BY <1>1, <1>3, <1>4, <1>5 DEF Pump
<1>7. PICK w : w = (g.waiter /\ Congested(p))
  OBVIOUS
<1>8. gate' = [p EXCEPT !.waiter = w]
  BY <1>6, <1>7
<1>9. DOMAIN gate' = GateFields /\ gate'.queue = rest /\ gate'.inflight = inflight /\ gate'.dropping = g.dropping
  BY <1>5, <1>8 DEF GateFields
<1> QED BY <1>2, <1>3, <1>4, <1>6, <1>9 DEF Pumps

(* _flush sends some of what waits, as far as the limits allow.            *)
Sends(c, w, k, d, v) ==
  /\ k \in 0..Len(c.pendingOut)
  /\ c.sentBytes + Bytes(First(c.pendingOut, k)) <= c.creditBytes
  /\ Len(c.outstanding) + k <= MaxOutstanding
  /\ Bytes(w) + Bytes(First(c.pendingOut, k)) <= SendQueue
  /\ v = w \o Frames(c, k)
  /\ DOMAIN d = ConnFields /\ d.pendingOut = After(c.pendingOut, k)
  /\ d.outSeq = c.outSeq + k /\ d.sentBytes = c.sentBytes + Bytes(First(c.pendingOut, k))
  /\ d.outstanding = c.outstanding \o Cumulated(c, k)
  /\ d.consumedPending = c.consumedPending + Bytes(First(c.pendingOut, k))
  /\ d.creditBytes = c.creditBytes /\ d.consumedSeq = c.consumedSeq /\ d.consumedBytes = c.consumedBytes
  /\ d.refused = c.refused /\ d.paused \in BOOLEAN

(* What may be sent keeps within credit, outstanding frames and the *)
(* socket's queue.                                                  *)
LEMMA SendableIs ==
  ASSUME NEW c, ConnOK(c), NEW w, WireOK(w), NEW k, k = Sendable(c, w)
  PROVE  /\ k \in 0..Len(c.pendingOut)
         /\ c.sentBytes + Bytes(First(c.pendingOut, k)) <= c.creditBytes
         /\ Len(c.outstanding) + k <= MaxOutstanding
         /\ Bytes(w) + Bytes(First(c.pendingOut, k)) <= SendQueue
<1> DEFINE fits(j) == /\ CreditFor(c, j) /\ Len(c.outstanding) + j <= MaxOutstanding
                      /\ Bytes(w) + Bytes(First(c.pendingOut, j)) <= SendQueue
           T == {j \in 0..Len(c.pendingOut) : fits(j)}
<1>1. Sendable(c, w) = CHOOSE j \in 0..Len(c.pendingOut) : fits(j) /\ (j < Len(c.pendingOut) => ~fits(j + 1))
  BY DEF Sendable
<1>2. PICK l : l = Len(c.pendingOut) /\ l \in Nat
  BY DEF ConnOK
<1>3. fits(0)
  <2>1. First(c.pendingOut, 0) = << >>
    BY DEF First, ConnOK
  <2>2. Bytes(w) \in Nat /\ Bytes(First(c.pendingOut, 0)) = 0
    BY <2>1, BytesFew, BytesNat, ChunksSized DEF WireOK
  <2> QED BY <2>2 DEF ConnOK, WireOK, CreditFor
<1>4. T \subseteq 0..l /\ T # {}
  BY <1>2, <1>3
<1>5. PICK m \in T : \A y \in T : m >= y
  <2> HIDE DEF T
  <2> QED BY <1>2, <1>4, GreatestOne
<1>6. m \in 0..l /\ fits(m)
  BY <1>2
<1>7. m < l => ~ fits(m + 1)
  <2>1. ASSUME m < l, fits(m + 1) PROVE FALSE
    <3>1. m + 1 \in 0..l /\ ~ (m >= m + 1)
      BY <1>2, <1>6, <2>1
    <3>2. PICK n : n = m + 1
      OBVIOUS
    <3>3. n \in T
      BY <1>2, <2>1, <3>1, <3>2
    <3> QED BY <1>5, <3>1, <3>2, <3>3
  <2> QED BY <2>1
<1> HIDE DEF fits
<1>8. \E j \in 0..Len(c.pendingOut) : fits(j) /\ (j < Len(c.pendingOut) => ~fits(j + 1))
  BY <1>2, <1>6, <1>7
<1>9. k \in 0..Len(c.pendingOut) /\ fits(k)
  BY <1>1, <1>8
<1> QED BY <1>9 DEF fits, CreditFor

(* That is what _flush does; it may also tell the worker to pause or to go *)
(* on.                                                                     *)
LEMMA FlushIs ==
  ASSUME NEW c, ConnOK(c), NEW w, WireOK(w), Flush(c, w)
  PROVE  /\ \E k : Sends(c, w, k, conn', wire')
         /\ toWorker' = toWorker \/ \E s \in {"pause", "resume"} : toWorker' = toWorker \o <<[t |-> s]>>
<1>1. PICK k : k = Sendable(c, w)
  OBVIOUS
<1>2. PICK some, rest, cums, frames, waits :
        /\ some = First(c.pendingOut, k) /\ rest = After(c.pendingOut, k) /\ cums = Cumulated(c, k)
        /\ frames = w \o Frames(c, k) /\ waits = (k < Len(c.pendingOut))
  OBVIOUS
<1>3. PICK a, b, e, f, g : /\ a = c.outSeq + k /\ b = c.sentBytes + Bytes(some)
                           /\ e = c.outstanding \o cums /\ f = c.consumedPending + Bytes(some)
                           /\ g = (c.socketFull \/ SocketFull(c, frames, k))
  OBVIOUS
<1>4. wire' = frames /\ conn' = [c EXCEPT !.pendingOut = rest, !.outSeq = a, !.sentBytes = b, !.outstanding = e,
                    !.consumedPending = f, !.socketFull = g, !.paused = waits]
  BY <1>1, <1>2, <1>3 DEF Flush
<1>5. DOMAIN c = ConnFields
  BY DEF ConnOK
<1>6. /\ DOMAIN conn' = ConnFields /\ conn'.pendingOut = rest /\ conn'.outSeq = a /\ conn'.sentBytes = b
      /\ conn'.outstanding = e /\ conn'.consumedPending = f
      /\ conn'.creditBytes = c.creditBytes /\ conn'.consumedSeq = c.consumedSeq
      /\ conn'.consumedBytes = c.consumedBytes /\ conn'.refused = c.refused /\ conn'.paused = waits
  BY <1>4, <1>5 DEF ConnFields
<1>7. Sends(c, w, k, conn', wire')
  <2>1. /\ k \in 0..Len(c.pendingOut)
        /\ c.sentBytes + Bytes(First(c.pendingOut, k)) <= c.creditBytes
        /\ Len(c.outstanding) + k <= MaxOutstanding
        /\ Bytes(w) + Bytes(First(c.pendingOut, k)) <= SendQueue
    BY <1>1, SendableIs
  <2>2. waits \in BOOLEAN
    BY <1>2
  <2> QED BY <1>2, <1>3, <1>4, <1>6, <2>1, <2>2 DEF Sends
<1>8. toWorker' = toWorker \o <<[t |-> "pause"]>> \/ toWorker' = toWorker \o <<[t |-> "resume"]>> \/ toWorker' = toWorker \o << >>
  BY DEF Flush, Post
<1>9. QED BY <1>7, <1>8

(* Queues of chunks of the same sizes have the same bytes. *)
LEMMA BytesSame ==
  ASSUME NEW S, Sized(S), NEW p \in Seq(S), NEW R, Sized(R), NEW q \in Seq(R), Len(p) = Len(q),
         \A i \in 1..Len(p) : p[i].n = q[i].n
  PROVE  Bytes(p) = Bytes(q)
<1>1. PICK k : k = Len(p) /\ k = Len(q) /\ k \in Nat
  OBVIOUS
<1>2. PICK v : v = [i \in 1..k |-> p[i].n]
  OBVIOUS
<1>3. v = [i \in 1..k |-> q[i].n]
  BY <1>1, <1>2
<1>4. Bytes(p) = Total(v, 1..k)
  BY <1>1, <1>2, BytesNat
<1>5. Bytes(q) = Total(v, 1..k)
  BY <1>1, <1>3, BytesNat
<1> QED BY <1>4, <1>5

(* One queue after another. *)
LEMMA Concat ==
  ASSUME NEW S, NEW p \in Seq(S), NEW q \in Seq(S)
  PROVE  /\ p \o q \in Seq(S) /\ Len(p \o q) = Len(p) + Len(q)
         /\ \A i \in 1..Len(p) : (p \o q)[i] = p[i]
         /\ \A i \in 1..Len(q) : (p \o q)[Len(p) + i] = q[i]
OBVIOUS

(* What _flush makes of the first k chunks. *)
LEMMA FramesAre ==
  ASSUME NEW c, ConnOK(c), NEW k \in 0..Len(c.pendingOut)
  PROVE  /\ Frames(c, k) \in Seq(Frame) /\ Len(Frames(c, k)) = k
         /\ Bytes(Frames(c, k)) = Bytes(First(c.pendingOut, k))
         /\ Cumulated(c, k) \in Seq(Cum) /\ Len(Cumulated(c, k)) = k
         /\ \A i \in 1..k : /\ Frames(c, k)[i] = [seq |-> c.outSeq + i, n |-> c.pendingOut[i].n, from |-> c.pendingOut[i].from]
                            /\ Cumulated(c, k)[i] = [seq |-> c.outSeq + i, cum |-> c.sentBytes + Bytes(First(c.pendingOut, i))]
<1>1. PICK q, s, b : q = c.pendingOut /\ s = c.outSeq /\ b = c.sentBytes
  OBVIOUS
<1>2. q \in Seq(Chunk) /\ s \in Nat /\ b \in Nat /\ k \in 0..Len(q)
  BY <1>1 DEF ConnOK
<1>3. PICK f, g, h : f = Frames(c, k) /\ g = Cumulated(c, k) /\ h = First(q, k)
  OBVIOUS
<1>4. f = [i \in 1..k |-> [seq |-> s + i, n |-> q[i].n, from |-> q[i].from]]
  BY <1>1, <1>3 DEF Frames
<1>5. g = [i \in 1..k |-> [seq |-> s + i, cum |-> b + Bytes(First(q, i))]]
  BY <1>1, <1>3 DEF Cumulated
<1>6. ASSUME NEW i \in 1..k
      PROVE  [seq |-> s + i, n |-> q[i].n, from |-> q[i].from] \in Frame
             /\ [seq |-> s + i, cum |-> b + Bytes(First(q, i))] \in Cum
  <2>1. i \in 1..Len(q) /\ i \in 0..Len(q) /\ i \in Nat
    BY <1>2
  <2>2. q[i] \in Chunk
    BY <1>2, <2>1
  <2>3. Bytes(First(q, i)) \in Nat
    BY <1>2, <2>1, BytesSplit, ChunksSized
  <2>4. q[i].n \in 1..ChunkBytes /\ q[i].from \in Nat
    BY <2>2 DEF Chunk
  <2>5. PICK m : m = Bytes(First(q, i))
    OBVIOUS
  <2>6. s + i \in Nat /\ b + m \in Nat
    BY ONLY <1>2, <2>1, <2>3, <2>5
  <2> QED BY <2>4, <2>5, <2>6 DEF Frame, Cum
<1>7. k \in Nat
  BY <1>2
<1>8. f \in Seq(Frame) /\ Len(f) = k
  <2>1. f \in [1..k -> Frame]
    BY <1>4, <1>6
  <2> QED BY ONLY <1>7, <2>1
<1>9. g \in Seq(Cum) /\ Len(g) = k
  <2>1. g \in [1..k -> Cum]
    BY <1>5, <1>6
  <2> QED BY ONLY <1>7, <2>1
<1>10. h \in Seq(Chunk) /\ Len(h) = k /\ \A i \in 1..k : h[i] = q[i]
  BY <1>2, <1>3, Parts
<1>11. Bytes(f) = Bytes(h)
  <2>1. \A i \in 1..k : f[i].n = h[i].n
    BY <1>4, <1>10
  <2> QED BY <1>8, <1>10, <2>1, BytesSame, ChunksSized
<1> QED BY <1>1, <1>3, <1>4, <1>5, <1>8, <1>9, <1>11

(* _flush keeps the connection and the socket within their limits, and     *)
(* moves bytes from what waits to what has been sent.                      *)
LEMMA FlushKeeps ==
  ASSUME NEW c, ConnOK(c), NEW w, WireOK(w), NEW k, NEW d, NEW v, Sends(c, w, k, d, v)
  PROVE  /\ ConnOK(d) /\ WireOK(v)
         /\ Bytes(d.pendingOut) + d.consumedPending = Bytes(c.pendingOut) + c.consumedPending
<1>1. PICK q, fs, cs : q = c.pendingOut /\ fs = Frames(c, k) /\ cs = Cumulated(c, k)
  OBVIOUS
<1>2. q \in Seq(Chunk) /\ k \in 0..Len(q) /\ w \in Seq(Frame) /\ c.outstanding \in Seq(Cum)
  BY <1>1 DEF Sends, ConnOK, WireOK
<1>3. PICK x, y : x = Bytes(First(q, k)) /\ y = Bytes(After(q, k))
  OBVIOUS
<1>4. x \in Nat /\ y \in Nat /\ Bytes(q) = x + y /\ After(q, k) \in Seq(Chunk)
  BY <1>2, <1>3, BytesSplit, Parts, ChunksSized
<1>5. fs \in Seq(Frame) /\ Bytes(fs) = x /\ cs \in Seq(Cum) /\ Len(cs) = k
  BY <1>1, <1>2, <1>3, FramesAre
<1>6. v \in Seq(Frame) /\ Bytes(v) = Bytes(w) + x
  <2>1. v = w \o fs
    BY <1>1 DEF Sends
  <2>2. v \in Seq(Frame)
    BY <1>2, <1>5, <2>1
  <2> QED BY <1>2, <1>5, <2>1, <2>2, BytesConcat, ChunksSized
<1>7. WireOK(v)
  BY <1>1, <1>3, <1>6 DEF Sends, WireOK
<1>8. d.outstanding \in Seq(Cum) /\ Len(d.outstanding) = Len(c.outstanding) + k
  <2>1. PICK o, e : o = c.outstanding /\ e = d.outstanding
    OBVIOUS
  <2>2. e = o \o cs
    BY <1>1, <2>1 DEF Sends
  <2>3. o \in Seq(Cum) /\ cs \in Seq(Cum) /\ Len(cs) = k
    BY <1>2, <1>5, <2>1
  <2>4. e \in Seq(Cum) /\ Len(e) = Len(o) + Len(cs)
    BY ONLY <2>2, <2>3, Concat
  <2> QED BY <2>1, <2>3, <2>4
<1>9. /\ DOMAIN d = ConnFields /\ d.pendingOut = After(q, k)
      /\ d.outSeq = c.outSeq + k /\ d.sentBytes = c.sentBytes + x
      /\ d.consumedPending = c.consumedPending + x /\ d.creditBytes = c.creditBytes
      /\ d.consumedSeq = c.consumedSeq /\ d.consumedBytes = c.consumedBytes
      /\ d.refused = c.refused /\ d.paused \in BOOLEAN
      /\ c.sentBytes + x <= c.creditBytes /\ Len(c.outstanding) + k <= MaxOutstanding
  BY <1>1, <1>3 DEF Sends
<1>10. /\ c.outSeq \in Nat /\ c.sentBytes \in Nat /\ c.creditBytes \in Nat
       /\ c.consumedSeq \in Nat /\ c.consumedBytes \in Nat /\ c.consumedPending \in Nat
       /\ c.refused \in BOOLEAN
  BY DEF ConnOK
<1>11. d.outSeq \in Nat /\ d.sentBytes \in Nat /\ d.consumedPending \in Nat
  <2>1. PICK s, b, p : s = c.outSeq /\ b = c.sentBytes /\ p = c.consumedPending
    OBVIOUS
  <2>2. d.outSeq = s + k /\ d.sentBytes = b + x /\ d.consumedPending = p + x /\ s \in Nat /\ b \in Nat /\ p \in Nat
    BY <1>9, <1>10, <2>1
  <2>3. k \in Nat
    BY <1>2
  <2> QED BY ONLY <1>4, <2>2, <2>3
<1>12. ConnOK(d)
  BY <1>4, <1>8, <1>9, <1>10, <1>11 DEF ConnOK
<1>13. Bytes(d.pendingOut) + d.consumedPending = Bytes(c.pendingOut) + c.consumedPending
  <2>1. PICK a, b : a = c.consumedPending /\ b = d.consumedPending
    OBVIOUS
  <2>2. a \in Nat /\ b = a + x
    BY <1>9, <1>10, <2>1
  <2>3. Bytes(d.pendingOut) = y /\ Bytes(c.pendingOut) = x + y
    BY <1>1, <1>3, <1>4, <1>9
  <2>4. y + b = x + y + a
    BY ONLY <1>4, <2>2
  <2> QED BY <2>1, <2>3, <2>4
<1> QED BY <1>7, <1>12, <1>13

-----------------------------------------------------------------------------
(* The records to the worker, and the bytes they report as consumed.       *)
Record == {[t |-> s] : s \in {"pause", "resume"}} \cup {[t |-> "consumed", n |-> x] : x \in Nat}
Reports(m) == IF m.t = "consumed" THEN m.n ELSE 0
Told(q) == Bytes(Reported(q))

(* What each record reports. *)
LEMMA RecordsReport ==
  /\ \A m \in Record : Reports(m) \in Nat
  /\ \A s \in {"pause", "resume"} : [t |-> s] \in Record /\ Reports([t |-> s]) = 0
  /\ \A x \in Nat : [t |-> "consumed", n |-> x] \in Record /\ Reports([t |-> "consumed", n |-> x]) = x
<1>1. ASSUME NEW m \in Record PROVE Reports(m) \in Nat
  <2>1. CASE \E s \in {"pause", "resume"} : m = [t |-> s]
    <3>1. m.t # "consumed"
      BY <2>1
    <3> QED BY <3>1 DEF Reports
  <2>2. CASE \E x \in Nat : m = [t |-> "consumed", n |-> x]
    BY <2>2 DEF Reports
  <2> QED BY <2>1, <2>2 DEF Record
<1>2. ASSUME NEW s \in {"pause", "resume"} PROVE [t |-> s] \in Record /\ Reports([t |-> s]) = 0
  <2>1. PICK m : m = [t |-> s]
    OBVIOUS
  <2>2. m.t # "consumed" /\ m \in Record
    BY <2>1 DEF Record
  <2> QED BY <2>1, <2>2 DEF Reports
<1>3. ASSUME NEW x \in Nat
      PROVE  [t |-> "consumed", n |-> x] \in Record /\ Reports([t |-> "consumed", n |-> x]) = x
  <2>1. PICK m : m = [t |-> "consumed", n |-> x]
    OBVIOUS
  <2>2. m.t = "consumed" /\ m.n = x /\ m \in Record
    BY <2>1 DEF Record
  <2> QED BY <2>1, <2>2 DEF Reports
<1> QED BY <1>1, <1>2, <1>3

(* The reports of a queue are those of its records. *)
LEMMA ReportedIs ==
  ASSUME NEW q \in Seq(Record)
  PROVE  /\ Reported(q) \in Seq([n : Nat]) /\ Len(Reported(q)) = Len(q)
         /\ \A i \in 1..Len(q) : Reported(q)[i] = [n |-> Reports(q[i])]
<1>1. PICK r : r = Reported(q)
  OBVIOUS
<1>2. PICK k : k = Len(q) /\ k \in Nat
  OBVIOUS
<1>3. \A i \in 1..k : q[i] \in Record /\ Reports(q[i]) \in Nat
  BY <1>2, RecordsReport
<1>4. r = [i \in 1..k |-> [n |-> Reports(q[i])]]
  BY <1>1, <1>2 DEF Reported, Reports
<1>5. r \in Seq([n : Nat]) /\ Len(r) = k
  BY <1>2, <1>3, <1>4
<1> QED BY <1>1, <1>2, <1>4, <1>5

(* One record more. *)
LEMMA ToldMore ==
  ASSUME NEW q \in Seq(Record), NEW m \in Record
  PROVE  /\ q \o <<m>> \in Seq(Record) /\ Told(q) \in Nat
         /\ Told(q \o <<m>>) = Told(q) + Reports(m)
<1>0. Sized([n : Nat])
  BY DEF Sized
<1>1. PICK p, r, s, e : p = q \o <<m>> /\ r = Reported(q) /\ s = Reported(p) /\ e = [n |-> Reports(m)]
  OBVIOUS
<1>2. p \in Seq(Record) /\ Len(p) = Len(q) + 1 /\ p[Len(q) + 1] = m /\ \A i \in 1..Len(q) : p[i] = q[i]
  BY <1>1
<1>3. /\ r \in Seq([n : Nat]) /\ Len(r) = Len(q) /\ \A i \in 1..Len(q) : r[i] = [n |-> Reports(q[i])]
  BY <1>1, ReportedIs
<1>4. /\ s \in Seq([n : Nat]) /\ Len(s) = Len(p) /\ \A i \in 1..Len(p) : s[i] = [n |-> Reports(p[i])]
  BY <1>1, <1>2, ReportedIs
<1>5. e \in [n : Nat] /\ Reports(m) \in Nat
  BY <1>1, RecordsReport
<1>6. s = Append(r, e)
  <2>1. PICK a : a = Append(r, e)
    OBVIOUS
  <2>2. PICK k : k = Len(q) /\ k \in Nat
    OBVIOUS
  <2>3. a \in Seq([n : Nat]) /\ Len(a) = k + 1 /\ a[k + 1] = e /\ \A i \in 1..k : a[i] = r[i]
    BY <1>3, <1>5, <2>1, <2>2
  <2>4. ASSUME NEW i \in 1..(k + 1) PROVE s[i] = a[i]
    <3>1. CASE i = k + 1
      BY <1>1, <1>2, <1>4, <2>2, <2>3, <3>1
    <3>2. CASE i # k + 1
      <4>1. i \in 1..k
        BY <2>2, <3>2
      <4> QED BY <1>2, <1>3, <1>4, <2>2, <2>3, <4>1
    <3> QED BY <3>1, <3>2
  <2>5. Len(s) = k + 1
    BY <1>2, <1>4, <2>2
  <2> QED BY ONLY <1>4, <2>1, <2>3, <2>4, <2>5, <2>2
<1>7. Bytes(s) = Bytes(r) + e.n /\ Bytes(r) \in Nat
  BY <1>0, <1>3, <1>5, <1>6, BytesAppend, BytesNat
<1>8. e.n = Reports(m)
  BY <1>1
<1> QED BY <1>1, <1>2, <1>7, <1>8 DEF Told

(* One record taken. *)
LEMMA ToldLess ==
  ASSUME NEW q \in Seq(Record), q # << >>
  PROVE  /\ Head(q) \in Record /\ Tail(q) \in Seq(Record)
         /\ Told(q) = Reports(Head(q)) + Told(Tail(q)) /\ Told(Tail(q)) \in Nat /\ Reports(Head(q)) \in Nat
<1>0. Sized([n : Nat])
  BY DEF Sized
<1>1. PICK p, r, s, u, m, k : /\ p = Tail(q) /\ r = Reported(q) /\ s = Reported(p) /\ u = Tail(r)
                              /\ m = Head(q) /\ k = Len(p)
  OBVIOUS
<1>2. p \in Seq(Record) /\ m \in Record /\ k \in Nat /\ Len(q) = k + 1 /\ m = q[1] /\ \A i \in 1..k : p[i] = q[i + 1]
  BY <1>1
<1>3. /\ r \in Seq([n : Nat]) /\ Len(r) = k + 1 /\ \A i \in 1..(k + 1) : r[i] = [n |-> Reports(q[i])]
  BY <1>1, <1>2, ReportedIs
<1>4. /\ s \in Seq([n : Nat]) /\ Len(s) = k /\ \A i \in 1..k : s[i] = [n |-> Reports(p[i])]
  BY <1>1, <1>2, ReportedIs
<1>5. r # << >> /\ u \in Seq([n : Nat]) /\ Len(u) = k /\ Head(r) = r[1] /\ \A i \in 1..k : u[i] = r[i + 1]
  BY <1>1, <1>2, <1>3
<1>6. u = s
  <2>1. ASSUME NEW i \in 1..k PROVE u[i] = s[i]
    <3>1. i + 1 \in 1..(k + 1)
      BY <1>2
    <3> QED BY <1>2, <1>3, <1>4, <1>5, <3>1
  <2> QED BY ONLY <1>2, <1>4, <1>5, <2>1
<1>7. Head(r).n = Reports(m)
  <2>1. 1 \in 1..(k + 1)
    BY <1>2
  <2> QED BY <1>2, <1>3, <1>5, <2>1
<1>8. Bytes(r) = Head(r).n + Bytes(u) /\ Bytes(u) \in Nat
  BY <1>0, <1>1, <1>3, <1>5, BytesTail
<1>9. Reports(m) \in Nat
  BY <1>2, RecordsReport
<1> QED BY <1>1, <1>2, <1>6, <1>7, <1>8, <1>9 DEF Told

(* It does not matter which two of three sequences are joined first. *)
LEMMA Regroup ==
  ASSUME NEW S, NEW p \in Seq(S), NEW q \in Seq(S), NEW r \in Seq(S)
  PROVE  (p \o q) \o r = p \o (q \o r)
OBVIOUS

(* The same for queues of chunks. *)
LEMMA Grouped ==
  ASSUME NEW p \in Seq(Chunk), NEW q \in Seq(Chunk), NEW r \in Seq(Chunk),
         NEW f, f = p \o q, NEW g, g = q \o r
  PROVE  f \in Seq(Chunk) /\ g \in Seq(Chunk) /\ f \o r = p \o g
<1>1. (p \o q) \o r = p \o (q \o r)
  BY ONLY p \in Seq(Chunk), q \in Seq(Chunk), r \in Seq(Chunk), Regroup
<1>2. p \o q \in Seq(Chunk) /\ q \o r \in Seq(Chunk)
  OBVIOUS
<1> QED BY <1>1, <1>2

(* The pieces of at most c bytes that n bytes are cut into. *)
LEMMA Quotient ==
  ASSUME NEW n \in Nat, NEW c \in Nat \ {0}, NEW k, k = (n + c - 1) \div c
  PROVE  k \in Nat /\ (k - 1) * c < n /\ n <= k * c
<1>1. PICK m : m = n + c - 1
  OBVIOUS
<1>2. m \in Nat
  BY <1>1
<1>3. k = m \div c
  BY <1>1
<1>4. k \in Int /\ c * k <= m /\ m < c * (k + 1)
  BY <1>2, <1>3
<1> QED BY <1>1, <1>2, <1>4

(* More pieces hold more bytes. *)
LEMMA Multiples ==
  ASSUME NEW c \in Nat, NEW i \in Int, NEW j \in Int, i <= j
  PROVE  i * c <= j * c
OBVIOUS

(* Text is cut into chunks that follow one another and end with it. *)
LEMMA ChunksAre ==
  ASSUME written \in Nat, NEW n \in Nat
  PROVE  \E k \in Nat :
           /\ Chunks(n) \in Seq(Chunk) /\ Len(Chunks(n)) = k /\ (n > 0 => k > 0) /\ (n = 0 => k = 0)
           /\ \A i \in 1..k :
                /\ Chunks(n)[i].from = written + (i - 1) * ChunkBytes + 1
                /\ i < k => Chunks(n)[i].n = ChunkBytes
                /\ i = k => Chunks(n)[i].from + Chunks(n)[i].n = written + n + 1
<1>1. PICK k, c : k = (n + ChunkBytes - 1) \div ChunkBytes /\ c = ChunkBytes
  OBVIOUS
<1>2. c \in Nat \ {0} /\ k = (n + c - 1) \div c
  BY <1>1, CreditAssumption
<1>3. k \in Nat /\ (k - 1) * c < n /\ n <= k * c
  BY ONLY <1>2, n \in Nat, Quotient
<1>4. PICK f : f = Chunks(n)
  OBVIOUS
<1>5. f = [i \in 1..k |-> [from |-> written + ((i - 1) * c) + 1,
                           n |-> IF n - ((i - 1) * c) < c THEN n - ((i - 1) * c) ELSE c]]
  BY <1>1, <1>4 DEF Chunks
<1>6. ASSUME NEW i \in 1..k
      PROVE  /\ f[i] \in Chunk
             /\ f[i].from = written + ((i - 1) * c) + 1
             /\ i < k => f[i].n = c
             /\ i = k => f[i].from + f[i].n = written + n + 1
  <2>1. PICK b, m, j : b = (i - 1) * c /\ m = n - b /\ j = i - 1
    OBVIOUS
  <2>2. i \in Nat /\ j \in Nat /\ j <= k - 1 /\ (i < k => i <= k - 1)
    BY <1>3, <2>1
  <2>3. b = j * c /\ (k - 1) * c \in Int
    BY <1>2, <1>3, <2>1, <2>2
  <2>4. b \in Nat
    BY ONLY <1>2, <2>2, <2>3
  <2>5. b <= (k - 1) * c
    BY ONLY <1>2, <1>3, <2>2, <2>3, Multiples
  <2>6. b < n
    BY ONLY <1>3, <2>3, <2>4, <2>5, n \in Nat
  <2>7. f[i] = [from |-> written + b + 1, n |-> IF m < c THEN m ELSE c]
    BY <1>5, <2>1
  <2>8. PICK l : l = IF m < c THEN m ELSE c
    OBVIOUS
  <2>9. m \in Nat /\ m >= 1 /\ l \in 1..c
    BY ONLY <1>2, <2>1, <2>4, <2>6, <2>8, n \in Nat
  <2>10. PICK p : p = written + b + 1
    OBVIOUS
  <2>11. p \in Nat
    BY <2>4, <2>10
  <2>12. f[i] \in Chunk /\ f[i].from = p /\ f[i].n = l
    BY <1>1, <2>7, <2>8, <2>9, <2>10, <2>11 DEF Chunk
  <2>13. ASSUME i < k PROVE l = c
    <3>1. i * c <= (k - 1) * c
      BY ONLY <1>2, <1>3, <2>2, <2>13, Multiples
    <3>2. i * c = j * c + c
      BY ONLY <1>2, <2>1, <2>2
    <3>3. b + c < n
      BY ONLY <1>2, <1>3, <2>3, <2>4, <3>1, <3>2, n \in Nat
    <3> QED BY ONLY <1>2, <2>1, <2>4, <2>8, <3>3, n \in Nat
  <2>14. ASSUME i = k PROVE p + l = written + n + 1
    <3>1. i * c = j * c + c
      BY ONLY <1>2, <2>1, <2>2
    <3>2. n <= b + c
      BY ONLY <1>3, <2>3, <2>14, <3>1
    <3>3. l = m
      BY ONLY <1>2, <2>1, <2>4, <2>8, <3>2, n \in Nat
    <3> QED BY ONLY <2>1, <2>4, <2>10, <3>3, n \in Nat, written \in Nat
  <2> QED BY <2>1, <2>10, <2>12, <2>13, <2>14
<1>7. f \in Seq(Chunk) /\ Len(f) = k
  <2>1. f \in [1..k -> Chunk]
    BY <1>5, <1>6
  <2> QED BY ONLY <1>3, <2>1
<1>8. (n > 0 => k > 0) /\ (n = 0 => k = 0)
  <2>1. CASE k = 0
    <3>1. k * c = 0
      BY ONLY <1>2, <2>1
    <3> QED BY ONLY <1>3, <2>1, <3>1, n \in Nat
  <2>2. CASE k # 0
    <3>1. k > 0 /\ (k - 1) * c >= 0
      <4>1. k - 1 \in Nat
        BY <1>3, <2>2
      <4>2. PICK j : j = k - 1
        OBVIOUS
      <4>3. j * c \in Nat
        BY ONLY <1>2, <4>1, <4>2
      <4> QED BY ONLY <1>3, <2>2, <4>2, <4>3
    <3>2. PICK h : h = (k - 1) * c
      OBVIOUS
    <3>3. h >= 0 /\ h < n /\ k > 0
      BY <1>3, <3>1, <3>2
    <3>4. h \in Int
      BY ONLY <1>2, <1>3, <3>2
    <3>5. n # 0
      BY ONLY <3>3, <3>4, n \in Nat
    <3> QED BY ONLY <3>3, <3>5, n \in Nat
  <2> QED BY <2>1, <2>2
<1> QED BY <1>1, <1>3, <1>4, <1>6, <1>7, <1>8

-----------------------------------------------------------------------------
(* The types of everything on the way. *)
ClientFields == {"lastOut", "consumed", "credit", "creditedAt", "since", "upto", "marked"}
ClientOK(c) ==
  /\ DOMAIN c = ClientFields
  /\ c.lastOut \in Nat /\ c.consumed \in Nat /\ c.credit \in Nat /\ c.creditedAt \in Nat
  /\ c.since \in Nat /\ c.upto \in Nat

(* Grants of credit, and all that is on the way. *)
Grant == [seq : Nat, credit : Nat]
OutputOK ==
  /\ GateOK(gate) /\ ConnOK(conn) /\ WireOK(wire) /\ ClientOK(client) /\ written \in Nat
  /\ toGateway \in Seq(Chunk) /\ toWorker \in Seq(Record) /\ toServer \in Seq(Grant)

(* The gate's part of what changes in a step, and the connection's.        *)
Gated(g) ==
  /\ GateOK(gate') /\ toGateway' \in Seq(Chunk) /\ gate'.dropping = g.dropping
  /\ gate'.inflight + Bytes(toGateway) = g.inflight + Bytes(toGateway')
  /\ toGateway' \o gate'.queue = toGateway \o g.queue

(* _pump keeps the types, and the window counts what it hands over. *)
LEMMA PumpKeeps ==
  ASSUME NEW g, GateOK(g), toGateway \in Seq(Chunk), Pump(g)
  PROVE  Gated(g)
<1>1. DOMAIN g = GateFields /\ g.queue \in Seq(Chunk) /\ g.inflight \in Nat /\ g.dropping \in BOOLEAN
  BY DEF GateOK
<1>2. PICK k, some : Pumps(g, k, gate', some) /\ toGateway' = toGateway \o some
  BY <1>1, PumpIs
<1>3. PICK q, rest, t : q = g.queue /\ rest = After(q, k) /\ t = toGateway
  OBVIOUS
<1>4. k \in 0..Len(q) /\ some = First(q, k) /\ q \in Seq(Chunk) /\ t \in Seq(Chunk)
  BY <1>1, <1>2, <1>3 DEF Pumps
<1>5. some \in Seq(Chunk) /\ rest \in Seq(Chunk) /\ some \o rest = q
  BY <1>3, <1>4, Parts
<1>6. PICK u : u = t \o some
  OBVIOUS
<1>7. u \in Seq(Chunk) /\ Bytes(u) = Bytes(t) + Bytes(some) /\ Bytes(some) \in Nat /\ Bytes(t) \in Nat
  BY <1>4, <1>5, <1>6, Concat, BytesConcat, BytesNat, ChunksSized
<1>8. u \o rest = t \o q
  <2>1. t \in Seq(Chunk) /\ some \in Seq(Chunk) /\ rest \in Seq(Chunk)
    BY <1>4, <1>5
  <2>2. (t \o some) \o rest = t \o (some \o rest)
    BY ONLY <2>1, Regroup
  <2> QED BY <1>5, <1>6, <2>2
<1>9. PICK i, j, b : i = g.inflight /\ j = gate'.inflight /\ b = Bytes(some)
  OBVIOUS
<1>10. j = i + b /\ i \in Nat /\ b \in Nat
  BY <1>1, <1>2, <1>7, <1>9 DEF Pumps
<1>11. j \in Nat /\ j + Bytes(t) = i + Bytes(u)
  BY ONLY <1>7, <1>9, <1>10
<1>12. DOMAIN gate' = GateFields /\ gate'.queue = rest /\ gate'.dropping = g.dropping
  BY <1>2, <1>3 DEF Pumps
<1>13. toGateway' = u
  BY <1>2, <1>3, <1>6
<1> QED BY <1>1, <1>3, <1>5, <1>7, <1>8, <1>9, <1>11, <1>12, <1>13 DEF Gated, GateOK

(* The connection c with the socket's queue w has been flushed. *)
Flushed(c, w) ==
  /\ ConnOK(conn') /\ WireOK(wire') /\ toWorker' \in Seq(Record)
  /\ Told(toWorker') = Told(toWorker)
  /\ Bytes(conn'.pendingOut) + conn'.consumedPending = Bytes(c.pendingOut) + c.consumedPending

(* _flush keeps the types; no byte is lost between queue and socket. *)
LEMMA FlushTells ==
  ASSUME NEW c, ConnOK(c), NEW w, WireOK(w), toWorker \in Seq(Record), Flush(c, w)
  PROVE  Flushed(c, w)
<1>1. PICK k : Sends(c, w, k, conn', wire')
  BY FlushIs
<1>2. /\ ConnOK(conn') /\ WireOK(wire')
      /\ Bytes(conn'.pendingOut) + conn'.consumedPending = Bytes(c.pendingOut) + c.consumedPending
  <2>1. PICK d, v : d = conn' /\ v = wire'
    OBVIOUS
  <2> QED BY <1>1, <2>1, FlushKeeps
<1>3. CASE \E s \in {"pause", "resume"} : toWorker' = toWorker \o <<[t |-> s]>>
  <2>1. PICK s \in {"pause", "resume"} : toWorker' = toWorker \o <<[t |-> s]>>
    BY <1>3
  <2>2. PICK m : m = [t |-> s]
    OBVIOUS
  <2>3. m \in Record /\ Reports(m) = 0
    BY <2>2, RecordsReport
  <2>4. toWorker' \in Seq(Record) /\ Told(toWorker') = Told(toWorker) + 0 /\ Told(toWorker) \in Nat
    BY <2>1, <2>2, <2>3, ToldMore
  <2> QED BY <1>2, <2>4 DEF Flushed
<1>4. CASE toWorker' = toWorker \o << >>
  <2>1. << >> \in Seq(Record)
    OBVIOUS
  <2>2. toWorker' = toWorker
    BY <1>4, <2>1
  <2> QED BY <1>2, <2>2 DEF Flushed
<1>5. CASE toWorker' = toWorker
  BY <1>2, <1>5 DEF Flushed
<1> QED BY <1>3, <1>5, FlushIs

(* The window counts the bytes on their way to the gateway, those that *)
(* wait in it, and those whose report is under way.                    *)
Exact == gate.inflight = Bytes(toGateway) + Bytes(conn.pendingOut) + conn.consumedPending + Told(toWorker)

(* A step keeps the types, and the window exact while no quota is *)
(* exceeded.                                                      *)
Keeps == OutputOK' /\ (Exact => (over' # "quota" => Exact'))

(* All amounts are numbers. *)
LEMMA Amounts ==
  ASSUME OutputOK
  PROVE  /\ gate.inflight \in Nat /\ Bytes(toGateway) \in Nat /\ Bytes(conn.pendingOut) \in Nat
         /\ conn.consumedPending \in Nat /\ Told(toWorker) \in Nat /\ Bytes(wire) \in Nat
<1>1. gate.inflight \in Nat /\ conn.consumedPending \in Nat
  BY DEF OutputOK, GateOK, ConnOK
<1>2. Bytes(toGateway) \in Nat /\ Bytes(wire) \in Nat
  BY BytesNat, ChunksSized DEF OutputOK, WireOK
<1>3. Bytes(conn.pendingOut) \in Nat
  BY BytesNat, ChunksSized DEF OutputOK, ConnOK
<1>4. Told(toWorker) \in Nat
  <2>1. Reported(toWorker) \in Seq([n : Nat]) /\ Sized([n : Nat])
    BY ReportedIs DEF OutputOK, Sized
  <2> QED BY <2>1, BytesNat DEF Told
<1> QED BY <1>1, <1>2, <1>3, <1>4

(* A step that changes only the gate, and hands chunks over to the link.   *)
LEMMA GateKeeps ==
  ASSUME OutputOK, NEW g, GateOK(g), g.inflight = gate.inflight, Gated(g),
         written' \in Nat, UNCHANGED <<toWorker, conn, wire, client, toServer>>
  PROVE  Keeps
<1>1. OutputOK'
  <2>1. GateOK(gate') /\ toGateway' \in Seq(Chunk)
    BY DEF Gated
  <2> QED BY <2>1 DEF OutputOK, ConnOK, WireOK, ClientOK, ConnFields, ClientFields
<1>2. ASSUME Exact PROVE Exact'
  <2>1. PICK i, j, a, b, p, r, t : /\ i = gate.inflight /\ j = gate'.inflight /\ a = Bytes(toGateway)
                         /\ b = Bytes(toGateway') /\ p = Bytes(conn.pendingOut)
                         /\ r = conn.consumedPending /\ t = Told(toWorker)
    OBVIOUS
  <2>2. i \in Nat /\ a \in Nat /\ p \in Nat /\ r \in Nat /\ t \in Nat
    BY <2>1, Amounts
  <2>3. j \in Nat /\ b \in Nat
    <3>1. GateOK(gate') /\ toGateway' \in Seq(Chunk)
      BY DEF Gated
    <3> QED BY <2>1, <3>1, BytesNat, ChunksSized DEF GateOK
  <2>4. j + a = i + b
    BY <2>1 DEF Gated
  <2>5. i = a + p + r + t
    BY <1>2, <2>1 DEF Exact
  <2>6. j = b + p + r + t
    BY ONLY <2>2, <2>3, <2>4, <2>5
  <2>7. /\ gate'.inflight = j /\ Bytes(toGateway') = b /\ Bytes(conn'.pendingOut) = p
        /\ conn'.consumedPending = r /\ Told(toWorker') = t
    BY <2>1
  <2> QED BY <2>6, <2>7 DEF Exact
<1> QED BY <1>1, <1>2 DEF Keeps

(* A step of the connection.                                               *)
LEMMA ConnKeeps ==
  ASSUME OutputOK, NEW p, NEW r, p \in Nat, r \in Nat,
         ConnOK(conn'), WireOK(wire'), ClientOK(client'), toServer' \in Seq(Grant),
         toGateway' \in Seq(Chunk), toWorker' \in Seq(Record), UNCHANGED <<gate, written>>,
         Bytes(conn'.pendingOut) + conn'.consumedPending + Told(toWorker') = p + r + Told(toWorker),
         Bytes(toGateway') + p + r = Bytes(toGateway) + Bytes(conn.pendingOut) + conn.consumedPending
  PROVE  Keeps
<1>1. OutputOK'
  BY DEF OutputOK, GateOK, GateFields
<1>2. ASSUME Exact PROVE Exact'
  <2>1. PICK i, a, b, x, y, t : /\ i = gate.inflight /\ a = Bytes(toGateway) /\ t = Told(toWorker)
                                /\ b = Bytes(toGateway') /\ x = Bytes(conn.pendingOut)
                                /\ y = conn.consumedPending
    OBVIOUS
  <2>2. PICK z, s, u : z = Bytes(conn'.pendingOut) /\ s = conn'.consumedPending /\ u = Told(toWorker')
    OBVIOUS
  <2>3. i \in Nat /\ a \in Nat /\ x \in Nat /\ y \in Nat /\ t \in Nat
    BY <2>1, Amounts
  <2>4. b \in Nat /\ z \in Nat /\ s \in Nat
    BY <2>1, <2>2, BytesNat, ChunksSized DEF ConnOK
  <2>5. u \in Nat
    <3>1. PICK q : q = toWorker'
      OBVIOUS
    <3>2. Reported(q) \in Seq([n : Nat]) /\ Sized([n : Nat])
      BY <3>1, ReportedIs DEF Sized
    <3> QED BY <2>2, <3>1, <3>2, BytesNat DEF Told
  <2>6. z + s + u = p + r + t /\ b + p + r = a + x + y
    BY <2>1, <2>2
  <2>7. i = a + x + y + t
    BY <1>2, <2>1 DEF Exact
  <2>8. i = b + z + s + u
    BY ONLY <2>3, <2>4, <2>5, <2>6, <2>7, p \in Nat, r \in Nat
  <2>9. /\ gate'.inflight = i /\ Bytes(toGateway') = b /\ Bytes(conn'.pendingOut) = z
        /\ conn'.consumedPending = s /\ Told(toWorker') = u
    BY <2>1, <2>2
  <2> QED BY <2>8, <2>9 DEF Exact
<1> QED BY <1>1, <1>2 DEF Keeps

-----------------------------------------------------------------------------
(* The operations.                                                         *)
LEMMA MarkerIs == Marker \in Chunk /\ Marker.from = 0
BY CreditAssumption, OutputAssumption DEF Marker, Chunk

(* The shell writes: into the queue, or nowhere once the gate drops. *)
LEMMA WriteKeeps ==
  ASSUME OutputOK, NEW n \in WriteSizes, Write(n)
  PROVE  Keeps
<1>1. n \in Nat /\ written \in Nat /\ GateOK(gate)
  BY OutputAssumption DEF OutputOK
<1>2. written' \in Nat /\ UNCHANGED <<toWorker, conn, wire, client, toServer>>
  BY <1>1 DEF Write, ends
<1>3. DOMAIN gate = GateFields /\ gate.queue \in Seq(Chunk) /\ gate.inflight \in Nat /\ gate.dropping \in BOOLEAN
  BY <1>1 DEF GateOK
<1>4. CASE gate.dropping /\ UNCHANGED <<gate, toGateway>>
  <2>1. Gated(gate)
    BY <1>1, <1>4, Amounts DEF Gated, OutputOK
  <2> QED BY <1>1, <1>2, <2>1, GateKeeps
<1>5. CASE Pump(Overflowed(gate))
  <2>1. PICK g, q, b : g = Overflowed(gate) /\ q = Append(gate.queue, Marker) /\ b = Running
    OBVIOUS
  <2>2. g = [gate EXCEPT !.queue = q, !.dropping = b] /\ b \in BOOLEAN
    BY <2>1 DEF Overflowed, Running
  <2>3. q \in Seq(Chunk)
    BY <1>3, <2>1, MarkerIs
  <2>4. GateOK(g) /\ g.inflight = gate.inflight
    BY <1>3, <2>2, <2>3 DEF GateOK, GateFields
  <2>5. Gated(g)
    BY <1>5, <2>1, <2>4, PumpKeeps DEF OutputOK
  <2> QED BY <1>2, <2>4, <2>5, GateKeeps
<1>6. CASE Pump([gate EXCEPT !.queue = gate.queue \o Chunks(n)])
  <2>1. PICK q, cs : q = gate.queue \o cs /\ cs = Chunks(n)
    OBVIOUS
  <2>2. PICK g : g = [gate EXCEPT !.queue = q]
    OBVIOUS
  <2>3. cs \in Seq(Chunk)
    BY <1>1, <2>1, ChunksAre
  <2>4. q \in Seq(Chunk)
    <3>1. PICK o : o = gate.queue
      OBVIOUS
    <3>2. o \in Seq(Chunk) /\ q = o \o cs
      BY <1>3, <2>1, <3>1
    <3> QED BY ONLY <2>3, <3>2, Concat
  <2>5. GateOK(g) /\ g.inflight = gate.inflight
    BY <1>3, <2>2, <2>4 DEF GateOK, GateFields
  <2>6. Gated(g)
    BY <1>6, <2>1, <2>2, <2>5, PumpKeeps DEF OutputOK
  <2> QED BY <1>2, <2>5, <2>6, GateKeeps
<1> QED BY <1>4, <1>5, <1>6 DEF Write

(* Steps of the shell change the gate's flags only. *)
LEMMA GateFlags ==
  ASSUME OutputOK, NEW g, DOMAIN g = GateFields, g.queue = gate.queue, g.inflight = gate.inflight,
         g.dropping \in BOOLEAN, gate' = g,
         UNCHANGED <<toGateway, written, toWorker, conn, wire, client, toServer>>
  PROVE  Keeps
<1>1. GateOK(g)
  BY DEF GateOK, OutputOK
<1>2. Gated(g)
  BY <1>1, Amounts DEF Gated, OutputOK
<1>3. written' \in Nat
  BY DEF OutputOK
<1> QED BY <1>1, <1>2, <1>3, GateKeeps

(* What the shell does beside that leaves the window alone. *)
LEMMA ShellKeeps ==
  ASSUME OutputOK, StartCommand \/ Yield \/ Resume \/ CommandEnds
  PROVE  Keeps
<1>1. DOMAIN gate = GateFields /\ gate.dropping \in BOOLEAN
  BY DEF OutputOK, GateOK
<1>2. ASSUME NEW a, NEW b, NEW g, Shell(a, b, g)
      PROVE  gate' = g /\ UNCHANGED <<toGateway, written, toWorker, conn, wire, client, toServer>>
  BY <1>2 DEF Shell, link, ends
<1>3. ASSUME NEW a, NEW b, Shell(a, b, gate) PROVE Keeps
  BY <1>1, <1>2, <1>3, GateFlags
<1>4. ASSUME NEW a, NEW b, Shell(a, b, [gate EXCEPT !.waiter = TRUE]) PROVE Keeps
  <2>1. PICK g : g = [gate EXCEPT !.waiter = TRUE]
    OBVIOUS
  <2>2. DOMAIN g = GateFields /\ g.queue = gate.queue /\ g.inflight = gate.inflight /\ g.dropping = gate.dropping
    BY <1>1, <2>1 DEF GateFields
  <2> QED BY <1>1, <1>2, <1>4, <2>1, <2>2, GateFlags
<1>5. ASSUME NEW a, NEW b, Shell(a, b, [gate EXCEPT !.dropping = FALSE]) PROVE Keeps
  <2>1. PICK g : g = [gate EXCEPT !.dropping = FALSE]
    OBVIOUS
  <2>2. DOMAIN g = GateFields /\ g.queue = gate.queue /\ g.inflight = gate.inflight /\ g.dropping = FALSE
    BY <1>1, <2>1 DEF GateFields
  <2> QED BY <1>1, <1>2, <1>5, <2>1, <2>2, GateFlags
<1> QED BY <1>3, <1>4, <1>5 DEF StartCommand, Yield, Resume, CommandEnds

(* The pipe has room again, and the gate goes on. *)
LEMMA SinkDrainedKeeps ==
  ASSUME OutputOK, SinkDrained
  PROVE  Keeps
<1>1. PICK g : g = [gate EXCEPT !.sinkFull = FALSE]
  OBVIOUS
<1>2. Pump(g) /\ UNCHANGED <<toWorker, conn, wire, client, toServer, written>>
  BY <1>1 DEF SinkDrained, ends
<1>3. DOMAIN gate = GateFields /\ gate.dropping \in BOOLEAN /\ gate.queue \in Seq(Chunk) /\ gate.inflight \in Nat
  BY DEF OutputOK, GateOK
<1>4. GateOK(g) /\ g.inflight = gate.inflight
  BY <1>1, <1>3 DEF GateOK, GateFields
<1>5. Gated(g)
  BY <1>2, <1>4, PumpKeeps DEF OutputOK
<1>6. written' \in Nat
  BY <1>2 DEF OutputOK
<1> QED BY <1>2, <1>4, <1>5, <1>6, GateKeeps

(* A record is handled: the window forgets what it reports.                *)
LEMMA HandledKeeps ==
  ASSUME OutputOK, NEW g, GateOK(g), Gated(g), toWorker # << >>, toWorker' = Tail(toWorker),
         Exact => g.inflight + Reports(Head(toWorker)) = gate.inflight,
         UNCHANGED <<written, conn, wire, client, toServer>>
  PROVE  Keeps
<1>1. toWorker \in Seq(Record)
  BY DEF OutputOK
<1>2. /\ toWorker' \in Seq(Record) /\ Told(toWorker) = Reports(Head(toWorker)) + Told(toWorker')
      /\ Told(toWorker') \in Nat /\ Reports(Head(toWorker)) \in Nat
  BY <1>1, ToldLess
<1>3. OutputOK'
  <2>1. GateOK(gate') /\ toGateway' \in Seq(Chunk)
    BY DEF Gated
  <2> QED BY <1>2, <2>1 DEF OutputOK, ConnOK, WireOK, ClientOK, ConnFields, ClientFields
<1>4. ASSUME Exact PROVE Exact'
  <2>1. PICK i, h, j, a, b, p, r, t, u, m :
          /\ i = gate.inflight /\ h = g.inflight /\ j = gate'.inflight /\ a = Bytes(toGateway)
          /\ b = Bytes(toGateway') /\ p = Bytes(conn.pendingOut) /\ r = conn.consumedPending
          /\ t = Told(toWorker) /\ u = Told(toWorker') /\ m = Reports(Head(toWorker))
    OBVIOUS
  <2>2. i \in Nat /\ a \in Nat /\ p \in Nat /\ r \in Nat /\ t \in Nat
    BY <2>1, Amounts
  <2>3. j \in Nat /\ b \in Nat /\ h \in Nat
    <3>1. GateOK(gate') /\ toGateway' \in Seq(Chunk)
      BY DEF Gated
    <3> QED BY <2>1, <3>1, BytesNat, ChunksSized DEF GateOK
  <2>4. j + a = h + b
    BY <2>1 DEF Gated
  <2>5. i = a + p + r + t
    BY <1>4, <2>1 DEF Exact
  <2>6. h + m = i /\ t = m + u /\ u \in Nat /\ m \in Nat
    BY <1>2, <1>4, <2>1
  <2>7. j = b + p + r + u
    BY ONLY <2>2, <2>3, <2>4, <2>5, <2>6
  <2>8. /\ gate'.inflight = j /\ Bytes(toGateway') = b /\ Bytes(conn'.pendingOut) = p
        /\ conn'.consumedPending = r /\ Told(toWorker') = u
    BY <2>1
  <2> QED BY <2>7, <2>8 DEF Exact
<1> QED BY <1>3, <1>4 DEF Keeps

(* The worker takes a record: a pause, a resume, or bytes that were *)
(* consumed.                                                        *)
LEMMA WorkerHandlesKeeps ==
  ASSUME OutputOK, WorkerHandles
  PROVE  Keeps
<1>1. PICK m : m = Head(toWorker)
  OBVIOUS
<1>2. toWorker # << >> /\ toWorker' = Tail(toWorker) /\ UNCHANGED <<written, conn, wire, client, toServer>>
  BY DEF WorkerHandles, ends
<1>3. m \in Record /\ Reports(m) \in Nat
  BY <1>1, <1>2, ToldLess DEF OutputOK
<1>4. /\ DOMAIN gate = GateFields /\ gate.dropping \in BOOLEAN /\ gate.queue \in Seq(Chunk)
      /\ gate.inflight \in Nat /\ toGateway \in Seq(Chunk)
  BY DEF OutputOK, GateOK
<1>5. CASE m.t = "pause" /\ gate' = [gate EXCEPT !.remotePaused = TRUE] /\ UNCHANGED toGateway
  <2>1. PICK g : g = [gate EXCEPT !.remotePaused = TRUE]
    OBVIOUS
  <2>2. /\ DOMAIN g = GateFields /\ g.queue = gate.queue /\ g.inflight = gate.inflight
        /\ g.dropping = gate.dropping
    BY <1>4, <2>1 DEF GateFields
  <2>3. GateOK(g)
    BY <1>4, <2>2 DEF GateOK
  <2>4. Gated(g)
    BY <1>4, <1>5, <2>1, <2>3, Amounts DEF Gated
  <2>5. Reports(m) = 0
    BY <1>5 DEF Reports
  <2>6. Exact => g.inflight + Reports(Head(toWorker)) = gate.inflight
    BY <1>1, <1>4, <2>2, <2>5
  <2> QED BY <1>2, <2>3, <2>4, <2>6, HandledKeeps
<1>6. CASE m.t = "resume" /\ Pump([gate EXCEPT !.remotePaused = FALSE])
  <2>1. PICK g : g = [gate EXCEPT !.remotePaused = FALSE]
    OBVIOUS
  <2>2. /\ DOMAIN g = GateFields /\ g.queue = gate.queue /\ g.inflight = gate.inflight
        /\ g.dropping = gate.dropping
    BY <1>4, <2>1 DEF GateFields
  <2>3. GateOK(g)
    BY <1>4, <2>2 DEF GateOK
  <2>4. Gated(g)
    BY <1>4, <1>6, <2>1, <2>3, PumpKeeps
  <2>5. Reports(m) = 0
    BY <1>6 DEF Reports
  <2>6. Exact => g.inflight + Reports(Head(toWorker)) = gate.inflight
    BY <1>1, <1>4, <2>2, <2>5
  <2> QED BY <1>2, <2>3, <2>4, <2>6, HandledKeeps
<1>7. CASE m.t = "consumed" /\ TakesConsumed(m.n)
  <2>1. PICK n, i, l : n = m.n /\ i = gate.inflight /\ l = IF i > n THEN i - n ELSE 0
    OBVIOUS
  <2>2. PICK g : g = [gate EXCEPT !.inflight = l]
    OBVIOUS
  <2>3. Pump(g)
    BY <1>7, <2>1, <2>2 DEF TakesConsumed, Less
  <2>4. Reports(m) = n /\ n \in Nat
    BY <1>3, <1>7, <2>1 DEF Reports
  <2>5. i \in Nat /\ l \in Nat
    BY <1>4, <2>1, <2>4
  <2>6. /\ DOMAIN g = GateFields /\ g.queue = gate.queue /\ g.inflight = l
        /\ g.dropping = gate.dropping
    BY <1>4, <2>2 DEF GateFields
  <2>7. GateOK(g)
    BY <1>4, <2>5, <2>6 DEF GateOK
  <2>8. Gated(g)
    BY <1>4, <2>3, <2>7, PumpKeeps
  <2>9. ASSUME Exact PROVE l + n = i
    <3>1. PICK a, p, r, t, u : /\ a = Bytes(toGateway) /\ p = Bytes(conn.pendingOut)
                               /\ r = conn.consumedPending /\ t = Told(toWorker) /\ u = Told(toWorker')
      OBVIOUS
    <3>2. a \in Nat /\ p \in Nat /\ r \in Nat
      BY <3>1, Amounts
    <3>3. t = n + u /\ u \in Nat
      BY <1>1, <1>2, <2>4, <3>1, ToldLess DEF OutputOK
    <3>4. i = a + p + r + t
      BY <2>1, <2>9, <3>1 DEF Exact
    <3>5. i >= n
      BY ONLY <2>4, <3>2, <3>3, <3>4
    <3> QED BY ONLY <2>1, <2>4, <2>5, <3>5
  <2>10. Exact => g.inflight + Reports(Head(toWorker)) = gate.inflight
    BY <1>1, <2>1, <2>4, <2>6, <2>9
  <2> QED BY <1>2, <2>7, <2>8, <2>10, HandledKeeps
<1> QED BY <1>1, <1>5, <1>6, <1>7 DEF WorkerHandles

(* The gateway takes a chunk: it waits in the connection, or the session *)
(* is over quota.                                                        *)
LEMMA OutputKeeps ==
  ASSUME OutputOK, Output
  PROVE  Keeps
<1>1. PICK x, t : x = Head(toGateway) /\ t = Tail(toGateway)
  OBVIOUS
<1>2. /\ toGateway # << >> /\ toGateway' = t /\ UNCHANGED <<written, gate, client, toServer>>
  BY <1>1 DEF Output, ends
<1>3. x \in Chunk /\ t \in Seq(Chunk) /\ Bytes(toGateway) = x.n + Bytes(t) /\ x.n \in Nat /\ Bytes(t) \in Nat
  BY <1>1, <1>2, BytesTail, ChunksSized DEF OutputOK
<1>4. CASE over' = "quota" /\ UNCHANGED <<conn, wire, toWorker>>
  <2>1. OutputOK'
    BY <1>2, <1>3, <1>4 DEF OutputOK, GateOK, GateFields, ConnOK, WireOK, ClientOK, ConnFields, ClientFields
  <2> QED BY <1>4, <2>1 DEF Keeps
<1>5. CASE Flush([conn EXCEPT !.pendingOut = Append(conn.pendingOut, Head(toGateway))], wire)
  <2>1. PICK q, s : q = conn.pendingOut /\ s = Append(q, x)
    OBVIOUS
  <2>2. PICK c : c = [conn EXCEPT !.pendingOut = s]
    OBVIOUS
  <2>3. q \in Seq(Chunk) /\ DOMAIN conn = ConnFields
    BY <2>1 DEF OutputOK, ConnOK
  <2>4. s \in Seq(Chunk) /\ Bytes(s) = Bytes(q) + x.n
    BY <1>3, <2>1, <2>3, BytesAppend, ChunksSized
  <2>5. DOMAIN c = ConnFields /\ c.pendingOut = s /\ \A f \in ConnFields \ {"pendingOut"} : c[f] = conn[f]
    BY <2>2, <2>3 DEF ConnFields
  <2>6. /\ c.outstanding = conn.outstanding /\ c.outSeq = conn.outSeq /\ c.sentBytes = conn.sentBytes
        /\ c.creditBytes = conn.creditBytes /\ c.consumedSeq = conn.consumedSeq
        /\ c.consumedBytes = conn.consumedBytes /\ c.consumedPending = conn.consumedPending
        /\ c.paused = conn.paused /\ c.refused = conn.refused
    BY <2>5 DEF ConnFields
  <2>7. ConnOK(c)
    BY <2>4, <2>5, <2>6 DEF OutputOK, ConnOK
  <2>8. Flushed(c, wire)
    BY <1>1, <1>5, <2>1, <2>2, <2>7, FlushTells DEF OutputOK
  <2>9. PICK p, r : p = Bytes(s) /\ r = conn.consumedPending
    OBVIOUS
  <2>10. p \in Nat /\ r \in Nat
    BY <2>4, <2>9, BytesNat, ChunksSized DEF OutputOK, ConnOK
  <2>11. Bytes(t) + p + r = Bytes(toGateway) + Bytes(conn.pendingOut) + conn.consumedPending
    <3>1. PICK a, b, d, n : a = Bytes(t) /\ b = Bytes(toGateway) /\ d = Bytes(q) /\ n = x.n
      OBVIOUS
    <3>2. a \in Nat /\ n \in Nat /\ d \in Nat /\ b = n + a /\ p = d + n
      BY <1>3, <2>1, <2>4, <2>9, <3>1, Amounts
    <3>3. a + p + r = b + d + r
      BY ONLY <2>10, <3>2
    <3> QED BY <2>1, <2>9, <3>1, <3>3
  <2>12. Bytes(conn'.pendingOut) + conn'.consumedPending + Told(toWorker') = p + r + Told(toWorker)
    BY <2>5, <2>6, <2>8, <2>9 DEF Flushed
  <2>13. ConnOK(conn') /\ WireOK(wire') /\ toWorker' \in Seq(Record)
    BY <2>8 DEF Flushed
  <2>14. ClientOK(client') /\ toServer' \in Seq(Grant)
    BY <1>2 DEF OutputOK, ClientOK, ClientFields
  <2> QED BY <1>2, <1>3, <2>10, <2>11, <2>12, <2>13, <2>14, ConnKeeps
<1> QED BY <1>4, <1>5 DEF Output

(* The connection reports what it has sent: bytes that were pending are *)
(* told.                                                                *)
LEMMA ReportConsumedKeeps ==
  ASSUME OutputOK, ReportConsumed
  PROVE  Keeps
<1>1. PICK r, m : r = conn.consumedPending /\ m = [t |-> "consumed", n |-> r]
  OBVIOUS
<1>2. /\ toWorker' = toWorker \o <<m>> /\ conn' = [conn EXCEPT !.consumedPending = 0]
      /\ UNCHANGED <<written, gate, toGateway, wire, client, toServer>>
  BY <1>1 DEF ReportConsumed, Post, ends
<1>3. r \in Nat
  BY <1>1, Amounts
<1>4. m \in Record /\ Reports(m) = r
  BY <1>1, <1>3, RecordsReport
<1>5. toWorker' \in Seq(Record) /\ Told(toWorker') = Told(toWorker) + r /\ Told(toWorker) \in Nat
  BY <1>2, <1>4, ToldMore DEF OutputOK
<1>6. DOMAIN conn = ConnFields
  BY DEF OutputOK, ConnOK
<1>7. /\ DOMAIN conn' = ConnFields /\ conn'.consumedPending = 0 /\ conn'.pendingOut = conn.pendingOut
      /\ conn'.outstanding = conn.outstanding /\ conn'.outSeq = conn.outSeq
      /\ conn'.sentBytes = conn.sentBytes /\ conn'.creditBytes = conn.creditBytes
      /\ conn'.consumedSeq = conn.consumedSeq /\ conn'.consumedBytes = conn.consumedBytes
      /\ conn'.paused = conn.paused /\ conn'.refused = conn.refused
  BY <1>2, <1>6 DEF ConnFields
<1>8. ConnOK(conn')
  BY <1>7 DEF OutputOK, ConnOK
<1>9. WireOK(wire') /\ ClientOK(client') /\ toServer' \in Seq(Grant) /\ toGateway' \in Seq(Chunk)
  BY <1>2 DEF OutputOK, WireOK, ClientOK, ClientFields
<1>10. PICK p : p = Bytes(conn.pendingOut)
  OBVIOUS
<1>11. p \in Nat
  BY <1>10, Amounts
<1>12. Bytes(conn'.pendingOut) + conn'.consumedPending + Told(toWorker') = p + r + Told(toWorker)
  <2>1. PICK t, u : t = Told(toWorker) /\ u = Told(toWorker')
    OBVIOUS
  <2>2. u = t + r /\ t \in Nat
    BY <1>5, <2>1
  <2>3. p + 0 + u = p + r + t
    BY ONLY <1>3, <1>11, <2>2
  <2> QED BY <1>7, <1>10, <2>1, <2>3
<1>13. Bytes(toGateway') + p + r = Bytes(toGateway) + Bytes(conn.pendingOut) + conn.consumedPending
  BY <1>1, <1>2, <1>10
<1> QED BY <1>2, <1>3, <1>5, <1>8, <1>9, <1>11, <1>12, <1>13, ConnKeeps

(* A step that changes neither the waiting chunks nor what is reported.    *)
LEMMA FlushedKeeps ==
  ASSUME OutputOK, NEW c, NEW w, Flushed(c, w), c.pendingOut = conn.pendingOut, c.consumedPending = conn.consumedPending,
         ClientOK(client'), toServer' \in Seq(Grant), UNCHANGED <<written, gate, toGateway>>
  PROVE  Keeps
<1>1. PICK p, r : p = Bytes(conn.pendingOut) /\ r = conn.consumedPending
  OBVIOUS
<1>2. p \in Nat /\ r \in Nat
  BY <1>1, Amounts
<1>3. ConnOK(conn') /\ WireOK(wire') /\ toWorker' \in Seq(Record) /\ toGateway' \in Seq(Chunk)
  BY DEF Flushed, OutputOK
<1>4. Bytes(conn'.pendingOut) + conn'.consumedPending + Told(toWorker') = p + r + Told(toWorker)
  BY <1>1 DEF Flushed
<1>5. Bytes(toGateway') + p + r = Bytes(toGateway) + Bytes(conn.pendingOut) + conn.consumedPending
  BY <1>1
<1> QED BY <1>2, <1>3, <1>4, <1>5, ConnKeeps

(* A step that touches neither the queues of the connection nor the *)
(* records.                                                         *)
LEMMA UnflushedKeeps ==
  ASSUME OutputOK, ConnOK(conn'), WireOK(wire'), conn'.pendingOut = conn.pendingOut,
         conn'.consumedPending = conn.consumedPending, UNCHANGED toWorker,
         ClientOK(client'), toServer' \in Seq(Grant), UNCHANGED <<written, gate, toGateway>>
  PROVE  Keeps
<1>1. Flushed(conn, wire)
  BY DEF Flushed, OutputOK
<1> QED BY <1>1, FlushedKeeps

(* What a grant leaves of the outstanding messages. *)
LEMMA LeftIs ==
  ASSUME NEW c, ConnOK(c), NEW m,
         NEW k, k = Cardinality({i \in DOMAIN c.outstanding : c.outstanding[i].seq <= m.seq})
  PROVE  /\ k \in 0..Len(c.outstanding)
         /\ After(c.outstanding, k) \in Seq(Cum) /\ Len(After(c.outstanding, k)) <= MaxOutstanding
         /\ IF k = 0 THEN c.consumedBytes \in Nat ELSE c.outstanding[k].cum \in Nat
<1>1. PICK q, T : q = c.outstanding /\ T = {i \in DOMAIN q : q[i].seq <= m.seq}
  OBVIOUS
<1>2. q \in Seq(Cum) /\ Len(q) <= MaxOutstanding /\ c.consumedBytes \in Nat
  BY <1>1 DEF ConnOK
<1>3. PICK n : n = Len(q) /\ n \in Nat
  BY <1>2
<1>4. T \subseteq 1..n /\ IsFiniteSet(1..n) /\ Cardinality(1..n) = n
  <2>0. PICK one : one = 1
    OBVIOUS
  <2>1a. one \in Int /\ n \in Int
    BY <1>3, <2>0
  <2>1. IsFiniteSet(one..n) /\ Cardinality(one..n) = IF one > n THEN 0 ELSE n - one + 1
    BY ONLY <2>1a, FS_Interval
  <2>2. IsFiniteSet(1..n) /\ Cardinality(1..n) = n
    BY ONLY <1>3, <2>0, <2>1
  <2>3. T \subseteq 1..n
    BY <1>1, <1>2, <1>3
  <2> QED BY <2>2, <2>3
<1>5. k = Cardinality(T)
  BY <1>1
<1>6. k \in Nat /\ k <= n
  <2>1. IsFiniteSet(T) /\ Cardinality(T) <= Cardinality(1..n)
    BY <1>4, FS_Subset
  <2> QED BY <1>4, <1>5, <2>1, FS_CardinalityType
<1>7. k \in 0..Len(q)
  BY <1>3, <1>6
<1>8. After(q, k) \in Seq(Cum) /\ Len(After(q, k)) = n - k
  BY <1>2, <1>3, <1>7, Parts
<1>9. n - k <= MaxOutstanding
  BY <1>2, <1>3, <1>6, CreditAssumption
<1>10. k # 0 => q[k].cum \in Nat
  <2>1. ASSUME k # 0 PROVE q[k] \in Cum
    <3>1. k \in 1..Len(q)
      BY <1>7, <2>1
    <3> QED BY <1>2, <3>1
  <2> QED BY <2>1 DEF Cum
<1> QED BY <1>1, <1>2, <1>7, <1>8, <1>9, <1>10

(* Credit comes, and the connection sends what it allows. *)
LEMMA CreditedKeeps ==
  ASSUME OutputOK, Credited
  PROVE  Keeps
<1>1. PICK m, ts : m = Head(toServer) /\ ts = Tail(toServer)
  OBVIOUS
<1>2. /\ toServer # << >> /\ toServer' = ts /\ Granted(conn, m)
      /\ UNCHANGED <<written, gate, toGateway, client>>
  BY <1>1 DEF Credited
<1>3. m \in Grant /\ ts \in Seq(Grant)
  BY <1>1, <1>2 DEF OutputOK
<1>4. m.seq \in Nat /\ m.credit \in Nat
  BY <1>3 DEF Grant
<1>5. ClientOK(client')
  BY <1>2 DEF OutputOK, ClientOK, ClientFields
<1>6. PICK k : k = Cardinality({i \in DOMAIN conn.outstanding : conn.outstanding[i].seq <= m.seq})
  OBVIOUS
<1>7. PICK left : left = IF k = 0 THEN conn.consumedBytes ELSE conn.outstanding[k].cum
  OBVIOUS
<1>8. PICK rest : rest = After(conn.outstanding, k)
  OBVIOUS
<1>9. PICK c : c = [conn EXCEPT !.outstanding = rest, !.consumedBytes = left, !.consumedSeq = m.seq,
                                !.creditBytes = m.credit]
  OBVIOUS
<1>10. IF Violates(conn, m, left)
       THEN over' = "violation" /\ UNCHANGED <<conn, wire, toWorker>>
       ELSE Flush(c, wire) /\ UNCHANGED over
  BY <1>2, <1>6, <1>7, <1>8, <1>9 DEF Granted
<1>11. CASE Violates(conn, m, left)
  <2>1. UNCHANGED <<conn, wire, toWorker>>
    BY <1>10, <1>11
  <2>2. ConnOK(conn') /\ WireOK(wire')
    BY <2>1 DEF OutputOK, ConnOK, ConnFields, WireOK
  <2> QED BY <1>2, <1>3, <1>5, <2>1, <2>2, UnflushedKeeps
<1>12. CASE ~ Violates(conn, m, left)
  <2>1. ConnOK(conn) /\ WireOK(wire)
    BY DEF OutputOK
  <2>2. rest \in Seq(Cum) /\ Len(rest) <= MaxOutstanding /\ left \in Nat
    BY <1>6, <1>7, <1>8, <2>1, LeftIs
  <2>3. DOMAIN conn = ConnFields
    BY <2>1 DEF ConnOK
  <2>4. /\ DOMAIN c = ConnFields /\ c.outstanding = rest /\ c.consumedBytes = left
        /\ c.consumedSeq = m.seq /\ c.creditBytes = m.credit /\ c.pendingOut = conn.pendingOut
        /\ c.outSeq = conn.outSeq /\ c.sentBytes = conn.sentBytes
        /\ c.consumedPending = conn.consumedPending /\ c.paused = conn.paused
        /\ c.refused = conn.refused
    BY <1>9, <2>3 DEF ConnFields
  <2>5. c.sentBytes <= c.creditBytes
    <3>1. PICK s, b, d : s = conn.sentBytes /\ b = conn.creditBytes /\ d = m.credit
      OBVIOUS
    <3>2. s \in Nat /\ b \in Nat /\ d \in Nat /\ s <= b /\ ~ (d < b)
      BY <1>4, <1>12, <2>1, <3>1 DEF ConnOK, Violates
    <3>3. s <= d
      BY ONLY <3>2
    <3> QED BY <2>4, <3>1, <3>3
  <2>6. ConnOK(c)
    BY <1>4, <2>1, <2>2, <2>4, <2>5 DEF ConnOK
  <2>7. Flushed(c, wire)
    BY <1>10, <1>12, <2>1, <2>6, FlushTells DEF OutputOK
  <2> QED BY <1>2, <1>3, <1>5, <2>4, <2>7, FlushedKeeps
<1> QED BY <1>11, <1>12

(* Credit is refused. *)
LEMMA CreditRefusedKeeps ==
  ASSUME OutputOK, CreditRefused
  PROVE  Keeps
<1>1. PICK n, b : n = conn.strikes + 1 /\ b = (Len(toServer) = 1)
  OBVIOUS
<1>2. /\ toServer # << >> /\ toServer' = Tail(toServer)
      /\ conn' = [conn EXCEPT !.strikes = n, !.refused = b]
      /\ UNCHANGED <<written, gate, toGateway, toWorker, wire, client>>
  BY <1>1 DEF CreditRefused, link
<1>3. toServer' \in Seq(Grant) /\ ClientOK(client') /\ WireOK(wire')
  BY <1>2 DEF OutputOK, WireOK, ClientOK, ClientFields
<1>4. DOMAIN conn = ConnFields
  BY DEF OutputOK, ConnOK
<1>5. /\ DOMAIN conn' = ConnFields /\ conn'.pendingOut = conn.pendingOut
      /\ conn'.consumedPending = conn.consumedPending
      /\ conn'.outstanding = conn.outstanding /\ conn'.outSeq = conn.outSeq
      /\ conn'.sentBytes = conn.sentBytes /\ conn'.creditBytes = conn.creditBytes
      /\ conn'.consumedSeq = conn.consumedSeq /\ conn'.consumedBytes = conn.consumedBytes
      /\ conn'.paused = conn.paused /\ conn'.refused = b
  BY <1>2, <1>4 DEF ConnFields
<1>6. ConnOK(conn')
  BY <1>1, <1>5 DEF OutputOK, ConnOK
<1> QED BY <1>2, <1>3, <1>5, <1>6, UnflushedKeeps

(* What the client becomes, with a message more, and with a grant sent.    *)
LEMMA ConsumedIs ==
  ASSUME NEW c, ClientOK(c), NEW m \in Frame
  PROVE  /\ ClientOK(Consumed(c, m)) /\ Consumed(c, m).lastOut = m.seq
         /\ Consumed(c, m).consumed = c.consumed + m.n /\ Consumed(c, m).since = c.since + 1
         /\ Consumed(c, m).credit = c.credit /\ Consumed(c, m).creditedAt = c.creditedAt
         /\ Consumed(c, m).upto = IF m.from = 0 THEN c.upto ELSE m.from + m.n - 1
         /\ Consumed(c, m).marked = (m.from = 0)
<1>1. PICK a, b, u, k, s : /\ a = c.consumed + m.n /\ b = c.since + 1 /\ k = (m.from = 0) /\ s = m.seq
                           /\ u = IF m.from = 0 THEN c.upto ELSE m.from + m.n - 1
  OBVIOUS
<1>2. PICK d : d = [c EXCEPT !.lastOut = s, !.consumed = a, !.since = b, !.upto = u, !.marked = k]
  OBVIOUS
<1>3. d = Consumed(c, m)
  BY <1>1, <1>2 DEF Consumed
<1>4. DOMAIN c = ClientFields
  BY DEF ClientOK
<1>5. /\ DOMAIN d = ClientFields /\ d.lastOut = s /\ d.consumed = a /\ d.since = b /\ d.upto = u
      /\ d.marked = k /\ d.credit = c.credit /\ d.creditedAt = c.creditedAt
  BY <1>2, <1>4 DEF ClientFields
<1>6. m.seq \in Nat /\ m.n \in 1..ChunkBytes /\ m.from \in Nat
  BY DEF Frame
<1>7. s \in Nat /\ a \in Nat /\ b \in Nat /\ u \in Nat
  <2>1. PICK f, n, e, v : f = m.from /\ n = m.n /\ e = c.consumed /\ v = c.upto
    OBVIOUS
  <2>2. f \in Nat /\ n \in Nat /\ n >= 1 /\ e \in Nat /\ v \in Nat
    BY <1>6, <2>1, CreditAssumption DEF ClientOK
  <2>3. u = IF f = 0 THEN v ELSE f + n - 1
    BY <1>1, <2>1
  <2>4. u \in Nat
    BY ONLY <2>2, <2>3
  <2>5. a \in Nat
    BY <1>1, <2>1, <2>2
  <2> QED BY <1>1, <1>6, <2>4, <2>5 DEF ClientOK
<1> QED BY <1>1, <1>3, <1>5, <1>7 DEF ClientOK

(* The client grants credit: its own state, and what it counts. *)
LEMMA RenewedIs ==
  ASSUME NEW c, ClientOK(c)
  PROVE  /\ ClientOK(Renewed(c)) /\ Renewed(c).lastOut = c.lastOut /\ Renewed(c).consumed = c.consumed
         /\ Renewed(c).since = 0 /\ Renewed(c).credit = c.consumed + Window
         /\ Renewed(c).creditedAt = c.consumed /\ Renewed(c).upto = c.upto /\ Renewed(c).marked = c.marked
<1>1. PICK a, b : a = c.consumed + Window /\ b = c.consumed
  OBVIOUS
<1>2. PICK d : d = [c EXCEPT !.credit = a, !.creditedAt = b, !.since = 0]
  OBVIOUS
<1>3. d = Renewed(c)
  BY <1>1, <1>2 DEF Renewed
<1>4. DOMAIN c = ClientFields
  BY DEF ClientOK
<1>5. /\ DOMAIN d = ClientFields /\ d.lastOut = c.lastOut /\ d.consumed = c.consumed /\ d.since = 0
      /\ d.upto = c.upto /\ d.marked = c.marked /\ d.credit = a /\ d.creditedAt = b
  BY <1>2, <1>4 DEF ClientFields
<1>6. a \in Nat /\ b \in Nat
  BY <1>1, CreditAssumption DEF ClientOK
<1> QED BY <1>1, <1>3, <1>5, <1>6 DEF ClientOK

(* The client receives a frame. *)
LEMMA ClientReceivesKeeps ==
  ASSUME OutputOK, ClientReceives
  PROVE  Keeps
<1>1. PICK m, w, c : m = Head(wire) /\ w = Tail(wire) /\ c = Consumed(client, Head(wire))
  OBVIOUS
<1>2. PICK s : s = IF RenewalDue(c) THEN [conn EXCEPT !.refused = FALSE] ELSE conn
  OBVIOUS
<1>3. wire # << >> /\ UNCHANGED <<written, gate, toGateway>>
  BY DEF ClientReceives
<1>4. IF RenewalDue(c)
      THEN /\ client' = Renewed(c)
           /\ toServer' = Append(toServer, [seq |-> c.lastOut, credit |-> c.consumed + Window])
      ELSE client' = c /\ UNCHANGED toServer
  BY <1>1 DEF ClientReceives
<1>5. \/ Flush([s EXCEPT !.socketFull = FALSE], w)
      \/ conn' = s /\ wire' = w /\ UNCHANGED toWorker
  BY <1>1, <1>2 DEF ClientReceives
<1>6. m \in Frame /\ w \in Seq(Frame) /\ Bytes(wire) = m.n + Bytes(w) /\ m.n \in Nat /\ Bytes(w) \in Nat
  BY <1>1, <1>3, BytesTail, ChunksSized DEF OutputOK, WireOK
<1>7. WireOK(w)
  <2>1. PICK a, b, n : a = Bytes(wire) /\ b = Bytes(w) /\ n = m.n
    OBVIOUS
  <2>2. a = n + b /\ n \in Nat /\ b \in Nat /\ a <= SendQueue /\ SendQueue \in Nat
    BY <1>6, <2>1, OutputAssumption DEF OutputOK, WireOK
  <2>3. b <= SendQueue
    BY ONLY <2>2
  <2> QED BY <1>6, <2>1, <2>3 DEF WireOK
<1>8. ClientOK(c)
  BY <1>1, <1>6, ConsumedIs DEF OutputOK
<1>9. ClientOK(client') /\ toServer' \in Seq(Grant)
  <2>1. CASE RenewalDue(c)
    <3>1. ClientOK(client')
      BY <1>4, <1>8, <2>1, RenewedIs
    <3>2. PICK g, a, b : g = [seq |-> a, credit |-> b] /\ a = c.lastOut /\ b = c.consumed + Window
      OBVIOUS
    <3>3. a \in Nat /\ b \in Nat
      BY <1>8, <3>2, CreditAssumption DEF ClientOK
    <3>4. g \in Grant
      BY <3>2, <3>3 DEF Grant
    <3>5. PICK u : u = toServer
      OBVIOUS
    <3>6. u \in Seq(Grant) /\ toServer' = Append(u, g)
      BY <1>4, <2>1, <3>2, <3>5 DEF OutputOK
    <3>7. Append(u, g) \in Seq(Grant)
      BY <3>4, <3>6
    <3> QED BY <3>1, <3>6, <3>7
  <2>2. CASE ~ RenewalDue(c)
    BY <1>4, <1>8, <2>2 DEF OutputOK
  <2> QED BY <2>1, <2>2
<1>10. DOMAIN conn = ConnFields
  BY DEF OutputOK, ConnOK
<1>11. /\ DOMAIN s = ConnFields /\ s.pendingOut = conn.pendingOut
       /\ s.consumedPending = conn.consumedPending
       /\ s.outstanding = conn.outstanding /\ s.outSeq = conn.outSeq
       /\ s.sentBytes = conn.sentBytes /\ s.creditBytes = conn.creditBytes
       /\ s.consumedSeq = conn.consumedSeq /\ s.consumedBytes = conn.consumedBytes
       /\ s.paused = conn.paused /\ s.refused \in BOOLEAN
  <2>1. CASE s = conn
    BY <1>10, <2>1 DEF OutputOK, ConnOK
  <2>2. CASE s = [conn EXCEPT !.refused = FALSE]
    BY <1>10, <2>2 DEF ConnFields
  <2> QED BY <1>2, <2>1, <2>2
<1>12. ConnOK(s)
  BY <1>11 DEF OutputOK, ConnOK
<1>13. CASE Flush([s EXCEPT !.socketFull = FALSE], w)
  <2>1. PICK d : d = [s EXCEPT !.socketFull = FALSE]
    OBVIOUS
  <2>2. /\ DOMAIN d = ConnFields /\ d.pendingOut = s.pendingOut
        /\ d.consumedPending = s.consumedPending
        /\ d.outstanding = s.outstanding /\ d.outSeq = s.outSeq
        /\ d.sentBytes = s.sentBytes /\ d.creditBytes = s.creditBytes
        /\ d.consumedSeq = s.consumedSeq /\ d.consumedBytes = s.consumedBytes
        /\ d.paused = s.paused /\ d.refused = s.refused
    BY <1>11, <2>1 DEF ConnFields
  <2>3. ConnOK(d)
    BY <1>12, <2>2 DEF ConnOK
  <2>4. Flushed(d, w)
    BY <1>7, <1>13, <2>1, <2>3, FlushTells DEF OutputOK
  <2> QED BY <1>3, <1>9, <1>11, <2>2, <2>4, FlushedKeeps
<1>14. CASE conn' = s /\ wire' = w /\ UNCHANGED toWorker
  BY <1>3, <1>7, <1>9, <1>11, <1>12, <1>14, UnflushedKeeps
<1> QED BY <1>5, <1>13, <1>14

-----------------------------------------------------------------------------
(* The inductive invariant of WindowIsExact. *)
WindowInv == OutputOK /\ (over # "quota" => Exact)

(* The window is exact at the start. *)
LEMMA OutputStarts == OutputInit => WindowInv
<1> SUFFICES ASSUME OutputInit PROVE WindowInv
  OBVIOUS
<1>1. << >> \in Seq(Chunk) /\ << >> \in Seq(Cum) /\ << >> \in Seq(Frame) /\ << >> \in Seq(Record) /\ << >> \in Seq(Grant)
  OBVIOUS
<1>2. GateOK(gate) /\ gate.inflight = 0
  BY <1>1 DEF OutputInit, GateOK, GateFields
<1>3. ConnOK(conn) /\ conn.pendingOut = << >> /\ conn.consumedPending = 0
  <2>1. PICK b \in Backends :
       conn = [backend |-> b, pendingOut |-> <<>>, outstanding |-> <<>>, outSeq |-> 0, sentBytes |-> 0,
               creditBytes |-> Window, consumedSeq |-> 0, consumedBytes |-> 0,
               consumedPending |-> 0, paused |-> FALSE, socketFull |-> FALSE,
               strikes |-> 0, refused |-> FALSE]
    BY DEF OutputInit
  <2>2. Len(<< >>) = 0 /\ Window \in Nat /\ MaxOutstanding \in Nat
    BY CreditAssumption
  <2>3. DOMAIN conn = ConnFields
    BY <2>1 DEF ConnFields
  <2>4. /\ conn.pendingOut = << >> /\ conn.outstanding = << >> /\ conn.outSeq = 0 /\ conn.sentBytes = 0
        /\ conn.creditBytes = Window /\ conn.consumedSeq = 0 /\ conn.consumedBytes = 0
        /\ conn.consumedPending = 0 /\ conn.paused = FALSE /\ conn.refused = FALSE
    BY <2>1
  <2>5. conn.sentBytes <= conn.creditBytes /\ Len(conn.outstanding) <= MaxOutstanding
    BY <2>2, <2>4
  <2>6. conn.pendingOut \in Seq(Chunk) /\ conn.outstanding \in Seq(Cum)
    BY <1>1, <2>4
  <2>7. conn.paused \in BOOLEAN /\ conn.refused \in BOOLEAN
    BY <2>4
  <2>8. /\ conn.outSeq \in Nat /\ conn.sentBytes \in Nat /\ conn.creditBytes \in Nat
        /\ conn.consumedSeq \in Nat /\ conn.consumedBytes \in Nat /\ conn.consumedPending \in Nat
    BY <2>2, <2>4
  <2>9. ConnOK(conn)
    BY <2>3, <2>5, <2>6, <2>7, <2>8 DEF ConnOK
  <2> QED BY <2>4, <2>9
<1>4. ClientOK(client)
  BY CreditAssumption DEF OutputInit, ClientOK, ClientFields
<1>5. toGateway = << >> /\ toWorker = << >> /\ wire = << >> /\ toServer = << >> /\ written = 0
  BY DEF OutputInit
<1>6. Bytes(<< >>) = 0
  BY BytesFew
<1>7. WireOK(wire)
  BY <1>1, <1>5, <1>6, OutputAssumption DEF WireOK
<1>8. OutputOK
  BY <1>1, <1>2, <1>3, <1>4, <1>5, <1>7 DEF OutputOK
<1>9. Reported(toWorker) = << >>
  <2>1. PICK r : r = Reported(toWorker)
    OBVIOUS
  <2>2. r \in Seq([n : Nat]) /\ Len(r) = 0
    BY <1>1, <1>5, <2>1, ReportedIs
  <2> QED BY <2>1, <2>2
<1>10. Exact
  BY <1>2, <1>3, <1>5, <1>6, <1>9 DEF Exact, Told
<1> QED BY <1>8, <1>10 DEF WindowInv

(* One step. *)
LEMMA OutputKeepsAll == WindowInv /\ [OutputNext]_outputVars => WindowInv'
<1> SUFFICES ASSUME WindowInv, [OutputNext]_outputVars PROVE WindowInv'
  OBVIOUS
<1>1. OutputOK
  BY DEF WindowInv
<1>2. CASE UNCHANGED outputVars
  <2>1. UNCHANGED <<written, gate, toGateway, toWorker, conn, wire, client, toServer, over>>
    BY <1>2 DEF outputVars
  <2>2. OutputOK'
    BY <1>1, <2>1 DEF OutputOK, GateOK, GateFields, ConnOK, WireOK, ClientOK, ConnFields, ClientFields
  <2>3. Exact => Exact'
    BY <2>1 DEF Exact
  <2> QED BY <2>1, <2>2, <2>3 DEF WindowInv
<1>3. CASE OutputNext
  <2>1. over = "no"
    BY <1>3 DEF OutputNext, Moves, Write, StartCommand, Yield, Resume, CommandEnds, Shell, SinkDrained,
                WorkerHandles, Output, ReportConsumed, Credited, CreditRefused, ClientReceives
  <2>2. Exact
    BY <2>1 DEF WindowInv
  <2>3. Keeps
    BY <1>1, <1>3, WriteKeeps, ShellKeeps, SinkDrainedKeeps, WorkerHandlesKeeps, OutputKeeps,
       ReportConsumedKeeps, CreditedKeeps, CreditRefusedKeeps, ClientReceivesKeeps
       DEF OutputNext, Moves
  <2> QED BY <2>2, <2>3 DEF Keeps, WindowInv
<1> QED BY <1>2, <1>3

(* The gate's window always counts exactly the bytes on their way.         *)
THEOREM WindowAlwaysExact == OutputSpec => []WindowIsExact
<1>1. OutputInit => WindowInv
  BY OutputStarts
<1>2. WindowInv /\ [OutputNext]_outputVars => WindowInv'
  BY OutputKeepsAll
<1>3. WindowInv => WindowIsExact
  BY DEF WindowInv, WindowIsExact, Exact, Told
<1> QED BY <1>1, <1>2, <1>3, PTL DEF OutputSpec

(* What is shown once i chunks of P have been received, u before, and      *)
(* whether a marker is the last of it.                                     *)
EndOf(P, u, data) ==
  IF data = {} THEN u
  ELSE LET j == CHOOSE j \in data : \A l \in data : l <= j
       IN  P[j].from + P[j].n - 1
EndsAt(P, u, i) == EndOf(P, u, {j \in 1..i : ~IsMarker(P[j])})
MarkAt(P, m, i) == IF i = 0 THEN m ELSE IsMarker(P[i])

(* Before any chunk it is what was shown before. *)
LEMMA EndsStart ==
  ASSUME NEW P, NEW u
  PROVE  EndsAt(P, u, 0) = u
<1>1. PICK D : D = {j \in 1..0 : ~IsMarker(P[j])}
  OBVIOUS
<1>2. D = {}
  BY <1>1
<1>3. EndsAt(P, u, 0) = EndOf(P, u, D)
  BY <1>1 DEF EndsAt
<1> QED BY <1>2, <1>3 DEF EndOf

(* One chunk more: a marker shows nothing, other chunks their last byte. *)
LEMMA EndsAre ==
  ASSUME NEW P, NEW u, NEW i \in Nat, NEW k, k = i + 1
  PROVE  /\ IsMarker(P[k]) => EndsAt(P, u, k) = EndsAt(P, u, i)
         /\ ~ IsMarker(P[k]) => EndsAt(P, u, k) = P[k].from + P[k].n - 1
<1>1. PICK D, E : D = {j \in 1..i : ~IsMarker(P[j])} /\ E = {j \in 1..k : ~IsMarker(P[j])}
  OBVIOUS
<1>2. EndsAt(P, u, i) = EndOf(P, u, D) /\ EndsAt(P, u, k) = EndOf(P, u, E)
  BY <1>1 DEF EndsAt
<1>3. ASSUME IsMarker(P[k]) PROVE EndsAt(P, u, k) = EndsAt(P, u, i)
  <2>1. \A j \in 1..k : j \in 1..i \/ j = k
    OBVIOUS
  <2>2. 1..i \subseteq 1..k
    OBVIOUS
  <2>3. D = E
    BY <1>1, <1>3, <2>1, <2>2
  <2> QED BY <1>2, <2>3
<1>4. ASSUME ~ IsMarker(P[k]) PROVE EndsAt(P, u, k) = P[k].from + P[k].n - 1
  <2>2. PICK g : g = CHOOSE j \in E : \A l \in E : l <= j
    OBVIOUS
  <2>3. k \in E /\ \A l \in E : l <= k
    BY <1>1, <1>4
  <2>4. g \in E /\ \A l \in E : l <= g
    BY <2>2, <2>3
  <2>5. g \in 1..k /\ k <= g
    BY <1>1, <2>3, <2>4
  <2>6. g = k
    BY <2>5
  <2>7. E # {}
    BY <2>3
  <2>8. EndOf(P, u, E) = P[g].from + P[g].n - 1
    BY <2>2, <2>7 DEF EndOf
  <2> QED BY <1>2, <2>6, <2>8
<1> QED BY <1>3, <1>4

(* It is a number. *)
LEMMA EndsNat ==
  ASSUME NEW P \in Seq(Chunk), NEW u \in Nat
  PROVE  \A i \in 0..Len(P) : EndsAt(P, u, i) \in Nat
<1> DEFINE Bad == {i \in 0..Len(P) : EndsAt(P, u, i) \notin Nat}
<1> SUFFICES ASSUME Bad # {} PROVE FALSE
  OBVIOUS
<1>0. Bad \subseteq Nat
  OBVIOUS
<1>1. PICK k \in Bad : \A j \in Bad : k <= j
  <2> HIDE DEF Bad
  <2> QED BY <1>0, LeastOne
<1>2. k \in 0..Len(P) /\ EndsAt(P, u, k) \notin Nat
  OBVIOUS
<1>3. k # 0
  BY <1>2, EndsStart
<1>4. PICK i : i = k - 1
  OBVIOUS
<1>5. i \in Nat /\ k = i + 1 /\ i \in 0..Len(P) /\ i \notin Bad
  BY <1>1, <1>2, <1>3, <1>4
<1>6. EndsAt(P, u, i) \in Nat
  BY <1>5
<1>7. P[k] \in Chunk
  BY <1>2, <1>3
<1>8. CASE IsMarker(P[k])
  BY <1>2, <1>5, <1>6, <1>8, EndsAre
<1>9. CASE ~ IsMarker(P[k])
  <2>1. EndsAt(P, u, k) = P[k].from + P[k].n - 1
    <3>1. i \in Nat /\ k = i + 1
      BY <1>5
    <3> QED BY ONLY <1>9, <3>1, EndsAre, ZenonT(60)
  <2>2. P[k].from \in Nat /\ P[k].n \in 1..ChunkBytes
    BY <1>7 DEF Chunk
  <2>3. P[k].from + P[k].n - 1 \in Nat
    <3>1. PICK a, b, c : a = P[k].from /\ b = P[k].n /\ c = ChunkBytes
      OBVIOUS
    <3>2. a \in Nat /\ b \in 1..c /\ c \in Nat
      BY <2>2, <3>1, CreditAssumption
    <3>3. a + b - 1 \in Nat
      BY ONLY <3>2
    <3> QED BY <3>1, <3>3
  <2> QED BY <1>2, <2>1, <2>3
<1> QED BY <1>8, <1>9

(* Each chunk continues what is shown when it is received, or leaves out   *)
(* what a marker stands for; and so does what is written next.             *)
Follows(P, u, m, i) ==
  ~ IsMarker(P[i]) => \/ P[i].from = EndsAt(P, u, i - 1) + 1
                      \/ P[i].from > EndsAt(P, u, i - 1) /\ MarkAt(P, m, i - 1)
InSequence(P, u, m, w) ==
  /\ \A i \in 1..Len(P) : Follows(P, u, m, i)
  /\ EndsAt(P, u, Len(P)) <= w
  /\ EndsAt(P, u, Len(P)) < w => MarkAt(P, m, Len(P))

(* The first chunk is received. *)
LEMMA SequenceDrop ==
  ASSUME NEW P \in Seq(Chunk), P # << >>, NEW u, NEW m, NEW w, InSequence(P, u, m, w),
         NEW v, v = IF IsMarker(Head(P)) THEN u ELSE Head(P).from + Head(P).n - 1,
         NEW k, k = IsMarker(Head(P))
  PROVE  /\ InSequence(Tail(P), v, k, w)
         /\ MarkAt(Tail(P), k, Len(Tail(P))) = MarkAt(P, m, Len(P))
<1>1. PICK Q : Q = Tail(P)
  OBVIOUS
<1>2. PICK n : n = Len(Q) /\ n \in Nat
  BY <1>1
<1>3. Q \in Seq(Chunk) /\ Len(P) = n + 1 /\ Head(P) = P[1] /\ \A i \in 1..n : Q[i] = P[i + 1]
  BY <1>1, <1>2
<1>4. EndsAt(Q, v, 0) = v /\ EndsAt(P, u, 1) = v
  <2>1. PICK z : z = 0
    OBVIOUS
  <2>2. z \in Nat /\ 1 = z + 1 /\ EndsAt(P, u, z) = u
    BY <2>1, EndsStart
  <2>3. IsMarker(P[1]) => EndsAt(P, u, 1) = EndsAt(P, u, z)
    BY <2>2, EndsAre
  <2>4. ~ IsMarker(P[1]) => EndsAt(P, u, 1) = P[1].from + P[1].n - 1
    BY <2>2, EndsAre
  <2>5. v = IF IsMarker(P[1]) THEN u ELSE P[1].from + P[1].n - 1
    BY <1>3
  <2> QED BY <2>2, <2>3, <2>4, <2>5, EndsStart
<1>5. \A i \in 0..n : EndsAt(Q, v, i) = EndsAt(P, u, i + 1)
  <2> DEFINE Bad == {i \in 0..n : EndsAt(Q, v, i) # EndsAt(P, u, i + 1)}
  <2> SUFFICES ASSUME Bad # {} PROVE FALSE
    OBVIOUS
  <2>0. Bad \subseteq Nat
    OBVIOUS
  <2>1. PICK j \in Bad : \A i \in Bad : j <= i
    <3> HIDE DEF Bad
    <3> QED BY <2>0, LeastOne
  <2>2. j \in 0..n /\ EndsAt(Q, v, j) # EndsAt(P, u, j + 1)
    OBVIOUS
  <2>3. j # 0
    BY <1>4, <2>2
  <2>4. PICK i : i = j - 1
    OBVIOUS
  <2>5. i \in Nat /\ j = i + 1 /\ i \in 0..n /\ i \notin Bad /\ j \in 1..n /\ j \in Nat
    BY <1>2, <2>1, <2>2, <2>3, <2>4
  <2>6. EndsAt(Q, v, i) = EndsAt(P, u, i + 1)
    BY <2>5
  <2>p. PICK l : l = j + 1
    OBVIOUS
  <2>7. Q[j] = P[l]
    BY <1>3, <2>5, <2>p
  <2>8. CASE IsMarker(P[l])
    <3>1. EndsAt(P, u, l) = EndsAt(P, u, j)
      BY <2>5, <2>8, <2>p, EndsAre
    <3>2. EndsAt(Q, v, j) = EndsAt(Q, v, i)
      BY <2>5, <2>7, <2>8, EndsAre
    <3> QED BY <2>2, <2>5, <2>6, <2>p, <3>1, <3>2
  <2>9. CASE ~ IsMarker(P[l])
    <3>1. EndsAt(P, u, l) = P[l].from + P[l].n - 1
      BY <2>5, <2>9, <2>p, EndsAre
    <3>2. EndsAt(Q, v, j) = Q[j].from + Q[j].n - 1
      BY <2>5, <2>7, <2>9, EndsAre
    <3> QED BY <2>2, <2>7, <2>p, <3>1, <3>2
  <2> QED BY <2>8, <2>9
<1>6. \A i \in 0..n : MarkAt(Q, k, i) = MarkAt(P, m, i + 1)
  <2> SUFFICES ASSUME NEW i \in 0..n PROVE MarkAt(Q, k, i) = MarkAt(P, m, i + 1)
    OBVIOUS
  <2>1. i + 1 # 0
    BY <1>2
  <2>2. CASE i = 0
    BY <1>3, <2>1, <2>2 DEF MarkAt
  <2>3. CASE i # 0
    <3>1. i \in 1..n
      BY <2>3
    <3> QED BY <1>3, <2>1, <2>3, <3>1 DEF MarkAt
  <2> QED BY <2>2, <2>3
<1>7. ASSUME NEW i \in 1..n PROVE Follows(Q, v, k, i)
  <2>1. PICK j, h : j = i + 1 /\ h = i - 1
    OBVIOUS
  <2>2. j \in 1..Len(P) /\ h \in 0..n /\ j - 1 = i /\ h + 1 = i
    BY <1>2, <1>3, <2>1
  <2>3. Follows(P, u, m, j)
    BY <2>2 DEF InSequence
  <2>4. Q[i] = P[j] /\ EndsAt(Q, v, h) = EndsAt(P, u, j - 1) /\ MarkAt(Q, k, h) = MarkAt(P, m, j - 1)
    BY <1>3, <1>5, <1>6, <2>1, <2>2
  <2> QED BY <2>1, <2>3, <2>4 DEF Follows
<1>8. EndsAt(Q, v, n) = EndsAt(P, u, Len(P)) /\ MarkAt(Q, k, n) = MarkAt(P, m, Len(P))
  <2>1. n \in 0..n
    BY <1>2
  <2> QED BY <1>3, <1>5, <1>6, <2>1
<1> QED BY <1>1, <1>2, <1>7, <1>8 DEF InSequence

(* What is appended changes nothing of what comes before.                  *)
LEMMA EndsBefore ==
  ASSUME NEW P \in Seq(Chunk), NEW R \in Seq(Chunk), NEW u, NEW m
  PROVE  \A i \in 0..Len(P) : /\ EndsAt(P \o R, u, i) = EndsAt(P, u, i)
                              /\ MarkAt(P \o R, m, i) = MarkAt(P, m, i)
<1> SUFFICES ASSUME NEW i \in 0..Len(P)
             PROVE  EndsAt(P \o R, u, i) = EndsAt(P, u, i) /\ MarkAt(P \o R, m, i) = MarkAt(P, m, i)
  OBVIOUS
<1>1. PICK Q : Q = P \o R
  OBVIOUS
<1>2. \A j \in 1..Len(P) : Q[j] = P[j]
  BY <1>1
<1>3. PICK D : D = {j \in 1..i : ~ IsMarker(P[j])}
  OBVIOUS
<1>4. 1..i \subseteq 1..Len(P)
  OBVIOUS
<1>5. D = {j \in 1..i : ~ IsMarker(Q[j])}
  BY <1>2, <1>3, <1>4
<1>6. PICK g : g = CHOOSE j \in D : \A l \in D : l <= j
  OBVIOUS
<1>7. EndsAt(P, u, i) = EndOf(P, u, D) /\ EndsAt(Q, u, i) = EndOf(Q, u, D)
  BY <1>3, <1>5 DEF EndsAt
<1>8. ASSUME D = {} PROVE EndsAt(P, u, i) = EndsAt(Q, u, i)
  BY <1>7, <1>8 DEF EndOf
<1>9. ASSUME D # {} PROVE EndsAt(P, u, i) = EndsAt(Q, u, i)
  <2>1. D \subseteq 0..i /\ i \in Nat
    BY <1>3
  <2>2. PICK x \in D : \A y \in D : x >= y
    BY <1>9, <2>1, GreatestOne
  <2>3. \A y \in D : y <= x
    BY <2>1, <2>2
  <2>4. g \in D
    BY <1>6, <2>3
  <2>5. EndOf(P, u, D) = P[g].from + P[g].n - 1
    BY <1>6, <1>9 DEF EndOf
  <2>6. EndOf(Q, u, D) = Q[g].from + Q[g].n - 1
    BY <1>6, <1>9 DEF EndOf
  <2>7. Q[g] = P[g]
    BY <1>2, <1>3, <1>4, <2>4
  <2> QED BY <1>7, <2>5, <2>6, <2>7
<1>10. EndsAt(P, u, i) = EndsAt(Q, u, i)
  BY <1>8, <1>9
<1>11. MarkAt(P, m, i) = MarkAt(Q, m, i)
  <2>1. i # 0 => i \in 1..Len(P)
    OBVIOUS
  <2> QED BY <1>2, <2>1 DEF MarkAt
<1> QED BY <1>1, <1>10, <1>11

(* The last byte of a chunk of output. *)
LastByte(c) == c.from + c.n - 1

(* After a chunk of output the last byte shown is its own. *)
LEMMA EndsData ==
  ASSUME NEW P, NEW u, NEW i \in Nat, NEW k, k = i + 1, ~ IsMarker(P[k])
  PROVE  EndsAt(P, u, k) = LastByte(P[k])
BY ONLY i \in Nat, k = i + 1, ~ IsMarker(P[k]), EndsAre DEF LastByte

(* A queue without elements is the empty one. *)
LEMMA EmptyQueue ==
  ASSUME NEW S, NEW q \in Seq(S), Len(q) = 0
  PROVE  q = << >>
OBVIOUS

(* After a gap's marker anything may be missing. *)
LEMMA SequenceGap ==
  ASSUME NEW P \in Seq(Chunk), NEW u \in Nat, NEW m, NEW w \in Nat, InSequence(P, u, m, w),
         NEW v \in Nat, w <= v, MarkAt(P, m, Len(P))
  PROVE  InSequence(P, u, m, v)
<1>1. PICK e : e = EndsAt(P, u, Len(P))
  OBVIOUS
<1>2. e \in Nat /\ e <= w
  BY <1>1, EndsNat DEF InSequence
<1>3. e <= v
  BY ONLY <1>2, w \in Nat, v \in Nat, w <= v
<1> QED BY <1>1, <1>3 DEF InSequence

(* A marker is put at the end. *)
LEMMA SequenceMarker ==
  ASSUME NEW P \in Seq(Chunk), NEW u \in Nat, NEW m, NEW w \in Nat, InSequence(P, u, m, w),
         NEW v \in Nat, w <= v
  PROVE  /\ InSequence(P \o <<Marker>>, u, m, v)
         /\ MarkAt(P \o <<Marker>>, m, Len(P \o <<Marker>>))
<1>1. PICK R, Q, n, k : R = <<Marker>> /\ Q = P \o R /\ n = Len(P) /\ k = n + 1
  OBVIOUS
<1>2. R \in Seq(Chunk) /\ Len(R) = 1 /\ R[1] = Marker
  BY <1>1, MarkerIs
<1>3. n \in Nat /\ k \in Nat /\ Q \in Seq(Chunk) /\ Len(Q) = k /\ Q[k] = Marker /\ \A i \in 1..n : Q[i] = P[i]
  BY <1>1, <1>2
<1>4. IsMarker(Q[k])
  BY <1>3, MarkerIs DEF IsMarker
<1>5. \A i \in 0..n : EndsAt(Q, u, i) = EndsAt(P, u, i) /\ MarkAt(Q, m, i) = MarkAt(P, m, i)
  <2>1. \A i \in 0..Len(P) : /\ EndsAt(P \o R, u, i) = EndsAt(P, u, i)
                             /\ MarkAt(P \o R, m, i) = MarkAt(P, m, i)
    BY ONLY <1>2, P \in Seq(Chunk), EndsBefore
  <2> QED BY <1>1, <2>1
<1>6. EndsAt(Q, u, k) = EndsAt(P, u, n)
  <2>0. n \in Nat /\ k = n + 1
    BY <1>1, <1>3
  <2>1. EndsAt(Q, u, k) = EndsAt(Q, u, n)
    BY ONLY <2>0, <1>4, EndsAre
  <2> QED BY <1>3, <1>5, <2>1
<1>7. EndsAt(P, u, n) \in Nat /\ EndsAt(P, u, n) <= w
  BY SMTT(30), <1>1, EndsNat DEF InSequence
<1>8. EndsAt(Q, u, k) <= v
  <2>1. PICK e : e = EndsAt(P, u, n)
    OBVIOUS
  <2>2. e <= v
    BY ONLY <1>7, <2>1, w \in Nat, v \in Nat, w <= v
  <2> QED BY <1>6, <2>1, <2>2
<1>9. MarkAt(Q, m, k)
  BY <1>1, <1>3, <1>4 DEF MarkAt
<1>10. ASSUME NEW i \in 1..k PROVE Follows(Q, u, m, i)
  <2>1. CASE i = k
    BY <1>4, <2>1 DEF Follows
  <2>2. CASE i # k
    <3>1. i \in 1..n /\ i - 1 \in 0..n
      BY <1>1, <1>3, <2>2
    <3>2. Follows(P, u, m, i)
      BY <1>1, <3>1 DEF InSequence
    <3> QED BY <1>3, <1>5, <3>1, <3>2 DEF Follows
  <2> QED BY <2>1, <2>2
<1> QED BY <1>1, <1>3, <1>8, <1>9, <1>10 DEF InSequence

(* R holds what is written from w to v.                                    *)
Continues(R, w, v) ==
  /\ R \in Seq(Chunk) /\ (\A i \in 1..Len(R) : ~ IsMarker(R[i]))
  /\ (R = << >> => w = v)
  /\ (R # << >> => R[1].from = w + 1 /\ R[Len(R)].from + R[Len(R)].n = v + 1)
  /\ \A i, j \in 1..Len(R) : j = i + 1 => R[j].from = R[i].from + R[i].n

(* What is written next is put at the end. *)
LEMMA SequenceChunks ==
  ASSUME NEW P \in Seq(Chunk), NEW u \in Nat, NEW m, NEW w \in Nat, InSequence(P, u, m, w),
         NEW v \in Nat, w <= v, NEW R, Continues(R, w, v)
  PROVE  InSequence(P \o R, u, m, v)
<1>1. PICK Q, n, k : Q = P \o R /\ n = Len(P) /\ k = Len(R)
  OBVIOUS
<1>2. R \in Seq(Chunk) /\ k \in Nat /\ n \in Nat
  BY <1>1 DEF Continues
<1>3. Q \in Seq(Chunk) /\ Len(Q) = n + k /\ (\A i \in 1..n : Q[i] = P[i]) /\ \A i \in 1..k : Q[n + i] = R[i]
  BY <1>1, <1>2
<1>4. \A i \in 0..n : EndsAt(Q, u, i) = EndsAt(P, u, i) /\ MarkAt(Q, m, i) = MarkAt(P, m, i)
  <2>1. \A i \in 0..Len(P) : /\ EndsAt(P \o R, u, i) = EndsAt(P, u, i)
                             /\ MarkAt(P \o R, m, i) = MarkAt(P, m, i)
    BY ONLY <1>2, P \in Seq(Chunk), EndsBefore
  <2> QED BY <1>1, <2>1
<1>5. PICK e : e = EndsAt(P, u, n)
  OBVIOUS
<1>6. e \in Nat /\ e <= w /\ (e < w => MarkAt(P, m, n))
  <2>1. n \in 0..Len(P)
    BY <1>1, <1>2
  <2>2. e \in Nat
    BY ONLY <1>5, <2>1, P \in Seq(Chunk), u \in Nat, EndsNat
  <2> QED BY <1>1, <1>5, <2>2 DEF InSequence
<1>7. ASSUME NEW j \in 1..k, NEW i, i = n + j PROVE EndsAt(Q, u, i) = R[j].from + R[j].n - 1
  <2>1. PICK h : h = n + j - 1
    OBVIOUS
  <2>2. h \in Nat /\ i = h + 1
    BY <1>2, <1>7, <2>1
  <2>3. Q[i] = R[j]
    BY <1>3, <1>7
  <2>4. ~ IsMarker(Q[i])
    BY <1>1, <2>3 DEF Continues
  <2>5. EndsAt(Q, u, i) = Q[i].from + Q[i].n - 1
    <3>1. PICK s : s = i
      OBVIOUS
    <3>2. s = h + 1 /\ h \in Nat /\ ~ IsMarker(Q[s])
      BY <2>2, <2>4, <3>1
    <3>3. EndsAt(Q, u, s) = LastByte(Q[s])
      BY ONLY <3>2, EndsData
    <3> QED BY <3>1, <3>3 DEF LastByte
  <2> QED BY <2>3, <2>5
<1>8. ASSUME NEW j \in 1..k, NEW i, i = n + j PROVE Follows(Q, u, m, i)
  <2>1. Q[i] = R[j] /\ i - 1 = n + (j - 1)
    BY <1>2, <1>3, <1>8
  <2>2. R[j] \in Chunk /\ j \in Nat
    BY <1>1, <1>2
  <2>3. R[j].from \in Nat
    BY <2>2 DEF Chunk
  <2>4. CASE j = 1
    <3>1. i - 1 = n
      BY <1>2, <1>8, <2>4
    <3>2. R # << >>
      BY <1>1, <2>4
    <3>3. R[j].from = w + 1
      BY <2>4, <3>2 DEF Continues
    <3>4. EndsAt(Q, u, n) = e /\ MarkAt(Q, m, n) = MarkAt(P, m, n)
      BY <1>2, <1>4, <1>5
    <3>5. PICK f : f = R[j].from
      OBVIOUS
    <3>6. f = e + 1 \/ (f > e /\ e < w)
      BY ONLY <1>6, <3>3, <3>5, w \in Nat
    <3>7. Q[i].from = f
      BY <2>1, <3>5
    <3> QED BY <1>6, <3>1, <3>4, <3>6, <3>7 DEF Follows
  <2>5. CASE j # 1
    <3>1. PICK h, l : h = j - 1 /\ l = i - 1
      OBVIOUS
    <3>2. h \in 1..k /\ l = n + h /\ j = h + 1
      BY <1>2, <1>8, <2>1, <2>5, <3>1
    <3>3. EndsAt(Q, u, l) = R[h].from + R[h].n - 1
      BY <1>7, <3>2
    <3>4. R[j].from = R[h].from + R[h].n
      BY <1>1, <3>2 DEF Continues
    <3>5. R[h] \in Chunk
      BY <1>1, <1>2, <3>2
    <3>6. R[h].from \in Nat /\ R[h].n \in Nat
      BY <3>5, CreditAssumption DEF Chunk
    <3>7. PICK a, b, f, z : a = R[h].from /\ b = R[h].n /\ f = R[j].from /\ z = EndsAt(Q, u, l)
      OBVIOUS
    <3>8. f = z + 1
      BY ONLY SMTT(30), <3>3, <3>4, <3>6, <3>7
    <3> QED BY <2>1, <3>1, <3>7, <3>8 DEF Follows
  <2> QED BY <2>4, <2>5
<1>9. ASSUME NEW i \in 1..n PROVE Follows(Q, u, m, i)
  <2>1. i \in 0..n /\ i - 1 \in 0..n
    BY <1>2
  <2>2. Follows(P, u, m, i)
    BY <1>1 DEF InSequence
  <2> QED BY <1>3, <1>4, <2>1, <2>2 DEF Follows
<1>10. \A i \in 1..Len(Q) : Follows(Q, u, m, i)
  <2> SUFFICES ASSUME NEW i \in 1..(n + k) PROVE Follows(Q, u, m, i)
    BY <1>3
  <2>1. CASE i \in 1..n
    BY <1>9, <2>1
  <2>2. CASE i \notin 1..n
    <3>1. PICK j : j = i - n
      OBVIOUS
    <3>2. j \in 1..k /\ i = n + j
      BY <1>2, <2>2, <3>1
    <3> QED BY <1>8, <3>2
  <2> QED BY <2>1, <2>2
<1>11. EndsAt(Q, u, Len(Q)) <= v /\ (EndsAt(Q, u, Len(Q)) < v => MarkAt(Q, m, Len(Q)))
  <2>1. CASE k = 0
    <3>1. R = << >> /\ Len(Q) = n /\ w = v
      <4>1. R = << >>
        BY <1>1, <1>2, <2>1, EmptyQueue
      <4>2. w = v
        BY <4>1 DEF Continues
      <4> QED BY <1>2, <1>3, <2>1, <4>1, <4>2
    <3>2. n \in 0..n
      BY <1>2
    <3> QED BY <1>4, <1>5, <1>6, <3>1, <3>2
  <2>2. CASE k # 0
    <3>1. PICK l : l = n + k
      OBVIOUS
    <3>2. k \in 1..k /\ l = Len(Q) /\ R # << >>
      BY <1>1, <1>2, <1>3, <2>2, <3>1
    <3>3. EndsAt(Q, u, l) = R[k].from + R[k].n - 1
      BY <1>7, <3>1, <3>2
    <3>4. R[k].from + R[k].n = v + 1
      BY <1>1, <3>2 DEF Continues
    <3>5. EndsAt(Q, u, l) = v
      <4>1. PICK a, b, z : a = R[k].from /\ b = R[k].n /\ z = EndsAt(Q, u, l)
        OBVIOUS
      <4>2. R[k] \in Chunk
        BY <1>1, <1>2, <3>2
      <4>3. a \in Nat /\ b \in Nat
        BY <4>1, <4>2, CreditAssumption DEF Chunk
      <4>5. z = a + b - 1 /\ a + b = v + 1
        BY <3>3, <3>4, <4>1
      <4>4. z = v
        BY ONLY <4>3, <4>5, v \in Nat
      <4> QED BY <4>1, <4>4
    <3> QED BY <3>2, <3>5
  <2> QED BY <2>1, <2>2
<1> QED BY <1>1, <1>10, <1>11 DEF InSequence

(* The pieces of a write continue what was written. *)
LEMMA ChunksContinue ==
  ASSUME written \in Nat, NEW n \in Nat
  PROVE  Continues(Chunks(n), written, written + n)
<1>1. PICK R, c : R = Chunks(n) /\ c = ChunkBytes
  OBVIOUS
<1>2. PICK k \in Nat :
           /\ R \in Seq(Chunk) /\ Len(R) = k /\ (n > 0 => k > 0) /\ (n = 0 => k = 0)
           /\ \A i \in 1..k :
                /\ R[i].from = written + (i - 1) * c + 1
                /\ i < k => R[i].n = c
                /\ i = k => R[i].from + R[i].n = written + n + 1
  BY <1>1, ChunksAre
<1>c. c \in Nat
  BY <1>1, CreditAssumption
<1>3. ASSUME NEW i \in 1..k PROVE ~ IsMarker(R[i])
  <2>1. PICK j : j = i - 1
    OBVIOUS
  <2>2. j \in Nat /\ R[i].from = written + j * c + 1
    BY <1>2, <2>1
  <2>3. j * c \in Nat
    BY ONLY <1>c, <2>2
  <2>4. R[i].from # 0
    BY <2>2, <2>3
  <2> QED BY <2>4 DEF IsMarker
<1>4. R = << >> => written = written + n
  BY <1>2
<1>5. R # << >> => R[1].from = written + 1 /\ R[k].from + R[k].n = written + n + 1
  <2>1. ASSUME R # << >> PROVE 1 \in 1..k /\ k \in 1..k
    BY <1>2, <2>1
  <2>2. (1 - 1) * c = 0
    BY <1>c
  <2>3. ASSUME 1 \in 1..k PROVE R[1].from = written + (1 - 1) * c + 1
    BY <1>2, <2>3
  <2> QED BY <1>2, <2>1, <2>2, <2>3
<1>6. ASSUME NEW i \in 1..k, NEW j \in 1..k, j = i + 1 PROVE R[j].from = R[i].from + R[i].n
  <2>1. PICK h : h = i - 1
    OBVIOUS
  <2>2. h \in Nat /\ i = h + 1 /\ j - 1 = i /\ i < k
    BY <1>6, <2>1
  <2>3. R[i].from = written + h * c + 1 /\ R[i].n = c /\ R[j].from = written + i * c + 1
    BY <1>2, <2>1, <2>2
  <2>4. i * c = h * c + c
    BY ONLY <1>c, <2>2
  <2>5. PICK a, b : a = h * c /\ b = i * c
    OBVIOUS
  <2>6. a \in Nat /\ b = a + c
    BY ONLY <1>c, <2>2, <2>4, <2>5
  <2>7. written + b + 1 = written + a + 1 + c
    BY ONLY <1>c, <2>6, written \in Nat
  <2> QED BY <2>3, <2>5, <2>7
<1>7. written + n + 1 = (written + n) + 1
  OBVIOUS
<1> QED BY <1>1, <1>2, <1>3, <1>4, <1>5, <1>6, <1>7 DEF Continues

(* What the frames in the socket carry. *)
Sent(w) == [i \in 1..Len(w) |-> [from |-> w[i].from, n |-> w[i].n]]

(* One chunk for each frame. *)
LEMMA SentIs ==
  ASSUME NEW w \in Seq(Frame)
  PROVE  /\ Sent(w) \in Seq(Chunk) /\ Len(Sent(w)) = Len(w)
         /\ \A i \in 1..Len(w) : Sent(w)[i] = [from |-> w[i].from, n |-> w[i].n]
<1>1. PICK k, s : k = Len(w) /\ k \in Nat /\ s = Sent(w)
  OBVIOUS
<1>2. s = [i \in 1..k |-> [from |-> w[i].from, n |-> w[i].n]]
  BY <1>1 DEF Sent
<1>3. \A i \in 1..k : [from |-> w[i].from, n |-> w[i].n] \in Chunk
  <2> SUFFICES ASSUME NEW i \in 1..k PROVE [from |-> w[i].from, n |-> w[i].n] \in Chunk
    OBVIOUS
  <2>1. w[i] \in Frame
    BY <1>1
  <2> QED BY <2>1 DEF Frame, Chunk
<1>4. s \in [1..k -> Chunk]
  BY <1>2, <1>3
<1>5. s \in Seq(Chunk) /\ Len(s) = k
  BY ONLY <1>1, <1>4
<1> QED BY <1>1, <1>2, <1>5

(* And so for two queues of frames. *)
LEMMA SentConcat ==
  ASSUME NEW v \in Seq(Frame), NEW w \in Seq(Frame)
  PROVE  Sent(v \o w) = Sent(v) \o Sent(w)
<1>1. PICK u, a, b : u = v \o w /\ a = Len(v) /\ b = Len(w)
  OBVIOUS
<1>2. u \in Seq(Frame) /\ Len(u) = a + b /\ a \in Nat /\ b \in Nat /\ (\A i \in 1..a : u[i] = v[i]) /\ \A i \in 1..b : u[a + i] = w[i]
  BY <1>1
<1>3. PICK x, y, z : x = Sent(u) /\ y = Sent(v) /\ z = Sent(w)
  OBVIOUS
<1>4. /\ x \in Seq(Chunk) /\ Len(x) = a + b /\ \A i \in 1..(a + b) : x[i] = [from |-> u[i].from, n |-> u[i].n]
  BY <1>2, <1>3, SentIs
<1>5. /\ y \in Seq(Chunk) /\ Len(y) = a /\ \A i \in 1..a : y[i] = [from |-> v[i].from, n |-> v[i].n]
  BY <1>1, <1>3, SentIs
<1>6. /\ z \in Seq(Chunk) /\ Len(z) = b /\ \A i \in 1..b : z[i] = [from |-> w[i].from, n |-> w[i].n]
  BY <1>1, <1>3, SentIs
<1>7. PICK c : c = y \o z
  OBVIOUS
<1>8. /\ c \in Seq(Chunk) /\ Len(c) = a + b /\ (\A i \in 1..a : c[i] = y[i])
      /\ \A i \in 1..b : c[a + i] = z[i]
  <2>1. y \in Seq(Chunk) /\ z \in Seq(Chunk)
    BY <1>5, <1>6
  <2>2. /\ c \in Seq(Chunk) /\ Len(c) = Len(y) + Len(z) /\ (\A i \in 1..Len(y) : c[i] = y[i])
        /\ \A i \in 1..Len(z) : c[Len(y) + i] = z[i]
    BY ONLY <2>1, <1>7, Concat
  <2>3. Len(y) = a /\ Len(z) = b
    BY <1>5, <1>6
  <2> QED BY <2>2, <2>3
<1>9. ASSUME NEW i \in 1..(a + b) PROVE x[i] = c[i]
  <2>1. CASE i \in 1..a
    <3>1. c[i] = y[i] /\ u[i] = v[i] /\ y[i] = [from |-> v[i].from, n |-> v[i].n]
      BY <1>2, <1>5, <1>8, <2>1
    <3>2. x[i] = [from |-> u[i].from, n |-> u[i].n]
      BY <1>4
    <3> QED BY ONLY <3>1, <3>2
  <2>2. CASE i \notin 1..a
    <3>1. PICK j : j = i - a
      OBVIOUS
    <3>2. j \in 1..b /\ i = a + j
      BY <1>2, <2>2, <3>1
    <3>3. x[i] = [from |-> u[i].from, n |-> u[i].n] /\ u[i] = w[j] /\ c[i] = z[j]
      BY <1>2, <1>4, <1>8, <3>2
    <3> QED BY <1>6, <3>2, <3>3
  <2> QED BY <2>1, <2>2
<1>10. x = c
  <2>1. PICK k : k = a + b
    OBVIOUS
  <2>2. x \in Seq(Chunk) /\ c \in Seq(Chunk) /\ Len(x) = k /\ Len(c) = k /\ k \in Nat
    BY <1>2, <1>4, <1>8, <2>1
  <2>3. \A i \in 1..k : x[i] = c[i]
    BY <1>9, <2>1
  <2> QED BY ONLY <2>2, <2>3
<1> QED BY <1>1, <1>3, <1>7, <1>10

(* The frames that are sent carry the first chunks that wait. *)
LEMMA SentFrames ==
  ASSUME NEW c, ConnOK(c), NEW k \in 0..Len(c.pendingOut)
  PROVE  Sent(Frames(c, k)) = First(c.pendingOut, k)
<1>1. PICK q, f, x, y : q = c.pendingOut /\ f = Frames(c, k) /\ x = Sent(f) /\ y = First(q, k)
  OBVIOUS
<1>2. q \in Seq(Chunk) /\ k \in 0..Len(q)
  BY <1>1 DEF ConnOK
<1>3. /\ f \in Seq(Frame) /\ Len(f) = k
      /\ \A i \in 1..k : f[i] = [seq |-> c.outSeq + i, n |-> q[i].n, from |-> q[i].from]
  BY <1>1, FramesAre
<1>4. /\ x \in Seq(Chunk) /\ Len(x) = k /\ \A i \in 1..k : x[i] = [from |-> f[i].from, n |-> f[i].n]
  BY <1>1, <1>3, SentIs
<1>5. y \in Seq(Chunk) /\ Len(y) = k /\ \A i \in 1..k : y[i] = q[i]
  BY <1>1, <1>2, Parts
<1>6. ASSUME NEW i \in 1..k PROVE x[i] = y[i]
  <2>1. q[i] \in Chunk
    BY <1>2
  <2>2. q[i] = [from |-> q[i].from, n |-> q[i].n]
    BY <2>1 DEF Chunk
  <2>3. f[i].from = q[i].from /\ f[i].n = q[i].n
    BY <1>3
  <2> QED BY <1>4, <1>5, <2>2, <2>3
<1>7. k \in Nat
  BY <1>2
<1>8. x = y
  BY ONLY <1>4, <1>5, <1>6, <1>7
<1> QED BY <1>1, <1>8

(* And for one of which the head is taken. *)
LEMMA SentTail ==
  ASSUME NEW w \in Seq(Frame), w # << >>
  PROVE  /\ Sent(w) # << >> /\ Sent(Tail(w)) = Tail(Sent(w))
         /\ Head(Sent(w)) = [from |-> Head(w).from, n |-> Head(w).n]
<1>1. PICK v, x, y, z, k : v = Tail(w) /\ x = Sent(w) /\ y = Sent(v) /\ z = Tail(x) /\ k = Len(v)
  OBVIOUS
<1>2. v \in Seq(Frame) /\ k \in Nat /\ Len(w) = k + 1 /\ Head(w) = w[1] /\ \A i \in 1..k : v[i] = w[i + 1]
  BY <1>1
<1>3. /\ x \in Seq(Chunk) /\ Len(x) = k + 1 /\ \A i \in 1..(k + 1) : x[i] = [from |-> w[i].from, n |-> w[i].n]
  BY <1>1, <1>2, SentIs
<1>4. /\ y \in Seq(Chunk) /\ Len(y) = k /\ \A i \in 1..k : y[i] = [from |-> v[i].from, n |-> v[i].n]
  BY <1>1, <1>2, SentIs
<1>5. x # << >> /\ z \in Seq(Chunk) /\ Len(z) = k /\ Head(x) = x[1] /\ \A i \in 1..k : z[i] = x[i + 1]
  BY <1>1, <1>2, <1>3
<1>6. ASSUME NEW i \in 1..k PROVE z[i] = y[i]
  <2>1. i + 1 \in 1..(k + 1)
    BY <1>2
  <2>2. z[i] = x[i + 1] /\ v[i] = w[i + 1] /\ y[i] = [from |-> v[i].from, n |-> v[i].n]
    BY <1>2, <1>4, <1>5
  <2>3. x[i + 1] = [from |-> w[i + 1].from, n |-> w[i + 1].n]
    BY <1>3, <2>1
  <2> QED BY ONLY <2>2, <2>3
<1>7. z = y
  <2>1. k \in Nat /\ z \in Seq(Chunk) /\ y \in Seq(Chunk) /\ Len(z) = k /\ Len(y) = k
    BY <1>2, <1>4, <1>5
  <2> QED BY ONLY <1>6, <2>1
<1>8. 1 \in 1..(k + 1)
  BY <1>2
<1>9. Head(x) = [from |-> Head(w).from, n |-> Head(w).n]
  BY <1>2, <1>3, <1>5, <1>8
<1> QED BY <1>1, <1>5, <1>7, <1>9

(* _flush moves chunks from what waits to the socket. *)
LEMMA FlushMoves ==
  ASSUME NEW c, ConnOK(c), NEW w, WireOK(w), Flush(c, w)
  PROVE  Sent(wire') \o conn'.pendingOut = Sent(w) \o c.pendingOut
<1>1. PICK k : Sends(c, w, k, conn', wire')
  BY FlushIs
<1>2. PICK q, a, b, f, s, v : /\ q = c.pendingOut /\ a = First(q, k) /\ b = After(q, k)
                           /\ f = Frames(c, k) /\ s = Sent(w) /\ v = w \o f
  OBVIOUS
<1>3. q \in Seq(Chunk) /\ w \in Seq(Frame) /\ k \in 0..Len(q)
  BY <1>1, <1>2 DEF ConnOK, WireOK, Sends
<1>4. conn'.pendingOut = b /\ wire' = v
  BY <1>1, <1>2 DEF Sends
<1>5. f \in Seq(Frame) /\ Sent(f) = a
  BY <1>2, <1>3, FramesAre, SentFrames
<1>6. Sent(v) = s \o a
  BY <1>2, <1>3, <1>5, SentConcat
<1>7. a \in Seq(Chunk) /\ b \in Seq(Chunk) /\ a \o b = q
  BY <1>2, <1>3, Parts
<1>8. s \in Seq(Chunk)
  BY <1>2, <1>3, SentIs
<1>9. (s \o a) \o b = s \o (a \o b)
  <2>1. s \in Seq(Chunk) /\ a \in Seq(Chunk) /\ b \in Seq(Chunk)
    BY <1>7, <1>8
  <2> QED BY ONLY <2>1, Regroup
<1> QED BY <1>2, <1>4, <1>6, <1>7, <1>9

-----------------------------------------------------------------------------
(* What is on its way is in sequence, from what the client shows to what *)
(* was written.                                                          *)
Order ==
  /\ InSequence(Pipeline, client.upto, client.marked, written)
  /\ gate.dropping => MarkAt(Pipeline, client.marked, Len(Pipeline))

(* All that is on its way, in one sequence. *)
LEMMA PipelineIs ==
  ASSUME OutputOK
  PROVE  /\ Pipeline = Sent(wire) \o conn.pendingOut \o toGateway \o gate.queue
         /\ Sent(wire) \in Seq(Chunk) /\ conn.pendingOut \in Seq(Chunk)
         /\ toGateway \in Seq(Chunk) /\ gate.queue \in Seq(Chunk) /\ Pipeline \in Seq(Chunk)
<1>1. PICK a, b, c, d : a = Sent(wire) /\ b = conn.pendingOut /\ c = toGateway /\ d = gate.queue
  OBVIOUS
<1>2. a \in Seq(Chunk) /\ b \in Seq(Chunk) /\ c \in Seq(Chunk) /\ d \in Seq(Chunk)
  BY <1>1, SentIs DEF OutputOK, WireOK, ConnOK, GateOK
<1>3. Pipeline = a \o b \o c \o d
  BY <1>1 DEF Pipeline, Sent
<1>4. PICK e, f : e = a \o b /\ f = e \o c
  OBVIOUS
<1>5. e \in Seq(Chunk)
  BY ONLY <1>2, <1>4, Concat
<1>6. f \in Seq(Chunk)
  BY ONLY <1>2, <1>4, <1>5, Concat
<1>7. f \o d \in Seq(Chunk)
  BY ONLY <1>2, <1>6, Concat
<1> QED BY <1>1, <1>2, <1>3, <1>4, <1>7

(* The gate hands chunks on. *)
LEMMA GatedLine ==
  ASSUME OutputOK, OutputOK', NEW g, GateOK(g), Gated(g), UNCHANGED <<conn, wire>>,
         NEW R, R \in Seq(Chunk), g.queue = gate.queue \o R
  PROVE  Pipeline' = Pipeline \o R
<1>1. PICK a, b, c, d : a = Sent(wire) /\ b = conn.pendingOut /\ c = toGateway /\ d = gate.queue
  OBVIOUS
<1>2. a \in Seq(Chunk) /\ b \in Seq(Chunk) /\ c \in Seq(Chunk) /\ d \in Seq(Chunk) /\ Pipeline = a \o b \o c \o d
  BY <1>1, PipelineIs
<1>3. PICK x, y : x = toGateway' /\ y = gate'.queue
  OBVIOUS
<1>4. x \in Seq(Chunk) /\ y \in Seq(Chunk)
  BY <1>3 DEF OutputOK, GateOK
<1>5. Pipeline' = a \o b \o x \o y
  BY <1>1, <1>3 DEF Pipeline, Sent
<1>6. x \o y = c \o (d \o R)
  BY <1>1, <1>3 DEF Gated
<1>7. PICK e : e = a \o b
  OBVIOUS
<1>8. e \in Seq(Chunk)
  BY ONLY <1>2, <1>7, Concat
<1>9. (e \o x) \o y = e \o (x \o y)
  <2>1. PICK f, m : f = e \o x /\ m = x \o y
    OBVIOUS
  <2>2. f \o y = e \o m
    BY ONLY <1>4, <1>8, <2>1, Grouped
  <2> QED BY <2>1, <2>2
<1>10. PICK h, i : h = d \o R /\ i = c \o d
  OBVIOUS
<1>11. i \in Seq(Chunk) /\ h \in Seq(Chunk) /\ i \o R = c \o h
  <2>1. c \in Seq(Chunk) /\ d \in Seq(Chunk) /\ R \in Seq(Chunk)
    BY <1>2
  <2> QED BY ONLY <1>10, <2>1, Grouped
<1>12. PICK j, l, m : j = e \o i /\ l = i \o R /\ m = e \o c
  OBVIOUS
<1>13. j \o R = e \o l
  <2>1. i \in Seq(Chunk) /\ R \in Seq(Chunk)
    BY <1>11
  <2> QED BY ONLY <1>8, <1>12, <2>1, Grouped
<1>14. m \o d = e \o i
  <2>1. c \in Seq(Chunk) /\ d \in Seq(Chunk)
    BY <1>2
  <2> QED BY ONLY <1>8, <1>10, <1>12, <2>1, Grouped
<1>15. Pipeline = e \o i
  BY <1>2, <1>7, <1>12, <1>14
<1> QED BY <1>5, <1>6, <1>7, <1>9, <1>10, <1>11, <1>12, <1>13, <1>15

(* A step that leaves the line as it is. *)
LEMMA LineSame ==
  ASSUME Order, Pipeline' = Pipeline, UNCHANGED <<client, written>>, gate'.dropping => gate.dropping
  PROVE  Order'
<1>1. PICK P, u, m, w : P = Pipeline /\ u = client.upto /\ m = client.marked /\ w = written
  OBVIOUS
<1>2. InSequence(P, u, m, w) /\ (gate.dropping => MarkAt(P, m, Len(P)))
  BY <1>1 DEF Order
<1>3. Pipeline' = P /\ client'.upto = u /\ client'.marked = m /\ written' = w
  BY <1>1
<1> QED BY <1>2, <1>3 DEF Order

(* To append is to join a sequence of one. *)
LEMMA AppendIs ==
  ASSUME NEW S, NEW q \in Seq(S), NEW x \in S
  PROVE  Append(q, x) = q \o <<x>> /\ <<x>> \in Seq(S)
OBVIOUS

(* To join nothing changes nothing. *)
LEMMA NothingMore ==
  ASSUME NEW S, NEW q \in Seq(S)
  PROVE  q \o << >> = q /\ << >> \in Seq(S)
OBVIOUS

(* The shell writes: its pieces continue what is on the way, or a marker *)
(* stands for them.                                                      *)
LEMMA WriteOrder ==
  ASSUME OutputOK, OutputOK', Order, NEW n \in WriteSizes, Write(n)
  PROVE  Order'
<1>1. n \in Nat /\ written \in Nat /\ GateOK(gate)
  BY OutputAssumption DEF OutputOK
<1>2. PICK P, u, m, w, v : P = Pipeline /\ u = client.upto /\ m = client.marked /\ w = written /\ v = written + n
  OBVIOUS
<1>3. written' = v /\ UNCHANGED <<conn, wire, client>>
  BY <1>2 DEF Write, ends
<1>4. w \in Nat /\ v \in Nat /\ w <= v /\ u \in Nat
  BY <1>1, <1>2 DEF OutputOK, ClientOK
<1>5. P \in Seq(Chunk) /\ InSequence(P, u, m, w) /\ (gate.dropping => MarkAt(P, m, Len(P)))
  BY <1>2, PipelineIs DEF Order
<1>6. DOMAIN gate = GateFields /\ gate.queue \in Seq(Chunk) /\ gate.inflight \in Nat /\ gate.dropping \in BOOLEAN
  BY <1>1 DEF GateOK
<1>7. CASE gate.dropping /\ UNCHANGED <<gate, toGateway>>
  <2>1. Pipeline' = P
    BY <1>2, <1>3, <1>7 DEF Pipeline
  <2>2. MarkAt(P, m, Len(P))
    BY <1>5, <1>7
  <2>3. InSequence(P, u, m, v)
    BY <1>4, <1>5, <2>2, SequenceGap
  <2> QED BY <1>2, <1>3, <2>1, <2>2, <2>3 DEF Order
<1>8. CASE Pump(Overflowed(gate))
  <2>1. PICK g, q, b : g = Overflowed(gate) /\ q = Append(gate.queue, Marker) /\ b = Running
    OBVIOUS
  <2>2. g = [gate EXCEPT !.queue = q, !.dropping = b] /\ b \in BOOLEAN
    BY <2>1 DEF Overflowed, Running
  <2>3. PICK R : R = <<Marker>>
    OBVIOUS
  <2>4. q \in Seq(Chunk) /\ q = gate.queue \o R /\ R \in Seq(Chunk)
    BY <1>6, <2>1, <2>3, MarkerIs, AppendIs
  <2>5. GateOK(g) /\ g.queue = q
    BY <1>6, <2>2, <2>4 DEF GateOK, GateFields
  <2>6. Gated(g)
    BY <1>8, <2>1, <2>5, PumpKeeps DEF OutputOK
  <2>7. Pipeline' = P \o R
    BY <1>2, <1>3, <2>4, <2>5, <2>6, GatedLine
  <2>8. InSequence(P \o R, u, m, v) /\ MarkAt(P \o R, m, Len(P \o R))
    BY <1>4, <1>5, <2>3, SequenceMarker
  <2> QED BY <1>2, <1>3, <2>7, <2>8 DEF Order
<1>9. CASE ~ gate.dropping /\ Pump([gate EXCEPT !.queue = gate.queue \o Chunks(n)])
  <2>1. PICK q, R : q = gate.queue \o R /\ R = Chunks(n)
    OBVIOUS
  <2>2. PICK g : g = [gate EXCEPT !.queue = q]
    OBVIOUS
  <2>3. Continues(R, w, v)
    BY <1>1, <1>2, <2>1, ChunksContinue
  <2>4. R \in Seq(Chunk)
    BY <2>3 DEF Continues
  <2>5. q \in Seq(Chunk)
    <3>1. PICK o : o = gate.queue
      OBVIOUS
    <3>2. o \in Seq(Chunk) /\ q = o \o R
      BY <1>6, <2>1, <3>1
    <3> QED BY ONLY <2>4, <3>2, Concat
  <2>6. GateOK(g) /\ g.queue = q /\ g.dropping = gate.dropping
    BY <1>6, <2>2, <2>5 DEF GateOK, GateFields
  <2>7. Gated(g)
    BY <1>9, <2>1, <2>2, <2>6, PumpKeeps DEF OutputOK
  <2>8. Pipeline' = P \o R
    BY <1>2, <1>3, <2>1, <2>4, <2>6, <2>7, GatedLine
  <2>9. InSequence(P \o R, u, m, v)
    BY <1>4, <1>5, <2>3, SequenceChunks
  <2>10. ~ gate'.dropping
    BY <1>9, <2>6, <2>7 DEF Gated
  <2> QED BY <1>2, <1>3, <2>8, <2>9, <2>10 DEF Order
<1> QED BY <1>7, <1>8, <1>9 DEF Write

(* What the shell does beside that leaves the order alone. *)
LEMMA ShellOrder ==
  ASSUME OutputOK, Order, StartCommand \/ Yield \/ Resume \/ CommandEnds
  PROVE  Order'
<1>1. DOMAIN gate = GateFields
  BY DEF OutputOK, GateOK
<1>2. ASSUME NEW a, NEW b, NEW g, Shell(a, b, g)
      PROVE  gate' = g /\ UNCHANGED <<toGateway, written, conn, wire, client>>
  BY <1>2 DEF Shell, link, ends
<1>3. ASSUME NEW g, gate' = g, g.queue = gate.queue, g.dropping => gate.dropping,
             UNCHANGED <<toGateway, written, conn, wire, client>>
      PROVE  Order'
  <2>1. Pipeline' = Pipeline
    BY <1>3 DEF Pipeline
  <2> QED BY <1>3, <2>1, LineSame
<1>4. ASSUME NEW a, NEW b, Shell(a, b, gate) PROVE Order'
  BY <1>2, <1>3, <1>4
<1>5. ASSUME NEW a, NEW b, Shell(a, b, [gate EXCEPT !.waiter = TRUE]) PROVE Order'
  <2>1. PICK g : g = [gate EXCEPT !.waiter = TRUE]
    OBVIOUS
  <2>2. g.queue = gate.queue /\ g.dropping = gate.dropping
    BY <1>1, <2>1 DEF GateFields
  <2> QED BY <1>2, <1>3, <1>5, <2>1, <2>2
<1>6. ASSUME NEW a, NEW b, Shell(a, b, [gate EXCEPT !.dropping = FALSE]) PROVE Order'
  <2>1. PICK g : g = [gate EXCEPT !.dropping = FALSE]
    OBVIOUS
  <2>2. g.queue = gate.queue /\ g.dropping = FALSE
    BY <1>1, <2>1 DEF GateFields
  <2> QED BY <1>2, <1>3, <1>6, <2>1, <2>2
<1> QED BY <1>4, <1>5, <1>6 DEF StartCommand, Yield, Resume, CommandEnds

(* The gate pumps without anything new. *)
LEMMA PumpOrder ==
  ASSUME OutputOK, OutputOK', Order, NEW g, GateOK(g), g.queue = gate.queue, g.dropping = gate.dropping,
         Gated(g), UNCHANGED <<written, conn, wire, client>>
  PROVE  Order'
<1>1. PICK R : R = << >>
  OBVIOUS
<1>2. R \in Seq(Chunk) /\ g.queue = gate.queue \o R
  BY <1>1, NothingMore DEF OutputOK, GateOK
<1>3. Pipeline' = Pipeline \o R
  BY <1>2, GatedLine
<1>4. Pipeline' = Pipeline
  BY <1>1, <1>3, PipelineIs, NothingMore
<1>5. gate'.dropping = gate.dropping
  BY DEF Gated
<1> QED BY <1>4, <1>5, LineSame

(* The gate hands chunks over in their order. *)
LEMMA WorkerOrder ==
  ASSUME OutputOK, OutputOK', Order, SinkDrained \/ WorkerHandles
  PROVE  Order'
<1>1. /\ DOMAIN gate = GateFields /\ gate.dropping \in BOOLEAN /\ gate.queue \in Seq(Chunk)
      /\ gate.inflight \in Nat /\ toGateway \in Seq(Chunk)
  BY DEF OutputOK, GateOK
<1>2. UNCHANGED <<written, conn, wire, client>>
  BY DEF SinkDrained, WorkerHandles, ends
<1>3. CASE Pump([gate EXCEPT !.sinkFull = FALSE])
  <2>1. PICK g : g = [gate EXCEPT !.sinkFull = FALSE]
    OBVIOUS
  <2>2. GateOK(g) /\ g.queue = gate.queue /\ g.dropping = gate.dropping
    BY <1>1, <2>1 DEF GateOK, GateFields
  <2>3. Gated(g)
    BY <1>1, <1>3, <2>1, <2>2, PumpKeeps
  <2> QED BY <1>2, <2>2, <2>3, PumpOrder
<1>4. CASE gate' = [gate EXCEPT !.remotePaused = TRUE] /\ UNCHANGED toGateway
  <2>1. gate'.queue = gate.queue /\ gate'.dropping = gate.dropping
    BY <1>1, <1>4 DEF GateFields
  <2>2. Pipeline' = Pipeline
    BY <1>2, <1>4, <2>1 DEF Pipeline
  <2> QED BY <1>2, <2>1, <2>2, LineSame
<1>5. CASE Pump([gate EXCEPT !.remotePaused = FALSE])
  <2>1. PICK g : g = [gate EXCEPT !.remotePaused = FALSE]
    OBVIOUS
  <2>2. GateOK(g) /\ g.queue = gate.queue /\ g.dropping = gate.dropping
    BY <1>1, <2>1 DEF GateOK, GateFields
  <2>3. Gated(g)
    BY <1>1, <1>5, <2>1, <2>2, PumpKeeps
  <2> QED BY <1>2, <2>2, <2>3, PumpOrder
<1>6. CASE WorkerHandles /\ Head(toWorker).t = "consumed" /\ TakesConsumed(Head(toWorker).n)
  <2>1. PICK n, i, l : n = Head(toWorker).n /\ i = gate.inflight /\ l = IF i > n THEN i - n ELSE 0
    OBVIOUS
  <2>2. PICK g : g = [gate EXCEPT !.inflight = l]
    OBVIOUS
  <2>3. Pump(g)
    BY <1>6, <2>1, <2>2 DEF TakesConsumed, Less
  <2>4. Head(toWorker) \in Record
    BY <1>6, ToldLess DEF OutputOK, WorkerHandles
  <2>5. n \in Nat
    <3>1. Reports(Head(toWorker)) \in Nat
      BY <2>4, RecordsReport
    <3> QED BY <1>6, <2>1, <3>1 DEF Reports
  <2>6. l \in Nat
    BY <1>1, <2>1, <2>5
  <2>7. GateOK(g) /\ g.queue = gate.queue /\ g.dropping = gate.dropping
    BY <1>1, <2>2, <2>6 DEF GateOK, GateFields
  <2>8. Gated(g)
    BY <1>1, <2>3, <2>7, PumpKeeps
  <2> QED BY <1>2, <2>7, <2>8, PumpOrder
<1> QED BY <1>3, <1>4, <1>5, <1>6 DEF SinkDrained, WorkerHandles

(* Steps of the connection move chunks along the line.                     *)
LEMMA ConnOrder ==
  ASSUME OutputOK, OutputOK', Order, UNCHANGED <<written, gate, client>>,
         NEW a, NEW b, NEW c, a \in Seq(Chunk), b \in Seq(Chunk), c \in Seq(Chunk),
         Sent(wire') \o conn'.pendingOut = a \o b, toGateway' = c,
         a \o b \o c = Sent(wire) \o conn.pendingOut \o toGateway
  PROVE  Order'
<1>1. Pipeline' = (Sent(wire') \o conn'.pendingOut) \o toGateway' \o gate'.queue
  BY DEF Pipeline, Sent
<1>2. Pipeline = (Sent(wire) \o conn.pendingOut) \o toGateway \o gate.queue
  BY PipelineIs
<1>3. Pipeline' = Pipeline
  BY <1>1, <1>2
<1> QED BY <1>3, LineSame

(* The gateway takes a chunk and sends some, in their order. *)
LEMMA OutputOrder ==
  ASSUME OutputOK, OutputOK', Order, Output, over' # "quota"
  PROVE  Order'
<1>1. PICK x, t, q, a, s : /\ x = Head(toGateway) /\ t = Tail(toGateway) /\ q = conn.pendingOut
                           /\ a = Sent(wire) /\ s = Append(q, x)
  OBVIOUS
<1>2. /\ toGateway # << >> /\ toGateway' = t /\ UNCHANGED <<written, gate, client>>
  BY <1>1 DEF Output, ends
<1>3. x \in Chunk /\ t \in Seq(Chunk) /\ q \in Seq(Chunk) /\ a \in Seq(Chunk) /\ toGateway \in Seq(Chunk)
  BY <1>1, <1>2, PipelineIs
<1>4. PICK c : c = [conn EXCEPT !.pendingOut = s]
  OBVIOUS
<1>5. Flush(c, wire)
  BY <1>1, <1>4 DEF Output
<1>6. s \in Seq(Chunk) /\ DOMAIN conn = ConnFields
  BY <1>1, <1>3 DEF OutputOK, ConnOK
<1>7. /\ DOMAIN c = ConnFields /\ c.pendingOut = s
      /\ c.outstanding = conn.outstanding /\ c.outSeq = conn.outSeq /\ c.sentBytes = conn.sentBytes
      /\ c.creditBytes = conn.creditBytes /\ c.consumedSeq = conn.consumedSeq
      /\ c.consumedBytes = conn.consumedBytes /\ c.consumedPending = conn.consumedPending
      /\ c.paused = conn.paused /\ c.refused = conn.refused
  BY <1>4, <1>6 DEF ConnFields
<1>8. ConnOK(c) /\ WireOK(wire)
  BY <1>6, <1>7 DEF OutputOK, ConnOK
<1>9. Sent(wire') \o conn'.pendingOut = a \o s
  BY <1>1, <1>5, <1>7, <1>8, FlushMoves
<1>10. a \o s \o t = a \o q \o toGateway
  <2>1. PICK e, r : e = <<x>> /\ r = toGateway
    OBVIOUS
  <2>2. e \in Seq(Chunk) /\ s = q \o e /\ r = e \o t
    BY <1>1, <1>2, <1>3, <2>1, AppendIs
  <2>3. r \in Seq(Chunk)
    BY <1>3, <2>1
  <2>4. PICK f, g, h, i : f = a \o s /\ g = s \o t /\ h = a \o q /\ i = q \o r
    OBVIOUS
  <2>m. a \in Seq(Chunk) /\ s \in Seq(Chunk) /\ t \in Seq(Chunk) /\ q \in Seq(Chunk)
    BY <1>3, <1>6
  <2>5. f \o t = a \o g
    BY ONLY SMTT(30), <2>4, <2>m, Grouped
  <2>6. s \o t = q \o r
    BY ONLY <2>2, <2>m, Grouped
  <2>7. h \o r = a \o i
    <3>1. a \in Seq(Chunk) /\ q \in Seq(Chunk) /\ h = a \o q /\ i = q \o r
      BY <2>4, <2>m
    <3> QED BY ONLY <2>3, <3>1, Grouped
  <2> QED BY <2>1, <2>4, <2>5, <2>6, <2>7
<1> QED BY <1>1, <1>2, <1>3, <1>6, <1>9, <1>10, ConnOrder

(* Steps that leave the chunks where they are. *)
LEMMA RestOrder ==
  ASSUME OutputOK, Order, ReportConsumed \/ CreditRefused
  PROVE  Order'
<1>1. UNCHANGED <<written, gate, toGateway, wire, client>> /\ conn'.pendingOut = conn.pendingOut
  <2>1. DOMAIN conn = ConnFields
    BY DEF OutputOK, ConnOK
  <2>2. CASE ReportConsumed
    <3>1. conn' = [conn EXCEPT !.consumedPending = 0]
      BY <2>2 DEF ReportConsumed
    <3> QED BY <2>1, <2>2, <3>1 DEF ReportConsumed, ends, ConnFields
  <2>3. CASE CreditRefused
    <3>1. PICK n, b : conn' = [conn EXCEPT !.strikes = n, !.refused = b]
      BY <2>3 DEF CreditRefused
    <3> QED BY <2>1, <2>3, <3>1 DEF CreditRefused, link, ConnFields
  <2> QED BY <2>2, <2>3
<1>2. Pipeline' = Pipeline
  BY <1>1 DEF Pipeline
<1> QED BY <1>1, <1>2, LineSame

(* A flush alone. *)
LEMMA FlushOrder ==
  ASSUME OutputOK, OutputOK', Order, NEW c, ConnOK(c), c.pendingOut = conn.pendingOut, Flush(c, wire),
         UNCHANGED <<written, gate, client, toGateway>>
  PROVE  Order'
<1>1. PICK a, q, t : a = Sent(wire) /\ q = conn.pendingOut /\ t = toGateway
  OBVIOUS
<1>2. a \in Seq(Chunk) /\ q \in Seq(Chunk) /\ t \in Seq(Chunk)
  BY <1>1, PipelineIs
<1>3. Sent(wire') \o conn'.pendingOut = a \o q
  BY <1>1, FlushMoves DEF OutputOK
<1>4. toGateway' = t /\ a \o q \o t = Sent(wire) \o conn.pendingOut \o toGateway
  BY <1>1
<1> QED BY <1>2, <1>3, <1>4, ConnOrder

(* Credit lets more be sent, in their order. *)
LEMMA CreditedOrder ==
  ASSUME OutputOK, OutputOK', Order, Credited
  PROVE  Order'
<1>1. PICK m : m = Head(toServer)
  OBVIOUS
<1>2. /\ toServer # << >> /\ Granted(conn, m) /\ UNCHANGED <<written, gate, toGateway, client>>
  BY <1>1 DEF Credited
<1>3. m \in Grant
  BY <1>1, <1>2 DEF OutputOK
<1>4. m.seq \in Nat /\ m.credit \in Nat
  BY <1>3 DEF Grant
<1>6. PICK k : k = Cardinality({i \in DOMAIN conn.outstanding : conn.outstanding[i].seq <= m.seq})
  OBVIOUS
<1>7. PICK left : left = IF k = 0 THEN conn.consumedBytes ELSE conn.outstanding[k].cum
  OBVIOUS
<1>8. PICK rest : rest = After(conn.outstanding, k)
  OBVIOUS
<1>9. PICK c : c = [conn EXCEPT !.outstanding = rest, !.consumedBytes = left, !.consumedSeq = m.seq,
                                !.creditBytes = m.credit]
  OBVIOUS
<1>10. IF Violates(conn, m, left)
       THEN over' = "violation" /\ UNCHANGED <<conn, wire, toWorker>>
       ELSE Flush(c, wire) /\ UNCHANGED over
  BY <1>2, <1>6, <1>7, <1>8, <1>9 DEF Granted
<1>11. CASE Violates(conn, m, left)
  <2>1. UNCHANGED <<conn, wire>>
    BY <1>10, <1>11
  <2>2. Pipeline' = Pipeline
    BY <1>2, <2>1 DEF Pipeline
  <2> QED BY <1>2, <2>2, LineSame
<1>12. CASE ~ Violates(conn, m, left)
  <2>1. ConnOK(conn) /\ WireOK(wire)
    BY DEF OutputOK
  <2>2. rest \in Seq(Cum) /\ Len(rest) <= MaxOutstanding /\ left \in Nat
    BY <1>6, <1>7, <1>8, <2>1, LeftIs
  <2>3. DOMAIN conn = ConnFields
    BY <2>1 DEF ConnOK
  <2>4. /\ DOMAIN c = ConnFields /\ c.outstanding = rest /\ c.consumedBytes = left
        /\ c.consumedSeq = m.seq /\ c.creditBytes = m.credit /\ c.pendingOut = conn.pendingOut
        /\ c.outSeq = conn.outSeq /\ c.sentBytes = conn.sentBytes
        /\ c.consumedPending = conn.consumedPending /\ c.paused = conn.paused
        /\ c.refused = conn.refused
    BY <1>9, <2>3 DEF ConnFields
  <2>5. c.sentBytes <= c.creditBytes
    <3>1. PICK s, b, d : s = conn.sentBytes /\ b = conn.creditBytes /\ d = m.credit
      OBVIOUS
    <3>2. s \in Nat /\ b \in Nat /\ d \in Nat /\ s <= b /\ ~ (d < b)
      BY <1>4, <1>12, <2>1, <3>1 DEF ConnOK, Violates
    <3>3. s <= d
      BY ONLY <3>2
    <3> QED BY <2>4, <3>1, <3>3
  <2>6. ConnOK(c)
    BY <1>4, <2>1, <2>2, <2>4, <2>5 DEF ConnOK
  <2>7. Flush(c, wire)
    BY <1>10, <1>12
  <2> QED BY <1>2, <2>4, <2>6, <2>7, FlushOrder
<1> QED BY <1>11, <1>12

(* The client shows the first chunk that is on the way. *)
LEMMA ReceivesOrder ==
  ASSUME OutputOK, OutputOK', Order, ClientReceives
  PROVE  Order'
<1>1. PICK f, w, c : f = Head(wire) /\ w = Tail(wire) /\ c = Consumed(client, Head(wire))
  OBVIOUS
<1>2. PICK s : s = IF RenewalDue(c) THEN [conn EXCEPT !.refused = FALSE] ELSE conn
  OBVIOUS
<1>3. wire # << >> /\ UNCHANGED <<written, gate, toGateway>>
  BY DEF ClientReceives
<1>4. client' = Renewed(c) \/ client' = c
  BY <1>1 DEF ClientReceives
<1>5. \/ Flush([s EXCEPT !.socketFull = FALSE], w)
      \/ conn' = s /\ wire' = w
  BY <1>1, <1>2 DEF ClientReceives
<1>6. wire \in Seq(Frame) /\ f \in Frame /\ w \in Seq(Frame) /\ Bytes(wire) = f.n + Bytes(w) /\ f.n \in Nat /\ Bytes(w) \in Nat
  BY <1>1, <1>3, BytesTail, ChunksSized DEF OutputOK, WireOK
<1>7. WireOK(w)
  <2>1. PICK a, b, n : a = Bytes(wire) /\ b = Bytes(w) /\ n = f.n
    OBVIOUS
  <2>2. a = n + b /\ n \in Nat /\ b \in Nat /\ a <= SendQueue /\ SendQueue \in Nat
    BY <1>6, <2>1, OutputAssumption DEF OutputOK, WireOK
  <2>3. b <= SendQueue
    BY ONLY <2>2
  <2> QED BY <1>6, <2>1, <2>3 DEF WireOK
<1>8. PICK P, x, q, t, g, a, u, m : /\ P = Pipeline /\ x = Sent(wire) /\ q = conn.pendingOut /\ t = toGateway
                                    /\ g = gate.queue /\ a = Sent(w) /\ u = client.upto /\ m = client.marked
  OBVIOUS
<1>9. P = x \o q \o t \o g /\ P \in Seq(Chunk) /\ x \in Seq(Chunk) /\ q \in Seq(Chunk) /\ t \in Seq(Chunk) /\ g \in Seq(Chunk)
  BY <1>8, PipelineIs
<1>10. x # << >> /\ a = Tail(x) /\ Head(x) = [from |-> f.from, n |-> f.n]
  BY <1>1, <1>3, <1>6, <1>8, SentTail
<1>11. ConnOK(s) /\ s.pendingOut = q
  <2>1. DOMAIN conn = ConnFields
    BY DEF OutputOK, ConnOK
  <2>2. CASE s = conn
    BY <1>8, <2>2 DEF OutputOK
  <2>3. CASE s = [conn EXCEPT !.refused = FALSE]
    <3>1. /\ DOMAIN s = ConnFields /\ s.pendingOut = conn.pendingOut
          /\ s.consumedPending = conn.consumedPending
          /\ s.outstanding = conn.outstanding /\ s.outSeq = conn.outSeq
          /\ s.sentBytes = conn.sentBytes /\ s.creditBytes = conn.creditBytes
          /\ s.consumedSeq = conn.consumedSeq /\ s.consumedBytes = conn.consumedBytes
          /\ s.paused = conn.paused /\ s.refused \in BOOLEAN
      BY <2>1, <2>3 DEF ConnFields
    <3> QED BY <1>8, <3>1 DEF OutputOK, ConnOK
  <2> QED BY <1>2, <2>2, <2>3
<1>12. Sent(wire') \o conn'.pendingOut = a \o q
  <2>1. CASE Flush([s EXCEPT !.socketFull = FALSE], w)
    <3>1. PICK d : d = [s EXCEPT !.socketFull = FALSE]
      OBVIOUS
    <3>2. DOMAIN s = ConnFields
      BY <1>11 DEF ConnOK
    <3>3. /\ DOMAIN d = ConnFields /\ d.pendingOut = s.pendingOut
          /\ d.consumedPending = s.consumedPending
          /\ d.outstanding = s.outstanding /\ d.outSeq = s.outSeq
          /\ d.sentBytes = s.sentBytes /\ d.creditBytes = s.creditBytes
          /\ d.consumedSeq = s.consumedSeq /\ d.consumedBytes = s.consumedBytes
          /\ d.paused = s.paused /\ d.refused = s.refused
      BY <3>1, <3>2 DEF ConnFields
    <3>4. ConnOK(d)
      BY <1>11, <3>3 DEF ConnOK
    <3> QED BY <1>7, <1>8, <1>11, <2>1, <3>1, <3>3, <3>4, FlushMoves
  <2>2. CASE conn' = s /\ wire' = w
    BY <1>8, <1>11, <2>2
  <2> QED BY <1>5, <2>1, <2>2
<1>13. Pipeline' = a \o q \o t \o g
  <2>1. Pipeline' = (Sent(wire') \o conn'.pendingOut) \o toGateway' \o gate'.queue
    BY DEF Pipeline, Sent
  <2> QED BY <1>3, <1>8, <1>12, <2>1
<1>14. P # << >> /\ Head(P) = Head(x) /\ Tail(P) = a \o q \o t \o g
  <2>1. PICK y, r : y = <<Head(x)>> /\ r = q \o t \o g
    OBVIOUS
  <2>2. a \in Seq(Chunk) /\ Head(x) \in Chunk /\ x = y \o a /\ y \in Seq(Chunk)
    BY <1>9, <1>10, <2>1
  <2>3. PICK v, z : v = q \o t /\ z = v \o g
    OBVIOUS
  <2>4. v \in Seq(Chunk) /\ q \in Seq(Chunk) /\ t \in Seq(Chunk) /\ g \in Seq(Chunk)
    BY <1>9, <2>3
  <2>5. z \in Seq(Chunk)
    BY <2>3, <2>4
  <2>6. ASSUME NEW e \in Seq(Chunk) PROVE ((e \o q) \o t) \o g = e \o z
    <3>1. PICK d, l : d = e \o q /\ l = e \o v
      OBVIOUS
    <3>2. d \o t = e \o v
      BY ONLY SMTT(30), <2>3, <2>4, <3>1, e \in Seq(Chunk), Grouped
    <3>3. l \o g = e \o z
      <4>1. v \in Seq(Chunk) /\ g \in Seq(Chunk) /\ z = v \o g /\ l = e \o v
        BY <2>3, <2>4, <3>1
      <4> QED BY ONLY <4>1, e \in Seq(Chunk), Grouped
    <3> QED BY <3>1, <3>2, <3>3
  <2>7. P = x \o z /\ a \o q \o t \o g = a \o z
    BY <1>9, <2>2, <2>6
  <2>8. PICK b : b = a \o z
    OBVIOUS
  <2>9. x \o z = y \o b
    BY ONLY <2>2, <2>5, <2>8, Grouped
  <2>10. b \in Seq(Chunk)
    BY <2>2, <2>5, <2>8
  <2>11. PICK h : h = Head(x)
    OBVIOUS
  <2>12. P = <<h>> \o b /\ h \in Chunk
    BY <2>1, <2>2, <2>7, <2>8, <2>9, <2>11
  <2>13. <<h>> \o b # << >> /\ Head(<<h>> \o b) = h /\ Tail(<<h>> \o b) = b
    <3>1. h \in Chunk
      BY <2>12
    <3> QED BY ONLY <2>10, <3>1
  <2> QED BY <2>7, <2>8, <2>11, <2>12, <2>13
<1>15. ClientOK(c) /\ c.upto = (IF f.from = 0 THEN u ELSE f.from + f.n - 1) /\ c.marked = (f.from = 0)
  BY <1>1, <1>6, <1>8, ConsumedIs DEF OutputOK
<1>16. client'.upto = c.upto /\ client'.marked = c.marked
  BY <1>4, <1>15, RenewedIs
<1>17. PICK v, k, y : v = c.upto /\ k = c.marked /\ y = written
  OBVIOUS
<1>18. v = (IF IsMarker(Head(P)) THEN u ELSE Head(P).from + Head(P).n - 1) /\ k = IsMarker(Head(P))
  BY <1>10, <1>14, <1>15, <1>17 DEF IsMarker
<1>19. InSequence(P, u, m, y) /\ (gate.dropping => MarkAt(P, m, Len(P)))
  BY <1>8, <1>17 DEF Order
<1>20. InSequence(Tail(P), v, k, y) /\ MarkAt(Tail(P), k, Len(Tail(P))) = MarkAt(P, m, Len(P))
  <2>1. P \in Seq(Chunk) /\ P # << >> /\ InSequence(P, u, m, y)
    BY <1>9, <1>14, <1>19
  <2> QED BY ONLY <2>1, <1>18, SequenceDrop
<1>21. Pipeline' = Tail(P) /\ client'.upto = v /\ client'.marked = k /\ written' = y /\ gate' = gate
  BY <1>3, <1>13, <1>14, <1>16, <1>17
<1> QED BY <1>19, <1>20, <1>21 DEF Order

-----------------------------------------------------------------------------
(* The inductive invariant of InOrder. *)
OrderInv == over # "quota" => Order

(* The order holds at the start. *)
LEMMA OrderStarts == OutputInit => OrderInv
<1> SUFFICES ASSUME OutputInit PROVE Order
  BY DEF OrderInv
<1>1. /\ toGateway = << >> /\ wire = << >> /\ gate.queue = << >> /\ conn.pendingOut = << >>
      /\ gate.dropping = FALSE /\ client.upto = 0 /\ written = 0
  BY DEF OutputInit
<1>2. OutputOK
  BY OutputStarts DEF WindowInv
<1>3. PICK P : P = Pipeline
  OBVIOUS
<1>4. P = << >>
  <2>1. PICK e : e = << >>
    OBVIOUS
  <2>2. Sent(wire) = e
    <3>0. PICK w : w = wire
      OBVIOUS
    <3>w. w \in Seq(Frame) /\ Len(w) = 0
      BY <1>1, <3>0
    <3>1. Sent(wire) \in Seq(Chunk) /\ Len(Sent(wire)) = 0
      BY <3>0, <3>w, SentIs
    <3> QED BY <2>1, <3>1, EmptyQueue
  <2>3. e \in Seq(Chunk) /\ e \o e = e
    BY <2>1
  <2>4. P = e \o e \o e \o e
    BY <1>1, <1>2, <1>3, <2>1, <2>2, PipelineIs
  <2> QED BY <2>1, <2>3, <2>4
<1>5. Len(P) = 0 /\ 1..Len(P) = {}
  BY <1>4
<1>6. EndsAt(P, client.upto, Len(P)) = 0
  <2>1. PICK u : u = client.upto
    OBVIOUS
  <2> QED BY <1>1, <1>5, <2>1, EndsStart
<1>7. InSequence(P, client.upto, client.marked, written)
  BY <1>1, <1>5, <1>6 DEF InSequence
<1> QED BY <1>1, <1>3, <1>7 DEF Order

(* Every step keeps it, with the window's invariant for the types. *)
LEMMA OrderKeeps == WindowInv /\ WindowInv' /\ OrderInv /\ [OutputNext]_outputVars => OrderInv'
<1> SUFFICES ASSUME WindowInv, WindowInv', OrderInv, [OutputNext]_outputVars PROVE OrderInv'
  OBVIOUS
<1>1. OutputOK /\ OutputOK'
  BY DEF WindowInv
<1>2. CASE UNCHANGED outputVars
  <2>1. UNCHANGED <<written, gate, toGateway, toWorker, conn, wire, client, toServer, over>>
    BY <1>2 DEF outputVars
  <2>2. Pipeline' = Pipeline
    BY <2>1 DEF Pipeline
  <2>3. Order => Order'
    BY <2>1, <2>2, LineSame
  <2> QED BY <2>1, <2>3 DEF OrderInv
<1>3. CASE OutputNext
  <2>1. over = "no"
    BY <1>3 DEF OutputNext, Moves, Write, StartCommand, Yield, Resume, CommandEnds, Shell, SinkDrained,
                WorkerHandles, Output, ReportConsumed, Credited, CreditRefused, ClientReceives
  <2>2. Order
    BY <2>1 DEF OrderInv
  <2>3. over' # "quota" => Order'
    BY <1>1, <1>3, <2>2, WriteOrder, ShellOrder, WorkerOrder, OutputOrder,
       RestOrder, CreditedOrder, ReceivesOrder
       DEF OutputNext, Moves
  <2> QED BY <2>3 DEF OrderInv
<1> QED BY <1>2, <1>3

(* It says what InOrder asks for. *)
LEMMA OrderShows == OrderInv => InOrder
<1> SUFFICES ASSUME Order PROVE InOrder
  BY DEF OrderInv, InOrder
<1>1. PICK P, u, m : P = Pipeline /\ u = client.upto /\ m = client.marked
  OBVIOUS
<1>2. \A i : Shown(i) = EndsAt(P, u, i)
  BY <1>1 DEF Shown, EndsAt, EndOf
<1>3. \A i : Marked(i) = MarkAt(P, m, i)
  BY <1>1 DEF Marked, MarkAt
<1>4. InSequence(P, u, m, written)
  BY <1>1 DEF Order
<1> QED BY <1>1, <1>2, <1>3, <1>4 DEF InOrder, InSequence, Follows

(* What the browser shows is always what the shell wrote, in order. *)
THEOREM AlwaysInOrder == OutputSpec => []InOrder
<1>1. OutputInit => WindowInv /\ OrderInv
  BY OutputStarts, OrderStarts
<1>2. WindowInv /\ OrderInv /\ [OutputNext]_outputVars => (WindowInv /\ OrderInv)'
  BY OutputKeepsAll, OrderKeeps
<1>3. OrderInv => InOrder
  BY OrderShows
<1> QED BY <1>1, <1>2, <1>3, PTL DEF OutputSpec

(* No chunk is empty and none longer than ChunkBytes. *)
LEMMA BytesBounds ==
  ASSUME NEW q \in Seq(Chunk), NEW k \in 0..Len(q)
  PROVE  Bytes(First(q, k)) \in k..(k * ChunkBytes)
<1> DEFINE Fine(i) == Bytes(First(q, i)) \in i..(i * ChunkBytes)
           Bad == {i \in 0..Len(q) : ~ Fine(i)}
<1> SUFFICES ASSUME Bad # {} PROVE FALSE
  OBVIOUS
<1>0. Bad \subseteq Nat
  OBVIOUS
<1>1. PICK j \in Bad : \A i \in Bad : j <= i
  <2> HIDE DEF Bad
  <2> QED BY <1>0, LeastOne
<1>2. j \in 0..Len(q) /\ ~ Fine(j)
  OBVIOUS
<1>c. PICK c : c = ChunkBytes /\ c \in Nat
  BY CreditAssumption
<1>3. j # 0
  <2>1. First(q, 0) = << >>
    BY DEF First
  <2>2. Bytes(First(q, 0)) = 0
    BY <2>1, BytesFew
  <2>3. 0 * ChunkBytes = 0
    BY CreditAssumption
  <2> QED BY <1>2, <2>2, <2>3
<1>4. PICK i : i = j - 1
  OBVIOUS
<1>5. i \in 0..Len(q) /\ j = i + 1 /\ i \notin Bad /\ i \in Nat /\ j \in 1..Len(q)
  BY <1>1, <1>2, <1>3, <1>4
<1>6. Fine(i)
  BY <1>5
<1>7. PICK a, b, x : a = First(q, i) /\ b = First(q, j) /\ x = q[j]
  OBVIOUS
<1>8. a \in Seq(Chunk) /\ Len(a) = i /\ (\A h \in 1..i : a[h] = q[h]) /\ x \in Chunk
  <2>0. i \in 0..Len(q)
    BY <1>5
  <2>a. a = First(q, i)
    BY <1>7
  <2>1. a \in Seq(Chunk) /\ Len(a) = i /\ \A h \in 1..i : a[h] = q[h]
    BY ONLY <2>0, <2>a, q \in Seq(Chunk), Parts
  <2>2. x \in Chunk
    BY <1>5, <1>7
  <2> QED BY <2>1, <2>2
<1>9. b \in Seq(Chunk) /\ Len(b) = j /\ \A h \in 1..j : b[h] = q[h]
  BY <1>2, <1>7, Parts
<1>10. b = Append(a, x)
  <2>1. PICK d : d = Append(a, x)
    OBVIOUS
  <2>2. d \in Seq(Chunk) /\ Len(d) = j /\ d[j] = x /\ \A h \in 1..i : d[h] = a[h]
    BY <1>5, <1>8, <2>1
  <2>3. ASSUME NEW h \in 1..j PROVE b[h] = d[h]
    <3>1. h \in 1..i \/ h = j
      BY <1>5
    <3> QED BY <1>7, <1>8, <1>9, <2>2, <3>1
  <2>4. j \in Nat
    BY <1>5
  <2>5. b = d
    BY ONLY <1>9, <2>2, <2>3, <2>4
  <2> QED BY <2>1, <2>5
<1>11. Bytes(b) = Bytes(a) + x.n /\ x.n \in 1..c
  BY <1>8, <1>10, <1>c, BytesAppend, ChunksSized DEF Chunk
<1>12. PICK m, n, l : m = Bytes(a) /\ n = Bytes(b) /\ l = x.n
  OBVIOUS
<1>13. m \in i..(i * c)
  BY <1>6, <1>7, <1>12, <1>c
<1>14. n = m + l /\ l \in 1..c
  BY <1>11, <1>12
<1>15. i * c \in Nat /\ j * c = (i * c) + c
  BY ONLY <1>5, <1>c
<1>16. PICK y, z : y = i * c /\ z = j * c
  OBVIOUS
<1>17. n \in j..z
  <2>1. i \in Nat /\ j = i + 1 /\ y \in Nat /\ z = y + c /\ m \in i..y
    BY <1>5, <1>13, <1>15, <1>16
  <2> QED BY ONLY <2>1, <1>14, <1>c
<1> QED BY <1>2, <1>7, <1>12, <1>16, <1>17, <1>c

(* No frame is empty, so a socket with nothing to send holds none. *)
LEMMA EmptyIs ==
  ASSUME NEW w \in Seq(Frame)
  PROVE  Bytes(w) = 0 <=> Len(w) = 0
<1>1. CASE w = << >>
  BY <1>1, BytesFew
<1>2. CASE w # << >>
  <2>1. Bytes(w) = Head(w).n + Bytes(Tail(w)) /\ Bytes(Tail(w)) \in Nat
    BY <1>2, BytesTail, ChunksSized
  <2>2. Head(w) \in Frame
    BY <1>2
  <2>3. PICK a, b : a = Head(w).n /\ b = Bytes(Tail(w))
    OBVIOUS
  <2>4. a >= 1 /\ a \in Nat /\ b \in Nat
    BY <2>1, <2>2, <2>3, CreditAssumption DEF Frame
  <2>5. a + b # 0
    BY ONLY <2>4
  <2>6. Len(w) # 0
    BY <1>2
  <2> QED BY <2>1, <2>3, <2>5, <2>6
<1> QED BY <1>1, <1>2

(* The beginning of two queues that follow each other. *)
LEMMA FirstConcat ==
  ASSUME NEW S, NEW p \in Seq(S), NEW r \in Seq(S), NEW i \in 0..Len(p)
  PROVE  First(p \o r, i) = First(p, i)
<1>1. PICK q, n : q = p \o r /\ n = Len(p)
  OBVIOUS
<1>2. q \in Seq(S) /\ Len(q) = n + Len(r) /\ Len(r) \in Nat /\ n \in Nat /\ \A j \in 1..n : q[j] = p[j]
  BY <1>1
<1>3. i \in 0..Len(q) /\ i \in Nat /\ i <= n
  BY <1>1, <1>2
<1>4. PICK a, b : a = First(q, i) /\ b = First(p, i)
  OBVIOUS
<1>5. a \in Seq(S) /\ Len(a) = i /\ \A j \in 1..i : a[j] = q[j]
  BY <1>2, <1>3, <1>4, Parts
<1>6. b \in Seq(S) /\ Len(b) = i /\ \A j \in 1..i : b[j] = p[j]
  BY <1>1, <1>4, Parts
<1>7. \A j \in 1..i : a[j] = b[j]
  <2> SUFFICES ASSUME NEW j \in 1..i PROVE a[j] = b[j]
    OBVIOUS
  <2>1. j \in 1..n
    <3>1. i \in Nat /\ n \in Nat /\ i <= n /\ j \in 1..i
      BY <1>2, <1>3
    <3> QED BY ONLY <3>1
  <2> QED BY <1>2, <1>5, <1>6, <2>1
<1>8. a = b
  BY ONLY <1>3, <1>5, <1>6, <1>7
<1> QED BY <1>1, <1>4, <1>8

(* What a beginning of the wire has is what its head has and what the *)
(* beginning of the others has.                                       *)
LEMMA FirstTail ==
  ASSUME NEW w \in Seq(Frame), w # << >>, NEW i \in 0..Len(Tail(w)), NEW j, j = i + 1
  PROVE  /\ Bytes(First(w, j)) = Head(w).n + Bytes(First(Tail(w), i))
         /\ Bytes(First(Tail(w), i)) \in Nat
<1>1. PICK v, n, a, b : v = Tail(w) /\ n = Len(v) /\ a = First(v, i) /\ b = First(w, j)
  OBVIOUS
<1>2. v \in Seq(Frame) /\ n \in Nat /\ Len(w) = n + 1 /\ Head(w) = w[1] /\ \A l \in 1..n : v[l] = w[l + 1]
  BY <1>1
<1>3. j \in 0..Len(w) /\ i \in Nat /\ i <= n /\ j \in Nat
  BY <1>1, <1>2
<1>4. a \in Seq(Frame) /\ Len(a) = i /\ \A l \in 1..i : a[l] = v[l]
  <2>1. v \in Seq(Frame) /\ i \in 0..Len(v) /\ a = First(v, i)
    BY <1>1, <1>2
  <2> QED BY ONLY <2>1, Parts
<1>5. b \in Seq(Frame) /\ Len(b) = j /\ \A l \in 1..j : b[l] = w[l]
  <2>1. w \in Seq(Frame) /\ j \in 0..Len(w) /\ b = First(w, j)
    BY <1>1, <1>3
  <2> QED BY ONLY <2>1, Parts
<1>6. b # << >> /\ Head(b) = Head(w) /\ Tail(b) \in Seq(Frame) /\ Len(Tail(b)) = i
  <2>1. b # << >>
    BY <1>3, <1>5
  <2>2. Head(b) = b[1] /\ 1 \in 1..j
    BY <1>3, <1>5, <2>1
  <2> QED BY <1>2, <1>3, <1>5, <2>1, <2>2
<1>7. Tail(b) = a
  <2>1. PICK c : c = Tail(b)
    OBVIOUS
  <2>2. ASSUME NEW l \in 1..i PROVE c[l] = a[l]
    <3>1. PICK h : h = l + 1
      OBVIOUS
    <3>2. h \in 1..j /\ l \in 1..n
      <4>1. j = i + 1 /\ i \in Nat /\ n \in Nat /\ i <= n /\ l \in 1..i
        BY <1>2, <1>3
      <4> QED BY ONLY <3>1, <4>1
    <3>3. c[l] = b[h] /\ b[h] = w[h] /\ v[l] = w[h] /\ a[l] = v[l]
      BY <1>2, <1>4, <1>5, <1>6, <2>1, <3>1, <3>2
    <3> QED BY <3>3
  <2>3. c \in Seq(Frame) /\ Len(c) = i
    BY <1>6, <2>1
  <2>4. c = a
    BY ONLY <1>3, <1>4, <2>2, <2>3
  <2> QED BY <2>1, <2>4
<1>8. Bytes(b) = Head(b).n + Bytes(Tail(b)) /\ Bytes(Tail(b)) \in Nat
  BY <1>5, <1>6, BytesTail, ChunksSized
<1> QED BY <1>1, <1>6, <1>7, <1>8

-----------------------------------------------------------------------------
(* What the two ends know of the messages.                                 *)

(* The outstanding messages are those after base, up to n. *)
Numbered(o, base, n) ==
  /\ base <= n /\ Len(o) = n - base
  /\ \A j \in 1..Len(o) : o[j].seq = base + j

(* On the wire are those after l, up to n, and the bytes from e to b. *)
OnWire(w, l, n, e, b) ==
  /\ l + Len(w) = n /\ (\A i \in 1..Len(w) : w[i].seq = l + i)
  /\ e + Bytes(w) = b

(* The outstanding sums are what the client will have consumed. *)
Summed(o, base, w, l, e) ==
  \A i \in 0..Len(w) : l + i > base => o[l + i - base].cum = e + Bytes(First(w, i))

(* The grants on their way, up to that of message r with bytes a. *)
Granting(ts, o, base, known, r, a) ==
  /\ \A i \in 1..Len(ts) :
        /\ base < ts[i].seq /\ ts[i].seq <= r /\ known <= ts[i].credit
        /\ ts[i].credit <= a + Window
        /\ ts[i].credit = o[ts[i].seq - base].cum + Window
  /\ \A i, j \in 1..Len(ts) : i < j => ts[i].seq < ts[j].seq /\ ts[i].credit <= ts[j].credit

(* What is granted is a window beyond what was consumed at the grant, and *)
(* the server knows no later one.                                         *)
Terms(c, cl) ==
  /\ c.consumedSeq <= cl.lastOut - cl.since /\ cl.creditedAt <= cl.consumed
  /\ c.creditBytes <= cl.creditedAt + Window /\ cl.credit = cl.creditedAt + Window

(* What the connection has noted is what the wire carries and what the *)
(* client has counted.                                                 *)
Agreed(c, w, cl, ts) ==
  /\ Numbered(c.outstanding, c.consumedSeq, c.outSeq)
  /\ OnWire(w, cl.lastOut, c.outSeq, cl.consumed, c.sentBytes)
  /\ Summed(c.outstanding, c.consumedSeq, w, cl.lastOut, cl.consumed)
  /\ Granting(ts, c.outstanding, c.consumedSeq, c.creditBytes, cl.lastOut - cl.since, cl.creditedAt)
  /\ Terms(c, cl)

(* The server finds the message of a grant. *)
LEMMA FoundIs ==
  ASSUME NEW o \in Seq(Cum), NEW base \in Nat, NEW n \in Nat, Numbered(o, base, n),
         NEW m \in Nat, base <= m, m <= n
  PROVE  Cardinality({i \in DOMAIN o : o[i].seq <= m}) = m - base
<1>1. PICK k, T, l : k = m - base /\ T = {i \in DOMAIN o : o[i].seq <= m} /\ l = Len(o)
  OBVIOUS
<1>2. k \in Nat /\ l \in Nat /\ k <= l /\ DOMAIN o = 1..l /\ (\A j \in 1..l : o[j].seq = base + j)
  BY <1>1 DEF Numbered
<1>3. T = 1..k
  <2>1. ASSUME NEW i \in T PROVE i \in 1..k
    <3>1. i \in 1..l /\ base + i <= m
      BY <1>1, <1>2
    <3> QED BY <1>1, <1>2, <3>1
  <2>2. ASSUME NEW i \in 1..k PROVE i \in T
    <3>1. i \in 1..l /\ base + i <= m
      BY <1>1, <1>2
    <3>2. o[i].seq <= m
      BY <1>2, <3>1
    <3> QED BY <1>1, <1>2, <3>1, <3>2
  <2> QED BY <2>1, <2>2
<1>4. PICK one : one = 1
  OBVIOUS
<1>5. one \in Int /\ k \in Int
  BY <1>2, <1>4
<1>6. Cardinality(one..k) = IF one > k THEN 0 ELSE k - one + 1
  BY ONLY <1>5, FS_Interval
<1>7. Cardinality(one..k) = k
  BY ONLY <1>2, <1>4, <1>6
<1> QED BY <1>1, <1>3, <1>4, <1>7

(* Two sequences, one behind the other. *)
LEMMA Behind ==
  ASSUME NEW S, NEW p \in Seq(S), NEW q \in Seq(S), NEW r, r = p \o q, NEW l, l = Len(p), NEW k, k = Len(q)
  PROVE  /\ r \in Seq(S) /\ Len(r) = l + k /\ l \in Nat /\ k \in Nat
         /\ \A i \in 1..l : r[i] = p[i]
         /\ \A i \in 1..k : r[l + i] = q[i]
BY Concat

(* More messages are sent: they are numbered on ... *)
LEMMA NumberedMore ==
  ASSUME NEW o \in Seq(Cum), NEW base \in Nat, NEW n \in Nat, Numbered(o, base, n),
         NEW p \in Seq(Cum), NEW k \in Nat, k = Len(p), \A j \in 1..k : p[j].seq = n + j
  PROVE  Numbered(o \o p, base, n + k)
<1>1. PICK q, l : q = o \o p /\ l = Len(o)
  OBVIOUS
<1>2. base <= n /\ l = n - base /\ l \in Nat /\ \A j \in 1..l : o[j].seq = base + j
  BY <1>1 DEF Numbered
<1>3. Len(q) = l + k /\ (\A j \in 1..l : q[j] = o[j]) /\ \A j \in 1..k : q[l + j] = p[j]
  BY ONLY <1>1, o \in Seq(Cum), p \in Seq(Cum), k = Len(p), Behind
<1>4. ASSUME NEW j \in 1..(l + k) PROVE q[j].seq = base + j
  <2>1. CASE j <= l
    <3>1. j \in 1..l
      BY <1>2, <2>1
    <3> QED BY <1>2, <1>3, <3>1
  <2>2. CASE ~ (j <= l)
    <3>1. PICK h : h = j - l
      OBVIOUS
    <3>2. h \in 1..k /\ l + h = j /\ n + h = base + j
      BY <1>2, <2>2, <3>1
    <3>3. q[j] = p[h] /\ p[h].seq = n + h
      BY <1>3, <3>2
    <3> QED BY <3>2, <3>3
  <2> QED BY <2>1, <2>2
<1>5. base <= n + k /\ l + k = (n + k) - base
  BY <1>2
<1> QED BY <1>1, <1>3, <1>4, <1>5 DEF Numbered

(* ... they are on the wire ... *)
LEMMA OnWireMore ==
  ASSUME NEW w \in Seq(Frame), NEW l \in Nat, NEW n \in Nat, NEW e \in Nat, NEW b \in Nat,
         OnWire(w, l, n, e, b), NEW f \in Seq(Frame), NEW k \in Nat, k = Len(f),
         \A j \in 1..k : f[j].seq = n + j
  PROVE  OnWire(w \o f, l, n + k, e, b + Bytes(f))
<1>1. PICK q, m : q = w \o f /\ m = Len(w)
  OBVIOUS
<1>2. l + m = n /\ m \in Nat /\ (\A j \in 1..m : w[j].seq = l + j) /\ e + Bytes(w) = b
  BY <1>1 DEF OnWire
<1>3. Len(q) = m + k /\ (\A j \in 1..m : q[j] = w[j]) /\ \A j \in 1..k : q[m + j] = f[j]
  BY ONLY <1>1, w \in Seq(Frame), f \in Seq(Frame), k = Len(f), Behind
<1>4. ASSUME NEW j \in 1..(m + k) PROVE q[j].seq = l + j
  <2>1. CASE j <= m
    <3>1. j \in 1..m
      BY <1>2, <2>1
    <3> QED BY <1>2, <1>3, <3>1
  <2>2. CASE ~ (j <= m)
    <3>1. PICK h : h = j - m
      OBVIOUS
    <3>2. h \in 1..k /\ m + h = j /\ n + h = l + j
      BY <1>2, <2>2, <3>1
    <3>3. q[j] = f[h] /\ f[h].seq = n + h
      BY <1>3, <3>2
    <3> QED BY <3>2, <3>3
  <2> QED BY <2>1, <2>2
<1>5. PICK x, y, z : x = Bytes(w) /\ y = Bytes(f) /\ z = Bytes(q)
  OBVIOUS
<1>6. x \in Nat /\ y \in Nat /\ z = x + y
  BY <1>1, <1>5, ChunksSized, BytesNat, BytesConcat
<1>7. e + z = b + y
  <2>1. e + x = b
    BY <1>2, <1>5
  <2> QED BY ONLY <2>1, <1>6, e \in Nat, b \in Nat
<1>8. l + (m + k) = n + k
  BY <1>2
<1> QED BY <1>1, <1>3, <1>4, <1>5, <1>7, <1>8 DEF OnWire

(* ... and their sums are noted. *)
LEMMA SummedMore ==
  ASSUME NEW o \in Seq(Cum), NEW base \in Nat, NEW n \in Nat, Numbered(o, base, n),
         NEW w \in Seq(Frame), NEW l \in Nat, NEW e \in Nat, NEW b \in Nat,
         OnWire(w, l, n, e, b), Summed(o, base, w, l, e), base <= l,
         NEW f \in Seq(Frame), NEW p \in Seq(Cum), NEW k \in Nat, k = Len(f), k = Len(p),
         \A h \in 1..k : p[h].cum = b + Bytes(First(f, h))
  PROVE  Summed(o \o p, base, w \o f, l, e)
<1>1. PICK q, v, s, m : q = o \o p /\ v = w \o f /\ s = Len(o) /\ m = Len(w)
  OBVIOUS
<1>2. s = n - base /\ s \in Nat /\ l + m = n /\ m \in Nat /\ e + Bytes(w) = b
  BY <1>1 DEF Numbered, OnWire
<1>3. Len(q) = s + k /\ (\A j \in 1..s : q[j] = o[j]) /\ \A j \in 1..k : q[s + j] = p[j]
  BY ONLY <1>1, o \in Seq(Cum), p \in Seq(Cum), k = Len(p), Behind
<1>4. v \in Seq(Frame) /\ Len(v) = m + k
  BY ONLY <1>1, w \in Seq(Frame), f \in Seq(Frame), k = Len(f), Behind
<1>5. ASSUME NEW i \in 0..(m + k), l + i > base PROVE q[l + i - base].cum = e + Bytes(First(v, i))
  <2>1. PICK j : j = l + i - base
    OBVIOUS
  <2>2. CASE i <= m
    <3>1. i \in 0..m /\ j \in 1..s
      BY SMTT(30), <1>2, <1>5, <2>1, <2>2
    <3>2. First(v, i) = First(w, i)
      <4>1. i \in 0..Len(w)
        BY <1>1, <3>1
      <4>2. First(w \o f, i) = First(w, i)
        BY ONLY <4>1, w \in Seq(Frame), f \in Seq(Frame), FirstConcat
      <4> QED BY <1>1, <4>2
    <3>3. o[j].cum = e + Bytes(First(w, i))
      BY <1>1, <1>5, <2>1, <3>1 DEF Summed
    <3> QED BY <1>3, <2>1, <3>1, <3>2, <3>3
  <2>3. CASE ~ (i <= m)
    <3>1. PICK h : h = i - m
      OBVIOUS
    <3>2. h \in 1..k /\ j = s + h /\ i = m + h
      BY <1>2, <1>5, <2>1, <2>3, <3>1
    <3>3. q[j] = p[h] /\ p[h].cum = b + Bytes(First(f, h))
      BY <1>3, <3>2
    <3>4. PICK x, y, a : x = First(v, i) /\ y = First(f, h) /\ a = w \o y
      OBVIOUS
    <3>5. y \in Seq(Frame) /\ h = Len(y) /\ \A t \in 1..h : y[t] = f[t]
      <4>1. h \in 0..Len(f)
        BY <3>2
      <4> QED BY ONLY <4>1, <3>4, f \in Seq(Frame), Parts
    <3>6. x \in Seq(Frame) /\ Len(x) = i /\ \A t \in 1..i : x[t] = v[t]
      <4>1. i \in 0..Len(v)
        BY <1>4
      <4> QED BY ONLY <4>1, <1>4, <3>4, Parts
    <3>7. a \in Seq(Frame) /\ Len(a) = m + h /\ (\A t \in 1..m : a[t] = w[t]) /\ \A t \in 1..h : a[m + t] = y[t]
      <4>1. a = w \o y /\ y \in Seq(Frame) /\ h = Len(y) /\ m = Len(w)
        BY <1>1, <3>4, <3>5
      <4> QED BY ONLY <4>1, w \in Seq(Frame), Behind
    <3>8. (\A t \in 1..m : v[t] = w[t]) /\ \A t \in 1..k : v[m + t] = f[t]
      BY ONLY <1>1, w \in Seq(Frame), f \in Seq(Frame), k = Len(f), Behind
    <3>9. ASSUME NEW t \in 1..i PROVE x[t] = a[t]
      <4>1. CASE t <= m
        <5>1. t \in 1..m
          BY <1>2, <4>1
        <5> QED BY <3>6, <3>7, <3>8, <5>1
      <4>2. CASE ~ (t <= m)
        <5>1. PICK u : u = t - m
          OBVIOUS
        <5>2. u \in 1..h /\ u \in 1..k /\ t = m + u
          BY <1>2, <3>2, <4>2, <5>1
        <5>3. x[t] = v[t] /\ v[t] = f[u]
          BY ONLY <3>6, <3>8, <5>2, t \in 1..i
        <5>4. a[t] = y[u] /\ y[u] = f[u]
          BY ONLY <3>5, <3>7, <5>2
        <5> QED BY <5>3, <5>4
      <4> QED BY <4>1, <4>2
    <3>10. x = a
      <4>1. i \in Nat /\ Len(a) = i
        BY <1>2, <3>2, <3>7
      <4> QED BY ONLY <4>1, <3>6, <3>7, <3>9
    <3>11. PICK bx, bw, by : bx = Bytes(x) /\ bw = Bytes(w) /\ by = Bytes(y)
      OBVIOUS
    <3>12. bx = bw + by /\ bw \in Nat /\ by \in Nat
      BY <3>4, <3>5, <3>10, <3>11, ChunksSized, BytesNat, BytesConcat
    <3>13. b + by = e + bx
      <4>1. e + bw = b
        BY <1>2, <3>11
      <4> QED BY ONLY <4>1, <3>12, e \in Nat, b \in Nat
    <3> QED BY <2>1, <3>3, <3>4, <3>11, <3>13
  <2> QED BY <2>2, <2>3
<1> QED BY <1>1, <1>4, <1>5 DEF Summed

(* The grants on their way are of messages that were sent before. *)
LEMMA GrantingMore ==
  ASSUME NEW o \in Seq(Cum), NEW base \in Nat, NEW n \in Nat, Numbered(o, base, n),
         NEW p \in Seq(Cum), NEW ts \in Seq(Grant), NEW known, NEW r \in Int, NEW a, r <= n,
         Granting(ts, o, base, known, r, a)
  PROVE  Granting(ts, o \o p, base, known, r, a)
<1>1. PICK q, s : q = o \o p /\ s = Len(o)
  OBVIOUS
<1>2. s = n - base /\ s \in Nat
  BY <1>1 DEF Numbered
<1>3. \A j \in 1..s : q[j] = o[j]
  BY ONLY <1>1, o \in Seq(Cum), p \in Seq(Cum), Concat
<1>4. ASSUME NEW i \in 1..Len(ts) PROVE q[ts[i].seq - base] = o[ts[i].seq - base]
  <2>1. PICK x : x = ts[i].seq
    OBVIOUS
  <2>t. ts[i] \in Grant
    OBVIOUS
  <2>2. x \in Nat /\ base < x /\ x <= r
    BY <2>1, <2>t DEF Granting, Grant
  <2>3. x - base \in 1..s
    BY <1>2, <2>2
  <2> QED BY <1>3, <2>1, <2>3
<1> QED BY <1>1, <1>4 DEF Granting

(* The frames that are sent have the bytes of the chunks they carry. *)
LEMMA FramesFirst ==
  ASSUME NEW c, ConnOK(c), NEW k \in 0..Len(c.pendingOut), NEW h \in 1..k
  PROVE  Bytes(First(Frames(c, k), h)) = Bytes(First(c.pendingOut, h))
<1>1. PICK f, q : f = Frames(c, k) /\ q = c.pendingOut
  OBVIOUS
<1>2. q \in Seq(Chunk)
  BY <1>1 DEF ConnOK
<1>3. f \in Seq(Frame) /\ Len(f) = k /\ \A i \in 1..k : f[i].n = q[i].n
  <2>1. /\ Frames(c, k) \in Seq(Frame) /\ Len(Frames(c, k)) = k
        /\ \A i \in 1..k : Frames(c, k)[i] = [seq |-> c.outSeq + i, n |-> c.pendingOut[i].n, from |-> c.pendingOut[i].from]
    BY FramesAre
  <2> QED BY <1>1, <2>1
<1>4. PICK a, b : a = First(f, h) /\ b = First(q, h)
  OBVIOUS
<1>5. h \in 0..Len(f) /\ h \in 0..Len(q) /\ h \in Nat
  BY <1>1, <1>3
<1>6. a \in Seq(Frame) /\ Len(a) = h /\ \A i \in 1..h : a[i] = f[i]
  <2>1. h \in 0..Len(f) /\ f \in Seq(Frame)
    BY <1>3, <1>5
  <2> QED BY ONLY <1>4, <2>1, Parts
<1>7. b \in Seq(Chunk) /\ Len(b) = h /\ \A i \in 1..h : b[i] = q[i]
  <2>1. h \in 0..Len(q)
    BY <1>5
  <2> QED BY ONLY <1>2, <1>4, <2>1, Parts
<1>8. \A i \in 1..Len(a) : a[i].n = b[i].n
  <2> SUFFICES ASSUME NEW i \in 1..h PROVE a[i].n = b[i].n
    BY <1>6
  <2>1. i \in 1..k
    BY <1>5
  <2> QED BY <1>3, <1>6, <1>7, <2>1
<1>9. Len(a) = Len(b)
  BY <1>6, <1>7
<1>10. Bytes(a) = Bytes(b)
  BY ONLY <1>6, <1>7, <1>8, <1>9, ChunksSized, BytesSame
<1> QED BY <1>1, <1>4, <1>10

(* _flush leaves the two ends agreed. *)
LEMMA FlushAgrees ==
  ASSUME NEW c, ConnOK(c), NEW w, WireOK(w), NEW k, NEW d, NEW v, Sends(c, w, k, d, v),
         NEW cl, ClientOK(cl), NEW ts \in Seq(Grant), Agreed(c, w, cl, ts)
  PROVE  Agreed(d, v, cl, ts)
<1>1. PICK o, base, n, l, e, b :
        /\ o = c.outstanding /\ base = c.consumedSeq /\ n = c.outSeq
        /\ l = cl.lastOut /\ e = cl.consumed /\ b = c.sentBytes
  OBVIOUS
<1>2. PICK f, p, r, a, x : /\ f = Frames(c, k) /\ p = Cumulated(c, k) /\ x = Bytes(First(c.pendingOut, k))
                           /\ r = cl.lastOut - cl.since /\ a = cl.creditedAt
  OBVIOUS
<1>3. k \in 0..Len(c.pendingOut) /\ k \in Nat
  BY DEF Sends, ConnOK
<1>4. /\ o \in Seq(Cum) /\ base \in Nat /\ n \in Nat /\ l \in Nat /\ e \in Nat /\ b \in Nat
      /\ w \in Seq(Frame) /\ r \in Int /\ r <= l /\ base <= r
  <2>1. o \in Seq(Cum) /\ base \in Nat /\ n \in Nat /\ b \in Nat
    BY <1>1 DEF ConnOK
  <2>2. l \in Nat /\ e \in Nat /\ cl.since \in Nat
    BY <1>1 DEF ClientOK
  <2>3. w \in Seq(Frame)
    BY DEF WireOK
  <2>4. base <= r
    BY <1>1, <1>2 DEF Agreed, Terms
  <2>5. r \in Int /\ r <= l
    BY <1>1, <1>2, <2>2
  <2> QED BY <2>1, <2>2, <2>3, <2>4, <2>5
<1>5. /\ Numbered(o, base, n) /\ OnWire(w, l, n, e, b) /\ Summed(o, base, w, l, e)
      /\ Granting(ts, o, base, c.creditBytes, r, a)
  BY <1>1, <1>2 DEF Agreed
<1>6. /\ f \in Seq(Frame) /\ p \in Seq(Cum) /\ k = Len(f) /\ k = Len(p) /\ Bytes(f) = x
      /\ \A i \in 1..k : f[i].seq = n + i /\ p[i].seq = n + i /\ p[i].cum = b + Bytes(First(c.pendingOut, i))
  <2>1. /\ Frames(c, k) \in Seq(Frame) /\ Len(Frames(c, k)) = k
        /\ Bytes(Frames(c, k)) = Bytes(First(c.pendingOut, k))
        /\ Cumulated(c, k) \in Seq(Cum) /\ Len(Cumulated(c, k)) = k
        /\ \A i \in 1..k : /\ Frames(c, k)[i] = [seq |-> c.outSeq + i, n |-> c.pendingOut[i].n, from |-> c.pendingOut[i].from]
                           /\ Cumulated(c, k)[i] = [seq |-> c.outSeq + i, cum |-> c.sentBytes + Bytes(First(c.pendingOut, i))]
    BY <1>3, FramesAre
  <2> QED BY <1>1, <1>2, <2>1
<1>7. \A h \in 1..k : p[h].cum = b + Bytes(First(f, h))
  <2> SUFFICES ASSUME NEW h \in 1..k PROVE p[h].cum = b + Bytes(First(f, h))
    OBVIOUS
  <2>1. Bytes(First(f, h)) = Bytes(First(c.pendingOut, h))
    BY <1>2, <1>3, FramesFirst
  <2> QED BY <1>6, <2>1
<1>8. l <= n /\ base <= l
  <2>1. l + Len(w) = n /\ Len(w) \in Nat
    BY <1>4, <1>5 DEF OnWire
  <2> QED BY <1>4, <2>1
<1>9. (\A i \in 1..k : f[i].seq = n + i) /\ \A i \in 1..k : p[i].seq = n + i
  BY <1>6
<1>10. Numbered(o \o p, base, n + k)
  BY ONLY <1>3, <1>4, <1>5, <1>6, <1>9, NumberedMore
<1>11. OnWire(w \o f, l, n + k, e, b + Bytes(f))
  BY ONLY <1>3, <1>4, <1>5, <1>6, <1>9, OnWireMore
<1>12. Summed(o \o p, base, w \o f, l, e)
  <2>1. /\ o \in Seq(Cum) /\ base \in Nat /\ n \in Nat /\ w \in Seq(Frame) /\ l \in Nat /\ e \in Nat
        /\ b \in Nat /\ base <= l /\ Numbered(o, base, n) /\ OnWire(w, l, n, e, b)
        /\ Summed(o, base, w, l, e)
    BY <1>4, <1>5, <1>8
  <2>2. f \in Seq(Frame) /\ p \in Seq(Cum) /\ k \in Nat /\ k = Len(f) /\ k = Len(p)
    BY <1>3, <1>6
  <2> QED BY ONLY <1>7, <2>1, <2>2, SummedMore, ZenonT(60)
<1>13. r <= n
  BY <1>4, <1>8
<1>14. Granting(ts, o \o p, base, c.creditBytes, r, a)
  BY ONLY <1>4, <1>5, <1>6, <1>13, ts \in Seq(Grant), GrantingMore
<1>15. /\ d.outstanding = o \o p /\ d.consumedSeq = base /\ d.outSeq = n + k /\ v = w \o f
       /\ d.sentBytes = b + Bytes(f) /\ d.creditBytes = c.creditBytes
  BY <1>1, <1>2, <1>6 DEF Sends
<1>16. Terms(d, cl)
  BY <1>1, <1>15 DEF Agreed, Terms
<1> QED BY <1>1, <1>2, <1>10, <1>11, <1>12, <1>14, <1>15, <1>16 DEF Agreed

(* Only some of the connection's fields are looked at. *)
LEMMA AgreedSame ==
  ASSUME NEW c, NEW w, NEW cl, NEW ts, Agreed(c, w, cl, ts), NEW d,
         d.outstanding = c.outstanding, d.consumedSeq = c.consumedSeq, d.outSeq = c.outSeq,
         d.sentBytes = c.sentBytes, d.creditBytes = c.creditBytes
  PROVE  Agreed(d, w, cl, ts)
BY DEF Agreed, Terms

(* A sequence without its head. *)
LEMMA TailIs ==
  ASSUME NEW S, NEW q \in Seq(S), q # << >>, NEW r, r = Tail(q), NEW l, l = Len(r)
  PROVE  /\ r \in Seq(S) /\ l \in Nat /\ Len(q) = l + 1 /\ Head(q) = q[1] /\ Head(q) \in S
         /\ \A i \in 1..l : r[i] = q[i + 1]
OBVIOUS

(* The client takes a message: the others are on the wire still ... *)
LEMMA OnWireLess ==
  ASSUME NEW w \in Seq(Frame), w # << >>, NEW l \in Nat, NEW n \in Nat, NEW e \in Nat, NEW b \in Nat,
         OnWire(w, l, n, e, b), NEW x, x = Head(w).n
  PROVE  /\ Head(w).seq = l + 1 /\ x \in 1..ChunkBytes /\ OnWire(Tail(w), l + 1, n, e + x, b)
         /\ l + 1 <= n /\ e + x <= b /\ (l + 1 = n <=> e + x = b)
<1>1. PICK v, m, y, z : v = Tail(w) /\ m = Len(v) /\ y = Bytes(w) /\ z = Bytes(v)
  OBVIOUS
<1>2. v \in Seq(Frame) /\ m \in Nat /\ Len(w) = m + 1 /\ Head(w) = w[1] /\ Head(w) \in Frame
      /\ \A i \in 1..m : v[i] = w[i + 1]
  BY ONLY <1>1, w \in Seq(Frame), w # << >>, TailIs
<1>3. l + (m + 1) = n /\ (\A i \in 1..(m + 1) : w[i].seq = l + i) /\ e + y = b
  BY <1>1, <1>2 DEF OnWire
<1>4. x \in 1..ChunkBytes /\ x \in Nat /\ x # 0
  BY <1>2, CreditAssumption DEF Frame
<1>5. y = x + z /\ z \in Nat
  BY <1>1, BytesTail, ChunksSized
<1>6. ASSUME NEW i \in 1..m PROVE v[i].seq = (l + 1) + i
  <2>1. i + 1 \in 1..(m + 1) /\ l + (i + 1) = (l + 1) + i
    BY <1>2
  <2> QED BY <1>2, <1>3, <2>1
<1>7. (l + 1) + m = n /\ (e + x) + z = b
  <2>1. l + (m + 1) = n /\ e + y = b
    BY <1>3
  <2> QED BY ONLY <2>1, <1>2, <1>4, <1>5, l \in Nat, e \in Nat, n \in Nat, b \in Nat
<1>8. Head(w).seq = l + 1
  <2>1. 1 \in 1..(m + 1)
    BY <1>2
  <2> QED BY <1>2, <1>3, <2>1
<1>9. z = 0 <=> m = 0
  BY <1>1, <1>2, EmptyIs
<1>10. l + 1 <= n /\ e + x <= b /\ (l + 1 = n <=> e + x = b)
  BY ONLY <1>2, <1>4, <1>5, <1>7, <1>9, l \in Nat, e \in Nat, n \in Nat, b \in Nat
<1>11. OnWire(v, l + 1, n, e + x, b)
  BY <1>1, <1>6, <1>7 DEF OnWire
<1> QED BY <1>1, <1>4, <1>8, <1>10, <1>11

(* ... and their sums are those noted. *)
LEMMA SummedLess ==
  ASSUME NEW o \in Seq(Cum), NEW base \in Nat, NEW w \in Seq(Frame), w # << >>, NEW l \in Nat,
         NEW e \in Nat, Summed(o, base, w, l, e), base <= l, NEW x, x = Head(w).n
  PROVE  /\ Summed(o, base, Tail(w), l + 1, e + x)
         /\ o[l + 1 - base].cum = e + x
<1>1. PICK v, m : v = Tail(w) /\ m = Len(v)
  OBVIOUS
<1>2. v \in Seq(Frame) /\ m \in Nat /\ Len(w) = m + 1 /\ Head(w) \in Frame
  BY ONLY <1>1, w \in Seq(Frame), w # << >>, TailIs
<1>3. x \in Nat
  BY <1>2, CreditAssumption DEF Frame
<1>4. ASSUME NEW i \in 0..m PROVE o[(l + 1) + i - base].cum = (e + x) + Bytes(First(v, i))
  <2>1. PICK j : j = i + 1
    OBVIOUS
  <2>2. j \in 0..Len(w) /\ l + j > base /\ l + j - base = (l + 1) + i - base
    BY <1>2, <2>1
  <2>3. o[l + j - base].cum = e + Bytes(First(w, j))
    BY <2>2 DEF Summed
  <2>4. i \in 0..Len(Tail(w))
    BY <1>1
  <2>5. Bytes(First(w, j)) = Head(w).n + Bytes(First(Tail(w), i)) /\ Bytes(First(Tail(w), i)) \in Nat
    BY ONLY <2>1, <2>4, w \in Seq(Frame), w # << >>, FirstTail
  <2>6. PICK y, z : y = Bytes(First(w, j)) /\ z = Bytes(First(v, i))
    OBVIOUS
  <2>7. y = x + z /\ z \in Nat
    BY <1>1, <2>5, <2>6
  <2>8. e + y = (e + x) + z
    BY ONLY <2>7, <1>3, e \in Nat
  <2> QED BY <2>2, <2>3, <2>6, <2>8
<1>5. o[l + 1 - base].cum = e + x
  <2>1. 0 \in 0..m /\ (l + 1) + 0 - base = l + 1 - base
    BY <1>2
  <2>2. Bytes(First(v, 0)) = 0
    <3>1. First(v, 0) = << >>
      BY <1>2 DEF First
    <3> QED BY <3>1, BytesFew
  <2>3. o[(l + 1) + 0 - base].cum = (e + x) + Bytes(First(v, 0))
    BY <1>4, <2>1
  <2> QED BY <1>3, <2>1, <2>2, <2>3
<1> QED BY <1>1, <1>4, <1>5 DEF Summed

(* The client has consumed more than when it granted. *)
LEMMA GrantingLater ==
  ASSUME NEW ts \in Seq(Grant), NEW o, NEW base, NEW known, NEW r \in Int, NEW a \in Nat,
         Granting(ts, o, base, known, r, a), NEW s \in Int, r <= s, NEW z \in Nat, a <= z
  PROVE  Granting(ts, o, base, known, s, z)
<1>1. ASSUME NEW i \in 1..Len(ts) PROVE ts[i].seq <= s /\ ts[i].credit <= z + Window
  <2>1. ts[i].seq <= r /\ ts[i].credit <= a + Window
    BY DEF Granting
  <2>t. ts[i] \in Grant
    OBVIOUS
  <2>2. ts[i].seq \in Nat /\ ts[i].credit \in Nat
    BY <2>t DEF Grant
  <2>3. PICK p, q : p = ts[i].seq /\ q = ts[i].credit
    OBVIOUS
  <2>4. p <= r /\ q <= a + Window /\ p \in Nat /\ q \in Nat /\ Window \in Nat
    BY <2>1, <2>2, <2>3, CreditAssumption
  <2>5. p <= s /\ q <= z + Window
    BY ONLY <2>4, r \in Int, s \in Int, r <= s, a \in Nat, z \in Nat, a <= z
  <2> QED BY <2>3, <2>5
<1> QED BY <1>1 DEF Granting

(* It grants again. *)
LEMMA GrantingAppend ==
  ASSUME NEW ts \in Seq(Grant), NEW o, NEW base \in Nat, NEW known \in Nat, NEW r \in Int, NEW a \in Nat,
         Granting(ts, o, base, known, r, a), NEW s \in Nat, r < s, base <= r, NEW z \in Nat, a <= z,
         NEW y, y = z + Window, known <= a + Window, y = o[s - base].cum + Window,
         NEW g, g = [seq |-> s, credit |-> y]
  PROVE  Granting(Append(ts, g), o, base, known, s, z)
<1>1. PICK q, l : q = Append(ts, g) /\ l = Len(ts)
  OBVIOUS
<1>2. y \in Nat /\ base < s /\ known <= y /\ y <= z + Window /\ r <= s
  <2>1. Window \in Nat
    BY CreditAssumption
  <2> QED BY ONLY <2>1, base \in Nat, known \in Nat, r \in Int, a \in Nat, s \in Nat, z \in Nat, y = z + Window,
             r < s, base <= r, a <= z, known <= a + Window
<1>3. g \in Grant
  BY <1>2 DEF Grant
<1>4. q \in Seq(Grant) /\ l \in Nat /\ Len(q) = l + 1 /\ q[l + 1] = g /\ \A i \in 1..l : q[i] = ts[i]
  BY ONLY <1>1, <1>3, ts \in Seq(Grant)
<1>5. ASSUME NEW i \in 1..l
      PROVE  /\ base < ts[i].seq /\ ts[i].seq <= r /\ known <= ts[i].credit /\ ts[i].credit <= a + Window
             /\ ts[i].credit = o[ts[i].seq - base].cum + Window /\ ts[i].seq \in Nat /\ ts[i].credit \in Nat
  <2>t. ts[i] \in Grant
    BY <1>1
  <2> QED BY <1>1, <2>t DEF Granting, Grant
<1>6. ASSUME NEW i \in 1..(l + 1)
      PROVE  /\ base < q[i].seq /\ q[i].seq <= s /\ known <= q[i].credit /\ q[i].credit <= z + Window
             /\ q[i].credit = o[q[i].seq - base].cum + Window
  <2>1. CASE i = l + 1
    <3>1. q[i].seq = s /\ q[i].credit = y
      BY <1>4, <2>1
    <3> QED BY <1>2, <3>1
  <2>2. CASE i # l + 1
    <3>1. i \in 1..l
      BY <1>4, <2>2
    <3>2. PICK t, c : t = ts[i].seq /\ c = ts[i].credit
      OBVIOUS
    <3>3. /\ base < t /\ t <= r /\ known <= c /\ c <= a + Window /\ t \in Nat /\ c \in Nat
          /\ c = o[t - base].cum + Window
      BY <1>5, <3>1, <3>2
    <3>4. q[i].seq = t /\ q[i].credit = c
      BY <1>4, <3>1, <3>2
    <3>5. t <= s /\ c <= z + Window
      <4>1. t <= r /\ c <= a + Window /\ t \in Nat /\ c \in Nat /\ Window \in Nat
        BY <3>3, CreditAssumption
      <4> QED BY ONLY <4>1, r \in Int, s \in Nat, r < s, a \in Nat, z \in Nat, a <= z
    <3> QED BY <3>3, <3>4, <3>5
  <2> QED BY <2>1, <2>2
<1>7. ASSUME NEW i \in 1..(l + 1), NEW j \in 1..(l + 1), i < j
      PROVE  q[i].seq < q[j].seq /\ q[i].credit <= q[j].credit
  <2>1. i \in 1..l
    BY <1>4, <1>7
  <2>2. CASE j = l + 1
    <3>1. q[j].seq = s /\ q[j].credit = y
      BY <1>4, <2>2
    <3>2. PICK t, c : t = ts[i].seq /\ c = ts[i].credit
      OBVIOUS
    <3>3. t <= r /\ c <= a + Window /\ t \in Nat /\ c \in Nat /\ Window \in Nat
      BY <1>5, <2>1, <3>2, CreditAssumption
    <3>4. q[i].seq = t /\ q[i].credit = c
      BY <1>4, <2>1, <3>2
    <3>5. t < s /\ c <= y
      BY ONLY <3>3, r \in Int, s \in Nat, r < s, a \in Nat, z \in Nat, a <= z, y = z + Window
    <3> QED BY <3>1, <3>4, <3>5
  <2>3. CASE j # l + 1
    <3>1. j \in 1..l
      BY <1>4, <2>3
    <3>2. ts[i].seq < ts[j].seq /\ ts[i].credit <= ts[j].credit
      BY <1>1, <1>7, <2>1, <3>1 DEF Granting
    <3> QED BY <1>4, <2>1, <3>1, <3>2
  <2> QED BY <2>2, <2>3
<1> QED BY <1>1, <1>4, <1>6, <1>7 DEF Granting

(* The server takes a grant: what it acknowledges is not outstanding. *)
LEMMA NumberedTake ==
  ASSUME NEW o \in Seq(Cum), NEW base \in Nat, NEW n \in Nat, Numbered(o, base, n),
         NEW k \in 0..Len(o), NEW m, m = base + k
  PROVE  /\ Numbered(After(o, k), m, n)
         /\ \A i \in 1..(n - m) : After(o, k)[i] = o[k + i]
<1>1. PICK q, l : q = After(o, k) /\ l = Len(o)
  OBVIOUS
<1>2. q \in Seq(Cum) /\ Len(q) = l - k /\ \A i \in 1..(l - k) : q[i] = o[k + i]
  BY ONLY <1>1, o \in Seq(Cum), k \in 0..Len(o), Parts
<1>3. base <= n /\ l = n - base /\ l \in Nat /\ k \in Nat /\ k <= l /\ \A j \in 1..l : o[j].seq = base + j
  BY <1>1 DEF Numbered
<1>4. m <= n /\ l - k = n - m /\ m \in Nat
  BY <1>3
<1>5. ASSUME NEW i \in 1..(l - k) PROVE q[i].seq = m + i
  <2>1. k + i \in 1..l /\ base + (k + i) = m + i
    BY <1>3
  <2> QED BY <1>2, <1>3, <2>1
<1> QED BY <1>1, <1>2, <1>4, <1>5 DEF Numbered

(* The sums that stay noted are those of the messages that stay *)
(* outstanding.                                                 *)
LEMMA SummedTake ==
  ASSUME NEW o \in Seq(Cum), NEW base \in Nat, NEW n \in Nat, Numbered(o, base, n),
         NEW w \in Seq(Frame), NEW l \in Nat, NEW e \in Nat, NEW b \in Nat,
         OnWire(w, l, n, e, b), Summed(o, base, w, l, e),
         NEW k \in 0..Len(o), NEW m, m = base + k
  PROVE  Summed(After(o, k), m, w, l, e)
<1>1. PICK q : q = After(o, k)
  OBVIOUS
<1>2. \A i \in 1..(n - m) : q[i] = o[k + i]
  <2>1. /\ Numbered(After(o, k), m, n)
        /\ \A i \in 1..(n - m) : After(o, k)[i] = o[k + i]
    BY ONLY o \in Seq(Cum), base \in Nat, n \in Nat, Numbered(o, base, n), k \in 0..Len(o), m = base + k, NumberedTake
  <2> QED BY <1>1, <2>1
<1>3. l + Len(w) = n /\ Len(w) \in Nat /\ k \in Nat /\ m \in Nat
  BY DEF OnWire
<1>4. ASSUME NEW i \in 0..Len(w), l + i > m PROVE q[l + i - m].cum = e + Bytes(First(w, i))
  <2>1. PICK j : j = l + i - m
    OBVIOUS
  <2>2. j \in 1..(n - m) /\ k + j = l + i - base /\ l + i > base
    BY <1>3, <1>4, <2>1
  <2>3. o[l + i - base].cum = e + Bytes(First(w, i))
    BY <2>2 DEF Summed
  <2>4. q[j] = o[k + j]
    BY <1>2, <2>2
  <2> QED BY <2>1, <2>2, <2>3, <2>4
<1> QED BY <1>1, <1>4 DEF Summed

(* The grants that follow are of messages that stay outstanding. *)
LEMMA GrantingTake ==
  ASSUME NEW o \in Seq(Cum), NEW base \in Nat, NEW n \in Nat, Numbered(o, base, n),
         NEW ts \in Seq(Grant), ts # << >>, NEW known, NEW r \in Int, r <= n, NEW a,
         Granting(ts, o, base, known, r, a), NEW k \in 0..Len(o), NEW m, m = base + k,
         Head(ts).seq = m
  PROVE  Granting(Tail(ts), After(o, k), m, Head(ts).credit, r, a)
<1>1. PICK q, us, l : q = After(o, k) /\ us = Tail(ts) /\ l = Len(us)
  OBVIOUS
<1>2. us \in Seq(Grant) /\ l \in Nat /\ Len(ts) = l + 1 /\ Head(ts) = ts[1] /\ \A i \in 1..l : us[i] = ts[i + 1]
  BY ONLY <1>1, ts \in Seq(Grant), ts # << >>, TailIs
<1>3. \A i \in 1..(n - m) : q[i] = o[k + i]
  <2>1. \A i \in 1..(n - m) : After(o, k)[i] = o[k + i]
    BY ONLY o \in Seq(Cum), base \in Nat, n \in Nat, Numbered(o, base, n), k \in 0..Len(o), m = base + k,
            NumberedTake
  <2> QED BY <1>1, <2>1
<1>4. ASSUME NEW i \in 1..l
      PROVE  /\ m < us[i].seq /\ us[i].seq <= r /\ Head(ts).credit <= us[i].credit /\ us[i].credit <= a + Window
             /\ us[i].credit = q[us[i].seq - m].cum + Window
  <2>1. PICK j : j = i + 1
    OBVIOUS
  <2>2. j \in 1..Len(ts) /\ 1 \in 1..Len(ts) /\ 1 < j /\ us[i] = ts[j]
    BY <1>2, <2>1
  <2>3. ts[1].seq < ts[j].seq /\ ts[1].credit <= ts[j].credit
    BY <2>2 DEF Granting
  <2>4. ts[j].seq <= r /\ ts[j].credit <= a + Window /\ ts[j].credit = o[ts[j].seq - base].cum + Window
    BY <2>2 DEF Granting
  <2>t. ts[j] \in Grant
    BY <2>2
  <2>5. PICK s : s = ts[j].seq
    OBVIOUS
  <2>6. s \in Nat /\ m < s /\ s <= r
    BY <1>2, <2>3, <2>4, <2>5, <2>t DEF Grant
  <2>7. s - m \in 1..(n - m) /\ k + (s - m) = s - base
    BY <2>6
  <2>8. q[s - m] = o[s - base]
    BY <1>3, <2>7
  <2> QED BY <1>2, <2>2, <2>3, <2>4, <2>5, <2>8
<1>5. ASSUME NEW i \in 1..l, NEW j \in 1..l, i < j
      PROVE  us[i].seq < us[j].seq /\ us[i].credit <= us[j].credit
  <2>1. PICK x, y : x = i + 1 /\ y = j + 1
    OBVIOUS
  <2>2. x \in 1..Len(ts) /\ y \in 1..Len(ts) /\ x < y /\ us[i] = ts[x] /\ us[j] = ts[y]
    BY <1>2, <1>5, <2>1
  <2> QED BY <2>2 DEF Granting
<1> QED BY <1>1, <1>4, <1>5 DEF Granting

(* The grants on their way, as the protocol sees them. *)
OnTheirWay(ts) == {[credit |-> m.credit, messages |-> m.seq] : m \in Range(ts)}

(* The first grant is of the oldest message, and the others are of others. *)
LEMMA FirstGrant ==
  ASSUME NEW ts \in Seq(Grant), ts # << >>, NEW o, NEW base, NEW known, NEW r, NEW a,
         Granting(ts, o, base, known, r, a),
         NEW g, g = [credit |-> Head(ts).credit, messages |-> Head(ts).seq]
  PROVE  /\ g \in OnTheirWay(ts) /\ \A h \in OnTheirWay(ts) : g.messages <= h.messages
         /\ OnTheirWay(Tail(ts)) = OnTheirWay(ts) \ {g}
         /\ (OnTheirWay(ts) = {g}) = (Len(ts) = 1)
<1>1. PICK us, l, m : us = Tail(ts) /\ l = Len(us) /\ m = Head(ts)
  OBVIOUS
<1>2. us \in Seq(Grant) /\ l \in Nat /\ Len(ts) = l + 1 /\ m = ts[1] /\ m \in Grant
      /\ \A i \in 1..l : us[i] = ts[i + 1]
  BY ONLY <1>1, ts \in Seq(Grant), ts # << >>, TailIs
<1>3. ASSUME NEW i \in 1..l PROVE m.seq < us[i].seq /\ us[i] \in Grant
  <2>1. i + 1 \in 1..Len(ts) /\ 1 \in 1..Len(ts) /\ 1 < i + 1 /\ us[i] = ts[i + 1]
    BY <1>2
  <2>2. ts[1].seq < ts[i + 1].seq
    BY <2>1 DEF Granting
  <2> QED BY <1>2, <2>1, <2>2
<1>4. Range(us) = {us[i] : i \in 1..l} /\ Range(ts) = {ts[i] : i \in 1..(l + 1)}
  BY <1>1, <1>2 DEF Range
<1>5. Range(ts) = Range(us) \cup {m}
  <2>1. ASSUME NEW x \in Range(ts) PROVE x \in Range(us) \cup {m}
    <3>1. PICK i \in 1..(l + 1) : x = ts[i]
      BY <1>4
    <3>2. CASE i = 1
      BY <1>2, <3>1, <3>2
    <3>3. CASE i # 1
      <4>1. i - 1 \in 1..l /\ (i - 1) + 1 = i
        BY <1>2, <3>3
      <4>2. us[i - 1] = x
        BY <1>2, <3>1, <4>1
      <4> QED BY <1>4, <4>1, <4>2
    <3> QED BY <3>2, <3>3
  <2>2. ASSUME NEW x \in Range(us) PROVE x \in Range(ts)
    <3>1. PICK i \in 1..l : x = us[i]
      BY <1>4
    <3>2. i + 1 \in 1..(l + 1) /\ x = ts[i + 1]
      BY <1>2, <3>1
    <3> QED BY <1>4, <3>2
  <2>3. m \in Range(ts)
    <3>1. 1 \in 1..(l + 1)
      BY <1>2
    <3> QED BY <1>2, <1>4, <3>1
  <2> QED BY <2>1, <2>2, <2>3
<1>6. \A x \in Range(us) : m.seq < x.seq /\ x.seq \in Nat
  BY <1>3, <1>4 DEF Grant
<1>7. PICK A, B : A = OnTheirWay(us) /\ B = OnTheirWay(ts)
  OBVIOUS
<1>8. B = A \cup {g}
  BY <1>1, <1>5, <1>7 DEF OnTheirWay
<1>9. \A h \in A : g.messages < h.messages /\ h.messages \in Nat
  BY <1>1, <1>6, <1>7 DEF OnTheirWay
<1>10. g.messages \in Nat
  BY <1>1, <1>2 DEF Grant
<1>11. g \notin A
  BY <1>9, <1>10
<1>12. \A h \in B : g.messages <= h.messages
  BY <1>8, <1>9, <1>10
<1>13. A = {} <=> l = 0
  <2>1. Range(us) = {} <=> l = 0
    <3>1. CASE l = 0
      <4>1. 1..l = {}
        BY <3>1
      <4> QED BY <1>4, <3>1, <4>1
    <3>2. CASE l # 0
      <4>1. 1 \in 1..l
        BY <1>2, <3>2
      <4>2. us[1] \in Range(us)
        BY <1>4, <4>1
      <4> QED BY <3>2, <4>2
    <3> QED BY <3>1, <3>2
  <2>2. A = {} <=> Range(us) = {}
    BY <1>7 DEF OnTheirWay
  <2> QED BY <2>1, <2>2
<1>14. (B = {g}) = (Len(ts) = 1)
  <2>1. B = {g} <=> A = {}
    BY <1>8, <1>11
  <2>2. Len(ts) = 1 <=> l = 0
    BY <1>2
  <2> QED BY <1>13, <2>1, <2>2
<1> QED BY <1>1, <1>7, <1>8, <1>11, <1>12, <1>14

(* A grant more. *)
LEMMA NewGrant ==
  ASSUME NEW ts \in Seq(Grant), NEW x \in Grant, NEW q, q = Append(ts, x)
  PROVE  OnTheirWay(q) = OnTheirWay(ts) \cup {[credit |-> x.credit, messages |-> x.seq]}
<1>1. PICK l : l = Len(ts)
  OBVIOUS
<1>2. l \in Nat /\ Len(q) = l + 1 /\ q[l + 1] = x /\ (\A i \in 1..l : q[i] = ts[i]) /\ q \in Seq(Grant)
  BY ONLY <1>1, ts \in Seq(Grant), x \in Grant, q = Append(ts, x)
<1>3. Range(ts) = {ts[i] : i \in 1..l} /\ Range(q) = {q[i] : i \in 1..(l + 1)}
  BY <1>1, <1>2 DEF Range
<1>4. Range(q) = Range(ts) \cup {x}
  <2>1. ASSUME NEW y \in Range(q) PROVE y \in Range(ts) \cup {x}
    <3>1. PICK i \in 1..(l + 1) : y = q[i]
      BY <1>3
    <3>2. i \in 1..l \/ i = l + 1
      BY <1>2
    <3> QED BY <1>2, <1>3, <3>1, <3>2
  <2>2. ASSUME NEW y \in Range(ts) PROVE y \in Range(q)
    <3>1. PICK i \in 1..l : y = ts[i]
      BY <1>3
    <3>2. i \in 1..(l + 1) /\ y = q[i]
      BY <1>2, <3>1
    <3> QED BY <1>3, <3>2
  <2>3. x \in Range(q)
    <3>1. l + 1 \in 1..(l + 1)
      BY <1>2
    <3> QED BY <1>2, <1>3, <3>1
  <2> QED BY <2>1, <2>2, <2>3
<1> QED BY <1>4 DEF OnTheirWay

(* What _flush sends is what the protocol's Flush may send. *)
LEMMA FlushMaps ==
  ASSUME NEW c, ConnOK(c), NEW w, WireOK(w), Flush(c, w),
         c.sentBytes = conn.sentBytes, c.outSeq = conn.outSeq,
         Numbered(c.outstanding, c.consumedSeq, c.outSeq)
  PROVE  Protocol!Flush
<1>1. PICK k : Sends(c, w, k, conn', wire')
  BY FlushIs
<1>2. PICK b : b = Bytes(First(c.pendingOut, k))
  OBVIOUS
<1>3. k \in 0..Len(c.pendingOut) /\ k \in Nat /\ c.pendingOut \in Seq(Chunk)
  BY <1>1 DEF Sends, ConnOK
<1>4. b \in k..(k * ChunkBytes)
  BY <1>2, <1>3, BytesBounds
<1>5. PICK n, s, y, z, d, e, f : /\ n = c.outSeq /\ s = c.sentBytes /\ y = c.creditBytes /\ z = c.consumedSeq
                                 /\ d = Len(c.outstanding) /\ e = conn'.sentBytes /\ f = conn'.outSeq
  OBVIOUS
<1>6. /\ n \in Nat /\ s \in Nat /\ y \in Nat /\ z \in Nat /\ d \in Nat /\ d = n - z
      /\ e = s + b /\ f = n + k /\ s + b <= y /\ d + k <= MaxOutstanding
      /\ conn'.creditBytes = y /\ conn'.consumedSeq = z
  BY <1>1, <1>2, <1>5 DEF Sends, ConnOK, Numbered
<1>7. k \in 0..MaxOutstanding /\ e <= y /\ f - z <= MaxOutstanding
  <2>1. MaxOutstanding \in Nat
    BY CreditAssumption
  <2>2. PICK a : a = k * ChunkBytes
    OBVIOUS
  <2>3. k \in Nat /\ n \in Nat /\ z \in Nat /\ d \in Nat /\ d = n - z /\ f = n + k /\ d + k <= MaxOutstanding
    BY <1>3, <1>6
  <2>4. k \in 0..MaxOutstanding /\ f - z <= MaxOutstanding
    BY ONLY <2>1, <2>3
  <2> QED BY <1>6, <2>4
<1>8. PICK t : t = [bytes |-> e, messages |-> f]
  OBVIOUS
<1>9. t = [bytes |-> conn.sentBytes + b, messages |-> conn.outSeq + k] /\ t.bytes <= y /\ t.messages - z <= MaxOutstanding
  BY <1>5, <1>6, <1>7, <1>8
<1> QED BY <1>4, <1>5, <1>6, <1>7, <1>8, <1>9 DEF Protocol!Flush

(* A step that sends nothing. *)
LEMMA StillMaps ==
  ASSUME conn.sentBytes \in Nat, conn.outSeq \in Nat, conn'.sentBytes = conn.sentBytes, conn'.outSeq = conn.outSeq
  PROVE  Protocol!Flush
<1>1. PICK k : k = 0
  OBVIOUS
<1>2. k \in 0..MaxOutstanding /\ k \in k..(k * ChunkBytes) /\ ~ (k > 0)
  BY <1>1, CreditAssumption
<1>3. conn'.sentBytes = conn.sentBytes + k /\ conn'.outSeq = conn.outSeq + k
  BY <1>1
<1> QED BY <1>2, <1>3 DEF Protocol!Flush

(* The two ends stay agreed, and the step is one of the protocol. *)
Accords == Agreed(conn', wire', client', toServer') /\ Protocol!CreditNext

(* What the two ends are. *)
CreditsOK == OutputOK /\ Agreed(conn, wire, client, toServer)

(* A step that concerns no credit. *)
LEMMA StillAccords ==
  ASSUME CreditsOK, conn'.outstanding = conn.outstanding, conn'.consumedSeq = conn.consumedSeq,
         conn'.outSeq = conn.outSeq, conn'.sentBytes = conn.sentBytes,
         conn'.creditBytes = conn.creditBytes, conn'.refused = conn.refused,
         UNCHANGED <<wire, client, toServer>>
  PROVE  Accords
<1>1. Agreed(conn', wire', client', toServer')
  BY AgreedSame DEF CreditsOK
<1>2. conn.sentBytes \in Nat /\ conn.outSeq \in Nat
  BY DEF CreditsOK, OutputOK, ConnOK
<1>3. Protocol!Flush
  BY <1>2, StillMaps
<1>4. Protocol!CreditNext
  BY <1>3 DEF Protocol!CreditNext
<1> QED BY <1>1, <1>4 DEF Accords

(* The same where the connection is the same. *)
LEMMA ConnSame ==
  ASSUME CreditsOK, UNCHANGED <<conn, wire, client, toServer>>
  PROVE  Accords
BY StillAccords

(* The gateway flushes, and nothing else concerns the credits. *)
LEMMA SentAccords ==
  ASSUME CreditsOK, NEW c, ConnOK(c), Flush(c, wire), UNCHANGED <<client, toServer>>,
         c.outstanding = conn.outstanding, c.consumedSeq = conn.consumedSeq, c.outSeq = conn.outSeq,
         c.sentBytes = conn.sentBytes, c.creditBytes = conn.creditBytes, c.refused = conn.refused
  PROVE  Accords
<1>1. WireOK(wire) /\ ClientOK(client) /\ toServer \in Seq(Grant)
  BY DEF CreditsOK, OutputOK
<1>2. Agreed(c, wire, client, toServer)
  BY AgreedSame DEF CreditsOK
<1>3. PICK k : Sends(c, wire, k, conn', wire')
  BY <1>1, FlushIs
<1>4. Agreed(conn', wire', client, toServer)
  BY <1>1, <1>2, <1>3, FlushAgrees
<1>5. Numbered(c.outstanding, c.consumedSeq, c.outSeq)
  BY <1>2 DEF Agreed
<1>6. Protocol!Flush
  BY <1>1, <1>5, FlushMaps
<1>7. conn'.creditBytes = conn.creditBytes /\ conn'.consumedSeq = conn.consumedSeq /\ conn'.refused = conn.refused
  BY <1>3 DEF Sends
<1>8. Protocol!CreditNext
  BY <1>6, <1>7 DEF Protocol!CreditNext
<1> QED BY <1>4, <1>8 DEF Accords

(* The gateway takes a chunk. *)
LEMMA OutputAccords ==
  ASSUME CreditsOK, Output
  PROVE  Accords
<1>1. PICK s : s = Append(conn.pendingOut, Head(toGateway))
  OBVIOUS
<1>2. PICK c : c = [conn EXCEPT !.pendingOut = s]
  OBVIOUS
<1>3. toGateway # << >> /\ UNCHANGED <<client, toServer>>
  BY DEF Output, ends
<1>4. UNCHANGED <<conn, wire>> \/ Flush(c, wire)
  BY <1>1, <1>2 DEF Output
<1>5. CASE UNCHANGED <<conn, wire>>
  BY <1>3, <1>5, ConnSame
<1>6. CASE Flush(c, wire)
  <2>1. DOMAIN conn = ConnFields
    BY DEF CreditsOK, OutputOK, ConnOK
  <2>2. /\ DOMAIN c = ConnFields /\ c.pendingOut = s /\ c.outstanding = conn.outstanding
        /\ c.consumedSeq = conn.consumedSeq /\ c.outSeq = conn.outSeq
        /\ c.sentBytes = conn.sentBytes /\ c.creditBytes = conn.creditBytes
        /\ c.refused = conn.refused /\ c.consumedBytes = conn.consumedBytes
        /\ c.consumedPending = conn.consumedPending /\ c.paused = conn.paused
    BY <1>2, <2>1 DEF ConnFields
  <2>3. s \in Seq(Chunk)
    <3>1. conn.pendingOut \in Seq(Chunk) /\ toGateway \in Seq(Chunk)
      BY DEF CreditsOK, OutputOK, ConnOK
    <3>2. Head(toGateway) \in Chunk
      BY <1>3, <3>1
    <3> QED BY <1>1, <3>1, <3>2
  <2>4. ConnOK(c)
    BY <2>2, <2>3 DEF CreditsOK, OutputOK, ConnOK
  <2> QED BY <1>3, <1>6, <2>2, <2>4, SentAccords
<1> QED BY <1>4, <1>5, <1>6

(* The gateway reports to the worker what it has sent. *)
LEMMA ReportAccords ==
  ASSUME CreditsOK, ReportConsumed
  PROVE  Accords
<1>1. conn' = [conn EXCEPT !.consumedPending = 0] /\ UNCHANGED <<wire, client, toServer>>
  BY DEF ReportConsumed, ends
<1>2. DOMAIN conn = ConnFields
  BY DEF CreditsOK, OutputOK, ConnOK
<1>3. /\ conn'.outstanding = conn.outstanding /\ conn'.consumedSeq = conn.consumedSeq
      /\ conn'.outSeq = conn.outSeq /\ conn'.sentBytes = conn.sentBytes
      /\ conn'.creditBytes = conn.creditBytes /\ conn'.refused = conn.refused
  BY <1>1, <1>2 DEF ConnFields
<1> QED BY <1>1, <1>3, StillAccords

(* The grants behind the first are as they were. *)
LEMMA GrantingRest ==
  ASSUME NEW ts \in Seq(Grant), ts # << >>, NEW us, us = Tail(ts), NEW o, NEW base, NEW known, NEW r, NEW a,
         Granting(ts, o, base, known, r, a)
  PROVE  Granting(us, o, base, known, r, a)
<1>1. PICK l : l = Len(us)
  OBVIOUS
<1>2. us \in Seq(Grant) /\ l \in Nat /\ Len(ts) = l + 1 /\ \A i \in 1..l : us[i] = ts[i + 1]
  BY ONLY <1>1, ts \in Seq(Grant), ts # << >>, us = Tail(ts), TailIs
<1>3. ASSUME NEW i \in 1..l
      PROVE  /\ base < us[i].seq /\ us[i].seq <= r /\ known <= us[i].credit /\ us[i].credit <= a + Window
             /\ us[i].credit = o[us[i].seq - base].cum + Window
  <2>1. i + 1 \in 1..Len(ts) /\ us[i] = ts[i + 1]
    BY <1>2
  <2> QED BY <2>1 DEF Granting
<1>4. ASSUME NEW i \in 1..l, NEW j \in 1..l, i < j
      PROVE  us[i].seq < us[j].seq /\ us[i].credit <= us[j].credit
  <2>1. PICK x, y : x = i + 1 /\ y = j + 1
    OBVIOUS
  <2>2. x \in 1..Len(ts) /\ y \in 1..Len(ts) /\ x < y /\ us[i] = ts[x] /\ us[j] = ts[y]
    BY <1>2, <1>4, <2>1
  <2> QED BY <2>2 DEF Granting
<1> QED BY <1>1, <1>3, <1>4 DEF Granting

(* A grant is refused. *)
LEMMA RefusedAccords ==
  ASSUME CreditsOK, CreditRefused
  PROVE  Accords
<1>1. PICK ts, us, m, last : ts = toServer /\ us = Tail(toServer) /\ m = Head(toServer) /\ last = (Len(toServer) = 1)
  OBVIOUS
<1>2. PICK n : n = conn.strikes + 1
  OBVIOUS
<1>3. /\ ts # << >> /\ toServer' = us /\ UNCHANGED <<wire, client>>
      /\ conn' = [conn EXCEPT !.strikes = n, !.refused = last]
  BY <1>1, <1>2 DEF CreditRefused
<1>4. DOMAIN conn = ConnFields /\ ts \in Seq(Grant)
  BY <1>1 DEF CreditsOK, OutputOK, ConnOK
<1>5. /\ conn'.outstanding = conn.outstanding /\ conn'.consumedSeq = conn.consumedSeq
      /\ conn'.outSeq = conn.outSeq /\ conn'.sentBytes = conn.sentBytes
      /\ conn'.creditBytes = conn.creditBytes /\ conn'.refused = last
  BY <1>3, <1>4 DEF ConnFields
<1>6. PICK o, base, known, r, a : /\ o = conn.outstanding /\ base = conn.consumedSeq /\ known = conn.creditBytes
                                  /\ r = client.lastOut - client.since /\ a = client.creditedAt
  OBVIOUS
<1>7. Granting(ts, o, base, known, r, a)
  BY <1>1, <1>6 DEF CreditsOK, Agreed
<1>8. PICK g : g = [credit |-> m.credit, messages |-> m.seq]
  OBVIOUS
<1>9. /\ g \in OnTheirWay(ts) /\ \A h \in OnTheirWay(ts) : g.messages <= h.messages
      /\ OnTheirWay(us) = OnTheirWay(ts) \ {g}
      /\ (OnTheirWay(ts) = {g}) = last
  BY ONLY <1>1, <1>3, <1>4, <1>7, <1>8, FirstGrant
<1>10. Granting(us, o, base, known, r, a)
  BY <1>1, <1>3, <1>4, <1>7, GrantingRest
<1>11. Agreed(conn', wire', client', toServer')
  BY <1>3, <1>5, <1>6, <1>10 DEF CreditsOK, Agreed, Terms
<1>12. conn.sentBytes \in Nat /\ conn.outSeq \in Nat
  BY DEF CreditsOK, OutputOK, ConnOK
<1>13. Protocol!Flush
  BY <1>5, <1>12, StillMaps
<1>14. PICK G, H : G = OnTheirWay(toServer) /\ H = OnTheirWay(toServer')
  OBVIOUS
<1>15. g \in G /\ H = G \ {g} /\ (\A h \in G : g.messages <= h.messages) /\ conn'.refused = (G = {g})
  BY <1>1, <1>3, <1>5, <1>9, <1>14
<1>16. Protocol!Refuse(g)
  BY <1>3, <1>5, <1>14, <1>15 DEF Protocol!Refuse, Protocol!First, OnTheirWay
<1>17. Protocol!CreditNext
  BY <1>13, <1>14, <1>15, <1>16 DEF Protocol!CreditNext, OnTheirWay
<1> QED BY <1>11, <1>17 DEF Accords

(* What the server knows of the client, in numbers. *)
LEMMA KnownIs ==
  ASSUME CreditsOK, NEW base, base = conn.consumedSeq, NEW n, n = conn.outSeq, NEW l, l = client.lastOut,
         NEW r, r = client.lastOut - client.since
  PROVE  /\ base \in Nat /\ n \in Nat /\ l \in Nat /\ r \in Int /\ base <= r /\ r <= l /\ l <= n
         /\ r \in Nat
<1>1. PICK z, f : z = client.since /\ f = Len(wire)
  OBVIOUS
<1>2. base \in Nat /\ n \in Nat /\ l \in Nat /\ z \in Nat /\ f \in Nat /\ r = l - z /\ l + f = n /\ base <= r
  BY <1>1 DEF CreditsOK, Agreed, Terms, OnWire, OutputOK, ConnOK, ClientOK, WireOK
<1> QED BY ONLY <1>2

(* The first grant is no violation. *)
LEMMA Honest ==
  ASSUME CreditsOK, toServer # << >>, NEW m, m = Head(toServer),
         NEW k, k = Cardinality({i \in DOMAIN conn.outstanding : conn.outstanding[i].seq <= m.seq}),
         NEW left, left = IF k = 0 THEN conn.consumedBytes ELSE conn.outstanding[k].cum
  PROVE  /\ k \in 0..Len(conn.outstanding) /\ m.seq = conn.consumedSeq + k
         /\ m.seq <= client.lastOut - client.since /\ m.credit <= client.creditedAt + Window
         /\ ~ Violates(conn, m, left)
<1>1. PICK o, base, n, l, r, known, a : /\ o = conn.outstanding /\ base = conn.consumedSeq /\ n = conn.outSeq
                                        /\ l = client.lastOut /\ r = client.lastOut - client.since
                                        /\ known = conn.creditBytes /\ a = client.creditedAt
  OBVIOUS
<1>2. base \in Nat /\ n \in Nat /\ l \in Nat /\ r \in Nat /\ base <= r /\ r <= l /\ l <= n
  BY <1>1, KnownIs
<1>3. o \in Seq(Cum) /\ known \in Nat /\ a \in Nat /\ toServer \in Seq(Grant)
  BY <1>1 DEF CreditsOK, OutputOK, ConnOK, ClientOK
<1>4. m \in Grant /\ 1 \in 1..Len(toServer) /\ m = toServer[1]
  BY <1>3
<1>5. Granting(toServer, o, base, known, r, a) /\ Numbered(o, base, n)
  BY <1>1 DEF CreditsOK, Agreed
<1>6. base < m.seq /\ m.seq <= r /\ known <= m.credit /\ m.credit <= a + Window
      /\ m.credit = o[m.seq - base].cum + Window
  BY <1>4, <1>5 DEF Granting
<1>7. PICK s, d : s = m.seq /\ d = m.credit
  OBVIOUS
<1>8. s \in Nat /\ d \in Nat
  BY <1>4, <1>7 DEF Grant
<1>9. k = s - base
  <2>1. base <= s /\ s <= n
    BY <1>2, <1>6, <1>7, <1>8
  <2>2. Cardinality({i \in DOMAIN o : o[i].seq <= s}) = s - base
    BY ONLY <1>2, <1>3, <1>5, <1>8, <2>1, FoundIs
  <2> QED BY <1>1, <1>7, <2>2
<1>10. k \in Nat /\ k # 0 /\ s = base + k /\ s <= n /\ s <= r
  <2>1. base < s /\ s <= r
    BY <1>6, <1>7
  <2> QED BY ONLY <1>2, <1>8, <1>9, <2>1
<1>11. PICK f : f = Len(o)
  OBVIOUS
<1>12. f \in Nat /\ f = n - base
  BY <1>3, <1>5, <1>11 DEF Numbered
<1>13. k \in 0..f /\ k \in 1..f
  BY ONLY <1>2, <1>10, <1>12
<1>14. left = o[k].cum /\ left \in Nat
  <2>1. o[k] \in Cum
    BY <1>3, <1>11, <1>13
  <2> QED BY <1>1, <1>10, <2>1 DEF Cum
<1>15. d = left + Window /\ ~ (d < known)
  <2>1. m.seq - base = k
    BY <1>7, <1>9
  <2>2. d = left + Window /\ known <= d
    BY <1>6, <1>7, <1>14, <2>1
  <2> QED BY ONLY <1>3, <1>8, <2>2
<1>16. ~ (d - left > Window)
  <2>1. Window \in Nat
    BY CreditAssumption
  <2>2. d = left + Window
    BY <1>15
  <2> QED BY ONLY <1>8, <1>14, <2>1, <2>2
<1>17. ~ (s < base) /\ ~ (s > n)
  BY ONLY <1>2, <1>8, <1>10
<1>18. ~ Violates(conn, m, left)
  BY ONLY <1>1, <1>7, <1>15, <1>16, <1>17 DEF Violates
<1>19. s = base + k /\ s <= r /\ k \in 0..f
  BY <1>10, <1>13
<1> QED BY ONLY <1>1, <1>6, <1>7, <1>11, <1>18, <1>19

(* The grant is taken. *)
LEMMA TakenAgrees ==
  ASSUME CreditsOK, toServer # << >>, NEW m, m = Head(toServer), NEW k \in 0..Len(conn.outstanding),
         m.seq = conn.consumedSeq + k, m.seq <= client.lastOut - client.since,
         m.credit <= client.creditedAt + Window,
         NEW c, c.outstanding = After(conn.outstanding, k), c.consumedSeq = m.seq,
         c.creditBytes = m.credit, c.outSeq = conn.outSeq, c.sentBytes = conn.sentBytes
  PROVE  Agreed(c, wire, client, Tail(toServer))
<1>1. PICK o, base, n, l, e, b, r, known, a :
        /\ o = conn.outstanding /\ base = conn.consumedSeq /\ n = conn.outSeq
        /\ l = client.lastOut /\ e = client.consumed /\ b = conn.sentBytes /\ r = client.lastOut - client.since
        /\ known = conn.creditBytes /\ a = client.creditedAt
  OBVIOUS
<1>2. base \in Nat /\ n \in Nat /\ l \in Nat /\ r \in Nat /\ base <= r /\ r <= l /\ l <= n
  BY <1>1, KnownIs
<1>3. /\ o \in Seq(Cum) /\ toServer \in Seq(Grant) /\ wire \in Seq(Frame)
      /\ e \in Nat /\ b \in Nat /\ k \in 0..Len(o)
  BY <1>1 DEF CreditsOK, OutputOK, ConnOK, ClientOK, WireOK
<1>4. PICK s : s = m.seq
  OBVIOUS
<1>5. s = base + k /\ r \in Int /\ r <= n
  BY <1>1, <1>2, <1>4
<1>6. /\ Numbered(o, base, n) /\ OnWire(wire, l, n, e, b) /\ Summed(o, base, wire, l, e)
      /\ Granting(toServer, o, base, known, r, a) /\ Terms(conn, client)
  BY <1>1 DEF CreditsOK, Agreed
<1>7. Numbered(After(o, k), s, n)
  BY ONLY <1>2, <1>3, <1>5, <1>6, NumberedTake
<1>8. Summed(After(o, k), s, wire, l, e)
  BY ONLY <1>2, <1>3, <1>5, <1>6, SummedTake
<1>9. Head(toServer).seq = s
  BY <1>4
<1>10. PICK ts : ts = toServer
  OBVIOUS
<1>11. ts \in Seq(Grant) /\ ts # << >> /\ Granting(ts, o, base, known, r, a) /\ Head(ts).seq = s
  BY <1>3, <1>6, <1>9, <1>10
<1>12. Granting(Tail(ts), After(o, k), s, Head(ts).credit, r, a)
  BY ONLY <1>2, <1>3, <1>5, <1>6, <1>11, GrantingTake
<1>13. Terms(c, client)
  BY <1>6 DEF Terms
<1> QED BY <1>1, <1>4, <1>6, <1>7, <1>8, <1>10, <1>12, <1>13 DEF Agreed

(* The server takes a grant. *)
LEMMA CreditedAccords ==
  ASSUME CreditsOK, Credited
  PROVE  Accords
<1>1. PICK m, ts : m = Head(toServer) /\ ts = Tail(toServer)
  OBVIOUS
<1>2. /\ toServer # << >> /\ toServer' = ts /\ Granted(conn, m) /\ UNCHANGED client
  BY <1>1 DEF Credited
<1>3. m \in Grant /\ ts \in Seq(Grant) /\ toServer \in Seq(Grant)
  BY <1>1, <1>2 DEF CreditsOK, OutputOK
<1>4. m.seq \in Nat /\ m.credit \in Nat
  BY <1>3 DEF Grant
<1>5. PICK k : k = Cardinality({i \in DOMAIN conn.outstanding : conn.outstanding[i].seq <= m.seq})
  OBVIOUS
<1>6. PICK left : left = IF k = 0 THEN conn.consumedBytes ELSE conn.outstanding[k].cum
  OBVIOUS
<1>7. PICK rest : rest = After(conn.outstanding, k)
  OBVIOUS
<1>8. PICK c : c = [conn EXCEPT !.outstanding = rest, !.consumedBytes = left, !.consumedSeq = m.seq,
                                !.creditBytes = m.credit]
  OBVIOUS
<1>9. /\ k \in 0..Len(conn.outstanding) /\ m.seq = conn.consumedSeq + k
      /\ m.seq <= client.lastOut - client.since /\ m.credit <= client.creditedAt + Window
      /\ ~ Violates(conn, m, left)
  BY <1>1, <1>2, <1>5, <1>6, Honest
<1>10. Flush(c, wire)
  <2>1. IF Violates(conn, m, left)
        THEN over' = "violation" /\ UNCHANGED <<conn, wire, toWorker>>
        ELSE Flush(c, wire) /\ UNCHANGED over
    BY <1>2, <1>5, <1>6, <1>7, <1>8 DEF Granted
  <2> QED BY ONLY <1>9, <2>1
<1>11. ConnOK(conn) /\ WireOK(wire) /\ ClientOK(client)
  BY DEF CreditsOK, OutputOK
<1>12. rest \in Seq(Cum) /\ Len(rest) <= MaxOutstanding /\ left \in Nat
  BY <1>5, <1>6, <1>7, <1>11, LeftIs
<1>13. DOMAIN conn = ConnFields
  BY <1>11 DEF ConnOK
<1>14. /\ DOMAIN c = ConnFields /\ c.outstanding = rest /\ c.consumedBytes = left
       /\ c.consumedSeq = m.seq /\ c.creditBytes = m.credit /\ c.pendingOut = conn.pendingOut
       /\ c.outSeq = conn.outSeq /\ c.sentBytes = conn.sentBytes
       /\ c.consumedPending = conn.consumedPending /\ c.paused = conn.paused
       /\ c.refused = conn.refused
  BY <1>8, <1>13 DEF ConnFields
<1>15. c.sentBytes <= c.creditBytes
  <2>1. PICK s, b, d : s = conn.sentBytes /\ b = conn.creditBytes /\ d = m.credit
    OBVIOUS
  <2>2. s \in Nat /\ b \in Nat /\ d \in Nat /\ s <= b /\ ~ (d < b)
    BY <1>4, <1>9, <1>11, <2>1 DEF ConnOK, Violates
  <2>3. s <= d
    BY ONLY <2>2
  <2> QED BY <1>14, <2>1, <2>3
<1>16. ConnOK(c)
  BY <1>4, <1>11, <1>12, <1>14, <1>15 DEF ConnOK
<1>17. Agreed(c, wire, client, ts)
  BY <1>1, <1>2, <1>7, <1>9, <1>14, TakenAgrees
<1>18. PICK j : Sends(c, wire, j, conn', wire')
  BY <1>10, <1>11, <1>16, FlushIs
<1>19. Agreed(conn', wire', client, ts)
  BY <1>3, <1>11, <1>16, <1>17, <1>18, FlushAgrees
<1>20. Agreed(conn', wire', client', toServer')
  BY <1>2, <1>19
<1>21. Numbered(c.outstanding, c.consumedSeq, c.outSeq)
  BY <1>17 DEF Agreed
<1>22. Protocol!Flush
  BY <1>10, <1>11, <1>14, <1>16, <1>21, FlushMaps
<1>23. /\ conn'.creditBytes = m.credit /\ conn'.consumedSeq = m.seq /\ conn'.refused = conn.refused
  BY <1>14, <1>18 DEF Sends
<1>24. PICK g : g = [credit |-> m.credit, messages |-> m.seq]
  OBVIOUS
<1>25. PICK q, o, base, known, r, a : /\ q = toServer /\ o = conn.outstanding /\ base = conn.consumedSeq
                                      /\ known = conn.creditBytes /\ r = client.lastOut - client.since
                                      /\ a = client.creditedAt
  OBVIOUS
<1>26. Granting(q, o, base, known, r, a)
  BY <1>25 DEF CreditsOK, Agreed
<1>27. q \in Seq(Grant) /\ q # << >> /\ m = Head(q) /\ ts = Tail(q)
  BY <1>1, <1>2, <1>3, <1>25
<1>28. /\ g \in OnTheirWay(q) /\ \A h \in OnTheirWay(q) : g.messages <= h.messages
       /\ OnTheirWay(ts) = OnTheirWay(q) \ {g}
  BY ONLY <1>24, <1>26, <1>27, FirstGrant
<1>29. PICK G, H : G = OnTheirWay(toServer) /\ H = OnTheirWay(toServer')
  OBVIOUS
<1>30. g \in G /\ H = G \ {g} /\ \A h \in G : g.messages <= h.messages
  BY <1>2, <1>25, <1>28, <1>29
<1>31. g = [credit |-> conn'.creditBytes, messages |-> conn'.consumedSeq]
  BY <1>23, <1>24
<1>32. Protocol!Take(g)
  BY <1>2, <1>23, <1>29, <1>30, <1>31 DEF Protocol!Take, Protocol!First, OnTheirWay
<1>33. Protocol!CreditNext
  BY <1>22, <1>29, <1>30, <1>32 DEF Protocol!CreditNext, OnTheirWay
<1> QED BY <1>20, <1>33 DEF Accords

(* The client takes a message, and grants when it is due. *)
LEMMA ClientTakes ==
  ASSUME CreditsOK, ClientReceives, NEW x, x = Head(wire).n, NEW l, l = client.lastOut + 1,
         NEW e, e = client.consumed + x, NEW z, z = client.since + 1, NEW a, a = client.creditedAt,
         NEW due, due = RenewalDue(Consumed(client, Head(wire)))
  PROVE  /\ client'.lastOut = l /\ client'.consumed = e /\ due \in BOOLEAN
         /\ due <=> 4 * (e - a) >= Window \/ 2 * ((a + Window) - e) < Window \/ z >= RenewMessages
         /\ due => /\ client'.since = 0 /\ client'.creditedAt = e /\ client'.credit = e + Window
                   /\ toServer' = Append(toServer, [seq |-> l, credit |-> e + Window])
         /\ ~ due => /\ client'.since = z /\ client'.creditedAt = a /\ client'.credit = client.credit
                     /\ toServer' = toServer
         /\ client.credit = a + Window /\ wire # << >> /\ x \in 1..ChunkBytes /\ Head(wire).seq = l
<1>1. PICK m, c : m = Head(wire) /\ c = Consumed(client, Head(wire))
  OBVIOUS
<1>2. wire # << >> /\ wire \in Seq(Frame) /\ ClientOK(client)
  BY DEF ClientReceives, CreditsOK, OutputOK, WireOK
<1>3. m \in Frame
  BY <1>1, <1>2
<1>4. m.n \in 1..ChunkBytes
  BY <1>3 DEF Frame
<1>5. m.seq = l
  <2>1. 1 \in 1..Len(wire) /\ m = wire[1]
    BY <1>1, <1>2
  <2>2. \A i \in 1..Len(wire) : wire[i].seq = client.lastOut + i
    BY DEF CreditsOK, Agreed, OnWire
  <2> QED BY <2>1, <2>2
<1>6. /\ ClientOK(c) /\ c.lastOut = l /\ c.consumed = e /\ c.since = z /\ c.credit = client.credit
      /\ c.creditedAt = a
  BY <1>1, <1>2, <1>3, <1>5, ConsumedIs
<1>7. /\ ClientOK(Renewed(c)) /\ Renewed(c).lastOut = l /\ Renewed(c).consumed = e /\ Renewed(c).since = 0
      /\ Renewed(c).credit = e + Window /\ Renewed(c).creditedAt = e
  BY <1>6, RenewedIs
<1>8. IF due
      THEN /\ client' = Renewed(c)
           /\ toServer' = Append(toServer, [seq |-> c.lastOut, credit |-> c.consumed + Window])
      ELSE client' = c /\ UNCHANGED toServer
  BY <1>1 DEF ClientReceives
<1>9. client.credit = a + Window
  BY DEF CreditsOK, Agreed, Terms
<1>10. due <=> 4 * (e - a) >= Window \/ 2 * ((a + Window) - e) < Window \/ z >= RenewMessages
  BY <1>1, <1>6, <1>9 DEF RenewalDue
<1>11. due \in BOOLEAN
  BY DEF RenewalDue
<1>12. CASE due
  BY <1>1, <1>2, <1>4, <1>5, <1>6, <1>7, <1>8, <1>9, <1>10, <1>11, <1>12
<1>13. CASE ~ due
  BY <1>1, <1>2, <1>4, <1>5, <1>6, <1>8, <1>9, <1>10, <1>11, <1>13
<1> QED BY <1>11, <1>12, <1>13

(* The two ends are agreed when it has. *)
LEMMA ReceivesAgrees ==
  ASSUME CreditsOK, ClientReceives
  PROVE  Agreed(conn, Tail(wire), client', toServer')
<1>1. PICK x, l, e, z, a, due :
        /\ x = Head(wire).n /\ l = client.lastOut + 1 /\ e = client.consumed + x /\ z = client.since + 1
        /\ a = client.creditedAt /\ due = RenewalDue(Consumed(client, Head(wire)))
  OBVIOUS
<1>2. /\ client'.lastOut = l /\ client'.consumed = e /\ due \in BOOLEAN
      /\ due => /\ client'.since = 0 /\ client'.creditedAt = e /\ client'.credit = e + Window
                /\ toServer' = Append(toServer, [seq |-> l, credit |-> e + Window])
      /\ ~ due => /\ client'.since = z /\ client'.creditedAt = a /\ client'.credit = client.credit
                  /\ toServer' = toServer
      /\ client.credit = a + Window /\ wire # << >> /\ x \in 1..ChunkBytes
  BY <1>1, ClientTakes
<1>3. PICK o, base, n, f, h, b, r, known, w, ts :
        /\ o = conn.outstanding /\ base = conn.consumedSeq /\ n = conn.outSeq /\ f = client.lastOut
        /\ h = client.consumed /\ b = conn.sentBytes /\ r = client.lastOut - client.since
        /\ known = conn.creditBytes /\ w = wire /\ ts = toServer
  OBVIOUS
<1>4. base \in Nat /\ n \in Nat /\ f \in Nat /\ r \in Nat /\ base <= r /\ r <= f /\ f <= n
  BY <1>3, KnownIs
<1>5. /\ o \in Seq(Cum) /\ ts \in Seq(Grant) /\ w \in Seq(Frame) /\ h \in Nat /\ b \in Nat
      /\ a \in Nat /\ known \in Nat /\ client.since \in Nat
  BY <1>1, <1>3 DEF CreditsOK, OutputOK, ConnOK, ClientOK, WireOK
<1>6. /\ Numbered(o, base, n) /\ OnWire(w, f, n, h, b) /\ Summed(o, base, w, f, h)
      /\ Granting(ts, o, base, known, r, a) /\ Terms(conn, client)
  BY <1>1, <1>3 DEF CreditsOK, Agreed
<1>7. w # << >> /\ x = Head(w).n /\ base <= f
  BY <1>1, <1>2, <1>3, <1>4
<1>8. OnWire(Tail(w), f + 1, n, h + x, b) /\ f + 1 <= n
  BY ONLY <1>4, <1>5, <1>6, <1>7, OnWireLess
<1>9. Summed(o, base, Tail(w), f + 1, h + x) /\ o[f + 1 - base].cum = h + x
  <2>1. /\ o \in Seq(Cum) /\ base \in Nat /\ w \in Seq(Frame) /\ w # << >> /\ f \in Nat
        /\ h \in Nat /\ Summed(o, base, w, f, h) /\ base <= f /\ x = Head(w).n
    BY <1>4, <1>5, <1>6, <1>7
  <2>2. Summed(o, base, Tail(w), f + 1, h + x)
    BY ONLY <2>1, SummedLess
  <2>3. o[f + 1 - base].cum = h + x
    BY ONLY <2>1, SummedLess
  <2> QED BY <2>2, <2>3
<1>10. base <= r /\ a <= h /\ known <= a + Window
  BY <1>1, <1>3, <1>6 DEF Terms
<1>11. l = f + 1 /\ e = h + x /\ l \in Nat /\ e \in Nat /\ x \in Nat /\ x >= 1
  <2>1. l = f + 1 /\ e = h + x /\ x \in 1..ChunkBytes /\ ChunkBytes \in Nat
    BY <1>1, <1>2, <1>3, CreditAssumption
  <2> QED BY ONLY <1>4, <1>5, <2>1
<1>12. OnWire(Tail(w), l, n, e, b) /\ Summed(o, base, Tail(w), l, e)
  BY <1>8, <1>9, <1>11
<1>13. a <= e /\ r < l
  BY ONLY <1>4, <1>5, <1>10, <1>11
<1>14. CASE due
  <2>1. PICK y, g : y = e + Window /\ g = [seq |-> l, credit |-> y]
    OBVIOUS
  <2>2. y = o[l - base].cum + Window
    <3>1. l - base = f + 1 - base
      BY ONLY <1>4, <1>11
    <3> QED BY <1>9, <1>11, <2>1, <3>1
  <2>3. r \in Int
    BY <1>4
  <2>4. Granting(Append(ts, g), o, base, known, l, e)
    BY ONLY <1>4, <1>5, <1>6, <1>10, <1>11, <1>13, <2>1, <2>2, <2>3, GrantingAppend
  <2>5. client'.lastOut - client'.since = l /\ client'.creditedAt = e /\ toServer' = Append(ts, g)
    BY <1>2, <1>3, <1>11, <1>14, <2>1
  <2>6. Window \in Nat
    BY CreditAssumption
  <2>7. base <= l /\ known <= e + Window
    BY ONLY <1>4, <1>5, <1>10, <1>11, <1>13, <2>6
  <2>8. Terms(conn, client')
    BY <1>2, <1>3, <1>11, <1>14, <2>5, <2>7 DEF Terms
  <2> QED BY <1>2, <1>3, <1>6, <1>12, <2>4, <2>5, <2>8 DEF Agreed
<1>15. CASE ~ due
  <2>1. l - z = r
    <3>1. PICK u : u = client.since
      OBVIOUS
    <3>2. u \in Nat /\ z = u + 1 /\ r = f - u
      BY <1>1, <1>3, <1>5, <3>1
    <3> QED BY ONLY <1>4, <1>11, <3>2
  <2>2. client'.lastOut - client'.since = r /\ client'.creditedAt = a /\ toServer' = ts
    BY <1>2, <1>3, <1>15, <2>1
  <2>3. Terms(conn, client')
    BY <1>1, <1>2, <1>3, <1>6, <1>10, <1>13, <1>15, <2>2 DEF Terms
  <2> QED BY <1>2, <1>3, <1>6, <1>12, <2>2, <2>3 DEF Agreed
<1> QED BY <1>2, <1>14, <1>15

(* What the client does is a Consume of the protocol. *)
LEMMA ReceivesConsumes ==
  ASSUME CreditsOK, ClientReceives,
         conn'.creditBytes = conn.creditBytes, conn'.consumedSeq = conn.consumedSeq,
         RenewalDue(Consumed(client, Head(wire))) => conn'.refused = FALSE,
         ~ RenewalDue(Consumed(client, Head(wire))) => conn'.refused = conn.refused
  PROVE  \E x \in 1..ChunkBytes : Protocol!Consume(x)
<1>1. PICK x, l, e, z, a, due :
        /\ due = RenewalDue(Consumed(client, Head(wire)))
        /\ x = Head(wire).n /\ l = client.lastOut + 1 /\ e = client.consumed + x /\ z = client.since + 1
        /\ a = client.creditedAt
  OBVIOUS
<1>2. /\ client'.lastOut = l /\ client'.consumed = e /\ due \in BOOLEAN
      /\ due <=> 4 * (e - a) >= Window \/ 2 * ((a + Window) - e) < Window \/ z >= RenewMessages
      /\ due => /\ client'.since = 0 /\ client'.creditedAt = e /\ client'.credit = e + Window
                /\ toServer' = Append(toServer, [seq |-> l, credit |-> e + Window])
      /\ ~ due => /\ client'.since = z /\ client'.creditedAt = a /\ client'.credit = client.credit
                  /\ toServer' = toServer
      /\ client.credit = a + Window /\ wire # << >> /\ x \in 1..ChunkBytes
  BY <1>1, ClientTakes
<1>3. PICK n, f, h, b, w, u : /\ n = conn.outSeq /\ f = client.lastOut /\ h = client.consumed
                              /\ b = conn.sentBytes /\ w = wire /\ u = client.since
  OBVIOUS
<1>4. /\ n \in Nat /\ f \in Nat /\ h \in Nat /\ b \in Nat /\ w \in Seq(Frame) /\ u \in Nat
      /\ toServer \in Seq(Grant)
  BY <1>3 DEF CreditsOK, OutputOK, ConnOK, ClientOK, WireOK
<1>5. OnWire(w, f, n, h, b) /\ w # << >> /\ x = Head(w).n
  BY <1>1, <1>2, <1>3 DEF CreditsOK, Agreed
<1>6. f + 1 <= n /\ h + x <= b /\ (f + 1 = n <=> h + x = b)
  BY ONLY <1>4, <1>5, OnWireLess
<1>7. l = f + 1 /\ e = h + x /\ z = u + 1 /\ l \in Nat /\ e \in Nat /\ z \in Nat
  <2>1. l = f + 1 /\ e = h + x /\ z = u + 1 /\ x \in 1..ChunkBytes /\ ChunkBytes \in Nat
    BY <1>1, <1>2, <1>3, CreditAssumption
  <2> QED BY ONLY <1>4, <2>1
<1>8. l <= n /\ e <= b /\ (l = n <=> e = b)
  BY <1>6, <1>7
<1>9. l - (f - u) = z
  BY ONLY <1>4, <1>7
<1>10. PICK T, U : T = OnTheirWay(toServer) /\ U = OnTheirWay(toServer')
  OBVIOUS
<1>11. [bytes |-> client'.consumed, messages |-> client'.lastOut] = [bytes |-> e, messages |-> l]
  BY <1>2
<1>12. due <=> 4 * (e - a) >= Window \/ 2 * ((a + Window) - e) < Window \/ l - (f - u) >= RenewMessages
  BY <1>2, <1>9
<1>15. due <=> Protocol!Due(e, l)
  <2>1. PICK t : t = [bytes |-> client.creditedAt, messages |-> client.lastOut - client.since]
    OBVIOUS
  <2>2. t.bytes = a /\ t.messages = f - u
    BY <1>1, <1>3, <2>1
  <2>3. Protocol!Due(e, l) <=> \/ 4 * (e - t.bytes) >= Window
                              \/ 2 * (t.bytes + Window - e) < Window
                              \/ l - t.messages >= RenewMessages
    BY <2>1, Zenon DEF Protocol!Due
  <2>4. /\ 4 * (e - t.bytes) = 4 * (e - a) /\ 2 * (t.bytes + Window - e) = 2 * ((a + Window) - e)
        /\ l - t.messages = l - (f - u)
    <3>1. PICK v, y, q : v = t.bytes /\ y = t.messages /\ q = f - u
      OBVIOUS
    <3>2. v = a /\ y = q
      BY <2>2, <3>1
    <3>3. e - v = e - a
      BY <3>2
    <3>4. v + Window - e = (a + Window) - e
      <4>1. a \in Nat /\ Window \in Nat
        BY <1>1, CreditAssumption DEF CreditsOK, OutputOK, ClientOK
      <4> QED BY ONLY <1>7, <3>2, <4>1
    <3>5. l - y = l - q
      BY <3>2
    <3>6. e - t.bytes = e - a /\ t.bytes + Window - e = (a + Window) - e /\ l - t.messages = l - (f - u)
      BY <3>1, <3>3, <3>4, <3>5, Zenon
    <3> QED BY <3>6, Zenon
  <2> QED BY <1>12, <2>3, <2>4, Zenon
<1>13. CASE due
  <2>1. PICK g : g = [seq |-> l, credit |-> e + Window]
    OBVIOUS
  <2>2. g \in Grant /\ g.seq = l /\ g.credit = e + Window
    BY <1>7, <2>1, CreditAssumption DEF Grant
  <2>3. toServer' = Append(toServer, g) /\ toServer \in Seq(Grant)
    BY <1>2, <1>4, <1>13, <2>1
  <2>4. U = T \cup {[credit |-> e + Window, messages |-> l]}
    BY <1>10, <2>2, <2>3, NewGrant
  <2>5. client'.lastOut - client'.since = l /\ client'.creditedAt = e /\ conn'.refused = FALSE
    BY <1>1, <1>2, <1>7, <1>13
  <2>6. Protocol!Due(e, l)
    BY <1>13, <1>15
  <2>7. Protocol!Consume(x)
    BY <1>1, <1>3, <1>7, <1>8, <1>10, <1>11, <2>4, <2>5, <2>6
       DEF Protocol!Consume, Protocol!Grant, OnTheirWay
  <2> QED BY <1>2, <2>7
<1>14. CASE ~ due
  <2>1. /\ client'.lastOut - client'.since = f - u /\ client'.creditedAt = a
        /\ conn'.refused = conn.refused /\ U = T
    <3>1. l - z = f - u
      BY ONLY <1>4, <1>7
    <3> QED BY <1>1, <1>2, <1>10, <1>14, <3>1
  <2>2. ~ Protocol!Due(e, l)
    BY <1>14, <1>15
  <2>3. Protocol!Consume(x)
    BY <1>1, <1>3, <1>7, <1>8, <1>10, <1>11, <2>1, <2>2
       DEF Protocol!Consume, OnTheirWay
  <2> QED BY <1>2, <2>3
<1> QED BY <1>2, <1>13, <1>14

(* The client takes a message. *)
LEMMA ReceivesAccords ==
  ASSUME CreditsOK, ClientReceives
  PROVE  Accords
<1>1. PICK w, due : w = Tail(wire) /\ due = RenewalDue(Consumed(client, Head(wire)))
  OBVIOUS
<1>2. PICK s : s = IF due THEN [conn EXCEPT !.refused = FALSE] ELSE conn
  OBVIOUS
<1>3. PICK d : d = [s EXCEPT !.socketFull = FALSE]
  OBVIOUS
<1>4. wire # << >> /\ (Flush(d, w) \/ (conn' = s /\ wire' = w))
  BY <1>1, <1>2, <1>3 DEF ClientReceives
<1>5. ConnOK(conn) /\ ClientOK(client) /\ wire \in Seq(Frame) /\ WireOK(wire) /\ toServer \in Seq(Grant)
  BY DEF CreditsOK, OutputOK, WireOK
<1>6. WireOK(w)
  <2>1. Bytes(wire) = Head(wire).n + Bytes(w) /\ Bytes(w) \in Nat /\ w \in Seq(Frame) /\ Head(wire) \in Frame
    BY <1>1, <1>4, <1>5, BytesTail, ChunksSized
  <2>2. PICK p, q, x : p = Bytes(wire) /\ q = Bytes(w) /\ x = Head(wire).n
    OBVIOUS
  <2>3. p = x + q /\ x \in Nat /\ q \in Nat /\ p <= SendQueue /\ SendQueue \in Nat
    BY <1>5, <2>1, <2>2, OutputAssumption, CreditAssumption DEF WireOK, Frame
  <2>4. q <= SendQueue
    BY ONLY <2>3
  <2> QED BY <2>1, <2>2, <2>4 DEF WireOK
<1>7. DOMAIN conn = ConnFields
  BY <1>5 DEF ConnOK
<1>8. /\ DOMAIN s = ConnFields /\ s.pendingOut = conn.pendingOut
      /\ s.consumedPending = conn.consumedPending /\ s.outstanding = conn.outstanding
      /\ s.outSeq = conn.outSeq /\ s.sentBytes = conn.sentBytes /\ s.creditBytes = conn.creditBytes
      /\ s.consumedSeq = conn.consumedSeq /\ s.consumedBytes = conn.consumedBytes
      /\ s.paused = conn.paused /\ (due => s.refused = FALSE) /\ (~ due => s.refused = conn.refused)
  <2>1. CASE due
    BY <1>2, <1>7, <2>1 DEF ConnFields
  <2>2. CASE ~ due
    BY <1>2, <1>7, <2>2
  <2> QED BY <2>1, <2>2
<1>9. /\ DOMAIN d = ConnFields /\ d.pendingOut = s.pendingOut
      /\ d.consumedPending = s.consumedPending /\ d.outstanding = s.outstanding
      /\ d.outSeq = s.outSeq /\ d.sentBytes = s.sentBytes /\ d.creditBytes = s.creditBytes
      /\ d.consumedSeq = s.consumedSeq /\ d.consumedBytes = s.consumedBytes
      /\ d.paused = s.paused /\ d.refused = s.refused
  BY <1>3, <1>8 DEF ConnFields
<1>10. due \in BOOLEAN
  BY <1>1 DEF RenewalDue
<1>11. ConnOK(d)
  <2>1. d.refused \in BOOLEAN
    BY <1>5, <1>8, <1>9, <1>10 DEF ConnOK
  <2> QED BY <1>5, <1>8, <1>9, <2>1 DEF ConnOK
<1>12. PICK cl, ts : cl = client' /\ ts = toServer'
  OBVIOUS
<1>13. Agreed(conn, w, cl, ts)
  BY <1>1, <1>12, ReceivesAgrees
<1>14. ClientOK(cl) /\ ts \in Seq(Grant)
  <2>1. OutputOK'
    BY ClientReceivesKeeps DEF CreditsOK, Keeps
  <2> QED BY <1>12, <2>1 DEF OutputOK
<1>15. Agreed(d, w, cl, ts)
  BY <1>8, <1>9, <1>13, AgreedSame
<1>16. CASE Flush(d, w)
  <2>1. PICK j : Sends(d, w, j, conn', wire')
    BY <1>6, <1>11, <1>16, FlushIs
  <2>2. Agreed(conn', wire', cl, ts)
    BY <1>6, <1>11, <1>14, <1>15, <2>1, FlushAgrees
  <2>3. Numbered(d.outstanding, d.consumedSeq, d.outSeq)
    BY <1>15 DEF Agreed
  <2>4. Protocol!Flush
    BY <1>6, <1>8, <1>9, <1>11, <1>16, <2>3, FlushMaps
  <2>5. /\ conn'.creditBytes = conn.creditBytes /\ conn'.consumedSeq = conn.consumedSeq
        /\ (due => conn'.refused = FALSE) /\ (~ due => conn'.refused = conn.refused)
    BY <1>8, <1>9, <2>1 DEF Sends
  <2>6. \E x \in 1..ChunkBytes : Protocol!Consume(x)
    BY <1>1, <2>5, ReceivesConsumes
  <2>7. Protocol!CreditNext
    BY <2>4, <2>6 DEF Protocol!CreditNext
  <2> QED BY <1>12, <2>2, <2>7 DEF Accords
<1>17. CASE conn' = s /\ wire' = w
  <2>1. Agreed(conn', wire', cl, ts)
    BY <1>8, <1>13, <1>17, AgreedSame
  <2>2. Protocol!Flush
    BY <1>5, <1>8, <1>17, StillMaps DEF ConnOK
  <2>3. \E x \in 1..ChunkBytes : Protocol!Consume(x)
    BY <1>1, <1>8, <1>17, ReceivesConsumes
  <2>4. Protocol!CreditNext
    BY <2>2, <2>3 DEF Protocol!CreditNext
  <2> QED BY <1>12, <2>1, <2>4 DEF Accords
<1> QED BY <1>4, <1>16, <1>17

(* One step of the output is one of the protocol, or none. *)
LEMMA CreditsStep ==
  ASSUME CreditsOK, OutputNext
  PROVE  Accords
<1>1. ASSUME UNCHANGED <<conn, wire, client, toServer>> PROVE Accords
  BY <1>1, ConnSame
<1>2. ASSUME NEW n \in WriteSizes, Write(n) PROVE Accords
  BY <1>1, <1>2 DEF Write, ends
<1>3. CASE StartCommand
  BY <1>1, <1>3 DEF StartCommand, Shell, ends
<1>4. CASE Yield
  BY <1>1, <1>4 DEF Yield, Shell, ends
<1>5. CASE CommandEnds
  BY <1>1, <1>5 DEF CommandEnds, Shell, ends
<1>6. CASE CreditRefused
  BY <1>6, RefusedAccords
<1>7. CASE Resume
  BY <1>1, <1>7 DEF Resume, Shell, ends
<1>8. CASE SinkDrained
  BY <1>1, <1>8 DEF SinkDrained, ends
<1>9. CASE WorkerHandles
  BY <1>1, <1>9 DEF WorkerHandles, ends
<1>10. CASE Output
  BY <1>10, OutputAccords
<1>11. CASE ReportConsumed
  BY <1>11, ReportAccords
<1>12. CASE Credited
  BY <1>12, CreditedAccords
<1>13. CASE ClientReceives
  BY <1>13, ReceivesAccords
<1> QED BY <1>2, <1>3, <1>4, <1>5, <1>6, <1>7, <1>8, <1>9, <1>10, <1>11, <1>12, <1>13 DEF OutputNext, Moves

(* At the start the two ends are agreed, on nothing. *)
LEMMA CreditsStart == OutputInit => CreditsOK /\ Protocol!CreditInit
<1> SUFFICES ASSUME OutputInit PROVE CreditsOK /\ Protocol!CreditInit
  OBVIOUS
<1>1. OutputOK
  BY OutputStarts DEF WindowInv
<1>2. /\ conn.outstanding = << >> /\ conn.outSeq = 0 /\ conn.sentBytes = 0 /\ conn.creditBytes = Window
      /\ conn.consumedSeq = 0 /\ conn.refused = FALSE
  BY DEF OutputInit
<1>3. /\ client.lastOut = 0 /\ client.consumed = 0 /\ client.credit = Window /\ client.creditedAt = 0
      /\ client.since = 0
  BY DEF OutputInit
<1>4. wire = << >> /\ toServer = << >>
  BY DEF OutputInit
<1>5. Window \in Nat
  BY CreditAssumption
<1>6. Bytes(wire) = 0 /\ Len(wire) = 0 /\ Len(toServer) = 0 /\ Len(conn.outstanding) = 0
  BY <1>2, <1>4, BytesFew
<1>7. Numbered(conn.outstanding, conn.consumedSeq, conn.outSeq)
  BY <1>2, <1>6 DEF Numbered
<1>8. OnWire(wire, client.lastOut, conn.outSeq, client.consumed, conn.sentBytes)
  BY <1>2, <1>3, <1>6 DEF OnWire
<1>9. Summed(conn.outstanding, conn.consumedSeq, wire, client.lastOut, client.consumed)
  BY <1>2, <1>3, <1>6 DEF Summed
<1>10. \A r, a : Granting(toServer, conn.outstanding, conn.consumedSeq, conn.creditBytes, r, a)
  BY <1>6 DEF Granting
<1>11. Terms(conn, client)
  BY <1>2, <1>3, <1>5 DEF Terms
<1>12. CreditsOK
  BY <1>1, <1>7, <1>8, <1>9, <1>10, <1>11 DEF CreditsOK, Agreed
<1>13. PICK T : T = OnTheirWay(toServer)
  OBVIOUS
<1>14. T = {}
  <2>1. Range(toServer) = {}
    BY <1>4 DEF Range
  <2> QED BY <1>13, <2>1 DEF OnTheirWay
<1>15. client.lastOut - client.since = 0 /\ 0 + Window = Window
  BY <1>3, <1>5
<1>16. Protocol!CreditInit
  BY <1>2, <1>3, <1>13, <1>14, <1>15 DEF Protocol!CreditInit, Protocol!Grant, OnTheirWay
<1> QED BY <1>12, <1>16

(* What the two ends are, always. *)
CreditsInv == WindowInv /\ CreditsOK

(* The invariant holds at the start, which is one of the protocol. *)
LEMMA CreditsStarts == OutputInit => CreditsInv /\ Protocol!CreditInit
BY OutputStarts, CreditsStart DEF CreditsInv

(* Every step keeps it, and is one of the protocol, or none. *)
LEMMA CreditsKept ==
  CreditsInv /\ [OutputNext]_outputVars => CreditsInv' /\ [Protocol!CreditNext]_<<Protocol!creditVars>>
<1> SUFFICES ASSUME CreditsInv, [OutputNext]_outputVars
             PROVE  CreditsInv' /\ [Protocol!CreditNext]_<<Protocol!creditVars>>
  OBVIOUS
<1>1. WindowInv /\ CreditsOK
  BY DEF CreditsInv
<1>2. WindowInv'
  BY <1>1, OutputKeepsAll
<1>3. Accords
  <2>1. CASE OutputNext
    BY <1>1, <2>1, CreditsStep
  <2>2. CASE UNCHANGED outputVars
    <3>1. UNCHANGED <<conn, wire, client, toServer>>
      BY <2>2 DEF outputVars
    <3> QED BY <1>1, <3>1, ConnSame
  <2> QED BY <2>1, <2>2
<1>4. CreditsOK'
  BY <1>2, <1>3 DEF Accords, CreditsOK, WindowInv
<1> QED BY <1>2, <1>3, <1>4 DEF Accords, CreditsInv

(* The output implements the abstract protocol of the credits: what _flush *)
(* sends, what _credit takes and what the client grants are its steps, and *)
(* whatever else happens is none.                                          *)
THEOREM OutputKeepsCredit == OutputSpec => KeepsCredit
BY CreditsStarts, CreditsKept, PTL DEF OutputSpec, KeepsCredit

(* _flush never sends more than one window beyond what the browser has     *)
(* consumed, however its messages, its grants and the output interleave.   *)
THEOREM OutputNeverOverruns == OutputSpec => []Protocol!NeverOverrun
<1>1. CreditsInv => Protocol!NeverOverrun
  <2> SUFFICES ASSUME CreditsInv PROVE Protocol!NeverOverrun
    OBVIOUS
  <2>1. PICK s, y, a, e, z : /\ s = conn.sentBytes /\ y = conn.creditBytes /\ a = client.creditedAt
                             /\ e = client.consumed /\ z = Window
    OBVIOUS
  <2>2. /\ s \in Nat /\ y \in Nat /\ a \in Nat /\ e \in Nat /\ z \in Nat
        /\ s <= y /\ y <= a + z /\ a <= e
    BY <2>1, CreditAssumption DEF CreditsInv, CreditsOK, OutputOK, ConnOK, ClientOK, Agreed, Terms
  <2>3. s <= e + z
    BY ONLY <2>2
  <2> QED BY <2>1, <2>3 DEF Protocol!NeverOverrun
<1> QED BY <1>1, CreditsStarts, CreditsKept, PTL DEF OutputSpec

(* _credit never ends the session of this client for a violation: each of  *)
(* its grants is of a message outstanding, and of one window.              *)
THEOREM HonestNeverPunished == OutputSpec => [](over # "violation")
<1> DEFINE Fair == over # "violation"
<1>1. OutputInit => Fair
  BY DEF OutputInit
<1>2. CreditsInv /\ Fair /\ [OutputNext]_outputVars => Fair'
  <2> SUFFICES ASSUME CreditsInv, Fair, [OutputNext]_outputVars PROVE Fair'
    OBVIOUS
  <2>1. CASE UNCHANGED over
    BY <2>1
  <2>2. CASE Output
    BY <2>2 DEF Output
  <2>3. CASE Credited
    <3>1. PICK m, k, left : /\ m = Head(toServer)
                            /\ k = Cardinality({i \in DOMAIN conn.outstanding : conn.outstanding[i].seq <= m.seq})
                            /\ left = IF k = 0 THEN conn.consumedBytes ELSE conn.outstanding[k].cum
      OBVIOUS
    <3>2. toServer # << >> /\ Granted(conn, m)
      BY <2>3, <3>1 DEF Credited
    <3>3. ~ Violates(conn, m, left)
      BY <3>1, <3>2, Honest DEF CreditsInv
    <3>4. UNCHANGED over
      BY <3>1, <3>2, <3>3 DEF Granted
    <3> QED BY <3>4
  <2>4. UNCHANGED over \/ Output \/ Credited
    <3>1. CASE UNCHANGED outputVars
      BY <3>1 DEF outputVars
    <3>2. CASE OutputNext
      BY <3>2 DEF OutputNext, Moves, Write, StartCommand, Yield, Resume, CommandEnds, Shell, SinkDrained,
                  WorkerHandles, ReportConsumed, CreditRefused, ClientReceives
    <3> QED BY <3>1, <3>2
  <2> QED BY <2>1, <2>2, <2>3, <2>4
<1>3. Fair => over # "violation"
  OBVIOUS
<1> QED BY <1>1, <1>2, <1>3, CreditsStarts, CreditsKept, PTL DEF OutputSpec

=============================================================================
