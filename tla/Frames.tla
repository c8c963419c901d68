-------------------------------- MODULE Frames --------------------------------
(***************************************************************************)
(* The two framings of the terminal, on their receiving side.              *)
(*                                                                         *)
(* First that of a WebSocket connection: _onData, _frame and what they     *)
(* call of src/runtime/hermit/gateway/ws.js, with the memory that is       *)
(* reserved for what has arrived only in part.                             *)
(*                                                                         *)
(* A frame lies inside one chunk of the socket, or begins in one and ends  *)
(* in a later one; chunks in between only fill it.  A message is one frame *)
(* or a first frame, continuations and a final one, with control frames    *)
(* between them.  What must outlive a chunk is rented: reserved in the     *)
(* account of the connection before it is obtained, which may be refused.  *)
(*                                                                         *)
(* Then that of the records between gateway and worker, class FrameDecoder *)
(* of protocol/bridge.js: four bytes of length and a body, in chunks as    *)
(* the pipe cut them.                                                      *)
(***************************************************************************)
EXTENDS Integers, SequencesExt

CONSTANTS
  PayloadLength,   \* of a frame
  MaxMessageBytes,
  MaxControlBytes, \* 125
  MaxFragments,
  AccountBytes,    \* what the account has for reassembly
  RecordLength,    \* of the body of a bridge record
  MaxBody,
  MaxRecords       \* bound: records a peer sends

ASSUME FramesAssumption ==
  /\ PayloadLength \subseteq Nat /\ RecordLength \subseteq Nat
  /\ MaxMessageBytes \in Nat /\ MaxControlBytes \in Nat /\ MaxFragments \in Nat
  /\ AccountBytes \in Nat /\ MaxBody \in Nat /\ MaxRecords \in Nat

VARIABLES
  wsState,         \* "OPEN", "CLOSING", "CLOSED"
  body,            \* the frame that spans chunks, or NoFrame
  frag,            \* the message that is fragmented: [op, parts], or NoMessage
  fragTimer,       \* the deadline of the assembly runs
  leased,          \* bytes reserved in the account
  told,            \* what the peer has sent of its latest message: [op, bytes]
  delivered        \* the message the last step gave to the session, or NoMessage

VARIABLES
  records,         \* what the peer sends: [len, how]
  received,        \* bytes of it that have arrived
  decoder,
  ended            \* what end() said, or "no"

bridgeVars == <<records, received, decoder, ended>>

frameVars == <<wsState, body, frag, fragTimer, leased, told, delivered>>

Control == {"CLOSE", "PING", "PONG"}
Opcode == Control \cup {"TEXT", "BIN", "CONT"}
Frame == [op : Opcode, fin : BOOLEAN, len : PayloadLength]
NoFrame == [op |-> "none", fin |-> TRUE, len |-> 0]
NoMessage == [op |-> "none", parts |-> << >>]
Nothing == [op |-> "none", bytes |-> 0]

FramesInit ==
  /\ wsState = "OPEN"
  /\ body = NoFrame /\ frag = NoMessage /\ fragTimer = FALSE
  /\ leased = 0
  /\ told = Nothing /\ delivered = Nothing

-----------------------------------------------------------------------------
(* Memory *)

Sum(lens) == FoldSeq(LAMBDA n, m : n + m, 0, lens)

(* What _rent reserves for n bytes; it asks for one where there is none. *)
Rented(n) == IF n = 0 THEN 1 ELSE n
PartBytes == Sum([i \in DOMAIN frag.parts |-> Rented(frag.parts[i])])

Affords(n) == leased + Rented(n) <= AccountBytes

(* Mutant: only the fragments are given back. *)
DropsFragments ==
  /\ frag' = NoMessage /\ body' = NoFrame /\ fragTimer' = FALSE
  /\ leased' = leased - PartBytes

(* _dropReceiveState. *)
DropsReceived ==
  /\ body' = NoFrame /\ frag' = NoMessage /\ fragTimer' = FALSE
  /\ leased' = 0

(* _fail: the closing handshake begins, unless it has. *)
Fails ==
  /\ wsState' = (IF wsState = "OPEN" THEN "CLOSING" ELSE wsState)
  /\ DropsReceived
  /\ delivered' = Nothing

(* done: storage of the frame goes back, and the deadline stops if nothing *)
(* else waits.                                                             *)
Done(owned) ==
  /\ leased' = leased - owned
  /\ body' = NoFrame
  /\ fragTimer' = (fragTimer /\ frag # NoMessage)

Quiet == UNCHANGED <<frag, wsState>> /\ delivered' = Nothing

-----------------------------------------------------------------------------
(* Frames *)

TooLarge(f) == f.len + Sum(frag.parts) > MaxMessageBytes

(* What the header alone makes fail. *)
Refused(f) ==
  IF f.op \in Control
  THEN f.len > MaxControlBytes \/ ~ f.fin
  ELSE TooLarge(f) \/ Len(frag.parts) >= MaxFragments

(* _keepFragment: a part that is a view of the chunk is copied first. *)
KeepsFragment(f, owned) ==
  IF owned = 0 /\ ~ Affords(f.len)
  THEN Fails
  ELSE /\ frag' = [op |-> IF frag = NoMessage THEN f.op ELSE frag.op,
                   parts |-> Append(frag.parts, f.len)]
       /\ leased' = (IF owned = 0 THEN leased + Rented(f.len) ELSE leased)
       /\ body' = NoFrame
       /\ fragTimer' = TRUE
       /\ delivered' = Nothing /\ UNCHANGED wsState

(* The final frame of a fragmented message: it is assembled into memory of *)
(* its own, while the parts are still held.                                *)
Assembles(f) ==
  IF ~ Affords(Sum(frag.parts) + f.len)
  THEN Fails
  ELSE /\ delivered' = [op |-> frag.op, bytes |-> Sum(frag.parts) + f.len]
       /\ frag' = NoMessage /\ body' = NoFrame
       /\ leased' = 0 /\ fragTimer' = FALSE
       /\ UNCHANGED wsState

(* _frame, of an open connection: a frame continues a message exactly if   *)
(* one has begun; text that is not UTF-8 fails.                            *)
Continues(f) == f.op = "CONT"
DataFrame(f, owned) ==
  CASE Continues(f) # (frag # NoMessage) -> Fails
    [] Continues(f) = (frag # NoMessage) /\ ~ f.fin -> KeepsFragment(f, owned)
    [] Continues(f) /\ frag # NoMessage /\ f.fin -> Assembles(f) \/ (frag.op = "TEXT" /\ Fails)
    [] ~ Continues(f) /\ frag = NoMessage /\ f.fin ->
         \/ /\ delivered' = [op |-> f.op, bytes |-> f.len]
            /\ Done(owned) /\ UNCHANGED <<frag, wsState>>
         \/ f.op = "TEXT" /\ Fails

(* A close frame starts the handshake, or ends it, or is a bad one. *)
CloseFrame(owned) ==
  \/ /\ Done(owned)
     /\ wsState' = "CLOSING"
     /\ UNCHANGED frag /\ delivered' = Nothing
  \/ Fails

(* A ping may be one too many; a connection that closes waits for the      *)
(* close frame alone.                                                      *)
Handles(f, owned) ==
  CASE f.op = "CLOSE" -> CloseFrame(owned)
    [] f.op # "CLOSE" /\ wsState = "CLOSING" -> Done(owned) /\ Quiet
    [] f.op = "PONG" /\ wsState = "OPEN" -> Done(owned) /\ Quiet
    [] f.op = "PING" /\ wsState = "OPEN" -> (Done(owned) /\ Quiet) \/ Fails
    [] OTHER -> DataFrame(f, owned)

Tells(f) ==
  told' = CASE wsState # "OPEN" \/ f.op \in Control -> told
            [] wsState = "OPEN" /\ f.op = "CONT" -> [told EXCEPT !.bytes = told.bytes + f.len]
            [] OTHER -> [op |-> f.op, bytes |-> f.len]

-----------------------------------------------------------------------------
(* Steps *)

Reading == wsState # "CLOSED" /\ body = NoFrame

(* A header that is refused, or that no client may send. *)
BadFrame == Reading /\ Fails /\ UNCHANGED told

FrameInChunk(f) == Reading /\ ~ Refused(f) /\ Handles(f, 0) /\ Tells(f)

FrameBegins(f) ==
  /\ Reading /\ ~ Refused(f) /\ f.len > 0
  /\ IF Affords(f.len)
     THEN /\ body' = f
          /\ leased' = leased + f.len
          /\ fragTimer' = TRUE
          /\ Quiet
     ELSE Fails
  /\ Tells(f)

FrameEnds ==
  /\ wsState # "CLOSED" /\ body # NoFrame
  /\ Handles(body, body.len)
  /\ UNCHANGED told

(* The deadline of the assembly. *)
AssemblyLate == fragTimer /\ Fails /\ UNCHANGED told

(* close() by the session. *)
CloseCalled ==
  /\ wsState = "OPEN"
  /\ wsState' = "CLOSING" /\ delivered' = Nothing
  /\ UNCHANGED <<body, frag, fragTimer, leased, told>>

(* _destroy: the socket ends, the handshake is over or late, terminate(). *)
Destroyed ==
  /\ wsState # "CLOSED"
  /\ wsState' = "CLOSED"
  /\ DropsReceived
  /\ delivered' = Nothing /\ UNCHANGED told

FramesNext ==
  \/ \E f \in Frame : FrameInChunk(f) \/ FrameBegins(f)
  \/ BadFrame \/ FrameEnds \/ AssemblyLate \/ CloseCalled \/ Destroyed

FramesSpec == FramesInit /\ [][FramesNext]_frameVars

-----------------------------------------------------------------------------
(* Records of the bridge *)

(* What comes of a record: it is delivered, and the receiver may then have *)
(* enough for now; or it, or what is done with it, is an error.            *)
How == {"taken", "pauses", "error"}
HeaderLength == 4
NoBody == 0

BridgeInit ==
  /\ records \in UNION {[1..n -> [len : RecordLength, how : How]] : n \in 0..MaxRecords}
  /\ received = 0 /\ ended = "no"
  /\ decoder = [headerFill |-> 0, body |-> NoBody, bodyFill |-> 0, failed |-> "no",
                paused |-> FALSE, timer |-> FALSE, delivered |-> 0]

Armed(d) == [d EXCEPT !.timer = d.timer \/ ~ d.paused]
Failing(d, why) == [d EXCEPT !.failed = why, !.timer = FALSE, !.body = NoBody]

(* The header is complete: its length is looked at before anything else.   *)
HeaderRead(d, len) ==
  IF len = 0 \/ len > MaxBody THEN Failing(d, "content")
  ELSE Armed([d EXCEPT !.headerFill = HeaderLength, !.body = len, !.bodyFill = 0])

(* The body is complete. *)
Delivers(d, how) ==
  LET free == [d EXCEPT !.body = NoBody, !.headerFill = 0, !.timer = FALSE] IN
  CASE how = "error"  -> Failing(free, "content")
    [] how = "pauses" -> [free EXCEPT !.delivered = d.delivered + 1, !.paused = TRUE]
    [] how = "taken"  -> [free EXCEPT !.delivered = d.delivered + 1]

TakesByte(d) ==
  LET r == records[d.delivered + 1] IN
  CASE d.body = NoBody /\ d.headerFill + 1 < HeaderLength -> Armed([d EXCEPT !.headerFill = d.headerFill + 1])
    [] d.body = NoBody /\ d.headerFill + 1 = HeaderLength -> HeaderRead(d, r.len)
    [] d.body # NoBody /\ d.bodyFill + 1 < d.body -> [d EXCEPT !.bodyFill = d.bodyFill + 1]
    [] d.body # NoBody /\ d.bodyFill + 1 = d.body -> Delivers(d, r.how)

BytesSent == HeaderLength * Len(records) + Sum([i \in DOMAIN records |-> records[i].len])

(* A chunk of n bytes; what it holds beyond an error is not looked at, but *)
(* a pause does not stop the rest of the chunk.                            *)
Push(n) ==
  /\ ended = "no" /\ decoder.failed = "no" /\ ~ decoder.paused
  /\ decoder' = FoldLeft(LAMBDA d, i : IF d.failed = "no" THEN TakesByte(d) ELSE d,
                         decoder, [i \in 1..n |-> i])
  /\ received' = received + n
  /\ UNCHANGED <<records, ended>>

Pause ==
  /\ ended = "no"
  /\ decoder' = [decoder EXCEPT !.paused = TRUE, !.timer = FALSE]
  /\ UNCHANGED <<records, received, ended>>

Partial(d) == d.body # NoBody \/ d.headerFill > 0

Resume ==
  LET d == [decoder EXCEPT !.paused = FALSE] IN
  /\ ended = "no" /\ decoder.paused
  /\ decoder' = (IF Partial(d) THEN Armed(d) ELSE d)
  /\ UNCHANGED <<records, received, ended>>

RecordLate ==
  /\ decoder.timer /\ decoder.failed = "no"
  /\ decoder' = Failing(decoder, "late")
  /\ UNCHANGED <<records, received, ended>>

(* The pipe ends. *)
InputEnds ==
  /\ ended = "no"
  /\ ended' = (IF Partial(decoder) THEN "truncated" ELSE "clean")
  /\ decoder' = [decoder EXCEPT !.timer = FALSE]
  /\ UNCHANGED <<records, received>>

BridgeNext ==
  \/ \E n \in 1 .. BytesSent - received : Push(n)
  \/ Pause \/ Resume \/ RecordLate \/ InputEnds

BridgeSpec == BridgeInit /\ [][BridgeNext]_bridgeVars

-----------------------------------------------------------------------------
(* Properties *)

(* What is leased is what is held: nothing leaks when a message fails, is  *)
(* interrupted by control frames or by the end of the connection, and the  *)
(* account is never overdrawn.                                             *)
HeldIsLeased == leased = body.len + PartBytes /\ leased <= AccountBytes

(* Who sends a message in part only cannot make the gateway hold it for    *)
(* ever: the deadline runs exactly as long as something is held.           *)
HeldIsTimed == fragTimer <=> (body # NoFrame \/ frag # NoMessage)

(* Parts stay within one message and its number of fragments. *)
HeldIsBounded ==
  /\ Sum(frag.parts) + (IF body.op \in Control THEN 0 ELSE body.len) <= MaxMessageBytes
  /\ Len(frag.parts) <= MaxFragments

(* The decoder has delivered the records that have arrived as a whole and  *)
(* precede an error; its deadline runs exactly while one is there in part, *)
(* unless the reader made the pause itself; and the end of the pipe is     *)
(* clean exactly between two records.                                      *)
RecordEnd(n) == HeaderLength * n + Sum([i \in 1..n |-> records[i].len])
IsError(r) == r.how = "error" \/ r.len = 0 \/ r.len > MaxBody
Whole == Max({n \in 0..Len(records) : RecordEnd(n) <= received})
Good == Max({n \in 0..Whole : \A i \in 1..n : ~ IsError(records[i])})
DecodesWholes ==
  /\ decoder.delivered = Good
  /\ decoder.failed = "no" =>
       /\ Whole = Good
       /\ ended = "no" => (decoder.timer <=> received # RecordEnd(Whole) /\ ~ decoder.paused)
       /\ ended # "no" => (ended = "clean" <=> received = RecordEnd(Whole))
  /\ decoder.failed = "content" => IsError(records[Good + 1])

(* The receiving side holds only what it may (above), and a message that   *)
(* is delivered is the one the peer sent, as a whole, whatever frames and  *)
(* chunks it came in (_frame, _keepFragment, _dropReceiveState; push).     *)
ReceivesWholes ==
  /\ DecodesWholes
  /\ HeldIsLeased /\ HeldIsTimed /\ HeldIsBounded
  /\ wsState = "CLOSED" => leased = 0
  /\ delivered # Nothing => delivered = told
=============================================================================
