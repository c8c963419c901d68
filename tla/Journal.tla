------------------------------- MODULE Journal -------------------------------
(***************************************************************************)
(* The hub's journal file: class Journal of src/lib/journal.js.            *)
(*                                                                         *)
(* A record carries its sequence number and the hash of the record before  *)
(* it; with a collision-free hash both say exactly which events the writer *)
(* believed to precede it, and that is what prev holds here.  append()     *)
(* writes at the end of the file, syncs, and only then counts the event in *)
(* memory, so a write or sync that throws leaves the file ahead of the     *)
(* memory.  The constructor accepts a file only if every line is whole and *)
(* chained to the lines before it.  The file is named by its path at every *)
(* append: nothing keeps two objects from writing to the same one.         *)
(***************************************************************************)
EXTENDS Naturals, Sequences

CONSTANTS
  Event,       \* what may be appended
  MaxLines     \* maxBytes, counted in lines

ASSUME MaxLinesAssumption == MaxLines \in Nat

VARIABLES
  file,        \* the lines of jobs.jsonl
  events,      \* this.events of every Journal object there is, by its hub: seq is
               \* its length, head the hash of it
  returned     \* ghost: the history a caller relies on: what the last start
               \* replayed and every append that has returned since

journalVars == <<file, events, returned>>

(* torn: cut off, no newline yet.  garbage: a line that does not parse. *)
Line == [kind : {"whole", "torn", "garbage"}, prev : Seq(Event), event : Event]

JournalInit ==
  /\ file = <<>>
  /\ events = [hub \in {} |-> <<>>]
  /\ returned = <<>>

-----------------------------------------------------------------------------

Replay(f) == [i \in 1 .. Len(f) |-> f[i].event]

(* Mutant: every line that parses is taken. *)
ChainedAlways(f, i) == TRUE

(* What the constructor checks of every line. *)
Chained(f, i) == f[i].prev = Replay(SubSeq(f, 1, i - 1))

Accepted(f) ==
  \A i \in 1 .. Len(f) : f[i].kind = "whole" /\ Chained(f, i)

(* Bytes added to the file: behind a line without newline they only        *)
(* lengthen it.                                                            *)
Written(f, line) ==
  IF f # <<>> /\ f[Len(f)].kind = "torn"
  THEN [f EXCEPT ![Len(f)].kind = IF line.kind = "torn" THEN "torn" ELSE "garbage"]
  ELSE Append(f, line)

NewLine(hub, kind, e) == [kind |-> kind, prev |-> events[hub], event |-> e]

HasRoom == Len(file) < MaxLines     \* else JOURNAL_LIMIT, before any write

Running(hub) == hub \in DOMAIN events
-----------------------------------------------------------------------------

AppendReturns(hub, e) ==
  /\ Running(hub) /\ HasRoom
  /\ file' = Written(file, NewLine(hub, "whole", e))
  /\ events' = [events EXCEPT ![hub] = Append(@, e)]
  /\ returned' = Append(returned, e)

(* The write stops part way (a full disk), or the sync fails after it: the *)
(* caller gets the error, the bytes stay, and the hub goes on.             *)
AppendThrows(hub, e) ==
  /\ Running(hub) /\ HasRoom
  /\ \E kind \in {"torn", "whole"} : file' = Written(file, NewLine(hub, kind, e))
  /\ UNCHANGED <<events, returned>>

Forgets(hub) == events' = [h \in DOMAIN events \ {hub} |-> events[h]]

(* The process dies between two appends, or inside one. *)
Crash(hub) ==
  /\ Running(hub) /\ Forgets(hub)
  /\ \/ file' = file
     \/ /\ HasRoom
        /\ \E e \in Event, kind \in {"torn", "whole"} :
             file' = Written(file, NewLine(hub, kind, e))
  /\ UNCHANGED returned

(* The constructor; JOURNAL_TORN_TAIL or JOURNAL_INTEGRITY keep it from    *)
(* starting.                                                               *)
Open(hub) ==
  /\ ~ Running(hub)
  /\ Accepted(file)
  /\ events' = [h \in DOMAIN events \cup {hub} |-> IF h = hub THEN Replay(file) ELSE events[h]]
  /\ returned' = Replay(file)
  /\ UNCHANGED file

(* cfp archive-journal: the file is moved aside. *)
Archive ==
  /\ file # <<>>
  /\ file' = <<>>
  /\ returned' = <<>>
  /\ UNCHANGED events

(* One hub, which the lock and archive-journal see to. *)
JournalNext ==
  \/ \E e \in Event : AppendReturns("hub", e) \/ AppendThrows("hub", e)
  \/ Crash("hub") \/ Open("hub")
  \/ ~ Running("hub") /\ Archive

JournalSpec == JournalInit /\ [][JournalNext]_journalVars

-----------------------------------------------------------------------------

(* A start never invents or reorders history: a file the constructor       *)
(* accepts replays to what was returned, plus at most the last append,     *)
(* whose caller got an error or never an answer.                           *)
ReplayIsHistory ==
  Accepted(file) =>
    \/ Replay(file) = returned
    \/ \E e \in Event : Replay(file) = Append(returned, e)

(* "The hub persists the receipt before acknowledging"                     *)
(* (ARCHITECTURE.md:132): the events whose appends have returned are the   *)
(* first lines of the file, whole and chained, whatever an append that     *)
(* failed has left behind them for the operator to repair.                 *)
ReturnedIsRecoverable ==
  LET lines == SubSeq(file, 1, Len(returned))
  IN  Len(returned) <= Len(file) /\ Accepted(lines) /\ Replay(lines) = returned

=============================================================================
