------------------------------ MODULE LineReader ------------------------------
(***************************************************************************)
(* The line editor of the shell's prompt: class LineReader of              *)
(* src/runtime/hermit/src/main/spiral/line-reader.js, with the completion  *)
(* of kernel.js.  Module Shell has of it only what ends a line.            *)
(*                                                                         *)
(* The keys come in chunks as the network cut them.  Beside the reader     *)
(* that is fed with the chunks there is one that is fed with the same keys *)
(* one by one.  What is painted follows from the line, the cursor and the  *)
(* prompt and is left out.                                                 *)
(***************************************************************************)
EXTENDS Integers, SequencesExt, FiniteSetsExt

CONSTANTS
  EditKey,         \* the keys there are
  MaxChunk,        \* bound: keys in a chunk
  MaxTyped,        \* bound: keys altogether
  MaxChars,        \* limits.lineChars
  MaxEscape,       \* characters of an escape sequence, 16
  OldLines,        \* the history
  CommandNames,    \* what completes a first word
  FileNames        \* what completes another; a directory ends with "/"

VARIABLES
  chunked,         \* the reader
  single,          \* the reader fed key by key
  typed            \* how many keys there were

readerVars == <<chunked, single, typed>>

Unset == "none"
Blank == " "

(* Keys that are no characters; "esc" begins the sequence of one. *)
ControlKeys == {"enter", "backspace", "int", "eof", "home", "end", "left", "right",
                "killStart", "killEnd", "killWord", "tab", "esc"}

(* What it is made with for a line; dropped is history: a run was dropped. *)
NewReader ==
  [buf |-> << >>, cur |-> 0, esc |-> << >>, at |-> Len(OldLines) + 1, saved |-> << >>,
   lastTab |-> FALSE, value |-> Unset, dropped |-> FALSE]

Left(r) == SubSeq(r.buf, 1, r.cur)
Right(r) == SubSeq(r.buf, r.cur + 1, Len(r.buf))
Becomes(r, left, right) == [r EXCEPT !.buf = left \o right, !.cur = Len(left)]

-----------------------------------------------------------------------------
(* Editing *)

InsertText(r, text) ==
  IF Len(r.buf) + Len(text) > MaxChars THEN r ELSE Becomes(r, Left(r) \o text, Right(r))

(* The blanks before the cursor go, and the word before them. *)
KillWord(r) ==
  LET starts == {i \in 1..r.cur : r.buf[i] = Blank /\ \E j \in i + 1 .. r.cur : r.buf[j] # Blank} IN
  Becomes(r, SubSeq(r.buf, 1, Max(starts \cup {0})), Right(r))

(* The line that is being written is the one after the history. *)
WalkHistory(r, dir) ==
  LET here == Len(OldLines) + 1
      s == IF r.at = here THEN [r EXCEPT !.saved = r.buf] ELSE r
      next == r.at + dir
      line == IF next = here THEN s.saved ELSE OldLines[next] IN
  IF OldLines = << >> THEN r
  ELSE IF next \notin 1..here THEN s
       ELSE Becomes([s EXCEPT !.at = next], line, << >>)

KeyPressed(r, key) ==
  CASE key = "left"   -> [r EXCEPT !.cur = Max({0, r.cur - 1})]
    [] key = "right"  -> [r EXCEPT !.cur = Min({Len(r.buf), r.cur + 1})]
    [] key = "home"   -> [r EXCEPT !.cur = 0]
    [] key = "end"    -> [r EXCEPT !.cur = Len(r.buf)]
    [] key = "delete" -> Becomes(r, Left(r), SubSeq(r.buf, r.cur + 2, Len(r.buf)))
    [] key = "up"     -> WalkHistory(r, -1)
    [] key = "down"   -> WalkHistory(r, 1)

-----------------------------------------------------------------------------
(* Completion *)

(* What all the candidates begin with. *)
CommonPrefix(texts) ==
  LET one == CHOOSE t \in texts : TRUE
      n == Max({k \in 0..Len(one) : \A t \in texts : IsPrefix(SubSeq(one, 1, k), t)}) IN
  SubSeq(one, 1, n)

(* The word before the cursor. *)
LastWord(head) ==
  LET blanks == {i \in DOMAIN head : head[i] = Blank} IN
  IF blanks = {} THEN head ELSE SubSeq(head, Max(blanks) + 1, Len(head))

Candidates(head) ==
  {c \in IF Blank \in ToSet(head) THEN FileNames ELSE CommandNames : IsPrefix(LastWord(head), c)}

(* What the word is replaced by; Unset if it stays. *)
Replacement(head) ==
  LET found == Candidates(head)
      one == CHOOSE c \in found : TRUE IN
  CASE found = {} -> Unset
    [] Cardinality(found) = 1 -> IF Last(one) = "/" THEN one ELSE Append(one, Blank)
    [] OTHER -> IF Len(CommonPrefix(found)) > Len(LastWord(head)) THEN CommonPrefix(found) ELSE Unset

(* A second tab lists the candidates instead. *)
CompleteWord(r) ==
  LET head == Left(r)
      many == Cardinality(Candidates(head)) > 1
      new == Replacement(head)
      left == SubSeq(head, 1, Len(head) - Len(LastWord(head))) \o new IN
  IF Candidates(head) = {} THEN r
  ELSE IF many /\ r.lastTab THEN [r EXCEPT !.lastTab = FALSE]
  ELSE IF new = Unset \/ Len(left) + Len(Right(r)) > MaxChars THEN [r EXCEPT !.lastTab = many]
       ELSE Becomes([r EXCEPT !.lastTab = many], left, Right(r))

-----------------------------------------------------------------------------
(* Keys and chunks *)

ControlKey(r, key) ==
  CASE key = "enter"     -> [r EXCEPT !.value = "line"]
    [] key = "backspace" -> Becomes(r, SubSeq(r.buf, 1, r.cur - 1), Right(r))
    [] key = "int"       -> [r EXCEPT !.buf = << >>, !.cur = 0, !.value = "aborted"]
    [] key = "eof"       -> IF r.buf = << >> THEN [r EXCEPT !.value = "end"] ELSE r
    [] key = "killStart" -> Becomes(r, << >>, Right(r))
    [] key = "killEnd"   -> Becomes(r, Left(r), << >>)
    [] key = "killWord"  -> KillWord(r)
    [] key = "tab"       -> CompleteWord(r)
    [] key \in {"home", "end", "left", "right"} -> KeyPressed(r, key)
    [] OTHER -> InsertText(r, <<key>>)

Sequences ==
  [up |-> <<"esc", "[", "A">>, left |-> <<"esc", "[", "D">>, delete |-> <<"esc", "[", "3", "~">>]

(* A sequence that is none, or too long, is text but for its first         *)
(* character, whatever that text is; one that may still become one waits.  *)
TryEscape(r) ==
  LET s == r.esc
      known == {k \in DOMAIN Sequences : Sequences[k] = s}
      waits == \/ \E k \in DOMAIN Sequences : IsPrefix(s, Sequences[k])
               \/ Len(s) > 1 /\ s[2] = "[" /\ \A i \in 3..Len(s) : s[i] \in {"1", "3"} IN
  CASE Len(s) > MaxEscape -> InsertText([r EXCEPT !.esc = << >>], Tail(s))
    [] Len(s) <= MaxEscape /\ known # {} -> KeyPressed([r EXCEPT !.esc = << >>], CHOOSE k \in known : TRUE)
    [] Len(s) <= MaxEscape /\ known = {} /\ waits -> r
    [] OTHER -> InsertText([r EXCEPT !.esc = << >>], Tail(s))

(* How many characters follow each other from i on. *)
RunLength(keys, i) ==
  Max({n \in 0 .. Len(keys) - i + 1 : \A j \in i .. i + n - 1 : keys[j] \notin ControlKeys})

(* A run that does not fit is dropped as a whole, where single characters  *)
(* are taken until the line is full.                                       *)
Dropping(r, text) == [r EXCEPT !.dropped = @ \/ Len(r.buf) + Len(text) > MaxChars]

(* Mutant: a run is inserted as the one character it might be. *)
InsertRunAlone(r, text) == InsertText(Dropping(r, text), text)
InsertRun(r, text) == InsertText([Dropping(r, text) EXCEPT !.lastTab = FALSE], text)

(* feed(), from the i-th key on: a run of characters is inserted at once.  *)
RECURSIVE FeedFrom(_, _, _)
FeedFrom(r, keys, i) ==
  IF i > Len(keys) \/ r.value # Unset THEN r
  ELSE LET key == keys[i] IN
       CASE r.esc # << >> -> FeedFrom(TryEscape([r EXCEPT !.esc = Append(@, key)]), keys, i + 1)
         [] r.esc = << >> /\ key = "esc" -> FeedFrom([r EXCEPT !.esc = <<"esc">>], keys, i + 1)
         [] r.esc = << >> /\ RunLength(keys, i) > 1 ->
              LET n == RunLength(keys, i) IN
              FeedFrom(InsertRun(r, SubSeq(keys, i, i + n - 1)), keys, i + n)
         [] OTHER ->
              FeedFrom(ControlKey(IF key = "tab" THEN r ELSE [r EXCEPT !.lastTab = FALSE], key), keys, i + 1)

Feed(keys) ==
  /\ chunked.value = Unset /\ typed + Len(keys) <= MaxTyped
  /\ chunked' = FeedFrom(chunked, keys, 1)
  /\ single' = FoldLeft(LAMBDA r, key : FeedFrom(r, <<key>>, 1), single, keys)
  /\ typed' = typed + Len(keys)

ReaderInit == chunked = NewReader /\ single = NewReader /\ typed = 0

ReaderNext == \E n \in 1..MaxChunk : \E keys \in [1..n -> EditKey] : Feed(keys)

ReaderSpec == ReaderInit /\ [][ReaderNext]_readerVars

-----------------------------------------------------------------------------
(* Properties *)

(* As long as no run was dropped, the way in which the keys were cut into  *)
(* chunks has no influence on the line, the cursor, what is waited for and *)
(* what ends it; the cursor stays in the line and the line in its limit;   *)
(* and a completion only inserts at the cursor, and nothing that is not in *)
(* every candidate.                                                        *)
LineIsAsTyped ==
  /\ ~ chunked.dropped => chunked = single
  /\ Len(chunked.buf) <= MaxChars /\ chunked.cur \in 0..Len(chunked.buf)
  /\ LET done == CompleteWord(chunked)
         head == Left(chunked)
         new == SubSeq(done.buf, chunked.cur + 1, done.cur) IN
     /\ done.buf = head \o new \o Right(chunked)
     /\ \A c \in Candidates(head) : IsPrefix(LastWord(head) \o new, Append(c, Blank))
=============================================================================
