----------------------------- MODULE CommandLine -----------------------------
(***************************************************************************)
(* The shell's parser of a command line: tokenize, expandWord and parse of *)
(* src/runtime/hermit/src/main/spiral/pipeline.js.                         *)
(*                                                                         *)
(* The user composes a line by the grammar at the head of that file, each  *)
(* word from pieces that are quoted in one way or another; the state is    *)
(* that composition.  What the code makes of the characters is compared    *)
(* with what was composed.  The value of a word no longer says what of it  *)
(* was quoted, and expandWord goes by the value: Misread names the words   *)
(* that it takes for others.                                               *)
(***************************************************************************)
EXTENDS Integers, SequencesExt, FiniteSetsExt, TLC

CONSTANTS
  Piece,           \* pieces of words: [how, c]
  MaxPieces,       \* bound: pieces in a line
  Spacing          \* what may stand around an operator: texts

VARIABLES
  script,          \* the line as it is meant: segments [op, pipeline] of commands
  around,          \* the text around the operators
  cut              \* the line stops after the operator of a redirection

lineVars == <<script, around, cut>>

Null == "none"
Letters == {"a", "A"}
Home == <<"h">>

(* The environment: one variable, and "?". *)
Value(name) == IF name = <<"A">> THEN <<"v">> ELSE << >>
Status == <<"0">>

-----------------------------------------------------------------------------
(* tokenize *)

(* Mutant: the operators in another order. *)
OperatorsUnordered ==
  << <<"&", "&">>, <<";">>, <<"|">>, <<">">>, <<"<">>, <<"|", "|">>, <<">", ">">> >>

(* The longer ones come first. *)
Operators ==
  << <<"&", "&">>, <<"|", "|">>, <<">", ">">>, <<";">>, <<"|">>, <<">">>, <<"<">> >>

OpsAt(line, i) ==
  {k \in DOMAIN Operators : IsPrefix(Operators[k], SubSeq(line, i, i + Len(Operators[k]) - 1))}

(* What a backslash escapes between double quotes. *)
Escapable == {"\"", "\\", "$", "backquote"}

(* The rest of a double-quoted text from i on: its value and where it ends. *)
RECURSIVE DoubleQuoted(_, _, _)
DoubleQuoted(line, i, value) ==
  IF i > Len(line) \/ line[i] = "\"" THEN [value |-> value, next |-> i + 1]
  ELSE IF line[i] = "\\" /\ i < Len(line) /\ line[i + 1] \in Escapable
       THEN DoubleQuoted(line, i + 2, Append(value, line[i + 1]))
       ELSE DoubleQuoted(line, i + 1, Append(value, line[i]))

SingleQuoted(line, i) ==
  LET ends == {j \in i..Len(line) : line[j] = "'"}
      end == IF ends = {} THEN Len(line) + 1 ELSE Min(ends) IN
  [value |-> SubSeq(line, i, end - 1), next |-> end + 1]

(* The rest of a word from i on. *)
RECURSIVE Word(_, _, _)
Word(line, i, word) ==
  LET Quoted(text) == Word(line, text.next, [value |-> word.value \o text.value, quoted |-> TRUE]) IN
  IF i > Len(line) \/ line[i] \in {" ", "#"} \/ OpsAt(line, i) # {}
  THEN [token |-> [type |-> "word"] @@ word, next |-> i]
  ELSE CASE line[i] = "\\" -> Word(line, i + 2, [word EXCEPT !.value = @ \o SubSeq(line, i + 1, i + 1)])
         [] line[i] = "'"  -> Quoted(SingleQuoted(line, i + 1))
         [] line[i] = "\"" -> Quoted(DoubleQuoted(line, i + 1, << >>))
         [] OTHER          -> Word(line, i + 1, [word EXCEPT !.value = Append(@, line[i])])

(* The tokens of the line from i on; a comment ends it. *)
RECURSIVE Tokenize(_, _)
Tokenize(line, i) ==
  IF i > Len(line) \/ line[i] = "#" THEN << >>
  ELSE IF line[i] = " " THEN Tokenize(line, i + 1)
  ELSE IF OpsAt(line, i) # {}
       THEN LET op == Operators[Min(OpsAt(line, i))] IN
            <<[type |-> "op", value |-> op, quoted |-> FALSE]>> \o Tokenize(line, i + Len(op))
       ELSE LET w == Word(line, i, [value |-> << >>, quoted |-> FALSE]) IN
            <<w.token>> \o Tokenize(line, w.next)

-----------------------------------------------------------------------------
(* expandWord *)

(* The name that begins at i, as long as it goes. *)
NameAt(text, i) ==
  LET ends == {j \in i..Len(text) : text[j] \notin Letters} IN
  SubSeq(text, i, IF ends = {} THEN Len(text) ELSE Min(ends) - 1)

(* A reference that begins at i: its value, and the characters it takes;   *)
(* none if there is no reference.                                          *)
Reference(text, i) ==
  LET At(j) == IF j <= Len(text) THEN text[j] ELSE ""
      braced == NameAt(text, i + 2)
      bare == NameAt(text, i + 1) IN
  CASE At(i) # "$" -> [value |-> << >>, length |-> 0]
    [] At(i) = "$" /\ At(i + 1) = "{" /\ braced # << >> /\ At(i + 2 + Len(braced)) = "}" ->
         [value |-> Value(braced), length |-> 3 + Len(braced)]
    [] At(i) = "$" /\ bare # << >> -> [value |-> Value(bare), length |-> 1 + Len(bare)]
    [] At(i) = "$" /\ At(i + 1) = "?" -> [value |-> Status, length |-> 2]
    [] OTHER -> [value |-> << >>, length |-> 0]

RECURSIVE Substituted(_, _)
Substituted(text, i) ==
  IF i > Len(text) THEN << >>
  ELSE LET r == Reference(text, i) IN
       IF r.length = 0 THEN <<text[i]>> \o Substituted(text, i + 1)
       ELSE r.value \o Substituted(text, i + r.length)

ExpandWord(token) ==
  LET s == token.value
      tilde == ~ token.quoted /\ (s = <<"~">> \/ IsPrefix(<<"~", "/">>, s)) IN
  Substituted(IF tilde THEN Home \o Tail(s) ELSE s, 1)

-----------------------------------------------------------------------------
(* parse *)

NoCommand == [argv |-> << >>, redirects |-> << >>]

FlushCmd(s) ==
  [s EXCEPT !.cmd = NoCommand,
            !.current.pipeline = IF s.cmd = NoCommand THEN @ ELSE Append(@, s.cmd)]

FlushSeg(s, op) ==
  LET f == FlushCmd(s) IN
  [f EXCEPT !.current = [op |-> op, pipeline |-> << >>],
            !.segments = IF f.current.pipeline = << >> THEN @ ELSE Append(@, f.current)]

RedirectOf(op) ==
  CASE op = <<"<">> -> "in" [] op = <<">", ">">> -> "append" [] op = <<">">> -> "out" [] OTHER -> Null

(* One token; redirect is the redirection that waits for its target. *)
Token(s, t) ==
  CASE s.failed -> s
    [] ~ s.failed /\ s.redirect # Null ->
         IF t.type # "word" THEN [s EXCEPT !.failed = TRUE]
         ELSE [s EXCEPT !.redirect = Null,
                        !.cmd.redirects = Append(@, [type |-> s.redirect, target |-> ExpandWord(t)])]
    [] ~ s.failed /\ s.redirect = Null /\ t.type = "word" ->
         [s EXCEPT !.cmd.argv = Append(@, ExpandWord(t))]
    [] OTHER ->
         CASE t.value = <<"|">> -> FlushCmd(s)
           [] t.value = <<";">> -> FlushSeg(s, Null)
           [] t.value \in {<<"&", "&">>, <<"|", "|">>} -> FlushSeg(s, t.value)
           [] OTHER -> [s EXCEPT !.redirect = RedirectOf(t.value)]

SyntaxError == <<[op |-> "syntax error", pipeline |-> << >>]>>

(* The segments of the line; a redirection without target is an error. *)
Parse(line) ==
  LET s == FoldLeft(Token, [segments |-> << >>, current |-> [op |-> Null, pipeline |-> << >>],
                            cmd |-> NoCommand, redirect |-> Null, failed |-> FALSE],
                    Tokenize(line, 1)) IN
  IF s.failed \/ s.redirect # Null THEN SyntaxError ELSE FlushSeg(s, Null).segments

-----------------------------------------------------------------------------
(* The line as it is composed: a command is a sequence of items, each a    *)
(* word or a redirection to a word; a word is a sequence of pieces.        *)

(* What the user writes for a piece, and what it stands for. *)
AsWritten(p) ==
  CASE p.how = "plain"    -> <<p.c>>
    [] p.how = "escaped"  -> <<"\\", p.c>>
    [] p.how = "single"   -> <<"'", p.c, "'">>
    [] p.how = "double"   -> <<"\"">> \o (IF p.c \in Escapable THEN <<"\\", p.c>> ELSE <<p.c>>) \o <<"\"">>
    [] p.how = "variable" -> <<"$", p.c>>
    [] p.how = "braced"   -> <<"$", "{", p.c, "}">>
    [] p.how = "inside"   -> <<"\"", "$", p.c, "\"">>
    [] p.how = "status"   -> <<"$", "?">>

Meant(p) ==
  CASE p.how \in {"variable", "braced", "inside"} -> Value(<<p.c>>)
    [] p.how = "status" -> Status
    [] OTHER -> <<p.c>>

Flat(texts) == FoldLeft(LAMBDA text, t : text \o t, << >>, texts)
WrittenWord(w) == Flat([i \in DOMAIN w |-> AsWritten(w[i])])

(* A tilde that nothing quotes, alone or before a slash, is the home. *)
Plain(c) == [how |-> "plain", c |-> c]
FromHome(w) == w[1] = Plain("~") /\ (Len(w) = 1 \/ w[2] = Plain("/"))
MeantWord(w) ==
  Flat([i \in DOMAIN w |-> IF i = 1 /\ FromHome(w) THEN Home ELSE Meant(w[i])])

(* A comment may follow the line; an unquoted "#" would begin one. *)
Sign == [word |-> << >>, in |-> <<"<">>, out |-> <<">">>, append |-> <<">", ">">>]
WrittenItem(item) ==
  (IF item.kind = "word" THEN <<" ">> ELSE around \o Sign[item.kind] \o around) \o WrittenWord(item.word)
WrittenCommand(c) == Flat([i \in DOMAIN c |-> WrittenItem(c[i])])
WrittenPipeline(p) ==
  Flat([i \in DOMAIN p |-> (IF i = 1 THEN << >> ELSE around \o <<"|">>) \o WrittenCommand(p[i])])
Join(op) == IF op = Null THEN <<";">> ELSE op
Line ==
  Flat([i \in DOMAIN script |-> (IF i = 1 THEN << >> ELSE around \o Join(script[i].op))
                                \o WrittenPipeline(script[i].pipeline)])
  \o (IF cut THEN <<">">> ELSE << >>) \o <<" ", "#", ";", "a">>

MeantCommand(c) ==
  LET words == SelectSeq(c, LAMBDA i : i.kind = "word")
      redirects == SelectSeq(c, LAMBDA i : i.kind # "word") IN
  [argv |-> [i \in DOMAIN words |-> MeantWord(words[i].word)],
   redirects |-> [i \in DOMAIN redirects |->
                    [type |-> redirects[i].kind, target |-> MeantWord(redirects[i].word)]]]
MeantPlan ==
  [i \in DOMAIN script |->
     [op |-> script[i].op,
      pipeline |-> [j \in DOMAIN script[i].pipeline |-> MeantCommand(script[i].pipeline[j])]]]

-----------------------------------------------------------------------------
(* Composing a line *)

LineInit ==
  /\ script = << >> /\ cut = FALSE
  /\ around \in Spacing

Pieces == Len(Flat(Flat(Flat([i \in DOMAIN script |->
            [j \in DOMAIN script[i].pipeline |->
              [k \in DOMAIN script[i].pipeline[j] |-> script[i].pipeline[j][k].word]]]))))

ToLast(q, x) == Append(Front(q), x)
LastPipeline == Last(script).pipeline
LastCommand == Last(LastPipeline)
InLastPipeline(p) == script' = ToLast(script, [Last(script) EXCEPT !.pipeline = p])
InLastCommand(c) == InLastPipeline(ToLast(LastPipeline, c))

AddSegment(op, p) ==
  /\ script = << >> => op = Null
  /\ script' = Append(script, [op |-> op, pipeline |-> << <<[kind |-> "word", word |-> <<p>>]>> >>])
AddCommand(p) ==
  script # << >> /\ InLastPipeline(Append(LastPipeline, <<[kind |-> "word", word |-> <<p>>]>>))
AddItem(kind, p) ==
  script # << >> /\ InLastCommand(Append(LastCommand, [kind |-> kind, word |-> <<p>>]))

(* A plain letter belongs to the name of the variable before it. *)
Lengthens(w, p) == Last(w).how = "variable" /\ p.how = "plain" /\ p.c \in Letters

(* A further piece of the last word. *)
AddPiece(p) ==
  /\ script # << >>
  /\ ~ Lengthens(Last(LastCommand).word, p)
  /\ InLastCommand(ToLast(LastCommand, [Last(LastCommand) EXCEPT !.word = Append(@, p)]))

CutShort == script # << >> /\ cut' = TRUE /\ UNCHANGED script

LineNext ==
  /\ ~ cut /\ UNCHANGED around
  /\ \/ /\ Pieces < MaxPieces /\ UNCHANGED cut
        /\ \E p \in Piece :
             \/ AddPiece(p) \/ AddCommand(p)
             \/ \E op \in {Null, <<"&", "&">>, <<"|", "|">>} : AddSegment(op, p)
             \/ \E kind \in DOMAIN Sign : AddItem(kind, p)
     \/ CutShort

LineSpec == LineInit /\ [][LineNext]_lineVars

-----------------------------------------------------------------------------
(* Properties *)

Words ==
  UNION {{script[i].pipeline[j][k].word : k \in DOMAIN script[i].pipeline[j]} :
           <<i, j>> \in UNION {{i} \X DOMAIN script[i].pipeline : i \in DOMAIN script}}

(* Where expandWord goes by characters whose quoting is forgotten: a       *)
(* letter after a "$" that stood for itself, or after a variable from      *)
(* which a quote parts it; an escaped tilde that leads; and a tilde that   *)
(* leads a word of which something else is quoted.                         *)
Literal(p) == p.how \notin {"variable", "braced", "inside", "status"}
Misread(w) ==
  \/ \E i \in 1..(Len(w) - 1) :
       /\ Literal(w[i + 1]) /\ w[i + 1].c \in Letters \cup {"?", "{"}
       /\ w[i].how \in {"variable", "inside"} \/ (Literal(w[i]) /\ w[i].c = "$")
  \/ w[1] = [how |-> "escaped", c |-> "~"] /\ (Len(w) = 1 \/ w[2].c = "/")
  \/ FromHome(w) /\ \E i \in DOMAIN w : w[i].how \in {"single", "double", "inside"}

(* Whatever else the words are made of and however they are quoted,        *)
(* spaces, operators and tildes within quotes among it, the plan has the   *)
(* commands, words and redirections that were composed, with the operators *)
(* between them; and a redirection without a target is refused, with all   *)
(* of its line (tokenize, expandWord, parse).                              *)
PlanIsMeant ==
  (\A w \in Words : ~ Misread(w)) => Parse(Line) = IF cut THEN SyntaxError ELSE MeantPlan

(* "Supports single/double quotes, backslash escapes, [...] Expansion      *)
(* happens after tokenization so quoting is honored" (pipeline.js:13-16):  *)
(* the words of a plan are those that were composed.                       *)
QuotingIsHonored == ~ cut => Parse(Line) = MeantPlan
=============================================================================
