------------------------------- MODULE VtParser -------------------------------
(***************************************************************************)
(* The parser of what a terminal shows: class Parser of                    *)
(* src/runtime/hermit/src/renderer/vt/parser.js.                           *)
(*                                                                         *)
(* It reads one byte after another, across the chunks the bytes arrive in. *)
(* A byte is its class, as the switches of the parser tell them apart; a   *)
(* parameter string and a title are their lengths.  Every action reads one *)
(* byte in the state the bytes before have left.                           *)
(***************************************************************************)
EXTENDS Integers, SequencesExt

CONSTANTS
  MaxParams,       \* MAX_PARAMS: characters of a parameter string
  MaxOsc,          \* MAX_OSC: characters kept of a string
  MaxSequence      \* bound: bytes read outside of the ground state in a row

ASSUME ParserBounds == MaxParams \in Nat /\ MaxOsc \in Nat

(* ESC, 8-bit CSI, 8-bit ST, BEL, CAN and SUB, other controls; the bytes   *)
(* that mean something after ESC; parameter, intermediate and other final  *)
(* bytes; and what is none of these.                                       *)
Byte == {"ESC", "CSI", "ST", "BEL", "CAN", "C0", "[", "]", "P", "\\", "D",
         "param", "inter", "final", "text"}

Controls == {"BEL", "CAN", "C0"}
Finals == {"[", "]", "P", "\\", "D", "final"}

States == {"GROUND", "ESC", "CSI", "OSC", "DCS", "OSC_ESC", "DCS_ESC", "CSI_IGNORE"}

VARIABLES
  vt,              \* state: where the parser is
  params,          \* the length of the parameter string
  osc,             \* the characters kept of the string
  oscOverflow,     \* some were not kept
  since,           \* the bytes read since the parser was in the ground state
  done             \* what the last byte made the terminal do

parserVars == <<vt, params, osc, oscOverflow, since, done>>

ParserInit ==
  /\ vt = "GROUND" /\ params = 0 /\ osc = 0 /\ oscOverflow = FALSE
  /\ since = << >> /\ done = "nothing"

-----------------------------------------------------------------------------
(* Steps: to state s, with or without effect, the rest unchanged *)

Keep == UNCHANGED <<params, osc, oscOverflow>>

To(s, effect) == vt' = s /\ done' = effect

(* A new control sequence starts without parameters. *)
OpensCsi ==
  /\ To("CSI", "nothing")
  /\ params' = 0
  /\ UNCHANGED <<osc, oscOverflow>>

OpensOsc ==
  /\ To("OSC", "nothing")
  /\ osc' = 0 /\ oscOverflow' = FALSE
  /\ UNCHANGED params

(* Mutant: a string that was cut is acted upon. *)
TitledAlways == "title"

(* _dispatchOsc: a string that was cut is not acted upon. *)
Titled == IF oscOverflow THEN "nothing" ELSE "title"

ClosesOsc ==
  /\ To("GROUND", Titled)
  /\ osc' = 0 /\ oscOverflow' = FALSE
  /\ UNCHANGED params

Drops ==
  /\ osc' = 0 /\ oscOverflow' = FALSE
  /\ UNCHANGED params

-----------------------------------------------------------------------------
(* The states *)

(* _ground. *)
Ground(b) ==
  CASE b = "ESC" -> To("ESC", "nothing") /\ Keep
    [] b = "CSI" -> OpensCsi
    [] b \in Controls -> To("GROUND", "control") /\ Keep
    [] OTHER -> To("GROUND", "print") /\ Keep

(* _esc: one byte decides; a second ESC is none of them and ends it. *)
Esc(b) ==
  CASE b = "inter" -> To("ESC", "nothing") /\ Keep
    [] b = "[" -> OpensCsi
    [] b = "]" -> OpensOsc
    [] b = "P" -> To("DCS", "nothing") /\ Keep
    [] b = "D" -> To("GROUND", "control") /\ Keep
    [] OTHER -> To("GROUND", "nothing") /\ Keep

(* _csi: a parameter string that is too long makes the sequence ignored as *)
(* a whole; C0 controls act inside of a sequence.                          *)
Csi(b) ==
  CASE b = "param" -> IF params < MaxParams
                      THEN To("CSI", "nothing") /\ params' = params + 1 /\ UNCHANGED <<osc, oscOverflow>>
                      ELSE To("CSI_IGNORE", "nothing") /\ Keep
    [] b = "inter" -> To("CSI", "nothing") /\ Keep
    [] b = "ESC" -> To("ESC", "nothing") /\ Keep
    [] b \in {"BEL", "C0"} -> To("CSI", "control") /\ Keep
    [] b \in Finals -> To("GROUND", "sequence") /\ Keep
    [] OTHER -> To("GROUND", "nothing") /\ Keep

CsiIgnore(b) ==
  CASE b = "ESC" -> To("ESC", "nothing") /\ Keep
    [] b \in Finals \cup {"CAN"} -> To("GROUND", "nothing") /\ Keep
    [] OTHER -> To("CSI_IGNORE", "nothing") /\ Keep

(* CAN and SUB: the string is dropped (the flag that it was cut is not). *)
CancelsOsc ==
  /\ To("GROUND", "nothing")
  /\ osc' = 0
  /\ UNCHANGED <<params, oscOverflow>>

(* _oscState: beyond the bound the string is read on and not kept. *)
OscState(b) ==
  CASE b \in {"BEL", "ST"} -> ClosesOsc
    [] b = "ESC" -> To("OSC_ESC", "nothing") /\ Keep
    [] b = "CAN" -> CancelsOsc
    [] OTHER -> /\ To("OSC", "nothing")
                /\ IF osc < MaxOsc THEN osc' = osc + 1 /\ UNCHANGED oscOverflow
                                   ELSE oscOverflow' = TRUE /\ UNCHANGED osc
                /\ UNCHANGED params

(* _stringEsc and the _esc it goes on with: anything but the terminator    *)
(* drops the string and is the second byte of an escape sequence.          *)
StringEsc(b) ==
  CASE b = "\\" -> IF vt = "OSC_ESC" THEN ClosesOsc ELSE To("GROUND", "nothing") /\ Keep
    [] b = "[" -> To("CSI", "nothing") /\ params' = 0 /\ osc' = 0 /\ oscOverflow' = FALSE
    [] b = "]" -> OpensOsc
    [] b = "P" -> To("DCS", "nothing") /\ Drops
    [] b = "inter" -> To("ESC", "nothing") /\ Drops
    [] b = "D" -> To("GROUND", "control") /\ Drops
    [] OTHER -> To("GROUND", "nothing") /\ Drops

(* _dcs: read and ignored. *)
Dcs(b) ==
  CASE b \in {"BEL", "ST", "CAN"} -> To("GROUND", "nothing") /\ Keep
    [] b = "ESC" -> To("DCS_ESC", "nothing") /\ Keep
    [] OTHER -> To("DCS", "nothing") /\ Keep

Reads(b) ==
  /\ vt # "GROUND" => Len(since) < MaxSequence
  /\ CASE vt = "GROUND" -> Ground(b)
       [] vt = "ESC" -> Esc(b)
       [] vt = "CSI" -> Csi(b)
       [] vt = "CSI_IGNORE" -> CsiIgnore(b)
       [] vt = "OSC" -> OscState(b)
       [] vt = "DCS" -> Dcs(b)
       [] vt \in {"OSC_ESC", "DCS_ESC"} -> StringEsc(b)
  /\ since' = IF vt = "GROUND" THEN <<b>> ELSE Append(since, b)

ParserNext == \E b \in Byte : Reads(b)

ParserSpec == ParserInit /\ [][ParserNext]_parserVars

-----------------------------------------------------------------------------
(* Properties *)

Between(i, j) == ToSet(SubSeq(since, i, j))
Latest == Len(since)

(* Byte i is the c of an ESC c, intermediates allowed. *)
Opened(i, c) ==
  /\ since[i] = c
  /\ \E e \in 1..i - 1 : since[e] = "ESC" /\ Between(e + 1, i - 1) \subseteq {"inter"}

(* From byte i on only the bytes of one control sequence have come: at     *)
(* most MaxParams parameters, intermediates, controls that act inside of   *)
(* it, and the final byte at last.                                         *)
IsSequence(i) ==
  /\ Between(i, Latest - 1) \subseteq {"param", "inter", "BEL", "C0"}
  /\ Cardinality({k \in i..Latest : since[k] = "param"}) <= MaxParams
  /\ since[Latest] \in Finals

(* From byte i on only a string that was kept whole has come, and its      *)
(* terminator: BEL, ST or ESC \.                                           *)
IsTitle(i) ==
  \E n \in 1..2 :
    /\ \/ n = 1 /\ since[Latest] \in {"BEL", "ST"}
       \/ n = 2 /\ SubSeq(since, Latest - 1, Latest) = <<"ESC", "\\">>
    /\ Between(i, Latest - n) \cap {"BEL", "ST", "ESC", "CAN"} = {}
    /\ Latest - n - i + 1 <= MaxOsc

(* However the bytes are cut into chunks and whatever came before, the     *)
(* terminal acts only upon a control sequence or a title that came as a    *)
(* whole: opened, not aborted or cancelled in between, not cut by a bound, *)
(* and ended by its own terminator (_dispatchCsi, _dispatchOsc).           *)
ActsOnWholes ==
  /\ done = "sequence" =>
       \E i \in 1..Latest - 1 : (since[i] = "CSI" \/ Opened(i, "[")) /\ IsSequence(i + 1)
  /\ done = "title" => \E i \in 1..Latest - 1 : Opened(i, "]") /\ IsTitle(i + 1)
=============================================================================
