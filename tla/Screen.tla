-------------------------------- MODULE Screen --------------------------------
(***************************************************************************)
(* The screen buffer of the terminal: class Screen of                      *)
(* src/runtime/hermit/src/renderer/vt/screen.js.                           *)
(*                                                                         *)
(* The grid is kept as the number of cells of each of its rows: what is in *)
(* the cells is left out, and so are pen, tabs and title.  Rows and        *)
(* columns count from 0, as in the code.  A cell that is written beyond    *)
(* the end of its row makes the row longer; where the row is not there,    *)
(* the operation throws.                                                   *)
(*                                                                         *)
(* The cursor that was saved is restored unchecked, so that after a resize *)
(* it may be outside of the grid.  Two variables remember that; the code   *)
(* has neither, and no action depends on them.                             *)
(***************************************************************************)
EXTENDS Integers, SequencesExt

CONSTANTS
  Shape,           \* the sizes <<columns, rows>> the window takes
  Count,           \* the numbers in control sequences, 0 where there is none
  MaxScrollback,   \* MAX_SCROLLBACK: rows kept
  MaxCells         \* MAX_SCROLLBACK_CELLS: cells kept

\* The constructor and resize() make both sizes at least 1; the parser reads
\* digits only.
ASSUME ScreenAssumption ==
  /\ \A shape \in Shape : shape[1] \in Nat \ {0} /\ shape[2] \in Nat \ {0}
  /\ Count \subseteq Nat
  /\ MaxScrollback \in Nat /\ MaxCells \in Nat

VARIABLES
  cols, rows,
  grid,            \* the cells of each row
  cursor,          \* [x, y]
  saved,           \* the cursor that was saved, or NotSaved
  region,          \* [top, bottom]: scrollTop and scrollBottom
  wrapNext,        \* the next character goes to the next line
  scrollback,      \* the cells of each row kept
  scrollbackCells, \* and their sum, as counted
  strayed,         \* a cursor was restored outside of the grid, and since then
                   \* there was neither a reset nor a resize to fewer columns
  threw            \* the last operation threw an exception

screenVars == <<cols, rows, grid, cursor, saved, region, wrapNext, scrollback, scrollbackCells,
                strayed, threw>>

NotSaved == [x |-> -1, y |-> -1]

FullRegion(height) == [top |-> 0, bottom |-> height - 1]

ScreenInit ==
  \E shape \in Shape :
    /\ cols = shape[1] /\ rows = shape[2]
    /\ grid = [y \in 1..shape[2] |-> shape[1]]
    /\ cursor = [x |-> 0, y |-> 0] /\ saved = NotSaved
    /\ region = FullRegion(shape[2])
    /\ wrapNext = FALSE
    /\ scrollback = << >> /\ scrollbackCells = 0
    /\ strayed = FALSE /\ threw = FALSE

-----------------------------------------------------------------------------
(* Rows *)

Larger(i, j) == IF i > j THEN i ELSE j
Smaller(i, j) == IF i < j THEN i ELSE j
Cells(r) == FoldSeq(LAMBDA w, n : w + n, 0, r)

(* The row of the cursor, and a cell written at its column x. *)
RowIsThere == cursor.y < rows
Width == grid[cursor.y + 1]
RowBecomes(w) == grid' = [grid EXCEPT ![cursor.y + 1] = w]
Written(x) == Larger(Width, x + 1)

(* A row is taken out at one place and a blank one put in at another. *)
Replaced(g, out, in) == InsertAt(RemoveAt(g, out + 1), in + 1, cols)

(* The same, n times. *)
Rolled(out, in, n) == FoldSeq(LAMBDA i, g : Replaced(g, out, in), grid, [i \in 1..Smaller(n, rows) |-> i])

(* How many of the oldest rows go, for the rest to keep both bounds. *)
Dropped(kept, cells) ==
  Min({n \in 0..Len(kept) : /\ Len(kept) - n <= MaxScrollback
                            /\ cells - Cells(SubSeq(kept, 1, n)) <= MaxCells})

(* _pushScrollback of a row with w cells. *)
PushedRow(s, w) ==
  LET kept == Append(s.kept, w)
      cells == s.cells + w
      n == Dropped(kept, cells) IN
  [kept |-> SubSeq(kept, n + 1, Len(kept)), cells |-> cells - Cells(SubSeq(kept, 1, n))]

(* ... and of the rows gone, one after the other. *)
Pushed(gone) == FoldLeft(PushedRow, [kept |-> scrollback, cells |-> scrollbackCells], gone)

Keeps(gone) ==
  /\ scrollback' = Pushed(gone).kept
  /\ scrollbackCells' = Pushed(gone).cells

KeepsNone == UNCHANGED <<scrollback, scrollbackCells>>

(* scrollUp: rows that leave at the very top go to the scrollback. *)
ScrollsUp(n) ==
  /\ grid' = Rolled(region.top, region.bottom, n)
  /\ IF region.top = 0 THEN Keeps(SubSeq(grid, 1, Smaller(n, region.bottom + 1))
                                  \o [i \in 1..Larger(Smaller(n, rows) - region.bottom - 1, 0) |-> cols])
                       ELSE KeepsNone

(* _lineFeedScroll, of the cursor with column x. *)
FeedsLine(x) ==
  IF cursor.y = region.bottom
  THEN cursor' = [x |-> x, y |-> cursor.y] /\ ScrollsUp(1)
  ELSE /\ cursor' = [x |-> x, y |-> IF cursor.y < rows - 1 THEN cursor.y + 1 ELSE cursor.y]
       /\ UNCHANGED grid /\ KeepsNone

Sized == UNCHANGED <<cols, rows, strayed>> /\ threw' = FALSE
Moves == Sized /\ UNCHANGED <<grid, saved, region>> /\ KeepsNone
Edits == Sized /\ UNCHANGED <<cursor, saved, region, wrapNext>>

-----------------------------------------------------------------------------
(* Printing and controls *)

(* _putChar, where no line is due before. *)
PrintHere ==
  /\ ~ wrapNext /\ RowIsThere
  /\ RowBecomes(Written(cursor.x))
  /\ wrapNext' = (cursor.x + 1 >= cols)
  /\ cursor' = [cursor EXCEPT !.x = IF cursor.x + 1 >= cols THEN cursor.x ELSE cursor.x + 1]
  /\ Sized /\ UNCHANGED <<saved, region>> /\ KeepsNone

(* _putChar, with the wrap that was deferred; the cell that is written     *)
(* then is in the first column, and no row is shorter than that.           *)
PrintWrapped ==
  /\ wrapNext /\ RowIsThere
  /\ FeedsLine(IF cols = 1 THEN 0 ELSE 1)
  /\ wrapNext' = (cols = 1)
  /\ Sized /\ UNCHANGED <<saved, region>>

(* _putChar with the cursor below the grid: after the wrap, where one is   *)
(* due, it throws.                                                         *)
PrintNowhere ==
  /\ ~ RowIsThere
  /\ cursor' = (IF wrapNext THEN [cursor EXCEPT !.x = 0] ELSE cursor) /\ wrapNext' = FALSE
  /\ threw' = TRUE
  /\ UNCHANGED <<cols, rows, grid, saved, region, strayed>> /\ KeepsNone

CarriageReturn == cursor' = [cursor EXCEPT !.x = 0] /\ wrapNext' = FALSE /\ Moves

LineFeed ==
  /\ FeedsLine(cursor.x)
  /\ wrapNext' = FALSE
  /\ Sized /\ UNCHANGED <<saved, region>>

(* nextLine, and index, which keeps the column and the deferred wrap. *)
NextLine ==
  /\ FeedsLine(0)
  /\ wrapNext' = FALSE
  /\ Sized /\ UNCHANGED <<saved, region>>
Index ==
  /\ FeedsLine(cursor.x)
  /\ Sized /\ UNCHANGED <<saved, region, wrapNext>>

-----------------------------------------------------------------------------
(* Moving the cursor.  A number that is missing or 0 counts as 1. *)

Count1(n) == Larger(n, 1)
ToColumn(x) == cursor' = [cursor EXCEPT !.x = x] /\ wrapNext' = FALSE /\ Moves
ToRow(y) == cursor' = [cursor EXCEPT !.y = y] /\ wrapNext' = FALSE /\ Moves

Backspace == ToColumn(Larger(0, cursor.x - 1))

(* tab: programs set the stops, so that the next may be anywhere. *)
Tab == \E x \in Smaller(cols - 1, cursor.x + 1)..cols - 1 : ToColumn(x)

(* Up and down end at the region, from wherever the cursor was. *)
Above(n) == Larger(region.top, cursor.y - Count1(n))
Below(n) == Smaller(region.bottom, cursor.y + Count1(n))
CursorUp(n) == ToRow(Above(n))
CursorDown(n) == ToRow(Below(n))
CursorForward(n) == ToColumn(Smaller(cols - 1, cursor.x + Count1(n)))
CursorBack(n) == ToColumn(Larger(0, cursor.x - Count1(n)))
CursorCol(n) == ToColumn(Smaller(cols, Count1(n)) - 1)
CursorRow(n) == ToRow(Smaller(rows, Count1(n)) - 1)

ToCell(x, y) == cursor' = [x |-> x, y |-> y] /\ wrapNext' = FALSE /\ Moves
CursorPos(row, col) == ToCell(Smaller(cols, Count1(col)) - 1, Smaller(rows, Count1(row)) - 1)
CursorNextLine(n) == ToCell(0, Below(n))
CursorPrevLine(n) == ToCell(0, Above(n))

SaveCursor == saved' = cursor /\ Sized /\ UNCHANGED <<grid, cursor, region, wrapNext>> /\ KeepsNone

(* The code does not ask whether the cursor that was saved is still inside *)
(* of the grid.                                                            *)
RestoreCursor ==
  /\ saved # NotSaved
  /\ cursor' = saved
  /\ strayed' = (strayed \/ saved.x >= cols \/ saved.y >= rows)
  /\ threw' = FALSE
  /\ UNCHANGED <<cols, rows, grid, saved, region, wrapNext>> /\ KeepsNone

-----------------------------------------------------------------------------
(* Erasing, inserting, deleting, scrolling *)

(* The row of the cursor gets another number of cells.  Where it is not    *)
(* there, the operation throws if it touches the row.                      *)
RowIs(w, touched) ==
  \/ RowIsThere /\ RowBecomes(w) /\ Edits /\ KeepsNone
  \/ /\ ~ RowIsThere
     /\ threw' = touched
     /\ UNCHANGED <<cols, rows, strayed, grid, cursor, saved, region, wrapNext>> /\ KeepsNone

(* eraseInLine writes cells up to the last column (0), up to the cursor    *)
(* (1), or all.                                                            *)
ErasedTo(mode) == IF mode = 1 THEN cursor.x + 1 ELSE cols
EraseInLine(mode) == RowIs(Larger(Width, ErasedTo(mode)), mode # 0 \/ cursor.x < cols)

EraseChars(n) == RowIs(Larger(Width, Smaller(cols, cursor.x + Count1(n))), cursor.x < cols)

(* One cell in, the last one out; one cell out, one in at the end, where   *)
(* there may be none to take out.                                          *)
InsertChars(n) == RowIs(Width, TRUE)
DeleteChars(n) ==
  RowIs(IF cursor.x < Width THEN Width ELSE Smaller(Width + Smaller(Count1(n), cols), cursor.x + 1), TRUE)

(* eraseInDisplay 0, 1 and 2: the row of the cursor is erased in part, and *)
(* the rows below, above or all are replaced by blank ones.                *)
EraseRows(some, mode) ==
  /\ grid' = [y \in 1..rows |-> IF y \in some THEN cols
                               ELSE IF y = cursor.y + 1 THEN Larger(grid[y], ErasedTo(mode)) ELSE grid[y]]
  /\ Edits /\ KeepsNone

EraseDisplay(mode) ==
  \/ mode \in {0, 1} /\ ~ RowIsThere /\ EraseInLine(mode)
  \/ mode = 0 /\ RowIsThere /\ EraseRows((cursor.y + 2)..rows, mode)
  \/ mode = 1 /\ RowIsThere /\ EraseRows(1..cursor.y, mode)
  \/ mode \notin {0, 1} /\ EraseRows(1..rows, mode)

(* eraseInDisplay 3: the rows kept are forgotten, the count of their cells *)
(* is not.                                                                 *)
EraseAll ==
  /\ grid' = [y \in 1..rows |-> cols]
  /\ scrollback' = << >>
  /\ Edits /\ UNCHANGED scrollbackCells

InRegion == region.top <= cursor.y /\ cursor.y <= region.bottom

InsertLines(n) == InRegion /\ grid' = Rolled(region.bottom, cursor.y, Count1(n)) /\ Edits /\ KeepsNone
DeleteLines(n) == InRegion /\ grid' = Rolled(cursor.y, region.bottom, Count1(n)) /\ Edits /\ KeepsNone

ScrollUp(n) == ScrollsUp(Count1(n)) /\ Edits
ScrollDown(n) == grid' = Rolled(region.bottom, region.top, Count1(n)) /\ Edits /\ KeepsNone

ReverseIndex ==
  IF cursor.y = region.top
  THEN ScrollDown(1)
  ELSE cursor' = [cursor EXCEPT !.y = Larger(0, cursor.y - 1)] /\ UNCHANGED wrapNext /\ Moves

(* setScrollRegion: a bottom that is missing or 0 is the last row. *)
SetScrollRegion(n, m) ==
  LET top == Count1(n)
      bottom == IF m = 0 THEN rows ELSE m IN
  /\ top < bottom /\ bottom <= rows
  /\ region' = [top |-> top - 1, bottom |-> bottom - 1]
  /\ cursor' = [x |-> 0, y |-> top - 1]
  /\ Sized /\ UNCHANGED <<grid, saved, wrapNext>> /\ KeepsNone

-----------------------------------------------------------------------------
(* Reset and resize *)

Reset ==
  /\ cursor' = [x |-> 0, y |-> 0]
  /\ region' = FullRegion(rows)
  /\ grid' = [y \in 1..rows |-> cols]
  /\ strayed' = FALSE /\ threw' = FALSE
  /\ UNCHANGED <<cols, rows, saved, wrapNext>> /\ KeepsNone

(* Mutant: the region stays as it was. *)
RegionKept(height) == region

(* The region a resize leaves. *)
RegionFor(height) == FullRegion(height)

(* resize: rows go at the top, into the scrollback, and come at the        *)
(* bottom; then every row is cut or made longer, where it is not longer.   *)
Resize(width, height) ==
  LET n == Larger(0, rows - height)
      row(y) == IF y + n <= rows THEN grid[y + n] ELSE cols IN
  /\ cols' = width /\ rows' = height
  /\ Keeps(SubSeq(grid, 1, n))
  /\ grid' = [y \in 1..height |-> IF width < cols THEN width ELSE Larger(row(y), width)]
  /\ region' = RegionFor(height)
  /\ cursor' = [x |-> Smaller(cursor.x, width - 1), y |-> Smaller(cursor.y, height - 1)]
  /\ strayed' = (strayed /\ width >= cols) /\ threw' = FALSE
  /\ UNCHANGED <<saved, wrapNext>>

-----------------------------------------------------------------------------
(* What the parser makes of the bytes *)

(* _c0: the bell changes nothing here. *)
C0 == Backspace \/ Tab \/ LineFeed \/ CarriageReturn

(* _esc: 7, 8, D, E, M and c. *)
Escape == SaveCursor \/ RestoreCursor \/ Index \/ NextLine \/ ReverseIndex \/ Reset

(* _dispatchCsi: the operation of the final byte, with its first number;   *)
(* two of them have a second one.  Pen and modes (m, h, l) are left out.   *)
Sequence(final, n) ==
  \/ final = "A" /\ CursorUp(n)
  \/ final = "B" /\ CursorDown(n)
  \/ final = "C" /\ CursorForward(n)
  \/ final = "D" /\ CursorBack(n)
  \/ final = "E" /\ CursorNextLine(n)
  \/ final = "F" /\ CursorPrevLine(n)
  \/ final = "G" /\ CursorCol(n)
  \/ final = "d" /\ CursorRow(n)
  \/ final = "H" /\ \E m \in Count : CursorPos(n, m)
  \/ final = "J" /\ (IF n = 3 THEN EraseAll ELSE EraseDisplay(n))
  \/ final = "K" /\ EraseInLine(n)
  \/ final = "L" /\ InsertLines(n)
  \/ final = "M" /\ DeleteLines(n)
  \/ final = "@" /\ InsertChars(n)
  \/ final = "P" /\ DeleteChars(n)
  \/ final = "X" /\ EraseChars(n)
  \/ final = "S" /\ ScrollUp(n)
  \/ final = "T" /\ ScrollDown(n)
  \/ final = "r" /\ \E m \in Count : SetScrollRegion(n, m)
  \/ final = "s" /\ SaveCursor
  \/ final = "u" /\ RestoreCursor

Final == {"A", "B", "C", "D", "E", "F", "G", "d", "H", "J", "K", "L", "M", "@", "P", "X", "S", "T",
          "r", "s", "u"}

ScreenNext ==
  \/ PrintHere \/ PrintWrapped \/ PrintNowhere \/ C0 \/ Escape
  \/ \E final \in Final, n \in Count : Sequence(final, n)
  \/ \E shape \in Shape : Resize(shape[1], shape[2])

ScreenSpec == ScreenInit /\ [][ScreenNext]_screenVars

-----------------------------------------------------------------------------
(* Properties *)

(* Whatever a program prints and however the window is resized in between: *)
(* the grid has as many rows as the screen, none shorter than the screen   *)
(* is wide; the region is inside of it; and the scrollback keeps both its  *)
(* bounds, as rows and as cells (the count of the cells may only be too    *)
(* high).  As long as no cursor is restored outside of the grid (or again  *)
(* after a reset or a resize to fewer columns) the rows are as long as the *)
(* screen is wide, the cursor is inside, and nothing throws.               *)
ScreenFits ==
  /\ Len(grid) = rows /\ \A y \in 1..rows : grid[y] >= cols
  /\ 0 <= region.top /\ region.top <= region.bottom /\ region.bottom < rows
  /\ Len(scrollback) <= MaxScrollback
  /\ Cells(scrollback) <= scrollbackCells /\ scrollbackCells <= MaxCells
  /\ ~ strayed => /\ \A y \in 1..rows : grid[y] = cols
                  /\ cursor.x \in 0..cols - 1 /\ cursor.y \in 0..rows - 1
                  /\ ~ threw
=============================================================================
