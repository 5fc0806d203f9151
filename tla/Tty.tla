-------------------------------- MODULE Tty --------------------------------
(***************************************************************************)
(* The text console, tty.c: the kernel's thread puts out characters while   *)
(* the keyboard's handler echoes, deletes and ends lines in between.        *)
(* Nothing excludes the one from the other.  Pixels are left out: a         *)
(* character is drawn into the cell <<column, row>>.                        *)
(***************************************************************************)
EXTENDS Integers, Sequences

CONSTANTS
  COLS,        \* 80
  ROWS,        \* 25
  MaxKeys      \* bound: keys handled during one call of tty_putc

ASSUME ScreenAssumption == COLS \in Nat /\ ROWS \in Nat /\ MaxKeys \in Nat /\ COLS > 5 /\ ROWS > 1

VARIABLES
  cursor, line,
  drawn,   \* the cell drawn into last, and the keys handled in the meantime
  step,    \* where the thread's call of tty_putc is
  keys     \* keys handled since the call began

ttyVars == <<cursor, line, drawn, step, keys>>

TAB == 4
Chars == {"newline", "tab", "glyph"}
Console(n) == [cursor |-> cursor, line |-> line, drawn |-> drawn, keys |-> n]
Becomes(c) == cursor' = c.cursor /\ line' = c.line /\ drawn' = c.drawn

set_cursor(c, new_cursor, new_line) ==
  [cursor |-> new_cursor, line |-> new_line, drawn |-> c.drawn, keys |-> c.keys]

(* Variant: a column too many. *)
Wrap_Late(c) == IF c.cursor > COLS THEN set_cursor(c, 1, c.line + 1) ELSE c

(* The four parts of tty_putc for a glyph. *)
Wrap(c) == IF c.cursor >= COLS THEN set_cursor(c, 1, c.line + 1) ELSE c

clear_screen(c) == IF c.line >= ROWS THEN set_cursor(c, 1, 1) ELSE c

Draw(c) ==
  [cursor |-> c.cursor, line |-> c.line,
   drawn  |-> [column |-> c.cursor, row |-> c.line, keys |-> c.keys], keys |-> c.keys]

Advance(c) == set_cursor(c, c.cursor + 1, c.line)

(* tty_putc as a whole. *)
tty_putc(c, ch) ==
  CASE ch = "newline" -> set_cursor(c, 1, c.line + 1)
    [] ch = "tab" -> set_cursor(c, c.cursor + TAB, c.line)
    [] ch = "glyph" -> Advance(Draw(clear_screen(Wrap(c))))

Back(c) == set_cursor(c, c.cursor - 1, c.line)

(* Variant: the cursor stays behind the space that was put. *)
tty_delc_Stays(c) == tty_putc(Back(c), "glyph")

tty_delc(c) ==
  CASE c.cursor = 0 /\ c.line = 0 -> Back(tty_putc(c, "glyph"))
    [] c.cursor = 0 /\ c.line > 0 -> Back(tty_putc(set_cursor(c, COLS - 1, c.line - 1), "glyph"))
    [] OTHER -> Back(tty_putc(Back(c), "glyph"))

(* The enter key: a new line, what the command puts out, and the prompt.    *)
(* The command's text is taken as one line.                                 *)
execute_command(c) ==
  LET output == tty_putc(tty_putc(tty_putc(c, "newline"), "glyph"), "newline")
  IN  tty_putc(output, "glyph")

TtyInit ==
  /\ cursor = 1 /\ line = 1 /\ step = "idle" /\ keys = 0
  /\ drawn = [column |-> 1, row |-> 1, keys |-> 0]

(* Bound: how far control characters move the cursor out of the screen. *)
Bounded == line <= ROWS + 1 /\ cursor <= COLS + TAB

PutControl(ch) ==
  /\ step = "idle" /\ ch # "glyph" /\ Bounded
  /\ Becomes(tty_putc(Console(0), ch))
  /\ UNCHANGED <<step, keys>>

TestWrap ==
  /\ step = "idle"
  /\ Becomes(Wrap(Console(0)))
  /\ step' = "clear" /\ keys' = 0

TestClear ==
  /\ step = "clear"
  /\ Becomes(clear_screen(Console(0)))
  /\ step' = "draw" /\ UNCHANGED keys

(* The loops read cursor and line again for every pixel: one pass, after    *)
(* which the drawing may be over.                                           *)
DrawGlyph ==
  /\ step = "draw"
  /\ Becomes(Draw(Console(keys)))
  /\ step' \in {"draw", "advance"} /\ UNCHANGED keys

AdvanceCursor ==
  /\ step = "advance"
  /\ Becomes(Advance(Console(0)))
  /\ step' = "idle" /\ UNCHANGED keys

(* The keyboard interrupts: push_char, del_char or execute_command. *)
Key ==
  /\ Bounded
  /\ keys < MaxKeys \/ step = "idle"
  /\ \/ \E ch \in {"tab", "glyph"} : Becomes(tty_putc(Console(0), ch))
     \/ Becomes(tty_delc(Console(0)))
     \/ Becomes(execute_command(Console(0)))
  /\ keys' = (IF step = "idle" THEN keys ELSE keys + 1)
  /\ UNCHANGED step

TtyNext ==
  \/ \E ch \in Chars : PutControl(ch)
  \/ TestWrap \/ TestClear \/ DrawGlyph \/ AdvanceCursor \/ Key

TtySpec == TtyInit /\ [][TtyNext]_ttyVars
-----------------------------------------------------------------------------
(* A character is drawn on the screen.  A key that is handled between the   *)
(* tests of tty_putc and the drawing can move it to the right of the        *)
(* screen, by no more than a tab, and never below it (tty_putc).            *)
DrawsOnScreen ==
  /\ drawn.column \in 0 .. (COLS - 1 + TAB * drawn.keys)
  /\ drawn.row \in 0 .. (ROWS - 1)

(* tty_delc takes back the character put before it: the same cell is drawn  *)
(* and the cursor is where it was, unless the character began a new row or  *)
(* screen.                                                                  *)
DeleteUndoesPut ==
  cursor < COLS /\ line < ROWS =>
    LET put     == tty_putc(Console(0), "glyph")
        deleted == tty_delc(put)
    IN  deleted.cursor = cursor /\ deleted.line = line /\ deleted.drawn = put.drawn
=============================================================================
