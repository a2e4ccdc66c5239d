---------------------------- MODULE TerminalGrid ----------------------------
(* The terminal's screen model, user/sdk/src/terminal.c: cursor, history and  *)
(* scroll position under output bytes, cursor controls and window resizes.    *)
(*                                                                            *)
(* Cell contents and colours are left out.  An escape sequence arrives byte   *)
(* by byte in the code; here the sequence is one step, since no other step of  *)
(* the model can come between two bytes of it that changes what it does.      *)
(* Subtraction wraps as it does on uint32_t, with 2^w = Word.                  *)
EXTENDS Integers

CONSTANTS
    HistoryRows,    \* OS_TERMINAL_HISTORY_ROWS
    Columns, Rows,  \* the accepted sizes: dimensions_valid
    TabWidth,       \* OS_TERMINAL_TAB_WIDTH
    Word            \* values of a machine word: larger than any row and column

ASSUME TerminalGridAssumption ==
    /\ HistoryRows \in Nat \ {0} /\ TabWidth \in Nat \ {0}
    /\ Columns \subseteq Nat \ {0} /\ Rows \subseteq Nat \ {0}
    /\ \A n \in Rows : n <= HistoryRows

VARIABLES
    cols, rows,     \* columns, rows
    row, col,       \* cursor_history_row, cursor_column
    history,        \* history_count
    view,           \* view_offset
    saved,          \* saved_history_row, saved_column
    wrapped         \* CSI A has subtracted from a cursor above the screen

gridVars == <<cols, rows, row, col, history, view, saved, wrapped>>

Minus(a, b) == (a - b) % Word

(* The first visible row, and the largest scroll offset.                       *)
Offset(n) == IF history > n THEN history - n ELSE 0
VisibleStart == Offset(rows)

(* model_valid: what every entry point requires of the model.                  *)
Valid == history \in 1..HistoryRows /\ row < history /\ col < cols

GridInit ==
    /\ cols \in Columns /\ rows \in Rows
    /\ row = 0 /\ col = 0 /\ history = 1 /\ view = 0
    /\ saved = <<0, 0>> /\ wrapped = FALSE

(* os_terminal_model_resize *)
ClampedColumn(c) == IF col >= c THEN c - 1 ELSE col
ClampedView(n) == IF view > Offset(n) THEN Offset(n) ELSE view
Resize(c, n) ==
    /\ Valid
    /\ cols' = c /\ rows' = n
    /\ col' = ClampedColumn(c)
    /\ view' = ClampedView(n)
    /\ UNCHANGED <<row, history, saved, wrapped>>

(* new_line: the row after the cursor, or the last one once the history is     *)
(* full and has been shifted up by one.                                        *)
LineBelow == IF row + 1 < HistoryRows THEN row + 1 ELSE HistoryRows - 1
HistoryGrows == IF LineBelow >= history THEN LineBelow + 1 ELSE history
NewLine ==
    /\ Valid
    /\ row' = LineBelow /\ col' = 0
    /\ history' = HistoryGrows
    /\ view' = 0
    /\ UNCHANGED <<cols, rows, saved, wrapped>>

(* put_codepoint: the cell at the cursor, then a new line at the right edge.   *)
AtEdge == col + 1 >= cols
PutCodepoint ==
    /\ Valid
    /\ IF AtEdge THEN NewLine
       ELSE /\ col' = col + 1 /\ view' = 0
            /\ UNCHANGED <<cols, rows, row, history, saved, wrapped>>

(* A tab writes blanks up to the next stop or to the new line it causes.       *)
TabStop == ((col + TabWidth) \div TabWidth) * TabWidth
Tab ==
    /\ Valid
    /\ IF TabStop >= cols THEN NewLine
       ELSE /\ col' = TabStop /\ view' = 0
            /\ UNCHANGED <<cols, rows, row, history, saved, wrapped>>

CarriageReturn ==
    /\ Valid /\ col' = 0
    /\ UNCHANGED <<cols, rows, row, history, view, saved, wrapped>>
Backspace ==
    /\ Valid /\ col' = IF col > 0 THEN col - 1 ELSE col
    /\ UNCHANGED <<cols, rows, row, history, view, saved, wrapped>>

(* CSI H: rows and columns count from 1 and are clamped to the screen; rows    *)
(* that do not exist yet are added.                                            *)
Least(a, b) == IF a < b THEN a ELSE b
CursorPosition(r, c) ==
    /\ Valid
    /\ LET target == Least(VisibleStart + Least(r, rows) - 1, HistoryRows - 1) IN
       /\ row' = target
       /\ history' = IF history <= target THEN target + 1 ELSE history
    /\ col' = Least(c, cols) - 1
    /\ UNCHANGED <<cols, rows, view, saved, wrapped>>

(* CSI A: the distance to the first visible row is an unsigned subtraction.    *)
UpTo(n) == IF n > Minus(row, VisibleStart) THEN VisibleStart ELSE Minus(row, n)
CursorUp(n) ==
    /\ Valid
    /\ row' = UpTo(n)
    /\ wrapped' = (wrapped \/ row < VisibleStart)
    /\ UNCHANGED <<cols, rows, col, history, view, saved>>

(* CSI B, C and D.                                                             *)
DownTo(n) == IF n > (history - 1) - row THEN history - 1 ELSE row + n
CursorDown(n) ==
    /\ Valid /\ row' = DownTo(n)
    /\ UNCHANGED <<cols, rows, col, history, view, saved, wrapped>>
CursorRight(n) ==
    /\ Valid /\ col' = IF n >= cols - col THEN cols - 1 ELSE col + n
    /\ UNCHANGED <<cols, rows, row, history, view, saved, wrapped>>
CursorLeft(n) ==
    /\ Valid /\ col' = IF n > col THEN 0 ELSE col - n
    /\ UNCHANGED <<cols, rows, row, history, view, saved, wrapped>>

(* CSI 2J: clear_all. *)
ClearAll ==
    /\ Valid
    /\ row' = 0 /\ col' = 0 /\ history' = 1 /\ view' = 0
    /\ UNCHANGED <<cols, rows, saved, wrapped>>

(* CSI s and CSI u; a saved place outside the present model is ignored.        *)
SaveCursor ==
    /\ Valid /\ saved' = <<row, col>>
    /\ UNCHANGED <<cols, rows, row, col, history, view, wrapped>>
RestoredRow == IF saved[1] < history THEN saved[1] ELSE row
RestoreCursor ==
    /\ Valid
    /\ row' = RestoredRow
    /\ col' = IF saved[2] < cols THEN saved[2] ELSE col
    /\ UNCHANGED <<cols, rows, history, view, saved, wrapped>>

(* os_terminal_model_scroll *)
ScrollUp(n) ==
    /\ Valid
    /\ view' = IF n > Minus(VisibleStart, view) THEN VisibleStart ELSE view + n
    /\ UNCHANGED <<cols, rows, row, col, history, saved, wrapped>>
ScrollDown(n) ==
    /\ Valid
    /\ view' = IF n > view THEN 0 ELSE view - n
    /\ UNCHANGED <<cols, rows, row, col, history, saved, wrapped>>

Amount == 1..HistoryRows

GridNext ==
    \/ \E c \in Columns, n \in Rows : Resize(c, n)
    \/ PutCodepoint \/ NewLine \/ Tab \/ CarriageReturn \/ Backspace
    \/ \E r \in Rows, c \in Columns : CursorPosition(r, c)
    \/ \E n \in Amount :
          \/ CursorUp(n) \/ CursorDown(n) \/ CursorRight(n) \/ CursorLeft(n)
          \/ ScrollUp(n) \/ ScrollDown(n)
    \/ ClearAll \/ SaveCursor \/ RestoreCursor

GridSpec == GridInit /\ [][GridNext]_gridVars

----------------------------------------------------------------------------
(* The cursor stays on a row of the history and inside the columns through     *)
(* every sequence of output, cursor controls and resizes, as long as CSI A has *)
(* not run with the cursor above the screen.                                   *)
CursorInGrid == ~wrapped => Valid

(* The scrolled-back view never starts before the history, so that the rows    *)
(* os_terminal_model_render draws exist.                                       *)
ViewInHistory == ~wrapped => view <= VisibleStart

(* What model_valid demands, with no exception: refuted when CSI u, or a       *)
(* resize, leaves the cursor above the screen's first row and CSI A follows.   *)
CursorAlwaysInGrid == Valid
=============================================================================
