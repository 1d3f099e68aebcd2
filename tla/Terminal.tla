------------------------------- MODULE Terminal -------------------------------
(***************************************************************************)
(* A console's terminal: the ring of text rows (console/console/           *)
(* textmode.rs) and the cursor and escape sequences that write into it     *)
(* (console/console/term.rs), against the page of text it stands for.      *)
(* Every printable character is "a"; colours are left out.                 *)
(***************************************************************************)
EXTENDS Naturals, Sequences

CONSTANTS
    Cols, Rows,
    Scrollback,    \* rows kept above the screen: ROWS in the code
    ByteWidth,     \* cursor arithmetic is modulo this: 256
    MaxParams,     \* bound on the parameter bytes of a sequence
    TerminalFlaws  \* "wide": parameters of several digits

ASSUME TerminalAssumption ==
    /\ {Cols, Rows, Scrollback} \subseteq Nat \ {0}
    /\ ByteWidth \in Nat /\ Cols < ByteWidth /\ Rows < ByteWidth

VARIABLES
    term,         \* ring, top_row, scrollback_count, cursor_x, cursor_y
    parse_state,
    ansi_params,
    page          \* what was written: lines, the last Rows of them the screen, x, y

termVars == <<term, parse_state, ansi_params, page>>

Capacity == Rows + Scrollback
Blank == [x \in 0 .. Cols - 1 |-> " "]
Lower(a, b) == IF a < b THEN a ELSE b

-----------------------------------------------------------------------------
(* TextBuffer. *)

\* row(): by its number among the scrollback and screen rows.
RowIndex(t, v) == (t.top_row + Capacity - t.scrollback_count + v) % Capacity

\* get_text_buffer: the screen's rows in one piece.
Contiguous(t) ==
    IF t.top_row + Rows > Capacity
    THEN [t EXCEPT !.ring = [i \in 0 .. Capacity - 1 |-> t.ring[(i + t.top_row) % Capacity]],
                   !.top_row = 0]
    ELSE t

\* Slip: a scroll too many is counted as a row kept.
ScrollBuffer_Counts(t) ==
    LET top == (t.top_row + 1) % Capacity
    IN  [t EXCEPT !.top_row = top,
                  !.scrollback_count = IF @ < Capacity - Rows + 1 THEN @ + 1 ELSE @,
                  !.ring[(top + Rows - 1) % Capacity] = Blank]

ScrollBuffer(t) ==
    LET top == (t.top_row + 1) % Capacity
    IN  [t EXCEPT !.top_row = top,
                  !.scrollback_count = IF @ < Capacity - Rows THEN @ + 1 ELSE @,
                  !.ring[(top + Rows - 1) % Capacity] = Blank]

\* Cells of the screen from one place to another, by get_cursor_offset.
Fill(t, from, to, glyph) ==
    LET u == Contiguous(t)
        Offset(r, x) == (r - u.top_row) * Cols + x
    IN  [u EXCEPT !.ring = [r \in 0 .. Capacity - 1 |-> [x \in 0 .. Cols - 1 |->
            IF r >= u.top_row /\ Offset(r, x) \in from .. to THEN glyph ELSE u.ring[r][x]]]]

-----------------------------------------------------------------------------
(* The terminal. *)

CursorOffset(t) == t.cursor_y * Cols + t.cursor_x

NewLine(t) ==
    IF t.cursor_y + 1 >= Rows
    THEN [ScrollBuffer(t) EXCEPT !.cursor_y = Rows - 1]
    ELSE [t EXCEPT !.cursor_y = @ + 1]

Advance(t) ==
    IF t.cursor_x + 1 >= Cols THEN NewLine([t EXCEPT !.cursor_x = 0])
    ELSE [t EXCEPT !.cursor_x = @ + 1]

BackSpace(t) ==
    IF t.cursor_x > 0 THEN [t EXCEPT !.cursor_x = @ - 1]
    ELSE IF t.cursor_y > 0 THEN [t EXCEPT !.cursor_y = @ - 1, !.cursor_x = Cols - 1]
    ELSE t

PutRawCharacter(t) == Advance(Fill(t, CursorOffset(t), CursorOffset(t), "a"))

\* parse_csi_params: numbers between semicolons, 0 for none.
RECURSIVE ParseCsiParams(_, _)
ParseCsiParams(bytes, current) ==
    IF bytes = <<>> THEN <<current>>
    ELSE IF Head(bytes) = ";" THEN <<current>> \o ParseCsiParams(Tail(bytes), 0)
    ELSE ParseCsiParams(Tail(bytes), 10 * current + (IF Head(bytes) = "1" THEN 1 ELSE 2))

Param(params, i) == IF i <= Len(params) THEN params[i] ELSE 0
AtLeastOne(n) == IF n = 0 THEN 1 ELSE n
Saturated(a, n) == IF n > a THEN 0 ELSE a - n
AsByte(n) == n % ByteWidth

EraseLine(t, mode) ==
    LET start == t.cursor_y * Cols IN
    CASE mode = 0 -> Fill(t, CursorOffset(t), start + Cols - 1, " ")
      [] mode = 1 -> Fill(t, start, CursorOffset(t), " ")
      [] mode = 2 -> Fill(t, start, start + Cols - 1, " ")
      [] OTHER -> Contiguous(t)

\* handle_csi: cursor moves are computed in a byte.
HandleCsi(t, final, params) ==
    LET p == Param(params, 1)
        n == AsByte(AtLeastOne(p))
        At(i, size) == Lower(AsByte(AtLeastOne(Param(params, i)) - 1), size - 1)
    IN  CASE final = "A" -> [t EXCEPT !.cursor_y = Saturated(@, n)]
          [] final = "B" -> [t EXCEPT !.cursor_y = Lower(AsByte(@ + n), Rows - 1)]
          [] final = "C" -> [t EXCEPT !.cursor_x = Lower(AsByte(@ + n), Cols - 1)]
          [] final = "D" -> [t EXCEPT !.cursor_x = Saturated(@, n)]
          [] final = "H" -> [t EXCEPT !.cursor_y = At(1, Rows), !.cursor_x = At(2, Cols)]
          [] final = "G" -> [t EXCEPT !.cursor_x = At(1, Cols)]
          [] final = "J" -> IF p = 2 THEN [Fill(t, 0, Rows * Cols - 1, " ") EXCEPT !.cursor_x = 0, !.cursor_y = 0]
                            ELSE t
          [] final = "K" -> EraseLine(t, p)
          [] OTHER -> t

-----------------------------------------------------------------------------
(* The page: lines of text without an end, of which the last are on screen. *)

PageLine(p, y) == Len(p.lines) - Rows + y + 1

\* Lines beyond those the terminal keeps are forgotten.
PageDown(p) ==
    IF p.y < Rows - 1 THEN [p EXCEPT !.y = @ + 1]
    ELSE [p EXCEPT !.lines = IF Len(@) = Capacity THEN Append(Tail(@), Blank) ELSE Append(@, Blank)]

PagePut(p) ==
    LET q == [p EXCEPT !.lines[PageLine(p, p.y)][p.x] = "a"]
    IN  IF p.x < Cols - 1 THEN [q EXCEPT !.x = @ + 1] ELSE PageDown([q EXCEPT !.x = 0])

PageErase(p, cells) ==
    [p EXCEPT !.lines = [i \in DOMAIN p.lines |-> [x \in 0 .. Cols - 1 |->
        IF \E y \in 0 .. Rows - 1 : i = PageLine(p, y) /\ <<x, y>> \in cells THEN " " ELSE p.lines[i][x]]]]

PageMove(p, x, y) == [p EXCEPT !.x = Lower(x, Cols - 1), !.y = Lower(y, Rows - 1)]

PageCsi(p, final, params) ==
    LET m == Param(params, 1)
        n == AtLeastOne(m)
        Onto(i) == AtLeastOne(Param(params, i)) - 1
        line(from, to) == (from .. to) \X {p.y}
    IN  CASE final = "A" -> PageMove(p, p.x, Saturated(p.y, n))
          [] final = "B" -> PageMove(p, p.x, p.y + n)
          [] final = "C" -> PageMove(p, p.x + n, p.y)
          [] final = "D" -> PageMove(p, Saturated(p.x, n), p.y)
          [] final = "H" -> PageMove(p, Onto(2), Onto(1))
          [] final = "G" -> PageMove(p, Onto(1), p.y)
          [] final = "J" /\ m = 2 -> PageMove(PageErase(p, (0 .. Cols - 1) \X (0 .. Rows - 1)), 0, 0)
          [] final = "K" /\ m = 0 -> PageErase(p, line(p.x, Cols - 1))
          [] final = "K" /\ m = 1 -> PageErase(p, line(0, p.x))
          [] final = "K" /\ m = 2 -> PageErase(p, line(0, Cols - 1))
          [] OTHER -> p

-----------------------------------------------------------------------------

TermInit ==
    /\ term = [ring |-> [i \in 0 .. Capacity - 1 |-> Blank], top_row |-> 0, scrollback_count |-> 0,
               cursor_x |-> 0, cursor_y |-> Rows - 2]
    /\ parse_state = "Normal" /\ ansi_params = <<>>
    /\ page = [lines |-> [i \in 1 .. Rows |-> Blank], x |-> 0, y |-> Rows - 2]

\* write_character, by the parser's state.
WriteNormal ==
    /\ parse_state = "Normal"
    /\ \/ /\ term' = PutRawCharacter(term) /\ page' = PagePut(page)
       \/ /\ term' = BackSpace(term)
          /\ page' = IF page.x > 0 THEN [page EXCEPT !.x = @ - 1]
                     ELSE IF page.y > 0 THEN [page EXCEPT !.x = Cols - 1, !.y = @ - 1] ELSE page
       \/ /\ term' = NewLine([term EXCEPT !.cursor_x = 0])
          /\ page' = PageDown([page EXCEPT !.x = 0])
       \/ /\ term' = [term EXCEPT !.cursor_x = 0]
          /\ page' = [page EXCEPT !.x = 0]
    /\ UNCHANGED <<parse_state, ansi_params>>

WriteEscape ==
    /\ parse_state = "Normal"
    /\ parse_state' = "Escape"
    /\ UNCHANGED <<term, ansi_params, page>>

\* [ begins a sequence; anything else is dropped.
AfterEscape ==
    /\ parse_state = "Escape"
    /\ \/ parse_state' = "CSI" /\ ansi_params' = <<>>
       \/ parse_state' = "Normal" /\ UNCHANGED ansi_params
    /\ UNCHANGED <<term, page>>

\* A careful program writes no number that a byte does not hold.
InRange(b) ==
    \/ "wide" \in TerminalFlaws \/ b = ";" \/ ansi_params = <<>>
    \/ ansi_params[Len(ansi_params)] = ";"

CsiParam ==
    /\ parse_state = "CSI" /\ Len(ansi_params) < MaxParams
    /\ \E b \in {b \in {"1", "2", ";"} : InRange(b)} : ansi_params' = Append(ansi_params, b)
    /\ UNCHANGED <<term, parse_state, page>>

CsiFinal ==
    /\ parse_state = "CSI"
    /\ \E final \in {"A", "B", "C", "D", "H", "G", "J", "K", "other"} :
          LET params == ParseCsiParams(ansi_params, 0) IN
          /\ term' = HandleCsi(term, final, params)
          /\ page' = PageCsi(page, final, params)
    /\ ansi_params' = <<>>
    /\ parse_state' = "Normal"

TermNext == WriteNormal \/ WriteEscape \/ AfterEscape \/ CsiParam \/ CsiFinal

TermSpec == TermInit /\ [][TermNext]_termVars

-----------------------------------------------------------------------------
\* The rows that row() finds, scrollback first, are the lines of the page, and
\* the cursor is on the same character: through any number of scrolls and
\* rotations of the ring nothing is lost, repeated or out of place.
ShowsThePage ==
    /\ term.scrollback_count + Rows = Len(page.lines)
    /\ \A v \in 0 .. term.scrollback_count + Rows - 1 : term.ring[RowIndex(term, v)] = page.lines[v + 1]
    /\ term.cursor_x = page.x /\ term.cursor_y = page.y
=============================================================================
