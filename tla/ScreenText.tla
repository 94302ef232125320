----------------------------- MODULE ScreenText -----------------------------
(***************************************************************************)
(* What is read off the daemon's screen: `screen dump' in its formats      *)
(* (daemon/screen/snapshot.rs) and the text `hyoui wait' matches, which is *)
(* put together again from the sparse cells of a snapshot (wait_core.rs,   *)
(* screen_text.rs).  The grid is vt100's (external): a wide character      *)
(* takes two cells, and writing over one of them clears the other.         *)
(***************************************************************************)
EXTENDS Naturals, Sequences, SequencesExt

CONSTANTS
  Cols,
  Rows,
  ScrollbackLen  \* rows-base scrollback

VARIABLES
  grid,   \* visible rows
  scroll  \* rows scrolled out, oldest first

vars == <<grid, scroll>>

\* RowCellSnap.  Of the characters a space is told apart from the others.
Cell(text, attrs, wide, cont) == [contents |-> text, attrs |-> attrs, is_wide |-> wide, is_cont |-> cont]
Attrs == {0, 1}
Empty(attrs) == Cell("", attrs, FALSE, FALSE)
BlankRow == [c \in 1..Cols |-> Empty(0)]

Init == grid = [r \in 1..Rows |-> BlankRow] /\ scroll = <<>>

-----------------------------------------------------------------------------
(* The grid.                                                               *)

\* The other half of a wide character that is written over becomes empty.
Broken(row, c) ==
  [k \in 1..Cols |->
     IF (k + 1 = c /\ row[k].is_wide) \/ (k = c + 1 /\ row[k].is_cont) THEN Empty(0) ELSE row[k]]

Put(r, c, cell) == grid' = [grid EXCEPT ![r] = [Broken(@, c) EXCEPT ![c] = cell]]

Narrow(r, c, text, attrs) == Put(r, c, Cell(text, attrs, FALSE, FALSE)) /\ UNCHANGED scroll

Erase(r, c, attrs) == Put(r, c, Empty(attrs)) /\ UNCHANGED scroll

Wide(r, c, attrs) ==
  /\ c < Cols
  /\ grid' = [grid EXCEPT ![r] = [Broken(Broken(@, c), c + 1) EXCEPT
                                    ![c] = Cell("W", attrs, TRUE, FALSE),
                                    ![c + 1] = Cell("", attrs, FALSE, TRUE)]]
  /\ UNCHANGED scroll

ScrollUp ==
  /\ grid' = Append(Tail(grid), BlankRow)
  /\ LET rows == Append(scroll, Head(grid))
     IN scroll' = SubSeq(rows, IF Len(rows) > ScrollbackLen THEN 2 ELSE 1, Len(rows))

Next ==
  \/ ScrollUp
  \/ \E r \in 1..Rows, c \in 1..Cols, attrs \in Attrs :
       \/ \E text \in {"a", " "} : Narrow(r, c, text, attrs)
       \/ Erase(r, c, attrs) \/ Wide(r, c, attrs)

Spec == Init /\ [][Next]_vars

-----------------------------------------------------------------------------
(* Dumps.                                                                  *)

\* build_screen_dump: the rows of a layer; scrollback rows come first.
LayerRows(layer) ==
  CASE layer = "visible" -> grid [] layer = "scrollback" -> scroll [] OTHER -> scroll \o grid

\* row_text over Cell(s) and WideContinuation, which is "cont" here.
RowText(cells, trim) ==
  LET texts == SelectSeq(cells, LAMBDA t : t # "cont")
      line == [i \in DOMAIN texts |-> IF texts[i] = "" THEN " " ELSE texts[i]]
      used == {i \in DOMAIN line : line[i] # " "}
  IN IF ~trim THEN line
     ELSE IF used = {} THEN <<>> ELSE SubSeq(line, 1, CHOOSE i \in used : \A j \in used : j <= i)

\* build_plain_text_from_rows: binary trims, text keeps the padding.
PlainText(rows, trim) ==
  [r \in DOMAIN rows |->
     RowText([c \in 1..Cols |-> IF rows[r][c].is_cont THEN "cont" ELSE rows[r][c].contents], trim)]

is_default_cell(cell) ==
  cell.contents \in {"", " "} /\ cell.attrs = 0 /\ ~cell.is_wide /\ ~cell.is_cont

\* build_layered_snapshot, of the rows of a layer: they are numbered anew.
Snapshot(rows) ==
  [rows |-> Len(rows),
   cells |-> {[r |-> r, c |-> c, t |-> rows[r][c].contents, a |-> rows[r][c].attrs,
               w |-> rows[r][c].is_wide] :
              <<r, c>> \in {p \in (DOMAIN rows) \X (1..Cols) : ~is_default_cell(rows[p[1]][p[2]])}}]

\* build_screen_snapshot
ScreenSnapshot == Snapshot(grid)

\* rows_to_ansi: SGR only where the style changes, nothing for a continuation
\* cell; a last reset.
RowsToAnsi(rows) ==
  LET reset(s) == IF s.prev = 0 THEN s.out ELSE Append(s.out, <<"sgr", 0>>)
      cell(s, x) ==
        IF x.is_cont THEN s
        ELSE [prev |-> x.attrs,
              out |-> (IF x.attrs = s.prev THEN s.out ELSE Append(s.out, <<"sgr", x.attrs>>))
                        \o <<<<"text", IF x.contents = "" THEN " " ELSE x.contents>>>>]
      line(s, row) == LET t == FoldLeft(cell, s, row) IN [t EXCEPT !.out = Append(@, <<"newline", 0>>)]
  IN reset(FoldLeft(line, [prev |-> 0, out |-> <<>>], rows))

-----------------------------------------------------------------------------
(* `hyoui wait'.                                                           *)

\* One cell of the grid that SnapshotCells::to_text restores: the cell to the
\* right of a wide one is its continuation, unless it came with text.
Restored(snap, r, c) ==
  LET here == {x \in snap.cells : x.r = r /\ x.c = c}
      text == IF here = {} THEN "" ELSE (CHOOSE x \in here : TRUE).t
      afterWide == \E x \in snap.cells : x.r = r /\ x.c + 1 = c /\ x.w
  IN IF text = "" /\ afterWide THEN "cont" ELSE text

\* to_text
WaitText(snap) ==
  [r \in 1..snap.rows |-> RowText([c \in 1..Cols |-> Restored(snap, r, c)], TRUE)]

-----------------------------------------------------------------------------
(* Properties.                                                             *)

\* A terminal that reads the dump: what it prints, with the style it is in.
Shown(ansi) ==
  FoldLeft(LAMBDA s, x : CASE x[1] = "sgr" -> [s EXCEPT !.style = x[2]]
                           [] x[1] = "newline" -> [s EXCEPT !.rows = Append(@, s.row), !.row = <<>>]
                           [] OTHER -> [s EXCEPT !.row = Append(@, <<x[2], s.style>>)],
           [style |-> 0, row |-> <<>>, rows |-> <<>>], ansi)

\* What a dump shows wait matches, cell by cell restored, in every layer
\* (screen_text.rs); an ansi dump shows the same text as a plain one, each
\* character in its own style, and leaves the terminal without any.
TextsAgree ==
  \A layer \in {"visible", "scrollback", "both"} :
    LET rows == LayerRows(layer)
        shown == Shown(RowsToAnsi(rows))
        styles(row) == LET cells == SelectSeq(row, LAMBDA x : ~x.is_cont)
                       IN [i \in DOMAIN cells |-> cells[i].attrs]
    IN /\ layer = "visible" => WaitText(ScreenSnapshot) = PlainText(rows, TRUE)
       /\ WaitText(Snapshot(rows)) = PlainText(rows, TRUE)
       /\ [r \in DOMAIN shown.rows |-> [i \in DOMAIN shown.rows[r] |-> shown.rows[r][i][1]]]
            = PlainText(rows, FALSE)
       /\ \A r \in DOMAIN rows : [i \in DOMAIN shown.rows[r] |-> shown.rows[r][i][2]] = styles(rows[r])
       /\ shown.style = 0 /\ shown.row = <<>>

=============================================================================
