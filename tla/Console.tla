------------------------------ MODULE Console ------------------------------
(***************************************************************************)
(* The framebuffer console of kernel/src/io.rs.  The framebuffer is Bands  *)
(* bands of eight pixel rows, each wide enough for Cols characters; text   *)
(* goes to the first Rows of them, and scrolling moves every band.         *)
(* Colours and glyphs are left out: a cell holds the character drawn last. *)
(***************************************************************************)
EXTENDS Integers, SequencesExt

CONSTANTS
  Cols,      \* SCREEN_COLS
  Rows,      \* SCREEN_ROWS
  Bands,     \* fb.height / CHAR_HEIGHT
  ClearRow,  \* the row cmd_clear() puts the cursor in
  Banner     \* Banner[r]: what banner_vga() draws into row r

\* Two columns or more: a prompt leaves room in its row.
ASSUME ScreenAssumption ==
  /\ Cols \in Nat \ {0, 1} /\ Rows \in Nat \ {0} /\ Bands \in Nat /\ Bands >= Rows
  /\ ClearRow \in 0 .. Rows - 1
  /\ DOMAIN Banner \subseteq 0 .. Rows - 1
  /\ \A r \in DOMAIN Banner : Banner[r] \in Seq({" ", "#"})

BlankBand == [c \in 0 .. Cols - 1 |-> " "]

\* vga_clear() clears 200 pixel rows, which are the text rows.
VgaClear(s) ==
  [row |-> 0, col |-> 0,
   cells |-> [b \in 0 .. Bands - 1 |-> IF b < Rows THEN BlankBand ELSE s.cells[b]]]

\* vga_write(): the row is named, the cursor stays.
VgaWrite(s, text, row) ==
  [s EXCEPT !.cells[row] =
     [c \in 0 .. Cols - 1 |-> IF c < Len(text) THEN text[c + 1] ELSE @[c]]]

\* scroll()
Scroll(s) ==
  [s EXCEPT !.cells = [b \in 0 .. Bands - 1 |->
     IF b < Bands - 1 THEN s.cells[b + 1] ELSE BlankBand]]

DownOneRow(s) ==
  IF s.row < Rows - 1 THEN [s EXCEPT !.row = @ + 1, !.col = 0]
                      ELSE Scroll([s EXCEPT !.col = 0])

Draw(s, c, col) == [s EXCEPT !.cells[s.row][col] = c]

\* VgaPutc that lets a line run one column too far before it wraps.
VgaPutc_LateWrap(s, c) ==
  CASE c = "CR" -> [s EXCEPT !.col = 0]
    [] c = "LF" -> DownOneRow(s)
    [] c = "BS" -> IF s.col = 0 THEN s
                   ELSE [Draw(s, " ", s.col - 1) EXCEPT !.col = @ - 1]
    [] OTHER    -> IF s.col < Cols THEN [Draw(s, c, s.col) EXCEPT !.col = @ + 1]
                   ELSE DownOneRow(s)

\* vga_putc(): backspace erases, but not across the start of a row.
VgaPutc(s, c) ==
  CASE c = "CR" -> [s EXCEPT !.col = 0]
    [] c = "LF" -> DownOneRow(s)
    [] c = "BS" -> IF s.col = 0 THEN s
                   ELSE [Draw(s, " ", s.col - 1) EXCEPT !.col = @ - 1]
    [] OTHER    -> IF s.col + 1 < Cols
                   THEN [Draw(s, c, s.col) EXCEPT !.col = @ + 1]
                   ELSE DownOneRow(Draw(s, c, s.col))

ConsoleWrite(s, text) == FoldLeft(VgaPutc, s, text)

\* The screen when the shell starts: the banner, with the cursor where
\* vga_clear() left it, and below the text rows what the boot loader drew.
BannerRow(s, r) == VgaWrite(s, Banner[r], r)
LoaderText == [c \in 0 .. Cols - 1 |-> "#"]

BootScreen ==
  FoldLeft(BannerRow,
           VgaClear([row |-> 0, col |-> 0,
                     cells |-> [b \in 0 .. Bands - 1 |-> LoaderText]]),
           SetToSeq(DOMAIN Banner))

-----------------------------------------------------------------------------

(***************************************************************************)
(* What a console promises, told without cells and rows: it shows the end  *)
(* of a list of lines.                                                     *)
(***************************************************************************)

TypeOn(lines, c) ==
  LET last == lines[Len(lines)]
      rest == Front(lines)
  IN CASE c = "CR" -> lines
       [] c = "LF" -> Append(lines, <<>>)
       [] c = "BS" -> IF last = <<>> THEN lines ELSE Append(rest, Front(last))
       [] OTHER    -> IF Len(last) + 1 < Cols THEN Append(rest, Append(last, c))
                      ELSE rest \o << Append(last, c), <<>> >>

\* The cursor stands behind the last line, and each row up to it shows its
\* line; beside and below the lines there is nothing, or what is left of the
\* banner and of what the boot loader drew.
Shows(s, lines) ==
  LET At(r) == lines[Len(lines) - s.row + r]
  IN /\ s.row < Len(lines) /\ s.row < Rows
     /\ s.col = Len(At(s.row))
     /\ \A r \in 0 .. Rows - 1, c \in 0 .. Cols - 1 :
          IF r <= s.row /\ c < Len(At(r))
          THEN s.cells[r][c] = At(r)[c + 1]
          ELSE s.cells[r][c] \in {" ", "#"}

=============================================================================
