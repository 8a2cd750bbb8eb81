------------------------------- MODULE Fbcon --------------------------------
(***************************************************************************)
(* The framebuffer console: drivers/fbcon.c over drivers/framebuffer.c.    *)
(*                                                                         *)
(* A step is one statement of fbcon_write's loop body.  The strings        *)
(* written are chosen character by character.  Nothing protects the        *)
(* cursor: kprintf runs with interrupts as they are, so between any two    *)
(* statements a handler, or an exception that ends in panic, may run       *)
(* fbcon_write itself.  A handler returns when its text ends; a panic is   *)
(* an interrupting writer that never does.  MaxDepth bounds how many       *)
(* writers are on top of one another; drawing a glyph and scrolling are    *)
(* each one step.                                                          *)
(*                                                                         *)
(* The framebuffer is linear memory, one address a pixel: rows are Pitch   *)
(* apart, and the pixels beyond Width in a row, and what follows the last  *)
(* row, are not shown.  A pixel drawn for a character is named by the      *)
(* character, its place in the glyph and the two colours.                  *)
(***************************************************************************)
EXTENDS Integers, Sequences

CONSTANTS
  Width, Height, Pitch,       \* of the framebuffer tag, in pixels
  fbcon_text_cx, fbcon_text_cy,   \* size of a glyph
  Chars,                      \* printable characters
  Colors,                     \* pairs of foreground and background
  MaxDepth,                   \* 2 when writers may be interrupted, else 1
  MaxEvents                   \* how many interruptions and colour changes there are

fbcon_cx == Width \div fbcon_text_cx
fbcon_cy == Height \div fbcon_text_cy

(* The screen has two text lines or more: with one, an interrupted writer  *)
(* would decrement fbcon_y below 0.  boot.S asks for 800 by 600 pixels.    *)
(* The characters of the switch's own cases are not printable ones.        *)
ASSUME FbconAssumption ==
  /\ {Width, Height, Pitch, fbcon_text_cx, fbcon_text_cy} \subseteq Nat \ {0}
  /\ Width <= Pitch /\ fbcon_cx >= 2 /\ fbcon_cy >= 2
  /\ Chars \cap {"newline", "tab"} = {} /\ Colors # {}
  /\ MaxDepth \in {1, 2} /\ MaxEvents \in Nat

VARIABLES
  memory,             \* the pixels, and memory behind the framebuffer
  fbcon_x, fbcon_y,   \* where the next character goes
  color,              \* fbcon_foreground and fbcon_background
  events,             \* the number of those so far
  stack,              \* the running calls of fbcon_write, the interrupted one first
  lines,              \* history: the text the screen has room for, line by line
  mark                \* history: whether a writer was interrupted in an iteration

vars == <<memory, fbcon_x, fbcon_y, color, events, stack, lines, mark>>

Pixel(x, y) == y * Pitch + x

Addresses == 0 .. Pitch * (Height + 2 * fbcon_text_cy)

Shown(a) == a % Pitch < Width /\ a \div Pitch < Height

Glyph(ch, row, col, c) == <<ch, row, col, c>>
DefaultColor == CHOOSE c \in Colors : TRUE   \* white on black
Background(c) == <<"background", c>>
Junk == <<"junk">>        \* what the boot loader left on the screen
Foreign == <<"foreign">>  \* memory that is not on the screen

(* A call of fbcon_write: its next statement, what is left of a tab (its   *)
(* blanks and its own tests), its character and the place passed to        *)
(* fbcon_draw_ch.                                                          *)
Idle == [pc |-> "head", tab |-> 0, ch |-> "none", x |-> 0, y |-> 0]

top == stack[Len(stack)]
At(pc) == top.pc = pc
Set(frame) == stack' = [stack EXCEPT ![Len(stack)] = frame]
Go(pc) == Set([top EXCEPT !.pc = pc])
-----------------------------------------------------------------------------
Cells == (0 .. fbcon_text_cy - 1) \X (0 .. fbcon_text_cx - 1)

\* The pixels of the cell at column x of text row y, wherever in memory they fall.
CellAt(x, y, c) == Pixel(x * fbcon_text_cx + c[2], y * fbcon_text_cy + c[1])

CellPixels(x, y) == {CellAt(x, y, c) : c \in Cells}

fbcon_draw_ch(ch, x, y) ==
  [a \in Addresses |->
     IF a \in CellPixels(x, y)
     THEN LET c == CHOOSE c \in Cells : CellAt(x, y, c) = a
          IN  Glyph(ch, c[1], c[2], color)
     ELSE memory[a]]

\* Mutant: the rows that come free keep their pixels.
empty_fill_Keeps(a) == memory[a]

empty_fill(a) == Background(color)

Source(a, scale) == a + scale * Pitch

\* Rows are copied from the top, each from one that was not overwritten yet.
framebuffer_scroll_up(scale) ==
  [a \in Addresses |->
     IF ~Shown(a) THEN memory[a]
     ELSE IF (a \div Pitch) + scale >= Height THEN empty_fill(a)
     ELSE memory[Source(a, scale)]]
-----------------------------------------------------------------------------
\* The history: a line ends with a newline or when it is full, and the oldest
\* line goes when the screen has no room for another.
NewLine(ls) ==
  Append(IF Len(ls) = fbcon_cy THEN Tail(ls) ELSE ls, <<>>)

AddChar(ls, ch) ==
  LET line == Append(ls[Len(ls)], [ch |-> ch, color |-> color])
      added == [ls EXCEPT ![Len(ls)] = line]
  IN  IF Len(line) = fbcon_cx THEN NewLine(added) ELSE added

\* After a torn iteration nothing is known of what is above and before the cursor.
Unknown(x, y) ==
  [i \in 1 .. y + 1 |->
     IF i <= y THEN <<>> ELSE [j \in 1 .. x |-> [ch |-> "unknown", color |-> color]]]

OnScreen(x, y) == x < fbcon_cx /\ y < fbcon_cy

\* The cursor counts as lost after a torn iteration until it is on the screen
\* again, at the latest when a character was drawn that did not end a line.
Record ==
  IF mark = "torn"
  THEN IF OnScreen(fbcon_x', fbcon_y')
            \/ (top.ch \notin {"newline", "tab"} /\ fbcon_x' > 0)
       THEN mark' = "healed" /\ lines' = Unknown(fbcon_x', fbcon_y')
       ELSE UNCHANGED <<mark, lines>>
  ELSE /\ lines' = CASE top.ch = "newline" -> NewLine(lines)
                     [] top.ch = "tab" -> lines
                     [] OTHER -> AddChar(lines, top.ch)
       /\ UNCHANGED mark
-----------------------------------------------------------------------------
\* framebuffer_init and fbcon_init: the screen is not cleared.
Init ==
  /\ memory = [a \in Addresses |-> IF Shown(a) THEN Junk ELSE Foreign]
  /\ fbcon_x = 0 /\ fbcon_y = 0
  /\ color = DefaultColor
  /\ events = 0 /\ stack = <<Idle>>
  /\ lines = << <<>> >> /\ mark = "clean"

\* The default case of the switch: the place of the glyph is evaluated.
PutChar(ch) ==
  /\ At("head")
  /\ IF top.tab = 0 THEN ch \in Chars ELSE ch = "space" /\ top.tab > 1
  /\ Set([top EXCEPT !.pc = "draw", !.ch = ch, !.x = fbcon_x, !.y = fbcon_y,
                     !.tab = IF @ = 0 THEN 0 ELSE @ - 1])
  /\ UNCHANGED <<memory, fbcon_x, fbcon_y, color, events, lines, mark>>

Draw ==
  /\ At("draw")
  /\ memory' = fbcon_draw_ch(top.ch, top.x, top.y)
  /\ Set([top EXCEPT !.pc = "inc", !.x = 0, !.y = 0])
  /\ UNCHANGED <<fbcon_x, fbcon_y, color, events, lines, mark>>

IncX ==
  /\ At("inc")
  /\ fbcon_x' = fbcon_x + 1
  /\ Go("wrap")
  /\ UNCHANGED <<memory, fbcon_y, color, events, lines, mark>>

\* case '\n': fbcon_x = 0, and IncY from "newline" is its fbcon_y++.
Newline ==
  /\ At("head") /\ top.tab = 0
  /\ fbcon_x' = 0
  /\ Set([top EXCEPT !.pc = "newline", !.ch = "newline"])
  /\ UNCHANGED <<memory, fbcon_y, color, events, lines, mark>>

\* case '\t': fbcon_write("    "), then the tests of the tab's own iteration.
Tab ==
  /\ At("head") /\ top.tab \in {0, 1}
  /\ Set(IF top.tab = 0 THEN [top EXCEPT !.tab = 5]
                        ELSE [top EXCEPT !.pc = "wrap", !.ch = "tab", !.tab = 0])
  /\ UNCHANGED <<memory, fbcon_x, fbcon_y, color, events, lines, mark>>

\* Mutant: a line takes one character too many.
LineFull_Late == fbcon_x > fbcon_cx

LineFull == fbcon_x >= fbcon_cx

WrapTest ==
  /\ At("wrap")
  /\ Go(IF LineFull THEN "zero" ELSE "bottom")
  /\ UNCHANGED <<memory, fbcon_x, fbcon_y, color, events, lines, mark>>

ZeroX ==
  /\ At("zero")
  /\ fbcon_x' = 0
  /\ Go("down")
  /\ UNCHANGED <<memory, fbcon_y, color, events, lines, mark>>

IncY ==
  /\ At("newline") \/ At("down")
  /\ fbcon_y' = fbcon_y + 1
  /\ Go(IF At("newline") THEN "wrap" ELSE "bottom")
  /\ UNCHANGED <<memory, fbcon_x, color, events, lines, mark>>

\* The test for the end of the screen; an iteration without a scroll ends here.
BottomTest ==
  /\ At("bottom")
  /\ UNCHANGED <<memory, fbcon_x, fbcon_y, color, events>>
  /\ IF fbcon_y >= fbcon_cy
     THEN Go("scroll") /\ UNCHANGED <<lines, mark>>
     ELSE Set([Idle EXCEPT !.tab = top.tab]) /\ Record

fbcon_scroll_up ==
  /\ At("scroll")
  /\ memory' = framebuffer_scroll_up(fbcon_text_cy)
  /\ Go("dec")
  /\ UNCHANGED <<fbcon_x, fbcon_y, color, events, lines, mark>>

DecY ==
  /\ At("dec")
  /\ fbcon_y' = fbcon_y - 1
  /\ UNCHANGED <<memory, fbcon_x, color, events>>
  /\ Set([Idle EXCEPT !.tab = top.tab])
  /\ Record

fbcon_set_color ==
  /\ At("head") /\ top.tab = 0 /\ events < MaxEvents
  /\ events' = events + 1
  /\ color' \in Colors
  /\ UNCHANGED <<memory, fbcon_x, fbcon_y, stack, lines, mark>>

\* A handler or a panic starts to write on top of the running call.
Interrupt ==
  /\ Len(stack) < MaxDepth /\ events < MaxEvents
  /\ events' = events + 1
  /\ stack' = Append(stack, Idle)
  /\ mark' = IF At("head") THEN mark ELSE "torn"
  /\ UNCHANGED <<memory, fbcon_x, fbcon_y, color, lines>>

\* The handler's text is written and the interrupted call goes on.
Iret ==
  /\ Len(stack) > 1 /\ top = Idle
  /\ stack' = SubSeq(stack, 1, Len(stack) - 1)
  /\ mark' = IF stack[Len(stack) - 1].pc = "head" THEN mark ELSE "torn"
  /\ UNCHANGED <<memory, fbcon_x, fbcon_y, color, events, lines>>

Next ==
  \/ \E ch \in Chars \cup {"space"} : PutChar(ch)
  \/ Draw \/ IncX \/ Newline \/ Tab
  \/ WrapTest \/ ZeroX \/ IncY \/ BottomTest \/ fbcon_scroll_up \/ DecY
  \/ fbcon_set_color
  \/ Interrupt \/ Iret

Spec == Init /\ [][Next]_vars
-----------------------------------------------------------------------------
TypeOK ==
  /\ DOMAIN memory = Addresses
  /\ {fbcon_x, fbcon_y} \subseteq Nat
  /\ color \in Colors
  /\ Len(stack) \in 1 .. MaxDepth /\ events \in 0 .. MaxEvents
  /\ mark \in {"clean", "torn", "healed"}

\* Drawing and scrolling touch no memory but the pixels shown, in rows longer
\* than the screen is wide and behind the last row, as long as no writer was
\* interrupted inside an iteration.  After that the characters a writer begins
\* with can be lost in the cell behind the end of a line or in the line below the
\* screen and nowhere else: the cursor is on the screen again as soon as a
\* character was drawn that did not end a line, whoever writes.
Inside ==
  /\ TypeOK
  /\ fbcon_x <= fbcon_cx + Len(stack) - 1 /\ fbcon_y <= fbcon_cy + Len(stack) - 1
  /\ At("head") /\ mark # "torn" => OnScreen(fbcon_x, fbcon_y)
  /\ \A a \in Addresses :
       ~Shown(a) /\ memory[a] # Foreign =>
         /\ mark # "clean"
         /\ \/ \E y \in 0 .. fbcon_cy : a \in CellPixels(fbcon_cx, y)
            \/ \E x \in 0 .. fbcon_cx : a \in CellPixels(x, fbcon_cy)

\* The cell at column x of text row y, both counted from 0, shows a character.
Shows(x, y, cell) ==
  \A c \in Cells : memory[CellAt(x, y, c)] = Glyph(cell.ch, c[1], c[2], cell.color)

\* The screen shows the end of what was written, wrapped at the screen's width,
\* each character whole and in the colours it was written in, through any number
\* of scrolls, and the cursor stands behind the last character; a writer that
\* interrupted another one inside an iteration, a panic's report say, gets this
\* from the first character on that finds the cursor on the screen.  Without such
\* a writer nothing else is on the screen: where the text has no character, no
\* part of one is left from an earlier line, in the last, partial row either.
ShowsText ==
  At("head") /\ mark # "torn" =>
    /\ \A y \in 1 .. Len(lines) : \A x \in 1 .. Len(lines[y]) :
         lines[y][x].ch # "unknown" => Shows(x - 1, y - 1, lines[y][x])
    /\ fbcon_y = Len(lines) - 1 /\ fbcon_x = Len(lines[Len(lines)])
    /\ mark = "clean" =>
         \A a \in Addresses :
           LET y == (a \div Pitch) \div fbcon_text_cy + 1
               x == (a % Pitch) \div fbcon_text_cx + 1
               written == y \in DOMAIN lines /\ x \in DOMAIN lines[y]
           IN  Shown(a) /\ ~written => memory[a] \in {Junk} \cup {Background(c) : c \in Colors}
=============================================================================
