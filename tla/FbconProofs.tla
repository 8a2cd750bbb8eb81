---------------------------- MODULE FbconProofs -----------------------------
(***************************************************************************)
(* Proofs about the framebuffer console, for every size of the screen, of  *)
(* its rows and of a glyph.                                                *)
(*                                                                         *)
(* The geometry comes first: a pixel of a cell on the screen has one cell  *)
(* and one place in it, because quotient and remainder are unique, and a   *)
(* scroll by a text row takes each cell to the one above.  The invariant   *)
(* then says, for each statement of fbcon_write, where the cursor may be   *)
(* and what the screen shows: the text so far, with the character that is  *)
(* being written once it is drawn, and without its first line once the     *)
(* screen was scrolled.  An interrupted call leaves the cursor where that  *)
(* statement allows it, so the call on top of it may begin one column      *)
(* behind a line or one line below the screen (LostX, LostY).              *)
(***************************************************************************)
EXTENDS Fbcon, CommonLemmas

-----------------------------------------------------------------------------
(***************************************************************************)
(* The screen's geometry.                                                  *)
(***************************************************************************)
(* The sizes, and that the cells lie within the framebuffer.               *)
LEMMA Sizes ==
  /\ Width \in Nat /\ Height \in Nat /\ Pitch \in Nat
  /\ fbcon_text_cx \in Nat /\ fbcon_text_cy \in Nat
  /\ Pitch >= 1 /\ fbcon_text_cx >= 1 /\ fbcon_text_cy >= 1 /\ Width <= Pitch
  /\ fbcon_cx \in Nat /\ fbcon_cy \in Nat /\ fbcon_cx >= 2 /\ fbcon_cy >= 2
  /\ fbcon_cx * fbcon_text_cx <= Width /\ fbcon_cy * fbcon_text_cy <= Height
<1>1. /\ Width \in Nat /\ Height \in Nat /\ Pitch \in Nat
      /\ fbcon_text_cx \in Nat /\ fbcon_text_cy \in Nat
      /\ Pitch >= 1 /\ fbcon_text_cx >= 1 /\ fbcon_text_cy >= 1 /\ Width <= Pitch
      /\ fbcon_cx >= 2 /\ fbcon_cy >= 2
  BY FbconAssumption
<1>2. /\ Width \div fbcon_text_cx \in Nat /\ Width % fbcon_text_cx \in Nat
      /\ Width = (Width \div fbcon_text_cx) * fbcon_text_cx + (Width % fbcon_text_cx)
  BY <1>1, Division
<1>3. /\ Height \div fbcon_text_cy \in Nat /\ Height % fbcon_text_cy \in Nat
      /\ Height = (Height \div fbcon_text_cy) * fbcon_text_cy + (Height % fbcon_text_cy)
  BY <1>1, Division
<1>4. fbcon_cx \in Nat /\ fbcon_cx * fbcon_text_cx <= Width
  <2>1. \A q \in Nat, r \in Nat, n \in Nat : Width = q * n + r => q * n <= Width
    BY <1>1
  <2>2. QED
    BY <1>1, <1>2, <2>1 DEF fbcon_cx
<1>5. fbcon_cy \in Nat /\ fbcon_cy * fbcon_text_cy <= Height
  <2>1. \A q \in Nat, r \in Nat, n \in Nat : Height = q * n + r => q * n <= Height
    BY <1>1
  <2>2. QED
    BY <1>1, <1>3, <2>1 DEF fbcon_cy
<1>6. QED
  BY <1>1, <1>4, <1>5

Row(a) == (a \div Pitch) \div fbcon_text_cy + 1
Col(a) == (a % Pitch) \div fbcon_text_cx + 1

(* The pixels of a cell on the screen are shown, and tell which they are.  *)
LEMMA CellGeometry ==
  ASSUME NEW x \in Nat, NEW y \in Nat, OnScreen(x, y), NEW c \in Cells
  PROVE  LET a == CellAt(x, y, c)
         IN  /\ a \in Addresses /\ Shown(a)
             /\ Row(a) = y + 1 /\ Col(a) = x + 1
             /\ (a \div Pitch) % fbcon_text_cy = c[1]
             /\ (a % Pitch) % fbcon_text_cx = c[2]
<1> DEFINE u == x * fbcon_text_cx + c[2]
           v == y * fbcon_text_cy + c[1]
           a == CellAt(x, y, c)
<1>1. /\ c[1] \in Nat /\ c[1] < fbcon_text_cy /\ c[2] \in Nat /\ c[2] < fbcon_text_cx
  BY Sizes DEF Cells
<1>2. u \in Nat /\ v \in Nat /\ a = v * Pitch + u
  BY <1>1, Sizes DEF CellAt, Pixel
<1>3. u < Width
  <2>1. x + 1 <= fbcon_cx /\ x + 1 \in Nat
    BY Sizes DEF OnScreen
  <2>2. (x + 1) * fbcon_text_cx <= fbcon_cx * fbcon_text_cx
    BY <2>1, Sizes, MulMonotonic
  <2>3. (x + 1) * fbcon_text_cx = x * fbcon_text_cx + fbcon_text_cx
    BY Sizes
  <2>4. PICK m \in Nat, n \in Nat :
          m = x * fbcon_text_cx /\ n = fbcon_cx * fbcon_text_cx
    BY Sizes
  <2>5. QED
    BY <2>2, <2>3, <2>4, <1>1, Sizes
<1>4. v < Height
  <2>1. y + 1 <= fbcon_cy /\ y + 1 \in Nat
    BY Sizes DEF OnScreen
  <2>2. (y + 1) * fbcon_text_cy <= fbcon_cy * fbcon_text_cy
    BY <2>1, Sizes, MulMonotonic
  <2>3. (y + 1) * fbcon_text_cy = y * fbcon_text_cy + fbcon_text_cy
    BY Sizes
  <2>4. PICK m \in Nat, n \in Nat :
          m = y * fbcon_text_cy /\ n = fbcon_cy * fbcon_text_cy
    BY Sizes
  <2>5. QED
    BY <2>2, <2>3, <2>4, <1>1, Sizes
<1>5. u \div fbcon_text_cx = x /\ u % fbcon_text_cx = c[2]
  BY <1>1, Sizes, DivMod
<1>6. v \div fbcon_text_cy = y /\ v % fbcon_text_cy = c[1]
  BY <1>1, Sizes, DivMod
<1> HIDE DEF u, v, a
<1>7. a \div Pitch = v /\ a % Pitch = u
  <2>1. u < Pitch
    BY <1>2, <1>3, Sizes
  <2>2. QED
    BY <1>2, <2>1, Sizes, DivMod
<1>8. a \in Addresses
  <2>1. v + 1 <= Height /\ v + 1 \in Nat
    BY <1>2, <1>4, Sizes
  <2>2. (v + 1) * Pitch <= Height * Pitch
    BY <2>1, Sizes, MulMonotonic
  <2>3. (v + 1) * Pitch = v * Pitch + Pitch
    BY <1>2, Sizes
  <2>4. Pitch * (Height + 2 * fbcon_text_cy) = Height * Pitch + 2 * fbcon_text_cy * Pitch
    BY Sizes
  <2>5. PICK k \in Nat, m \in Nat, n \in Nat :
          k = v * Pitch /\ m = Height * Pitch /\ n = 2 * fbcon_text_cy * Pitch
    BY <1>2, Sizes
  <2>6. a <= m + n /\ a \in Nat
    BY <1>2, <1>3, <2>2, <2>3, <2>5, Sizes
  <2>7. QED
    BY <2>4, <2>5, <2>6, Sizes DEF Addresses
<1>9. Shown(a)
  BY <1>3, <1>4, <1>7 DEF Shown
<1>10. QED
  BY <1>5, <1>6, <1>7, <1>8, <1>9 DEF Row, Col, a

(* Cells on the screen do not overlap, nor do the pixels of one.           *)
LEMMA CellInjective ==
  ASSUME NEW x \in Nat, NEW y \in Nat, OnScreen(x, y), NEW c \in Cells,
         NEW z \in Nat, NEW w \in Nat, OnScreen(z, w), NEW d \in Cells,
         CellAt(x, y, c) = CellAt(z, w, d)
  PROVE  x = z /\ y = w /\ c = d
<1>1. c[1] = d[1] /\ c[2] = d[2] /\ x + 1 = z + 1 /\ y + 1 = w + 1
  BY CellGeometry
<1>2. c = d
  BY <1>1 DEF Cells
<1>3. QED
  BY <1>1, <1>2

(* The pixel fbcon_text_cy rows below.                                     *)
LEMMA SourceGeometry ==
  ASSUME NEW a \in Addresses, Shown(a), (a \div Pitch) + fbcon_text_cy < Height
  PROVE  LET b == Source(a, fbcon_text_cy)
         IN  /\ b \in Addresses /\ Shown(b)
             /\ Row(b) = Row(a) + 1 /\ Col(b) = Col(a)
<1> DEFINE b == Source(a, fbcon_text_cy)
           q == a \div Pitch
           r == a % Pitch
<1>1. q \in Nat /\ r \in Nat /\ r < Pitch /\ a = q * Pitch + r /\ a \in Nat
  <2>1. a \in Nat
    BY Sizes DEF Addresses
  <2>2. q \in Nat /\ r \in 0 .. Pitch - 1 /\ a = q * Pitch + r
    BY <2>1, Sizes, Division
  <2> HIDE DEF q, r
  <2>3. QED
    BY <2>1, <2>2, Sizes
<1> HIDE DEF q, r
<1>2. b = (q + fbcon_text_cy) * Pitch + r
  <2>1. (q + fbcon_text_cy) * Pitch = q * Pitch + fbcon_text_cy * Pitch
    BY <1>1, Sizes
  <2>2. PICK k \in Nat, m \in Nat : k = q * Pitch /\ m = fbcon_text_cy * Pitch
    BY <1>1, Sizes
  <2>3. QED
    BY <1>1, <2>1, <2>2 DEF Source
<1> HIDE DEF b
<1>3. q + fbcon_text_cy \in Nat
  BY <1>1, Sizes
<1>4. b \div Pitch = q + fbcon_text_cy /\ b % Pitch = r
  BY <1>1, <1>2, <1>3, Sizes, DivMod
<1>5. b \in Addresses
  <2>1. q + fbcon_text_cy + 1 <= Height /\ q + fbcon_text_cy + 1 \in Nat
    BY <1>1, Sizes DEF q
  <2>2. (q + fbcon_text_cy + 1) * Pitch <= Height * Pitch
    BY <2>1, Sizes, MulMonotonic
  <2>3. (q + fbcon_text_cy + 1) * Pitch = (q + fbcon_text_cy) * Pitch + Pitch
    BY <1>1, Sizes
  <2>4. Pitch * (Height + 2 * fbcon_text_cy) = Height * Pitch + 2 * fbcon_text_cy * Pitch
    BY Sizes
  <2>5. PICK k \in Nat, m \in Nat, n \in Nat :
          k = (q + fbcon_text_cy) * Pitch /\ m = Height * Pitch
          /\ n = 2 * fbcon_text_cy * Pitch
    BY <1>3, Sizes
  <2>6. b <= m + n /\ b \in Nat
    BY <1>1, <1>2, <2>2, <2>3, <2>5, Sizes
  <2>7. QED
    BY <2>4, <2>5, <2>6, Sizes DEF Addresses
<1>6. Shown(b)
  BY <1>4 DEF Shown, q, r
<1>7. (q + fbcon_text_cy) \div fbcon_text_cy = q \div fbcon_text_cy + 1
  <2>1. PICK k \in Nat, s \in Nat : /\ s < fbcon_text_cy /\ q = k * fbcon_text_cy + s
                                   /\ k = q \div fbcon_text_cy
    <3>1. /\ q \div fbcon_text_cy \in Nat /\ q % fbcon_text_cy \in 0 .. fbcon_text_cy - 1
          /\ q = (q \div fbcon_text_cy) * fbcon_text_cy + (q % fbcon_text_cy)
      BY <1>1, Sizes, Division
    <3>2. QED
      BY <3>1, Sizes
  <2>2. q + fbcon_text_cy = (k + 1) * fbcon_text_cy + s
    <3>1. (k + 1) * fbcon_text_cy = k * fbcon_text_cy + fbcon_text_cy
      BY <2>1, Sizes
    <3>2. PICK m \in Nat : m = k * fbcon_text_cy
      BY <2>1, Sizes
    <3>3. QED
      BY <2>1, <3>1, <3>2, Sizes
  <2>3. k + 1 \in Nat
    BY <2>1
  <2>4. ((k + 1) * fbcon_text_cy + s) \div fbcon_text_cy = k + 1
    BY <2>1, <2>3, Sizes, DivMod
  <2>5. QED
    BY <2>1, <2>2, <2>4
<1>8. QED
  BY <1>4, <1>5, <1>6, <1>7 DEF Row, Col, b, q, r

(* The pixel of the cell below.                                            *)
LEMMA SourceOfCell ==
  ASSUME NEW x \in Nat, NEW y \in Nat, NEW c \in Cells
  PROVE  Source(CellAt(x, y, c), fbcon_text_cy) = CellAt(x, y + 1, c)
<1>1. c[1] \in Nat /\ c[2] \in Nat
  BY Sizes DEF Cells
<1>2. /\ (y + 1) * fbcon_text_cy + c[1] = (y * fbcon_text_cy + c[1]) + fbcon_text_cy
  BY <1>1, Sizes
<1>3. PICK v \in Nat : v = y * fbcon_text_cy + c[1]
  BY <1>1, Sizes
<1>4. (v + fbcon_text_cy) * Pitch = v * Pitch + fbcon_text_cy * Pitch
  BY <1>3, Sizes
<1>5. PICK k \in Nat, m \in Nat, u \in Nat :
        k = v * Pitch /\ m = fbcon_text_cy * Pitch /\ u = x * fbcon_text_cx + c[2]
  <2>1. /\ v * Pitch \in Nat /\ fbcon_text_cy * Pitch \in Nat
        /\ x * fbcon_text_cx + c[2] \in Nat
    BY <1>1, <1>3, Sizes
  <2>2. QED
    BY ONLY <2>1
<1>6. CellAt(x, y, c) = k + u /\ CellAt(x, y + 1, c) = k + m + u
  BY <1>2, <1>3, <1>4, <1>5 DEF CellAt, Pixel
<1>7. QED
  BY <1>5, <1>6 DEF Source

-----------------------------------------------------------------------------
(***************************************************************************)
(* The inductive invariant.                                                *)
(***************************************************************************)
Statements ==
  {"head", "draw", "inc", "newline", "wrap", "zero", "down", "bottom", "scroll", "dec"}

Frame ==
  [pc : Statements, tab : 0 .. 5, ch : Chars \cup {"none", "space", "newline", "tab"},
   x : Nat, y : Nat]

Call ==
  {f \in Frame : /\ f.pc = "newline" => f.ch = "newline"
                 /\ f.pc \in {"draw", "inc"} => f.ch \notin {"newline", "tab"}}

(* Calls between whose statements the cursor may be behind the end of a    *)
(* line, and below the screen.                                             *)
PastLine(f) == f.pc = "zero" \/ (f.pc = "wrap" /\ f.ch # "newline")

BelowScreen(f) ==
  f.pc \in {"bottom", "scroll", "dec"} \/ (f.pc = "wrap" /\ f.ch = "newline")

(* Where the cursor may be in call f, which began up to dx columns behind  *)
(* a line and dy lines below the screen.                                   *)
Reach(f, dx, dy) ==
  /\ IF PastLine(f) THEN fbcon_x <= fbcon_cx + dx
     ELSE IF f.pc \in {"head", "draw", "inc"} THEN fbcon_x < fbcon_cx + dx
     ELSE fbcon_x < fbcon_cx
  /\ IF BelowScreen(f) THEN fbcon_y <= fbcon_cy + dy ELSE fbcon_y < fbcon_cy + dy

(* What the call that was interrupted leaves the running one with.         *)
LostX == IF mark = "torn" /\ Len(stack) = 2 /\ PastLine(stack[1]) THEN 1 ELSE 0
LostY == IF mark = "torn" /\ Len(stack) = 2 /\ BelowScreen(stack[1]) THEN 1 ELSE 0

CursorOK ==
  /\ Reach(top, LostX, LostY)
  /\ stack[1].pc \in {"scroll", "dec"} => fbcon_y >= fbcon_cy - 1
  /\ Len(stack) = 2 =>
       /\ top.pc \in {"scroll", "dec"} => fbcon_y >= fbcon_cy
       /\ top.pc = "down" => fbcon_x = 0
       /\ top.pc \in {"bottom", "scroll", "dec"} /\ fbcon_x > 0
            /\ top.ch \notin {"newline", "tab"} => fbcon_y <= fbcon_cy

(* The place a glyph is drawn at.                                          *)
PlaceOK ==
  /\ stack[1].pc = "draw" => OnScreen(stack[1].x, stack[1].y)
  /\ At("draw") =>
       /\ top.x <= fbcon_cx /\ top.y <= fbcon_cy
       /\ mark # "torn" => OnScreen(top.x, top.y)

Allowed(a) ==
  \/ \E y \in 0 .. fbcon_cy : a \in CellPixels(fbcon_cx, y)
  \/ \E x \in 0 .. fbcon_cx : a \in CellPixels(x, fbcon_cy)

PixelsOK ==
  \A a \in Addresses :
    ~Shown(a) /\ memory[a] # Foreign => mark # "clean" /\ Allowed(a)

CharCell == [ch : Chars \cup {"none", "space", "newline", "tab", "unknown"}, color : Colors]
Lines == Seq(Seq(CharCell))

(* The text with the character of call f, and what it will be when the     *)
(* iteration is over but for scrolling.                                    *)
Added(f) ==
  [lines EXCEPT ![Len(lines)] = Append(@, [ch |-> f.ch, color |-> color])]

Finished(f) ==
  CASE f.ch = "newline" -> Append(lines, <<>>)
    [] f.ch = "tab" -> lines
    [] OTHER -> IF Len(lines[Len(lines)]) + 1 = fbcon_cx
                THEN Append(Added(f), <<>>) ELSE Added(f)

(* The text that is on the screen.                                         *)
Text(f) ==
  CASE f.pc \in {"inc", "zero", "down"} -> Added(f)
    [] f.pc = "wrap" /\ f.ch \notin {"newline", "tab"} -> Added(f)
    [] f.pc \in {"bottom", "scroll"} -> Finished(f)
    [] f.pc = "dec" -> Tail(Finished(f))
    [] OTHER -> lines

(* Memory M shows character e in a cell.                                   *)
CellShows(M, x, y, e) ==
  \A c \in Cells : M[CellAt(x, y, c)] = Glyph(e.ch, c[1], c[2], e.color)

Visible(M, t) ==
  \A y \in 1 .. Len(t) : \A x \in 1 .. Len(t[y]) :
    t[y][x].ch # "unknown" => CellShows(M, x - 1, y - 1, t[y][x])

Written(t, a) == Row(a) \in 1 .. Len(t) /\ Col(a) \in 1 .. Len(t[Row(a)])

Blanks == {Junk} \cup {Background(c) : c \in Colors}

Blank(M, t) == \A a \in Addresses : Shown(a) /\ ~Written(t, a) => M[a] \in Blanks

(* Lines are not too long, and there is room for another character.        *)
Fits ==
  /\ lines \in Lines /\ Len(lines) \in 1 .. fbcon_cy
  /\ \A y \in 1 .. Len(lines) : Len(lines[y]) <= fbcon_cx
  /\ Len(lines[Len(lines)]) < fbcon_cx

CursorAt(f) ==
  LET n == Len(lines)
      k == Len(lines[n])
      t == Finished(f)
  IN  CASE f.pc \in {"head", "draw", "inc"} -> fbcon_x = k /\ fbcon_y = n - 1
        [] f.pc = "newline" -> fbcon_x = 0 /\ fbcon_y = n - 1
        [] f.pc = "wrap" ->
             IF f.ch = "newline" THEN fbcon_x = 0 /\ fbcon_y = n
             ELSE /\ fbcon_x = (IF f.ch = "tab" THEN k ELSE k + 1)
                  /\ fbcon_y = n - 1
        [] f.pc = "zero" -> k + 1 = fbcon_cx /\ fbcon_y = n - 1
        [] f.pc = "down" -> k + 1 = fbcon_cx /\ fbcon_x = 0 /\ fbcon_y = n - 1
        [] OTHER -> /\ fbcon_y = Len(t) - 1 /\ fbcon_x = Len(t[Len(t)])
                    /\ f.pc \in {"scroll", "dec"} => Len(t) = fbcon_cy + 1

TextOK ==
  mark # "torn" =>
    /\ Fits /\ CursorAt(top)
    /\ Visible(memory, Text(top))
    /\ mark = "clean" => Blank(memory, Text(top))
    /\ At("draw") => top.x = fbcon_x /\ top.y = fbcon_y
    /\ top.pc \in {"zero", "down"} => top.ch \notin {"newline", "tab"}

CallsOK == stack \in Seq(Call) /\ Len(stack) \in {1, 2}

IInv == TypeOK /\ CallsOK /\ CursorOK /\ PlaceOK /\ PixelsOK /\ TextOK

-----------------------------------------------------------------------------
(***************************************************************************)
(* Texts, and the screens that show them.                                  *)
(***************************************************************************)
(* u is the text t with e at the end of its last line.                     *)
Extended(t, u, e) ==
  LET n == Len(t)
      k == Len(t[n])
  IN  /\ u \in Lines /\ Len(u) = n
      /\ \A y \in 1 .. n : y # n => u[y] = t[y]
      /\ Len(u[n]) = k + 1 /\ u[n][k + 1] = e
      /\ \A x \in 1 .. k : u[n][x] = t[n][x]

(* u is the text t with an empty line behind it.                           *)
Taller(t, u) ==
  /\ u \in Lines /\ Len(u) = Len(t) + 1
  /\ \A y \in 1 .. Len(t) : u[y] = t[y]
  /\ Len(u[Len(u)]) = 0

(* u is the text t without its first line.                                 *)
Shorter(t, u) ==
  /\ u \in Lines /\ Len(u) = Len(t) - 1
  /\ \A y \in 1 .. Len(u) : u[y] = t[y + 1]

(* The lines of a text are sequences.                                      *)
LEMMA LineFacts ==
  ASSUME NEW t \in Lines, NEW y \in 1 .. Len(t)
  PROVE  t[y] \in Seq(CharCell) /\ Len(t[y]) \in Nat /\ Len(t) \in Nat
  BY DEF Lines

(* A text is a sequence.                                                   *)
LEMMA TextFacts ==
  ASSUME NEW t \in Lines
  PROVE  t \in Seq(Seq(CharCell)) /\ Len(t) \in Nat /\ DOMAIN t = 1 .. Len(t)
  BY DEF Lines

(* A character is added.                                                   *)
LEMMA ExtendedFacts ==
  ASSUME NEW t \in Lines, Len(t) >= 1, NEW e \in CharCell
  PROVE  Extended(t, [t EXCEPT ![Len(t)] = Append(@, e)], e)
<1> DEFINE n == Len(t)
           s == t[n]
           z == Append(s, e)
           u == [t EXCEPT ![n] = z]
<1>1. n \in 1 .. Len(t) /\ n \in Nat
  BY TextFacts
<1>2. s \in Seq(CharCell) /\ Len(s) \in Nat
  BY <1>1, LineFacts
<1> HIDE DEF s
<1>3. /\ z \in Seq(CharCell) /\ Len(z) = Len(s) + 1 /\ z[Len(s) + 1] = e
      /\ \A x \in 1 .. Len(s) : z[x] = s[x]
  BY <1>2, AppendProperties
<1> HIDE DEF z
<1>4. u \in Seq(Seq(CharCell)) /\ Len(u) = n /\ u[n] = z
      /\ \A y \in 1 .. n : y # n => u[y] = t[y]
  <2>1. t \in Seq(Seq(CharCell))
    BY TextFacts
  <2>2. QED
    BY <1>1, <1>3, <2>1
<1> HIDE DEF u
<1>5. Extended(t, u, e)
  BY <1>3, <1>4 DEF Extended, Lines, s
<1>6. QED
  BY <1>5 DEF u, z, s

(* A line is added.                                                        *)
LEMMA TallerFacts ==
  ASSUME NEW t \in Lines
  PROVE  Taller(t, Append(t, <<>>))
<1>1. t \in Seq(Seq(CharCell)) /\ <<>> \in Seq(CharCell) /\ Len(<<>>) = 0
  BY TextFacts
<1> DEFINE e == <<>>
<1> HIDE DEF e
<1>2. /\ Append(t, e) \in Seq(Seq(CharCell)) /\ Len(Append(t, e)) = Len(t) + 1
      /\ \A y \in 1 .. Len(t) : Append(t, e)[y] = t[y]
      /\ Append(t, e)[Len(t) + 1] = e
  BY <1>1, AppendProperties DEF e
<1>3. QED
  BY <1>1, <1>2 DEF Taller, Lines, e

(* A line is dropped.                                                      *)
LEMMA ShorterFacts ==
  ASSUME NEW t \in Lines, Len(t) >= 1
  PROVE  Shorter(t, Tail(t))
<1>1. t \in Seq(Seq(CharCell)) /\ t # <<>> /\ Len(t) \in Nat
  BY TextFacts
<1>2. /\ Tail(t) \in Seq(Seq(CharCell)) /\ Len(Tail(t)) = Len(t) - 1
      /\ \A y \in 1 .. Len(Tail(t)) : Tail(t)[y] = t[y + 1]
  BY <1>1, HeadTailProperties
<1>3. QED
  BY <1>2 DEF Shorter, Lines

(* Dropping the first line and adding one at the end, in either order.     *)
LEMMA TailOfAppend ==
  ASSUME NEW t \in Lines, Len(t) >= 1
  PROVE  Tail(Append(t, <<>>)) = Append(Tail(t), <<>>)
<1>1. t \in Seq(Seq(CharCell)) /\ t # <<>> /\ Len(t) \in Nat /\ <<>> \in Seq(CharCell)
  BY TextFacts
<1>2. QED
  BY <1>1

(* Memory N is M with a character drawn in a cell.                         *)
Drawn(M, N, x, y, e) ==
  /\ CellShows(N, x, y, e)
  /\ \A a \in Addresses : a \notin CellPixels(x, y) => N[a] = M[a]

(* Memory N is M scrolled up by one text row.                              *)
Scrolled(M, N) ==
  \A a \in Addresses :
    Shown(a) => IF (a \div Pitch) + fbcon_text_cy < Height
                THEN N[a] = M[Source(a, fbcon_text_cy)]
                ELSE N[a] \in Blanks

(* Drawing a glyph leaves the other cells on the screen alone.             *)
LEMMA DrawKeeps ==
  ASSUME NEW M, NEW N, NEW x \in Nat, NEW y \in Nat, NEW e, Drawn(M, N, x, y, e),
         OnScreen(x, y), NEW z \in Nat, NEW w \in Nat, OnScreen(z, w),
         x # z \/ y # w, NEW d, CellShows(M, z, w, d)
  PROVE  CellShows(N, z, w, d)
<1>1. ASSUME NEW c \in Cells
      PROVE  N[CellAt(z, w, c)] = M[CellAt(z, w, c)]
  <2>1. CellAt(z, w, c) \in Addresses
    BY CellGeometry
  <2>2. CellAt(z, w, c) \notin CellPixels(x, y)
    BY CellInjective DEF CellPixels
  <2>3. QED
    BY <2>1, <2>2 DEF Drawn
<1>2. QED
  BY <1>1 DEF CellShows

(* The character drawn is part of what is shown.                           *)
LEMMA DrawShows ==
  ASSUME NEW M, NEW N, NEW t \in Lines, NEW u, NEW e, Extended(t, u, e),
         Len(t) \in 1 .. fbcon_cy, \A y \in 1 .. Len(t) : Len(t[y]) <= fbcon_cx,
         Len(t[Len(t)]) < fbcon_cx,
         Drawn(M, N, Len(t[Len(t)]), Len(t) - 1, e), Visible(M, t)
  PROVE  Visible(N, u)
<1> DEFINE n == Len(t)
           k == Len(t[n])
<1>1. n \in Nat /\ n >= 1 /\ n \in 1 .. Len(t) /\ k \in Nat /\ n - 1 \in Nat
      /\ OnScreen(k, n - 1)
  <2>1. n \in Nat /\ n >= 1 /\ n \in 1 .. Len(t) /\ n <= fbcon_cy
    BY Sizes
  <2>2. k \in Nat
    BY <2>1, LineFacts
  <2>3. QED
    BY <2>1, <2>2, Sizes DEF OnScreen
<1>2. ASSUME NEW y \in 1 .. Len(u), NEW x \in 1 .. Len(u[y]), u[y][x].ch # "unknown"
      PROVE  CellShows(N, x - 1, y - 1, u[y][x])
  <2>1. u \in Lines /\ Len(u) = n /\ y \in 1 .. n
    BY <1>2 DEF Extended
  <2>2. CASE y = n /\ x = k + 1
    <3>1. u[y][x] = e /\ x - 1 = k /\ y - 1 = n - 1
      BY <2>2, <1>1 DEF Extended
    <3>2. QED
      BY <3>1 DEF Drawn
  <2>3. CASE ~(y = n /\ x = k + 1)
    <3>1. Len(t[y]) \in Nat /\ Len(t[y]) <= fbcon_cx
      BY <2>1, LineFacts
    <3>2. x \in 1 .. Len(t[y]) /\ u[y][x] = t[y][x]
      <4>1. CASE y = n
        <5>1. Len(u[y]) = k + 1
          BY <4>1 DEF Extended
        <5>2. x \in 1 .. k
          BY <5>1, <4>1, <2>3, <1>1
        <5>3. QED
          BY <4>1, <5>2 DEF Extended
      <4>2. CASE y # n
        BY <4>2, <2>1 DEF Extended
      <4>3. QED
        BY <4>1, <4>2
    <3>3. x - 1 \in Nat /\ y - 1 \in Nat /\ OnScreen(x - 1, y - 1)
      BY <1>1, <2>1, <3>1, <3>2, Sizes DEF OnScreen
    <3>4. x - 1 # k \/ y - 1 # n - 1
      BY <2>1, <2>3, <3>1, <3>2, <1>1
    <3>5. CellShows(M, x - 1, y - 1, t[y][x])
      BY <1>2, <2>1, <3>2 DEF Visible
    <3>6. QED
      BY <1>1, <3>2, <3>3, <3>4, <3>5, DrawKeeps
  <2>4. QED
    BY <2>2, <2>3
<1>3. QED
  BY <1>2 DEF Visible

(* What is drawn is written.                                               *)
LEMMA DrawBlank ==
  ASSUME NEW M, NEW N, NEW t \in Lines, NEW u, NEW e, Extended(t, u, e),
         Len(t) \in 1 .. fbcon_cy, Len(t[Len(t)]) < fbcon_cx,
         Drawn(M, N, Len(t[Len(t)]), Len(t) - 1, e), Blank(M, t)
  PROVE  Blank(N, u)
<1> DEFINE n == Len(t)
           k == Len(t[n])
<1>1. n \in Nat /\ n >= 1 /\ n \in 1 .. Len(t) /\ k \in Nat /\ n - 1 \in Nat
      /\ OnScreen(k, n - 1) /\ Len(u) = n /\ Len(u[n]) = k + 1
  <2>1. n \in Nat /\ n >= 1 /\ n \in 1 .. Len(t) /\ n <= fbcon_cy
    BY Sizes
  <2>2. k \in Nat
    BY <2>1, LineFacts
  <2>3. QED
    BY <2>1, <2>2, Sizes DEF OnScreen, Extended
<1>2. ASSUME NEW a \in Addresses, Shown(a), ~Written(u, a)
      PROVE  N[a] \in Blanks
  <2>1. a \notin CellPixels(k, n - 1)
    <3>1. ASSUME NEW c \in Cells, a = CellAt(k, n - 1, c)
          PROVE  FALSE
      <4>1. Row(a) = (n - 1) + 1 /\ Col(a) = k + 1
        BY <1>1, <3>1, CellGeometry
      <4>2. Row(a) = n
        BY <1>1, <4>1
      <4>3. QED
        BY <1>1, <1>2, <4>1, <4>2 DEF Written
    <3>2. QED
      BY <3>1 DEF CellPixels
  <2>2. ~Written(t, a)
    <3>1. ASSUME Written(t, a)
          PROVE  Written(u, a)
      <4>1. PICK y \in 1 .. n : Row(a) = y /\ Col(a) \in 1 .. Len(t[y])
        BY <3>1 DEF Written
      <4>2. Len(t[y]) \in Nat
        BY <4>1, LineFacts
      <4>3. Col(a) \in 1 .. Len(u[y])
        <5>1. CASE y = n
          BY <5>1, <4>1, <4>2, <1>1
        <5>2. CASE y # n
          BY <5>2, <4>1 DEF Extended
        <5>3. QED
          BY <5>1, <5>2
      <4>4. QED
        BY <4>1, <4>3, <1>1 DEF Written
    <3>2. QED
      BY <3>1, <1>2
  <2>3. QED
    BY <1>2, <2>1, <2>2 DEF Drawn, Blank
<1>3. QED
  BY <1>2 DEF Blank

(* An empty line shows nothing.                                            *)
LEMMA TallerShows ==
  ASSUME NEW M, NEW t \in Lines, NEW u, Taller(t, u)
  PROVE  /\ Visible(M, t) => Visible(M, u)
         /\ Blank(M, t) => Blank(M, u)
<1>1. Len(t) \in Nat
  BY TextFacts
<1>2. ASSUME NEW y \in 1 .. Len(u), NEW x \in 1 .. Len(u[y])
      PROVE  y \in 1 .. Len(t) /\ u[y] = t[y]
  BY <1>1, <1>2 DEF Taller
<1>3. Visible(M, t) => Visible(M, u)
  BY <1>2 DEF Visible
<1>4. ASSUME NEW a \in Addresses, Written(t, a)
      PROVE  Written(u, a)
  BY <1>1, <1>4 DEF Written, Taller
<1>5. QED
  BY <1>3, <1>4 DEF Blank

(* Scrolling shows the text without its first line.                        *)
LEMMA ScrollShows ==
  ASSUME NEW M, NEW N, NEW t \in Lines, NEW u, Shorter(t, u), Scrolled(M, N),
         Len(t) = fbcon_cy + 1, Len(t[Len(t)]) = 0,
         \A y \in 1 .. Len(t) : Len(t[y]) <= fbcon_cx
  PROVE  /\ Visible(M, t) => Visible(N, u)
         /\ Blank(M, t) => Blank(N, u)
<1>1. Len(u) = fbcon_cy /\ \A y \in 1 .. fbcon_cy : u[y] = t[y + 1] /\ y + 1 \in 1 .. Len(t)
  BY Sizes DEF Shorter
<1>2. ASSUME Visible(M, t), NEW y \in 1 .. Len(u), NEW x \in 1 .. Len(u[y]),
             u[y][x].ch # "unknown"
      PROVE  CellShows(N, x - 1, y - 1, u[y][x])
  <2>1. PICK z \in 1 .. Len(t) : z = y + 1 /\ u[y] = t[z]
    BY <1>1
  <2>2. Len(t[z]) \in Nat /\ Len(t[z]) <= fbcon_cx /\ z # Len(t)
    BY <1>2, <2>1, LineFacts
  <2>3. /\ x - 1 \in Nat /\ y - 1 \in Nat /\ y \in Nat /\ OnScreen(x - 1, y - 1)
        /\ OnScreen(x - 1, y) /\ z - 1 = y /\ (y - 1) + 1 = y
    BY <1>1, <2>1, <2>2, Sizes DEF OnScreen
  <2>4. CellShows(M, x - 1, y, u[y][x])
    BY <1>2, <2>1, <2>3 DEF Visible
  <2>5. ASSUME NEW c \in Cells
        PROVE  N[CellAt(x - 1, y - 1, c)] = M[CellAt(x - 1, y, c)]
    <3> DEFINE a == CellAt(x - 1, y - 1, c)
               b == CellAt(x - 1, y, c)
    <3>1. a \in Addresses /\ Shown(a) /\ Shown(b)
      BY <2>3, CellGeometry
    <3>2. Source(a, fbcon_text_cy) = b
      BY <2>3, SourceOfCell
    <3>3. (a \div Pitch) + fbcon_text_cy < Height
      <4>1. b = a + fbcon_text_cy * Pitch
        BY <3>2 DEF Source
      <4>2. a \in Nat
        BY <3>1, Sizes DEF Addresses
      <4> HIDE DEF a, b
      <4>3. PICK q \in Nat, r \in Nat : /\ a = q * Pitch + r /\ q = a \div Pitch
                                       /\ r < Pitch
        <5>1. /\ a \div Pitch \in Nat /\ a % Pitch \in 0 .. Pitch - 1
              /\ a = (a \div Pitch) * Pitch + (a % Pitch)
          BY <4>2, Sizes, Division
        <5>2. QED
          BY <5>1, Sizes
      <4>4. b = (q + fbcon_text_cy) * Pitch + r
        <5>1. (q + fbcon_text_cy) * Pitch = q * Pitch + fbcon_text_cy * Pitch
          BY <4>3, Sizes
        <5>2. PICK k \in Nat, m \in Nat : k = q * Pitch /\ m = fbcon_text_cy * Pitch
          BY <4>3, Sizes
        <5>3. QED
          BY <4>1, <4>3, <5>1, <5>2
      <4>5. b \div Pitch = q + fbcon_text_cy
        <5>1. q + fbcon_text_cy \in Nat
          BY <4>3, Sizes
        <5>2. QED
          BY <4>3, <4>4, <5>1, Sizes, DivMod
      <4>6. QED
        BY <3>1, <4>3, <4>5 DEF Shown
    <3>4. QED
      BY <3>1, <3>2, <3>3 DEF Scrolled
  <2>6. QED
    BY <2>4, <2>5 DEF CellShows
<1>3. ASSUME Blank(M, t), NEW a \in Addresses, Shown(a), ~Written(u, a)
      PROVE  N[a] \in Blanks
  <2>1. CASE (a \div Pitch) + fbcon_text_cy < Height
    <3> DEFINE b == Source(a, fbcon_text_cy)
    <3>1. b \in Addresses /\ Shown(b) /\ Row(b) = Row(a) + 1 /\ Col(b) = Col(a)
      BY <1>3, <2>1, SourceGeometry
    <3>2. Row(a) \in Nat /\ Row(a) >= 1
      <4>1. a \in Nat
        BY Sizes DEF Addresses
      <4>2. a \div Pitch \in Nat
        BY <4>1, Sizes, Division
      <4>3. (a \div Pitch) \div fbcon_text_cy \in Nat
        BY <4>2, Sizes, Division
      <4>4. QED
        BY <4>3 DEF Row
    <3>3. ~Written(t, b)
      <4>1. ASSUME Written(t, b)
            PROVE  FALSE
        <5>1. PICK z \in 1 .. Len(t) : Row(b) = z /\ Col(b) \in 1 .. Len(t[z])
          BY <4>1 DEF Written
        <5>2. z # Len(t)
          BY <5>1
        <5>3. PICK y \in 1 .. fbcon_cy : y + 1 = z /\ y = Row(a)
          BY <3>1, <3>2, <5>1, <5>2, Sizes
        <5>4. u[y] = t[z]
          BY <1>1, <5>3
        <5>5. Written(u, a)
          BY <1>1, <3>1, <5>1, <5>3, <5>4 DEF Written
        <5>6. QED
          BY <5>5, <1>3
      <4>2. QED
        BY <4>1
    <3>4. M[b] \in Blanks
      BY <1>3, <3>1, <3>3 DEF Blank
    <3>5. QED
      BY <1>3, <2>1, <3>4 DEF Scrolled
  <2>2. CASE ~((a \div Pitch) + fbcon_text_cy < Height)
    BY <1>3, <2>2 DEF Scrolled
  <2>3. QED
    BY <2>1, <2>2
<1>4. Visible(M, t) => Visible(N, u)
  BY <1>2 DEF Visible
<1>5. Blank(M, t) => Blank(N, u)
  BY <1>3 DEF Blank
<1>6. QED
  BY <1>4, <1>5

-----------------------------------------------------------------------------
(***************************************************************************)
(* Steps.                                                                  *)
(***************************************************************************)
(* The running call, and what the one below leaves it with.                *)
LEMMA TopFacts ==
  ASSUME CallsOK
  PROVE  /\ top \in Call /\ stack[1] \in Call /\ stack \in Seq(Call)
         /\ Len(stack) = 1 \/ Len(stack) = 2
         /\ Len(stack) = 1 => top = stack[1] /\ LostX = 0 /\ LostY = 0
         /\ LostX \in {0, 1} /\ LostY \in {0, 1}
         /\ mark # "torn" => LostX = 0 /\ LostY = 0
         /\ LostX = 1 \/ LostY = 1 => mark = "torn" /\ Len(stack) = 2
<1>1. Len(stack) = 1 \/ Len(stack) = 2
  BY DEF CallsOK
<1>2. stack[1] \in Call /\ top \in Call
  BY <1>1 DEF CallsOK, top
<1>3. Len(stack) = 1 => top = stack[1]
  BY DEF top
<1>4. LostX = 0 \/ (LostX = 1 /\ mark = "torn" /\ Len(stack) = 2)
  BY DEF LostX
<1>5. LostY = 0 \/ (LostY = 1 /\ mark = "torn" /\ Len(stack) = 2)
  BY DEF LostY
<1>6. /\ LostX \in {0, 1} /\ LostY \in {0, 1}
      /\ mark # "torn" \/ Len(stack) # 2 => LostX = 0 /\ LostY = 0
      /\ LostX = 1 \/ LostY = 1 => mark = "torn" /\ Len(stack) = 2
  BY ONLY <1>4, <1>5
<1>7. stack \in Seq(Call)
  BY DEF CallsOK
<1>8. QED
  BY ONLY <1>1, <1>2, <1>3, <1>6, <1>7

(* A call's next statement, where none is special.                         *)
LEMMA Advance ==
  ASSUME NEW f \in Call, NEW pc \in Statements \ {"newline", "draw", "inc"}
  PROVE  \E g \in Call : g = [f EXCEPT !.pc = pc] /\ g.pc = pc /\ g.ch = f.ch
<1> DEFINE g == [f EXCEPT !.pc = pc]
<1>1. f \in Frame
  BY DEF Call
<1>2. g \in Frame /\ g.pc = pc /\ g.ch = f.ch
  BY <1>1 DEF Frame
<1> HIDE DEF g
<1>3. pc # "newline" /\ pc \notin {"draw", "inc"}
  OBVIOUS
<1>4. g \in Call
  BY <1>2, <1>3 DEF Call
<1>5. QED
  BY <1>2, <1>4 DEF g

(* The running call goes on.                                               *)
LEMMA SetFacts ==
  ASSUME CallsOK, NEW f \in Call, Set(f), mark' = mark
  PROVE  /\ stack' \in Seq(Call) /\ Len(stack') = Len(stack) /\ top' = f
         /\ Len(stack) = 1 => stack'[1] = f
         /\ Len(stack) = 2 => stack'[1] = stack[1]
         /\ LostX' = LostX /\ LostY' = LostY
<1>1. stack \in Seq(Call) /\ (Len(stack) = 1 \/ Len(stack) = 2)
  BY DEF CallsOK
<1>2. /\ stack' \in Seq(Call) /\ Len(stack') = Len(stack) /\ stack'[Len(stack)] = f
      /\ Len(stack) = 2 => stack'[1] = stack[1]
  BY <1>1 DEF Set
<1>3. top' = f
  BY <1>2 DEF top
<1>4. LostX' = LostX /\ LostY' = LostY
  BY <1>1, <1>2 DEF LostX, LostY, PastLine, BelowScreen
<1>5. QED
  BY <1>1, <1>2, <1>3, <1>4

(* The running call begins its next iteration, whatever becomes of mark.   *)
LEMMA NextIteration ==
  ASSUME CallsOK, NEW f \in Call, Set(f)
  PROVE  /\ stack' \in Seq(Call) /\ Len(stack') = Len(stack) /\ top' = f
         /\ Len(stack) = 1 => stack'[1] = f
         /\ Len(stack) = 2 => stack'[1] = stack[1]
<1>1. stack \in Seq(Call) /\ (Len(stack) = 1 \/ Len(stack) = 2)
  BY DEF CallsOK
<1>2. /\ stack' \in Seq(Call) /\ Len(stack') = Len(stack) /\ stack'[Len(stack)] = f
      /\ Len(stack) = 2 => stack'[1] = stack[1]
  BY <1>1 DEF Set
<1>3. QED
  BY <1>1, <1>2 DEF top

(* A character of the text.                                                *)
LEMMA CharFacts ==
  ASSUME TypeOK, NEW f \in Call
  PROVE  [ch |-> f.ch, color |-> color] \in CharCell
  BY DEF TypeOK, Call, Frame, CharCell

(* The text at the end of an iteration, before scrolling.                  *)
LEMMA FinishedFacts ==
  ASSUME TypeOK, Fits, NEW f \in Call
  PROVE  LET t == Finished(f)
         IN  /\ t \in Lines /\ Len(t) \in 1 .. fbcon_cy + 1
             /\ \A y \in 1 .. Len(t) : Len(t[y]) <= fbcon_cx
             /\ Len(t[Len(t)]) \in Nat /\ Len(t[Len(t)]) < fbcon_cx
             /\ Len(t) = fbcon_cy + 1 => Len(t[Len(t)]) = 0
<1> DEFINE e == [ch |-> f.ch, color |-> color]
           u == Added(f)
<1>1. /\ lines \in Lines /\ Len(lines) \in Nat /\ Len(lines) >= 1 /\ Len(lines) <= fbcon_cy
      /\ Len(lines) \in 1 .. Len(lines)
      /\ Len(lines[Len(lines)]) \in Nat /\ Len(lines[Len(lines)]) < fbcon_cx
      /\ \A y \in 1 .. Len(lines) : Len(lines[y]) <= fbcon_cx
  BY Sizes, LineFacts DEF Fits
<1>2. Extended(lines, u, e)
  BY <1>1, CharFacts, ExtendedFacts DEF Added
<1> HIDE DEF u
<1>3. /\ u \in Lines /\ Len(u) = Len(lines)
      /\ Len(u[Len(u)]) = Len(lines[Len(lines)]) + 1
      /\ \A y \in 1 .. Len(u) : Len(u[y]) <= fbcon_cx
  <2>1. ASSUME NEW y \in 1 .. Len(u)
        PROVE  Len(u[y]) <= fbcon_cx
    <3>1. CASE y = Len(lines)
      BY <3>1, <1>1, <1>2, Sizes DEF Extended
    <3>2. CASE y # Len(lines)
      BY <3>2, <1>1, <1>2 DEF Extended
    <3>3. QED
      BY <3>1, <3>2
  <2>2. QED
    BY <1>2, <2>1 DEF Extended
<1>4. ASSUME NEW s \in Lines, Len(s) = Len(lines),
             \A y \in 1 .. Len(s) : Len(s[y]) <= fbcon_cx
      PROVE  LET t == Append(s, <<>>)
             IN  /\ t \in Lines /\ Len(t) \in 1 .. fbcon_cy + 1
                 /\ \A y \in 1 .. Len(t) : Len(t[y]) <= fbcon_cx
                 /\ Len(t[Len(t)]) = 0
  <2> DEFINE t == Append(s, <<>>)
  <2>1. Taller(s, t)
    BY TallerFacts
  <2> HIDE DEF t
  <2>2. t \in Lines /\ Len(t) = Len(lines) + 1 /\ Len(t[Len(t)]) = 0
    BY <2>1, <1>4 DEF Taller
  <2>3. ASSUME NEW y \in 1 .. Len(t)
        PROVE  Len(t[y]) <= fbcon_cx
    <3>1. CASE y = Len(t)
      BY <3>1, <2>2, Sizes
    <3>2. CASE y # Len(t)
      <4>1. y \in 1 .. Len(s)
        BY <3>2, <2>2, <1>1, <1>4
      <4>2. QED
        BY <4>1, <2>1, <1>4 DEF Taller
    <3>3. QED
      BY <3>1, <3>2
  <2>4. QED
    BY <2>2, <2>3, <1>1, Sizes DEF t
<1>5. CASE f.ch = "newline"
  <2>1. Finished(f) = Append(lines, <<>>)
    BY <1>5 DEF Finished
  <2>2. QED
    BY <1>1, <1>4, <2>1, Sizes
<1>6. CASE f.ch = "tab"
  <2>1. Finished(f) = lines
    BY <1>6 DEF Finished
  <2>2. QED
    BY <1>1, <2>1, Sizes
<1>7. CASE f.ch \notin {"newline", "tab"} /\ Len(lines[Len(lines)]) + 1 = fbcon_cx
  <2>1. Finished(f) = Append(u, <<>>)
    BY <1>7 DEF Finished, u
  <2>2. QED
    BY <1>3, <1>4, <2>1, Sizes
<1>8. CASE f.ch \notin {"newline", "tab"} /\ Len(lines[Len(lines)]) + 1 # fbcon_cx
  <2>1. Finished(f) = u
    BY <1>8 DEF Finished, u
  <2>2. QED
    BY <1>1, <1>3, <1>8, <2>1, Sizes
<1>9. QED
  BY <1>5, <1>6, <1>7, <1>8

(* Drawing, in terms of cells.                                             *)
LEMMA DrawFacts ==
  ASSUME NEW x \in Nat, NEW y \in Nat, NEW ch, memory' = fbcon_draw_ch(ch, x, y)
  PROVE  /\ DOMAIN memory' = Addresses
         /\ \A a \in Addresses : a \notin CellPixels(x, y) => memory'[a] = memory[a]
         /\ OnScreen(x, y) =>
              Drawn(memory, memory', x, y, [ch |-> ch, color |-> color])
<1>1. /\ DOMAIN memory' = Addresses
      /\ \A a \in Addresses : a \notin CellPixels(x, y) => memory'[a] = memory[a]
  BY DEF fbcon_draw_ch
<1>2. ASSUME OnScreen(x, y), NEW c \in Cells
      PROVE  memory'[CellAt(x, y, c)] = Glyph(ch, c[1], c[2], color)
  <2> DEFINE a == CellAt(x, y, c)
  <2>1. a \in Addresses /\ a \in CellPixels(x, y)
    BY <1>2, CellGeometry DEF CellPixels
  <2>2. (CHOOSE d \in Cells : CellAt(x, y, d) = a) = c
    <3>1. \A d \in Cells : CellAt(x, y, d) = a => d = c
      BY <1>2, CellInjective
    <3>2. CellAt(x, y, c) = a
      OBVIOUS
    <3> HIDE DEF a
    <3>3. QED
      BY <3>1, <3>2
  <2> HIDE DEF a
  <2>3. memory'[a] = LET d == CHOOSE d \in Cells : CellAt(x, y, d) = a
                     IN  Glyph(ch, d[1], d[2], color)
    BY <2>1 DEF fbcon_draw_ch
  <2>4. QED
    BY <2>2, <2>3 DEF a
<1>3. QED
  BY <1>1, <1>2 DEF Drawn, CellShows

(* Scrolling, in terms of rows.                                            *)
LEMMA ScrollFacts ==
  ASSUME TypeOK, memory' = framebuffer_scroll_up(fbcon_text_cy)
  PROVE  /\ DOMAIN memory' = Addresses
         /\ \A a \in Addresses : ~Shown(a) => memory'[a] = memory[a]
         /\ Scrolled(memory, memory')
<1>1. /\ DOMAIN memory' = Addresses
      /\ \A a \in Addresses : ~Shown(a) => memory'[a] = memory[a]
  BY DEF framebuffer_scroll_up
<1>2. ASSUME NEW a \in Addresses, Shown(a)
      PROVE  IF (a \div Pitch) + fbcon_text_cy < Height
             THEN memory'[a] = memory[Source(a, fbcon_text_cy)]
             ELSE memory'[a] \in Blanks
  <2>1. (a \div Pitch) \in Nat
    BY Sizes, Division DEF Addresses
  <2>2. memory'[a] = IF (a \div Pitch) + fbcon_text_cy >= Height THEN empty_fill(a)
                     ELSE memory[Source(a, fbcon_text_cy)]
    BY <1>2 DEF framebuffer_scroll_up
  <2>3. empty_fill(a) \in Blanks
    BY DEF empty_fill, Blanks, TypeOK
  <2>4. (a \div Pitch) + fbcon_text_cy < Height
          <=> ~((a \div Pitch) + fbcon_text_cy >= Height)
    BY <2>1, Sizes
  <2>5. QED
    BY <2>2, <2>3, <2>4
<1>3. QED
  BY <1>1, <1>2 DEF Scrolled

(* A step inside an iteration, but for where the cursor is and what is     *)
(* drawn.                                                                  *)
LEMMA Goes ==
  ASSUME IInv, NEW g \in Call, Set(g), UNCHANGED <<color, events, lines, mark>>,
         fbcon_x' \in Nat, fbcon_y' \in Nat
  PROVE  /\ CallsOK' /\ top' = g /\ Len(stack') = Len(stack)
         /\ Len(stack) = 1 => stack'[1] = g
         /\ Len(stack) = 2 => stack'[1] = stack[1]
         /\ LostX' = LostX /\ LostY' = LostY
         /\ DOMAIN memory' = Addresses => TypeOK'
         /\ memory' = memory => TypeOK' /\ PixelsOK'
         /\ Text(g)' = Text(g) /\ Finished(g)' = Finished(g) /\ Fits' = Fits
<1>1. TypeOK /\ CallsOK /\ PixelsOK
  BY DEF IInv
<1>2. /\ stack' \in Seq(Call) /\ Len(stack') = Len(stack) /\ top' = g
      /\ Len(stack) = 1 => stack'[1] = g
      /\ Len(stack) = 2 => stack'[1] = stack[1]
      /\ LostX' = LostX /\ LostY' = LostY
  BY <1>1, SetFacts
<1>3. CallsOK'
  BY <1>1, <1>2 DEF CallsOK
<1>4. DOMAIN memory' = Addresses => TypeOK'
  BY <1>1, <1>2 DEF TypeOK
<1>5. memory' = memory => TypeOK' /\ PixelsOK'
  BY <1>1, <1>4 DEF PixelsOK, TypeOK
<1>6. Added(g)' = Added(g)
  BY DEF Added
<1>7. Finished(g)' = Finished(g)
  BY <1>6 DEF Finished
<1>8. Text(g)' = Text(g)
  BY <1>6, <1>7 DEF Text
<1>9. Fits' = Fits
  BY DEF Fits
<1>10. QED
  BY <1>2, <1>3, <1>4, <1>5, <1>7, <1>8, <1>9

(* What the invariant says of the cursor.                                  *)
LEMMA CursorFacts ==
  ASSUME IInv
  PROVE  /\ fbcon_x \in Nat /\ fbcon_y \in Nat /\ top \in Call /\ stack[1] \in Call
         /\ Len(stack) = 1 \/ Len(stack) = 2
         /\ Len(stack) = 1 => top = stack[1] /\ LostX = 0 /\ LostY = 0
         /\ LostX \in {0, 1} /\ LostY \in {0, 1}
         /\ mark # "torn" => LostX = 0 /\ LostY = 0
         /\ CursorOK /\ PlaceOK /\ TextOK /\ TypeOK /\ CallsOK
  BY TopFacts DEF IInv, TypeOK

(* The place of the glyph is evaluated.                                    *)
LEMMA PutCharStep ==
  ASSUME IInv, NEW ch \in Chars \cup {"space"}, PutChar(ch)
  PROVE  IInv'
<1>1. PICK f \in Call : f = top
  BY CursorFacts
<1>2. f.pc = "head" /\ ch \notin {"newline", "tab"}
  BY <1>1, FbconAssumption DEF PutChar, At
<1>3. PICK g \in Call :
        /\ g = [f EXCEPT !.pc = "draw", !.ch = ch, !.x = fbcon_x, !.y = fbcon_y,
                         !.tab = IF @ = 0 THEN 0 ELSE @ - 1]
        /\ g.pc = "draw" /\ g.ch = ch /\ g.x = fbcon_x /\ g.y = fbcon_y
  <2>1. fbcon_x \in Nat /\ fbcon_y \in Nat
    BY CursorFacts
  <2>2. f \in Frame /\ f.tab \in 0 .. 5
    BY DEF Call, Frame
  <2>3. PICK n \in 0 .. 5 : n = IF f.tab = 0 THEN 0 ELSE f.tab - 1
    <3>1. PICK k \in 0 .. 5 : k = f.tab
      BY <2>2
    <3>2. (IF k = 0 THEN 0 ELSE k - 1) \in 0 .. 5
      <4>1. k = 0 \/ k - 1 \in 0 .. 5
        BY ONLY k \in 0 .. 5
      <4>2. 0 \in 0 .. 5
        OBVIOUS
      <4>3. QED
        BY ONLY <4>1, <4>2
    <3>3. QED
      BY ONLY <3>1, <3>2
  <2> DEFINE g == [f EXCEPT !.pc = "draw", !.ch = ch, !.x = fbcon_x, !.y = fbcon_y,
                            !.tab = n]
  <2>4. g \in Frame /\ g.pc = "draw" /\ g.ch = ch /\ g.x = fbcon_x /\ g.y = fbcon_y
    BY <2>1, <2>2, <2>3 DEF Frame, Statements
  <2>5. g = [f EXCEPT !.pc = "draw", !.ch = ch, !.x = fbcon_x, !.y = fbcon_y,
                      !.tab = IF @ = 0 THEN 0 ELSE @ - 1]
    BY <2>2, <2>3 DEF Frame
  <2> HIDE DEF g
  <2>6. QED
    BY <1>2, <2>4, <2>5 DEF Call
<1>4. Set(g) /\ UNCHANGED <<memory, fbcon_x, fbcon_y, color, events, lines, mark>>
  BY <1>1, <1>3 DEF PutChar
<1>5. /\ CallsOK' /\ top' = g /\ Len(stack') = Len(stack)
      /\ Len(stack) = 1 => stack'[1] = g
      /\ Len(stack) = 2 => stack'[1] = stack[1]
      /\ LostX' = LostX /\ LostY' = LostY /\ TypeOK' /\ PixelsOK'
      /\ Text(g)' = Text(g) /\ Finished(g)' = Finished(g) /\ Fits' = Fits
  BY <1>4, CursorFacts, Goes
<1>6. CursorOK'
  BY <1>1, <1>2, <1>3, <1>4, <1>5, CursorFacts, Sizes
     DEF CursorOK, Reach, PastLine, BelowScreen
<1>7. PlaceOK'
  <2>1. fbcon_x < fbcon_cx + LostX /\ fbcon_y < fbcon_cy + LostY
    BY <1>1, <1>2, CursorFacts DEF CursorOK, Reach, PastLine, BelowScreen
  <2>2. fbcon_x <= fbcon_cx /\ fbcon_y <= fbcon_cy
    BY <2>1, CursorFacts, Sizes
  <2>3. Len(stack) = 1 \/ mark # "torn" => OnScreen(fbcon_x, fbcon_y)
    BY <2>1, CursorFacts, Sizes DEF OnScreen
  <2>4. g.x = fbcon_x' /\ g.y = fbcon_y' /\ OnScreen(fbcon_x, fbcon_y)' = OnScreen(fbcon_x, fbcon_y)
    BY <1>3, <1>4 DEF OnScreen
  <2>5. (stack[1].pc = "draw" => OnScreen(stack[1].x, stack[1].y))'
    BY <1>3, <1>5, <2>3, CursorFacts DEF PlaceOK, OnScreen
  <2>6. QED
    BY <1>3, <1>4, <1>5, <2>2, <2>3, <2>5 DEF PlaceOK
<1>8. TextOK'
  <2>1. ASSUME mark # "torn"
        PROVE  Fits' /\ CursorAt(g)' /\ Text(g)' = Text(f)
    BY <1>1, <1>2, <1>3, <1>4, <1>5, <2>1, CursorFacts DEF TextOK, CursorAt, Text
  <2>2. QED
    BY <1>1, <1>3, <1>4, <1>5, <2>1, CursorFacts DEF TextOK, At
<1>9. QED
  BY <1>5, <1>6, <1>7, <1>8 DEF IInv

(* The cursor moves on.                                                    *)
LEMMA IncXStep ==
  ASSUME IInv, IncX
  PROVE  IInv'
<1>1. PICK f \in Call : f = top
  BY CursorFacts
<1>2. f.pc = "inc" /\ f.ch \notin {"newline", "tab"}
  BY <1>1 DEF IncX, At, Call
<1>3. PICK g \in Call :
        g = [f EXCEPT !.pc = "wrap"] /\ g.pc = "wrap" /\ g.ch = f.ch
  BY Advance DEF Statements
<1>4. Set(g) /\ UNCHANGED <<memory, fbcon_y, color, events, lines, mark>>
      /\ fbcon_x' = fbcon_x + 1
  BY <1>1, <1>3 DEF IncX, Go
<1>5. fbcon_x < fbcon_cx + LostX /\ fbcon_y < fbcon_cy + LostY
  BY <1>1, <1>2, CursorFacts DEF CursorOK, Reach, PastLine, BelowScreen
<1>6. fbcon_x' <= fbcon_cx + LostX
  BY <1>4, <1>5, CursorFacts, Sizes
<1>7. /\ CallsOK' /\ top' = g /\ Len(stack') = Len(stack)
      /\ Len(stack) = 1 => stack'[1] = g
      /\ Len(stack) = 2 => stack'[1] = stack[1]
      /\ LostX' = LostX /\ LostY' = LostY /\ TypeOK' /\ PixelsOK'
      /\ Text(g)' = Text(g) /\ Finished(g)' = Finished(g) /\ Fits' = Fits
  BY <1>4, CursorFacts, Goes
<1>8. CursorOK'
  <2>1. Reach(top, LostX, LostY)'
    BY <1>2, <1>3, <1>4, <1>7, <1>5, <1>6 DEF Reach, PastLine, BelowScreen
  <2>2. QED
    BY <1>3, <1>4, <1>7, <2>1, CursorFacts DEF CursorOK
<1>9. PlaceOK'
  BY <1>1, <1>2, <1>3, <1>4, <1>7, CursorFacts DEF PlaceOK, OnScreen, At
<1>10. TextOK'
  <2>1. Added(g) = Added(f)
    BY <1>3 DEF Added
  <2>2. ASSUME mark # "torn"
        PROVE  Fits' /\ CursorAt(g)' /\ Text(g)' = Text(f)
    BY <1>1, <1>2, <1>3, <1>4, <1>7, <2>1, <2>2, CursorFacts DEF TextOK, CursorAt, Text
  <2>3. QED
    BY <1>1, <1>3, <1>4, <1>7, <2>2, CursorFacts DEF TextOK, At
<1>11. QED
  BY <1>7, <1>8, <1>9, <1>10 DEF IInv

(* The cursor returns to the beginning of a line.                          *)
LEMMA ZeroXStep ==
  ASSUME IInv, ZeroX
  PROVE  IInv'
<1>1. PICK f \in Call : f = top
  BY CursorFacts
<1>2. f.pc = "zero"
  BY <1>1 DEF ZeroX, At
<1>3. PICK g \in Call : g = [f EXCEPT !.pc = "down"] /\ g.pc = "down" /\ g.ch = f.ch
  BY Advance DEF Statements
<1>4. Set(g) /\ UNCHANGED <<memory, fbcon_y, color, events, lines, mark>>
      /\ fbcon_x' = 0
  BY <1>1, <1>3 DEF ZeroX, Go
<1>5. /\ CallsOK' /\ top' = g /\ Len(stack') = Len(stack)
      /\ Len(stack) = 1 => stack'[1] = g
      /\ Len(stack) = 2 => stack'[1] = stack[1]
      /\ LostX' = LostX /\ LostY' = LostY /\ TypeOK' /\ PixelsOK'
      /\ Text(g)' = Text(g) /\ Finished(g)' = Finished(g) /\ Fits' = Fits
  BY <1>4, CursorFacts, Goes
<1>6. CursorOK'
  <2>1. Reach(top, LostX, LostY)'
    BY <1>1, <1>2, <1>3, <1>4, <1>5, CursorFacts, Sizes
       DEF CursorOK, Reach, PastLine, BelowScreen
  <2>2. QED
    BY <1>1, <1>2, <1>3, <1>4, <1>5, <2>1, CursorFacts DEF CursorOK
<1>7. PlaceOK'
  BY <1>1, <1>2, <1>3, <1>4, <1>5, CursorFacts DEF PlaceOK, OnScreen, At
<1>8. TextOK'
  <2>1. Added(g) = Added(f) /\ Finished(g) = Finished(f)
    BY <1>3 DEF Added, Finished
  <2>2. ASSUME mark # "torn"
        PROVE  Fits' /\ CursorAt(g)' /\ Text(g)' = Text(f)
    BY <1>1, <1>2, <1>3, <1>4, <1>5, <2>1, <2>2, CursorFacts, Sizes DEF TextOK, CursorAt, Text
  <2>3. QED
    BY <1>1, <1>2, <1>3, <1>4, <1>5, <2>2, CursorFacts DEF TextOK, At
<1>9. QED
  BY <1>5, <1>6, <1>7, <1>8 DEF IInv

(* A newline begins.                                                       *)
LEMMA NewlineStep ==
  ASSUME IInv, Newline
  PROVE  IInv'
<1>1. PICK f \in Call : f = top
  BY CursorFacts
<1>2. f.pc = "head"
  BY <1>1 DEF Newline, At
<1>3. PICK g \in Call : /\ g = [f EXCEPT !.pc = "newline", !.ch = "newline"]
                       /\ g.pc = "newline" /\ g.ch = "newline"
  <2> DEFINE g == [f EXCEPT !.pc = "newline", !.ch = "newline"]
  <2>1. f \in Frame
    BY DEF Call
  <2>2. g \in Frame /\ g.pc = "newline" /\ g.ch = "newline"
    BY <2>1 DEF Frame, Statements
  <2> HIDE DEF g
  <2>3. g \in Call
    BY <2>2 DEF Call
  <2>4. QED
    BY <2>2, <2>3 DEF g
<1>4. Set(g) /\ UNCHANGED <<memory, fbcon_y, color, events, lines, mark>>
      /\ fbcon_x' = 0
  BY <1>1, <1>3 DEF Newline
<1>5. /\ CallsOK' /\ top' = g /\ Len(stack') = Len(stack)
      /\ Len(stack) = 1 => stack'[1] = g
      /\ Len(stack) = 2 => stack'[1] = stack[1]
      /\ LostX' = LostX /\ LostY' = LostY /\ TypeOK' /\ PixelsOK'
      /\ Text(g)' = Text(g) /\ Finished(g)' = Finished(g) /\ Fits' = Fits
  BY <1>4, CursorFacts, Goes
<1>6. CursorOK'
  <2>1. Reach(top, LostX, LostY)'
    BY <1>1, <1>2, <1>3, <1>4, <1>5, CursorFacts, Sizes
       DEF CursorOK, Reach, PastLine, BelowScreen
  <2>2. QED
    BY <1>1, <1>2, <1>3, <1>4, <1>5, <2>1, CursorFacts DEF CursorOK
<1>7. PlaceOK'
  BY <1>1, <1>2, <1>3, <1>4, <1>5, CursorFacts DEF PlaceOK, OnScreen, At
<1>8. TextOK'
  <2>1. ASSUME mark # "torn"
        PROVE  Fits' /\ CursorAt(g)' /\ Text(g)' = Text(f)
    BY <1>1, <1>2, <1>3, <1>4, <1>5, <2>1, CursorFacts DEF TextOK, CursorAt, Text
  <2>2. QED
    BY <1>1, <1>3, <1>4, <1>5, <2>1, CursorFacts DEF TextOK, At
<1>9. QED
  BY <1>5, <1>6, <1>7, <1>8 DEF IInv

(* A tab begins, or its blanks are written.                                *)
LEMMA TabStep ==
  ASSUME IInv, Tab
  PROVE  IInv'
<1>1. PICK f \in Call : f = top
  BY CursorFacts
<1>2. f.pc = "head"
  BY <1>1 DEF Tab, At
<1>3. PICK g \in Call : /\ Set(g)
                       /\ \/ g.pc = "head"
                          \/ g.pc = "wrap" /\ g.ch = "tab"
  <2>1. f \in Frame
    BY DEF Call
  <2>2. CASE f.tab = 0
    <3> DEFINE g == [f EXCEPT !.tab = 5]
    <3>1. g \in Frame /\ g.pc = "head"
      BY <1>2, <2>1 DEF Frame
    <3>2. Set(g)
      BY <1>1, <2>2 DEF Tab
    <3> HIDE DEF g
    <3>3. QED
      BY <3>1, <3>2 DEF Call
  <2>3. CASE f.tab # 0
    <3> DEFINE g == [f EXCEPT !.pc = "wrap", !.ch = "tab", !.tab = 0]
    <3>1. g \in Frame /\ g.pc = "wrap" /\ g.ch = "tab"
      <4>1. "wrap" \in Statements /\ 0 \in 0 .. 5
        BY DEF Statements
      <4>2. QED
        BY <2>1, <4>1 DEF Frame
    <3>2. Set(g)
      BY <1>1, <2>3 DEF Tab
    <3> HIDE DEF g
    <3>3. QED
      BY <3>1, <3>2 DEF Call
  <2>4. QED
    BY <2>2, <2>3
<1>4. Set(g) /\ UNCHANGED <<memory, fbcon_x, fbcon_y, color, events, lines, mark>>
  BY <1>3 DEF Tab
<1>5. /\ CallsOK' /\ top' = g /\ Len(stack') = Len(stack)
      /\ Len(stack) = 1 => stack'[1] = g
      /\ Len(stack) = 2 => stack'[1] = stack[1]
      /\ LostX' = LostX /\ LostY' = LostY /\ TypeOK' /\ PixelsOK'
      /\ Text(g)' = Text(g) /\ Finished(g)' = Finished(g) /\ Fits' = Fits
  BY <1>4, CursorFacts, Goes
<1>6. CursorOK'
  <2>1. Reach(top, LostX, LostY)'
    BY <1>1, <1>2, <1>3, <1>4, <1>5, CursorFacts, Sizes
       DEF CursorOK, Reach, PastLine, BelowScreen
  <2>2. QED
    BY <1>1, <1>2, <1>3, <1>4, <1>5, <2>1, CursorFacts DEF CursorOK
<1>7. PlaceOK'
  BY <1>1, <1>2, <1>3, <1>4, <1>5, CursorFacts DEF PlaceOK, OnScreen, At
<1>8. TextOK'
  <2>1. ASSUME mark # "torn"
        PROVE  Fits' /\ CursorAt(g)' /\ Text(g)' = Text(f)
    BY <1>1, <1>2, <1>3, <1>4, <1>5, <2>1, CursorFacts DEF TextOK, CursorAt, Text
  <2>2. QED
    BY <1>1, <1>3, <1>4, <1>5, <2>1, CursorFacts DEF TextOK, At
<1>9. QED
  BY <1>5, <1>6, <1>7, <1>8 DEF IInv

(* The test for the end of a line.                                         *)
LEMMA WrapTestStep ==
  ASSUME IInv, WrapTest
  PROVE  IInv'
<1>1. PICK f \in Call : f = top
  BY CursorFacts
<1>2. f.pc = "wrap"
  BY <1>1 DEF WrapTest, At
<1>3. PICK g \in Call : /\ Set(g) /\ g.ch = f.ch
                       /\ \/ LineFull /\ g.pc = "zero"
                          \/ ~LineFull /\ g.pc = "bottom"
  <2>1. CASE LineFull
    <3>1. Set([f EXCEPT !.pc = "zero"])
      BY <1>1, <2>1 DEF WrapTest, Go
    <3>2. QED
      BY <2>1, <3>1, Advance DEF Statements
  <2>2. CASE ~LineFull
    <3>1. Set([f EXCEPT !.pc = "bottom"])
      BY <1>1, <2>2 DEF WrapTest, Go
    <3>2. QED
      BY <2>2, <3>1, Advance DEF Statements
  <2>3. QED
    BY <2>1, <2>2
<1>4. Set(g) /\ UNCHANGED <<memory, fbcon_x, fbcon_y, color, events, lines, mark>>
  BY <1>3 DEF WrapTest
<1>5. /\ CallsOK' /\ top' = g /\ Len(stack') = Len(stack)
      /\ Len(stack) = 1 => stack'[1] = g
      /\ Len(stack) = 2 => stack'[1] = stack[1]
      /\ LostX' = LostX /\ LostY' = LostY /\ TypeOK' /\ PixelsOK'
      /\ Text(g)' = Text(g) /\ Finished(g)' = Finished(g) /\ Fits' = Fits
  BY <1>4, CursorFacts, Goes
<1>6. CursorOK'
  <2>1. /\ f.ch = "newline" => fbcon_x < fbcon_cx /\ fbcon_y <= fbcon_cy + LostY
        /\ f.ch # "newline" => fbcon_x <= fbcon_cx + LostX /\ fbcon_y < fbcon_cy + LostY
    BY <1>1, <1>2, CursorFacts DEF CursorOK, Reach, PastLine, BelowScreen
  <2>2. LineFull <=> ~(fbcon_x < fbcon_cx)
    BY CursorFacts, Sizes DEF LineFull
  <2>3. fbcon_y <= fbcon_cy + LostY
    BY <2>1, CursorFacts, Sizes
  <2>4. Reach(top, LostX, LostY)'
    <3>1. CASE LineFull
      BY <1>3, <1>4, <1>5, <2>1, <2>2, <3>1 DEF Reach, PastLine, BelowScreen
    <3>2. CASE ~LineFull
      BY <1>3, <1>4, <1>5, <2>2, <2>3, <3>2 DEF Reach, PastLine, BelowScreen
    <3>3. QED
      BY <3>1, <3>2
  <2>5. f.ch # "newline" => fbcon_y <= fbcon_cy
    BY <2>1, CursorFacts, Sizes
  <2>6. QED
    BY <1>3, <1>4, <1>5, <2>4, <2>5, CursorFacts DEF CursorOK
<1>7. PlaceOK'
  BY <1>1, <1>2, <1>3, <1>4, <1>5, CursorFacts DEF PlaceOK, OnScreen, At
<1>8. TextOK'
  <2>1. SUFFICES ASSUME mark # "torn"
                 PROVE  /\ Fits /\ CursorAt(g)' /\ Visible(memory, Text(g))
                        /\ mark = "clean" => Blank(memory, Text(g))
                        /\ g.pc = "zero" => g.ch \notin {"newline", "tab"}
    BY <1>3, <1>4, <1>5 DEF TextOK, At
  <2>2. Fits /\ CursorAt(f) /\ Visible(memory, Text(f)) /\ (mark = "clean" => Blank(memory, Text(f)))
    BY <1>1, <2>1, CursorFacts DEF TextOK
  <2> DEFINE n == Len(lines)
             k == Len(lines[n])
  <2>3. /\ lines \in Lines /\ n \in Nat /\ n >= 1 /\ n \in 1 .. Len(lines)
        /\ k \in Nat /\ k < fbcon_cx
    BY <2>2, LineFacts DEF Fits
  <2>4. CASE f.ch = "newline"
    <3>1. fbcon_x = 0 /\ fbcon_y = n /\ ~LineFull
      BY <1>2, <2>2, <2>4, Sizes DEF CursorAt, LineFull
    <3>2. Text(f) = lines /\ Text(g) = Append(lines, <<>>) /\ Finished(g) = Append(lines, <<>>)
      BY <1>2, <1>3, <2>4, <3>1 DEF Text, Finished
    <3>3. Taller(lines, Finished(g))
      BY <2>3, <3>2, TallerFacts
    <3>4. Visible(memory, Text(g)) /\ (mark = "clean" => Blank(memory, Text(g)))
      BY <2>2, <2>3, <3>2, <3>3, TallerShows
    <3>5. CursorAt(g)'
      BY <1>3, <1>4, <1>5, <2>3, <3>1, <3>3 DEF CursorAt, Taller
    <3>6. QED
      BY <1>3, <2>2, <3>1, <3>4, <3>5
  <2>5. CASE f.ch = "tab"
    <3>1. fbcon_x = k /\ fbcon_y = n - 1 /\ ~LineFull
      <4>1. fbcon_x = k /\ fbcon_y = n - 1
        BY <1>2, <2>2, <2>5 DEF CursorAt
      <4>2. QED
        BY <4>1, <2>3, Sizes DEF LineFull
    <3>2. Text(f) = lines /\ Text(g) = lines /\ Finished(g) = lines
      BY <1>2, <1>3, <2>5, <3>1 DEF Text, Finished
    <3>3. CursorAt(g)'
      BY <1>3, <1>4, <1>5, <3>1, <3>2 DEF CursorAt
    <3>4. QED
      BY <1>3, <2>2, <3>1, <3>2, <3>3
  <2>6. CASE f.ch \notin {"newline", "tab"}
    <3>1. fbcon_x = k + 1 /\ fbcon_y = n - 1 /\ Text(f) = Added(f) /\ Added(g) = Added(f)
      BY <1>2, <1>3, <2>2, <2>6 DEF CursorAt, Text, Added
    <3>2. CASE LineFull
      <4>1. k + 1 = fbcon_cx
        BY <2>3, <3>1, <3>2, Sizes DEF LineFull
      <4>2. Text(g) = Text(f)
        BY <1>3, <3>1, <3>2 DEF Text
      <4>3. CursorAt(g)'
        BY <1>3, <1>4, <1>5, <3>1, <3>2, <4>1 DEF CursorAt
      <4>4. QED
        BY <1>3, <2>2, <2>6, <4>2, <4>3
    <3>3. CASE ~LineFull
      <4>1. k + 1 # fbcon_cx
        BY <2>3, <3>1, <3>3, Sizes DEF LineFull
      <4>2. Text(g) = Text(f) /\ Finished(g) = Added(f)
        <5>1. g.pc = "bottom" /\ g.ch \notin {"newline", "tab"}
          BY <1>3, <2>6, <3>3
        <5>2. Finished(g) = Added(f)
          BY <3>1, <4>1, <5>1 DEF Finished
        <5>3. Text(g) = Finished(g)
          BY <5>1 DEF Text
        <5>4. QED
          BY <3>1, <5>2, <5>3
      <4>3. Extended(lines, Added(f), [ch |-> f.ch, color |-> color])
        BY <2>3, CharFacts, CursorFacts, ExtendedFacts DEF Added
      <4>4. Len(Finished(g)) = n /\ Len(Finished(g)[Len(Finished(g))]) = k + 1
        BY <4>2, <4>3 DEF Extended
      <4>5. CursorAt(g)'
        BY <1>3, <1>4, <1>5, <3>1, <3>3, <4>4 DEF CursorAt
      <4>6. QED
        BY <1>3, <2>2, <2>6, <3>3, <4>2, <4>5
    <3>4. QED
      BY <3>2, <3>3
  <2>7. QED
    BY <2>4, <2>5, <2>6
<1>9. QED
  BY <1>5, <1>6, <1>7, <1>8 DEF IInv

(* The cursor goes to the next line.                                       *)
LEMMA IncYStep ==
  ASSUME IInv, IncY
  PROVE  IInv'
<1>1. PICK f \in Call : f = top
  BY CursorFacts
<1>2. f.pc = "down" \/ (f.pc = "newline" /\ f.ch = "newline")
  BY <1>1 DEF IncY, At, Call
<1>3. PICK g \in Call : /\ Set(g) /\ g.ch = f.ch
                       /\ \/ f.pc = "newline" /\ g.pc = "wrap"
                          \/ f.pc = "down" /\ g.pc = "bottom"
  <2>1. CASE f.pc = "newline"
    <3>1. Set([f EXCEPT !.pc = "wrap"])
      BY <1>1, <2>1 DEF IncY, Go, At
    <3>2. QED
      BY <2>1, <3>1, Advance DEF Statements
  <2>2. CASE f.pc = "down"
    <3>1. Set([f EXCEPT !.pc = "bottom"])
      BY <1>1, <2>2 DEF IncY, Go, At
    <3>2. QED
      BY <2>2, <3>1, Advance DEF Statements
  <2>3. QED
    BY <1>2, <2>1, <2>2
<1>4. Set(g) /\ UNCHANGED <<memory, fbcon_x, color, events, lines, mark>>
      /\ fbcon_y' = fbcon_y + 1
  BY <1>3 DEF IncY
<1>5. /\ CallsOK' /\ top' = g /\ Len(stack') = Len(stack)
      /\ Len(stack) = 1 => stack'[1] = g
      /\ Len(stack) = 2 => stack'[1] = stack[1]
      /\ LostX' = LostX /\ LostY' = LostY /\ TypeOK' /\ PixelsOK'
      /\ Text(g)' = Text(g) /\ Finished(g)' = Finished(g) /\ Fits' = Fits
  BY <1>4, CursorFacts, Goes
<1>6. CursorOK'
  <2>1. fbcon_x < fbcon_cx /\ fbcon_y < fbcon_cy + LostY
    BY <1>1, <1>2, CursorFacts DEF CursorOK, Reach, PastLine, BelowScreen
  <2>2. fbcon_y' <= fbcon_cy + LostY /\ fbcon_y' >= fbcon_y
    BY <1>4, <2>1, CursorFacts, Sizes
  <2>3. Reach(top, LostX, LostY)'
    BY <1>2, <1>3, <1>4, <1>5, <2>1, <2>2 DEF Reach, PastLine, BelowScreen
  <2>4. (stack[1].pc \in {"scroll", "dec"} => fbcon_y >= fbcon_cy - 1)'
    <3>1. stack[1].pc \in {"scroll", "dec"} => fbcon_y' >= fbcon_cy - 1
      <4>1. stack[1].pc \in {"scroll", "dec"} => fbcon_y >= fbcon_cy - 1
        BY CursorFacts DEF CursorOK
      <4>2. QED
        BY <1>4, <4>1, CursorFacts, Sizes
    <3>2. QED
      BY <1>2, <1>3, <1>5, <3>1, CursorFacts
  <2>5. Len(stack) = 2 /\ g.pc = "bottom" => fbcon_x' = 0
    BY <1>1, <1>2, <1>3, <1>4, CursorFacts DEF CursorOK
  <2>6. QED
    BY <1>2, <1>3, <1>4, <1>5, <2>3, <2>4, <2>5 DEF CursorOK
<1>7. PlaceOK'
  BY <1>1, <1>2, <1>3, <1>4, <1>5, CursorFacts DEF PlaceOK, OnScreen, At
<1>8. TextOK'
  <2>1. SUFFICES ASSUME mark # "torn"
                 PROVE  /\ Fits /\ CursorAt(g)' /\ Visible(memory, Text(g))
                        /\ mark = "clean" => Blank(memory, Text(g))
    BY <1>3, <1>4, <1>5 DEF TextOK, At
  <2>2. Fits /\ CursorAt(f) /\ Visible(memory, Text(f)) /\ (mark = "clean" => Blank(memory, Text(f)))
        /\ (f.pc = "down" => f.ch \notin {"newline", "tab"})
    BY <1>1, <2>1, CursorFacts DEF TextOK
  <2> DEFINE n == Len(lines)
             k == Len(lines[n])
  <2>3. /\ lines \in Lines /\ n \in Nat /\ n >= 1 /\ n \in 1 .. Len(lines)
        /\ k \in Nat /\ k < fbcon_cx
    BY <2>2, LineFacts DEF Fits
  <2>4. CASE f.pc = "newline"
    <3>1. fbcon_x = 0 /\ fbcon_y = n - 1 /\ f.ch = "newline"
      BY <1>2, <2>2, <2>4 DEF CursorAt
    <3>2. Text(g) = lines /\ Text(f) = lines
      BY <1>3, <2>4, <3>1 DEF Text
    <3>3. fbcon_y' = n
      BY <1>4, <2>3, <3>1
    <3>4. CursorAt(g)'
      BY <1>3, <1>4, <1>5, <2>4, <3>1, <3>3 DEF CursorAt
    <3>5. QED
      BY <2>2, <3>2, <3>4
  <2>5. CASE f.pc = "down"
    <3>1. k + 1 = fbcon_cx /\ fbcon_x = 0 /\ fbcon_y = n - 1 /\ f.ch \notin {"newline", "tab"}
      BY <2>2, <2>5 DEF CursorAt
    <3>2. /\ Text(f) = Added(f) /\ Text(g) = Append(Added(f), <<>>)
          /\ Finished(g) = Append(Added(f), <<>>)
      BY <1>3, <2>5, <3>1 DEF Text, Finished, Added
    <3>3. Extended(lines, Added(f), [ch |-> f.ch, color |-> color])
      BY <2>3, CharFacts, CursorFacts, ExtendedFacts DEF Added
    <3>4. Added(f) \in Lines /\ Len(Added(f)) = n
      BY <3>3 DEF Extended
    <3>5. Taller(Added(f), Finished(g))
      BY <3>2, <3>4, TallerFacts
    <3>6. Visible(memory, Text(g)) /\ (mark = "clean" => Blank(memory, Text(g)))
      BY <2>2, <3>2, <3>4, <3>5, TallerShows
    <3>7. fbcon_y' = n
      BY <1>4, <2>3, <3>1
    <3>8. Len(Finished(g)) - 1 = n /\ Len(Finished(g)[Len(Finished(g))]) = 0
      BY <2>3, <3>4, <3>5 DEF Taller
    <3>9. CursorAt(g)'
      BY <1>3, <1>4, <1>5, <2>5, <3>1, <3>7, <3>8 DEF CursorAt
    <3>10. QED
      BY <2>2, <3>6, <3>9
  <2>6. QED
    BY <1>2, <2>4, <2>5
<1>9. QED
  BY <1>5, <1>6, <1>7, <1>8 DEF IInv

(* A glyph is drawn.                                                       *)
LEMMA DrawStep ==
  ASSUME IInv, Draw
  PROVE  IInv'
<1>1. PICK f \in Call : f = top
  BY CursorFacts
<1>2. f.pc = "draw" /\ f.ch \notin {"newline", "tab"} /\ f.x \in Nat /\ f.y \in Nat
  BY <1>1 DEF Draw, At, Call, Frame
<1>3. PICK g \in Call : Set(g) /\ g.pc = "inc" /\ g.ch = f.ch
  <2> DEFINE g == [f EXCEPT !.pc = "inc", !.x = 0, !.y = 0]
  <2>1. f \in Frame
    BY DEF Call
  <2>2. g \in Frame /\ g.pc = "inc" /\ g.ch = f.ch
    BY <2>1 DEF Frame, Statements
  <2>3. Set(g)
    BY <1>1 DEF Draw
  <2> HIDE DEF g
  <2>4. g \in Call
    BY <1>2, <2>2 DEF Call
  <2>5. QED
    BY <2>2, <2>3, <2>4
<1>4. /\ UNCHANGED <<fbcon_x, fbcon_y, color, events, lines, mark>>
      /\ memory' = fbcon_draw_ch(f.ch, f.x, f.y)
  BY <1>1 DEF Draw
<1>5. /\ DOMAIN memory' = Addresses
      /\ \A a \in Addresses : a \notin CellPixels(f.x, f.y) => memory'[a] = memory[a]
      /\ OnScreen(f.x, f.y) =>
           Drawn(memory, memory', f.x, f.y, [ch |-> f.ch, color |-> color])
  BY <1>2, <1>4, DrawFacts
<1>6. /\ CallsOK' /\ top' = g /\ Len(stack') = Len(stack)
      /\ Len(stack) = 1 => stack'[1] = g
      /\ Len(stack) = 2 => stack'[1] = stack[1]
      /\ LostX' = LostX /\ LostY' = LostY /\ TypeOK'
      /\ Text(g)' = Text(g) /\ Finished(g)' = Finished(g) /\ Fits' = Fits
  BY <1>3, <1>4, <1>5, CursorFacts, Goes
<1>7. CursorOK'
  <2>1. Reach(top, LostX, LostY)'
    BY <1>1, <1>2, <1>3, <1>4, <1>6, CursorFacts DEF CursorOK, Reach, PastLine, BelowScreen
  <2>2. QED
    BY <1>1, <1>2, <1>3, <1>4, <1>6, <2>1, CursorFacts DEF CursorOK
<1>8. PlaceOK'
  BY <1>1, <1>2, <1>3, <1>4, <1>6, CursorFacts DEF PlaceOK, OnScreen, At
<1>9. PixelsOK'
  <2>1. ASSUME NEW a \in Addresses, ~Shown(a), memory'[a] # Foreign
        PROVE  mark # "clean" /\ Allowed(a)
    <3>1. CASE a \notin CellPixels(f.x, f.y)
      BY <2>1, <3>1, <1>5 DEF IInv, PixelsOK
    <3>2. CASE a \in CellPixels(f.x, f.y)
      <4>1. ~OnScreen(f.x, f.y)
        <5>1. PICK c \in Cells : a = CellAt(f.x, f.y, c)
          BY <3>2 DEF CellPixels
        <5>2. QED
          BY <1>2, <2>1, <5>1, CellGeometry
      <4>2. f.x <= fbcon_cx /\ f.y <= fbcon_cy /\ mark = "torn"
        BY <1>1, <1>2, <4>1, CursorFacts DEF PlaceOK, At
      <4>3. f.x = fbcon_cx \/ f.y = fbcon_cy
        BY <1>2, <4>1, <4>2, Sizes DEF OnScreen
      <4>4. f.x \in 0 .. fbcon_cx /\ f.y \in 0 .. fbcon_cy
        BY <1>2, <4>2, Sizes
      <4>5. QED
        BY <3>2, <4>2, <4>3, <4>4 DEF Allowed
    <3>3. QED
      BY <3>1, <3>2
  <2>2. QED
    BY <1>4, <2>1 DEF PixelsOK
<1>10. TextOK'
  <2>1. SUFFICES ASSUME mark # "torn"
                 PROVE  /\ Fits /\ CursorAt(g)' /\ Visible(memory', Text(g))
                        /\ mark = "clean" => Blank(memory', Text(g))
    BY <1>3, <1>4, <1>6 DEF TextOK, At
  <2>2. /\ Fits /\ CursorAt(f) /\ Visible(memory, Text(f))
        /\ (mark = "clean" => Blank(memory, Text(f)))
        /\ f.x = fbcon_x /\ f.y = fbcon_y /\ OnScreen(f.x, f.y)
    BY <1>1, <1>2, <2>1, CursorFacts DEF TextOK, At, PlaceOK
  <2> DEFINE n == Len(lines)
             k == Len(lines[n])
             e == [ch |-> f.ch, color |-> color]
  <2>3. /\ lines \in Lines /\ n \in 1 .. fbcon_cy /\ n >= 1 /\ n \in 1 .. Len(lines)
        /\ k \in Nat /\ k < fbcon_cx
        /\ \A y \in 1 .. Len(lines) : Len(lines[y]) <= fbcon_cx
    BY <2>2, LineFacts DEF Fits
  <2>4. f.x = k /\ f.y = n - 1
    BY <1>2, <2>2 DEF CursorAt
  <2>5. Text(f) = lines /\ Text(g) = Added(f)
    BY <1>2, <1>3 DEF Text, Added
  <2>6. Extended(lines, Added(f), e)
    BY <2>3, CharFacts, CursorFacts, ExtendedFacts DEF Added
  <2>7. Drawn(memory, memory', k, n - 1, e)
    BY <1>5, <2>2, <2>4
  <2>8. Visible(memory', Text(g))
    BY <2>2, <2>3, <2>5, <2>6, <2>7, DrawShows
  <2>9. mark = "clean" => Blank(memory', Text(g))
    BY <2>2, <2>3, <2>5, <2>6, <2>7, DrawBlank
  <2>10. CursorAt(g)'
    BY <1>3, <1>4, <1>6, <2>2, <2>4 DEF CursorAt
  <2>11. QED
    BY <2>2, <2>8, <2>9, <2>10
<1>11. QED
  BY <1>6, <1>7, <1>8, <1>9, <1>10 DEF IInv

(* The screen is scrolled.                                                 *)
LEMMA ScrollStep ==
  ASSUME IInv, fbcon_scroll_up
  PROVE  IInv'
<1>1. PICK f \in Call : f = top
  BY CursorFacts
<1>2. f.pc = "scroll"
  BY <1>1 DEF fbcon_scroll_up, At
<1>3. PICK g \in Call : g = [f EXCEPT !.pc = "dec"] /\ g.pc = "dec" /\ g.ch = f.ch
  BY Advance DEF Statements
<1>4. /\ Set(g) /\ UNCHANGED <<fbcon_x, fbcon_y, color, events, lines, mark>>
      /\ memory' = framebuffer_scroll_up(fbcon_text_cy)
  BY <1>1, <1>3 DEF fbcon_scroll_up, Go
<1>5. /\ DOMAIN memory' = Addresses
      /\ \A a \in Addresses : ~Shown(a) => memory'[a] = memory[a]
      /\ Scrolled(memory, memory')
  BY <1>4, CursorFacts, ScrollFacts
<1>6. /\ CallsOK' /\ top' = g /\ Len(stack') = Len(stack)
      /\ Len(stack) = 1 => stack'[1] = g
      /\ Len(stack) = 2 => stack'[1] = stack[1]
      /\ LostX' = LostX /\ LostY' = LostY /\ TypeOK'
      /\ Text(g)' = Text(g) /\ Finished(g)' = Finished(g) /\ Fits' = Fits
  BY <1>4, <1>5, CursorFacts, Goes
<1>7. CursorOK'
  <2>1. Reach(top, LostX, LostY)'
    BY <1>1, <1>2, <1>3, <1>4, <1>6, CursorFacts DEF CursorOK, Reach, PastLine, BelowScreen
  <2>2. QED
    BY <1>1, <1>2, <1>3, <1>4, <1>6, <2>1, CursorFacts DEF CursorOK
<1>8. PlaceOK'
  BY <1>1, <1>2, <1>3, <1>4, <1>6, CursorFacts DEF PlaceOK, OnScreen, At
<1>9. PixelsOK'
  BY <1>4, <1>5 DEF IInv, PixelsOK
<1>10. TextOK'
  <2>1. SUFFICES ASSUME mark # "torn"
                 PROVE  /\ Fits /\ CursorAt(g)' /\ Visible(memory', Text(g))
                        /\ mark = "clean" => Blank(memory', Text(g))
    BY <1>3, <1>4, <1>6 DEF TextOK, At
  <2>2. /\ Fits /\ CursorAt(f) /\ Visible(memory, Text(f))
        /\ (mark = "clean" => Blank(memory, Text(f)))
    BY <1>1, <2>1, CursorFacts DEF TextOK
  <2>3. PICK t : t = Finished(f)
    OBVIOUS
  <2>4. /\ fbcon_y = Len(t) - 1 /\ fbcon_x = Len(t[Len(t)]) /\ Len(t) = fbcon_cy + 1
        /\ Text(f) = t /\ Text(g) = Tail(t) /\ Finished(g) = t
    <3>1. Finished(g) = Finished(f)
      BY <1>3 DEF Finished, Added
    <3>2. Text(f) = t /\ Text(g) = Tail(t)
      BY <1>2, <1>3, <2>3, <3>1 DEF Text
    <3>3. QED
      BY <1>2, <2>2, <2>3, <3>1, <3>2 DEF CursorAt
  <2>5. /\ t \in Lines /\ \A y \in 1 .. Len(t) : Len(t[y]) <= fbcon_cx
        /\ Len(t[Len(t)]) = 0
    BY <2>2, <2>3, <2>4, CursorFacts, FinishedFacts
  <2>6. Shorter(t, Tail(t))
    BY <2>4, <2>5, Sizes, ShorterFacts
  <2>7. Visible(memory', Text(g)) /\ (mark = "clean" => Blank(memory', Text(g)))
    BY <1>5, <2>2, <2>4, <2>5, <2>6, ScrollShows
  <2>8. CursorAt(g)'
    BY <1>3, <1>4, <1>6, <2>4 DEF CursorAt
  <2>9. QED
    BY <2>2, <2>7, <2>8
<1>11. QED
  BY <1>6, <1>7, <1>8, <1>9, <1>10 DEF IInv

(* What is kept of a text that was torn.                                   *)
LEMMA UnknownFacts ==
  ASSUME TypeOK, NEW x \in Nat, NEW y \in Nat
  PROVE  LET u == Unknown(x, y)
         IN  /\ u \in Lines /\ Len(u) = y + 1 /\ Len(u[y + 1]) = x
             /\ \A i \in 1 .. y : Len(u[i]) = 0
             /\ \A i \in 1 .. y + 1 : \A j \in 1 .. Len(u[i]) : u[i][j].ch = "unknown"
<1> DEFINE e == [ch |-> "unknown", color |-> color]
           s == [j \in 1 .. x |-> e]
           u == Unknown(x, y)
<1>1. e \in CharCell
  BY DEF TypeOK, CharCell
<1>2. s \in Seq(CharCell) /\ Len(s) = x /\ \A j \in 1 .. x : s[j].ch = "unknown"
  <2>1. s \in [1 .. x -> CharCell] /\ \A j \in 1 .. x : s[j] = e
    BY <1>1
  <2>2. e.ch = "unknown"
    OBVIOUS
  <2> HIDE DEF s, e
  <2>3. s \in Seq(CharCell) /\ Len(s) = x
    BY <2>1, FunctionIsSeq
  <2>4. QED
    BY <2>1, <2>2, <2>3
<1>3. u = [i \in 1 .. y + 1 |-> IF i <= y THEN <<>> ELSE s]
  BY DEF Unknown
<1> HIDE DEF s, u
<1>4. <<>> \in Seq(CharCell) /\ Len(<<>>) = 0
  OBVIOUS
<1>5. u \in [1 .. y + 1 -> Seq(CharCell)]
  BY <1>2, <1>3, <1>4
<1>6. u \in Seq(Seq(CharCell)) /\ Len(u) = y + 1
  <2>1. y + 1 \in Nat
    OBVIOUS
  <2>2. QED
    BY <1>5, <2>1, FunctionIsSeq
<1>7. u[y + 1] = s
  <2>1. y + 1 \in 1 .. y + 1 /\ ~(y + 1 <= y)
    OBVIOUS
  <2>2. QED
    BY <1>3, <2>1
<1>8. \A i \in 1 .. y : Len(u[i]) = 0
  <2>1. ASSUME NEW i \in 1 .. y
        PROVE  u[i] = <<>>
    <3>1. i \in 1 .. y + 1 /\ i <= y
      OBVIOUS
    <3>2. QED
      BY <1>3, <3>1
  <2>2. QED
    BY <1>4, <2>1
<1>9. ASSUME NEW i \in 1 .. y + 1, NEW j \in 1 .. Len(u[i])
      PROVE  u[i][j].ch = "unknown"
  <2>1. CASE i = y + 1
    BY <2>1, <1>2, <1>7
  <2>2. CASE i # y + 1
    <3>1. i \in 1 .. y
      BY <2>2
    <3>2. QED
      BY <1>8, <1>9, <3>1
  <2>3. QED
    BY <2>1, <2>2
<1>10. QED
  BY <1>2, <1>6, <1>7, <1>8, <1>9 DEF Lines, u

(* A new line, of a text that fills the screen and of one that does not.   *)
LEMMA NewLineFacts ==
  ASSUME NEW t \in Lines, Len(t) \in 1 .. fbcon_cy
  PROVE  /\ Len(Append(t, <<>>)) = Len(t) + 1
         /\ Len(t) < fbcon_cy => NewLine(t) = Append(t, <<>>)
         /\ Len(t) = fbcon_cy => NewLine(t) = Tail(Append(t, <<>>))
<1>1. Len(Append(t, <<>>)) = Len(t) + 1
  BY TallerFacts DEF Taller
<1>2. Tail(Append(t, <<>>)) = Append(Tail(t), <<>>)
  BY Sizes, TailOfAppend
<1>3. Len(t) < fbcon_cy => Len(t) # fbcon_cy
  BY Sizes
<1>4. QED
  BY <1>1, <1>2, <1>3 DEF NewLine

(* The history at the end of an iteration.                                 *)
LEMMA RecordText ==
  ASSUME TypeOK, Fits, NEW f \in Call, f = top, mark # "torn", Record
  PROVE  /\ mark' = mark
         /\ Len(Finished(f)) <= fbcon_cy => lines' = Finished(f)
         /\ Len(Finished(f)) = fbcon_cy + 1 => lines' = Tail(Finished(f))
<1>1. /\ mark' = mark
      /\ f.ch = "newline" => lines' = NewLine(lines)
      /\ f.ch = "tab" => lines' = lines
      /\ f.ch \notin {"newline", "tab"} => lines' = AddChar(lines, f.ch)
  BY DEF Record
<1>2. /\ lines \in Lines /\ Len(lines) \in Nat /\ Len(lines) \in 1 .. fbcon_cy
      /\ Len(lines) \in 1 .. Len(lines) /\ Len(lines[Len(lines)]) \in Nat
  BY Sizes, LineFacts DEF Fits
<1>3. ASSUME NEW t \in Lines, Len(t) = Len(lines), Finished(f) = Append(t, <<>>),
             lines' = NewLine(t)
      PROVE  /\ Len(Finished(f)) <= fbcon_cy => lines' = Finished(f)
             /\ Len(Finished(f)) = fbcon_cy + 1 => lines' = Tail(Finished(f))
  <2>1. /\ Len(Append(t, <<>>)) = Len(t) + 1
        /\ Len(t) < fbcon_cy => NewLine(t) = Append(t, <<>>)
        /\ Len(t) = fbcon_cy => NewLine(t) = Tail(Append(t, <<>>))
    BY <1>2, <1>3, NewLineFacts
  <2>2. /\ Len(Finished(f)) <= fbcon_cy => Len(t) < fbcon_cy
        /\ Len(Finished(f)) = fbcon_cy + 1 => Len(t) = fbcon_cy
    BY <1>2, <1>3, <2>1, Sizes
  <2>3. QED
    BY <1>3, <2>1, <2>2
<1>4. ASSUME Len(Finished(f)) = Len(lines), lines' = Finished(f)
      PROVE  /\ Len(Finished(f)) <= fbcon_cy => lines' = Finished(f)
             /\ Len(Finished(f)) = fbcon_cy + 1 => lines' = Tail(Finished(f))
  BY <1>2, <1>4, Sizes
<1>5. CASE f.ch = "newline"
  <2>1. Finished(f) = Append(lines, <<>>)
    BY <1>5 DEF Finished
  <2>2. QED
    BY <1>1, <1>2, <1>3, <1>5, <2>1
<1>6. CASE f.ch = "tab"
  <2>1. Finished(f) = lines
    BY <1>6 DEF Finished
  <2>2. QED
    BY <1>1, <1>4, <1>6, <2>1
<1>7. CASE f.ch \notin {"newline", "tab"}
  <2>1. PICK e \in CharCell : e = [ch |-> f.ch, color |-> color]
    BY CharFacts
  <2>2. PICK u : u = Added(f)
    OBVIOUS
  <2>3. Extended(lines, u, e)
    <3>1. u = [lines EXCEPT ![Len(lines)] = Append(@, e)]
      BY <2>1, <2>2 DEF Added
    <3>2. Len(lines) >= 1
      BY <1>2, Sizes
    <3>3. QED
      BY <1>2, <3>1, <3>2, ExtendedFacts
  <2>4. u \in Lines /\ Len(u) = Len(lines)
    BY <2>3 DEF Extended
  <2>5. PICK line : line = Append(lines[Len(lines)], e)
    OBVIOUS
  <2>6. Len(line) = Len(lines[Len(lines)]) + 1
    <3>1. lines[Len(lines)] \in Seq(CharCell)
      BY <1>2, LineFacts
    <3>2. QED
      BY <2>5, <3>1, AppendProperties
  <2>7. u = [lines EXCEPT ![Len(lines)] = line]
    BY <2>1, <2>2, <2>5 DEF Added
  <2>8. AddChar(lines, f.ch) = IF Len(line) = fbcon_cx THEN NewLine(u) ELSE u
    BY <2>1, <2>5, <2>7 DEF AddChar
  <2>9. CASE Len(lines[Len(lines)]) + 1 = fbcon_cx
    <3>1. Finished(f) = Append(u, <<>>)
      BY <1>7, <2>2, <2>9 DEF Finished
    <3>2. lines' = NewLine(u)
      BY <1>1, <1>7, <2>6, <2>8, <2>9
    <3>3. QED
      BY <1>1, <1>3, <2>4, <3>1, <3>2
  <2>10. CASE Len(lines[Len(lines)]) + 1 # fbcon_cx
    <3>1. Finished(f) = u
      BY <1>7, <2>2, <2>10 DEF Finished
    <3>2. lines' = u
      BY <1>1, <1>7, <2>6, <2>8, <2>10
    <3>3. QED
      BY <1>1, <1>4, <2>4, <3>1, <3>2
  <2>11. QED
    BY <2>9, <2>10
<1>8. QED
  BY <1>5, <1>6, <1>7

(* The call at the end of an iteration.                                    *)
LEMMA IdleFacts ==
  ASSUME NEW f \in Call
  PROVE  \E g \in Call : g = [Idle EXCEPT !.tab = f.tab] /\ g.pc = "head"
<1> DEFINE g == [Idle EXCEPT !.tab = f.tab]
<1>1. f.tab \in 0 .. 5
  BY DEF Call, Frame
<1>2. g = [pc |-> "head", tab |-> f.tab, ch |-> "none", x |-> 0, y |-> 0]
  BY DEF Idle
<1>3. g \in Frame /\ g.pc = "head" /\ g.ch = "none"
  BY <1>1, <1>2 DEF Frame, Statements
<1>4. g \in Call
  BY <1>3 DEF Call
<1>5. QED
  BY <1>3, <1>4

(* The end of an iteration, when the cursor is where it was or, after      *)
(* scrolling, a line above.                                                *)
LEMMA RecordStep ==
  ASSUME IInv, Record, NEW f \in Call, f = top, Set([Idle EXCEPT !.tab = f.tab]),
         UNCHANGED <<memory, fbcon_x, color, events>>,
         \/ f.pc = "bottom" /\ fbcon_y < fbcon_cy /\ fbcon_y' = fbcon_y
         \/ f.pc = "dec" /\ fbcon_y' = fbcon_y - 1
  PROVE  IInv'
<1>1. PICK g \in Call : g = [Idle EXCEPT !.tab = f.tab] /\ g.pc = "head"
  BY IdleFacts
<1>2. /\ stack' \in Seq(Call) /\ Len(stack') = Len(stack) /\ top' = g
      /\ Len(stack) = 1 => stack'[1] = g
      /\ Len(stack) = 2 => stack'[1] = stack[1]
  BY <1>1, CursorFacts, NextIteration
<1>3. CallsOK'
  BY <1>2, CursorFacts DEF CallsOK
<1>4. /\ fbcon_x < fbcon_cx /\ fbcon_y <= fbcon_cy + LostY
      /\ f.pc = "dec" =>
           /\ Len(stack) = 1 => fbcon_y >= fbcon_cy - 1
           /\ Len(stack) = 2 => fbcon_y >= fbcon_cy
           /\ Len(stack) = 2 /\ fbcon_x > 0 /\ f.ch \notin {"newline", "tab"} =>
                fbcon_y <= fbcon_cy
  BY CursorFacts DEF CursorOK, Reach, PastLine, BelowScreen
<1>5. /\ fbcon_x' \in Nat /\ fbcon_y' \in Nat /\ fbcon_x' < fbcon_cx
      /\ fbcon_y' < fbcon_cy + LostY
  <2>1. CASE f.pc = "bottom"
    BY <2>1, <1>4, CursorFacts, Sizes
  <2>2. CASE f.pc = "dec"
    <3>1. fbcon_y >= fbcon_cy - 1
      BY <2>2, <1>4, CursorFacts, Sizes
    <3>2. QED
      BY <2>2, <3>1, <1>4, CursorFacts, Sizes
  <2>3. QED
    BY <2>1, <2>2
<1>6. \/ mark = "torn" /\ mark' = "torn"
      \/ /\ mark = "torn" /\ mark' = "healed"
         /\ lines' = Unknown(fbcon_x', fbcon_y') /\ OnScreen(fbcon_x', fbcon_y')
      \/ mark # "torn" /\ mark' = mark /\ OnScreen(fbcon_x', fbcon_y')
  <2>1. CASE mark = "torn"
    <3>1. \/ OnScreen(fbcon_x', fbcon_y')
          \/ ~(f.ch \notin {"newline", "tab"} /\ fbcon_x' > 0)
      <4>1. SUFFICES ASSUME f.ch \notin {"newline", "tab"}, fbcon_x' > 0
                     PROVE  fbcon_y' < fbcon_cy
        BY <1>5 DEF OnScreen
      <4>2. CASE f.pc = "bottom"
        BY <4>2
      <4>3. CASE f.pc = "dec"
        <5>1. fbcon_y <= fbcon_cy
          BY <1>4, <4>1, <4>3, CursorFacts, Sizes
        <5>2. QED
          BY <4>3, <5>1, CursorFacts, Sizes
      <4>4. QED
        BY <4>2, <4>3
    <3>2. IF OnScreen(fbcon_x', fbcon_y') \/ (f.ch \notin {"newline", "tab"} /\ fbcon_x' > 0)
          THEN mark' = "healed" /\ lines' = Unknown(fbcon_x', fbcon_y')
          ELSE UNCHANGED <<mark, lines>>
      BY <2>1 DEF Record
    <3>3. QED
      BY <2>1, <3>1, <3>2
  <2>2. CASE mark # "torn"
    <3>1. mark' = mark
      BY <2>2 DEF Record
    <3>2. LostY = 0
      BY <2>2, CursorFacts
    <3>3. OnScreen(fbcon_x', fbcon_y')
      BY <1>5, <3>2, Sizes DEF OnScreen
    <3>4. QED
      BY <2>2, <3>1, <3>3
  <2>3. QED
    BY <2>1, <2>2
<1>7. /\ LostX' \in {0, 1} /\ LostY' \in {0, 1}
      /\ mark = "torn" /\ mark' = "torn" => LostY' = LostY
  <2>1. LostX' \in {0, 1} /\ LostY' \in {0, 1}
    BY DEF LostX, LostY
  <2>2. ASSUME mark = "torn", mark' = "torn"
        PROVE  LostY' = LostY
    BY <1>2, <2>2, CursorFacts DEF LostY, BelowScreen
  <2>3. QED
    BY <2>1, <2>2
<1>8. TypeOK'
  <2>1. mark' \in {"clean", "torn", "healed"}
    BY <1>6, CursorFacts DEF TypeOK
  <2>2. QED
    BY <1>2, <1>5, <2>1, CursorFacts DEF TypeOK
<1>9. CursorOK'
  <2>1. fbcon_x' < fbcon_cx + LostX' /\ fbcon_y' < fbcon_cy + LostY'
    <3>1. fbcon_x' < fbcon_cx + LostX'
      BY <1>5, <1>7, Sizes
    <3>2. CASE mark = "torn" /\ mark' = "torn"
      BY <3>1, <3>2, <1>5, <1>7
    <3>3. CASE OnScreen(fbcon_x', fbcon_y')
      BY <3>1, <3>3, <1>5, <1>7, Sizes DEF OnScreen
    <3>4. QED
      BY <1>6, <3>2, <3>3
  <2>2. Reach(top, LostX, LostY)'
    BY <1>1, <1>2, <2>1 DEF Reach, PastLine, BelowScreen
  <2>3. ASSUME stack'[1].pc \in {"scroll", "dec"}
        PROVE  fbcon_y' >= fbcon_cy - 1
    <3>1. Len(stack) = 2 /\ stack[1].pc \in {"scroll", "dec"}
      BY <1>1, <1>2, <2>3, CursorFacts
    <3>2. fbcon_y >= fbcon_cy - 1
      BY <3>1, CursorFacts DEF CursorOK
    <3>3. f.pc = "dec" => fbcon_y >= fbcon_cy
      BY <1>4, <3>1
    <3>4. QED
      BY <3>2, <3>3, CursorFacts, Sizes
  <2>4. QED
    BY <1>1, <1>2, <2>2, <2>3 DEF CursorOK
<1>10. PlaceOK'
  BY <1>1, <1>2, CursorFacts DEF PlaceOK, OnScreen, At
<1>11. PixelsOK'
  <2>1. mark # "clean" => mark' # "clean"
    BY <1>6
  <2>2. memory' = memory
    OBVIOUS
  <2>3. QED
    BY <2>1, <2>2 DEF IInv, PixelsOK
<1>12. TextOK'
  <2>1. Text(g)' = lines'
    BY <1>1 DEF Text
  <2>2. SUFFICES ASSUME mark' # "torn"
                 PROVE  /\ Fits' /\ Visible(memory', lines')
                        /\ fbcon_y' = Len(lines') - 1 /\ fbcon_x' = Len(lines'[Len(lines')])
                        /\ mark' = "clean" => Blank(memory', lines')
    BY <1>1, <1>2, <2>1 DEF TextOK, CursorAt, At
  <2>3. CASE mark = "torn"
    <3>1. mark' = "healed" /\ OnScreen(fbcon_x', fbcon_y')
      BY <1>6, <2>2, <2>3
    <3>2. PICK x \in Nat, y \in Nat : x = fbcon_x' /\ y = fbcon_y'
      BY <1>5
    <3>3. x < fbcon_cx /\ y < fbcon_cy
      BY <3>1, <3>2 DEF OnScreen
    <3>4. PICK u : u = Unknown(x, y)
      OBVIOUS
    <3>5. lines' = u
      BY <1>6, <2>2, <2>3, <3>2, <3>4
    <3>6. /\ u \in Lines /\ Len(u) = y + 1 /\ Len(u[y + 1]) = x
          /\ \A i \in 1 .. y : Len(u[i]) = 0
          /\ \A i \in 1 .. y + 1 : \A j \in 1 .. Len(u[i]) : u[i][j].ch = "unknown"
      BY <3>4, CursorFacts, UnknownFacts
    <3>7. Fits'
      <4>1. ASSUME NEW i \in 1 .. Len(u)
            PROVE  Len(u[i]) <= fbcon_cx
        <5>1. i = y + 1 \/ i \in 1 .. y
          BY <3>6
        <5>2. QED
          BY <5>1, <3>3, <3>6, Sizes
      <4>2. Len(u) \in 1 .. fbcon_cy
        BY <3>3, <3>6, Sizes
      <4>3. QED
        BY <3>3, <3>5, <3>6, <4>1, <4>2 DEF Fits
    <3>8. Visible(memory', lines')
      BY <3>5, <3>6 DEF Visible
    <3>9. QED
      BY <3>1, <3>2, <3>5, <3>6, <3>7, <3>8
  <2>4. CASE mark # "torn"
    <3>1. /\ Fits /\ CursorAt(f) /\ Visible(memory, Text(f))
          /\ (mark = "clean" => Blank(memory, Text(f)))
      BY <2>4, CursorFacts DEF TextOK
    <3>2. PICK t : t = Finished(f)
      OBVIOUS
    <3>3. /\ fbcon_y = Len(t) - 1 /\ fbcon_x = Len(t[Len(t)])
          /\ f.pc = "dec" => Len(t) = fbcon_cy + 1
      BY <3>1, <3>2 DEF CursorAt
    <3>4. /\ t \in Lines /\ Len(t) \in 1 .. fbcon_cy + 1
          /\ \A y \in 1 .. Len(t) : Len(t[y]) <= fbcon_cx
          /\ Len(t[Len(t)]) \in Nat /\ Len(t[Len(t)]) < fbcon_cx
      BY <3>1, <3>2, CursorFacts, FinishedFacts
    <3>5. /\ mark' = mark
          /\ Len(t) <= fbcon_cy => lines' = t
          /\ Len(t) = fbcon_cy + 1 => lines' = Tail(t)
      BY <2>4, <3>1, <3>2, CursorFacts, RecordText
    <3>6. CASE f.pc = "bottom"
      <4>1. Len(t) <= fbcon_cy /\ Text(f) = t /\ lines' = t /\ fbcon_y' = fbcon_y
        <5>1. Text(f) = t
          BY <3>2, <3>6 DEF Text
        <5>2. Len(t) <= fbcon_cy /\ fbcon_y' = fbcon_y
          BY <3>3, <3>4, <3>6, Sizes
        <5>3. QED
          BY <3>5, <5>1, <5>2
      <4>2. Fits'
        <5>1. Len(t) \in 1 .. fbcon_cy
          BY <3>4, <4>1, Sizes
        <5>2. QED
          BY <3>4, <4>1, <5>1 DEF Fits
      <4>3. QED
        BY <3>1, <3>3, <3>5, <4>1, <4>2
    <3>7. CASE f.pc = "dec"
      <4>1. PICK u : u = Tail(t)
        OBVIOUS
      <4>2. Len(t) = fbcon_cy + 1 /\ Text(f) = u /\ lines' = u /\ fbcon_y' = fbcon_y - 1
        <5>1. Text(f) = u
          BY <3>2, <3>7, <4>1 DEF Text
        <5>2. QED
          BY <3>3, <3>5, <3>7, <4>1, <5>1
      <4>3. Shorter(t, u)
        BY <3>4, <4>1, <4>2, Sizes, ShorterFacts
      <4>4. /\ u \in Lines /\ Len(u) = fbcon_cy /\ Len(u) \in 1 .. fbcon_cy
            /\ \A y \in 1 .. Len(u) : u[y] = t[y + 1] /\ y + 1 \in 1 .. Len(t)
            /\ u[Len(u)] = t[Len(t)]
        BY <4>2, <4>3, Sizes DEF Shorter
      <4>5. Fits'
        BY <3>4, <4>2, <4>4 DEF Fits
      <4>6. fbcon_y' = Len(lines') - 1 /\ fbcon_x' = Len(lines'[Len(lines')])
        <5>1. fbcon_x' = fbcon_x /\ fbcon_cy \in Nat
          BY Sizes
        <5>2. QED
          BY ONLY <3>3, <4>2, <4>4, <5>1
      <4>7. memory' = memory
        OBVIOUS
      <4>8. QED
        BY <3>1, <3>5, <4>2, <4>5, <4>6, <4>7
    <3>8. QED
      BY <3>6, <3>7
  <2>5. QED
    BY <2>3, <2>4
<1>13. QED
  BY <1>3, <1>8, <1>9, <1>10, <1>11, <1>12 DEF IInv

(* The test for the end of the screen.                                     *)
LEMMA BottomTestStep ==
  ASSUME IInv, BottomTest
  PROVE  IInv'
<1>1. PICK f \in Call : f = top
  BY CursorFacts
<1>2. f.pc = "bottom" /\ UNCHANGED <<memory, fbcon_x, fbcon_y, color, events>>
  BY <1>1 DEF BottomTest, At
<1>3. CASE ~(fbcon_y >= fbcon_cy)
  <2>1. Set([Idle EXCEPT !.tab = f.tab]) /\ Record
    BY <1>1, <1>3 DEF BottomTest
  <2>2. fbcon_y < fbcon_cy
    BY <1>3, CursorFacts, Sizes
  <2>3. QED
    BY <1>1, <1>2, <2>1, <2>2, RecordStep
<1>4. CASE fbcon_y >= fbcon_cy
  <2>1. PICK g \in Call : g = [f EXCEPT !.pc = "scroll"] /\ g.pc = "scroll" /\ g.ch = f.ch
    BY Advance DEF Statements
  <2>2. Set(g) /\ UNCHANGED <<memory, fbcon_x, fbcon_y, color, events, lines, mark>>
    BY <1>1, <1>4, <2>1 DEF BottomTest, Go
  <2>3. /\ CallsOK' /\ top' = g /\ Len(stack') = Len(stack)
        /\ Len(stack) = 1 => stack'[1] = g
        /\ Len(stack) = 2 => stack'[1] = stack[1]
        /\ LostX' = LostX /\ LostY' = LostY /\ TypeOK' /\ PixelsOK'
        /\ Text(g)' = Text(g) /\ Finished(g)' = Finished(g) /\ Fits' = Fits
    BY <2>2, CursorFacts, Goes
  <2>4. CursorOK'
    <3>1. Reach(top, LostX, LostY)'
      BY <1>1, <1>2, <2>1, <2>2, <2>3, CursorFacts DEF CursorOK, Reach, PastLine, BelowScreen
    <3>2. fbcon_y >= fbcon_cy - 1
      BY <1>4, CursorFacts, Sizes
    <3>3. QED
      BY <1>1, <1>2, <1>4, <2>1, <2>2, <2>3, <3>1, <3>2, CursorFacts DEF CursorOK
  <2>5. PlaceOK'
    BY <1>1, <1>2, <2>1, <2>2, <2>3, CursorFacts DEF PlaceOK, OnScreen, At
  <2>6. TextOK'
    <3>1. SUFFICES ASSUME mark # "torn"
                   PROVE  /\ Fits /\ CursorAt(g)' /\ Visible(memory, Text(g))
                          /\ mark = "clean" => Blank(memory, Text(g))
      BY <2>1, <2>2, <2>3 DEF TextOK, At
    <3>2. /\ Fits /\ CursorAt(f) /\ Visible(memory, Text(f))
          /\ (mark = "clean" => Blank(memory, Text(f)))
      BY <1>1, <3>1, CursorFacts DEF TextOK
    <3>3. PICK t : t = Finished(f)
      OBVIOUS
    <3>4. Finished(g) = t /\ Text(f) = t /\ Text(g) = t
      <4>1. Finished(g) = t
        BY <2>1, <3>3 DEF Finished, Added
      <4>2. QED
        BY <1>2, <2>1, <3>3, <4>1 DEF Text
    <3>5. fbcon_y = Len(t) - 1 /\ fbcon_x = Len(t[Len(t)])
      BY <1>2, <3>2, <3>3 DEF CursorAt
    <3>6. Len(t) = fbcon_cy + 1
      <4>1. Len(t) \in 1 .. fbcon_cy + 1
        BY <3>2, <3>3, CursorFacts, FinishedFacts
      <4>2. QED
        BY <1>4, <3>5, <4>1, Sizes
    <3>7. CursorAt(g)'
      BY <2>1, <2>2, <2>3, <3>4, <3>5, <3>6 DEF CursorAt
    <3>8. QED
      BY <3>2, <3>4, <3>7
  <2>7. QED
    BY <2>3, <2>4, <2>5, <2>6 DEF IInv
<1>5. QED
  BY <1>3, <1>4

(* The cursor follows the scrolled text.                                   *)
LEMMA DecYStep ==
  ASSUME IInv, DecY
  PROVE  IInv'
<1>1. PICK f \in Call : f = top
  BY CursorFacts
<1>2. /\ f.pc = "dec" /\ fbcon_y' = fbcon_y - 1 /\ Record
      /\ UNCHANGED <<memory, fbcon_x, color, events>>
      /\ Set([Idle EXCEPT !.tab = f.tab])
  BY <1>1 DEF DecY, At
<1>3. QED
  BY <1>1, <1>2, RecordStep

(* The colours change between two strings.                                 *)
LEMMA SetColorStep ==
  ASSUME IInv, fbcon_set_color
  PROVE  IInv'
<1>1. PICK f \in Call : f = top
  BY CursorFacts
<1>2. /\ f.pc = "head" /\ color' \in Colors /\ events' \in 0 .. MaxEvents
      /\ UNCHANGED <<memory, fbcon_x, fbcon_y, stack, lines, mark>>
  BY <1>1, FbconAssumption, CursorFacts DEF fbcon_set_color, At, TypeOK
<1>3. top' = f
  BY <1>1, <1>2 DEF top
<1>4. TypeOK' /\ CallsOK' /\ PixelsOK'
  BY <1>2 DEF IInv, TypeOK, CallsOK, PixelsOK
<1>5. CursorOK'
  <2>1. LostX' = LostX /\ LostY' = LostY
    BY <1>2 DEF LostX, LostY
  <2>2. Reach(top, LostX, LostY)'
    BY <1>1, <1>2, <1>3, <2>1, CursorFacts DEF CursorOK, Reach
  <2>3. QED
    BY <1>1, <1>2, <1>3, <2>2, CursorFacts DEF CursorOK
<1>6. PlaceOK'
  BY <1>1, <1>2, <1>3, CursorFacts DEF PlaceOK, At
<1>7. TextOK'
  <2>1. Text(f)' = lines /\ Text(f) = lines /\ Fits' = Fits
    BY <1>2 DEF Text, Fits
  <2>2. CursorAt(f) => CursorAt(f)'
    BY <1>2 DEF CursorAt
  <2>3. QED
    BY <1>1, <1>2, <1>3, <2>1, <2>2, CursorFacts DEF TextOK, At
<1>8. QED
  BY <1>4, <1>5, <1>6, <1>7 DEF IInv

(* Idle is a call.                                                         *)
LEMMA IdleCall ==
  Idle \in Call /\ Idle.pc = "head"
<1>1. Idle \in Frame /\ Idle.pc = "head"
  BY DEF Idle, Frame, Statements
<1>2. QED
  BY <1>1 DEF Call

(* A call on top of another.                                               *)
LEMMA Pushed ==
  ASSUME NEW S, NEW s \in Seq(S), NEW g \in S, NEW u, u = Append(s, g)
  PROVE  /\ u \in Seq(S) /\ Len(u) = Len(s) + 1 /\ u[Len(s) + 1] = g
         /\ \A i \in 1 .. Len(s) : u[i] = s[i]
  BY AppendProperties

(* A handler or a panic begins to write.                                   *)
LEMMA InterruptStep ==
  ASSUME IInv, Interrupt
  PROVE  IInv'
<1>1. PICK f \in Call : f = top
  BY CursorFacts
<1>2. /\ UNCHANGED <<memory, fbcon_x, fbcon_y, color, lines>>
      /\ events' \in 0 .. MaxEvents /\ Len(stack) < MaxDepth
      /\ stack' = Append(stack, Idle)
      /\ f.pc = "head" => mark' = mark
      /\ f.pc # "head" => mark' = "torn"
  <2>1. events < MaxEvents /\ events' = events + 1
    BY DEF Interrupt
  <2>2. events \in 0 .. MaxEvents /\ MaxEvents \in Nat
    BY FbconAssumption, CursorFacts DEF TypeOK
  <2>3. events' \in 0 .. MaxEvents
    BY ONLY <2>1, <2>2
  <2>4. QED
    BY <1>1, <2>3, Zenon DEF Interrupt, At
<1>3. Len(stack) = 1 /\ f = stack[1] /\ MaxDepth = 2
  <2>1. Len(stack) = 1 /\ MaxDepth = 2
    <3>1. MaxDepth = 1 \/ MaxDepth = 2
      BY FbconAssumption
    <3>2. Len(stack) = 1 \/ Len(stack) = 2
      BY CursorFacts
    <3>3. Len(stack) < MaxDepth
      BY <1>2
    <3>4. QED
      BY ONLY <3>1, <3>2, <3>3
  <2>2. QED
    BY <1>1, <2>1, CursorFacts
<1>4. PICK g \in Call : g = Idle /\ g.pc = "head"
  BY IdleCall
<1>5. stack' \in Seq(Call) /\ Len(stack') = 2 /\ stack'[1] = f /\ stack'[2] = g
  <2>1. stack \in Seq(Call)
    BY CursorFacts, TopFacts
  <2>2. stack' = Append(stack, g)
    BY <1>2, <1>4
  <2>3. PICK u : u = Append(stack, g)
    OBVIOUS
  <2>4. /\ u \in Seq(Call) /\ Len(u) = Len(stack) + 1 /\ u[Len(stack) + 1] = g
        /\ \A i \in 1 .. Len(stack) : u[i] = stack[i]
    BY <2>1, <2>3, Pushed
  <2>5. Len(u) = 2 /\ u[2] = g /\ u[1] = stack[1]
    BY ONLY <1>3, <2>4
  <2>6. QED
    BY <1>3, <2>2, <2>3, <2>4, <2>5
<1>6. top' = g
  BY <1>5 DEF top
<1>7. TypeOK' /\ CallsOK' /\ PixelsOK'
  <2>1. mark' \in {"clean", "torn", "healed"} /\ (mark # "clean" => mark' # "clean")
    BY <1>2, CursorFacts DEF TypeOK
  <2>2. TypeOK'
    BY <1>2, <1>3, <1>5, <2>1, CursorFacts DEF TypeOK
  <2>3. PixelsOK'
    BY <1>2, <2>1 DEF IInv, PixelsOK
  <2>4. QED
    BY <1>5, <2>2, <2>3 DEF CallsOK
<1>8. CursorOK'
  <2>1. /\ LostX' \in {0, 1} /\ LostY' \in {0, 1}
        /\ f.pc # "head" /\ PastLine(f) => LostX' = 1
        /\ f.pc # "head" /\ BelowScreen(f) => LostY' = 1
    BY <1>2, <1>5 DEF LostX, LostY, PastLine, BelowScreen
  <2>2. Reach(f, 0, 0)
    BY <1>1, <1>3, CursorFacts DEF CursorOK
  <2>3. fbcon_x < fbcon_cx + LostX'
    <3>1. CASE PastLine(f)
      <4>1. fbcon_x <= fbcon_cx /\ LostX' = 1
        BY <2>1, <2>2, <3>1, Sizes DEF Reach, PastLine
      <4>2. QED
        BY <4>1, CursorFacts, Sizes
    <3>2. CASE ~PastLine(f)
      <4>1. fbcon_x < fbcon_cx
        BY <2>2, <3>2, Sizes DEF Reach
      <4>2. QED
        BY <2>1, <4>1, CursorFacts, Sizes
    <3>3. QED
      BY <3>1, <3>2
  <2>4. fbcon_y < fbcon_cy + LostY'
    <3>1. CASE BelowScreen(f)
      <4>1. fbcon_y <= fbcon_cy /\ LostY' = 1
        BY <2>1, <2>2, <3>1, Sizes DEF Reach, BelowScreen
      <4>2. QED
        BY <4>1, CursorFacts, Sizes
    <3>2. CASE ~BelowScreen(f)
      <4>1. fbcon_y < fbcon_cy
        BY <2>2, <3>2, Sizes DEF Reach
      <4>2. QED
        BY <2>1, <4>1, CursorFacts, Sizes
    <3>3. QED
      BY <3>1, <3>2
  <2>5. Reach(top, LostX, LostY)'
    BY <1>2, <1>4, <1>6, <2>3, <2>4 DEF Reach, PastLine, BelowScreen
  <2>6. QED
    BY <1>2, <1>3, <1>4, <1>5, <1>6, <2>5, CursorFacts DEF CursorOK
<1>9. PlaceOK'
  BY <1>2, <1>3, <1>4, <1>5, <1>6, CursorFacts DEF PlaceOK, OnScreen, At
<1>10. TextOK'
  <2>1. SUFFICES ASSUME f.pc = "head", mark # "torn", mark' = mark
                 PROVE  /\ Fits' /\ CursorAt(g)' /\ Visible(memory, Text(g)')
                        /\ mark = "clean" => Blank(memory, Text(g)')
    BY <1>2, <1>4, <1>6 DEF TextOK, At
  <2>2. /\ Fits /\ CursorAt(f) /\ Visible(memory, Text(f))
        /\ (mark = "clean" => Blank(memory, Text(f)))
    BY <1>1, <2>1, CursorFacts DEF TextOK
  <2>3. Text(g)' = lines /\ Text(f) = lines /\ Fits' = Fits
    BY <1>2, <1>4, <2>1 DEF Text, Fits
  <2>4. CursorAt(g)'
    BY <1>2, <1>4, <2>1, <2>2 DEF CursorAt
  <2>5. QED
    BY <2>2, <2>3, <2>4
<1>11. QED
  BY <1>7, <1>8, <1>9, <1>10 DEF IInv

(* The interrupted call goes on.                                           *)
LEMMA IretStep ==
  ASSUME IInv, Iret
  PROVE  IInv'
<1>1. PICK f \in Call : f = stack[1]
  BY CursorFacts
<1>2. Len(stack) = 2 /\ top.pc = "head"
  <2>1. Len(stack) > 1 /\ top = Idle
    BY DEF Iret
  <2>2. Len(stack) = 1 \/ Len(stack) = 2
    BY CursorFacts
  <2>3. Len(stack) = 2
    BY ONLY <2>1, <2>2
  <2>4. QED
    BY <2>1, <2>3, IdleCall
<1>3. /\ UNCHANGED <<memory, fbcon_x, fbcon_y, color, events, lines>>
      /\ stack' = SubSeq(stack, 1, 1)
      /\ f.pc = "head" => mark' = mark
      /\ f.pc # "head" => mark' = "torn"
  BY <1>1, <1>2 DEF Iret
<1>4. stack' \in Seq(Call) /\ Len(stack') = 1 /\ stack'[1] = f
  <2>1. stack \in Seq(Call)
    BY CursorFacts, TopFacts
  <2>2. QED
    BY <1>1, <1>2, <1>3, <2>1
<1>5. top' = f
  BY <1>4 DEF top
<1>6. TypeOK' /\ CallsOK' /\ PixelsOK'
  <2>1. mark' \in {"clean", "torn", "healed"} /\ (mark # "clean" => mark' # "clean")
    BY <1>3, CursorFacts DEF TypeOK
  <2>2. TypeOK'
    BY <1>2, <1>3, <1>4, <2>1, CursorFacts, FbconAssumption DEF TypeOK
  <2>3. PixelsOK'
    BY <1>3, <2>1 DEF IInv, PixelsOK
  <2>4. QED
    BY <1>4, <2>2, <2>3 DEF CallsOK
<1>7. CursorOK'
  <2>1. LostX' = 0 /\ LostY' = 0
    BY <1>4 DEF LostX, LostY
  <2>2. fbcon_x < fbcon_cx + LostX /\ fbcon_y < fbcon_cy + LostY
    BY <1>2, CursorFacts DEF CursorOK, Reach, PastLine, BelowScreen
  <2>3. /\ fbcon_x <= fbcon_cx /\ fbcon_y <= fbcon_cy
        /\ ~PastLine(f) => fbcon_x < fbcon_cx
        /\ ~BelowScreen(f) => fbcon_y < fbcon_cy
    <3>1. (~PastLine(f) => LostX = 0) /\ (~BelowScreen(f) => LostY = 0)
      BY <1>1 DEF LostX, LostY
    <3>2. QED
      BY <2>2, <3>1, CursorFacts, Sizes
  <2>4. Reach(f, 0, 0)
    BY <2>3, Sizes DEF Reach
  <2>5. Reach(top, LostX, LostY)'
    BY <1>3, <1>5, <2>1, <2>4 DEF Reach
  <2>6. f.pc \in {"scroll", "dec"} => fbcon_y >= fbcon_cy - 1
    BY <1>1, CursorFacts DEF CursorOK
  <2>7. QED
    BY <1>3, <1>4, <2>5, <2>6 DEF CursorOK
<1>8. PlaceOK'
  <2>1. f.pc = "draw" => OnScreen(f.x, f.y)
    BY <1>1, CursorFacts DEF PlaceOK
  <2>2. f.x \in Nat /\ f.y \in Nat
    BY DEF Call, Frame
  <2>3. f.pc = "draw" => f.x <= fbcon_cx /\ f.y <= fbcon_cy
    BY <2>1, <2>2, Sizes DEF OnScreen
  <2>4. QED
    BY <1>4, <1>5, <2>1, <2>3 DEF PlaceOK, At, OnScreen
<1>9. TextOK'
  <2>1. SUFFICES ASSUME f.pc = "head", mark # "torn", mark' = mark
                 PROVE  /\ Fits' /\ CursorAt(f)' /\ Visible(memory, Text(f)')
                        /\ mark = "clean" => Blank(memory, Text(f)')
    BY <1>3, <1>5 DEF TextOK, At
  <2>2. /\ Fits /\ CursorAt(top) /\ Visible(memory, Text(top))
        /\ (mark = "clean" => Blank(memory, Text(top)))
    BY <2>1, CursorFacts DEF TextOK
  <2>3. Text(f)' = lines /\ Text(top) = lines /\ Fits' = Fits
    BY <1>2, <1>3, <2>1 DEF Text, Fits
  <2>4. CursorAt(f)'
    BY <1>2, <1>3, <2>1, <2>2 DEF CursorAt
  <2>5. QED
    BY <2>2, <2>3, <2>4
<1>10. QED
  BY <1>6, <1>7, <1>8, <1>9 DEF IInv

(* The console after fbcon_init.                                           *)
LEMMA InitStep ==
  Init => IInv
<1>1. SUFFICES ASSUME Init
               PROVE  IInv
  OBVIOUS
<1>2. /\ stack = <<Idle>> /\ Len(stack) = 1 /\ stack[1] = Idle /\ top = Idle
      /\ fbcon_x = 0 /\ fbcon_y = 0 /\ events = 0 /\ mark = "clean"
      /\ lines = << <<>> >> /\ color = DefaultColor
  BY <1>1 DEF Init, top
<1>3. memory = [a \in Addresses |-> IF Shown(a) THEN Junk ELSE Foreign]
  BY <1>1 DEF Init
<1>4. color \in Colors
  BY <1>2, FbconAssumption DEF DefaultColor
<1>5. TypeOK
  BY <1>2, <1>3, <1>4, FbconAssumption DEF TypeOK
<1>6. CallsOK
  BY <1>2, IdleCall DEF CallsOK
<1>7. CursorOK
  <2>1. LostX = 0 /\ LostY = 0
    BY <1>2 DEF LostX, LostY
  <2>2. Reach(top, LostX, LostY)
    BY <1>2, <2>1, Sizes, IdleCall DEF Reach, PastLine, BelowScreen
  <2>3. QED
    BY <1>2, <2>2, IdleCall DEF CursorOK
<1>8. PlaceOK
  BY <1>2, IdleCall DEF PlaceOK, At
<1>9. PixelsOK
  BY <1>3 DEF PixelsOK
<1>10. TextOK
  <2>1. /\ lines \in Lines /\ Len(lines) = 1 /\ lines[1] = <<>> /\ Len(lines[1]) = 0
    BY <1>2 DEF Lines
  <2>2. Fits
    <3>1. Len(lines) \in 1 .. fbcon_cy
      BY <2>1, Sizes
    <3>2. QED
      BY <2>1, <3>1, Sizes DEF Fits
  <2>3. CursorAt(top)
    BY <1>2, <2>1, IdleCall DEF CursorAt
  <2>4. Text(top) = lines
    BY <1>2, IdleCall DEF Text
  <2>5. Visible(memory, lines)
    BY <2>1 DEF Visible
  <2>6. Blank(memory, lines)
    BY <1>3 DEF Blank, Blanks
  <2>7. QED
    BY <1>2, <2>2, <2>3, <2>4, <2>5, <2>6, IdleCall DEF TextOK, At
<1>11. QED
  BY <1>5, <1>6, <1>7, <1>8, <1>9, <1>10 DEF IInv

(* Nothing happens.                                                        *)
LEMMA StutterStep ==
  ASSUME IInv, UNCHANGED vars
  PROVE  IInv'
<1>1. /\ memory' = memory /\ fbcon_x' = fbcon_x /\ fbcon_y' = fbcon_y /\ color' = color
      /\ events' = events /\ stack' = stack /\ lines' = lines /\ mark' = mark
  BY DEF vars
<1>2. top' = top /\ LostX' = LostX /\ LostY' = LostY
  BY <1>1 DEF top, LostX, LostY
<1>3. TypeOK' /\ CallsOK' /\ PixelsOK'
  BY <1>1 DEF IInv, TypeOK, CallsOK, PixelsOK
<1>4. CursorOK'
  BY <1>1, <1>2, CursorFacts DEF CursorOK, Reach
<1>5. PlaceOK'
  BY <1>1, <1>2, CursorFacts DEF PlaceOK, At
<1>6. TextOK'
  <2>1. PICK f \in Call : f = top
    BY CursorFacts
  <2>2. Added(f)' = Added(f)
    BY <1>1 DEF Added
  <2>3. Finished(f)' = Finished(f)
    BY <1>1, <2>2 DEF Finished
  <2>4. Text(f)' = Text(f) /\ Fits' = Fits /\ CursorAt(f)' = CursorAt(f)
    BY <1>1, <2>2, <2>3 DEF Text, Fits, CursorAt
  <2>5. QED
    BY <1>1, <1>2, <2>1, <2>4, CursorFacts DEF TextOK, At
<1>7. QED
  BY <1>3, <1>4, <1>5, <1>6 DEF IInv

(* Every step.                                                             *)
LEMMA NextStep ==
  IInv /\ [Next]_vars => IInv'
<1>1. SUFFICES ASSUME IInv, [Next]_vars
               PROVE  IInv'
  OBVIOUS
<1>2. CASE \E ch \in Chars \cup {"space"} : PutChar(ch)
  BY <1>1, <1>2, PutCharStep
<1>3. CASE Draw
  BY <1>1, <1>3, DrawStep
<1>4. CASE IncX
  BY <1>1, <1>4, IncXStep
<1>5. CASE Newline
  BY <1>1, <1>5, NewlineStep
<1>6. CASE Tab
  BY <1>1, <1>6, TabStep
<1>7. CASE WrapTest
  BY <1>1, <1>7, WrapTestStep
<1>8. CASE ZeroX
  BY <1>1, <1>8, ZeroXStep
<1>9. CASE IncY
  BY <1>1, <1>9, IncYStep
<1>10. CASE BottomTest
  BY <1>1, <1>10, BottomTestStep
<1>11. CASE fbcon_scroll_up
  BY <1>1, <1>11, ScrollStep
<1>12. CASE DecY
  BY <1>1, <1>12, DecYStep
<1>13. CASE fbcon_set_color
  BY <1>1, <1>13, SetColorStep
<1>14. CASE Interrupt
  BY <1>1, <1>14, InterruptStep
<1>15. CASE Iret
  BY <1>1, <1>15, IretStep
<1>16. CASE UNCHANGED vars
  BY <1>1, <1>16, StutterStep
<1>17. QED
  BY <1>1, <1>2, <1>3, <1>4, <1>5, <1>6, <1>7, <1>8, <1>9, <1>10, <1>11, <1>12,
     <1>13, <1>14, <1>15, <1>16 DEF Next

(* fbcon_write, interrupted between any two of its statements by another   *)
(* call of itself, keeps the inductive invariant: where the cursor may be  *)
(* at each statement, where the next glyph goes, which memory was touched  *)
(* and what the screen shows.                                              *)
THEOREM Invariance ==
  Spec => []IInv
<1>1. Init => IInv
  BY InitStep
<1>2. IInv /\ [Next]_vars => IInv'
  BY NextStep
<1>3. QED
  BY <1>1, <1>2, PTL DEF Spec

(* What the invariant says of the memory that is written.                  *)
LEMMA InvariantInside ==
  IInv => Inside
<1>1. SUFFICES ASSUME IInv
               PROVE  Inside
  OBVIOUS
<1>2. PICK f \in Call : f = top
  BY <1>1, CursorFacts
<1>3. Reach(f, LostX, LostY)
  BY <1>1, <1>2, CursorFacts DEF CursorOK
<1>4. fbcon_x <= fbcon_cx + LostX /\ fbcon_y <= fbcon_cy + LostY
  <2>1. fbcon_x <= fbcon_cx + LostX
    <3>1. \/ fbcon_x <= fbcon_cx + LostX
          \/ fbcon_x < fbcon_cx + LostX
          \/ fbcon_x < fbcon_cx
      BY <1>3 DEF Reach
    <3>2. QED
      BY <1>1, <3>1, CursorFacts, Sizes
  <2>2. fbcon_y <= fbcon_cy + LostY
    <3>1. fbcon_y <= fbcon_cy + LostY \/ fbcon_y < fbcon_cy + LostY
      BY <1>3 DEF Reach
    <3>2. QED
      BY <1>1, <3>1, CursorFacts, Sizes
  <2>3. QED
    BY <2>1, <2>2
<1>5. /\ fbcon_x <= fbcon_cx + Len(stack) - 1
      /\ fbcon_y <= fbcon_cy + Len(stack) - 1
  <2>1. CASE Len(stack) = 1
    BY <1>1, <1>4, <2>1, CursorFacts, Sizes
  <2>2. CASE Len(stack) = 2
    BY <1>1, <1>4, <2>2, CursorFacts, Sizes
  <2>3. QED
    BY <1>1, <2>1, <2>2, CursorFacts
<1>6. ASSUME At("head"), mark # "torn"
      PROVE  OnScreen(fbcon_x, fbcon_y)
  <2>1. f.pc = "head" /\ LostX = 0 /\ LostY = 0
    BY <1>1, <1>2, <1>6, CursorFacts DEF At
  <2>2. fbcon_x < fbcon_cx + 0 /\ fbcon_y < fbcon_cy + 0
    BY <1>3, <2>1 DEF Reach, PastLine, BelowScreen
  <2>3. QED
    BY <1>1, <2>2, CursorFacts, Sizes DEF OnScreen
<1>7. \A a \in Addresses :
        ~Shown(a) /\ memory[a] # Foreign =>
          /\ mark # "clean"
          /\ \/ \E y \in 0 .. fbcon_cy : a \in CellPixels(fbcon_cx, y)
             \/ \E x \in 0 .. fbcon_cx : a \in CellPixels(x, fbcon_cy)
  BY <1>1 DEF IInv, PixelsOK, Allowed
<1>8. QED
  BY <1>1, <1>5, <1>6, <1>7, CursorFacts DEF Inside

(* What the invariant says of the text at the end of an iteration.         *)
LEMMA InvariantShowsText ==
  IInv => ShowsText
<1>1. SUFFICES ASSUME IInv, At("head"), mark # "torn"
               PROVE  ShowsText
  BY DEF ShowsText
<1>2. PICK f \in Call : f = top /\ f.pc = "head"
  BY <1>1, CursorFacts DEF At
<1>3. /\ Fits /\ CursorAt(f) /\ Visible(memory, Text(f))
      /\ mark = "clean" => Blank(memory, Text(f))
  BY <1>1, <1>2, CursorFacts DEF TextOK
<1>4. Text(f) = lines
  BY <1>2 DEF Text
<1>5. fbcon_y = Len(lines) - 1 /\ fbcon_x = Len(lines[Len(lines)])
  BY <1>2, <1>3 DEF CursorAt
<1>6. \A y \in 1 .. Len(lines) : \A x \in 1 .. Len(lines[y]) :
        lines[y][x].ch # "unknown" => Shows(x - 1, y - 1, lines[y][x])
  BY <1>3, <1>4 DEF Visible, CellShows, Shows
<1>7. lines \in Lines
  BY <1>3 DEF Fits
<1>8. ASSUME mark = "clean", NEW a \in Addresses, Shown(a),
             ~(Row(a) \in DOMAIN lines /\ Col(a) \in DOMAIN lines[Row(a)])
      PROVE  memory[a] \in Blanks
  <2>1. DOMAIN lines = 1 .. Len(lines)
    BY <1>7, TextFacts
  <2>2. Row(a) \in 1 .. Len(lines) => DOMAIN lines[Row(a)] = 1 .. Len(lines[Row(a)])
    BY <1>7, LineFacts
  <2>3. ~Written(lines, a)
    BY <1>8, <2>1, <2>2 DEF Written
  <2>4. QED
    BY <1>3, <1>4, <1>8, <2>3 DEF Blank
<1>9. mark = "clean" =>
        \A a \in Addresses :
          LET y == (a \div Pitch) \div fbcon_text_cy + 1
              x == (a % Pitch) \div fbcon_text_cx + 1
              written == y \in DOMAIN lines /\ x \in DOMAIN lines[y]
          IN  Shown(a) /\ ~written => memory[a] \in {Junk} \cup {Background(c) : c \in Colors}
  BY <1>8, Zenon DEF Row, Col, Blanks
<1>10. QED
  BY <1>5, <1>6, <1>9, Zenon DEF ShowsText

(* Whatever the sizes of the screen and of its rows, and wherever writers  *)
(* interrupt one another: fbcon_write touches no memory but the pixels     *)
(* shown, and after a torn iteration only the cells behind the end of a    *)
(* line and below the screen.                                              *)
THEOREM StaysInside ==
  Spec => []Inside
<1>1. IInv => Inside
  BY InvariantInside
<1>2. QED
  BY <1>1, Invariance, PTL

(* Whenever an iteration of fbcon_write is over and none was torn, the     *)
(* screen shows the end of the text written, with the cursor behind it,    *)
(* and, if none ever was, nothing else.                                    *)
THEOREM ScreenShowsText ==
  Spec => []ShowsText
<1>1. IInv => ShowsText
  BY InvariantShowsText
<1>2. QED
  BY <1>1, Invariance, PTL
=============================================================================
