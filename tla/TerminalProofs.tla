--------------------------- MODULE TerminalProofs ---------------------------
(***************************************************************************)
(* Proofs about the console, for every size of the screen, the buffer and  *)
(* argv, and every set of characters: the loops of vga.c and shell.c have  *)
(* a value after every turn; a character shown at the cursor leaves the    *)
(* text before it, which may move up a row; parse_command finds the words  *)
(* of every line; and, from these, the invariant of the command loop.      *)
(***************************************************************************)
EXTENDS Terminal, WellFoundedInduction, TLAPS

\* Induction along the indices of a loop.
LEMMA LoopInduction ==
  ASSUME NEW n \in Nat, NEW T, 0 \in T, \A k \in 1 .. n : k - 1 \in T => k \in T
  PROVE  \A k \in 0 .. n : k \in T
<1> DEFINE R == OpToRel(<, Nat)
           U == (0 .. n) \ T
<1>1. SUFFICES ASSUME U # {} PROVE FALSE
  OBVIOUS
<1>2. U \subseteq Nat
  OBVIOUS
<1>3. IsWellFoundedOn(R, Nat)
  BY NatLessThanWellFounded, Zenon
<1> HIDE DEF R
<1>4. PICK x \in U : \A y \in U : ~(<<y, x>> \in R)
  BY <1>1, <1>2, <1>3, WFMin, Zenon
<1>5. x # 0 /\ x \in 1 .. n /\ x - 1 \in 0 .. n /\ x - 1 \in Nat /\ x \in Nat /\ x - 1 < x
  BY <1>4
<1>6. <<x - 1, x>> \in R
  BY <1>5 DEF R, OpToRel
<1>7. x - 1 \in T
  BY <1>4, <1>5, <1>6
<1> QED BY <1>4, <1>5, <1>7

\* The values of a loop up to its n-th turn, given those before it: a at the
\* start, and g says what a turn makes of a value.
Turns(f, g, a, n) == [k \in 0 .. n |-> IF k = 0 THEN a ELSE g[k][f[k - 1]]]

\* Every loop over n indices has a value after every turn, in the set its
\* turns stay in.
LEMMA LoopRuns ==
  ASSUME NEW n \in Nat, NEW S, NEW a \in S, NEW g \in [1 .. n -> [S -> S]]
  PROVE  \E f \in [0 .. n -> S] : f = Turns(f, g, a, n)
<1> DEFINE T == {m \in 0 .. n : \E f \in [0 .. m -> S] : f = Turns(f, g, a, m)}
<1>1. 0 \in T
  <2> DEFINE e == [k \in 0 .. 0 |-> a]
  <2>1. e = Turns(e, g, a, 0) /\ e \in [0 .. 0 -> S]
    BY DEF Turns
  <2>2. \E f \in [0 .. 0 -> S] : f = Turns(f, g, a, 0)
    <3> HIDE DEF e
    <3> QED BY <2>1
  <2> QED BY <2>2
<1>2. ASSUME NEW m \in 1 .. n, m - 1 \in T PROVE m \in T
  <2>1. PICK f \in [0 .. m - 1 -> S] : f = Turns(f, g, a, m - 1)
    BY <1>2
  <2> DEFINE e == [k \in 0 .. m |-> IF k = m THEN g[m][f[m - 1]] ELSE f[k]]
             h == Turns(e, g, a, m)
  <2>2. e \in [0 .. m -> S]
    <3>1. f[m - 1] \in S
      BY <1>2, <2>1
    <3>2. g[m][f[m - 1]] \in S
      BY <1>2, <3>1
    <3> QED BY <1>2, <2>1, <3>2
  <2>3. ASSUME NEW k \in 0 .. m PROVE e[k] = h[k]
    <3>0. h[k] = IF k = 0 THEN a ELSE g[k][e[k - 1]]
      BY DEF Turns
    <3>1. CASE k = 0
      <4>1. f[0] = a
        BY <1>2, <2>1 DEF Turns
      <4> QED BY <1>2, <3>0, <3>1, <4>1
    <3>2. CASE k = m
      <4>1. e[m - 1] = f[m - 1] /\ m # 0 /\ m \in 0 .. m
        BY <1>2
      <4>2. e[m] = g[m][f[m - 1]]
        BY <4>1, Zenon
      <4> QED BY <3>0, <3>2, <4>1, <4>2, Zenon
    <3>3. CASE k # 0 /\ k # m
      <4>1. e[k] = f[k] /\ e[k - 1] = f[k - 1]
        BY <1>2, <3>3
      <4>2. f[k] = g[k][f[k - 1]]
        BY <1>2, <2>1, <3>3 DEF Turns
      <4> QED BY <3>0, <3>3, <4>1, <4>2
    <3> QED BY <3>1, <3>2, <3>3
  <2>4. e = h
    BY <2>3 DEF Turns
  <2>5. \E d \in [0 .. m -> S] : d = Turns(d, g, a, m)
    <3> HIDE DEF e
    <3> QED BY <2>2, <2>4
  <2> QED BY <2>5
<1>3. \A k \in 0 .. n : k \in T
  <2> HIDE DEF T
  <2> QED BY <1>1, <1>2, LoopInduction, Zenon
<1>4. n \in T
  <2> HIDE DEF T
  <2> QED BY <1>3
<1> QED BY <1>4

-----------------------------------------------------------------------------
(* The screen.                                                             *)

Screen ==
  [x : 0 .. VGA_WIDTH - 1, y : 0 .. VGA_HEIGHT - 1, rows : 0 .. RowsBound, cell : [Cells -> Chars]]

\* A screen between the character and the wrap: the cursor may be off it.
Unwrapped ==
  [x : Nat, y : 0 .. VGA_HEIGHT, rows : 0 .. RowsBound, cell : [Cells -> Chars]]

\* The sizes are numbers, and the bound on the rows is beyond the screen.
LEMMA Sizes ==
  /\ VGA_WIDTH \in Nat \ {0} /\ VGA_HEIGHT \in Nat \ {0} /\ VGA_WIDTH * VGA_HEIGHT \in Nat
  /\ BUFFER_SIZE \in Nat /\ BUFFER_SIZE \div VGA_WIDTH \in Nat
  /\ RowsBound \in Nat /\ RowsBound = VGA_HEIGHT + (BUFFER_SIZE \div VGA_WIDTH)
<1>1. VGA_WIDTH \in Nat \ {0} /\ VGA_HEIGHT \in Nat \ {0} /\ BUFFER_SIZE \in Nat
  BY TerminalAssumption
<1>2. BUFFER_SIZE \div VGA_WIDTH \in Nat /\ VGA_WIDTH * VGA_HEIGHT \in Nat
  BY <1>1
<1> QED BY <1>1, <1>2 DEF RowsBound

\* What is written is made of characters.
LEMMA Written ==
  /\ Len(PromptText) \in Nat /\ Space \in Chars
  /\ {Nl, Bs, Tab, Space} \subseteq Chars
  BY TerminalAssumption

\* A text with a character more.
LEMMA Appended ==
  ASSUME NEW S, NEW s \in Seq(S), NEW c
  PROVE  /\ Len(s) \in Nat /\ Len(Append(s, c)) = Len(s) + 1 /\ Append(s, c)[Len(s) + 1] = c
         /\ \A k \in 1 .. Len(s) : Append(s, c)[k] = s[k]
  OBVIOUS

\* More rows are more cells.
LEMMA Rows ==
  ASSUME NEW w \in Nat, NEW a \in Int, NEW b \in Int, a <= b
  PROVE  a * w <= b * w
  OBVIOUS

\* A place on the screen has a cell.
LEMMA PlaceCell ==
  ASSUME NEW x \in 0 .. VGA_WIDTH - 1, NEW y \in 0 .. VGA_HEIGHT - 1
  PROVE  (y * VGA_WIDTH) + x \in Cells /\ y * VGA_WIDTH \in Nat
<1>1. VGA_WIDTH \in Nat /\ VGA_HEIGHT \in Nat
  BY Sizes
<1>2. y * VGA_WIDTH <= (VGA_HEIGHT - 1) * VGA_WIDTH
  BY <1>1, Rows
<1>3. (VGA_HEIGHT - 1) * VGA_WIDTH = (VGA_WIDTH * VGA_HEIGHT) - VGA_WIDTH
  BY <1>1
<1>4. y * VGA_WIDTH \in Nat
  BY <1>1
<1> QED BY <1>1, <1>2, <1>3, <1>4 DEF Cells

\* The fields of a screen.
LEMMA ScreenFields ==
  ASSUME NEW v \in Screen
  PROVE  /\ v.x \in 0 .. VGA_WIDTH - 1 /\ v.y \in 0 .. VGA_HEIGHT - 1
         /\ v.rows \in 0 .. RowsBound /\ v.cell \in [Cells -> Chars]
         /\ Offset(v) \in Cells /\ Offset(v) = (v.y * VGA_WIDTH) + v.x
<1>1. /\ v.x \in 0 .. VGA_WIDTH - 1 /\ v.y \in 0 .. VGA_HEIGHT - 1
      /\ v.rows \in 0 .. RowsBound /\ v.cell \in [Cells -> Chars]
  BY DEF Screen
<1> QED BY <1>1, PlaceCell DEF Offset

\* What vga_scroll_down leaves of the rows counted.
Bumped(n) == IF n < RowsBound THEN n + 1 ELSE n

\* The count of rows stays within its bound.
LEMMA BumpedBound ==
  ASSUME NEW n \in 0 .. RowsBound
  PROVE  Bumped(n) \in 0 .. RowsBound
  BY Sizes DEF Bumped

\* The end of vga_write_char, given the screen with the character placed.
Finished(u) == LET z == Wrapped(u) IN IF z.y >= VGA_HEIGHT THEN vga_scroll_down(z) ELSE z

\* The cursor is below the last row.
Down(u) == u.y = VGA_HEIGHT \/ (u.x >= VGA_WIDTH /\ u.y + 1 = VGA_HEIGHT)

\* The wrap, and the scroll of a cursor below the last row.
LEMMA Finish ==
  ASSUME NEW u \in Unwrapped, u.y = VGA_HEIGHT => u.x = 0, NEW r, r = Finished(u)
  PROVE  /\ r \in Screen
         /\ u.x < VGA_WIDTH /\ u.y < VGA_HEIGHT => r = u
         /\ u.x >= VGA_WIDTH /\ ~Down(u) => r = [u EXCEPT !.x = 0, !.y = u.y + 1]
         /\ Down(u) => /\ r.x = 0 /\ r.y = VGA_HEIGHT - 1 /\ r.rows = Bumped(u.rows)
                       /\ \A p \in Cells : p + VGA_WIDTH \in Cells => r.cell[p] = u.cell[p + VGA_WIDTH]
<1> DEFINE z == Wrapped(u)
           w == IF z.y >= VGA_HEIGHT THEN vga_scroll_down(z) ELSE z
           down == u.y = VGA_HEIGHT \/ (u.x >= VGA_WIDTH /\ u.y + 1 = VGA_HEIGHT)
<1>0. r = w /\ (Down(u) <=> down)
  BY Zenon DEF Finished, Down
<1>1. /\ u.x \in Nat /\ u.y \in 0 .. VGA_HEIGHT /\ u.rows \in 0 .. RowsBound /\ u.cell \in [Cells -> Chars]
      /\ u.y \in Nat /\ VGA_WIDTH \in Nat \ {0} /\ VGA_HEIGHT \in Nat \ {0} /\ Bumped(u.rows) \in 0 .. RowsBound
  BY Sizes, BumpedBound DEF Unwrapped
<1>2. CASE u.x < VGA_WIDTH /\ u.y < VGA_HEIGHT
  <2>1. ~(u.x >= VGA_WIDTH) /\ ~(u.y >= VGA_HEIGHT) /\ ~down
    BY <1>1, <1>2
  <2>2. u.x \in 0 .. VGA_WIDTH - 1 /\ u.y \in 0 .. VGA_HEIGHT - 1
    BY <1>1, <1>2
  <2>3. w = u
    BY <2>1, Zenon DEF Wrapped
  <2>4. u \in Screen
    BY <1>1, <2>2, Zenon DEF Screen, Unwrapped
  <2> QED BY <1>0, <2>1, <2>3, <2>4, Zenon
<1>3. CASE u.x >= VGA_WIDTH /\ ~down
  <2>1. ~(u.y + 1 >= VGA_HEIGHT) /\ ~(u.x < VGA_WIDTH) /\ 0 \in 0 .. VGA_WIDTH - 1 /\ u.y + 1 \in 0 .. VGA_HEIGHT - 1
    BY <1>1, <1>3
  <2>2. z = [u EXCEPT !.x = 0, !.y = u.y + 1]
    BY <1>3, Zenon DEF Wrapped
  <2>3. z.y = u.y + 1 /\ z \in Screen
    BY <1>1, <2>1, <2>2, Zenon DEF Screen, Unwrapped
  <2>4. w = z
    BY <2>1, <2>3, Zenon
  <2> QED BY <1>0, <1>3, <2>1, <2>2, <2>3, <2>4, Zenon
<1>4. CASE down
  <2>1. /\ ~(u.x < VGA_WIDTH /\ u.y < VGA_HEIGHT) /\ VGA_HEIGHT >= VGA_HEIGHT
        /\ 0 \in 0 .. VGA_WIDTH - 1 /\ VGA_HEIGHT - 1 \in 0 .. VGA_HEIGHT - 1
    BY <1>1, <1>4
  <2>2. z.x = 0 /\ z.y = VGA_HEIGHT /\ z.rows = u.rows /\ z.cell = u.cell
    <3>1. CASE u.x >= VGA_WIDTH
      <4>1. u.y + 1 = VGA_HEIGHT
        BY <1>1, <1>4, <3>1
      <4>2. z = [u EXCEPT !.x = 0, !.y = u.y + 1]
        BY <3>1, Zenon DEF Wrapped
      <4> QED BY <4>1, <4>2, Zenon DEF Unwrapped
    <3>2. CASE ~(u.x >= VGA_WIDTH)
      <4>1. u.y = VGA_HEIGHT /\ u.x = 0
        BY <1>1, <1>4, <3>2
      <4>2. z = u
        BY <3>2, Zenon DEF Wrapped
      <4> QED BY <4>1, <4>2, Zenon
    <3> QED BY <3>1, <3>2
  <2>3. w = vga_scroll_down(z)
    <3> HIDE DEF z
    <3> QED BY <2>1, <2>2, Zenon
  <2>4. w.cell = [p \in Cells |-> IF p + VGA_WIDTH \in Cells THEN u.cell[p + VGA_WIDTH] ELSE Space]
    <3> HIDE DEF z, w
    <3> QED BY <2>2, <2>3 DEF vga_scroll_down
  <2>5. w.x = 0 /\ w.y = VGA_HEIGHT - 1 /\ w.rows = Bumped(u.rows)
    <3> HIDE DEF z, w
    <3> QED BY <2>2, <2>3 DEF vga_scroll_down, Bumped
  <2>6. w.cell \in [Cells -> Chars]
    <3>1. Space \in Chars
      BY TerminalAssumption
    <3> QED BY <1>1, <2>4, <3>1
  <2>7. w = [x |-> w.x, y |-> w.y, rows |-> w.rows, cell |-> w.cell]
    <3> HIDE DEF z, w
    <3> QED BY <2>3 DEF vga_scroll_down
  <2>8. w \in Screen
    <3> HIDE DEF w
    <3> QED BY <1>1, <2>1, <2>5, <2>6, <2>7, Zenon DEF Screen
  <2>9. \A p \in Cells : p + VGA_WIDTH \in Cells => w.cell[p] = u.cell[p + VGA_WIDTH]
    <3> HIDE DEF w
    <3> QED BY <2>4
  <2> QED BY <1>0, <1>4, <2>1, <2>5, <2>8, <2>9, Zenon
<1>5. u.x < VGA_WIDTH \/ u.x >= VGA_WIDTH
  BY <1>1
<1>6. u.y < VGA_HEIGHT \/ u.y = VGA_HEIGHT
  BY <1>1
<1> QED BY <1>2, <1>3, <1>4, <1>5, <1>6, Zenon

\* The cursor may leave the screen when a character is placed, downwards
\* only at a newline.
LEMMA PlacedUnwrapped ==
  ASSUME NEW v \in Screen, NEW c \in Chars
  PROVE  Placed(v, c) \in Unwrapped /\ (Placed(v, c).y = VGA_HEIGHT => Placed(v, c).x = 0)
<1>1. /\ v.x \in 0 .. VGA_WIDTH - 1 /\ v.y \in 0 .. VGA_HEIGHT - 1 /\ v.rows \in 0 .. RowsBound
      /\ v.cell \in [Cells -> Chars] /\ Offset(v) \in Cells /\ v \in Unwrapped
  BY ScreenFields, Sizes DEF Screen, Unwrapped
<1>2. /\ v.x \in Nat /\ v.y \in 0 .. VGA_HEIGHT /\ v.y + 1 \in 0 .. VGA_HEIGHT /\ v.y # VGA_HEIGHT
      /\ v.x + 1 \in Nat /\ 0 \in Nat
  BY <1>1, Sizes
<1>3. CASE c = Nl
  <2>1. Placed(v, c) = [v EXCEPT !.x = 0, !.y = v.y + 1]
    BY <1>3 DEF Placed, Nl, Tab, Bs
  <2> QED BY <1>1, <1>2, <2>1, Zenon DEF Unwrapped
<1>4. CASE c = Tab
  <2>1. Placed(v, c) = [v EXCEPT !.x = ((v.x + TabStop) \div TabStop) * TabStop]
    BY <1>4 DEF Placed, Nl, Tab, Bs
  <2>2. ((v.x + TabStop) \div TabStop) * TabStop \in Nat
    <3>1. TabStop \in Nat \ {0}
      BY TerminalAssumption
    <3>2. (v.x + TabStop) \div TabStop \in Nat
      BY <1>2, <3>1
    <3> QED BY <3>1, <3>2
  <2> QED BY <1>1, <1>2, <2>1, <2>2, Zenon DEF Unwrapped
<1>5. CASE c = Bs
  <2> DEFINE x == IF v.x > 0 THEN v.x - 1 ELSE v.x
             w == [v EXCEPT !.x = x]
  <2>1. Placed(v, c) = [w EXCEPT !.cell[Offset(w)] = Space]
    BY <1>5 DEF Placed, Nl, Tab, Bs
  <2>2. x \in 0 .. VGA_WIDTH - 1
    BY <1>1, Sizes
  <2>3. w \in Screen /\ w.x = x /\ w.y = v.y /\ w.cell = v.cell
    <3> HIDE DEF x
    <3> QED BY <1>1, <2>2, Zenon DEF Screen
  <2>4. Space \in Chars /\ w.cell \in [Cells -> Chars]
    BY <1>1, <2>3, TerminalAssumption
  <2>5. [w EXCEPT !.cell[Offset(w)] = Space] \in Screen
    <3> HIDE DEF w
    <3> QED BY <2>3, <2>4, Zenon DEF Screen
  <2>6. Placed(v, c) \in Screen
    BY <2>1, <2>5, Zenon
  <2>7. Placed(v, c).y # VGA_HEIGHT /\ Placed(v, c) \in Unwrapped
    <3> HIDE DEF x, w
    <3> QED BY <2>6, Sizes DEF Screen, Unwrapped
  <2> QED BY <2>7
<1>6. CASE c \notin {Nl, Tab, Bs}
  <2>1. Placed(v, c) = [v EXCEPT !.cell[Offset(v)] = c, !.x = v.x + 1]
    BY <1>6 DEF Placed
  <2> DEFINE d == [v.cell EXCEPT ![Offset(v)] = c]
  <2>2. d \in [Cells -> Chars] /\ Placed(v, c) = [v EXCEPT !.cell = d, !.x = v.x + 1]
    BY <1>1, <2>1, Zenon
  <2> HIDE DEF d
  <2> QED BY <1>1, <1>2, <2>2, Zenon DEF Unwrapped
<1> QED BY <1>3, <1>4, <1>5, <1>6, Zenon

\* Every character leaves the cursor on the screen.
LEMMA CharScreen ==
  ASSUME NEW v \in Screen, NEW c \in Chars
  PROVE  vga_write_char(v, c) \in Screen
  BY PlacedUnwrapped, Finish, Zenon DEF vga_write_char, Finished

\* The cells after a character at the cursor.
Put(v, c) == [v.cell EXCEPT ![Offset(v)] = c]

\* A character is at the cursor's place and the cursor behind it.
Advances(w, v, c) ==
  Offset(w) = Offset(v) + 1 /\ w.rows = v.rows /\ w.cell = Put(v, c)

\* The same after the last place: everything has moved up a row.
Scrolls(w, v, c) ==
  /\ Offset(v) + 1 = VGA_WIDTH * VGA_HEIGHT
  /\ Offset(w) = Offset(v) + 1 - VGA_WIDTH /\ w.rows = Bumped(v.rows)
  /\ \A p \in Cells : p + VGA_WIDTH \in Cells => w.cell[p] = Put(v, c)[p + VGA_WIDTH]

\* A character that is shown.
LEMMA GlyphWritten ==
  ASSUME NEW v \in Screen, NEW c \in Chars, c \notin {Nl, Bs, Tab}
  PROVE  LET w == vga_write_char(v, c) IN Advances(w, v, c) \/ Scrolls(w, v, c)
<1> DEFINE u == Placed(v, c)
           w == vga_write_char(v, c)
<1> SUFFICES Advances(w, v, c) \/ Scrolls(w, v, c)
  OBVIOUS
<1>1. /\ v.x \in 0 .. VGA_WIDTH - 1 /\ v.y \in 0 .. VGA_HEIGHT - 1 /\ v.rows \in 0 .. RowsBound
      /\ v.cell \in [Cells -> Chars] /\ Offset(v) \in Cells
      /\ Offset(v) = (v.y * VGA_WIDTH) + v.x
      /\ VGA_WIDTH \in Nat \ {0} /\ VGA_HEIGHT \in Nat \ {0}
  BY ScreenFields, Sizes
<1>2. u = [v EXCEPT !.cell[Offset(v)] = c, !.x = v.x + 1]
  BY DEF Placed
<1>3. u.x = v.x + 1 /\ u.y = v.y /\ u.rows = v.rows /\ u.cell = Put(v, c)
  BY <1>2, Zenon DEF Screen, Put
<1>4. u \in Unwrapped /\ (u.y = VGA_HEIGHT => u.x = 0)
  BY PlacedUnwrapped, Zenon
<1>5. w = Finished(u)
  BY Zenon DEF vga_write_char, Finished
<1> HIDE DEF u, w
<1>6. /\ u.x < VGA_WIDTH /\ u.y < VGA_HEIGHT => w = u
      /\ u.x >= VGA_WIDTH /\ ~(u.y = VGA_HEIGHT \/ (u.x >= VGA_WIDTH /\ u.y + 1 = VGA_HEIGHT))
           => w = [u EXCEPT !.x = 0, !.y = u.y + 1]
      /\ u.y = VGA_HEIGHT \/ (u.x >= VGA_WIDTH /\ u.y + 1 = VGA_HEIGHT)
           => /\ w.x = 0 /\ w.y = VGA_HEIGHT - 1 /\ w.rows = Bumped(u.rows)
              /\ \A p \in Cells : p + VGA_WIDTH \in Cells => w.cell[p] = u.cell[p + VGA_WIDTH]
  BY <1>4, <1>5, Finish, Zenon DEF Down
<1>7. CASE v.x + 1 < VGA_WIDTH
  <2>1. u.x < VGA_WIDTH /\ u.y < VGA_HEIGHT
    BY <1>1, <1>3, <1>7
  <2>2. w.x = v.x + 1 /\ w.y = v.y /\ w.rows = v.rows /\ w.cell = Put(v, c)
    BY <1>3, <1>6, <2>1, Zenon
  <2>3. Offset(w) = Offset(v) + 1
    BY <1>1, <2>2 DEF Offset
  <2> QED BY <2>2, <2>3, Zenon DEF Advances
<1>8. CASE ~(v.x + 1 < VGA_WIDTH) /\ v.y + 1 < VGA_HEIGHT
  <2>1. u.x >= VGA_WIDTH /\ ~(u.y = VGA_HEIGHT \/ (u.x >= VGA_WIDTH /\ u.y + 1 = VGA_HEIGHT)) /\ v.x + 1 = VGA_WIDTH
    BY <1>1, <1>3, <1>8
  <2>2. w = [u EXCEPT !.x = 0, !.y = u.y + 1]
    BY <1>6, <2>1, Zenon
  <2>3. w.x = 0 /\ w.y = v.y + 1 /\ w.rows = v.rows /\ w.cell = Put(v, c)
    BY <1>3, <1>4, <2>2, Zenon DEF Unwrapped
  <2>4. (v.y + 1) * VGA_WIDTH = (v.y * VGA_WIDTH) + VGA_WIDTH
    BY <1>1
  <2>5. Offset(w) = ((v.y + 1) * VGA_WIDTH) + 0
    BY <2>3, Zenon DEF Offset
  <2>6. v.y * VGA_WIDTH \in Nat
    BY <1>1
  <2>7. Offset(w) = Offset(v) + 1
    BY <1>1, <2>1, <2>4, <2>5, <2>6
  <2> QED BY <2>3, <2>7, Zenon DEF Advances
<1>9. CASE ~(v.x + 1 < VGA_WIDTH) /\ ~(v.y + 1 < VGA_HEIGHT)
  <2>1. u.x >= VGA_WIDTH /\ u.y + 1 = VGA_HEIGHT /\ v.x + 1 = VGA_WIDTH /\ v.y = VGA_HEIGHT - 1
    BY <1>1, <1>3, <1>9
  <2>2. /\ w.x = 0 /\ w.y = VGA_HEIGHT - 1 /\ w.rows = Bumped(v.rows)
        /\ \A p \in Cells : p + VGA_WIDTH \in Cells => w.cell[p] = Put(v, c)[p + VGA_WIDTH]
    BY <1>3, <1>6, <2>1, Zenon
  <2>3. (VGA_HEIGHT - 1) * VGA_WIDTH = (VGA_WIDTH * VGA_HEIGHT) - VGA_WIDTH /\ VGA_WIDTH * VGA_HEIGHT \in Nat
    BY <1>1
  <2>4. Offset(w) = ((VGA_HEIGHT - 1) * VGA_WIDTH) + 0
    BY <2>2, Zenon DEF Offset
  <2>5. Offset(v) = ((VGA_HEIGHT - 1) * VGA_WIDTH) + v.x
    BY <1>1, <2>1, Zenon
  <2>6. Offset(v) + 1 = VGA_WIDTH * VGA_HEIGHT /\ Offset(w) = Offset(v) + 1 - VGA_WIDTH
    BY <1>1, <2>1, <2>3, <2>4, <2>5
  <2> QED BY <2>2, <2>6, Zenon DEF Scrolls
<1> QED BY <1>7, <1>8, <1>9, Zenon

\* A backspace: the cursor goes back a place, not over the left edge, and
\* the place it is at then is blank.
LEMMA BackspaceWritten ==
  ASSUME NEW v \in Screen
  PROVE  LET w == vga_write_char(v, Bs)
         IN /\ Offset(w) = (IF v.x = 0 THEN Offset(v) ELSE Offset(v) - 1)
            /\ w.rows = v.rows
            /\ \A p \in Cells : p # Offset(w) => w.cell[p] = v.cell[p]
<1> DEFINE x == IF v.x > 0 THEN v.x - 1 ELSE v.x
           a == [v EXCEPT !.x = x]
           u == [a EXCEPT !.cell[Offset(a)] = Space]
           w == vga_write_char(v, Bs)
<1>1. /\ v.x \in 0 .. VGA_WIDTH - 1 /\ v.y \in 0 .. VGA_HEIGHT - 1
      /\ v.cell \in [Cells -> Chars] /\ Offset(v) = (v.y * VGA_WIDTH) + v.x
      /\ VGA_WIDTH \in Nat \ {0} /\ VGA_HEIGHT \in Nat \ {0} /\ Bs \in Chars
  BY ScreenFields, Sizes, TerminalAssumption
<1>2. Placed(v, Bs) = u
  BY DEF Placed, Nl, Tab, Bs
<1>3. x \in 0 .. VGA_WIDTH - 1 /\ x = (IF v.x = 0 THEN v.x ELSE v.x - 1)
  BY <1>1
<1> HIDE DEF x
<1>4. a.x = x /\ a.y = v.y /\ a.cell = v.cell /\ a.rows = v.rows
  BY Zenon DEF Screen
<1>5. u.x = x /\ u.y = v.y /\ u.cell = [v.cell EXCEPT ![Offset(a)] = Space] /\ u.rows = v.rows
  BY <1>4, Zenon DEF Screen
<1>6. w = Finished(u)
  BY <1>2, Zenon DEF vga_write_char, Finished
<1>7. u \in Unwrapped /\ (u.y = VGA_HEIGHT => u.x = 0)
  BY <1>1, <1>2, PlacedUnwrapped, Zenon
<1> HIDE DEF u, w
<1>8. u.x < VGA_WIDTH /\ u.y < VGA_HEIGHT
  BY <1>1, <1>3, <1>5
<1>9. w = u
  BY <1>6, <1>7, <1>8, Finish, Zenon
<1> HIDE DEF a
<1>10. Offset(w) = (v.y * VGA_WIDTH) + x /\ Offset(w) = Offset(a)
  BY <1>4, <1>5, <1>9, Zenon DEF Offset
<1>11. v.y * VGA_WIDTH \in Nat
  BY <1>1
<1>12. Offset(w) = (IF v.x = 0 THEN Offset(v) ELSE Offset(v) - 1)
  BY <1>1, <1>3, <1>10, <1>11
<1>13. \A p \in Cells : p # Offset(w) => w.cell[p] = v.cell[p]
  BY <1>1, <1>5, <1>9, <1>10, Zenon
<1>14. w.rows = v.rows
  BY <1>5, <1>9, Zenon
<1> QED BY <1>12, <1>13, <1>14 DEF w

-----------------------------------------------------------------------------
(* Strings on the screen.                                                  *)

\* The screens of the loop of vga_write_string, given those before them.
Screens(f, v, s) == [k \in 0 .. Len(s) |-> IF k = 0 THEN v ELSE vga_write_char(f[k - 1], s[k])]

\* vga_write_string leaves the last of the screens its loop goes through.
LEMMA StringRuns ==
  ASSUME NEW v \in Screen, NEW s \in Seq(Chars)
  PROVE  \E f \in [0 .. Len(s) -> Screen] :
           /\ f[0] = v /\ vga_write_string(v, s) = f[Len(s)]
           /\ \A k \in 1 .. Len(s) : f[k] = vga_write_char(f[k - 1], s[k])
<1> DEFINE n == Len(s)
           g == [k \in 1 .. n |-> [u \in Screen |-> vga_write_char(u, s[k])]]
           h == CHOOSE f : f = Screens(f, v, s)
<1>1. n \in Nat /\ \A k \in 1 .. n : s[k] \in Chars
  OBVIOUS
<1>2. g \in [1 .. n -> [Screen -> Screen]]
  BY <1>1, CharScreen
<1>3. ASSUME NEW k \in 1 .. n, NEW u \in Screen PROVE g[k][u] = vga_write_char(u, s[k])
  OBVIOUS
<1> HIDE DEF g
<1>4. PICK f \in [0 .. n -> Screen] : f = Turns(f, g, v, n)
  <2>1. \E f \in [0 .. n -> Screen] : f = Turns(f, g, v, n)
    <3> HIDE DEF n
    <3>1. n \in Nat /\ v \in Screen
      BY <1>1
    <3> QED BY <1>2, <3>1, LoopRuns
  <2> QED BY <2>1
<1>5. f = Screens(f, v, s)
  <2>1. ASSUME NEW k \in 0 .. n PROVE f[k] = Screens(f, v, s)[k]
    <3>1. CASE k = 0
      BY <1>4, <3>1 DEF Turns, Screens
    <3>2. CASE k # 0
      <4>1. k \in 1 .. n /\ k - 1 \in 0 .. n
        BY <1>1, <3>2
      <4>2. f[k - 1] \in Screen
        BY <1>4, <4>1, Zenon
      <4>3. f[k] = g[k][f[k - 1]]
        BY <1>4, <3>2 DEF Turns
      <4>4. f[k] = vga_write_char(f[k - 1], s[k])
        BY <1>3, <4>1, <4>2, <4>3, Zenon
      <4> QED BY <3>2, <4>4 DEF Screens
    <3> QED BY <3>1, <3>2
  <2> QED BY <1>4, <2>1 DEF Screens
<1>6. h = Screens(h, v, s)
  BY <1>5, Zenon
<1>7. vga_write_string(v, s) = h[n]
  BY Zenon DEF vga_write_string, Screens
<1> HIDE DEF h
<1>8. h[0] = v /\ \A k \in 1 .. n : h[k] = vga_write_char(h[k - 1], s[k])
  BY <1>1, <1>6 DEF Screens
<1>9. \A k \in 0 .. n : h[k] \in Screen
  <2> DEFINE T == {k \in 0 .. n : h[k] \in Screen}
  <2>1. 0 \in T
    BY <1>1, <1>8
  <2>2. ASSUME NEW k \in 1 .. n, k - 1 \in T PROVE k \in T
    <3>1. h[k - 1] \in Screen /\ k \in 0 .. n /\ s[k] \in Chars
      BY <1>1, <2>2
    <3>2. h[k] \in Screen
      BY <1>8, <3>1, CharScreen, Zenon
    <3> QED BY <3>1, <3>2
  <2>3. \A k \in 0 .. n : k \in T
    <3> HIDE DEF T, n
    <3> QED BY <1>1, <2>1, <2>2, LoopInduction, Zenon
  <2> QED BY <2>3
<1>10. h \in [0 .. n -> Screen]
  BY <1>6, <1>9 DEF Screens
<1> QED BY <1>7, <1>8, <1>10, Zenon

\* Every string leaves the cursor on the screen.
LEMMA StringScreen ==
  ASSUME NEW v \in Screen, NEW s \in Seq(Chars)
  PROVE  vga_write_string(v, s) \in Screen
<1>1. PICK f \in [0 .. Len(s) -> Screen] : vga_write_string(v, s) = f[Len(s)]
  BY StringRuns, Zenon
<1>2. Len(s) \in 0 .. Len(s)
  OBVIOUS
<1> QED BY <1>1, <1>2, Zenon

\* The text s stands in the cells from b on, as far as they are on the screen.
Shows(v, b, s, n) == \A j \in 1 .. n : b + j - 1 >= 0 => v.cell[b + j - 1] = s[j]

\* A character shown behind a text leaves the text, which may move up a row.
LEMMA GlyphKeeps ==
  ASSUME NEW v \in Screen, NEW w \in Screen, NEW c \in Chars,
         NEW b \in Int, NEW n \in Nat, NEW s, b + n <= Offset(v), Shows(v, b, s, n)
  PROVE  /\ Advances(w, v, c) => Shows(w, b, s, n)
         /\ Scrolls(w, v, c) => Shows(w, b - VGA_WIDTH, s, n)
<1>1. Offset(v) \in Cells /\ VGA_WIDTH \in Nat /\ v.cell \in [Cells -> Chars]
  BY ScreenFields, Sizes
<1>2. Cells = 0 .. VGA_WIDTH * VGA_HEIGHT - 1 /\ VGA_WIDTH * VGA_HEIGHT \in Nat
  BY Sizes DEF Cells
<1>3. ASSUME NEW j \in 1 .. n, b + j - 1 >= 0
      PROVE  b + j - 1 \in Cells /\ b + j - 1 # Offset(v) /\ Put(v, c)[b + j - 1] = s[j]
  <2>1. b + j - 1 \in Cells /\ b + j - 1 # Offset(v)
    BY <1>1, <1>2, <1>3
  <2>2. v.cell[b + j - 1] = s[j]
    BY <1>3 DEF Shows
  <2> QED BY <1>1, <2>1, <2>2, Zenon DEF Put
<1>4. ASSUME Advances(w, v, c) PROVE Shows(w, b, s, n)
  BY <1>3, <1>4, Zenon DEF Shows, Advances
<1>5. ASSUME Scrolls(w, v, c) PROVE Shows(w, b - VGA_WIDTH, s, n)
  <2> SUFFICES ASSUME NEW j \in 1 .. n, b - VGA_WIDTH + j - 1 >= 0
               PROVE  w.cell[b - VGA_WIDTH + j - 1] = s[j]
    BY DEF Shows
  <2> DEFINE p == b - VGA_WIDTH + j - 1
  <2>1. p + VGA_WIDTH = b + j - 1 /\ b + j - 1 >= 0
    BY <1>1
  <2>2. b + j - 1 \in Cells /\ Put(v, c)[b + j - 1] = s[j]
    BY <1>3, <2>1
  <2>3. p \in Cells
    BY <1>1, <1>2, <2>2
  <2>4. w.cell[p] = Put(v, c)[p + VGA_WIDTH]
    <3> HIDE DEF p
    <3> QED BY <1>5, <2>1, <2>2, <2>3, Zenon DEF Scrolls
  <2> QED BY <2>1, <2>2, <2>4, Zenon
<1> QED BY <1>4, <1>5

\* The cursor is behind a text without control characters that
\* vga_write_string has written, as far as it has not scrolled away.
LEMMA TextWritten ==
  ASSUME NEW v \in Screen, NEW s \in Seq(Chars), \A k \in 1 .. Len(s) : s[k] \notin {Nl, Bs, Tab}
  PROVE  LET w == vga_write_string(v, s) IN Shows(w, Offset(w) - Len(s), s, Len(s))
<1>1. PICK f \in [0 .. Len(s) -> Screen] :
        /\ f[0] = v /\ vga_write_string(v, s) = f[Len(s)]
        /\ \A k \in 1 .. Len(s) : f[k] = vga_write_char(f[k - 1], s[k])
  BY StringRuns, Zenon
<1>2. Len(s) \in Nat /\ \A k \in 1 .. Len(s) : s[k] \in Chars
  OBVIOUS
<1> DEFINE T == {k \in 0 .. Len(s) : Shows(f[k], Offset(f[k]) - k, s, k)}
<1>3. 0 \in T
  BY <1>2 DEF Shows
<1>4. ASSUME NEW k \in 1 .. Len(s), k - 1 \in T PROVE k \in T
  <2> DEFINE u == f[k - 1]
             w == f[k]
             b == Offset(u) - (k - 1)
  <2>1. /\ u \in Screen /\ w \in Screen /\ s[k] \in Chars /\ k - 1 \in Nat /\ k \in Nat /\ k \in 0 .. Len(s)
        /\ Shows(u, b, s, k - 1)
    BY <1>1, <1>2, <1>4
  <2>2. w = vga_write_char(u, s[k])
    BY <1>1, <1>4, Zenon
  <2>3. Advances(w, u, s[k]) \/ Scrolls(w, u, s[k])
    <3> HIDE DEF u, w
    <3> QED BY <1>4, <2>1, <2>2, GlyphWritten, Zenon
  <2>4. Offset(u) \in Int /\ Offset(w) \in Int /\ b \in Int /\ b + (k - 1) <= Offset(u) /\ VGA_WIDTH \in Nat
        /\ Offset(u) \in Cells
    <3>1. Offset(u) \in Cells /\ Offset(w) \in Cells
      BY <2>1, ScreenFields, Zenon
    <3> HIDE DEF u, w
    <3> QED BY <2>1, <3>1, Sizes DEF Cells
  <2>5. u.cell \in [Cells -> Chars] /\ Put(u, s[k])[Offset(u)] = s[k]
    <3> HIDE DEF u, w
    <3>1. u.cell \in [Cells -> Chars]
      BY <2>1, ScreenFields, Zenon
    <3> QED BY <2>4, <3>1, Zenon DEF Put
  <2> HIDE DEF u, w, b
  <2>6. CASE Advances(w, u, s[k])
    <3>1. Shows(w, b, s, k - 1)
      BY <2>1, <2>4, <2>6, GlyphKeeps
    <3>2. Offset(w) - k = b /\ w.cell[b + k - 1] = s[k]
      <4>1. Offset(w) - k = b /\ b + k - 1 = Offset(u)
        BY <2>1, <2>4, <2>6 DEF Advances, b
      <4> QED BY <2>5, <2>6, <4>1, Zenon DEF Advances
    <3>3. Shows(w, b, s, k)
      <4>1. ASSUME NEW j \in 1 .. k, b + j - 1 >= 0 PROVE w.cell[b + j - 1] = s[j]
        <5>1. j = k \/ j \in 1 .. k - 1
          BY <2>1
        <5> QED BY <3>1, <3>2, <4>1, <5>1, Zenon DEF Shows
      <4> QED BY <4>1, Zenon DEF Shows
    <3> QED BY <2>1, <3>2, <3>3, Zenon DEF w
  <2>7. CASE Scrolls(w, u, s[k])
    <3>1. Shows(w, b - VGA_WIDTH, s, k - 1)
      BY <2>1, <2>4, <2>7, GlyphKeeps
    <3> DEFINE p == b - VGA_WIDTH + k - 1
    <3>2. Offset(w) - k = b - VGA_WIDTH /\ p + VGA_WIDTH = Offset(u)
      <4>1. Offset(w) = Offset(u) + 1 - VGA_WIDTH
        BY <2>7, Zenon DEF Scrolls
      <4>2. VGA_WIDTH \in Nat
        BY Sizes
      <4> QED BY <2>1, <2>4, <4>1, <4>2 DEF b
    <3>3. ASSUME p >= 0 PROVE w.cell[p] = s[k]
      <4>1. p \in Cells
        BY <2>1, <2>4, <3>2, <3>3, Sizes DEF Cells
      <4>2. w.cell[p] = Put(u, s[k])[p + VGA_WIDTH]
        <5> HIDE DEF p
        <5> QED BY <2>4, <2>7, <3>2, <4>1, Zenon DEF Scrolls
      <4> QED BY <2>5, <3>2, <4>2, Zenon
    <3>4. Shows(w, b - VGA_WIDTH, s, k)
      <4>1. ASSUME NEW j \in 1 .. k, b - VGA_WIDTH + j - 1 >= 0 PROVE w.cell[b - VGA_WIDTH + j - 1] = s[j]
        <5>1. j = k \/ j \in 1 .. k - 1
          BY <2>1
        <5> QED BY <3>1, <3>3, <4>1, <5>1, Zenon DEF Shows
      <4> QED BY <4>1, Zenon DEF Shows
    <3> QED BY <2>1, <3>2, <3>4, Zenon DEF w
  <2> QED BY <2>3, <2>6, <2>7, Zenon
<1>5. \A k \in 0 .. Len(s) : k \in T
  <2> HIDE DEF T
  <2> QED BY <1>2, <1>3, <1>4, LoopInduction, Zenon
<1> QED BY <1>1, <1>2, <1>5

-----------------------------------------------------------------------------
(* Splitting a line.                                                       *)

\* The states of the loop of parse_command on a line.
Stretches(line) == UNION {{SubSeq(line, i, j) : j \in Int} : i \in Nat}
Parses(line) == [argv : Seq(Stretches(line)), start : Nat, token : Nat]

\* The states of the loop, given those before them.
Parsing(f, line) ==
  [k \in 0 .. Len(line) |->
     IF k = 0 THEN [argv |-> <<>>, start |-> 1, token |-> 1] ELSE ParseStep(f[k - 1], line, line[k])]

\* What SubSeq cuts out of a line is a stretch of it.
LEMMA StretchOf ==
  ASSUME NEW line, NEW i \in Nat, NEW j \in Int
  PROVE  SubSeq(line, i, j) \in Stretches(line)
<1> DEFINE F(x, y) == SubSeq(line, x, y)
<1> HIDE DEF F
<1>1. F(i, j) \in {F(i, y) : y \in Int}
  OBVIOUS
<1>2. F(i, j) \in UNION {{F(x, y) : y \in Int} : x \in Nat}
  BY <1>1
<1> QED BY <1>2, Zenon DEF Stretches, F

\* Storing an argument keeps argv a sequence of stretches of the line.
LEMMA ArgumentType ==
  ASSUME NEW line, NEW s \in Parses(line)
  PROVE  Argument(s, line) \in Seq(Stretches(line))
<1>1. s.argv \in Seq(Stretches(line)) /\ s.start \in Nat /\ s.token - 1 \in Int
  BY DEF Parses
<1>2. SubSeq(line, s.start, s.token - 1) \in Stretches(line)
  BY <1>1, StretchOf, Zenon
<1> HIDE DEF Stretches
<1>3. Append(s.argv, SubSeq(line, s.start, s.token - 1)) \in Seq(Stretches(line))
  <2> DEFINE e == SubSeq(line, s.start, s.token - 1)
             V == Stretches(line)
             t == s.argv
  <2>1. t \in Seq(V) /\ e \in V
    BY <1>1, <1>2
  <2> HIDE DEF e, V, t
  <2>2. Append(t, e) \in Seq(V)
    BY <2>1
  <2> QED BY <2>2 DEF e, V, t
<1> QED BY <1>1, <1>3, Zenon DEF Argument

\* A turn of the loop.
LEMMA ParseStepType ==
  ASSUME NEW line, NEW s \in Parses(line), NEW c
  PROVE  ParseStep(s, line, c) \in Parses(line)
<1>1. s.token + 1 \in Nat /\ s.start \in Nat
  BY DEF Parses
<1>2. Argument(s, line) \in Seq(Stretches(line))
  BY ArgumentType
<1>3. CASE ~ArgsLeft(s)
  BY <1>3, Zenon DEF ParseStep
<1>4. CASE ArgsLeft(s) /\ isspace(c)
  <2>1. ParseStep(s, line, c) = [argv |-> Argument(s, line), start |-> s.token + 1, token |-> s.token + 1]
    BY <1>4, Zenon DEF ParseStep
  <2> QED BY <1>1, <1>2, <2>1 DEF Parses
<1>5. CASE ArgsLeft(s) /\ ~isspace(c)
  <2>1. ParseStep(s, line, c) = [s EXCEPT !.token = s.token + 1]
    BY <1>5 DEF ParseStep
  <2> QED BY <1>1, <2>1, Zenon DEF Parses
<1> QED BY <1>3, <1>4, <1>5, Zenon

\* parse_command stores the last argument after its loop.
LEMMA ParseRuns ==
  ASSUME NEW line \in Seq(Chars)
  PROVE  \E f \in [0 .. Len(line) -> Parses(line)] :
           /\ f[0] = [argv |-> <<>>, start |-> 1, token |-> 1]
           /\ parse_command(line) = Argument(f[Len(line)], line)
           /\ \A k \in 1 .. Len(line) : f[k] = ParseStep(f[k - 1], line, line[k])
<1> DEFINE n == Len(line)
           S == Parses(line)
           a == [argv |-> <<>>, start |-> 1, token |-> 1]
           g == [k \in 1 .. n |-> [u \in S |-> ParseStep(u, line, line[k])]]
           h == CHOOSE f : f = Parsing(f, line)
<1>1. n \in Nat
  OBVIOUS
<1>2. a \in S
  <2>1. <<>> \in Seq(Stretches(line)) /\ 1 \in Nat
    <3> HIDE DEF Stretches
    <3> QED OBVIOUS
  <2> QED BY <2>1, Zenon DEF Parses
<1> HIDE DEF S
<1>3. \A k \in 1 .. n : \A u \in S : ParseStep(u, line, line[k]) \in S
  BY ParseStepType, Zenon DEF S
<1>4. g \in [1 .. n -> [S -> S]]
  BY <1>1, <1>3
<1>5. ASSUME NEW k \in 1 .. n, NEW u \in S PROVE g[k][u] = ParseStep(u, line, line[k])
  OBVIOUS
<1> HIDE DEF g
<1>6. PICK f \in [0 .. n -> S] : f = Turns(f, g, a, n)
  <2>1. \E f \in [0 .. n -> S] : f = Turns(f, g, a, n)
    <3> HIDE DEF n, a
    <3>1. n \in Nat /\ a \in S
      BY <1>1, <1>2
    <3> QED BY <1>4, <3>1, LoopRuns
  <2> QED BY <2>1
<1>7. f = Parsing(f, line)
  <2> HIDE DEF a
  <2>1. ASSUME NEW k \in 0 .. n PROVE f[k] = Parsing(f, line)[k]
    <3>1. CASE k = 0
      BY <1>6, <3>1 DEF Turns, Parsing, a
    <3>2. CASE k # 0
      <4>1. k \in 1 .. n /\ k - 1 \in 0 .. n
        BY <1>1, <3>2
      <4>2. f[k - 1] \in S
        BY <1>6, <4>1, Zenon
      <4>3. f[k] = g[k][f[k - 1]]
        BY <1>6, <3>2 DEF Turns
      <4>4. f[k] = ParseStep(f[k - 1], line, line[k])
        BY <1>5, <4>1, <4>2, <4>3, Zenon
      <4> QED BY <3>2, <4>4 DEF Parsing
    <3> QED BY <3>1, <3>2
  <2> QED BY <1>6, <2>1 DEF Parsing
<1>8. h = Parsing(h, line)
  BY <1>7, Zenon
<1>9. parse_command(line) = Argument(h[n], line)
  BY Zenon DEF parse_command, Parsing
<1> HIDE DEF h
<1>10. h[0] = a /\ \A k \in 1 .. n : h[k] = ParseStep(h[k - 1], line, line[k])
  BY <1>1, <1>8 DEF Parsing
<1>11. \A k \in 0 .. n : h[k] \in S
  <2> DEFINE T == {k \in 0 .. n : h[k] \in S}
  <2> HIDE DEF a
  <2>1. 0 \in T
    BY <1>1, <1>2, <1>10
  <2>2. ASSUME NEW k \in 1 .. n, k - 1 \in T PROVE k \in T
    <3>1. h[k - 1] \in S /\ k \in 0 .. n
      BY <1>1, <2>2
    <3>2. h[k] \in S
      BY <1>3, <1>10, <3>1, Zenon
    <3> QED BY <3>1, <3>2
  <2>3. \A k \in 0 .. n : k \in T
    <3> HIDE DEF T, n
    <3> QED BY <1>1, <2>1, <2>2, LoopInduction
  <2> QED BY <2>3
<1>12. h \in [0 .. n -> S]
  BY <1>8, <1>11 DEF Parsing
<1> QED BY <1>9, <1>10, <1>12, Zenon DEF S

\* What makes a pair the place of a word.
LEMMA SpanFacts ==
  ASSUME NEW line \in Seq(Chars), NEW w \in Spans(line)
  PROVE  /\ w[1] \in 1 .. Len(line) /\ w[2] \in 1 .. Len(line) /\ w = <<w[1], w[2]>>
         /\ w[1] <= w[2] /\ \A k \in w[1] .. w[2] : ~isspace(line[k])
         /\ w[1] = 1 \/ isspace(line[w[1] - 1])
         /\ w[2] = Len(line) \/ isspace(line[w[2] + 1])
  BY DEF Spans, IsWord

\* A stretch of a line from a up to b, without spaces and after one or at
\* the start.
Stretch(line, a, b) ==
  /\ a \in 1 .. b /\ b \in 1 .. Len(line) + 1
  /\ a = 1 \/ isspace(line[a - 1])
  /\ \A k \in a .. b - 1 : ~isspace(line[k])

\* The line has a space at b, or ends before it.
Ends(line, b) == b = Len(line) + 1 \/ isspace(line[b])

\* A stretch that ends is a word, and no other word begins in it.
LEMMA StretchIsWord ==
  ASSUME NEW line \in Seq(Chars), NEW a, NEW b, Stretch(line, a, b), Ends(line, b)
  PROVE  /\ a < b => <<a, b - 1>> \in Spans(line)
         /\ \A w \in Spans(line) : w[1] \in a .. b - 1 => w = <<a, b - 1>>
<1>1. a \in Nat /\ b \in Nat /\ 1 <= a /\ a <= b /\ b <= Len(line) + 1 /\ Len(line) \in Nat
  BY DEF Stretch
<1>2. ASSUME a < b PROVE <<a, b - 1>> \in Spans(line)
  <2>1. a \in 1 .. Len(line) /\ b - 1 \in 1 .. Len(line) /\ b - 1 + 1 = b /\ a <= b - 1
    BY <1>1, <1>2
  <2>2. b - 1 = Len(line) \/ isspace(line[b - 1 + 1])
    BY <1>1 DEF Ends
  <2>3. IsWord(line, a, b - 1)
    BY <2>1, <2>2, Zenon DEF IsWord, Stretch
  <2>4. <<a, b - 1>> \in (1 .. Len(line)) \X (1 .. Len(line))
    BY <2>1
  <2> DEFINE w == <<a, b - 1>>
  <2>5. w[1] = a /\ w[2] = b - 1
    OBVIOUS
  <2> HIDE DEF w
  <2>6. IsWord(line, w[1], w[2])
    BY <2>3, <2>5, Zenon
  <2>7. w \in (1 .. Len(line)) \X (1 .. Len(line))
    BY <2>4 DEF w
  <2>8. w \in Spans(line)
    BY <2>6, <2>7, Zenon DEF Spans
  <2> QED BY <2>8 DEF w
<1>3. ASSUME NEW w \in Spans(line), w[1] \in a .. b - 1 PROVE w = <<a, b - 1>>
  <2>1. /\ w[1] \in 1 .. Len(line) /\ w[2] \in 1 .. Len(line) /\ w = <<w[1], w[2]>>
        /\ w[1] <= w[2] /\ \A k \in w[1] .. w[2] : ~isspace(line[k])
        /\ w[1] = 1 \/ isspace(line[w[1] - 1])
        /\ w[2] = Len(line) \/ isspace(line[w[2] + 1])
    BY SpanFacts
  <2>2. w[1] = a
    <3>1. ASSUME w[1] # a PROVE FALSE
      <4>1. w[1] - 1 \in a .. b - 1 /\ w[1] # 1
        BY <1>1, <1>3, <2>1, <3>1
      <4> QED BY <2>1, <4>1 DEF Stretch
    <3> QED BY <3>1
  <2>3. w[2] = b - 1
    <3>1. ASSUME w[2] < b - 1 PROVE FALSE
      <4>1. w[2] + 1 \in a .. b - 1 /\ w[2] # Len(line)
        BY <1>1, <1>3, <2>1, <3>1
      <4> QED BY <2>1, <4>1 DEF Stretch
    <3>2. ASSUME w[2] > b - 1 PROVE FALSE
      <4>1. b \in w[1] .. w[2] /\ b # Len(line) + 1
        BY <1>1, <1>3, <2>1, <3>2
      <4> QED BY <2>1, <4>1 DEF Ends
    <3>3. w[2] \in Int /\ b \in Int
      BY <1>1, <2>1
    <3> QED BY <3>1, <3>2, <3>3
  <2> QED BY <2>1, <2>2, <2>3, Zenon
<1> QED BY <1>2, <1>3, Zenon

\* args are the words of a line that begin before a, and they end there.
At(at, args, line, a) ==
  /\ at \in [1 .. Len(args) -> Spans(line)]
  /\ \A k \in 1 .. Len(args) : args[k] = SubSeq(line, at[k][1], at[k][2])
  /\ \A k \in 2 .. Len(args) : at[k - 1][2] < at[k][1]
  /\ \A k \in 1 .. Len(args) : at[k][2] < a
  /\ \A w \in Spans(line) : w[1] < a => \E k \in 1 .. Len(args) : at[k] = w
Found(args, line, a) == \E at : At(at, args, line, a)

\* No word begins at a space, or ends there.
LEMMA FoundSkip ==
  ASSUME NEW line \in Seq(Chars), NEW args, NEW a \in 1 .. Len(line), isspace(line[a]),
         Found(args, line, a)
  PROVE  Found(args, line, a + 1)
<1>1. PICK at : At(at, args, line, a)
  BY DEF Found
<1>2. ASSUME NEW w \in Spans(line), w[1] < a + 1 PROVE w[1] < a
  <2>1. w[1] \in w[1] .. w[2] /\ w[1] \in Nat /\ ~isspace(line[w[1]])
    BY SpanFacts
  <2> QED BY <1>2, <2>1
<1>3. ASSUME NEW k \in 1 .. Len(args) PROVE at[k][2] < a + 1
  <2>1. at[k] \in Spans(line) /\ at[k][2] < a
    BY <1>1, Zenon DEF At
  <2>2. at[k][2] \in Nat
    BY <2>1, SpanFacts
  <2> QED BY <2>1, <2>2
<1>4. At(at, args, line, a + 1)
  BY <1>1, <1>2, <1>3, Zenon DEF At
<1> QED BY <1>4, Zenon DEF Found

\* A word is stored behind those found before.
LEMMA FoundAppend ==
  ASSUME NEW line \in Seq(Chars), NEW V, NEW args \in Seq(V), NEW a, NEW b,
         Stretch(line, a, b), Ends(line, b), a < b, Found(args, line, a),
         NEW e, e = Append(args, SubSeq(line, a, b - 1))
  PROVE  Found(e, line, b)
<1>1. PICK at : At(at, args, line, a)
  BY DEF Found
<1>2. a \in Nat /\ b \in Nat /\ 1 <= a /\ a <= b /\ b <= Len(line) + 1 /\ Len(line) \in Nat
  BY DEF Stretch
<1> DEFINE n == Len(args)
           s == <<a, b - 1>>
           x == SubSeq(line, a, b - 1)
<1>3. s \in Spans(line) /\ \A w \in Spans(line) : w[1] \in a .. b - 1 => w = s
  BY StretchIsWord, Zenon
<1>4. s[1] = a /\ s[2] = b - 1
  OBVIOUS
<1>5. n \in Nat /\ Len(e) = n + 1
  <2> HIDE DEF s
  <2> QED OBVIOUS
<1>6. e[n + 1] = SubSeq(line, s[1], s[2]) /\ \A k \in 1 .. n : e[k] = args[k]
  <2> HIDE DEF s
  <2>1. e[n + 1] = x /\ \A k \in 1 .. n : e[k] = args[k]
    <3>1. e = Append(args, x)
      OBVIOUS
    <3> HIDE DEF x
    <3> QED BY <3>1
  <2> QED BY <1>4, <2>1, Zenon
<1> HIDE DEF s
<1> DEFINE nu == [k \in 1 .. n + 1 |-> IF k = n + 1 THEN s ELSE at[k]]
<1>7. /\ nu[n + 1] = s /\ \A k \in 1 .. n : nu[k] = at[k]
      /\ nu \in [1 .. n + 1 -> Spans(line)]
  <2>1. at \in [1 .. n -> Spans(line)]
    BY <1>1 DEF At
  <2>2. n + 1 \in 1 .. n + 1 /\ (\A k \in 1 .. n : k # n + 1 /\ k \in 1 .. n + 1)
        /\ (\A k \in 1 .. n + 1 : k = n + 1 \/ k \in 1 .. n)
    BY <1>5
  <2> QED BY <1>3, <2>1, <2>2, Zenon
<1> HIDE DEF nu
<1>8. ASSUME NEW k \in 1 .. n PROVE at[k] \in Spans(line) /\ at[k][2] < a /\ at[k][2] \in Nat
  <2>1. at[k] \in Spans(line) /\ at[k][2] < a
    BY <1>1, Zenon DEF At
  <2>2. at[k][2] \in Nat
    BY <2>1, SpanFacts
  <2> QED BY <2>1, <2>2
<1>9. \A k \in 1 .. n + 1 : e[k] = SubSeq(line, nu[k][1], nu[k][2])
  <2>1. ASSUME NEW k \in 1 .. n + 1 PROVE e[k] = SubSeq(line, nu[k][1], nu[k][2])
    <3>1. k = n + 1 \/ k \in 1 .. n
      BY <1>5
    <3> QED BY <1>1, <1>6, <1>7, <3>1, Zenon DEF At
  <2> QED BY <2>1, Zenon
<1>10. \A k \in 2 .. n + 1 : nu[k - 1][2] < nu[k][1]
  <2>1. ASSUME NEW k \in 2 .. n + 1 PROVE nu[k - 1][2] < nu[k][1]
    <3>1. CASE k = n + 1
      <4>1. k - 1 \in 1 .. n
        BY <1>5, <3>1
      <4> QED BY <1>4, <1>7, <1>8, <3>1, <4>1, Zenon
    <3>2. CASE k # n + 1
      <4>1. k - 1 \in 1 .. n /\ k \in 1 .. n /\ k \in 2 .. n
        BY <1>5, <3>2
      <4> QED BY <1>1, <1>7, <4>1, Zenon DEF At
    <3> QED BY <3>1, <3>2
  <2> QED BY <2>1
<1>11. \A k \in 1 .. n + 1 : nu[k][2] < b
  <2>1. ASSUME NEW k \in 1 .. n + 1 PROVE nu[k][2] < b
    <3>1. CASE k = n + 1
      <4>1. b - 1 < b
        BY <1>2
      <4> QED BY <1>4, <1>7, <3>1, <4>1, Zenon
    <3>2. CASE k # n + 1
      <4>1. k \in 1 .. n
        BY <1>5, <3>2
      <4>2. nu[k][2] = at[k][2] /\ at[k][2] < a /\ at[k][2] \in Nat
        BY <1>7, <1>8, <4>1, Zenon
      <4> QED BY <1>2, <4>2
    <3> QED BY <3>1, <3>2
  <2> QED BY <2>1
<1>12. \A w \in Spans(line) : w[1] < b => \E k \in 1 .. n + 1 : nu[k] = w
  <2>1. ASSUME NEW w \in Spans(line), w[1] < b PROVE \E k \in 1 .. n + 1 : nu[k] = w
    <3>1. w[1] \in Nat
      BY SpanFacts
    <3>2. CASE w[1] < a
      <4>1. PICK k \in 1 .. n : at[k] = w
        BY <1>1, <3>2, Zenon DEF At
      <4>2. k \in 1 .. n + 1 /\ nu[k] = w
        BY <1>5, <1>7, <4>1
      <4> QED BY <4>2, Zenon
    <3>3. CASE ~(w[1] < a)
      <4>1. w[1] \in a .. b - 1 /\ n + 1 \in 1 .. n + 1
        BY <1>2, <1>5, <2>1, <3>1, <3>3
      <4> QED BY <1>3, <1>7, <4>1, Zenon
    <3> QED BY <3>2, <3>3
  <2> QED BY <2>1
<1>13. At(nu, e, line, b)
  <2> HIDE DEF n
  <2> QED BY <1>5, <1>7, <1>9, <1>10, <1>11, <1>12, Zenon DEF At
<1> QED BY <1>13, Zenon DEF Found

\* The loop of parse_command after k characters: it has found the words
\* before start, and stands behind the k-th character unless argv is full.
ParseInv(s, line, k) ==
  /\ Len(s.argv) <= MAX_ARGS
  /\ Stretch(line, s.start, s.token)
  /\ Found(s.argv, line, s.start)
  /\ IF Len(s.argv) < MAX_ARGS THEN s.token = k + 1 ELSE s.start = s.token

\* The word before a space, or before the end of the line, is stored.
LEMMA ArgumentFound ==
  ASSUME NEW line \in Seq(Chars), NEW s \in Parses(line), NEW k \in 0 .. Len(line),
         ParseInv(s, line, k), Ends(line, s.token)
  PROVE  /\ Len(Argument(s, line)) <= MAX_ARGS
         /\ Found(Argument(s, line), line, s.token)
<1> DEFINE args == s.argv
           V == Stretches(line)
           x == SubSeq(line, s.start, s.token - 1)
<1>1. args \in Seq(V) /\ s.start \in Nat /\ s.token \in Nat /\ MAX_ARGS \in Nat
  BY TerminalAssumption DEF Parses
<1> HIDE DEF V
<1>2. CASE s.start < s.token
  <2>1. Argument(s, line) = Append(args, x)
    BY <1>2, Zenon DEF Argument
  <2>2. Found(Argument(s, line), line, s.token)
    <3>1. Stretch(line, s.start, s.token) /\ Found(args, line, s.start)
      BY DEF ParseInv
    <3> HIDE DEF args
    <3> QED BY <1>1, <1>2, <2>1, <3>1, FoundAppend, Zenon
  <2>3. Len(args) <= MAX_ARGS /\ Len(args) # MAX_ARGS
    BY <1>1, <1>2 DEF ParseInv
  <2>4. Len(Append(args, x)) <= MAX_ARGS
    <3> HIDE DEF args, x
    <3> QED BY <1>1, <2>3
  <2> QED BY <2>1, <2>2, <2>4, Zenon
<1>3. CASE ~(s.start < s.token)
  <2>1. s.start = s.token
    BY <1>1, <1>3 DEF ParseInv, Stretch
  <2>2. Argument(s, line) = args
    BY <1>3, Zenon DEF Argument
  <2> QED BY <2>1, <2>2, Zenon DEF ParseInv
<1> QED BY <1>2, <1>3

\* A turn of the loop.
LEMMA ParseStepInv ==
  ASSUME NEW line \in Seq(Chars), NEW s \in Parses(line), NEW k \in 1 .. Len(line),
         ParseInv(s, line, k - 1)
  PROVE  ParseInv(ParseStep(s, line, line[k]), line, k)
<1> DEFINE t == ParseStep(s, line, line[k])
<1>1. /\ s.argv \in Seq(Stretches(line)) /\ s.start \in Nat /\ s.token \in Nat /\ Len(line) \in Nat
      /\ k \in Nat /\ k - 1 \in 0 .. Len(line) /\ Len(s.argv) <= MAX_ARGS
      /\ Len(s.argv) \in Nat /\ MAX_ARGS \in Nat /\ Stretch(line, s.start, s.token)
  <2>1. s.argv \in Seq(Stretches(line)) /\ s.start \in Nat /\ s.token \in Nat
    BY DEF Parses
  <2>2. Len(s.argv) \in Nat
    <3> HIDE DEF Stretches
    <3> QED BY <2>1
  <2> QED BY <2>1, <2>2, TerminalAssumption DEF ParseInv
<1>2. CASE ~ArgsLeft(s)
  <2>1. t = s
    BY <1>2, Zenon DEF ParseStep
  <2> QED BY <1>2, <2>1, Zenon DEF ParseInv, ArgsLeft
<1>3. CASE ArgsLeft(s) /\ isspace(line[k])
  <2> DEFINE e == Argument(s, line)
  <2>1. t = [argv |-> e, start |-> s.token + 1, token |-> s.token + 1]
    BY <1>3, Zenon DEF ParseStep
  <2>2. s.token = k
    BY <1>1, <1>3 DEF ParseInv, ArgsLeft
  <2>3. Ends(line, s.token)
    BY <1>3, <2>2, Zenon DEF Ends
  <2>4. Len(e) <= MAX_ARGS /\ Found(e, line, k)
    BY <1>1, <2>2, <2>3, ArgumentFound, Zenon
  <2>5. Found(e, line, k + 1)
    <3> HIDE DEF e
    <3> QED BY <1>3, <2>4, FoundSkip
  <2> HIDE DEF e
  <2>6. t.argv = e /\ t.start = k + 1 /\ t.token = k + 1
    <3> HIDE DEF t
    <3> QED BY <2>1, <2>2
  <2>7. Stretch(line, k + 1, k + 1)
    <3>1. k + 1 \in 1 .. k + 1 /\ k + 1 \in 1 .. Len(line) + 1 /\ k + 1 - 1 = k /\ k + 1 .. k + 1 - 1 = {}
      BY <1>1
    <3> QED BY <1>3, <3>1 DEF Stretch
  <2> HIDE DEF t
  <2> QED BY <2>4, <2>5, <2>6, <2>7, Zenon DEF ParseInv, t
<1>4. CASE ArgsLeft(s) /\ ~isspace(line[k])
  <2>1. t = [s EXCEPT !.token = s.token + 1]
    BY <1>4 DEF ParseStep
  <2>2. s.token = k
    BY <1>1, <1>4 DEF ParseInv, ArgsLeft
  <2>3. t.argv = s.argv /\ t.start = s.start /\ t.token = k + 1
    BY <2>1, <2>2, Zenon DEF Parses
  <2>4. Stretch(line, s.start, k + 1)
    <3>1. s.start \in 1 .. k + 1 /\ k + 1 \in 1 .. Len(line) + 1
      BY <1>1, <2>2 DEF Stretch
    <3>2. ASSUME NEW j \in s.start .. k + 1 - 1 PROVE ~isspace(line[j])
      <4>1. j = k \/ j \in s.start .. s.token - 1
        BY <1>1, <2>2
      <4> QED BY <1>1, <1>4, <4>1, Zenon DEF Stretch
    <3>3. s.start = 1 \/ isspace(line[s.start - 1])
      BY <1>1 DEF Stretch
    <3> QED BY <3>1, <3>2, <3>3 DEF Stretch
  <2> HIDE DEF t
  <2> QED BY <1>4, <2>3, <2>4, Zenon DEF ParseInv, ArgsLeft, t
<1> QED BY <1>2, <1>3, <1>4, Zenon

\* parse_command finds the first words of every line, as many as argv holds.
THEOREM ParseWords ==
  ASSUME NEW line \in Seq(Chars)
  PROVE  /\ parse_command(line) \in Seq(Seq(Chars))
         /\ Len(parse_command(line)) <= MAX_ARGS
         /\ AreFirstWords(parse_command(line), line)
<1> DEFINE n == Len(line)
           args == parse_command(line)
<1>1. PICK f \in [0 .. n -> Parses(line)] :
        /\ f[0] = [argv |-> <<>>, start |-> 1, token |-> 1]
        /\ args = Argument(f[n], line)
        /\ \A k \in 1 .. n : f[k] = ParseStep(f[k - 1], line, line[k])
  BY ParseRuns, Zenon
<1>2. n \in Nat /\ MAX_ARGS \in Nat \ {0}
  BY TerminalAssumption
<1> HIDE DEF args
<1> DEFINE T == {k \in 0 .. n : ParseInv(f[k], line, k)}
<1>3. 0 \in T
  <2> DEFINE s == f[0]
  <2>1. s.argv = <<>> /\ s.start = 1 /\ s.token = 1
    BY <1>1
  <2> HIDE DEF s
  <2>2. Len(s.argv) = 0 /\ 0 <= MAX_ARGS /\ 0 < MAX_ARGS /\ 0 + 1 = 1 /\ 0 \in 0 .. n
    BY <1>2, <2>1
  <2>3. Stretch(line, 1, 1)
    BY <1>2 DEF Stretch
  <2>4. Found(<<>>, line, 1)
    <3> DEFINE at == [k \in 1 .. 0 |-> 0]
    <3>1. \A w \in Spans(line) : ~(w[1] < 1)
      BY SpanFacts
    <3>2. Len(<<>>) = 0 /\ 1 .. 0 = {} /\ 2 .. 0 = {}
      OBVIOUS
    <3>3. at \in [1 .. 0 -> Spans(line)]
      BY <3>2
    <3> HIDE DEF at
    <3>4. At(at, <<>>, line, 1)
      BY <3>1, <3>2, <3>3 DEF At
    <3> QED BY <3>4, Zenon DEF Found
  <2>5. ParseInv(s, line, 0)
    BY <2>1, <2>2, <2>3, <2>4, Zenon DEF ParseInv
  <2> QED BY <2>2, <2>5, Zenon DEF s
<1>4. ASSUME NEW k \in 1 .. n, k - 1 \in T PROVE k \in T
  <2>1. k - 1 \in 0 .. n /\ k \in 0 .. n /\ ParseInv(f[k - 1], line, k - 1)
    BY <1>2, <1>4
  <2>2. f[k - 1] \in Parses(line)
    BY <1>1, <2>1, Zenon
  <2>3. ParseInv(f[k], line, k)
    BY <1>1, <2>1, <2>2, ParseStepInv, Zenon
  <2> QED BY <2>1, <2>3
<1>5. n \in 0 .. n /\ n \in T
  <2>1. \A k \in 0 .. n : k \in T
    <3> HIDE DEF T, n
    <3> QED BY <1>2, <1>3, <1>4, LoopInduction
  <2> QED BY <1>2, <2>1
<1> DEFINE s == f[n]
<1>6. s \in Parses(line) /\ ParseInv(s, line, n) /\ args = Argument(s, line)
  BY <1>1, <1>5
<1> HIDE DEF s, T
<1>7. /\ s.argv \in Seq(Stretches(line)) /\ s.start \in Nat /\ s.token \in Nat
      /\ args \in Seq(Stretches(line))
  BY <1>6, ArgumentType, Zenon DEF Parses
<1>8. /\ Len(args) <= MAX_ARGS
      /\ \/ Found(args, line, n + 1)
         \/ \E a \in Nat : Len(args) = MAX_ARGS /\ Found(args, line, a)
  <2>1. CASE Len(s.argv) < MAX_ARGS
    <3>1. s.token = n + 1
      BY <1>6, <2>1, Zenon DEF ParseInv
    <3>2. Ends(line, s.token)
      BY <3>1, Zenon DEF Ends
    <3> QED BY <1>5, <1>6, <3>1, <3>2, ArgumentFound, Zenon
  <2>2. CASE ~(Len(s.argv) < MAX_ARGS)
    <3>1. s.start = s.token /\ Len(s.argv) <= MAX_ARGS /\ Found(s.argv, line, s.start)
      BY <1>6, <2>2, Zenon DEF ParseInv
    <3>2. ~(s.start < s.token) /\ Len(s.argv) = MAX_ARGS
      <4>1. Len(s.argv) \in Nat
        BY <1>7
      <4> QED BY <1>2, <1>7, <2>2, <3>1, <4>1
    <3>3. args = s.argv
      BY <1>6, <3>2, Zenon DEF Argument
    <3> QED BY <1>7, <3>1, <3>2, <3>3, Zenon
  <2> QED BY <2>1, <2>2
<1>9. PICK a \in Nat : Found(args, line, a) /\ (a = n + 1 \/ Len(args) = MAX_ARGS)
  <2>1. n + 1 \in Nat
    BY <1>2
  <2> QED BY <1>8, <2>1, Zenon
<1>10. PICK at : At(at, args, line, a)
  BY <1>9 DEF Found
<1>11. Len(args) \in Nat
  BY <1>7
<1>12. ASSUME NEW w \in Spans(line)
       PROVE  \/ \E k \in 1 .. Len(args) : at[k] = w
              \/ Len(args) = MAX_ARGS /\ at[MAX_ARGS][2] < w[1]
  <2>1. w[1] \in 1 .. n
    BY SpanFacts
  <2>2. CASE w[1] < a
    BY <1>10, <2>2, Zenon DEF At
  <2>3. CASE ~(w[1] < a)
    <3>1. Len(args) = MAX_ARGS /\ MAX_ARGS \in 1 .. Len(args)
      BY <1>2, <1>9, <2>1, <2>3
    <3>2. at[MAX_ARGS] \in Spans(line) /\ at[MAX_ARGS][2] < a
      BY <1>10, <3>1, Zenon DEF At
    <3>3. at[MAX_ARGS][2] \in Nat
      BY <3>2, SpanFacts
    <3>4. at[MAX_ARGS][2] < w[1]
      BY <2>1, <2>3, <3>2, <3>3
    <3> QED BY <3>1, <3>4
  <2> QED BY <2>2, <2>3
<1>13. AreFirstWords(args, line)
  BY <1>10, <1>12, Zenon DEF AreFirstWords, At
<1>14. args \in Seq(Seq(Chars))
  <2>1. ASSUME NEW k \in 1 .. Len(args) PROVE args[k] \in Seq(Chars)
    <3>1. at[k] \in Spans(line) /\ args[k] = SubSeq(line, at[k][1], at[k][2])
      BY <1>10, Zenon DEF At
    <3>2. at[k][1] \in 1 .. n /\ at[k][2] \in 1 .. n
      BY <3>1, SpanFacts
    <3>3. ASSUME NEW i \in 1 .. n, NEW j \in 1 .. n PROVE SubSeq(line, i, j) \in Seq(Chars)
      BY <1>2
    <3> QED BY <3>1, <3>2, <3>3, Zenon
  <2>2. args = [k \in 1 .. Len(args) |-> args[k]]
    BY <1>7
  <2> DEFINE C == Seq(Chars)
  <2>3. \A k \in 1 .. Len(args) : args[k] \in C
    BY <2>1
  <2> HIDE DEF C
  <2>4. args \in Seq(C)
    BY <1>11, <2>2, <2>3
  <2> QED BY <2>4 DEF C
<1> QED BY <1>8, <1>13, <1>14 DEF args

-----------------------------------------------------------------------------
(* What commands write.                                                    *)

\* The text of echo, given that before each argument.
Echoing(f) ==
  [k \in 0 .. Len(argv) |->
     IF k < 2 THEN <<>> ELSE f[k - 1] \o argv[k] \o (IF k < Len(argv) THEN <<Space>> ELSE <<>>)]

\* The text of echo is a string.
LEMMA EchoedType ==
  ASSUME argv \in Seq(Seq(Chars))
  PROVE  Echoed \in Seq(Chars)
<1> DEFINE n == Len(argv)
           S == Seq(Chars)
           G(k, u) == IF k < 2 THEN <<>> ELSE u \o argv[k] \o (IF k < Len(argv) THEN <<Space>> ELSE <<>>)
           g == [k \in 1 .. n |-> [u \in S |-> G(k, u)]]
           h == CHOOSE f : f = Echoing(f)
<1>1. n \in Nat /\ (\A k \in 1 .. n : argv[k] \in S)
  <2> HIDE DEF S
  <2>1. argv \in Seq(S)
    BY DEF S
  <2> QED BY <2>1
<1>2. <<>> \in S /\ <<Space>> \in S /\ <<Nl>> \in S
  <2>1. Space \in Chars /\ Nl \in Chars
    BY TerminalAssumption
  <2> QED BY <2>1
<1>3. ASSUME NEW u \in S, NEW v \in S PROVE u \o v \in S
  OBVIOUS
<1> HIDE DEF S
<1>4. ASSUME NEW k \in 1 .. n, NEW u \in S PROVE G(k, u) \in S
  <2>1. argv[k] \in S
    BY <1>1
  <2>2. u \o argv[k] \in S
    BY <1>3, <2>1
  <2>3. (IF k < Len(argv) THEN <<Space>> ELSE <<>>) \in S
    BY <1>2, Zenon
  <2>4. u \o argv[k] \o (IF k < Len(argv) THEN <<Space>> ELSE <<>>) \in S
    BY <1>3, <2>2, <2>3, Zenon
  <2> QED BY <1>2, <2>4, Zenon
<1>5. Echoing(h) = [k \in 0 .. n |-> G(k, h[k - 1])]
  BY Zenon DEF Echoing
<1>6. Echoed = h[n] \o <<Nl>>
  BY Zenon DEF Echoed, Echoing
<1> HIDE DEF G
<1>7. g \in [1 .. n -> [S -> S]]
  BY <1>1, <1>4
<1>8. ASSUME NEW k \in 1 .. n, NEW u \in S PROVE g[k][u] = G(k, u)
  OBVIOUS
<1> HIDE DEF g
<1>9. PICK f \in [0 .. n -> S] : f = Turns(f, g, <<>>, n)
  <2>1. \E f \in [0 .. n -> S] : f = Turns(f, g, <<>>, n)
    <3> HIDE DEF n
    <3>1. n \in Nat /\ <<>> \in S
      BY <1>1, <1>2
    <3> QED BY <1>7, <3>1, LoopRuns
  <2> QED BY <2>1
<1>10. f = Echoing(f)
  <2>0. Echoing(f) = [k \in 0 .. n |-> G(k, f[k - 1])]
    BY Zenon DEF Echoing, G
  <2>1. ASSUME NEW k \in 0 .. n PROVE f[k] = G(k, f[k - 1])
    <3>1. CASE k = 0
      <4>1. f[0] = <<>> /\ k < 2
        BY <1>1, <1>9, <3>1 DEF Turns
      <4> QED BY <3>1, <4>1, Zenon DEF G
    <3>2. CASE k # 0
      <4>1. k \in 1 .. n /\ k - 1 \in 0 .. n
        BY <1>1, <3>2
      <4>2. f[k - 1] \in S
        BY <1>9, <4>1, Zenon
      <4>3. f[k] = g[k][f[k - 1]]
        BY <1>9, <3>2, Zenon DEF Turns
      <4> QED BY <1>8, <4>1, <4>2, <4>3, Zenon
    <3> QED BY <3>1, <3>2
  <2>2. f = [k \in 0 .. n |-> f[k]]
    BY <1>9
  <2> QED BY <2>0, <2>1, <2>2
<1>11. h = Echoing(h)
  BY <1>10, Zenon
<1> HIDE DEF h
<1>12. \A k \in 0 .. n : h[k] = G(k, h[k - 1])
  BY <1>5, <1>11
<1>13. \A k \in 0 .. n : h[k] \in S
  <2> DEFINE T == {k \in 0 .. n : h[k] \in S}
  <2>1. 0 \in T
    <3>1. 0 \in 0 .. n /\ 0 < 2
      BY <1>1
    <3>2. h[0] = <<>>
      BY <1>12, <3>1, Zenon DEF G
    <3> QED BY <1>2, <3>1, <3>2
  <2>2. ASSUME NEW k \in 1 .. n, k - 1 \in T PROVE k \in T
    <3>1. h[k - 1] \in S /\ k \in 0 .. n
      BY <1>1, <2>2
    <3>2. h[k] \in S
      BY <1>4, <1>12, <3>1, Zenon
    <3> QED BY <3>1, <3>2
  <2>3. \A k \in 0 .. n : k \in T
    <3> HIDE DEF T, n
    <3> QED BY <1>1, <2>1, <2>2, LoopInduction, Zenon
  <2> QED BY <2>3
<1>14. h[n] \in S
  BY <1>1, <1>13
<1>15. Echoed \in S
  BY <1>2, <1>3, <1>6, <1>14, Zenon
<1> QED BY <1>15 DEF S

\* A cleared screen, and a screen with the cursor elsewhere, are screens.
LEMMA ClearScreen ==
  ASSUME NEW v \in Screen
  PROVE  vga_clear_screen(v) \in Screen
<1>1. v.rows \in 0 .. RowsBound /\ 0 \in 0 .. VGA_WIDTH - 1 /\ 0 \in 0 .. VGA_HEIGHT - 1 /\ Space \in Chars
  BY ScreenFields, Sizes, TerminalAssumption
<1>2. [p \in Cells |-> Space] \in [Cells -> Chars]
  BY <1>1
<1> QED BY <1>1, <1>2, Zenon DEF Screen, vga_clear_screen

\* A place off the screen is ignored.
LEMMA PositionScreen ==
  ASSUME NEW v \in Screen, NEW row, NEW col
  PROVE  vga_set_position(v, row, col) \in Screen
  BY Zenon DEF Screen, vga_set_position

\* Drawing the frame leaves a screen.
LEMMA FrameScreen ==
  ASSUME NEW v \in Screen, NEW lines \in Nat
  PROVE  ui_draw_footer(ui_print_content(ui_update_header(ui_enable(v)), lines)) \in Screen
<1>1. /\ PromptText \in Seq(Chars) /\ UiTitle \in Seq(Chars) /\ UiStatus \in Seq(Chars)
      /\ UiContent \in Seq(Chars) /\ Space \in Chars /\ VGA_WIDTH \in Nat
  BY TerminalAssumption
<1>2. ASSUME NEW u \in Screen PROVE ui_draw_header(u) \in Screen
  <2>1. [k \in 1 .. VGA_WIDTH |-> IF k <= Len(UiTitle) THEN UiTitle[k] ELSE Space] \in Seq(Chars)
    <3>1. ASSUME NEW k \in 1 .. VGA_WIDTH PROVE (IF k <= Len(UiTitle) THEN UiTitle[k] ELSE Space) \in Chars
      BY <1>1
    <3> QED BY <1>1, <3>1
  <2> QED BY <2>1, PositionScreen, StringScreen, Zenon DEF ui_draw_header
<1>3. ASSUME NEW u \in Screen PROVE ui_draw_footer(u) \in Screen
  BY <1>1, PositionScreen, StringScreen, Zenon DEF ui_draw_footer
<1>4. ASSUME NEW u \in Screen PROVE ui_enable(u) \in Screen
  BY <1>2, <1>3, ClearScreen, Zenon DEF ui_enable
<1>5. ASSUME NEW u \in Screen PROVE ui_update_header(u) \in Screen
  BY <1>1, PositionScreen, StringScreen, Zenon DEF ui_update_header
<1>6. ASSUME NEW u \in Screen PROVE ui_print_content(u, lines) \in Screen
  <2> DEFINE n == IF Len(UiContent) < VGA_WIDTH THEN Len(UiContent) ELSE VGA_WIDTH
  <2>1. SubSeq(UiContent, 1, n) \in Seq(Chars)
    <3>1. n \in 0 .. Len(UiContent)
      BY <1>1
    <3> HIDE DEF n
    <3> QED BY <1>1, <3>1
  <2> QED BY <2>1, PositionScreen, StringScreen, Zenon DEF ui_print_content
<1> QED BY <1>3, <1>4, <1>5, <1>6, Zenon

-----------------------------------------------------------------------------
(* The invariant.                                                          *)

\* The cursor is not before the end of the line: a strayed backspace leaves
\* it further on, never further back.
CursorBehind ==
  phase = "input" /\ vga.rows < RowsBound => Offset(vga) >= LineStart + Len(buffer)

\* The inductive invariant: a line being edited leaves room for its last
\* character, and a command has a name.
TerminalIInv ==
  /\ TerminalTypeOK /\ EchoIsTheLine /\ PromptIntact /\ CursorBehind
  /\ phase = "input" => Len(buffer) < BUFFER_SIZE - 1
  /\ phase = "run" => argv # <<>>
  /\ ArgsAreTheWords

\* The type invariant about the screen.
LEMMA TypeScreen ==
  TerminalTypeOK <=>
    /\ vga \in Screen /\ phase \in {"prompt", "input", "run", "halted"}
    /\ Len(buffer) < BUFFER_SIZE /\ buffer \in Seq(Printable) /\ argv \in Seq(Seq(Chars))
    /\ start \in Cells /\ strayed \in BOOLEAN /\ content_lines \in 0 .. UI_CONTENT_ROWS - 1
  BY Zenon DEF TerminalTypeOK, Screen

\* When the count of rows is at its bound the first row of the line has
\* scrolled away, and so has a line with a cursor at its end.
LEMMA LineLost ==
  ASSUME NEW s \in Cells
  PROVE  /\ s - VGA_WIDTH * RowsBound <= VGA_WIDTH - BUFFER_SIZE - 2
         /\ s - VGA_WIDTH * RowsBound < 0
<1> DEFINE W == VGA_WIDTH
           H == VGA_HEIGHT
           B == BUFFER_SIZE
           q == B \div W
<1>1. W \in Nat \ {0} /\ H \in Nat \ {0} /\ B \in Nat /\ q \in Nat /\ RowsBound = H + q /\ W * H \in Nat
  BY Sizes
<1>2. W * q > B - W /\ W * q \in Nat
  BY <1>1
<1> HIDE DEF q
<1>3. W * RowsBound = (W * H) + (W * q)
  BY <1>1
<1>4. s \in Int /\ s <= W * H - 1
  BY <1>1 DEF Cells
<1> QED BY <1>1, <1>2, <1>3, <1>4

\* A row more.
LEMMA RowMore ==
  ASSUME NEW r \in Nat
  PROVE  VGA_WIDTH * (r + 1) = (VGA_WIDTH * r) + VGA_WIDTH /\ VGA_WIDTH * r \in Nat
  BY Sizes

\* Where a line that began at st is on a screen.
Origin(st, v) == st - VGA_WIDTH * v.rows

\* It is a number.
LEMMA OriginType ==
  ASSUME NEW st \in Cells, NEW v \in Screen
  PROVE  /\ Origin(st, v) \in Int /\ Offset(v) \in Nat /\ Offset(v) \in Cells
         /\ v.rows \in Nat /\ v.rows \in 0 .. RowsBound
         /\ v.rows = RowsBound => Origin(st, v) < 0
<1>1. v.rows \in 0 .. RowsBound /\ RowsBound \in Nat /\ Offset(v) \in Cells
  BY ScreenFields, Sizes
<1>2. v.rows \in Nat /\ st \in Int /\ Offset(v) \in Nat
  BY <1>1, Sizes DEF Cells
<1>3. VGA_WIDTH * v.rows \in Nat
  BY <1>2, RowMore
<1>4. Origin(st, v) \in Int
  BY <1>2, <1>3 DEF Origin
<1>5. v.rows = RowsBound => Origin(st, v) < 0
  BY LineLost, Zenon DEF Origin
<1> QED BY <1>1, <1>2, <1>4, <1>5

\* A character shown leaves the origin of the line or moves it up with the
\* screen, unless the line strayed and its first row has scrolled away.
LEMMA GlyphOrigin ==
  ASSUME NEW v \in Screen, NEW w \in Screen, NEW c, Advances(w, v, c) \/ Scrolls(w, v, c),
         NEW st \in Cells, NEW n \in Nat, n < BUFFER_SIZE - 1
  PROVE  \/ Advances(w, v, c) /\ w.rows = v.rows /\ Origin(st, w) = Origin(st, v)
         \/ /\ Scrolls(w, v, c) /\ v.rows < RowsBound /\ Origin(st, w) = Origin(st, v) - VGA_WIDTH
         \/ /\ v.rows = RowsBound /\ w.rows = RowsBound /\ Offset(v) # Origin(st, v) + n
<1>1. /\ Origin(st, v) \in Int /\ Offset(v) \in Nat /\ v.rows \in Nat /\ v.rows \in 0 .. RowsBound
      /\ RowsBound \in Nat /\ VGA_WIDTH \in Nat \ {0} /\ VGA_HEIGHT \in Nat \ {0} /\ st \in Int
      /\ BUFFER_SIZE \in Nat
  BY OriginType, Sizes DEF Cells
<1>2. CASE Advances(w, v, c)
  <2>1. w.rows = v.rows
    BY <1>2, Zenon DEF Advances
  <2> QED BY <1>2, <2>1, Zenon DEF Origin
<1>3. CASE Scrolls(w, v, c) /\ v.rows < RowsBound
  <2>1. w.rows = v.rows + 1
    BY <1>3, Zenon DEF Scrolls, Bumped
  <2>2. VGA_WIDTH * w.rows = (VGA_WIDTH * v.rows) + VGA_WIDTH /\ VGA_WIDTH * v.rows \in Nat
    BY <1>1, <2>1, RowMore
  <2>3. Origin(st, w) = Origin(st, v) - VGA_WIDTH
    BY <1>1, <2>2 DEF Origin
  <2> QED BY <1>3, <2>3, Zenon
<1>4. CASE Scrolls(w, v, c) /\ ~(v.rows < RowsBound)
  <2>1. v.rows = RowsBound /\ w.rows = RowsBound
    <3>1. v.rows = RowsBound
      BY <1>1, <1>4
    <3> QED BY <1>4, <3>1, Zenon DEF Scrolls, Bumped
  <2>2. Origin(st, v) <= VGA_WIDTH - BUFFER_SIZE - 2
    BY <2>1, LineLost, Zenon DEF Origin
  <2>3. VGA_WIDTH * VGA_HEIGHT >= VGA_WIDTH /\ VGA_WIDTH * VGA_HEIGHT \in Nat
    BY <1>1
  <2>4. Offset(v) + 1 = VGA_WIDTH * VGA_HEIGHT
    BY <1>4, Zenon DEF Scrolls
  <2>5. Offset(v) # Origin(st, v) + n
    BY <1>1, <2>2, <2>3, <2>4
  <2> QED BY <2>1, <2>5, Zenon
<1> QED BY <1>2, <1>3, <1>4, Zenon

\* A text with one character more.
LEMMA GlyphShows ==
  ASSUME NEW v \in Screen, NEW w \in Screen, NEW c \in Chars,
         NEW b \in Int, NEW n \in Nat, NEW s, b + n = Offset(v), Shows(v, b, s, n),
         NEW t, t[n + 1] = c, \A k \in 1 .. n : t[k] = s[k]
  PROVE  /\ Advances(w, v, c) => Shows(w, b, t, n + 1)
         /\ Scrolls(w, v, c) => Shows(w, b - VGA_WIDTH, t, n + 1)
<1>1. Offset(v) \in Cells /\ VGA_WIDTH \in Nat \ {0} /\ v.cell \in [Cells -> Chars]
  BY ScreenFields, Sizes
<1>2. Put(v, c)[Offset(v)] = c
  BY <1>1, Zenon DEF Put
<1>3. ASSUME Advances(w, v, c) PROVE Shows(w, b, t, n + 1)
  <2>1. Shows(w, b, s, n)
    BY <1>1, <1>3, GlyphKeeps
  <2>2. ASSUME NEW k \in 1 .. n + 1, b + k - 1 >= 0 PROVE w.cell[b + k - 1] = t[k]
    <3>1. k \in 1 .. n \/ (k = n + 1 /\ b + k - 1 = Offset(v))
      OBVIOUS
    <3> QED BY <1>2, <1>3, <2>1, <2>2, <3>1, Zenon DEF Shows, Advances
  <2> QED BY <2>2, Zenon DEF Shows
<1>4. ASSUME Scrolls(w, v, c) PROVE Shows(w, b - VGA_WIDTH, t, n + 1)
  <2>1. Shows(w, b - VGA_WIDTH, s, n)
    BY <1>1, <1>4, GlyphKeeps
  <2>2. ASSUME NEW k \in 1 .. n + 1, b - VGA_WIDTH + k - 1 >= 0
        PROVE  w.cell[b - VGA_WIDTH + k - 1] = t[k]
    <3>1. CASE k \in 1 .. n
      BY <2>1, <2>2, <3>1, Zenon DEF Shows
    <3>2. CASE k = n + 1
      <4> DEFINE p == b - VGA_WIDTH + k - 1
      <4>1. p + VGA_WIDTH = Offset(v) /\ p \in Cells
        BY <1>1, <2>2, <3>2, Sizes DEF Cells
      <4> HIDE DEF p
      <4>2. w.cell[p] = Put(v, c)[Offset(v)]
        BY <1>1, <1>4, <4>1, Zenon DEF Scrolls
      <4> QED BY <1>2, <3>2, <4>2, Zenon DEF p
    <3> QED BY <3>1, <3>2
  <2> QED BY <2>2, Zenon DEF Shows
<1> QED BY <1>3, <1>4

\* The line on the screen, as the properties state it.
LineShown(v, st, text, str) ==
  ~str => Offset(v) = Origin(st, v) + Len(text) /\ Shows(v, Origin(st, v), text, Len(text))
PromptShown(v, st) == Shows(v, Origin(st, v) - Len(PromptText), PromptText, Len(PromptText))
Behind(v, st, text) == v.rows < RowsBound => Offset(v) >= Origin(st, v) + Len(text)

\* Those of a state.
LEMMA LineOf ==
  /\ EchoIsTheLine <=> (phase = "input" => LineShown(vga, start, buffer, strayed))
  /\ PromptIntact <=> (phase = "input" => PromptShown(vga, start))
  /\ CursorBehind <=> (phase = "input" => Behind(vga, start, buffer))
  BY Zenon DEF EchoIsTheLine, PromptIntact, CursorBehind, LineShown, PromptShown, Behind, Shows, LineStart, Origin

\* A prompt whose place has scrolled away.
LEMMA PromptGone ==
  ASSUME NEW v \in Screen, NEW st \in Cells, v.rows = RowsBound
  PROVE  PromptShown(v, st)
<1>1. Origin(st, v) < 0 /\ Origin(st, v) \in Int
  BY OriginType
<1>2. Len(PromptText) \in Nat
  BY TerminalAssumption
<1> QED BY <1>1, <1>2 DEF PromptShown, Shows

\* The place behind a line with a character more, before and after a scroll.
LEMMA Sums ==
  ASSUME NEW b \in Int, NEW n \in Nat, NEW w \in Nat
  PROVE  /\ (b + n) + 1 = b + (n + 1)
         /\ (b + n) + 1 - w = b - w + (n + 1)
  OBVIOUS

\* A line typed on.
LEMMA TypedOn ==
  ASSUME NEW v \in Screen, NEW w \in Screen, NEW c \in Chars, Advances(w, v, c) \/ Scrolls(w, v, c),
         NEW st \in Cells, NEW str, NEW text \in Seq(Printable), Len(text) < BUFFER_SIZE - 1,
         LineShown(v, st, text, str), PromptShown(v, st), Behind(v, st, text)
  PROVE  /\ LineShown(w, st, Append(text, c), str) /\ PromptShown(w, st)
         /\ Behind(w, st, Append(text, c))
<1> DEFINE n == Len(text)
           m == Len(PromptText)
           t == Append(text, c)
           b == Origin(st, v)
<1>1. n \in Nat /\ Len(t) = n + 1 /\ t[n + 1] = c /\ \A k \in 1 .. n : t[k] = text[k]
  <2> HIDE DEF n, m, t, b
  <2>1. text \in Seq(Printable)
    OBVIOUS
  <2> QED BY ONLY <2>1, Appended DEF n, t
<1>2. /\ b \in Int /\ Offset(v) \in Nat /\ v.rows \in Nat /\ v.rows <= RowsBound /\ RowsBound \in Nat
      /\ m \in Nat /\ VGA_WIDTH \in Nat
  BY OriginType, Sizes, Written
<1>3. \/ Advances(w, v, c) /\ w.rows = v.rows /\ Origin(st, w) = b
      \/ Scrolls(w, v, c) /\ v.rows < RowsBound /\ Origin(st, w) = b - VGA_WIDTH
      \/ v.rows = RowsBound /\ w.rows = RowsBound /\ Offset(v) # b + n
  BY <1>1, GlyphOrigin
<1> HIDE DEF n, m, t, b
<1>4. Behind(w, st, t)
  <2>1. CASE w.rows < RowsBound /\ Advances(w, v, c) /\ w.rows = v.rows /\ Origin(st, w) = b
    <3>1. Offset(v) >= b + n /\ Offset(w) = Offset(v) + 1
      BY <2>1, Zenon DEF Behind, Advances, b, n
    <3>2. b \in Int /\ n \in Nat /\ VGA_WIDTH \in Nat /\ Offset(v) \in Nat
      BY <1>1, <1>2, Zenon
    <3>3. Offset(w) >= b + (n + 1)
      BY <3>1, <3>2
    <3> QED BY <1>1, <2>1, <3>3, Zenon DEF Behind
  <2>2. CASE Scrolls(w, v, c) /\ v.rows < RowsBound /\ Origin(st, w) = b - VGA_WIDTH
    <3>1. Offset(v) >= b + n /\ Offset(w) = Offset(v) + 1 - VGA_WIDTH
      BY <2>2, Zenon DEF Behind, Scrolls, b, n
    <3>2. b \in Int /\ n \in Nat /\ VGA_WIDTH \in Nat /\ Offset(v) \in Nat
      BY <1>1, <1>2, Zenon
    <3>3. Offset(w) >= b - VGA_WIDTH + (n + 1)
      BY <3>1, <3>2
    <3> QED BY <1>1, <2>2, <3>3, Zenon DEF Behind
  <2>3. CASE ~(w.rows < RowsBound)
    BY <2>3, Zenon DEF Behind
  <2>4. ~(RowsBound < RowsBound)
    BY <1>2
  <2> QED BY <1>3, <2>1, <2>2, <2>3, <2>4, Zenon
<1>5. PromptShown(w, st)
  <2>1. CASE w.rows = RowsBound
    BY <2>1, PromptGone
  <2>2. CASE w.rows # RowsBound
    <3>1. v.rows < RowsBound
      BY <1>2, <1>3, <2>2
    <3>2. Offset(v) >= b + n
      BY <3>1, Zenon DEF Behind, b, n
    <3>3. (b - m) + m <= Offset(v) /\ b - m \in Int /\ b - VGA_WIDTH - m = (b - m) - VGA_WIDTH
      BY <1>1, <1>2, <3>2
    <3>4. Shows(v, b - m, PromptText, m)
      BY DEF PromptShown, b, m
    <3>5. /\ Advances(w, v, c) => Shows(w, b - m, PromptText, m)
          /\ Scrolls(w, v, c) => Shows(w, (b - m) - VGA_WIDTH, PromptText, m)
      BY <1>2, <3>3, <3>4, GlyphKeeps
    <3> QED BY <1>3, <2>2, <3>3, <3>5, Zenon DEF PromptShown, m
  <2> QED BY <2>1, <2>2
<1>6. LineShown(w, st, t, str)
  <2>1. SUFFICES ASSUME ~str
                 PROVE  Offset(w) = Origin(st, w) + (n + 1) /\ Shows(w, Origin(st, w), t, n + 1)
    BY <1>1, Zenon DEF LineShown
  <2>2. Offset(v) = b + n /\ Shows(v, b, text, n)
    BY <2>1, Zenon DEF LineShown, b, n
  <2>3. /\ Advances(w, v, c) => Shows(w, b, t, n + 1)
        /\ Scrolls(w, v, c) => Shows(w, b - VGA_WIDTH, t, n + 1)
    BY <1>1, <1>2, <2>2, GlyphShows, Zenon
  <2>4. CASE Advances(w, v, c) /\ Origin(st, w) = b
    <3>1. Offset(w) = (b + n) + 1
      BY <2>2, <2>4, Zenon DEF Advances
    <3>2. (b + n) + 1 = b + (n + 1)
      BY <1>1, <1>2, Sums, Zenon
    <3> QED BY <2>3, <2>4, <3>1, <3>2, Zenon
  <2>5. CASE Scrolls(w, v, c) /\ Origin(st, w) = b - VGA_WIDTH
    <3>1. Offset(w) = (b + n) + 1 - VGA_WIDTH
      BY <2>2, <2>5, Zenon DEF Scrolls
    <3>2. (b + n) + 1 - VGA_WIDTH = b - VGA_WIDTH + (n + 1)
      BY <1>1, <1>2, Sums, Zenon
    <3> QED BY <2>3, <2>5, <3>1, <3>2, Zenon
  <2> QED BY <1>3, <2>2, <2>4, <2>5, Zenon
<1> QED BY <1>4, <1>5, <1>6 DEF t

\* A text without its last character.
LEMMA Shortened ==
  ASSUME NEW S, NEW text \in Seq(S), text # <<>>, NEW rest, rest = SubSeq(text, 1, Len(text) - 1)
  PROVE  /\ Len(text) \in Nat /\ Len(text) > 0 /\ Len(rest) = Len(text) - 1
         /\ \A k \in 1 .. Len(text) - 1 : rest[k] = text[k]
         /\ rest \in Seq(S)
<1>1. Len(text) \in Nat /\ Len(text) > 0
  OBVIOUS
<1>2. Len(rest) = Len(text) - 1
  <2> DEFINE j == Len(text) - 1
  <2>1. j \in 0 .. Len(text)
    BY <1>1
  <2> HIDE DEF j
  <2>2. Len(SubSeq(text, 1, j)) = IF 1 <= j THEN j - 1 + 1 ELSE 0
    BY <1>1, <2>1
  <2>3. Len(SubSeq(text, 1, j)) = j
    BY <2>1, <2>2, <1>1
  <2> QED BY <2>3 DEF j
<1>3. \A k \in 1 .. Len(text) - 1 : rest[k] = text[k]
  BY <1>1
<1>4. rest \in Seq(S)
  BY <1>1
<1> QED BY <1>1, <1>2, <1>3, <1>4

\* The same of all three.
LineState(v, st, text, str) ==
  LineShown(v, st, text, str) /\ PromptShown(v, st) /\ Behind(v, st, text)

\* A character erased, unless the line strays.
LEMMA Erased ==
  ASSUME NEW v \in Screen, NEW st \in Cells, NEW text \in Seq(Printable), text # <<>>,
         NEW str, LineState(v, st, text, str), NEW now, now \/ (~str /\ v.x # 0)
  PROVE  LineState(vga_write_char(v, Bs), st, SubSeq(text, 1, Len(text) - 1), now)
<1> DEFINE w == vga_write_char(v, Bs)
           rest == SubSeq(text, 1, Len(text) - 1)
           n == Len(text)
           m == Len(PromptText)
           b == Origin(st, v)
<1>0. /\ w \in Screen /\ w = vga_write_char(v, Bs) /\ rest = SubSeq(text, 1, Len(text) - 1)
      /\ LineShown(v, st, text, str) /\ PromptShown(v, st) /\ Behind(v, st, text)
  <2>1. Bs \in Chars
    BY TerminalAssumption
  <2> QED BY <2>1, CharScreen, Zenon DEF LineState
<1> HIDE DEF w, rest
<1>1. /\ n \in Nat /\ n > 0 /\ Len(rest) = n - 1 /\ \A k \in 1 .. n - 1 : rest[k] = text[k]
      /\ rest \in Seq(Printable)
  BY <1>0, Shortened, Zenon
<1>2. /\ b \in Int /\ Offset(v) \in Nat /\ v.rows \in Nat /\ v.rows <= RowsBound /\ RowsBound \in Nat
      /\ m \in Nat /\ VGA_WIDTH \in Nat /\ Offset(v) \in Cells /\ Offset(w) \in Nat
      /\ Offset(w) \in 0 .. VGA_WIDTH * VGA_HEIGHT - 1 /\ VGA_WIDTH * VGA_HEIGHT \in Nat
  <2>1. Offset(w) \in Cells /\ VGA_WIDTH * VGA_HEIGHT \in Nat
    BY <1>0, OriginType, Sizes, Zenon
  <2> QED BY <1>0, <2>1, OriginType, Sizes, Written DEF Cells
<1>3. /\ Offset(w) = (IF v.x = 0 THEN Offset(v) ELSE Offset(v) - 1) /\ w.rows = v.rows
      /\ \A p \in Cells : p # Offset(w) => w.cell[p] = v.cell[p]
  BY <1>0, BackspaceWritten, Zenon
<1>4. Origin(st, w) = b
  BY <1>3, Zenon DEF Origin
<1> HIDE DEF n, m, b
<1>5. Behind(w, st, rest)
  <2>1. SUFFICES ASSUME v.rows < RowsBound PROVE Offset(w) >= b + (n - 1)
    BY <1>1, <1>3, <1>4, Zenon DEF Behind
  <2>2. Offset(v) >= b + n
    BY <1>0, <2>1, Zenon DEF Behind, b, n
  <2> QED BY <1>1, <1>2, <1>3, <2>2
<1>6. ASSUME NEW a \in Int, NEW k \in Nat, NEW s, Shows(v, a, s, k), a + k <= Offset(w)
      PROVE  Shows(w, a, s, k)
  <2>1. SUFFICES ASSUME NEW j \in 1 .. k, a + j - 1 >= 0 PROVE w.cell[a + j - 1] = s[j]
    BY DEF Shows
  <2>2. a + j - 1 # Offset(w) /\ a + j - 1 \in Cells
    BY <1>2, <1>6, <2>1 DEF Cells
  <2>3. v.cell[a + j - 1] = s[j]
    BY <1>6, <2>1, Zenon DEF Shows
  <2> QED BY <1>3, <2>2, <2>3, Zenon
<1>7. PromptShown(w, st)
  <2>1. CASE w.rows = RowsBound
    BY <1>0, <2>1, PromptGone
  <2>2. CASE w.rows # RowsBound
    <3>1. v.rows < RowsBound
      BY <1>2, <1>3, <2>2
    <3>2. Offset(v) >= b + n
      BY <1>0, <3>1, Zenon DEF Behind, b, n
    <3>3. (b - m) + m <= Offset(w) /\ b - m \in Int
      BY <1>1, <1>2, <1>3, <3>2
    <3>4. Shows(v, b - m, PromptText, m)
      BY <1>0 DEF PromptShown, b, m
    <3>5. Shows(w, b - m, PromptText, m)
      BY <1>2, <1>6, <3>3, <3>4
    <3> QED BY <1>4, <3>5, Zenon DEF PromptShown, m
  <2> QED BY <2>1, <2>2
<1>8. LineShown(w, st, rest, now)
  <2>1. SUFFICES ASSUME ~str, v.x # 0
                 PROVE  Offset(w) = b + (n - 1) /\ Shows(w, b, rest, n - 1)
    BY <1>1, <1>4, Zenon DEF LineShown
  <2>2. Offset(v) = b + n /\ Shows(v, b, text, n)
    BY <1>0, <2>1, Zenon DEF LineShown, b, n
  <2>3. Offset(w) = b + (n - 1) /\ n - 1 \in Nat
    BY <1>1, <1>2, <1>3, <2>1, <2>2
  <2>4. Shows(v, b, rest, n - 1)
    <3>1. \A k \in 1 .. n - 1 : k \in 1 .. n
      BY <1>1
    <3> QED BY <1>1, <2>2, <3>1, Zenon DEF Shows
  <2>5. b + (n - 1) <= Offset(w)
    BY <1>2, <2>3
  <2>6. Shows(w, b, rest, n - 1)
    BY <1>2, <1>6, <2>3, <2>4, <2>5
  <2> QED BY <2>3, <2>6
<1> QED BY <1>5, <1>7, <1>8 DEF LineState, w, rest

\* A prompt written.
LEMMA Prompted ==
  ASSUME NEW v \in Screen, NEW u, u = vga_write_string(v, PromptText),
         NEW w, w = [u EXCEPT !.rows = 0]
  PROVE  /\ w \in Screen /\ Offset(u) \in Cells
         /\ LineShown(w, Offset(u), <<>>, FALSE) /\ PromptShown(w, Offset(u)) /\ Behind(w, Offset(u), <<>>)
<1>1. PromptText \in Seq(Chars) /\ \A k \in 1 .. Len(PromptText) : PromptText[k] \notin {Nl, Bs, Tab}
  BY TerminalAssumption
<1>2. u \in Screen
  BY <1>1, StringScreen
<1>3. Shows(u, Offset(u) - Len(PromptText), PromptText, Len(PromptText))
  BY <1>1, TextWritten
<1>4. w.x = u.x /\ w.y = u.y /\ w.rows = 0 /\ w.cell = u.cell
  BY <1>2, Zenon DEF Screen
<1>5. w \in Screen
  <2>1. 0 \in 0 .. RowsBound
    BY Sizes
  <2> QED BY <1>2, <2>1, Zenon DEF Screen
<1>6. Offset(u) \in Cells /\ Offset(w) = Offset(u) /\ Offset(u) \in Int
  <2>1. Offset(u) \in Cells
    BY <1>2, ScreenFields
  <2> QED BY <1>4, <2>1 DEF Offset, Cells
<1>7. Origin(Offset(u), w) = Offset(u)
  <2>1. VGA_WIDTH * 0 = 0
    BY Sizes
  <2> QED BY <1>4, <1>6, <2>1 DEF Origin
<1>8. PromptShown(w, Offset(u))
  BY <1>3, <1>4, <1>7, Zenon DEF PromptShown, Shows
<1>9. Len(<<>>) = 0 /\ Offset(u) = Offset(u) + 0 /\ Offset(u) >= Offset(u) + 0 /\ 1 .. 0 = {}
  BY <1>6
<1>10. LineShown(w, Offset(u), <<>>, FALSE)
  BY <1>6, <1>7, <1>9, Zenon DEF LineShown, Shows
<1>11. Behind(w, Offset(u), <<>>)
  BY <1>6, <1>7, <1>9, Zenon DEF Behind
<1> QED BY <1>5, <1>6, <1>8, <1>10, <1>11, Zenon

\* The line typed is a string.
LEMMA LineString ==
  ASSUME NEW s \in Seq(Printable)
  PROVE  s \in Seq(Chars)
<1>1. Printable \subseteq Chars
  BY TerminalAssumption
<1> QED BY <1>1

\* The inductive invariant with the arguments of the command to run.
LEMMA IInvParts ==
  TerminalIInv <=>
    /\ vga \in Screen /\ phase \in {"prompt", "input", "run", "halted"}
    /\ Len(buffer) < BUFFER_SIZE /\ buffer \in Seq(Printable) /\ argv \in Seq(Seq(Chars))
    /\ start \in Cells /\ strayed \in BOOLEAN /\ content_lines \in 0 .. UI_CONTENT_ROWS - 1
    /\ phase = "input" => /\ LineShown(vga, start, buffer, strayed) /\ PromptShown(vga, start)
                          /\ Behind(vga, start, buffer) /\ Len(buffer) < BUFFER_SIZE - 1
    /\ phase = "run" => argv # <<>>
    /\ ArgsAreTheWords
  BY TypeScreen, LineOf, Zenon DEF TerminalIInv

\* The same after a step.
LEMMA IInvAfter ==
  ASSUME vga' \in Screen, phase' \in {"prompt", "input", "run", "halted"},
         Len(buffer') < BUFFER_SIZE, buffer' \in Seq(Printable), argv' \in Seq(Seq(Chars)),
         start' \in Cells, strayed' \in BOOLEAN, content_lines' \in 0 .. UI_CONTENT_ROWS - 1,
         phase' = "input" => /\ LineShown(vga', start', buffer', strayed') /\ PromptShown(vga', start')
                             /\ Behind(vga', start', buffer') /\ Len(buffer') < BUFFER_SIZE - 1,
         phase' = "run" => argv' # <<>>,
         ArgsAreTheWords'
  PROVE  TerminalIInv'
<1>1. TerminalTypeOK'
  BY Zenon DEF TerminalTypeOK, Screen
<1>2. EchoIsTheLine'
  BY Zenon DEF EchoIsTheLine, LineShown, Shows, LineStart, Origin
<1>3. PromptIntact'
  BY Zenon DEF PromptIntact, PromptShown, Shows, LineStart, Origin
<1>4. CursorBehind'
  BY Zenon DEF CursorBehind, Behind, LineStart, Origin
<1> QED BY <1>1, <1>2, <1>3, <1>4, Zenon DEF TerminalIInv

\* The start of the shell.
LEMMA TerminalInitIInv ==
  TerminalInit => TerminalIInv
<1> SUFFICES ASSUME TerminalInit PROVE TerminalIInv
  OBVIOUS
<1>1. Blank \in Screen
  <2>1. 0 \in 0 .. VGA_WIDTH - 1 /\ 0 \in 0 .. VGA_HEIGHT - 1 /\ 0 \in 0 .. RowsBound /\ Space \in Chars
    BY Sizes, TerminalAssumption
  <2>2. [p \in Cells |-> Space] \in [Cells -> Chars]
    BY <2>1
  <2> QED BY <2>1, <2>2, Zenon DEF Screen, Blank
<1>2. vga \in Screen
  <2>1. Welcome \in Seq(Chars)
    BY TerminalAssumption
  <2> QED BY <1>1, <2>1, StringScreen, Zenon DEF TerminalInit
<1>3. /\ 0 \in Cells /\ 0 \in 0 .. UI_CONTENT_ROWS - 1 /\ <<>> \in Seq(Printable) /\ Len(<<>>) < BUFFER_SIZE
  <2>1. VGA_WIDTH * VGA_HEIGHT > 0
    BY Sizes
  <2>2. UI_CONTENT_ROWS \in Nat \ {0} /\ BUFFER_SIZE \in Nat \ {0, 1}
    BY TerminalAssumption
  <2>3. 0 \in Cells
    BY <2>1, Sizes DEF Cells
  <2> QED BY <2>2, <2>3
<1>4. <<>> \in Seq(Seq(Chars))
  <2> DEFINE C == Seq(Chars)
  <2> HIDE DEF C
  <2>1. <<>> \in Seq(C)
    OBVIOUS
  <2> QED BY <2>1 DEF C
<1>5. phase = "prompt" /\ buffer = <<>> /\ argv = <<>> /\ content_lines = 0 /\ start = 0 /\ strayed = FALSE
  BY DEF TerminalInit
<1>6. phase # "input" /\ phase # "run"
  BY <1>5
<1>7. ArgsAreTheWords
  BY <1>6 DEF ArgsAreTheWords
<1>8. strayed \in BOOLEAN /\ phase \in {"prompt", "input", "run", "halted"}
  BY <1>5, Zenon
<1> QED BY <1>2, <1>3, <1>4, <1>5, <1>6, <1>7, <1>8, IInvParts, Zenon

\* The prompt.
LEMMA PromptStep ==
  ASSUME TerminalIInv, Prompt
  PROVE  TerminalIInv'
<1>1. vga \in Screen /\ content_lines \in 0 .. UI_CONTENT_ROWS - 1
  BY IInvParts
<1> DEFINE u == vga_write_string(vga, PromptText)
<1>2. /\ vga' = [u EXCEPT !.rows = 0] /\ phase' = "input" /\ buffer' = <<>> /\ argv' = <<>>
      /\ start' = Offset(u) /\ strayed' = FALSE /\ content_lines' = content_lines
  BY DEF Prompt
<1> HIDE DEF u
<1>3. /\ vga' \in Screen /\ start' \in Cells /\ LineShown(vga', start', buffer', strayed')
      /\ PromptShown(vga', start') /\ Behind(vga', start', buffer')
  BY <1>1, <1>2, Prompted, Zenon DEF u
<1>4. <<>> \in Seq(Printable) /\ Len(<<>>) < BUFFER_SIZE /\ Len(<<>>) < BUFFER_SIZE - 1
  BY TerminalAssumption
<1>5. <<>> \in Seq(Seq(Chars))
  <2> DEFINE C == Seq(Chars)
  <2> HIDE DEF C
  <2>1. <<>> \in Seq(C)
    OBVIOUS
  <2> QED BY <2>1 DEF C
<1>6. phase' # "run" /\ phase' \in {"prompt", "input", "run", "halted"} /\ strayed' \in BOOLEAN
  BY <1>2, Zenon
<1>7. ArgsAreTheWords'
  BY <1>6 DEF ArgsAreTheWords
<1> QED BY <1>1, <1>2, <1>3, <1>4, <1>5, <1>6, <1>7, IInvAfter, Zenon

\* A character erased from the line.
LEMMA EraseStep ==
  ASSUME TerminalIInv, Erase
  PROVE  TerminalIInv'
<1>1. /\ vga \in Screen /\ buffer \in Seq(Printable) /\ start \in Cells /\ strayed \in BOOLEAN
      /\ content_lines \in 0 .. UI_CONTENT_ROWS - 1 /\ argv \in Seq(Seq(Chars))
      /\ phase = "input" /\ buffer # <<>>
      /\ LineShown(vga, start, buffer, strayed) /\ PromptShown(vga, start)
      /\ Behind(vga, start, buffer) /\ Len(buffer) < BUFFER_SIZE - 1
  BY IInvParts, Zenon DEF Erase
<1>2. /\ buffer' = SubSeq(buffer, 1, Len(buffer) - 1) /\ vga' = vga_write_char(vga, Bs)
      /\ strayed' = (strayed \/ vga.x = 0)
      /\ phase' = phase /\ argv' = argv /\ content_lines' = content_lines /\ start' = start
  BY DEF Erase
<1>3. vga' \in Screen /\ strayed' \in BOOLEAN
  <2>1. Bs \in Chars
    BY TerminalAssumption
  <2> QED BY <1>1, <1>2, <2>1, CharScreen, Zenon
<1>4. /\ LineShown(vga', start', buffer', strayed') /\ PromptShown(vga', start')
      /\ Behind(vga', start', buffer')
  <2>1. strayed' \/ (~strayed /\ vga.x # 0)
    BY <1>2, Zenon
  <2>2. LineState(vga, start, buffer, strayed)
    BY <1>1, Zenon DEF LineState
  <2>3. LineState(vga_write_char(vga, Bs), start, SubSeq(buffer, 1, Len(buffer) - 1), strayed')
    BY <1>1, <2>1, <2>2, Erased, Zenon
  <2> QED BY <1>2, <2>3, Zenon DEF LineState
<1>5. /\ buffer' \in Seq(Printable) /\ Len(buffer') = Len(buffer) - 1 /\ Len(buffer) \in Nat
  BY <1>1, <1>2, Shortened, Zenon
<1>6. Len(buffer') < BUFFER_SIZE /\ Len(buffer') < BUFFER_SIZE - 1
  <2>1. BUFFER_SIZE \in Nat /\ Len(buffer) < BUFFER_SIZE - 1
    BY <1>1, Sizes
  <2> QED BY <1>5, <2>1
<1>7. phase' # "run" /\ phase' \in {"prompt", "input", "run", "halted"}
  BY <1>1, <1>2
<1>8. ArgsAreTheWords'
  BY <1>7 DEF ArgsAreTheWords
<1> QED BY <1>1, <1>2, <1>3, <1>4, <1>5, <1>6, <1>7, <1>8, IInvAfter, Zenon

\* A line given to parse_command.
LEMMA Submitted ==
  ASSUME NEW line \in Seq(Chars), Submit(line)
  PROVE  /\ argv' \in Seq(Seq(Chars)) /\ Len(argv') <= MAX_ARGS /\ AreFirstWords(argv', line)
         /\ phase' \in {"prompt", "input", "run", "halted"} /\ phase' # "input"
         /\ phase' = "run" => argv' # <<>>
<1>1. argv' = parse_command(line) /\ phase' = IF argv' = <<>> THEN "prompt" ELSE "run"
  BY DEF Submit
<1>2. argv' \in Seq(Seq(Chars)) /\ Len(argv') <= MAX_ARGS /\ AreFirstWords(argv', line)
  BY <1>1, ParseWords, Zenon
<1>3. /\ phase' \in {"prompt", "input", "run", "halted"} /\ phase' # "input"
      /\ phase' = "run" => argv' # <<>>
  BY <1>1
<1> QED BY <1>2, <1>3

\* The line ended.
LEMMA EnterStep ==
  ASSUME TerminalIInv, Enter
  PROVE  TerminalIInv'
<1>1. /\ vga \in Screen /\ buffer \in Seq(Printable) /\ start \in Cells /\ strayed \in BOOLEAN
      /\ content_lines \in 0 .. UI_CONTENT_ROWS - 1 /\ Len(buffer) < BUFFER_SIZE
  BY IInvParts
<1>2. /\ vga' = vga_write_char(vga, Nl) /\ Submit(buffer)
      /\ buffer' = buffer /\ content_lines' = content_lines /\ start' = start /\ strayed' = strayed
  BY DEF Enter
<1>3. vga' \in Screen
  <2>1. Nl \in Chars
    BY TerminalAssumption
  <2> QED BY <1>1, <1>2, <2>1, CharScreen, Zenon
<1>4. buffer \in Seq(Chars)
  BY <1>1, LineString
<1>5. /\ argv' \in Seq(Seq(Chars)) /\ Len(argv') <= MAX_ARGS /\ AreFirstWords(argv', buffer)
      /\ phase' \in {"prompt", "input", "run", "halted"} /\ phase' # "input"
      /\ phase' = "run" => argv' # <<>>
  BY <1>2, <1>4, Submitted
<1>6. ArgsAreTheWords'
  BY <1>2, <1>5, Zenon DEF ArgsAreTheWords
<1> QED BY <1>1, <1>2, <1>3, <1>5, <1>6, IInvAfter, Zenon

\* A character typed, which may fill the buffer.
LEMMA TypeStep ==
  ASSUME TerminalIInv, NEW c \in Printable, Type(c)
  PROVE  TerminalIInv'
<1>1. /\ vga \in Screen /\ buffer \in Seq(Printable) /\ start \in Cells /\ strayed \in BOOLEAN
      /\ content_lines \in 0 .. UI_CONTENT_ROWS - 1 /\ argv \in Seq(Seq(Chars)) /\ phase = "input"
      /\ LineShown(vga, start, buffer, strayed) /\ PromptShown(vga, start)
      /\ Behind(vga, start, buffer) /\ Len(buffer) < BUFFER_SIZE - 1
  BY IInvParts, Zenon DEF Type
<1>2. /\ buffer' = Append(buffer, c) /\ vga' = vga_write_char(vga, c)
      /\ content_lines' = content_lines /\ start' = start /\ strayed' = strayed
  BY DEF Type
<1>3. c \in Chars /\ c \notin {Nl, Bs, Tab}
  BY TerminalAssumption
<1>4. vga' \in Screen /\ (Advances(vga', vga, c) \/ Scrolls(vga', vga, c))
  BY <1>1, <1>2, <1>3, CharScreen, GlyphWritten, Zenon
<1>5. /\ LineShown(vga', start', buffer', strayed') /\ PromptShown(vga', start')
      /\ Behind(vga', start', buffer')
  BY <1>1, <1>2, <1>3, <1>4, TypedOn, Zenon
<1>6. buffer' \in Seq(Printable) /\ Len(buffer') = Len(buffer) + 1 /\ Len(buffer) \in Nat
  BY <1>1, <1>2
<1>7. Len(buffer') < BUFFER_SIZE
  <2>1. BUFFER_SIZE \in Nat /\ Len(buffer) < BUFFER_SIZE - 1
    BY <1>1, Sizes
  <2> QED BY <1>6, <2>1
<1>8. CASE Len(buffer') = BUFFER_SIZE - 1
  <2>1. PICK rest \in Leftovers : Submit(buffer' \o rest)
    BY <1>8 DEF Type
  <2>2. buffer' \o rest \in Seq(Chars)
    <3>1. rest \in Seq(Chars) /\ buffer' \in Seq(Chars)
      BY <1>6, TerminalAssumption, LineString
    <3> QED BY <3>1
  <2>3. /\ argv' \in Seq(Seq(Chars)) /\ Len(argv') <= MAX_ARGS
        /\ phase' \in {"prompt", "input", "run", "halted"} /\ phase' # "input"
        /\ phase' = "run" => argv' # <<>>
    BY <2>1, <2>2, Submitted, Zenon
  <2>4. ~(Len(buffer') < BUFFER_SIZE - 1)
    BY <1>8, <1>6
  <2>5. ArgsAreTheWords'
    BY <2>3, <2>4, Zenon DEF ArgsAreTheWords
  <2> QED BY <1>1, <1>2, <1>4, <1>6, <1>7, <2>3, <2>5, IInvAfter, Zenon
<1>9. CASE Len(buffer') # BUFFER_SIZE - 1
  <2>1. phase' = phase /\ argv' = argv
    BY <1>9 DEF Type
  <2>2. Len(buffer') < BUFFER_SIZE - 1
    <3>1. BUFFER_SIZE \in Nat /\ Len(buffer) < BUFFER_SIZE - 1
      BY <1>1, Sizes
    <3> QED BY <1>6, <1>9, <3>1
  <2>3. phase' # "run" /\ phase' \in {"prompt", "input", "run", "halted"}
    BY <1>1, <2>1
  <2>4. ArgsAreTheWords'
    BY <2>3 DEF ArgsAreTheWords
  <2> QED BY <1>1, <1>2, <1>4, <1>5, <1>6, <1>7, <2>1, <2>2, <2>3, <2>4, IInvAfter, Zenon
<1> QED BY <1>8, <1>9

\* A command.
LEMMA RunStep ==
  ASSUME TerminalIInv, Run
  PROVE  TerminalIInv'
<1>1. /\ vga \in Screen /\ argv \in Seq(Seq(Chars)) /\ argv # <<>> /\ start \in Cells /\ strayed \in BOOLEAN
      /\ content_lines \in 0 .. UI_CONTENT_ROWS - 1
  BY IInvParts, Zenon DEF Run
<1>2. buffer' = <<>> /\ argv' = <<>> /\ start' = start /\ strayed' = strayed
  BY DEF Run
<1>3. Nl \in Chars /\ "?" \in Chars /\ "!" \in Chars /\ "u" \in Chars
  BY TerminalAssumption
<1>4. /\ vga' \in Screen /\ content_lines' \in 0 .. UI_CONTENT_ROWS - 1 /\ phase' \in {"prompt", "halted"}
  <2>1. CASE RunUiOn
    <3>1. content_lines \in Nat /\ UI_CONTENT_ROWS \in Nat \ {0}
      BY <1>1, TerminalAssumption
    <3>2. LinesAfter(content_lines) \in 0 .. UI_CONTENT_ROWS - 1
      BY <1>1, <3>1 DEF LinesAfter
    <3> QED BY <1>1, <2>1, <3>1, <3>2, FrameScreen, Zenon DEF RunUiOn
  <2>2. ASSUME RunEcho PROVE vga' \in Screen /\ phase' \in {"prompt", "halted"}
    BY <1>1, <2>2, EchoedType, StringScreen, Zenon DEF RunEcho
  <2>3. ASSUME RunClear PROVE vga' \in Screen /\ phase' \in {"prompt", "halted"}
    BY <1>1, <2>3, ClearScreen, Zenon DEF RunClear
  <2>4. ASSUME RunOther PROVE vga' \in Screen /\ phase' \in {"prompt", "halted"}
    <3>1. PICK text \in Outputs : vga' = vga_write_string(vga, text)
      BY <2>4, Zenon DEF RunOther
    <3>2. text \in Seq(Chars)
      BY TerminalAssumption
    <3> QED BY <1>1, <2>4, <3>1, <3>2, StringScreen, Zenon DEF RunOther
  <2>5. ASSUME RunUnknown PROVE vga' \in Screen /\ phase' \in {"prompt", "halted"}
    <3>1. argv[1] \in Seq(Chars)
      <4> DEFINE C == Seq(Chars)
      <4>1. argv \in Seq(C) /\ argv # <<>>
        BY <1>1
      <4> HIDE DEF C
      <4>2. argv[1] \in C
        BY <4>1
      <4> QED BY <4>2 DEF C
    <3>2. <<"?">> \o argv[1] \o <<Nl>> \in Seq(Chars)
      BY <1>3, <3>1
    <3> QED BY <1>1, <2>5, <3>2, StringScreen, Zenon DEF RunUnknown
  <2>6. <<"u", Nl>> \in Seq(Chars) /\ <<Nl, "!", Nl>> \in Seq(Chars)
    BY <1>3
  <2>7. ASSUME RunUiOff PROVE vga' \in Screen /\ phase' \in {"prompt", "halted"}
    BY <1>1, <2>6, <2>7, ClearScreen, StringScreen, Zenon DEF RunUiOff
  <2>8. ASSUME RunUiWrites PROVE vga' \in Screen /\ phase' \in {"prompt", "halted"}
    BY <1>1, <2>6, <2>8, StringScreen, Zenon DEF RunUiWrites
  <2>9. ASSUME RunExit PROVE vga' \in Screen /\ phase' \in {"prompt", "halted"}
    BY <1>1, <2>6, <2>9, StringScreen, Zenon DEF RunExit, kernel_panic
  <2> QED BY <1>1, <2>1, <2>2, <2>3, <2>4, <2>5, <2>7, <2>8, <2>9, Zenon DEF Run
<1>5. <<>> \in Seq(Printable) /\ Len(<<>>) < BUFFER_SIZE
  BY TerminalAssumption
<1>6. <<>> \in Seq(Seq(Chars))
  <2> DEFINE C == Seq(Chars)
  <2> HIDE DEF C
  <2>1. <<>> \in Seq(C)
    OBVIOUS
  <2> QED BY <2>1 DEF C
<1>7. phase' # "run" /\ phase' # "input" /\ phase' \in {"prompt", "input", "run", "halted"}
  BY <1>4
<1>8. ArgsAreTheWords'
  BY <1>7 DEF ArgsAreTheWords
<1> QED BY <1>1, <1>2, <1>4, <1>5, <1>6, <1>7, <1>8, IInvAfter, Zenon

\* Every state of the console satisfies the inductive invariant.
LEMMA TerminalInductive ==
  TerminalSpec => []TerminalIInv
<1>1. TerminalIInv /\ [TerminalNext]_tvars => TerminalIInv'
  <2> SUFFICES ASSUME TerminalIInv, [TerminalNext]_tvars PROVE TerminalIInv'
    OBVIOUS
  <2>1. CASE UNCHANGED tvars
    <3>1. /\ vga' = vga /\ phase' = phase /\ buffer' = buffer /\ argv' = argv
          /\ content_lines' = content_lines /\ start' = start /\ strayed' = strayed
      BY <2>1 DEF tvars
    <3>2. ArgsAreTheWords'
      BY <3>1, IInvParts, Zenon DEF ArgsAreTheWords
    <3> QED BY <3>1, <3>2, IInvParts, IInvAfter, Zenon
  <2> QED BY <2>1, PromptStep, EnterStep, EraseStep, TypeStep, RunStep, Zenon DEF TerminalNext
<1> QED BY <1>1, TerminalInitIInv, PTL DEF TerminalSpec

\* The variables stay in their types: the cursor stays on the screen and the
\* line in its buffer.
THEOREM TerminalTypesHold ==
  TerminalSpec => []TerminalTypeOK
<1>1. TerminalIInv => TerminalTypeOK
  BY DEF TerminalIInv
<1> QED BY <1>1, TerminalInductive, PTL

\* The screen and the buffer agree while a line is edited: the loop of
\* shell_run stores a character and vga_write_char shows it, across wraps
\* and scrolling, for every size of the screen and of the buffer.
THEOREM EchoIsTheLineHolds ==
  TerminalSpec => []EchoIsTheLine
<1>1. TerminalIInv => EchoIsTheLine
  BY DEF TerminalIInv
<1> QED BY <1>1, TerminalInductive, PTL

\* Editing a line never erases the prompt: each backspace the shell writes
\* is for a character of the buffer, and takes the cursor back a place or,
\* at the left edge, none.
THEOREM PromptIntactHolds ==
  TerminalSpec => []PromptIntact
<1>1. TerminalIInv => PromptIntact
  BY DEF TerminalIInv
<1> QED BY <1>1, TerminalInductive, PTL

\* The arguments of a command are the words of the line that Enter ended,
\* as many as argv has room for.
THEOREM ArgsAreTheWordsHolds ==
  TerminalSpec => []ArgsAreTheWords
<1>1. TerminalIInv => ArgsAreTheWords
  BY DEF TerminalIInv
<1> QED BY <1>1, TerminalInductive, PTL
=============================================================================
