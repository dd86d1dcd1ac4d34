--------------------------- MODULE TerminalProof ---------------------------
(***************************************************************************)
(* Proofs about the keyboard, the line editor and the screen, for screens  *)
(* of every size, lines of every length and whatever programs write.       *)
(***************************************************************************)
EXTENDS Terminal, SequenceTheorems, TLAPS

----------------------------------------------------------------------------
(* The cells of the screen *)

\* The cell at column x of row y
Cell(x, y) == NUM_COLS * y + x

LEMMA CellType ==
  ASSUME NEW x \in 0..NUM_COLS-1, NEW y \in 0..NUM_ROWS-1
  PROVE  Cell(x, y) \in Cells /\ Cell(x, y) \in Nat
<1> DEFINE C == NUM_COLS
           R == NUM_ROWS
           d == R - 1 - y
<1>1. C \in Nat /\ R \in Nat /\ C > 0 /\ R > 0 /\ x \in Nat /\ y \in Nat /\ x < C /\ y < R
  BY TerminalAssumption
<1>2. d \in Nat /\ R = y + 1 + d
  BY <1>1
<1> HIDE DEF d
<1>3. C * R = C * y + C + C * d
  BY <1>1, <1>2
<1>4. C * y \in Nat /\ C * d \in Nat
  BY <1>1, <1>2
<1>5. C * y + x \in Nat /\ C * y + x <= C * R - 1 /\ C * R \in Int
  BY <1>1, <1>3, <1>4
<1>. QED
  BY <1>5 DEF Cell, Cells

LEMMA CellsBefore ==
  ASSUME NEW c \in Cells, NEW j \in Nat, j <= c
  PROVE  j \in Cells
<1>1. NUM_COLS * NUM_ROWS - 1 \in Int
  BY TerminalAssumption
<1>. QED
  BY <1>1 DEF Cells

\* The cell before the first of a row is the last of the row above
LEMMA RowAbove ==
  ASSUME NEW y \in Nat \ {0}
  PROVE  Cell(NUM_COLS - 1, y - 1) = Cell(0, y) - 1
BY TerminalAssumption DEF Cell

\* The cell after the last of a row is the first of the row below
LEMMA RowBelow ==
  ASSUME NEW y \in Nat
  PROVE  Cell(0, y + 1) = Cell(NUM_COLS - 1, y) + 1
BY TerminalAssumption DEF Cell

----------------------------------------------------------------------------
(* putc *)

Chars == Printable \union {" "}

\* The screens that putc leaves to scroll: the cursor may be below the last row
Moved == [video_mem : [Cells -> Chars], screen_x : 0..NUM_COLS-1, screen_y : 0..NUM_ROWS]

LEMMA ScrollType ==
  ASSUME NEW s \in Moved, s.screen_y = NUM_ROWS => s.screen_x = 0
  PROVE  /\ scroll(s) \in Screens
         /\ s.screen_y < NUM_ROWS => scroll(s) = s
         /\ s.screen_y = NUM_ROWS =>
              /\ scroll(s).screen_x = 0 /\ scroll(s).screen_y = NUM_ROWS - 1
              /\ \A c \in Cells : c + NUM_COLS \in Cells =>
                    scroll(s).video_mem[c] = s.video_mem[c + NUM_COLS]
<1>1. NUM_ROWS \in Nat \ {0} /\ NUM_COLS \in Nat \ {0} /\ s.screen_y \in 0..NUM_ROWS
  BY TerminalAssumption DEF Moved
<1>2. CASE s.screen_y < NUM_ROWS
  <2>1. scroll(s) = s
    BY <1>2 DEF scroll
  <2>2. s \in Screens
    <3>1. s.screen_y \in 0..NUM_ROWS - 1
      BY <1>1, <1>2
    <3>. QED
      BY <3>1 DEF Moved, Screens, Chars
  <2>. QED
    BY <1>1, <1>2, <2>1, <2>2
<1>3. CASE ~(s.screen_y < NUM_ROWS)
  <2> DEFINE vm == [c \in Cells |-> IF c + NUM_COLS \in Cells
                                    THEN s.video_mem[c + NUM_COLS] ELSE " "]
             t == [video_mem |-> vm, screen_x |-> 0, screen_y |-> NUM_ROWS - 1]
  <2>1. s.screen_y = NUM_ROWS /\ s.screen_x = 0
    BY <1>1, <1>3
  <2>2. vm \in [Cells -> Chars]
    BY DEF Moved, Chars
  <2>3. \A c \in Cells : c + NUM_COLS \in Cells => vm[c] = s.video_mem[c + NUM_COLS]
    OBVIOUS
  <2>4. scroll(s) = [s EXCEPT !.screen_y = NUM_ROWS - 1, !.video_mem = vm]
    BY <1>3, Zenon DEF scroll
  <2> HIDE DEF vm
  <2>5. scroll(s) = t
    BY <2>1, <2>4 DEF Moved
  <2>6. t \in Screens
    <3>1. 0 \in 0..NUM_COLS - 1 /\ NUM_ROWS - 1 \in 0..NUM_ROWS - 1
      BY <1>1
    <3>. QED
      BY <2>2, <3>1 DEF Screens, Chars
  <2>. QED
    BY <1>1, <2>1, <2>3, <2>5, <2>6
<1>. QED
  BY <1>2, <1>3

LEMMA ScreenFields ==
  ASSUME NEW s \in Screens
  PROVE  /\ s.video_mem \in [Cells -> Chars]
         /\ s.screen_x \in 0..NUM_COLS-1 /\ s.screen_x \in Nat
         /\ s.screen_y \in 0..NUM_ROWS-1 /\ s.screen_y \in Nat
         /\ s = [video_mem |-> s.video_mem, screen_x |-> s.screen_x, screen_y |-> s.screen_y]
         /\ At(s) = Cell(s.screen_x, s.screen_y) /\ At(s) \in Cells /\ At(s) \in Nat
<1>1. /\ s.video_mem \in [Cells -> Chars]
      /\ s.screen_x \in 0..NUM_COLS-1 /\ s.screen_y \in 0..NUM_ROWS-1
      /\ s = [video_mem |-> s.video_mem, screen_x |-> s.screen_x, screen_y |-> s.screen_y]
  BY DEF Screens, Chars
<1>2. s.screen_x \in Nat /\ s.screen_y \in Nat
  BY <1>1
<1>3. At(s) = Cell(s.screen_x, s.screen_y)
  BY DEF At, Cell
<1>. QED
  BY <1>1, <1>2, <1>3, CellType

LEMMA MoveToValue ==
  ASSUME NEW s \in Screens, NEW x, NEW y
  PROVE  MoveTo(s, x, y) = [video_mem |-> s.video_mem, screen_x |-> x, screen_y |-> y]
<1>1. PICK vm, a, b : s = [video_mem |-> vm, screen_x |-> a, screen_y |-> b]
  BY ScreenFields
<1>2. [s EXCEPT !.screen_x = x] = [video_mem |-> vm, screen_x |-> x, screen_y |-> b]
  BY <1>1
<1>3. MoveTo(s, x, y) = [[s EXCEPT !.screen_x = x] EXCEPT !.screen_y = y]
  BY DEF MoveTo
<1>4. [[video_mem |-> vm, screen_x |-> x, screen_y |-> b] EXCEPT !.screen_y = y]
        = [video_mem |-> vm, screen_x |-> x, screen_y |-> y]
  OBVIOUS
<1>. QED
  BY <1>1, <1>2, <1>3, <1>4

LEMMA PutcNewline ==
  ASSUME NEW s \in Screens
  PROVE  putc(s, "NL") \in Screens
<1> DEFINE t == [video_mem |-> s.video_mem, screen_x |-> 0, screen_y |-> s.screen_y + 1]
<1>1. putc(s, "NL") = scroll(t)
  <2>1. MoveTo(s, 0, s.screen_y + 1) = t
    BY MoveToValue, Zenon
  <2>2. putc(s, "NL") = scroll(MoveTo(s, 0, s.screen_y + 1))
    BY DEF putc
  <2>. QED
    BY <2>1, <2>2, Zenon
<1>2. t \in Moved
  <2>1. 0 \in 0..NUM_COLS-1 /\ s.screen_y + 1 \in 0..NUM_ROWS
    BY ScreenFields, TerminalAssumption
  <2>. QED
    BY <2>1, ScreenFields DEF Moved
<1>. QED
  BY <1>1, <1>2, ScrollType

\* A backspace moves the cursor back by one cell, across the edge, too, and
\* changes no cell before it
LEMMA PutcBackspace ==
  ASSUME NEW s \in Screens
  PROVE  /\ putc(s, "BS") \in Screens
         /\ At(s) > 0 =>
              /\ At(putc(s, "BS")) = At(s) - 1
              /\ \A c \in Cells : c < At(s) - 1 => putc(s, "BS").video_mem[c] = s.video_mem[c]
<1> DEFINE x == s.screen_x
           y == s.screen_y
<1>a. NUM_ROWS \in Nat \ {0} /\ NUM_COLS \in Nat \ {0}
  BY TerminalAssumption
<1>1. CASE At(s) = 0
  <2>1. putc(s, "BS") = s
    BY <1>1 DEF putc
  <2>. QED
    BY <1>1, <2>1
<1>2. CASE At(s) # 0
  <2> DEFINE lx == IF x > 0 THEN x - 1 ELSE NUM_COLS - 1
             ly == IF x > 0 THEN y ELSE y - 1
             left == [video_mem |-> s.video_mem, screen_x |-> lx, screen_y |-> ly]
             vm == [s.video_mem EXCEPT ![At(left)] = " "]
             t == [video_mem |-> vm, screen_x |-> lx, screen_y |-> ly]
  <2>1. x > 0 \/ y > 0
    BY <1>2, <1>a, ScreenFields DEF Cell
  <2>2. lx \in 0..NUM_COLS-1 /\ ly \in 0..NUM_ROWS-1
    BY <1>a, <2>1, ScreenFields
  <2>3. Cell(lx, ly) = At(s) - 1
    <3>1. CASE x > 0
      BY <1>a, <3>1, ScreenFields DEF Cell
    <3>2. CASE ~(x > 0)
      <4>1. x = 0 /\ y \in Nat \ {0}
        BY <2>1, <3>2, ScreenFields
      <4>. QED
        BY <3>2, <4>1, RowAbove, ScreenFields
    <3>. QED
      BY <3>1, <3>2
  <2>4. At(left) = At(s) - 1 /\ At(t) = At(s) - 1
    BY <2>3 DEF At, Cell
  <2>5. putc(s, "BS") = t
    <3>1. left = IF x > 0 THEN MoveTo(s, x - 1, y) ELSE MoveTo(s, NUM_COLS - 1, y - 1)
      BY MoveToValue, Zenon
    <3>2. putc(s, "BS") = [left EXCEPT !.video_mem[At(left)] = " "]
      BY <1>2, <3>1, Zenon DEF putc
    <3>. QED
      BY <3>2
  <2>6. At(s) - 1 \in Cells
    BY <2>2, <2>3, CellType
  <2>7. vm \in [Cells -> Chars] /\ \A c \in Cells : c # At(s) - 1 => vm[c] = s.video_mem[c]
    <3>1. vm = [s.video_mem EXCEPT ![At(s) - 1] = " "]
      BY <2>4
    <3>. QED
      BY <2>6, <3>1, ScreenFields DEF Chars
  <2> HIDE DEF lx, ly, vm
  <2>8. t \in Screens
    BY <2>2, <2>7 DEF Screens, Chars
  <2>9. \A c \in Cells : c < At(s) - 1 => t.video_mem[c] = s.video_mem[c]
    <3>1. \A c \in Cells : c \in Int
      BY DEF Cells
    <3>. QED
      BY <2>7, <3>1, ScreenFields
  <2>. QED
    BY <2>4, <2>5, <2>8, <2>9
<1>. QED
  BY <1>1, <1>2

\* A character is stored under the cursor, which moves on by one cell; when it
\* leaves the screen, cursor and text move up together by one row
LEMMA PutcPrintable ==
  ASSUME NEW s \in Screens, NEW c \in Printable
  PROVE  /\ putc(s, c) \in Screens
         /\ \E m \in {0, NUM_COLS} :
              /\ At(putc(s, c)) = At(s) + 1 - m
              /\ m = NUM_COLS => At(putc(s, c)) = NUM_COLS * (NUM_ROWS - 1)
              /\ \A j \in Cells : j <= At(s) /\ m <= j =>
                   putc(s, c).video_mem[j - m] = IF j = At(s) THEN c ELSE s.video_mem[j]
<1> DEFINE x == s.screen_x
           y == s.screen_y
           vm == [s.video_mem EXCEPT ![At(s)] = c]
           nx == IF x + 1 >= NUM_COLS THEN 0 ELSE x + 1
           ny == IF x + 1 >= NUM_COLS THEN y + 1 ELSE y
           right == [video_mem |-> vm, screen_x |-> nx, screen_y |-> ny]
<1>a. NUM_ROWS \in Nat \ {0} /\ NUM_COLS \in Nat \ {0} /\ x \in Nat /\ y \in Nat
      /\ x <= NUM_COLS - 1 /\ y <= NUM_ROWS - 1
  BY TerminalAssumption, ScreenFields
<1>1. putc(s, c) = scroll(right)
  <2>1. c # "NL" /\ c # "BS"
    BY DEF Printable
  <2>2. [s EXCEPT !.video_mem[At(s)] = c] = [video_mem |-> vm, screen_x |-> x, screen_y |-> y]
    BY ScreenFields
  <2>3. right = IF x + 1 >= NUM_COLS THEN MoveTo([s EXCEPT !.video_mem[At(s)] = c], 0, y + 1)
                ELSE MoveTo([s EXCEPT !.video_mem[At(s)] = c], x + 1, y)
    BY <2>2 DEF MoveTo
  <2>. QED
    BY <2>1, <2>3, Zenon DEF putc
<1>2. vm \in [Cells -> Chars] /\ \A j \in Cells : vm[j] = IF j = At(s) THEN c ELSE s.video_mem[j]
  BY ScreenFields DEF Chars
<1> HIDE DEF vm
<1>3. right \in Moved /\ (ny = NUM_ROWS => nx = 0)
  <2>1. nx \in 0..NUM_COLS-1 /\ ny \in 0..NUM_ROWS /\ (ny = NUM_ROWS => nx = 0)
    BY <1>a
  <2> HIDE DEF nx, ny
  <2>. QED
    BY <1>2, <2>1 DEF Moved
<1>4. Cell(nx, ny) = At(s) + 1
  <2>1. CASE x + 1 >= NUM_COLS
    <3>1. x = NUM_COLS - 1
      BY <1>a, <2>1
    <3>. QED
      BY <1>a, <2>1, <3>1, RowBelow, ScreenFields
  <2>2. CASE ~(x + 1 >= NUM_COLS)
    BY <1>a, <2>2, ScreenFields DEF Cell
  <2>. QED
    BY <2>1, <2>2
<1> HIDE DEF nx, ny
<1>5. right.screen_y = ny /\ right.screen_x = nx /\ right.video_mem = vm
  OBVIOUS
<1>6. putc(s, c) \in Screens
  BY <1>1, <1>3, <1>5, ScrollType
<1>7. CASE ny < NUM_ROWS
  <2>1. putc(s, c) = right
    BY <1>1, <1>3, <1>5, <1>7, ScrollType
  <2>2. At(putc(s, c)) = At(s) + 1 - 0
    BY <1>4, <1>5, <2>1, ScreenFields DEF At, Cell
  <2>3. ASSUME NEW j \in Cells
        PROVE  putc(s, c).video_mem[j - 0] = IF j = At(s) THEN c ELSE s.video_mem[j]
    <3>1. j - 0 = j
      BY DEF Cells
    <3>. QED
      BY <1>2, <1>5, <2>1, <3>1
  <2>4. 0 # NUM_COLS
    BY <1>a
  <2>. QED
    BY <1>6, <2>2, <2>3, <2>4
<1>8. CASE ~(ny < NUM_ROWS)
  <2> DEFINE t == scroll(right)
  <2>1. ny = NUM_ROWS /\ nx = 0
    BY <1>3, <1>5, <1>8, <1>a DEF Moved
  <2>2. /\ t.screen_x = 0 /\ t.screen_y = NUM_ROWS - 1
        /\ \A d \in Cells : d + NUM_COLS \in Cells => t.video_mem[d] = right.video_mem[d + NUM_COLS]
    BY <1>3, <1>5, <2>1, ScrollType
  <2> HIDE DEF t
  <2>3. At(t) = NUM_COLS * (NUM_ROWS - 1)
    BY <1>a, <2>2 DEF At
  <2>4. At(s) + 1 = NUM_COLS * NUM_ROWS
    BY <1>4, <1>a, <2>1 DEF Cell
  <2>5. At(t) = At(s) + 1 - NUM_COLS
    BY <1>a, <2>3, <2>4, ScreenFields
  <2>6. ASSUME NEW j \in Cells, NUM_COLS <= j
        PROVE  t.video_mem[j - NUM_COLS] = IF j = At(s) THEN c ELSE s.video_mem[j]
    <3>1. j \in Int /\ j - NUM_COLS \in Cells /\ (j - NUM_COLS) + NUM_COLS = j
      BY <1>a, <2>6 DEF Cells
    <3>2. t.video_mem[j - NUM_COLS] = vm[j]
      BY <1>5, <2>2, <3>1
    <3>. QED
      BY <1>2, <3>2
  <2>. QED
    BY <1>1, <1>6, <2>3, <2>5, <2>6 DEF t
<1>. QED
  BY <1>7, <1>8

----------------------------------------------------------------------------
(* The inductive invariant *)

\* A key that getchar finds in the slot is one that it has not copied, except
\* between the copy and the store that clears the slot
Delivery ==
  /\ pc = "take" => pushed_key # NoKey
  /\ pc # "clear" /\ pushed_key # NoKey => fresh

IInv == TypeOK /\ ScreenShowsLine /\ NoStuckModifier /\ Delivery

LEMMA InitIInv == Init => IInv
<1> SUFFICES ASSUME Init PROVE IInv
  OBVIOUS
<1>1. TypeOK
  <2>1. screen \in Screens
    <3>1. PICK x \in 0..NUM_COLS-1, y \in 0..NUM_ROWS-1 :
            screen = [video_mem |-> blank, screen_x |-> x, screen_y |-> y]
      BY DEF Init
    <3>2. blank \in [Cells -> Printable \union {" "}]
      BY DEF blank
    <3>. QED
      BY <3>1, <3>2 DEF Screens
  <2>2. max \in Nat
    BY TerminalAssumption DEF Init, max
  <2>3. Len(line) <= max
    BY <2>2 DEF Init
  <2>4. {ctrl_stat, shift_stat, alt_stat, caps_stat} \subseteq BOOLEAN
    BY DEF Init
  <2>5. line \in Seq(Printable) /\ rest \in Seq(Printable \union {"BS", "NL"})
    BY DEF Init
  <2>6. /\ pushed_key \in Keycodes \union {NoKey} /\ key \in Keycodes \union {NoKey}
        /\ held \subseteq Held /\ fresh \in BOOLEAN /\ interrupts \in BOOLEAN
        /\ pc = "program" /\ num_chars \in Nat
    BY DEF Init
  <2>. QED
    BY <2>1, <2>3, <2>4, <2>5, <2>6 DEF TypeOK
<1>2. ScreenShowsLine
  BY DEF Init, ScreenShowsLine
<1>3. NoStuckModifier /\ Delivery
  BY DEF Init, NoStuckModifier, Ctrl, Alt, Shift, Delivery
<1>. QED
  BY <1>1, <1>2, <1>3 DEF IInv

----------------------------------------------------------------------------
(* The interrupt handler *)

LEMMA KeycodeType ==
  ASSUME NEW scancode
  PROVE  keycode(scancode) \in Keycodes \union {NoKey}
<1>1. Translate(scancode) \in Keycodes \union {NoKey}
  BY DEF Translate, Keycodes, Printable, NoKey
<1>. QED
  BY <1>1 DEF keycode, Keycodes, NoKey

LEMMA ReleaseValues ==
  /\ \A up \in DOMAIN Releases : up \notin Held
  /\ Ctrl \subseteq Held /\ Alt \subseteq Held /\ Shift \subseteq Held
<1>1. DOMAIN Releases = {"ctrl_left_up", "ctrl_right_up", "alt_left_up", "alt_right_up",
                         "shift_left_up", "shift_right_up"}
  BY DEF Releases
<1>. QED
  BY <1>1 DEF Ctrl, Alt, Shift, Held

\* What NoStuckModifier says of one modifier and its two keys
Follows(stat, keys, down) == /\ stat => down \intersect keys # {}
                             /\ keys \subseteq down => stat

LEMMA ModifierFollows ==
  ASSUME NEW stat \in BOOLEAN, NEW keys, NEW scancode, NEW down, NEW next,
         keys \subseteq Held, keys \intersect DOMAIN Releases = {},
         Follows(stat, keys, down),
         \/ /\ scancode \in DOMAIN Releases /\ Releases[scancode] \in down
            /\ next = down \ {Releases[scancode]}
         \/ scancode \notin DOMAIN Releases /\ next = down \union ({scancode} \intersect Held)
  PROVE  Follows(After(stat, keys, scancode), keys, next)
<1>1. CASE scancode \in Ups(keys)
  <2>1. scancode \in DOMAIN Releases /\ Releases[scancode] \in keys
    BY <1>1 DEF Ups
  <2>2. ~After(stat, keys, scancode)
    BY <1>1 DEF After
  <2>3. ~(keys \subseteq next)
    BY <2>1
  <2>. QED
    BY <2>2, <2>3 DEF Follows
<1>2. CASE scancode \notin Ups(keys) /\ scancode \in DOMAIN Releases
  <2>1. Releases[scancode] \notin keys /\ scancode \notin keys
    BY <1>2 DEF Ups
  <2>2. After(stat, keys, scancode) <=> stat
    BY <1>2, <2>1 DEF After
  <2>3. next \intersect keys = down \intersect keys /\ (keys \subseteq next <=> keys \subseteq down)
    BY <1>2, <2>1
  <2>. QED
    BY <2>2, <2>3 DEF Follows
<1>3. CASE scancode \notin DOMAIN Releases
  <2>1. scancode \notin Ups(keys)
    BY <1>3 DEF Ups
  <2>2. After(stat, keys, scancode) <=> (stat \/ scancode \in keys)
    BY <2>1 DEF After
  <2>3. CASE scancode \in keys
    <3>1. scancode \in next
      BY <1>3, <2>3
    <3>. QED
      BY <2>2, <2>3, <3>1 DEF Follows
  <2>4. CASE scancode \notin keys
    <3>1. next \intersect keys = down \intersect keys
          /\ (keys \subseteq next <=> keys \subseteq down)
      BY <1>3, <2>4
    <3>. QED
      BY <2>2, <2>4, <3>1 DEF Follows
  <2>. QED
    BY <2>3, <2>4
<1>. QED
  BY <1>1, <1>2, <1>3

\* A key that is no modifier changes none of them, and none of their keys
LEMMA ModifiersKept ==
  ASSUME IInv, NEW scancode \in Scancodes, Press(scancode),
         IF scancode \in ModifierCodes THEN Modifier(scancode) ELSE Character(scancode)
  PROVE  NoStuckModifier' /\ held' \subseteq Held
<1>1. /\ Follows(ctrl_stat, Ctrl, held) /\ Follows(alt_stat, Alt, held)
      /\ Follows(shift_stat, Shift, held) /\ held \subseteq Held
      /\ ctrl_stat \in BOOLEAN /\ alt_stat \in BOOLEAN /\ shift_stat \in BOOLEAN
  BY DEF IInv, TypeOK, NoStuckModifier, Follows
<1>2. \/ /\ scancode \in DOMAIN Releases /\ Releases[scancode] \in held
         /\ held' = held \ {Releases[scancode]}
      \/ scancode \notin DOMAIN Releases /\ held' = held \union ({scancode} \intersect Held)
  BY DEF Press
<1>3. held' \subseteq Held
  BY <1>1, <1>2
<1>4. CASE scancode \in ModifierCodes
  <2>1. /\ ctrl_stat' <=> After(ctrl_stat, Ctrl, scancode)
        /\ alt_stat' <=> After(alt_stat, Alt, scancode)
        /\ shift_stat' <=> After(shift_stat, Shift, scancode)
    BY <1>4, Zenon DEF Modifier
  <2>2. /\ Follows(After(ctrl_stat, Ctrl, scancode), Ctrl, held')
        /\ Follows(After(alt_stat, Alt, scancode), Alt, held')
        /\ Follows(After(shift_stat, Shift, scancode), Shift, held')
    BY <1>1, <1>2, ReleaseValues, ModifierFollows
  <2>. QED
    BY <1>3, <2>1, <2>2 DEF NoStuckModifier, Follows
<1>5. CASE scancode \notin ModifierCodes
  <2>1. UNCHANGED <<ctrl_stat, shift_stat, alt_stat>>
    BY <1>5 DEF Character
  <2>2. held' = held
    BY <1>2, <1>5 DEF ModifierCodes
  <2>. QED
    BY <1>1, <1>3, <2>1, <2>2 DEF NoStuckModifier, Follows
<1>. QED
  BY <1>4, <1>5

LEMMA HandlerIInv ==
  ASSUME IInv, NEW scancode \in Keyboard, handle_charpress(scancode)
  PROVE  IInv'
<1>1. /\ Press(scancode) /\ scancode \in Scancodes
      /\ IF scancode \in ModifierCodes THEN Modifier(scancode) ELSE Character(scancode)
      /\ UNCHANGED <<interrupts, pc, key, num_chars, line, rest, screen>>
  BY TerminalAssumption DEF handle_charpress
<1>2. NoStuckModifier' /\ held' \subseteq Held
  BY <1>1, ModifiersKept
<1>3. {ctrl_stat', shift_stat', alt_stat', caps_stat'} \subseteq BOOLEAN
  BY <1>1 DEF IInv, TypeOK, Modifier, After, Character
<1>4. \/ UNCHANGED <<pushed_key, fresh>>
      \/ pushed_key' \in Keycodes /\ pushed_key' # NoKey /\ fresh' = TRUE
  BY <1>1, KeycodeType DEF Modifier, Character
<1>5. TypeOK'
  BY <1>1, <1>2, <1>3, <1>4 DEF IInv, TypeOK, max
<1>6. ScreenShowsLine'
  BY <1>1 DEF IInv, ScreenShowsLine, At
<1>7. Delivery'
  BY <1>1, <1>4 DEF IInv, Delivery
<1>. QED
  BY <1>2, <1>5, <1>6, <1>7 DEF IInv

----------------------------------------------------------------------------
(* The program's side *)

LEMMA PutcType ==
  ASSUME NEW s \in Screens, NEW c \in Printable \union {"BS", "NL"}
  PROVE  putc(s, c) \in Screens
BY PutcNewline, PutcBackspace, PutcPrintable

LEMMA WriteIInv ==
  ASSUME IInv,
         (\E buffer \in Texts : terminal_write(buffer)) \/ terminal_write_char
  PROVE  IInv'
<1>1. UNCHANGED <<ctrl_stat, shift_stat, alt_stat, caps_stat, held, pushed_key, fresh, key,
                  num_chars, line>>
  BY DEF terminal_write, terminal_write_char, modifiers
<1>2. pc \in {"program", "write"} /\ pc' \in {"program", "write"} /\ interrupts' \in BOOLEAN
  BY DEF terminal_write, terminal_write_char
<1>3. /\ rest' \in Seq(Printable \union {"BS", "NL"}) /\ (pc' = "write" => rest' # <<>>)
      /\ screen' \in Screens
  <2>1. ASSUME NEW buffer \in Texts, terminal_write(buffer)
        PROVE  /\ rest' \in Seq(Printable \union {"BS", "NL"}) /\ (pc' = "write" => rest' # <<>>)
               /\ screen' = screen
    BY <2>1, TerminalAssumption DEF terminal_write
  <2>2. ASSUME terminal_write_char
        PROVE  /\ rest' \in Seq(Printable \union {"BS", "NL"}) /\ (pc' = "write" => rest' # <<>>)
               /\ screen' \in Screens
    <3>1. /\ rest \in Seq(Printable \union {"BS", "NL"}) /\ rest # <<>> /\ screen \in Screens
          /\ screen' = putc(screen, Head(rest)) /\ rest' = Tail(rest)
          /\ pc' = IF Len(rest) = 1 THEN "program" ELSE "write"
      BY <2>2 DEF terminal_write_char, IInv, TypeOK
    <3>2. Head(rest) \in Printable \union {"BS", "NL"} /\ Len(rest) >= 1 /\ Len(rest) \in Nat
          /\ Tail(rest) \in Seq(Printable \union {"BS", "NL"}) /\ Len(Tail(rest)) = Len(rest) - 1
      <4> DEFINE S == Printable \union {"BS", "NL"}
      <4>1. rest \in Seq(S) /\ rest # <<>>
        BY <3>1
      <4> HIDE DEF S
      <4>2. Head(rest) \in S /\ Tail(rest) \in Seq(S) /\ Len(Tail(rest)) = Len(rest) - 1
            /\ Len(rest) >= 1 /\ Len(rest) \in Nat
        BY <4>1
      <4>. QED
        BY <4>2 DEF S
    <3>3. pc' = "write" => Len(rest') # 0
      BY <3>1, <3>2
    <3>4. screen' \in Screens
      BY <3>1, <3>2, PutcType
    <3>. QED
      BY <3>1, <3>2, <3>3, <3>4
  <2>. QED
    BY <2>1, <2>2 DEF IInv, TypeOK
<1>4. TypeOK'
  BY <1>1, <1>2, <1>3 DEF IInv, TypeOK, max
<1>5. ScreenShowsLine'
  BY <1>2 DEF ScreenShowsLine
<1>6. NoStuckModifier' /\ Delivery'
  BY <1>1, <1>2 DEF IInv, NoStuckModifier, Delivery
<1>. QED
  BY <1>4, <1>5, <1>6 DEF IInv

LEMMA ReadIInv ==
  ASSUME IInv, NEW size \in Sizes, terminal_read(size)
  PROVE  IInv'
<1>1. /\ pc = "program" /\ pc' = "sti" /\ num_chars' = size /\ line' = <<>>
      /\ interrupts' \in BOOLEAN
      /\ UNCHANGED <<ctrl_stat, shift_stat, alt_stat, caps_stat, held, pushed_key, fresh, key, rest,
                     screen>>
  BY DEF terminal_read, modifiers
<1>2. size \in Nat /\ max' \in Nat /\ line' \in Seq(Printable) /\ Len(line') = 0
  BY <1>1, TerminalAssumption DEF max
<1>3. TypeOK'
  BY <1>1, <1>2 DEF IInv, TypeOK
<1>4. ScreenShowsLine'
  <2>1. At(screen') \in Nat
    BY <1>1, ScreenFields DEF IInv, TypeOK
  <2>. QED
    BY <1>1, <1>2, <2>1 DEF ScreenShowsLine, At
<1>5. NoStuckModifier' /\ Delivery'
  BY <1>1 DEF IInv, NoStuckModifier, Delivery
<1>. QED
  BY <1>3, <1>4, <1>5 DEF IInv

LEMMA GetcharIInv ==
  ASSUME IInv, sti \/ getchar_poll \/ getchar_take \/ getchar_clear
  PROVE  IInv'
<1>1. UNCHANGED <<ctrl_stat, shift_stat, alt_stat, caps_stat, held, num_chars, line, rest, screen>>
  BY DEF sti, getchar_poll, getchar_take, getchar_clear, modifiers
<1>2. /\ pc \in {"sti", "poll", "take", "clear"} /\ pc' \in {"poll", "take", "clear", "edit"}
      /\ interrupts' \in BOOLEAN
      /\ pushed_key' \in Keycodes \union {NoKey} /\ key' \in Keycodes \union {NoKey}
      /\ fresh' \in BOOLEAN
  BY DEF sti, getchar_poll, getchar_take, getchar_clear, IInv, TypeOK
<1>3. TypeOK'
  BY <1>1, <1>2 DEF IInv, TypeOK, max
<1>4. ScreenShowsLine'
  BY <1>1, <1>2 DEF IInv, ScreenShowsLine, At
<1>5. NoStuckModifier'
  BY <1>1 DEF IInv, NoStuckModifier
<1>6. Delivery'
  BY DEF sti, getchar_poll, getchar_take, getchar_clear, IInv, Delivery
<1>. QED
  BY <1>3, <1>4, <1>5, <1>6 DEF IInv

----------------------------------------------------------------------------
(* The line editor *)

\* The line as the screen shows it, for any screen and line
Shows(s, l) ==
  /\ Len(l) <= At(s)
  /\ \A i \in 1..Len(l) : s.video_mem[At(s) - Len(l) + i - 1] = l[i]

LEMMA ShowsInserted ==
  ASSUME NEW s \in Screens, NEW l \in Seq(Printable), NEW c \in Printable,
         Shows(s, l), Len(l) + 1 <= NUM_COLS * (NUM_ROWS - 1)
  PROVE  Shows(putc(s, c), Append(l, c))
<1> DEFINE t == putc(s, c)
           k == Append(l, c)
<1>1. PICK m \in {0, NUM_COLS} :
        /\ At(t) = At(s) + 1 - m
        /\ m = NUM_COLS => At(t) = NUM_COLS * (NUM_ROWS - 1)
        /\ \A j \in Cells : j <= At(s) /\ m <= j =>
             t.video_mem[j - m] = IF j = At(s) THEN c ELSE s.video_mem[j]
  BY PutcPrintable
<1>2. /\ NUM_COLS \in Nat \ {0} /\ m \in Nat /\ At(s) \in Nat /\ At(s) \in Cells /\ Len(l) \in Nat
      /\ At(t) \in Int /\ Len(l) <= At(s)
  BY <1>1, TerminalAssumption, ScreenFields DEF Shows
<1>3. /\ Len(k) = Len(l) + 1 /\ k[Len(l) + 1] = c
      /\ \A i \in 1..Len(l) : k[i] = l[i]
  BY <1>2
<1> HIDE DEF t, k
<1>4. Len(l) + 1 <= At(t)
  <2>1. CASE m = NUM_COLS
    BY <1>1, <2>1
  <2>2. CASE m = 0
    BY <1>1, <1>2, <2>2
  <2>. QED
    BY <1>1, <2>1, <2>2
<1>5. ASSUME NEW i \in 1..Len(l) + 1
      PROVE  t.video_mem[At(t) - Len(k) + i - 1] = k[i]
  <2> DEFINE j == At(s) - Len(l) + i - 1
  <2>1. i \in Nat /\ 1 <= i /\ i <= Len(l) + 1
    BY <1>2
  <2>a. j = At(s) - Len(l) + i - 1
    OBVIOUS
  <2> HIDE DEF j
  <2>2. /\ j \in Nat /\ j <= At(s) /\ m <= j /\ At(t) - Len(k) + i - 1 = j - m
        /\ (j = At(s)) <=> (i = Len(l) + 1)
    <3>1. At(t) = At(s) + 1 - m /\ Len(k) = Len(l) + 1 /\ Len(l) + 1 <= At(s) + 1 - m
      BY <1>1, <1>3, <1>4
    <3>2. At(t) - Len(k) + i - 1 = (At(s) + 1 - m) - (Len(l) + 1) + i - 1
      BY <3>1
    <3>. QED
      <4> DEFINE A == At(s)
                 L == Len(l)
      <4>1. /\ A \in Nat /\ L \in Nat /\ i \in Nat /\ m \in Nat /\ 1 <= i /\ i <= L + 1 /\ L <= A
            /\ L + 1 <= A + 1 - m /\ j = A - L + i - 1
        BY <1>2, <2>1, <2>a, <3>1, Zenon
      <4> HIDE DEF A, L
      <4>2. /\ j \in Nat /\ j <= A /\ m <= j
            /\ (A + 1 - m) - (L + 1) + i - 1 = j - m
            /\ (j = A) <=> (i = L + 1)
        BY <4>1
      <4>. QED
        BY <3>2, <4>2, Zenon DEF A, L
  <2>3. j \in Cells
    BY <1>2, <2>2, CellsBefore
  <2>4. t.video_mem[j - m] = IF j = At(s) THEN c ELSE s.video_mem[j]
    BY <1>1, <2>2, <2>3
  <2>5. CASE i = Len(l) + 1
    <3>1. t.video_mem[j - m] = c
      BY <2>2, <2>4, <2>5
    <3>. QED
      BY <1>3, <2>2, <2>5, <3>1
  <2>6. CASE i # Len(l) + 1
    <3>1. i \in 1..Len(l)
      BY <1>2, <2>1, <2>6
    <3>2. s.video_mem[j] = l[i]
      BY <2>a, <3>1 DEF Shows
    <3>3. j # At(s)
      BY <2>2, <2>6
    <3>4. t.video_mem[j - m] = l[i]
      BY <2>4, <3>2, <3>3
    <3>. QED
      BY <1>3, <2>2, <3>1, <3>4
  <2>. QED
    BY <2>5, <2>6
<1>6. Shows(t, k)
  BY <1>3, <1>4, <1>5 DEF Shows
<1>. QED
  BY <1>6 DEF t, k

LEMMA OneLess ==
  ASSUME NEW n \in Nat, n >= 1, NEW m, m = IF 1 <= n - 1 THEN (n - 1) - 1 + 1 ELSE 0
  PROVE  m = n - 1
OBVIOUS

LEMMA Shortened ==
  ASSUME NEW l \in Seq(Printable), l # <<>>
  PROVE  LET k == SubSeq(l, 1, Len(l) - 1)
         IN  /\ k \in Seq(Printable) /\ Len(k) = Len(l) - 1
             /\ \A i \in 1..Len(l) - 1 : k[i] = l[i]
<1>1. Len(l) \in Nat /\ Len(l) >= 1
  OBVIOUS
<1>2. 1 \in 1..Len(l) + 1 /\ Len(l) - 1 \in 1 - 1..Len(l)
  BY <1>1
<1> DEFINE k == SubSeq(l, 1, Len(l) - 1)
<1>3. k = [i \in 1..Len(l) - 1 |-> l[i]]
  BY <1>1
<1>4. k \in Seq(Printable)
  BY <1>1, <1>2, SubSeqProperties
<1>5. Len(k) = Len(l) - 1
  <2>1. Len(k) = IF 1 <= Len(l) - 1 THEN (Len(l) - 1) - 1 + 1 ELSE 0
    BY <1>1, SubSeqProperties
  <2> HIDE DEF k
  <2>. QED
    BY <1>1, <2>1, OneLess, Zenon
<1> HIDE DEF k
<1>6. \A i \in 1..Len(l) - 1 : k[i] = l[i]
  BY <1>3
<1>. QED
  BY <1>4, <1>5, <1>6 DEF k

LEMMA ShowsErased ==
  ASSUME NEW s \in Screens, NEW l \in Seq(Printable), Shows(s, l), l # <<>>
  PROVE  Shows(putc(s, "BS"), SubSeq(l, 1, Len(l) - 1))
<1> DEFINE t == putc(s, "BS")
           k == SubSeq(l, 1, Len(l) - 1)
<1>1. /\ At(s) \in Nat /\ At(s) \in Cells /\ Len(l) \in Nat /\ Len(l) >= 1 /\ Len(l) <= At(s)
  BY ScreenFields DEF Shows
<1>2. /\ At(t) = At(s) - 1
      /\ \A c \in Cells : c < At(s) - 1 => t.video_mem[c] = s.video_mem[c]
  BY <1>1, PutcBackspace
<1>3. Len(k) = Len(l) - 1 /\ \A i \in 1..Len(l) - 1 : k[i] = l[i]
  BY Shortened
<1> HIDE DEF t, k
<1>4. ASSUME NEW i \in 1..Len(l) - 1
      PROVE  t.video_mem[At(t) - Len(k) + i - 1] = k[i]
  <2> DEFINE j == At(s) - Len(l) + i - 1
  <2>1. i \in Nat /\ 1 <= i /\ i <= Len(l) - 1 /\ i \in 1..Len(l)
    BY <1>1
  <2>2. j \in Nat /\ j < At(s) - 1 /\ At(t) - Len(k) + i - 1 = j
    BY <1>1, <1>2, <1>3, <2>1
  <2>3. j \in Cells
    BY <1>1, <2>2, CellsBefore
  <2>4. t.video_mem[j] = s.video_mem[j] /\ s.video_mem[j] = l[i]
    BY <1>2, <2>1, <2>2, <2>3 DEF Shows
  <2>. QED
    BY <1>3, <2>2, <2>4
<1>5. Len(k) <= At(t)
  BY <1>1, <1>2, <1>3
<1>6. Shows(t, k)
  BY <1>3, <1>4, <1>5 DEF Shows
<1>. QED
  BY <1>6 DEF t, k

LEMMA GetlineIInv == IInv /\ getline => IInv'
<1> SUFFICES ASSUME IInv, getline PROVE IInv'
  OBVIOUS
<1>1. /\ pc = "edit" /\ screen \in Screens /\ line \in Seq(Printable) /\ Len(line) <= max
      /\ Len(line) \in Nat /\ key \in Keycodes \union {NoKey}
      /\ UNCHANGED <<ctrl_stat, shift_stat, alt_stat, caps_stat, held, pushed_key, fresh, key,
                     num_chars, rest>>
      /\ interrupts' \in BOOLEAN
  BY DEF getline, IInv, TypeOK, modifiers
<1>2. max \in Nat /\ max <= MAX_INPUT_CHARS /\ max' = max
      /\ MAX_INPUT_CHARS \in Nat /\ MAX_INPUT_CHARS <= NUM_COLS * (NUM_ROWS - 1)
      /\ NUM_COLS * (NUM_ROWS - 1) \in Int
  BY <1>1, TerminalAssumption DEF max, IInv, TypeOK
<1>3. Shows(screen, line)
  BY <1>1 DEF IInv, ScreenShowsLine, Shows
<1>4. /\ pc' \in {"program", "poll"} /\ screen' \in Screens
      /\ line' \in Seq(Printable) /\ Len(line') <= max
      /\ pc' # "program" => Shows(screen', line')
  <2>1. CASE Enter
    <3>1. pc' = "program" /\ screen' = putc(screen, "NL") /\ line' = <<>>
      BY <2>1 DEF Enter
    <3>2. screen' \in Screens
      BY <1>1, <3>1, PutcNewline
    <3>. QED
      BY <1>2, <3>1, <3>2
  <2>2. CASE Backspace
    <3>1. pc' = "poll"
      BY <2>2 DEF Backspace
    <3>2. CASE line = <<>>
      <4>1. UNCHANGED <<line, screen>>
        BY <2>2, <3>2 DEF Backspace
      <4>. QED
        BY <1>1, <1>3, <3>1, <4>1
    <3>3. CASE line # <<>>
      <4>1. line' = SubSeq(line, 1, Len(line) - 1) /\ screen' = putc(screen, "BS")
        BY <2>2, <3>3 DEF Backspace
      <4>2. screen' \in Screens /\ Shows(screen', line')
        BY <1>1, <1>3, <3>3, <4>1, PutcBackspace, ShowsErased
      <4>3. line' \in Seq(Printable) /\ Len(line') = Len(line) - 1
        BY <1>1, <3>3, <4>1, Shortened
      <4>. QED
        BY <1>1, <1>2, <3>1, <4>2, <4>3
    <3>. QED
      BY <3>2, <3>3
  <2>3. CASE ClearScreen
    <3>1. pc' = "poll" /\ screen' = clear /\ line' = <<>>
      BY <2>3 DEF ClearScreen
    <3>2. clear \in Screens
      <4>1. blank \in [Cells -> Printable \union {" "}] /\ 0 \in 0..NUM_COLS-1 /\ 0 \in 0..NUM_ROWS-1
        BY TerminalAssumption DEF blank
      <4>. QED
        BY <4>1 DEF clear, Screens
    <3>3. Shows(screen', line')
      BY <3>1, <3>2, ScreenFields DEF Shows
    <3>. QED
      BY <1>2, <3>1, <3>2, <3>3
  <2>4. CASE Insert
    <3>1. pc' = "poll"
      BY <2>4 DEF Insert
    <3>2. CASE Len(line) >= max \/ key \notin Printable
      <4>1. UNCHANGED <<line, screen>>
        BY <2>4, <3>2 DEF Insert
      <4>. QED
        BY <1>1, <1>3, <3>1, <4>1
    <3>3. CASE ~(Len(line) >= max \/ key \notin Printable)
      <4>1. line' = Append(line, key) /\ screen' = putc(screen, key) /\ key \in Printable
        BY <2>4, <3>3 DEF Insert
      <4>2. Len(line) + 1 <= max /\ Len(line) + 1 <= NUM_COLS * (NUM_ROWS - 1)
        BY <1>1, <1>2, <3>3
      <4>3. screen' \in Screens /\ Shows(screen', line')
        BY <1>1, <1>3, <4>1, <4>2, PutcPrintable, ShowsInserted
      <4>4. line' \in Seq(Printable) /\ Len(line') = Len(line) + 1
        BY <1>1, <4>1
      <4>. QED
        BY <3>1, <4>2, <4>3, <4>4
    <3>. QED
      BY <3>2, <3>3
  <2>. QED
    BY <2>1, <2>2, <2>3, <2>4 DEF getline
<1>5. TypeOK'
  BY <1>1, <1>2, <1>4 DEF IInv, TypeOK
<1>6. ScreenShowsLine'
  BY <1>4 DEF ScreenShowsLine, Shows, At
<1>7. NoStuckModifier' /\ Delivery'
  BY <1>1, <1>4 DEF IInv, NoStuckModifier, Delivery
<1>. QED
  BY <1>5, <1>6, <1>7 DEF IInv

----------------------------------------------------------------------------

LEMMA StepIInv == IInv /\ [Next]_vars => IInv'
<1> SUFFICES ASSUME IInv, [Next]_vars PROVE IInv'
  OBVIOUS
<1>1. CASE Next
  BY <1>1, HandlerIInv, WriteIInv, ReadIInv, GetcharIInv, GetlineIInv, Zenon DEF Next, Kernel
<1>2. CASE UNCHANGED vars
  <2>1. UNCHANGED <<ctrl_stat, shift_stat, alt_stat, caps_stat, held, interrupts, pushed_key,
                    fresh, pc, key, num_chars, line, rest, screen>>
    BY <1>2 DEF vars, modifiers
  <2>2. TypeOK'
    BY <2>1 DEF IInv, TypeOK, max
  <2>3. ScreenShowsLine'
    BY <2>1 DEF IInv, ScreenShowsLine, At
  <2>4. NoStuckModifier' /\ Delivery'
    BY <2>1 DEF IInv, NoStuckModifier, Delivery
  <2>. QED
    BY <2>2, <2>3, <2>4 DEF IInv
<1>. QED
  BY <1>1, <1>2

LEMMA SpecIInv == Spec => []IInv
BY InitIInv, StepIInv, PTL DEF Spec

(***************************************************************************)
(* The modifiers, the key slot, the line and the screen keep their types:  *)
(* no line of getline outgrows the size that terminal_read allows, and     *)
(* putc keeps the cursor, and every store, on the screen.                  *)
(***************************************************************************)
THEOREM TypesKept == Spec => []TypeOK
<1>1. IInv => TypeOK
  BY DEF IInv
<1>. QED
  BY <1>1, SpecIInv, PTL

(***************************************************************************)
(* While getline edits, the cells before the cursor show the line that it  *)
(* holds, however it wraps, scrolls and is erased, as long as a line does  *)
(* not fill the screen.                                                    *)
(***************************************************************************)
THEOREM ScreenShowsLineAlways == Spec => []ScreenShowsLine
<1>1. IInv => ScreenShowsLine
  BY DEF IInv
<1>. QED
  BY <1>1, SpecIInv, PTL

(***************************************************************************)
(* In whatever order keys are pressed and released, handle_charpress takes *)
(* control, alt and shift for held never longer than one of their keys is  *)
(* down, and always while both are.                                        *)
(***************************************************************************)
THEOREM NoModifierSticks == Spec => []NoStuckModifier
<1>1. IInv => NoStuckModifier
  BY DEF IInv
<1>. QED
  BY <1>1, SpecIInv, PTL

(***************************************************************************)
(* getchar takes no key press twice, wherever the keyboard's interrupt     *)
(* falls between its polling, its copy and its store to pushed_key.        *)
(***************************************************************************)
THEOREM KeysDeliveredOnce == Spec => DeliveredOnce
<1>1. IInv /\ [Next]_vars => [pc = "take" /\ pc' = "clear" => fresh]_vars
  BY DEF IInv, Delivery
<1>. QED
  BY <1>1, SpecIInv, PTL DEF Spec, DeliveredOnce
=============================================================================
