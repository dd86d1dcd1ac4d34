------------------------------ MODULE Terminal ------------------------------
(***************************************************************************)
(* The keyboard (keyboard.c), the line editor behind read(0, ...)          *)
(* (getline, terminal_read) and the text screen (putc and clear of lib.c). *)
(*                                                                         *)
(* Two actors share pushed_key, a single slot: the interrupt handler       *)
(* handle_charpress, and getchar, which polls it with interrupts enabled   *)
(* and reads it, copies it and clears it in separate instructions.         *)
(***************************************************************************)
EXTENDS Integers, Sequences

CONSTANTS
  NUM_COLS, NUM_ROWS, \* the screen (80 by 25)
  MAX_INPUT_CHARS,    \* longest line terminal_read returns (128)
  Keyboard,           \* the scan codes the user produces
  Sizes,              \* the sizes programs pass to read
  Texts               \* the texts programs write

Cells == 0..NUM_COLS*NUM_ROWS-1

\* Scan codes: the modifiers and their release, two letters, a digit, the
\* editing keys, escape, and "up" for a key that scan2ascii does not translate
\* and for the release of any key.  The right-hand control and alt send the
\* bytes of the left-hand ones after a prefix, which by itself does nothing.
Releases == [ctrl_left_up |-> "ctrl_left", ctrl_right_up |-> "ctrl_right",
             alt_left_up |-> "alt_left", alt_right_up |-> "alt_right",
             shift_left_up |-> "shift_left", shift_right_up |-> "shift_right"]
Ctrl  == {"ctrl_left", "ctrl_right"}
Alt   == {"alt_left", "alt_right"}
Shift == {"shift_left", "shift_right"}
Held  == Ctrl \union Alt \union Shift
ModifierCodes == Held \union DOMAIN Releases \union {"caps"}
Scancodes == ModifierCodes \union {"a", "l", "1", "backspace", "enter", "esc", "up"}

\* Characters, and the codes BS, CAP (which is '\r'), CTRL_L and ESC
Printable == {"a", "A", "l", "L", "1", "!"}
Keycodes == Printable \union {"BS", "CAP", "CTRL_L", "ESC"}
NoKey == "none"

ASSUME TerminalAssumption ==
  /\ NUM_COLS \in Nat \ {0} /\ NUM_ROWS \in Nat \ {0}
  /\ MAX_INPUT_CHARS \in Nat
  /\ MAX_INPUT_CHARS <= NUM_COLS * (NUM_ROWS - 1)  \* a line never fills the screen
  /\ Keyboard \subseteq Scancodes
  /\ Sizes \subseteq Nat
  /\ Texts \subseteq Seq(Printable \union {"BS", "NL"})

VARIABLES
  ctrl_stat, shift_stat, alt_stat, caps_stat, \* the modifiers
  held,       \* the modifier keys the user holds down
  interrupts, \* the interrupt flag of the processor
  pushed_key, \* the key not yet picked up, "none" for 0
  fresh,      \* whether getchar has not yet copied the key in pushed_key
  pc,         \* where the processor is: a program, or a step of getchar/getline
  key,        \* getchar's local
  num_chars,  \* the size passed to terminal_read
  line,       \* the characters from buf to lp
  rest,       \* what terminal_write has not put on the screen yet
  screen      \* video memory and the cursor

modifiers == <<ctrl_stat, shift_stat, alt_stat, caps_stat, held>>
vars == <<modifiers, interrupts, pushed_key, fresh, pc, key, num_chars, line, rest, screen>>

\* terminal_read truncates the size it passes to getline
max == IF num_chars > MAX_INPUT_CHARS THEN MAX_INPUT_CHARS ELSE num_chars

Screens == [video_mem : [Cells -> Printable \union {" "}],
            screen_x : 0..NUM_COLS-1, screen_y : 0..NUM_ROWS-1]

TypeOK ==
  /\ {ctrl_stat, shift_stat, alt_stat, caps_stat} \subseteq BOOLEAN
  /\ held \subseteq Held
  /\ interrupts \in BOOLEAN
  /\ pushed_key \in Keycodes \union {NoKey}
  /\ fresh \in BOOLEAN
  /\ pc \in {"program", "write", "sti", "poll", "take", "clear", "edit"}
  /\ key \in Keycodes \union {NoKey}
  /\ num_chars \in Nat
  /\ line \in Seq(Printable) /\ Len(line) <= max
  /\ rest \in Seq(Printable \union {"BS", "NL"}) /\ (pc = "write" => rest # <<>>)
  /\ screen \in Screens

blank == [c \in Cells |-> " "]

\* entry has cleared the screen and printed to it: any cursor will do
Init ==
  /\ ctrl_stat = FALSE /\ shift_stat = FALSE
  /\ alt_stat = FALSE /\ caps_stat = FALSE
  /\ held = {} /\ interrupts = TRUE
  /\ pushed_key = NoKey /\ fresh = FALSE
  /\ pc = "program"
  /\ key = NoKey
  /\ num_chars = 0 /\ line = <<>> /\ rest = <<>>
  /\ \E x \in 0..NUM_COLS-1, y \in 0..NUM_ROWS-1 :
        screen = [video_mem |-> blank, screen_x |-> x, screen_y |-> y]

----------------------------------------------------------------------------
(* The screen *)

At(s) == NUM_COLS * s.screen_y + s.screen_x

MoveTo(s, x, y) == [s EXCEPT !.screen_x = x, !.screen_y = y]

\* Mutant: the cursor stays on the last row, the text is not moved up
scroll_keeps_row(s) ==
  IF s.screen_y < NUM_ROWS THEN s
  ELSE [s EXCEPT !.screen_y = NUM_ROWS - 1]

scroll(s) ==
  IF s.screen_y < NUM_ROWS THEN s
  ELSE [s EXCEPT !.screen_y = NUM_ROWS - 1,
                 !.video_mem = [c \in Cells |-> IF c + NUM_COLS \in Cells
                                                THEN @[c + NUM_COLS] ELSE " "]]

\* A backspace at the top left corner is ignored
putc(s, c) ==
  LET newline == MoveTo(s, 0, s.screen_y + 1)
      left    == IF s.screen_x > 0 THEN MoveTo(s, s.screen_x - 1, s.screen_y)
                 ELSE MoveTo(s, NUM_COLS - 1, s.screen_y - 1)
      erased  == [left EXCEPT !.video_mem[At(left)] = " "]
      shown   == [s EXCEPT !.video_mem[At(s)] = c]
      right   == IF s.screen_x + 1 >= NUM_COLS THEN MoveTo(shown, 0, s.screen_y + 1)
                 ELSE MoveTo(shown, s.screen_x + 1, s.screen_y)
  IN  CASE c = "NL" -> scroll(newline)
        [] c = "BS" -> IF At(s) = 0 THEN s ELSE erased
        [] OTHER    -> scroll(right)

clear == [video_mem |-> blank, screen_x |-> 0, screen_y |-> 0]

----------------------------------------------------------------------------
(* The interrupt handler *)

\* scan2ascii[scancode][shift_stat], then caps lock on letters
Translate(scancode) ==
  LET upper == shift_stat # caps_stat
  IN  CASE scancode = "a" -> IF upper THEN "A" ELSE "a"
        [] scancode = "l" -> IF upper THEN "L" ELSE "l"
        [] scancode = "1" -> IF shift_stat THEN "!" ELSE "1"
        [] scancode = "backspace" -> "BS"
        [] scancode = "enter" -> "CAP"
        [] scancode = "esc" -> "ESC"
        [] OTHER -> NoKey

\* Alt leaves only backspace; control only backspace, enter and L
keycode(scancode) ==
  CASE alt_stat /\ scancode # "backspace" -> NoKey
    [] ctrl_stat /\ scancode = "l" -> "CTRL_L"
    [] ctrl_stat /\ scancode \notin {"backspace", "enter"} -> NoKey
    [] OTHER -> Translate(scancode)

Ups(keys) == {up \in DOMAIN Releases : Releases[up] \in keys}

\* A press of one of the keys sets the flag, a release of one clears it
After(stat, keys, scancode) == (stat \/ scancode \in keys) /\ scancode \notin Ups(keys)

\* Mutant: the release of alt is not handled
Modifier_alt_stuck(scancode) ==
  /\ ctrl_stat' = After(ctrl_stat, Ctrl, scancode)
  /\ shift_stat' = After(shift_stat, Shift, scancode)
  /\ alt_stat' = (alt_stat \/ scancode \in Alt)
  /\ caps_stat' = (caps_stat # (scancode = "caps"))
  /\ UNCHANGED <<pushed_key, fresh>>

Modifier(scancode) ==
  /\ ctrl_stat' = After(ctrl_stat, Ctrl, scancode)
  /\ shift_stat' = After(shift_stat, Shift, scancode)
  /\ alt_stat' = After(alt_stat, Alt, scancode)
  /\ caps_stat' = (caps_stat # (scancode = "caps"))
  /\ UNCHANGED <<pushed_key, fresh>>

Character(scancode) ==
  /\ IF keycode(scancode) = NoKey
     THEN UNCHANGED <<pushed_key, fresh>>
     ELSE pushed_key' = keycode(scancode) /\ fresh' = TRUE
  /\ UNCHANGED <<ctrl_stat, shift_stat, alt_stat, caps_stat>>

\* The user's side of it: only a key that is down can be released
Press(scancode) ==
  /\ scancode \in DOMAIN Releases => Releases[scancode] \in held
  /\ held' = IF scancode \in DOMAIN Releases THEN held \ {Releases[scancode]}
             ELSE held \union ({scancode} \intersect Held)

handle_charpress(scancode) ==
  /\ interrupts
  /\ Press(scancode)
  /\ IF scancode \in ModifierCodes THEN Modifier(scancode) ELSE Character(scancode)
  /\ UNCHANGED <<interrupts, pc, key, num_chars, line, rest, screen>>

----------------------------------------------------------------------------
(* The program's side *)

\* A system call starts with interrupts off, and its iret turns them on again
terminal_write(buffer) ==
  /\ pc = "program"
  /\ rest' = buffer
  /\ pc' = IF buffer = <<>> THEN "program" ELSE "write"
  /\ interrupts' = (buffer = <<>>)
  /\ UNCHANGED <<modifiers, pushed_key, fresh, key, num_chars, line, screen>>

\* The body of its loop
terminal_write_char ==
  /\ pc = "write"
  /\ screen' = putc(screen, Head(rest))
  /\ rest' = Tail(rest)
  /\ pc' = IF Len(rest) = 1 THEN "program" ELSE "write"
  /\ interrupts' = (Len(rest) = 1)
  /\ UNCHANGED <<modifiers, pushed_key, fresh, key, num_chars, line>>

terminal_read(size) ==
  /\ pc = "program"
  /\ num_chars' = size
  /\ line' = <<>>
  /\ pc' = "sti"
  /\ interrupts' = FALSE
  /\ UNCHANGED <<modifiers, pushed_key, fresh, key, rest, screen>>

\* Mutant: it is commented out, as cli_and_save and restore_flags around it are
sti_commented_out ==
  /\ pc = "sti"
  /\ pc' = "poll"
  /\ UNCHANGED <<modifiers, interrupts, pushed_key, fresh, key, num_chars, line, rest, screen>>

sti ==
  /\ pc = "sti"
  /\ pc' = "poll"
  /\ interrupts' = TRUE
  /\ UNCHANGED <<modifiers, pushed_key, fresh, key, num_chars, line, rest, screen>>

\* while (!pushed_key); and the test that follows, which every key passes
getchar_poll ==
  /\ pc = "poll"
  /\ pushed_key # NoKey
  /\ pc' = "take"
  /\ UNCHANGED <<modifiers, interrupts, pushed_key, fresh, key, num_chars, line, rest, screen>>

getchar_take ==
  /\ pc = "take"
  /\ key' = pushed_key
  /\ fresh' = FALSE
  /\ pc' = "clear"
  /\ UNCHANGED <<modifiers, interrupts, pushed_key, num_chars, line, rest, screen>>

\* Mutant: the slot is left as it is
getchar_clear_forgotten ==
  /\ pc = "clear"
  /\ pc' = "edit"
  /\ UNCHANGED <<modifiers, interrupts, pushed_key, fresh, key, num_chars, line, rest, screen>>

\* A key that arrived since getchar_take is lost here
getchar_clear ==
  /\ pc = "clear"
  /\ pushed_key' = NoKey
  /\ fresh' = FALSE
  /\ pc' = "edit"
  /\ UNCHANGED <<modifiers, interrupts, key, num_chars, line, rest, screen>>

\* The terminator goes to buf[Len(line)]: one past a buffer that the line fills
Enter ==
  /\ key = "CAP"
  /\ screen' = putc(screen, "NL")
  /\ line' = <<>>
  /\ pc' = "program"

Backspace ==
  /\ key = "BS"
  /\ IF line = <<>>
     THEN UNCHANGED <<line, screen>>
     ELSE /\ line' = SubSeq(line, 1, Len(line) - 1)
          /\ screen' = putc(screen, "BS")
  /\ pc' = "poll"

ClearScreen ==
  /\ key = "CTRL_L"
  /\ screen' = clear
  /\ line' = <<>>
  /\ pc' = "poll"

\* Mutant: the limit is checked for the wrong side of the store
Insert_one_more ==
  /\ key \notin {"CAP", "BS", "CTRL_L"}
  /\ IF Len(line) > max \/ key \notin Printable
     THEN UNCHANGED <<line, screen>>
     ELSE /\ line' = Append(line, key)
          /\ screen' = putc(screen, key)
  /\ pc' = "poll"

\* Printable characters are stored and echoed while there is room
Insert ==
  /\ key \notin {"CAP", "BS", "CTRL_L"}
  /\ IF Len(line) >= max \/ key \notin Printable
     THEN UNCHANGED <<line, screen>>
     ELSE /\ line' = Append(line, key)
          /\ screen' = putc(screen, key)
  /\ pc' = "poll"

getline ==
  /\ pc = "edit"
  /\ Enter \/ Backspace \/ ClearScreen \/ Insert
  /\ interrupts' = (interrupts \/ pc' = "program")
  /\ UNCHANGED <<modifiers, pushed_key, fresh, key, num_chars, rest>>

Kernel ==
  \/ terminal_write_char
  \/ sti \/ getchar_poll \/ getchar_take \/ getchar_clear \/ getline

Next ==
  \/ \E scancode \in Keyboard : handle_charpress(scancode)
  \/ \E buffer \in Texts : terminal_write(buffer)
  \/ \E size \in Sizes : terminal_read(size)
  \/ Kernel

\* The processor goes on executing a system call between interrupts
Spec == Init /\ [][Next]_vars /\ WF_vars(Kernel)

----------------------------------------------------------------------------
(* Properties *)

\* What the user sees is what the program gets: the cells before the cursor
\* show the line typed so far, across wrapped rows, scrolling, erasing and
\* clearing.
ScreenShowsLine ==
  pc \notin {"program", "write"} =>
     /\ Len(line) <= At(screen)
     /\ \A i \in 1..Len(line) :
           screen.video_mem[At(screen) - Len(line) + i - 1] = line[i]

\* No modifier sticks or gets lost: control, alt and shift are recorded only
\* while one of their two keys is held, and always while both are.
NoStuckModifier ==
  LET Follows(stat, keys) == /\ stat => held \intersect keys # {}
                             /\ keys \subseteq held => stat
  IN  Follows(ctrl_stat, Ctrl) /\ Follows(alt_stat, Alt) /\ Follows(shift_stat, Shift)

\* getchar delivers a key press at most once, whatever the interrupt handler
\* does between its steps.
DeliveredOnce == [][pc = "take" /\ pc' = "clear" => fresh]_vars

\* A key that arrives during a read is picked up or replaced by a later one:
\* it never stays in the slot.
PickedUp == (pc = "poll" /\ pushed_key # NoKey) ~> (pushed_key = NoKey)

\* A read is reached by the keyboard: if the user goes on pressing a key (one
\* that counts whatever modifier is held), getchar stops polling.  The call
\* starts with interrupts off, so this takes the sti of terminal_read.
Listens == WF_vars(handle_charpress("backspace")) => (pc = "poll" ~> pc = "take")
=============================================================================
