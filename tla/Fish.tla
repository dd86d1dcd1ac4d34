-------------------------------- MODULE Fish --------------------------------
(***************************************************************************)
(* src/fish: the animation that blinks two frames on the mapped screen.    *)
(* main and add_frames are in fish.c, the list of blinking characters in   *)
(* blink.S; the cells of the list are those of blink_array that mp1_malloc *)
(* gives out, and a cell is free when its location is 0.                   *)
(*                                                                         *)
(* The program is alone with its memory, so a step is one round of a loop. *)
(* The clock is left out: open("rtc") returns a free descriptor, every     *)
(* read of it returns -1 at once, and fish looks at neither.               *)
(***************************************************************************)
EXTENDS Integers, Sequences, FiniteSets

CONSTANTS
  COLS, ROWS,      \* of the screen (80, 25)
  OFFSET,          \* column where the frames start (40)
  LENGTH,          \* on and off length of the frames' characters (15)
  ON_LENGTH, OFF_LENGTH,  \* of the character that main adds (7, 6)
  LOCATION,        \* its location (6*80+60)
  HALF,            \* half the range of a 16-bit field (2^15)
  WAIT,            \* rounds of each waiting loop (100)
  Frames           \* what a frame file may be: whether it exists, its text, and
                   \* the positions that lie in blocks the image does not have

SHORT == 2 * HALF
NL == "\n"
Blank == " "

ASSUME FishAssumption ==
  /\ COLS \in Nat /\ ROWS \in Nat /\ WAIT \in Nat /\ HALF \in Nat
  /\ OFFSET \in 1..COLS - 1 /\ LOCATION \in 1..COLS * ROWS - 1 /\ LOCATION < SHORT
  /\ {LENGTH, ON_LENGTH, OFF_LENGTH} \subseteq 1..HALF - 1
  /\ \A f \in Frames : /\ f.exists \in BOOLEAN /\ Len(f.text) \in Nat
                        /\ Len(f.text) + COLS * Len(f.text) + OFFSET < SHORT
                        /\ f.missing \subseteq 0..Len(f.text) - 1

VARIABLES
  frames,       \* the two frame files
  file,         \* of each: descriptor open, position (-1 for 2^32 - 1), c0 or c1,
                \* eof0 or eof1
  row, col,     \* of add_frames
  blink_array, mp1_list_head,
  screen,       \* the characters that mp1_poke stored
  pc,           \* the statement of main
  loop, i,      \* which waiting loop, and its counter
  ebx,          \* the cell that the tasklet is at
  synced        \* what RTC_SYNC returned, -1 before

vars == <<frames, file, row, col, blink_array, mp1_list_head, screen, pc, loop, i, ebx, synced>>
reading == <<frames, file, row, col>>
list == <<blink_array, mp1_list_head, screen>>

SIZE == COLS * ROWS
Cells == 1..SIZE
NULL == 0
free == [location |-> 0, on_char |-> Blank, off_char |-> Blank, on_length |-> 0,
         off_length |-> 0, countdown |-> 0, status |-> 0, next |-> NULL]

Init ==
  /\ frames \in [{0, 1} -> Frames]
  /\ file = [f \in {0, 1} |-> [open |-> FALSE, pos |-> 0, c |-> "0", eof |-> FALSE]]
  /\ row = 0 /\ col = 0
  /\ blink_array = [n \in Cells |-> free]
  /\ mp1_list_head = NULL
  /\ screen = [n \in 0..SIZE - 1 |-> Blank]
  /\ pc = "open"
  /\ loop = 0 /\ i = 0 /\ ebx = NULL
  /\ synced = -1

----------------------------------------------------------------------------
(* blink.S *)

\* Cells in the order of the list; the tail is padded with NULL
Nth[n \in 0..SIZE] ==
  IF n = 0 THEN mp1_list_head
  ELSE IF Nth[n - 1] = NULL THEN NULL ELSE blink_array[Nth[n - 1]].next
Listed == {Nth[n] : n \in 0..SIZE} \ {NULL}

mp1_poke(scr, location, c) == [scr EXCEPT ![location] = c]

\* Mutant: a cell whose character is off is taken for free
mp1_malloc_status ==
  LET unused == {n \in Cells : blink_array[n].status = 0}
  IN  IF unused = {} THEN NULL ELSE CHOOSE n \in unused : \A x \in unused : n <= x

mp1_malloc ==
  LET unused == {n \in Cells : blink_array[n].location = 0}
  IN  IF unused = {} THEN NULL ELSE CHOOSE n \in unused : \A x \in unused : n <= x

mp1_find_helper(location) ==
  LET found == {n \in 0..SIZE : Nth[n] # NULL /\ blink_array[Nth[n]].location = location}
  IN  IF found = {} THEN NULL ELSE Nth[CHOOSE n \in found : \A x \in found : n <= x]

OnScreen(location) == location < SIZE

\* Every failure returns -1, which no caller looks at
mp1_ioctl_add(location, on_char, off_char, on_length, off_length) ==
  LET cell == mp1_malloc
      loc  == location % SHORT
  IN  IF ~OnScreen(loc) \/ cell = NULL THEN UNCHANGED list
      ELSE /\ blink_array' = [blink_array EXCEPT ![cell] =
                [location |-> loc, on_char |-> on_char, off_char |-> off_char,
                 on_length |-> on_length, off_length |-> off_length,
                 countdown |-> on_length, status |-> 1, next |-> mp1_list_head]]
           /\ mp1_list_head' = cell
           /\ screen' = mp1_poke(screen, loc, on_char)

mp1_ioctl_remove(location) ==
  LET cell == mp1_find_helper(location)
      next == blink_array[cell].next
  IN  IF cell = NULL THEN UNCHANGED <<blink_array, mp1_list_head>>
      ELSE /\ mp1_list_head' = IF mp1_list_head = cell THEN next ELSE mp1_list_head
           /\ blink_array' = [n \in Cells |->
                CASE n = cell -> free
                  [] n # cell /\ n \in Listed /\ blink_array[n].next = cell ->
                       [blink_array[n] EXCEPT !.next = next]
                  [] OTHER -> blink_array[n]]

\* Mutant: the countdown is not copied
mp1_ioctl_sync_no_countdown(from, to) ==
  LET esi == mp1_find_helper(from)
      edi == mp1_find_helper(to)
      src == blink_array[esi]
  IN  IF esi = NULL \/ edi = NULL THEN UNCHANGED <<blink_array, screen, synced>>
      ELSE /\ blink_array' = [blink_array EXCEPT ![edi].on_length = src.on_length,
                ![edi].off_length = src.off_length, ![edi].status = src.status]
           /\ screen' = mp1_poke(screen, blink_array[edi].location, blink_array[edi].off_char)
           /\ synced' = 0

\* cmovl follows a testb, which never sets "less": off_char is always shown
mp1_ioctl_sync(from, to) ==
  LET esi == mp1_find_helper(from)
      edi == mp1_find_helper(to)
      src == blink_array[esi]
  IN  IF esi = NULL \/ edi = NULL THEN UNCHANGED <<blink_array, screen, synced>>
      ELSE /\ blink_array' = [blink_array EXCEPT ![edi].on_length = src.on_length,
                ![edi].off_length = src.off_length, ![edi].countdown = src.countdown,
                ![edi].status = src.status]
           /\ screen' = mp1_poke(screen, blink_array[edi].location, blink_array[edi].off_char)
           /\ synced' = 0

Signed(n) == IF n >= HALF THEN n - SHORT ELSE n

\* One cell at one tick
Blink(cell) ==
  LET countdown == (cell.countdown - 1) % SHORT
  IN  IF Signed(countdown) > 0 THEN [cell EXCEPT !.countdown = countdown]
      ELSE IF cell.status = 1
           THEN [cell EXCEPT !.countdown = cell.off_length, !.status = 0]
           ELSE [cell EXCEPT !.countdown = cell.on_length, !.status = 1]

Shown(cell) == IF cell.status = 1 THEN cell.on_char ELSE cell.off_char

\* Mutant: the character of the state that ends is shown
mp1_rtc_tasklet_late ==
  /\ pc = "tasklet" /\ ebx # NULL
  /\ LET cell == Blink(blink_array[ebx])
     IN  /\ blink_array' = [blink_array EXCEPT ![ebx] = cell]
         /\ screen' = IF cell.status = blink_array[ebx].status THEN screen
                      ELSE mp1_poke(screen, cell.location, Shown(blink_array[ebx]))
         /\ ebx' = cell.next
  /\ UNCHANGED <<reading, mp1_list_head, pc, loop, i, synced>>

mp1_rtc_tasklet ==
  /\ pc = "tasklet" /\ ebx # NULL
  /\ LET cell == Blink(blink_array[ebx])
     IN  /\ blink_array' = [blink_array EXCEPT ![ebx] = cell]
         /\ screen' = IF cell.status = blink_array[ebx].status THEN screen
                      ELSE mp1_poke(screen, cell.location, Shown(cell))
         /\ ebx' = cell.next
  /\ UNCHANGED <<reading, mp1_list_head, pc, loop, i, synced>>

tasklet_end ==
  /\ pc = "tasklet" /\ ebx = NULL
  /\ pc' = "wait"
  /\ i' = i + 1
  /\ UNCHANGED <<reading, list, loop, ebx, synced>>

----------------------------------------------------------------------------
(* add_frames *)

\* A frame that cannot be opened ends the program
OpenFrames ==
  /\ pc = "open"
  /\ IF \A f \in {0, 1} : frames[f].exists
     THEN pc' = "frames" /\ file' = [f \in {0, 1} |-> [file[f] EXCEPT !.open = TRUE]]
     ELSE pc' = "done" /\ UNCHANGED file
  /\ UNCHANGED <<frames, row, col, list, loop, i, ebx, synced>>

\* Where a read finds a byte, if its block is there
InText(f) == 0..Len(frames[f].text) - 1

\* Mutant: a line that has ended is read on
ReadChar_past_line(f) ==
  LET s == file[f] IN
  CASE ~s.open -> s
    [] s.open /\ s.pos \notin InText(f) -> [s EXCEPT !.c = NL, !.eof = TRUE]
    [] s.open /\ s.pos \in frames[f].missing -> [s EXCEPT !.pos = s.pos - 1]
    [] OTHER -> [s EXCEPT !.c = frames[f].text[s.pos + 1], !.pos = s.pos + 1]

\* A line that has ended waits for the other one.  Only a read of 0 bytes ends
\* the file: where a block is missing read returns -1, which is added to the
\* position, and leaves the character as it was.
ReadChar(f) ==
  LET s == file[f] IN
  CASE s.c = NL \/ ~s.open -> s
    [] s.c # NL /\ s.open /\ s.pos \notin InText(f) -> [s EXCEPT !.c = NL, !.eof = TRUE]
    [] s.c # NL /\ s.open /\ s.pos \in frames[f].missing -> [s EXCEPT !.pos = s.pos - 1]
    [] OTHER -> [s EXCEPT !.c = frames[f].text[s.pos + 1], !.pos = s.pos + 1]

OrBlank(c) == IF c = NL THEN Blank ELSE c

\* Mutant: the frames start in the corner
Offset_none == 0

Offset == OFFSET

\* Bound: a frame that never ends is followed until its location outgrows the
\* 16-bit field, which no other frame does
InField == row * COLS + col + Offset < SHORT

AddColumn ==
  LET c0 == ReadChar(0).c
      c1 == ReadChar(1).c
  IN  /\ pc = "frames" /\ InField
      /\ file' = [f \in {0, 1} |-> ReadChar(f)]
      /\ IF c0 = NL /\ c1 = NL
         THEN pc' = "endrow" /\ UNCHANGED <<col, list>>
         ELSE /\ IF {c0, c1} \subseteq {Blank, NL} THEN UNCHANGED list
                 ELSE mp1_ioctl_add(row * COLS + col + Offset, OrBlank(c0), OrBlank(c1),
                                    LENGTH, LENGTH)
              /\ col' = col + 1
              /\ UNCHANGED pc
      /\ UNCHANGED <<frames, row, loop, i, ebx, synced>>

Overrun == pc = "frames" /\ ~InField /\ UNCHANGED vars

NextLine(s) == IF s.eof THEN [s EXCEPT !.c = NL, !.open = FALSE] ELSE [s EXCEPT !.c = "0"]

EndRow ==
  /\ pc = "endrow"
  /\ file' = [f \in {0, 1} |-> NextLine(file[f])]
  /\ row' = row + 1
  /\ col' = 0
  /\ pc' = IF \A f \in {0, 1} : file[f].eof THEN "wait" ELSE "frames"
  /\ UNCHANGED <<frames, list, loop, i, ebx, synced>>

----------------------------------------------------------------------------
(* main *)

Wait ==
  /\ pc = "wait" /\ i < WAIT
  /\ pc' = "tasklet"
  /\ ebx' = mp1_list_head
  /\ UNCHANGED <<reading, list, loop, i, synced>>

\* Between the waiting loops: add a character, synchronise it, remove it
Between ==
  /\ pc = "wait" /\ i = WAIT
  /\ i' = 0
  /\ loop' = loop + 1
  /\ pc' = IF loop = 3 THEN "done" ELSE "wait"
  /\ CASE loop = 0 -> /\ mp1_ioctl_add(LOCATION, "I", "M", ON_LENGTH, OFF_LENGTH)
                      /\ UNCHANGED synced
       [] loop = 1 -> mp1_ioctl_sync(OFFSET, LOCATION) /\ UNCHANGED mp1_list_head
       [] loop = 2 -> mp1_ioctl_remove(LOCATION) /\ UNCHANGED <<screen, synced>>
       [] loop = 3 -> UNCHANGED <<list, synced>>
  /\ UNCHANGED <<reading, ebx>>

Done == pc = "done" /\ UNCHANGED vars

Next ==
  \/ OpenFrames \/ AddColumn \/ Overrun \/ EndRow
  \/ Wait \/ mp1_rtc_tasklet \/ tasklet_end \/ Between
  \/ Done

\* Nothing but the program runs, and every call it makes returns
Spec == Init /\ [][Next]_vars /\ WF_vars(Next)

----------------------------------------------------------------------------

Chars == {"0", "I", "M", Blank} \union UNION {{f.text[n] : n \in 1..Len(f.text)} : f \in Frames}

(***************************************************************************)
(* Every cell, position and counter has its type; in particular no column  *)
(* of a frame stores outside the screen or the array.                      *)
(***************************************************************************)
TypeOK ==
  /\ frames \in [{0, 1} -> Frames]
  /\ \A f \in {0, 1} : file[f].pos \in -1..Len(frames[f].text) /\ file[f].eof \in BOOLEAN
  /\ row \in Nat /\ col \in Nat /\ i \in 0..WAIT /\ loop \in 0..4
  /\ blink_array \in [Cells -> [location : 0..SIZE - 1, on_char : Chars, off_char : Chars,
        on_length : Nat, off_length : Nat, countdown : 0..SHORT - 1, status : {0, 1},
        next : Cells \union {NULL}]]
  /\ mp1_list_head \in Cells \union {NULL} /\ ebx \in Cells \union {NULL}
  /\ screen \in [0..SIZE - 1 -> Chars]
  /\ synced \in {-1, 0}

(***************************************************************************)
(* Every cell is well formed.  The list ends, and the cells on it are      *)
(* exactly the ones mp1_malloc will not give out: an add takes no cell     *)
(* that still blinks, a remove leaves none behind.  The free mark is the   *)
(* location itself, which holds because the frames start OFFSET columns    *)
(* from the corner.                                                        *)
(***************************************************************************)
ListExact ==
  /\ TypeOK
  /\ Nth[SIZE] = NULL
  /\ Listed = {n \in Cells : blink_array[n].location # 0}

\* The character of frame f in row r and column c
CharAt(f, r, c) ==
  LET text == frames[f].text
      newlines(n) == {e \in 1..n - 1 : text[e] = NL}
      there == {n \in 1..Len(text) :
                  /\ text[n] # NL
                  /\ Cardinality(newlines(n)) = r
                  /\ {m \in newlines(n) : m > n - c - 1} = {}
                  /\ n - c - 1 \in newlines(n) \union {0}}
  IN  IF there = {} THEN Blank ELSE text[CHOOSE n \in there : TRUE]

Longest == CHOOSE n \in {Len(frames[f].text) : f \in {0, 1}} :
             \A f \in {0, 1} : Len(frames[f].text) <= n

Complete == \A f \in {0, 1} : frames[f].missing = {}

Visible == {p \in (0..Longest) \X (0..Longest) :
              \E f \in {0, 1} : CharAt(f, p[1], p[2]) # Blank}

(***************************************************************************)
(* add_frames, which reads the two files side by side through one          *)
(* character each, adds every position where one of them shows something,  *)
(* with the characters of both: whichever line or file ends first, and     *)
(* with or without a newline at the end.  Positions off the screen are     *)
(* refused, and the ones past the array's last cell if lines overlap.  The *)
(* blocks of both files must be there.                                     *)
(***************************************************************************)
FramesAdded ==
  pc = "wait" /\ loop = 0 /\ i = 0 /\ Complete =>
    LET Location(p) == p[1] * COLS + p[2] + OFFSET
        wanted == {<<Location(p), CharAt(0, p[1], p[2]), CharAt(1, p[1], p[2])>> :
                      p \in {v \in Visible : Location(v) < SIZE}}
        added == {<<blink_array[n].location, blink_array[n].on_char, blink_array[n].off_char>> :
                      n \in Listed}
    IN  /\ added \subseteq wanted
        /\ Cardinality(Visible) <= SIZE => added = wanted

(***************************************************************************)
(* Until the synchronisation, which shows the wrong character until the    *)
(* next change, every location shows the current character of a cell that  *)
(* blinks there, also where lines overlap, and every other one is blank.   *)
(***************************************************************************)
ScreenCurrent ==
  loop <= 1 =>
    \A l \in 0..SIZE - 1 :
      LET there == {n \in Listed : blink_array[n].location = l}
      IN  IF there = {} THEN screen[l] = Blank
          ELSE \E n \in there : screen[l] = Shown(blink_array[n])

(***************************************************************************)
(* After a synchronisation the two characters change at the same ticks for *)
(* as long as both are there.                                              *)
(***************************************************************************)
InPhase ==
  pc = "wait" /\ loop = 2 /\ synced = 0 =>
    LET a == blink_array[mp1_find_helper(OFFSET)]
        b == blink_array[mp1_find_helper(LOCATION)]
    IN  a.countdown = b.countdown /\ a.status = b.status

\* A read at the start of a missing block fails and steps back into the block
\* before it, for ever; in front of the first block the file seems to end
Ends(f) == frames[f].missing = {} \/ 0 \in frames[f].missing

(***************************************************************************)
(* The animation ends: add_frames leaves its loops whichever file and line *)
(* ends first, unless it comes to a file that has its first block but not  *)
(* a later one, and the tasklet always comes to the end of the list.       *)
(***************************************************************************)
Terminates ==
  (\A f \in {0, 1} : Ends(f)) \/ (\E f \in {0, 1} : ~frames[f].exists) => <>(pc = "done")
=============================================================================
