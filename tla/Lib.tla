-------------------------------- MODULE Lib --------------------------------
(***************************************************************************)
(* The routines of student-distrib/lib.c: copying and filling memory, the  *)
(* strings, printf, and strtok as execute uses it to take a command apart. *)
(*                                                                         *)
(* The kernel runs one routine at a time.  Memory is what the caller set   *)
(* up for it; a step is one turn of a loop.  Two things survive a routine: *)
(* the processor's direction flag, which a backward memmove leaves set,    *)
(* and strtok's static pointer, with the cuts it made in the string.       *)
(* Characters are their ASCII codes.                                       *)
(***************************************************************************)
EXTENDS Integers, Sequences, FiniteSets, SequencesExt

CONSTANTS
  MemSize,      \* bytes of memory that a routine may touch
  Places,       \* addresses the memory routines are called with
  Lengths,      \* byte counts they are called with
  Strings,      \* strings for the string routines, without their NUL
  CommandLines, \* command strings for execute
  Buffer,       \* bytes of execute's argument buffer (128)
  Nibbles,      \* hexadecimal digits of an int (8)
  Values,       \* numbers printf is called with, as unsigned ints
  Directives,   \* sequences of the directives of a format string
  Tails         \* what may follow them: nothing, or an unfinished directive

NUL == 0
SP  == 32
Percent == 37
Hash == 35

Word  == 4                 \* bytes that stosl and movsl move
MaxUInt == 16 ^ Nibbles    \* one more than the largest unsigned int

\* What printf can be told to do, and how the format string spells it
Spelling ==
  [plain |-> <<97>>, percent |-> <<Percent, Percent>>, x |-> <<Percent, 120>>,
   altx |-> <<Percent, Hash, 120>>, u |-> <<Percent, 117>>,
   d |-> <<Percent, 100>>, c |-> <<Percent, 99>>, s |-> <<Percent, 115>>,
   other |-> <<Percent, 97>>]

ASSUME LibAssumption ==
  /\ MemSize \in Nat /\ Buffer \in Nat \ {0} /\ Nibbles \in Nat \ {0}
  /\ Places \subseteq Nat /\ Lengths \subseteq Nat
  /\ \A n \in Lengths : n <= MemSize \div 2
  /\ \A s \in Strings \union CommandLines :
        s \in Seq(1..127) /\ Len(s) < MemSize \div 2 /\ Len(s) < Buffer
  /\ Values \subseteq 0..MaxUInt - 1
  /\ \A ds \in Directives : ToSet(ds) \subseteq DOMAIN Spelling

VARIABLES
  mem,  \* memory: a byte for each address
  df,   \* the direction flag: 1 when string instructions go downwards
  fr,   \* the routine that runs, its registers or locals and its place
  out   \* what printf has put on the screen

vars == <<mem, df, fr, out>>

Addrs == 0..MemSize-1

\* Memory as a memory routine finds it: every byte different
Fresh == [a \in Addrs |-> 1000 + a]

idle == [f |-> "none", pc |-> "none"]

\* Two strings with their NULs, at the bottom and in the middle of memory
Middle == MemSize \div 2
At(p, s) == [a \in p..p + Len(s) |-> IF a = p + Len(s) THEN NUL ELSE s[a - p + 1]]
Holding(s1, s2) ==
  [a \in Addrs |-> IF a <= Len(s1) THEN At(0, s1)[a]
                   ELSE IF a \in Middle..Middle + Len(s2) THEN At(Middle, s2)[a] ELSE Fresh[a]]

Init ==
  /\ mem = Fresh
  /\ df \in {0, 1}
  /\ fr = idle
  /\ out = <<>>

\* The caller has its result and goes on
Return ==
  /\ fr.pc \in {"ret", "past"}
  /\ fr' = idle /\ mem' = Fresh /\ out' = <<>>
  /\ UNCHANGED df

----------------------------------------------------------------------------
(* memset, memset_word, memset_dword, memcpy and memmove *)

\* The bytes of the register that stosb, stosw and stosl store
Filling == [memset |-> <<1, 1, 1, 1>>, memset_word |-> <<1, 2>>,
            memset_dword |-> <<1, 2, 3, 4>>]
Fills == DOMAIN Filling

\* Bytes moved by one turn of the routine's string instruction
Size(f) == IF f = "memmove" THEN 1 ELSE IF f = "memcpy" THEN Word ELSE Len(Filling[f])

\* Registers at the entry of routine f; what it was called with is kept.  The
\* caller passes areas that it owns.
Enter(f, dest, src, n, edi, esi, pc) ==
  /\ LET bytes == IF f \in {"memset_word", "memset_dword"} THEN n * Size(f) ELSE n
     IN  dest + bytes <= MemSize /\ src + bytes <= MemSize
  /\ fr' = [f |-> f, pc |-> pc, dest |-> dest, src |-> src, n |-> n,
            edi |-> edi, esi |-> esi, ecx |-> n, edx |-> 0]
  /\ UNCHANGED <<mem, out>>

memset(s, n) == Enter("memset", s, s, n, s, s, "top") /\ UNCHANGED df

memset_word(s, n) == Enter("memset_word", s, s, n, s, s, "rep") /\ df' = 0

memset_dword(s, n) == Enter("memset_dword", s, s, n, s, s, "rep") /\ df' = 0

memcpy(dest, src, n) == Enter("memcpy", dest, src, n, dest, src, "top") /\ UNCHANGED df

\* Mutant: upwards, whatever overlaps
memmove_up(dest, src, n) == Enter("memmove", dest, src, n, dest, src, "rep") /\ df' = 0

\* std is not followed by a cld
memmove(dest, src, n) ==
  \/ src >= dest /\ df' = 0 /\ Enter("memmove", dest, src, n, dest, src, "rep")
  \/ src < dest /\ df' = 1
     /\ Enter("memmove", dest, src, n, dest + n - 1, src + n - 1, "rep")

\* size bytes are stored at edi, then edi and esi move by step
Store(size) ==
  mem' = [a \in (DOMAIN mem) \union (fr.edi..fr.edi + size - 1) |->
            IF a \notin fr.edi..fr.edi + size - 1 THEN mem[a]
            ELSE IF fr.f \in Fills THEN Filling[fr.f][a - fr.edi + 1]
                                   ELSE mem[fr.esi + a - fr.edi]]
Moved(step) == [fr EXCEPT !.edi = fr.edi + step, !.esi = fr.esi + step]

\* Bytes, until the destination is aligned
Top ==
  /\ fr.pc = "top"
  /\ \/ /\ fr.ecx = 0
        /\ fr' = [fr EXCEPT !.pc = "ret"]
        /\ UNCHANGED <<mem, df>>
     \/ /\ fr.ecx > 0 /\ fr.edi % Word # 0
        /\ Store(1)
        /\ fr' = [Moved(1) EXCEPT !.ecx = fr.ecx - 1]
        /\ UNCHANGED df
     \/ /\ fr.ecx > 0 /\ fr.edi % Word = 0
        /\ fr' = [fr EXCEPT !.pc = "rep", !.edx = fr.ecx % Word, !.ecx = fr.ecx \div Word]
        /\ df' = 0
        /\ UNCHANGED mem
  /\ UNCHANGED out

\* One turn of the string instruction, in the direction of the flag
Rep ==
  /\ fr.pc = "rep"
  /\ \/ /\ fr.ecx > 0
        /\ Store(Size(fr.f))
        /\ fr' = [Moved(IF df = 0 THEN Size(fr.f) ELSE -Size(fr.f))
                    EXCEPT !.ecx = fr.ecx - 1]
     \/ /\ fr.ecx = 0
        /\ fr' = [fr EXCEPT !.pc = IF fr.f \in {"memset", "memcpy"} THEN "bottom" ELSE "ret"]
        /\ UNCHANGED mem
  /\ UNCHANGED <<df, out>>

\* The bytes after the last whole word
Bottom ==
  /\ fr.pc = "bottom"
  /\ \/ /\ fr.edx > 0
        /\ Store(1)
        /\ fr' = [Moved(1) EXCEPT !.edx = fr.edx - 1]
     \/ /\ fr.edx = 0
        /\ fr' = [fr EXCEPT !.pc = "ret"]
        /\ UNCHANGED mem
  /\ UNCHANGED <<df, out>>

----------------------------------------------------------------------------
(* strcpy, strncpy, strncmp and strrev *)

\* A string routine is called with s2 at the bottom of memory and s1 in the
\* middle; n is the count of strncpy and strncmp
StringCall(f, s1, s2, n) ==
  /\ fr' = [f |-> f, pc |-> "loop", s1 |-> s1, s2 |-> s2, n |-> n, i |-> 0, val |-> 0]
  /\ mem' = Holding(s2, s1)
  /\ UNCHANGED <<df, out>>

\* uint32_t strlen(s)
strlen(m, p) == CHOOSE k \in 0..MemSize :
                  m[p + k] = NUL /\ \A j \in 0..k - 1 : m[p + j] # NUL

\* dest is in the middle of memory, src at the bottom
strcpy ==
  /\ fr.f = "strcpy" /\ fr.pc = "loop"
  /\ mem' = [mem EXCEPT ![Middle + fr.i] = mem[fr.i]]
  /\ fr' = IF mem[fr.i] # NUL THEN [fr EXCEPT !.i = fr.i + 1] ELSE [fr EXCEPT !.pc = "ret"]
  /\ UNCHANGED <<df, out>>

\* The test of src[i] comes before that of i
strncpy ==
  /\ fr.f = "strncpy"
  /\ \/ /\ fr.pc = "loop" /\ mem[fr.i] # NUL /\ fr.i < fr.n
        /\ mem' = [mem EXCEPT ![Middle + fr.i] = mem[fr.i]]
        /\ fr' = [fr EXCEPT !.i = fr.i + 1]
     \/ /\ fr.pc = "loop" /\ (mem[fr.i] = NUL \/ fr.i >= fr.n)
        /\ fr' = [fr EXCEPT !.pc = "pad"]
        /\ UNCHANGED mem
     \/ /\ fr.pc = "pad" /\ fr.i < fr.n
        /\ mem' = [mem EXCEPT ![Middle + fr.i] = NUL]
        /\ fr' = [fr EXCEPT !.i = fr.i + 1]
     \/ /\ fr.pc = "pad" /\ fr.i >= fr.n
        /\ fr' = [fr EXCEPT !.pc = "ret"]
        /\ UNCHANGED mem
  /\ UNCHANGED <<df, out>>

strncmp ==
  /\ fr.f = "strncmp" /\ fr.pc = "loop"
  /\ fr' = IF fr.i < fr.n /\ mem[Middle + fr.i] = mem[fr.i] /\ mem[fr.i] # NUL
           THEN [fr EXCEPT !.i = fr.i + 1]
           ELSE [fr EXCEPT !.pc = "ret",
                           !.val = IF fr.i < fr.n THEN mem[Middle + fr.i] - mem[fr.i] ELSE 0]
  /\ UNCHANGED <<mem, df, out>>

\* The string at the bottom of memory; i is beg
strrev ==
  LET end == strlen(mem, 0) - 1 - fr.i
  IN  /\ fr.f = "strrev" /\ fr.pc = "loop"
      /\ IF fr.i < end
         THEN /\ mem' = [mem EXCEPT ![end] = mem[fr.i], ![fr.i] = mem[end]]
              /\ fr' = [fr EXCEPT !.i = fr.i + 1]
         ELSE fr' = [fr EXCEPT !.pc = "ret"] /\ UNCHANGED mem
      /\ UNCHANGED <<df, out>>

----------------------------------------------------------------------------
(* strtok, and execute's use of it *)

NULL == -1

\* The string at p in memory m, up to its NUL
StringAt(m, p) == [k \in 1..strlen(m, p) |-> m[p + k - 1]]

\* The first address from p on that holds one of the characters
Find(p, chars) ==
  CHOOSE q \in p..MemSize - 1 : mem[q] \in chars /\ \A r \in p..q - 1 : mem[r] \notin chars

NonBlank == {mem[a] : a \in Addrs} \ {SP}

\* Mutant: the end of the string does not end the tokens
strtok_no_end(s) ==
  LET tok == Find(s, NonBlank)
      end == Find(tok, {SP, NUL})
  IN  IF s = NULL \/ mem[tok] = NUL
      THEN [tok |-> NULL, last |-> NULL, mem |-> mem]
      ELSE [tok |-> tok, last |-> end + 1, mem |-> [mem EXCEPT ![end] = NUL]]

\* s is the argument, or the static pointer if the argument is NULL
strtok(s) ==
  LET tok == Find(s, NonBlank)
      end == Find(tok, {SP, NUL})
  IN  IF s = NULL \/ mem[tok] = NUL
      THEN [tok |-> NULL, last |-> NULL, mem |-> mem]
      ELSE [tok |-> tok, last |-> IF mem[end] = NUL THEN NULL ELSE end + 1,
            mem |-> [mem EXCEPT ![end] = NUL]]

ExecuteCall(line) ==
  /\ fr' = [f |-> "execute", pc |-> "name", line |-> line, round |-> 1,
            name |-> <<>>, buffer |-> <<>>, last |-> NULL]
  /\ mem' = Holding(line, <<>>)
  /\ UNCHANGED <<df, out>>

\* The first token; refused stands for the checks on the file of that name
FirstToken(refused) ==
  LET t == strtok(0)
  IN  /\ fr.pc = "name"
      /\ mem' = t.mem
      /\ IF t.tok = NULL
         THEN fr' = [fr EXCEPT !.pc = "ret", !.last = t.last]
         ELSE fr' = [fr EXCEPT !.pc = IF refused THEN "ret" ELSE "args",
                               !.name = StringAt(t.mem, t.tok), !.last = t.last]
      /\ UNCHANGED <<df, out>>

\* The tokens after it are joined with single blanks in the buffer
NextToken ==
  LET t == strtok(fr.last)
  IN  /\ fr.pc = "args"
      /\ mem' = t.mem
      /\ IF t.tok = NULL
         THEN fr' = [fr EXCEPT !.pc = "started", !.last = t.last]
         ELSE fr' = [fr EXCEPT !.last = t.last,
                               !.buffer = (IF @ = <<>> THEN @ ELSE Append(@, SP))
                                          \o StringAt(t.mem, t.tok)]
      /\ UNCHANGED <<df, out>>

\* The boot loop passes the same string again, cut as it is
ExecuteAgain ==
  /\ fr.pc = "started"
  /\ IF fr.round = 1 THEN fr' = [fr EXCEPT !.pc = "name", !.round = 2, !.buffer = <<>>]
                     ELSE fr' = [fr EXCEPT !.pc = "ret"]
  /\ UNCHANGED <<mem, df, out>>

----------------------------------------------------------------------------
(* printf *)

\* lookup[i]
Digit(i) == IF i < 10 THEN 48 + i ELSE 55 + i

\* The digits of v, lowest first
Low(radix) ==
  LET low[v \in 0..MaxUInt - 1] ==
        IF v = 0 THEN <<>> ELSE <<Digit(v % radix)>> \o low[v \div radix]
  IN  low

itoa(v, radix) == IF v = 0 THEN <<Digit(0)>> ELSE Reverse(Low(radix)[v])

\* %#x writes the digits behind a field of Nibbles places and fills the field
\* from behind them
Padded(digits) == [k \in 1..Nibbles - Len(digits) |-> Digit(0)] \o digits

\* Mutant: %c leaves the argument for the next directive
Takes_not_c == {120, 117, 100, 115}

\* The conversion characters x u d c s take an argument
Takes == {120, 117, 100, 99, 115}

\* What character c after a % puts on the screen, v being the next argument
Converted(c, alternate, v) ==
  CASE c = Percent -> <<Percent>>
    [] c = 120 -> IF alternate THEN Padded(itoa(v, 16)) ELSE itoa(v, 16)
    [] c = 117 -> itoa(v, 10)
    [] c = 100 -> IF v >= MaxUInt \div 2 THEN <<45>> \o itoa(MaxUInt - v, 10)
                                         ELSE itoa(v, 10)
    [] c = 99  -> <<v % 256>>
    [] c = 115 -> StringAt(mem, Middle)
    [] OTHER   -> <<>>

PrintfCall(ds, tail, args) ==
  /\ fr' = [f |-> "printf", pc |-> "loop", ds |-> ds, tail |-> tail, args |-> args,
            buf |-> 0, esp |-> 1, alternate |-> FALSE]
  /\ mem' = Holding(FlattenSeq([k \in DOMAIN ds |-> Spelling[ds[k]]]) \o tail, <<98, 99>>)
  /\ UNCHANGED <<df, out>>

\* A character of the format string outside a directive
PrintfChar ==
  LET c == mem[fr.buf]
  IN  /\ fr.f = "printf" /\ fr.pc = "loop"
      /\ \/ /\ c = NUL
            /\ fr' = [fr EXCEPT !.pc = "ret"]
            /\ UNCHANGED out
         \/ /\ c = Percent
            /\ fr' = [fr EXCEPT !.pc = "conv", !.buf = fr.buf + 1, !.alternate = FALSE]
            /\ UNCHANGED out
         \/ /\ c \notin {NUL, Percent}
            /\ fr' = [fr EXCEPT !.buf = fr.buf + 1]
            /\ out' = Append(out, c)
      /\ UNCHANGED <<mem, df>>

\* A character after a %.  A NUL there is skipped like any other character
\* that means nothing, and printf goes on with whatever follows the string.
PrintfConv ==
  LET c == mem[fr.buf]
  IN  /\ fr.f = "printf" /\ fr.pc = "conv"
      /\ IF c = Hash
         THEN /\ fr' = [fr EXCEPT !.buf = fr.buf + 1, !.alternate = TRUE]
              /\ UNCHANGED out
         ELSE /\ fr' = [fr EXCEPT !.pc = IF c = NUL THEN "past" ELSE "loop",
                                  !.buf = fr.buf + 1,
                                  !.esp = IF c \in Takes THEN fr.esp + 1 ELSE fr.esp]
              /\ out' = out \o Converted(c, fr.alternate, fr.args[fr.esp])
      /\ UNCHANGED <<mem, df>>

----------------------------------------------------------------------------

\* The kernel calls a routine
Call ==
  /\ fr = idle
  /\ \/ \E p \in Places, n \in Lengths :
           memset(p, n) \/ memset_word(p, n) \/ memset_dword(p, n)
     \/ \E p, q \in Places, n \in Lengths : memcpy(p, q, n) \/ memmove(p, q, n)
     \/ \E f \in {"strcpy", "strncpy", "strncmp", "strrev"}, s1, s2 \in Strings, n \in Lengths :
           StringCall(f, s1, s2, n)
     \/ \E line \in CommandLines : ExecuteCall(line)
     \/ \E ds \in Directives, tail \in Tails, v, w \in Values :
           PrintfCall(ds, tail, <<v, w, v, w>>)

Next ==
  \/ Call
  \/ Top \/ Rep \/ Bottom
  \/ strcpy \/ strncpy \/ strncmp \/ strrev
  \/ \E refused \in BOOLEAN : FirstToken(refused)
  \/ NextToken \/ ExecuteAgain
  \/ PrintfChar \/ PrintfConv
  \/ Return

Spec == Init /\ [][Next]_vars

----------------------------------------------------------------------------
(* Properties *)

\* Memory is Fresh but for n bytes from address p on, where it is b(k) at p + k
Changed(p, n, b(_)) ==
  mem = [a \in Addrs |-> IF a \in p..p + n - 1 THEN b(a - p) ELSE Fresh[a]]

\* memset, memset_word and memset_dword fill exactly the bytes asked for,
\* whatever direction the last memmove left the processor in.
Filled ==
  fr.pc = "ret" /\ fr.f \in Fills =>
    LET size == IF fr.f = "memset" THEN 1 ELSE Size(fr.f)
    IN  Changed(fr.dest, fr.n * size, LAMBDA k : Filling[fr.f][(k % size) + 1])

\* memcpy copies areas that do not overlap, memmove any two areas, exactly n
\* bytes of them, aligned or not; the screen scrolls by such a memmove.
Copied ==
  /\ fr.pc = "ret"
  /\ \/ fr.f = "memmove"
     \/ fr.f = "memcpy" /\ (fr.dest + fr.n <= fr.src \/ fr.src + fr.n <= fr.dest)
  => Changed(fr.dest, fr.n, LAMBDA k : Fresh[fr.src + k])

Cut(s, n) == SubSeq(s, 1, IF n < Len(s) THEN n ELSE Len(s))

\* strcpy copies the string with its NUL, strncpy its first n characters
\* padded with NULs (and without any NUL if it is longer), strncmp is zero
\* just for strings that agree in their first n characters and has the sign
\* of the first difference otherwise, strrev reverses.
StringsRight ==
  fr.pc = "ret" =>
    /\ fr.f = "strcpy" => StringAt(mem, Middle) = fr.s2
    /\ fr.f = "strncpy" =>
         /\ \A k \in 0..fr.n - 1 :
              mem[Middle + k] = IF k < Len(fr.s2) THEN fr.s2[k + 1] ELSE NUL
         /\ fr.n <= Len(fr.s1) => StringAt(mem, Middle + fr.n) = SubSeq(fr.s1, fr.n + 1, Len(fr.s1))
    /\ fr.f = "strncmp" =>
         LET a == Append(fr.s1, NUL)
             b == Append(fr.s2, NUL)
         IN  IF Cut(a, fr.n) = Cut(b, fr.n) THEN fr.val = 0
             ELSE LET d == CHOOSE k \in DOMAIN a \intersect DOMAIN b :
                             a[k] # b[k] /\ \A j \in 1..k - 1 : a[j] = b[j]
                  IN  (fr.val < 0) = (a[d] < b[d]) /\ fr.val # 0
    /\ fr.f = "strrev" => StringAt(mem, 0) = Reverse(fr.s2)

\* Every routine that writes memory leaves just what its caller asked for, in
\* whatever order they are called: a memmove that went downwards (it leaves the
\* direction flag set) disturbs none of the next ones.
RoutinesRight == Filled /\ Copied /\ StringsRight

\* The words of a command line: the longest runs without a blank, in order
Words(line) ==
  LET starts == {i \in DOMAIN line : line[i] # SP /\ (i = 1 \/ line[i - 1] = SP)}
      word(i) == LET j == CHOOSE j \in i..Len(line) :
                            /\ \A k \in i..j : line[k] # SP
                            /\ j < Len(line) => line[j + 1] = SP
                 IN  SubSeq(line, i, j)
      order   == SetToSortSeq(starts, <)
  IN  [k \in DOMAIN order |-> word(order[k])]

\* Words joined with single blanks
Joined(ws) ==
  FlattenSeq([k \in DOMAIN ws |-> IF k = 1 THEN ws[k] ELSE <<SP>> \o ws[k]])

\* execute takes the first word of a command for the program's name and hands
\* the program the other words joined with single blanks, whatever blanks were
\* typed; they fit the buffer for every command that does.  A second execute of
\* the same string, as in the boot loop, finds the same name and no arguments.
\* A refused command leaves strtok inside the string just when a blank follows
\* the name, which is what Syscalls takes strtok_last to be.
CommandSplit ==
  fr.f = "execute" =>
    LET ws == Words(fr.line)
    IN  /\ Len(fr.buffer) + 1 <= Buffer
        /\ fr.pc = "started" =>
             /\ fr.name = Head(ws)
             /\ fr.buffer = IF fr.round = 1 THEN Joined(Tail(ws)) ELSE <<>>
        /\ fr.pc = "ret" /\ ws = <<>> => fr.name = <<>> /\ fr.last = NULL
        /\ fr.pc = "ret" /\ ws # <<>> /\ fr.round = 1 =>
             /\ fr.name = Head(ws)
             /\ (fr.last # NULL) = (\E i \in DOMAIN fr.line : i > 1 /\ fr.line[i] = SP
                                                              /\ fr.line[i - 1] # SP)

\* The numeral of v: no leading zeros, each digit by its place
Numeral(v, radix) ==
  LET n == CHOOSE n \in 1..4 * Nibbles :
             v < radix ^ n /\ (n > 1 => v >= radix ^ (n - 1))
  IN  [k \in 1..n |-> Digit((v \div radix ^ (n - k)) % radix)]

\* What the comment above printf promises for a directive and a number
Promised(d, v) ==
  LET signed == IF v < MaxUInt \div 2 THEN v ELSE v - MaxUInt
  IN  CASE d = "plain"   -> <<97>>
        [] d = "percent" -> <<Percent>>
        [] d = "x"       -> Numeral(v, 16)
        [] d = "altx"    -> [k \in 1..Nibbles |-> Digit((v \div 16 ^ (Nibbles - k)) % 16)]
        [] d = "u"       -> Numeral(v, 10)
        [] d = "d"       -> IF signed < 0 THEN <<45>> \o Numeral(-signed, 10)
                                          ELSE Numeral(signed, 10)
        [] d = "c"       -> <<v>>
        [] d = "s"       -> <<98, 99>>
        [] d = "other"   -> <<>>

\* printf shows every directive as its comment says, the most negative number
\* and the padded hexadecimal included, each with the argument that belongs to
\* it.  It leaves the format string just when that ends inside a directive.
Printed ==
  fr.f = "printf" =>
    LET takes(k) == fr.ds[k] \notin {"plain", "percent", "other"}
        arg(k)   == fr.args[1 + Cardinality({j \in 1..k - 1 : takes(j)})]
    IN  /\ fr.pc = "ret" =>
             out = FlattenSeq([k \in DOMAIN fr.ds |-> Promised(fr.ds[k], arg(k))])
        /\ fr.pc = "ret" => fr.tail = <<>>
        /\ fr.pc = "past" => fr.tail # <<>>
=============================================================================
