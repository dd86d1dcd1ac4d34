------------------------------ MODULE LibProof ------------------------------
(***************************************************************************)
(* The proof that the memory and string routines of lib.c do what their    *)
(* callers asked for, for every size of memory and all arguments that lie  *)
(* in it, in any order of the calls.                                       *)
(***************************************************************************)
EXTENDS Lib, TLAPS

----------------------------------------------------------------------------
(* The inductive invariant *)

\* Bytes for each of the n things a routine is called with
Unit(f) == IF f \in {"memset_word", "memset_dword"} THEN Size(f) ELSE 1

\* The registers of a routine that copies or fills memory
Registers ==
  [f : Fills \union {"memcpy", "memmove"}, pc : {"top", "rep", "bottom", "ret"},
   dest : Nat, src : Nat, n : Nat, edi : Int, esi : Int, ecx : Nat, edx : Nat]

Down(p) == p.f = "memmove" /\ p.src < p.dest

\* The bytes that are still to be stored
Left(p) ==
  CASE p.pc = "top" -> p.ecx
    [] p.pc = "rep" -> p.ecx * Size(p.f) + p.edx
    [] p.pc = "bottom" -> p.edx
    [] p.pc = "ret" -> 0

\* The addresses stored to
Done(p) == IF Down(p) THEN p.edi + 1..p.dest + p.n - 1 ELSE p.dest..p.edi - 1

\* What belongs k bytes behind the destination
Wanted(p, k) == IF p.f \in Fills THEN Filling[p.f][(k % Unit(p.f)) + 1] ELSE Fresh[p.src + k]

\* memcpy is for areas that do not overlap
Sound(p) == p.f = "memcpy" => p.dest + p.n <= p.src \/ p.src + p.n <= p.dest

\* Where the registers stand
Placed(p, d) ==
  /\ p.dest + p.n * Unit(p.f) <= MemSize /\ p.src + p.n * Unit(p.f) <= MemSize
  /\ Left(p) <= p.n * Unit(p.f)
  /\ IF Down(p) THEN /\ p.pc \in {"rep", "ret"} /\ p.edx = 0
                     /\ p.edi = p.dest + Left(p) - 1 /\ p.esi = p.src + Left(p) - 1
                ELSE /\ p.edi = p.dest + p.n * Unit(p.f) - Left(p)
                     /\ p.esi = p.src + p.n * Unit(p.f) - Left(p)
  /\ d \in {0, 1} /\ (p.pc = "rep" => (d = 1 <=> Down(p)))
  /\ p.f \notin {"memset", "memcpy"} => p.pc \in {"rep", "ret"} /\ p.edx = 0

\* What has been stored
Stored(p, m) ==
  /\ m = [a \in Addrs |-> m[a]]
  /\ Sound(p) => \A a \in Addrs :
                   m[a] = IF a \in Done(p) THEN Wanted(p, a - p.dest) ELSE Fresh[a]

MemoryRuns(p, m, d) == p \in Registers /\ Placed(p, d) /\ Stored(p, m)

\* The locals of a string routine
Locals ==
  [f : {"strcpy", "strncpy", "strncmp", "strrev"}, pc : {"loop", "pad", "ret"},
   s1 : Strings, s2 : Strings, n : Lengths, i : Nat, val : Int]

\* The byte at place k of string s with its terminator
Byte(s, k) == IF k < Len(s) THEN s[k + 1] ELSE NUL

\* String s lies at address b of memory m
Lies(m, b, s) == \A k \in 0..Len(s) : m[b + k] = Byte(s, k)

Strcpy(p, m) ==
  p.f = "strcpy" =>
    /\ Lies(m, 0, p.s2)
    /\ p.i <= Len(p.s2)
    /\ \A k \in 0..p.i - 1 : m[Middle + k] = Byte(p.s2, k)
    /\ p.pc # "pad"
    /\ p.pc = "ret" => Lies(m, Middle, p.s2)

Strncpy(p, m) ==
  p.f = "strncpy" =>
    /\ Lies(m, 0, p.s2)
    /\ p.i <= p.n
    /\ p.pc = "loop" => p.i <= Len(p.s2)
    /\ p.pc # "loop" => p.i >= Len(p.s2) \/ p.i >= p.n
    /\ p.pc = "ret" => p.i >= p.n
    /\ \A k \in 0..p.i - 1 : m[Middle + k] = Byte(p.s2, k)
    /\ \A k \in p.i..Len(p.s1) : m[Middle + k] = Byte(p.s1, k)

\* Place k is where the strings differ first
Differ(s1, s2, k) ==
  /\ k <= Len(s1) /\ k <= Len(s2) /\ Byte(s1, k) # Byte(s2, k)
  /\ \A j \in 0..k - 1 : Byte(s1, j) = Byte(s2, j)

Strncmp(p, m) ==
  p.f = "strncmp" =>
    /\ Lies(m, 0, p.s2) /\ Lies(m, Middle, p.s1)
    /\ p.i <= Len(p.s1) /\ p.i <= Len(p.s2) /\ p.i <= p.n
    /\ \A k \in 0..p.i - 1 : Byte(p.s1, k) = Byte(p.s2, k)
    /\ p.pc # "pad"
    /\ p.pc = "ret" =>
         \/ p.val = 0 /\ (p.i = p.n \/ (p.i = Len(p.s1) /\ p.i = Len(p.s2)))
         \/ p.i < p.n /\ Differ(p.s1, p.s2, p.i) /\ p.val = Byte(p.s1, p.i) - Byte(p.s2, p.i)

\* Where the character at k of a string of len characters was before i pairs
\* of them were exchanged
Turned(i, len, k) == IF k < i \/ k >= len - i THEN len - 1 - k ELSE k

Strrev(p, m) ==
  p.f = "strrev" =>
    LET len == Len(p.s2)
    IN  /\ m[len] = NUL
        /\ 2 * p.i <= len
        /\ \A k \in 0..len - 1 : m[k] = Byte(p.s2, Turned(p.i, len, k))
        /\ p.pc # "pad"
        /\ p.pc = "ret" => p.i >= len - 1 - p.i

\* Memory is as large as it was
OnAddrs(m) == m = [a \in Addrs |-> m[a]]

StringRuns(p, m) ==
  /\ p \in Locals
  /\ OnAddrs(m)
  /\ Strcpy(p, m) /\ Strncpy(p, m) /\ Strncmp(p, m) /\ Strrev(p, m)

\* execute or printf
OtherRuns(p) ==
  /\ {"f", "pc"} \subseteq DOMAIN p
  /\ \/ p.f = "execute" /\ p.pc \in {"name", "args", "started", "ret"}
     \/ p.f = "printf" /\ p.pc \in {"loop", "conv", "past", "ret"}

\* The routine that runs has done its work up to where it stands
LibInv ==
  /\ df \in {0, 1}
  /\ \/ fr = idle /\ mem = Fresh
     \/ MemoryRuns(fr, mem, df)
     \/ StringRuns(fr, mem)
     \/ OtherRuns(fr)

----------------------------------------------------------------------------
(* Copying and filling *)

LEMMA FillingIs ==
  /\ Fills = {"memset", "memset_word", "memset_dword"}
  /\ Filling["memset"] = <<1, 1, 1, 1>>
  /\ Filling["memset_word"] = <<1, 2>>
  /\ Filling["memset_dword"] = <<1, 2, 3, 4>>
BY DEF Fills, Filling

LEMMA SizeIs ==
  /\ Size("memset") = 4 /\ Size("memset_word") = 2 /\ Size("memset_dword") = 4
  /\ Size("memcpy") = 4 /\ Size("memmove") = 1
BY FillingIs DEF Size, Word

LEMMA UnitIs ==
  /\ Unit("memset") = 1 /\ Unit("memset_word") = 2 /\ Unit("memset_dword") = 4
  /\ Unit("memcpy") = 1 /\ Unit("memmove") = 1
BY SizeIs DEF Unit

\* Byte j of a unit, whichever unit it is
LEMMA WantedFill ==
  ASSUME NEW p, p.f \in Fills, NEW k \in Nat, k % Unit(p.f) = 0, NEW z \in {1, 2, 4},
         p.f # "memset" => z = Unit(p.f), NEW j \in 0..z - 1
  PROVE  Wanted(p, k + j) = Filling[p.f][j + 1]
<1>1. CASE p.f = "memset"
  <2>1. (k + j) % 1 = 0
    OBVIOUS
  <2>2. j \in {0, 1, 2, 3}
    OBVIOUS
  <2>3. Filling[p.f][j + 1] = 1 /\ Filling[p.f][1] = 1
    BY <1>1, <2>2, FillingIs
  <2>. QED
    BY <1>1, <2>1, <2>3, UnitIs DEF Wanted
<1>2. CASE p.f = "memset_word"
  <2>1. (k + j) % 2 = j
    BY <1>2, UnitIs
  <2>. QED
    BY <1>2, <2>1, FillingIs, UnitIs DEF Wanted
<1>3. CASE p.f = "memset_dword"
  <2>1. (k + j) % 4 = j
    BY <1>3, UnitIs
  <2>. QED
    BY <1>3, <2>1, FillingIs, UnitIs DEF Wanted
<1>. QED
  BY <1>1, <1>2, <1>3, FillingIs

\* Memory m2 is memory m with size bytes stored
Stores(p, m, m2, size) ==
  m2 = [a \in (DOMAIN m) \union (p.edi..p.edi + size - 1) |->
          IF a \notin p.edi..p.edi + size - 1 THEN m[a]
          ELSE IF p.f \in Fills THEN Filling[p.f][a - p.edi + 1]
                                ELSE m[p.esi + a - p.edi]]

\* p and q are two states of the same call
SameCall(p, q) == q.f = p.f /\ q.dest = p.dest /\ q.src = p.src /\ q.n = p.n

\* A store changes the bytes it names and no others
LEMMA StoresIs ==
  ASSUME NEW p \in Registers, NEW m, NEW m2, NEW z \in {1, 2, 4}, Stores(p, m, m2, z),
         m = [a \in Addrs |-> m[a]], p.edi >= 0, p.edi + z <= MemSize
  PROVE  /\ m2 = [a \in Addrs |-> m2[a]]
         /\ \A a \in Addrs : a \notin p.edi..p.edi + z - 1 => m2[a] = m[a]
         /\ p.f \in Fills => \A j \in 0..z - 1 : m2[p.edi + j] = Filling[p.f][j + 1]
         /\ p.f \notin Fills => \A j \in 0..z - 1 : m2[p.edi + j] = m[p.esi + j]
<1>1. DOMAIN m = Addrs
  OBVIOUS
<1>2. p.edi \in Int /\ p.esi \in Int /\ MemSize \in Nat
  BY LibAssumption DEF Registers
<1>3. p.edi..p.edi + z - 1 \subseteq Addrs
  BY <1>2 DEF Addrs
<1>4. (DOMAIN m) \union (p.edi..p.edi + z - 1) = Addrs
  BY <1>1, <1>3
<1>5. m2 = [a \in Addrs |-> IF a \notin p.edi..p.edi + z - 1 THEN m[a]
                            ELSE IF p.f \in Fills THEN Filling[p.f][a - p.edi + 1]
                                                  ELSE m[p.esi + a - p.edi]]
  BY <1>4 DEF Stores
<1>6. ASSUME NEW j \in 0..z - 1
      PROVE  /\ p.edi + j \in Addrs /\ p.edi + j \in p.edi..p.edi + z - 1
             /\ (p.edi + j) - p.edi + 1 = j + 1
             /\ p.esi + (p.edi + j) - p.edi = p.esi + j
  BY <1>2, <1>3
<1>7. m2 = [a \in Addrs |-> m2[a]]
  BY <1>5
<1>8. \A a \in Addrs : a \notin p.edi..p.edi + z - 1 => m2[a] = m[a]
  BY <1>5
<1>9. \A j \in 0..z - 1 :
        m2[p.edi + j] = IF p.f \in Fills THEN Filling[p.f][j + 1] ELSE m[p.esi + j]
  BY <1>5, <1>6
<1>. QED
  BY <1>7, <1>8, <1>9

LEMMA StoreUp ==
  ASSUME NEW p \in Registers, NEW q \in Registers, SameCall(p, q), NEW m, NEW m2,
         NEW z \in {1, 2, 4}, Stores(p, m, m2, z), Stored(p, m),
         ~Down(p), q.edi = p.edi + z, p.edi >= p.dest,
         p.edi + z <= p.dest + p.n * Unit(p.f),
         p.esi - p.edi = p.src - p.dest,
         p.dest + p.n * Unit(p.f) <= MemSize, p.src + p.n * Unit(p.f) <= MemSize,
         p.f \in Fills => /\ (p.edi - p.dest) % Unit(p.f) = 0
                          /\ p.f # "memset" => z = Unit(p.f)
  PROVE  Stored(q, m2)
<1>1. /\ p.edi \in Nat /\ p.esi \in Nat /\ p.dest \in Nat /\ p.src \in Nat /\ p.n \in Nat
      /\ MemSize \in Nat /\ Unit(p.f) \in {1, 2, 4}
      /\ p.f \in Fills \union {"memcpy", "memmove"}
  <2>1. /\ p.edi \in Int /\ p.esi \in Int /\ p.dest \in Nat /\ p.src \in Nat /\ p.n \in Nat
        /\ p.f \in Fills \union {"memcpy", "memmove"} /\ MemSize \in Nat
    BY LibAssumption DEF Registers
  <2>2. Unit(p.f) \in {1, 2, 4}
    BY <2>1, UnitIs, FillingIs
  <2>. QED
    BY <2>1, <2>2
<1>2. p.edi + z <= MemSize /\ m = [a \in Addrs |-> m[a]]
  BY <1>1 DEF Stored
<1>3. /\ m2 = [a \in Addrs |-> m2[a]]
      /\ \A a \in Addrs : a \notin p.edi..p.edi + z - 1 => m2[a] = m[a]
      /\ p.f \in Fills => \A j \in 0..z - 1 : m2[p.edi + j] = Filling[p.f][j + 1]
      /\ p.f \notin Fills => \A j \in 0..z - 1 : m2[p.edi + j] = m[p.esi + j]
  BY <1>1, <1>2, StoresIs
<1>4. ~Down(q) /\ Unit(q.f) = Unit(p.f) /\ (Sound(q) <=> Sound(p))
      /\ \A k : Wanted(q, k) = Wanted(p, k)
  BY DEF SameCall, Down, Sound, Wanted
<1>5. /\ \A a : a \in Done(p) <=> a \in p.dest..p.edi - 1
      /\ \A a : a \in Done(q) <=> a \in p.dest..p.edi + z - 1
  <2>1. Done(p) = p.dest..p.edi - 1
    BY DEF Done
  <2>2. Done(q) = q.dest..q.edi - 1
    BY <1>4 DEF Done
  <2>3. q.dest = p.dest /\ q.edi = p.edi + z
    BY DEF SameCall
  <2>. QED
    BY <1>1, <2>1, <2>2, <2>3
<1>6. ASSUME Sound(p), NEW a \in Addrs
      PROVE  m2[a] = IF a \in Done(q) THEN Wanted(q, a - q.dest) ELSE Fresh[a]
  <2>1. m[a] = IF a \in Done(p) THEN Wanted(p, a - p.dest) ELSE Fresh[a]
    BY <1>6 DEF Stored
  <2>2. a \in Nat
    BY <1>1 DEF Addrs
  <2>3. CASE a \notin p.edi..p.edi + z - 1
    <3>1. a \in Done(q) <=> a \in Done(p)
      BY <1>1, <1>5, <2>2, <2>3
    <3>. QED
      BY <1>3, <1>4, <2>1, <2>3, <3>1 DEF SameCall
  <2>4. CASE a \in p.edi..p.edi + z - 1
    <3> DEFINE j == a - p.edi
    <3>1. j \in 0..z - 1 /\ a = p.edi + j /\ a - p.dest = (p.edi - p.dest) + j
      BY <1>1, <2>2, <2>4
    <3>2. a \in Done(q)
      BY <1>1, <1>5, <2>2, <2>4
    <3> HIDE DEF j
    <3>3. CASE p.f \in Fills
      <4>1. p.edi - p.dest \in Nat
        BY <1>1
      <4>2. Wanted(p, (p.edi - p.dest) + j) = Filling[p.f][j + 1]
        BY <3>1, <3>3, <4>1, WantedFill
      <4>. QED
        BY <1>3, <1>4, <3>1, <3>2, <3>3, <4>2 DEF SameCall
    <3>4. CASE p.f \notin Fills
      <4>1. Unit(p.f) = 1 /\ p.f \in {"memcpy", "memmove"}
        BY <1>1, <3>4, UnitIs
      <4> DEFINE s == p.esi + j
      <4>2. s = p.src + (a - p.dest) /\ s \in Addrs
        BY <1>1, <3>1, <4>1 DEF Addrs
      <4>3. s \notin Done(p)
        <5>1. CASE p.f = "memmove"
          BY <1>1, <1>5, <3>1, <4>2, <5>1 DEF Down
        <5>2. CASE p.f = "memcpy"
          BY <1>1, <1>5, <1>6, <3>1, <4>1, <4>2, <5>2 DEF Sound
        <5>. QED
          BY <4>1, <5>1, <5>2
      <4>4. m[s] = Fresh[s]
        BY <1>6, <4>2, <4>3 DEF Stored
      <4>5. Wanted(p, a - p.dest) = Fresh[s]
        BY <3>4, <4>2 DEF Wanted
      <4>. QED
        BY <1>3, <1>4, <3>1, <3>2, <3>4, <4>4, <4>5 DEF SameCall
    <3>. QED
      BY <3>3, <3>4
  <2>. QED
    BY <2>3, <2>4
<1>. QED
  BY <1>3, <1>4, <1>6 DEF Stored

\* Downwards, a byte at a time
LEMMA StoreDown ==
  ASSUME NEW p \in Registers, NEW q \in Registers, SameCall(p, q), NEW m, NEW m2,
         Stores(p, m, m2, 1), Stored(p, m),
         Down(p), q.edi = p.edi - 1, p.edi >= p.dest, p.edi < p.dest + p.n,
         p.esi - p.edi = p.src - p.dest,
         p.dest + p.n <= MemSize, p.src + p.n <= MemSize
  PROVE  Stored(q, m2)
<1>1. /\ p.edi \in Nat /\ p.esi \in Nat /\ p.dest \in Nat /\ p.src \in Nat /\ p.n \in Nat
      /\ MemSize \in Nat /\ p.f = "memmove" /\ p.f \notin Fills
  <2>1. /\ p.edi \in Int /\ p.esi \in Int /\ p.dest \in Nat /\ p.src \in Nat /\ p.n \in Nat
        /\ MemSize \in Nat
    BY LibAssumption DEF Registers
  <2>2. p.f = "memmove" /\ p.f \notin Fills
    BY FillingIs DEF Down
  <2>. QED
    BY <2>1, <2>2
<1>2. p.edi + 1 <= MemSize /\ m = [a \in Addrs |-> m[a]]
  BY <1>1 DEF Stored
<1>3. /\ m2 = [a \in Addrs |-> m2[a]]
      /\ \A a \in Addrs : a \notin p.edi..p.edi + 1 - 1 => m2[a] = m[a]
      /\ p.f \notin Fills => \A j \in 0..1 - 1 : m2[p.edi + j] = m[p.esi + j]
  BY <1>1, <1>2, StoresIs
<1>4. /\ \A a \in Addrs : a # p.edi => m2[a] = m[a]
      /\ m2[p.edi] = m[p.esi]
  BY <1>1, <1>3 DEF Addrs
<1>5. Down(q) /\ (Sound(q) <=> Sound(p)) /\ \A k : Wanted(q, k) = Wanted(p, k)
  BY DEF SameCall, Down, Sound, Wanted
<1>6. /\ \A a : a \in Done(p) <=> a \in p.edi + 1..p.dest + p.n - 1
      /\ \A a : a \in Done(q) <=> a \in p.edi..p.dest + p.n - 1
  <2>1. Done(p) = p.edi + 1..p.dest + p.n - 1
    BY DEF Done
  <2>2. Done(q) = q.edi + 1..q.dest + q.n - 1
    BY <1>5 DEF Done
  <2>3. q.dest = p.dest /\ q.n = p.n /\ q.edi + 1 = p.edi
    BY <1>1 DEF SameCall
  <2>. QED
    BY <2>1, <2>2, <2>3
<1>7. ASSUME NEW a \in Addrs
      PROVE  m2[a] = IF a \in Done(q) THEN Wanted(q, a - q.dest) ELSE Fresh[a]
  <2>1. m[a] = IF a \in Done(p) THEN Wanted(p, a - p.dest) ELSE Fresh[a]
    BY <1>1 DEF Stored, Sound
  <2>2. a \in Nat
    BY <1>1 DEF Addrs
  <2>3. CASE a # p.edi
    <3>1. a \in Done(q) <=> a \in Done(p)
      BY <1>1, <1>6, <2>2, <2>3
    <3>. QED
      BY <1>4, <1>5, <2>1, <2>3, <3>1 DEF SameCall
  <2>4. CASE a = p.edi
    <3>1. a \in Done(q)
      BY <1>1, <1>6, <2>4
    <3>2. p.esi = p.src + (p.edi - p.dest) /\ p.edi - p.dest < p.n
      BY <1>1
    <3>3. p.esi \in Addrs
      BY <1>1, <3>2 DEF Addrs
    <3>4. p.esi < p.edi
      BY <1>1 DEF Down
    <3>5. p.esi \notin Done(p)
      BY <1>1, <1>6, <3>4
    <3>6. m[p.esi] = Fresh[p.esi]
      BY <1>1, <3>3, <3>5 DEF Stored, Sound
    <3>7. Wanted(p, a - p.dest) = Fresh[p.esi]
      BY <1>1, <2>4, <3>2 DEF Wanted
    <3>. QED
      BY <1>4, <1>5, <2>4, <3>1, <3>6, <3>7 DEF SameCall
  <2>. QED
    BY <2>3, <2>4
<1>. QED
  BY <1>3, <1>7 DEF Stored

\* The registers of a routine that runs
LEMMA RegistersAre ==
  ASSUME NEW p \in Registers
  PROVE  /\ p.edi \in Int /\ p.esi \in Int /\ p.dest \in Nat /\ p.src \in Nat /\ p.n \in Nat
         /\ p.ecx \in Nat /\ p.edx \in Nat /\ MemSize \in Nat
         /\ p.f \in {"memset", "memset_word", "memset_dword", "memcpy", "memmove"}
         /\ p.pc \in {"top", "rep", "bottom", "ret"}
         /\ Unit(p.f) \in {1, 2, 4} /\ Size(p.f) \in {1, 2, 4}
         /\ p.f \in Fills <=> p.f \in {"memset", "memset_word", "memset_dword"}
         /\ ~Down(p) => p.f # "memmove" \/ p.src >= p.dest
         /\ Down(p) => p.f = "memmove" /\ p.src < p.dest
<1>1. /\ p.edi \in Int /\ p.esi \in Int /\ p.dest \in Nat /\ p.src \in Nat /\ p.n \in Nat
      /\ p.ecx \in Nat /\ p.edx \in Nat /\ MemSize \in Nat
      /\ p.f \in Fills \union {"memcpy", "memmove"}
      /\ p.pc \in {"top", "rep", "bottom", "ret"}
  BY LibAssumption DEF Registers
<1>2. Unit(p.f) \in {1, 2, 4} /\ Size(p.f) \in {1, 2, 4}
  BY <1>1, UnitIs, SizeIs, FillingIs
<1>. QED
  BY <1>1, <1>2, FillingIs DEF Down

\* Nothing is stored
LEMMA StoresNothing ==
  ASSUME NEW p \in Registers, NEW q \in Registers, SameCall(p, q), q.edi = p.edi, NEW m,
         Stored(p, m)
  PROVE  Stored(q, m)
<1>1. /\ Down(q) = Down(p) /\ Sound(q) = Sound(p)
      /\ \A k : Wanted(q, k) = Wanted(p, k)
  BY DEF SameCall, Down, Sound, Wanted
<1>2. Done(q) = Done(p)
  BY <1>1 DEF SameCall, Done
<1>. QED
  BY <1>1, <1>2 DEF Stored, SameCall

LEMMA TopRuns ==
  ASSUME MemoryRuns(fr, mem, df), Top
  PROVE  MemoryRuns(fr', mem', df')
<1>1. fr \in Registers /\ Placed(fr, df) /\ Stored(fr, mem) /\ fr.pc = "top"
  BY DEF MemoryRuns, Top
<1>2. /\ fr.edi \in Int /\ fr.esi \in Int /\ fr.dest \in Nat /\ fr.src \in Nat /\ fr.n \in Nat
      /\ fr.ecx \in Nat /\ fr.edx \in Nat /\ MemSize \in Nat
      /\ fr.f \in {"memset", "memcpy"} /\ ~Down(fr) /\ Unit(fr.f) = 1 /\ Size(fr.f) = 4
      /\ Left(fr) = fr.ecx
  <2>1. fr.f \in {"memset", "memcpy"}
    BY <1>1, RegistersAre DEF Placed
  <2>. QED
    BY <1>1, <2>1, RegistersAre, UnitIs, SizeIs DEF Left
<1>3. /\ df \in {0, 1} /\ fr.dest + fr.n <= MemSize /\ fr.src + fr.n <= MemSize /\ fr.ecx <= fr.n
      /\ fr.edi = fr.dest + fr.n - fr.ecx /\ fr.esi = fr.src + fr.n - fr.ecx
  BY <1>1, <1>2 DEF Placed
<1>7. fr.edi \in Int /\ fr.esi \in Int /\ fr.ecx \in Nat /\ fr.edx \in Nat
  BY <1>1 DEF Registers
<1>4. CASE fr.ecx = 0 /\ fr' = [fr EXCEPT !.pc = "ret"] /\ UNCHANGED <<mem, df>>
  <2>2. /\ fr' \in Registers /\ SameCall(fr, fr') /\ fr'.pc = "ret"
        /\ fr'.edi = fr.edi /\ fr'.esi = fr.esi
    BY <1>1, <1>4, <1>7 DEF Registers, SameCall
  <2>3. Stored(fr', mem')
    BY <1>1, <1>4, <2>2, StoresNothing
  <2>4. Placed(fr', df')
    BY <1>2, <1>3, <1>4, <2>2 DEF Placed, SameCall, Down, Left
  <2>. QED
    BY <2>2, <2>3, <2>4 DEF MemoryRuns
<1>5. CASE /\ fr.ecx > 0 /\ Store(1) /\ fr' = [Moved(1) EXCEPT !.ecx = fr.ecx - 1]
           /\ UNCHANGED df
  <2>2. fr.edi + 1 \in Int /\ fr.esi + 1 \in Int /\ fr.ecx - 1 \in Nat
    BY <1>2, <1>5
  <2>3. /\ fr' \in Registers /\ SameCall(fr, fr') /\ fr'.pc = "top"
        /\ fr'.edi = fr.edi + 1 /\ fr'.esi = fr.esi + 1 /\ fr'.ecx = fr.ecx - 1
    BY <1>1, <1>5, <1>7, <2>2 DEF Registers, SameCall, Moved
  <2>4. Stores(fr, mem, mem', 1)
    BY <1>5 DEF Store, Stores
  <2>5. /\ fr.edi >= fr.dest /\ fr.edi + 1 <= fr.dest + fr.n * Unit(fr.f)
        /\ fr.esi - fr.edi = fr.src - fr.dest
        /\ fr.dest + fr.n * Unit(fr.f) <= MemSize /\ fr.src + fr.n * Unit(fr.f) <= MemSize
    BY <1>2, <1>3, <1>5
  <2>6. fr.f \in Fills => (fr.edi - fr.dest) % Unit(fr.f) = 0 /\ (fr.f # "memset" => 1 = Unit(fr.f))
    <3>1. fr.edi - fr.dest \in Int /\ (fr.edi - fr.dest) % 1 = 0
      BY <1>2
    <3>. QED
      BY <1>2, <3>1
  <2>7. Stored(fr', mem')
    BY <1>1, <1>2, <2>3, <2>4, <2>5, <2>6, StoreUp
  <2>8. Placed(fr', df')
    BY <1>2, <1>3, <1>5, <2>3 DEF Placed, SameCall, Down, Left
  <2>. QED
    BY <2>3, <2>7, <2>8 DEF MemoryRuns
<1>6. CASE /\ fr' = [fr EXCEPT !.pc = "rep", !.edx = fr.ecx % Word, !.ecx = fr.ecx \div Word]
           /\ df' = 0 /\ UNCHANGED mem
  <2>2. fr.ecx \div 4 \in Nat /\ fr.ecx % 4 \in Nat /\ (fr.ecx \div 4) * 4 + (fr.ecx % 4) = fr.ecx
    BY <1>2
  <2>3. /\ fr' \in Registers /\ SameCall(fr, fr') /\ fr'.pc = "rep"
        /\ fr'.edi = fr.edi /\ fr'.esi = fr.esi
        /\ fr'.ecx = fr.ecx \div 4 /\ fr'.edx = fr.ecx % 4
    BY <1>1, <1>6, <1>7, <2>2 DEF Registers, SameCall, Word
  <2>4. Stored(fr', mem')
    BY <1>1, <1>6, <2>3, StoresNothing
  <2>5. Left(fr') = fr.ecx /\ Unit(fr'.f) = 1 /\ fr'.f \in {"memset", "memcpy"} /\ ~Down(fr')
    BY <1>2, <2>2, <2>3 DEF Left, SameCall, Down
  <2>6. Placed(fr', df')
    BY <1>2, <1>3, <1>6, <2>3, <2>5 DEF Placed, SameCall
  <2>. QED
    BY <2>3, <2>4, <2>6 DEF MemoryRuns
<1>. QED
  BY <1>4, <1>5, <1>6 DEF Top

\* A turn of the string instruction, upwards or downwards, and its end
LEMMA RepRuns ==
  ASSUME MemoryRuns(fr, mem, df), Rep
  PROVE  MemoryRuns(fr', mem', df')
<1> DEFINE size == Size(fr.f)
           unit == Unit(fr.f)
<1>1. fr \in Registers /\ Placed(fr, df) /\ Stored(fr, mem) /\ fr.pc = "rep"
  BY DEF MemoryRuns, Rep
<1>2. /\ fr.edi \in Int /\ fr.esi \in Int /\ fr.dest \in Nat /\ fr.src \in Nat /\ fr.n \in Nat
      /\ fr.ecx \in Nat /\ fr.edx \in Nat /\ MemSize \in Nat
      /\ size \in {1, 2, 4} /\ unit \in {1, 2, 4}
      /\ fr.f \in {"memset", "memset_word", "memset_dword", "memcpy", "memmove"}
      /\ (fr.f \in Fills <=> fr.f \in {"memset", "memset_word", "memset_dword"})
      /\ Left(fr) = fr.ecx * size + fr.edx
  BY <1>1, RegistersAre DEF Left
<1>3. /\ fr.dest + fr.n * unit <= MemSize /\ fr.src + fr.n * unit <= MemSize
      /\ fr.ecx * size + fr.edx <= fr.n * unit
      /\ df \in {0, 1} /\ (df = 1 <=> Down(fr))
      /\ fr.f \notin {"memset", "memcpy"} => fr.edx = 0 /\ size = unit
      /\ fr.f # "memset" /\ fr.f \in Fills => size = unit
      /\ fr.f = "memmove" \/ fr.f = "memset" => unit = 1
      /\ fr.f = "memmove" => size = 1
  BY <1>1, <1>2, UnitIs, SizeIs DEF Placed
<1>4. IF Down(fr) THEN /\ fr.f = "memmove" /\ fr.src < fr.dest
                       /\ fr.edi = fr.dest + fr.ecx - 1 /\ fr.esi = fr.src + fr.ecx - 1
                  ELSE /\ fr.edi = fr.dest + fr.n * unit - (fr.ecx * size + fr.edx)
                       /\ fr.esi = fr.src + fr.n * unit - (fr.ecx * size + fr.edx)
  <2>1. CASE Down(fr)
    BY <1>1, <1>2, <1>3, <2>1, RegistersAre DEF Placed
  <2>2. CASE ~Down(fr)
    BY <1>1, <1>2, <2>2 DEF Placed
  <2>. QED
    BY <2>1, <2>2
<1>7. fr.edi \in Int /\ fr.esi \in Int /\ fr.ecx \in Nat /\ fr.edx \in Nat
  BY <1>1 DEF Registers
<1>5. CASE /\ fr.ecx > 0 /\ Store(size)
           /\ fr' = [Moved(IF df = 0 THEN size ELSE -size) EXCEPT !.ecx = fr.ecx - 1]
           /\ UNCHANGED df
  <2> DEFINE step == IF df = 0 THEN size ELSE -size
  <2>2. fr.edi + step \in Int /\ fr.esi + step \in Int /\ fr.ecx - 1 \in Nat
    BY <1>2, <1>5
  <2>3. /\ fr' \in Registers /\ SameCall(fr, fr') /\ fr'.pc = "rep"
        /\ fr'.edi = fr.edi + step /\ fr'.esi = fr.esi + step
        /\ fr'.ecx = fr.ecx - 1 /\ fr'.edx = fr.edx
    BY <1>1, <1>5, <1>7, <2>2 DEF Registers, SameCall, Moved
  <2>4. Stores(fr, mem, mem', size)
    BY <1>5 DEF Store, Stores
  <2>5. df \in {0, 1} => (step = IF Down(fr) THEN -size ELSE size)
    BY <1>3
  <2>6. (fr.ecx - 1) * size = fr.ecx * size - size /\ fr.ecx * size >= size /\ fr.ecx * size \in Nat
    <3>1. CASE size = 1
      BY <1>2, <1>5, <3>1
    <3>2. CASE size = 2
      BY <1>2, <1>5, <3>2
    <3>3. CASE size = 4
      BY <1>2, <1>5, <3>3
    <3>. QED
      BY <1>2, <3>1, <3>2, <3>3
  <2> DEFINE left == fr.ecx * size
             total == fr.n * unit
  <2>7. fr'.f = fr.f /\ fr'.dest = fr.dest /\ fr'.src = fr.src /\ fr'.n = fr.n
    BY <2>3 DEF SameCall
  <2>8. Left(fr') = left - size + fr.edx /\ Unit(fr'.f) = unit /\ (Down(fr') <=> Down(fr))
    BY <2>3, <2>6, <2>7 DEF Left, Down
  <2>9. total \in Nat /\ left \in Nat /\ left >= size
    BY <1>2, <2>6
  <2>10. CASE Down(fr)
    <3>1. size = 1 /\ unit = 1 /\ left = fr.ecx /\ total = fr.n /\ step = -1 /\ fr.edx = 0
          /\ fr.ecx <= fr.n /\ fr.dest + fr.n <= MemSize /\ fr.src + fr.n <= MemSize
      <4>1. fr.f = "memmove" /\ df = 1
        BY <1>3, <1>4, <2>10
      <4>2. size = 1 /\ unit = 1 /\ fr.edx = 0
        BY <1>3, <4>1
      <4>. QED
        BY <1>2, <1>3, <4>1, <4>2
    <3>2. fr.edi = fr.dest + fr.ecx - 1 /\ fr.esi = fr.src + fr.ecx - 1
      BY <1>4, <2>10
    <3>3. Stored(fr', mem')
      <4>1. Stores(fr, mem, mem', 1) /\ fr'.edi = fr.edi - 1
        BY <1>2, <2>3, <2>4, <3>1
      <4>2. fr.edi >= fr.dest /\ fr.edi < fr.dest + fr.n /\ fr.esi - fr.edi = fr.src - fr.dest
        BY <1>2, <1>5, <3>1, <3>2
      <4>. QED
        BY <1>1, <2>3, <2>10, <3>1, <4>1, <4>2, StoreDown
    <3>4. Left(fr') = fr.ecx - 1 /\ Unit(fr'.f) = 1
      BY <1>2, <2>8, <3>1
    <3>5. Placed(fr', df')
      BY <1>2, <1>3, <1>4, <1>5, <2>3, <2>7, <2>8, <2>10, <3>1, <3>2, <3>4 DEF Placed
    <3>. QED
      BY <2>3, <3>3, <3>5 DEF MemoryRuns
  <2>11. CASE ~Down(fr)
    <3>1. step = size
      BY <1>3, <2>11
    <3>2. fr.edi = fr.dest + total - (left + fr.edx) /\ fr.esi = fr.src + total - (left + fr.edx)
          /\ fr.dest + total <= MemSize /\ fr.src + total <= MemSize /\ left + fr.edx <= total
      BY <1>3, <1>4, <2>11
    <3>3. fr.f \in Fills => /\ (fr.edi - fr.dest) % unit = 0
                            /\ fr.f # "memset" => size = unit
      <4>1. CASE fr.f = "memset"
        <5>1. unit = 1 /\ fr.edi - fr.dest \in Int
          BY <1>2, <1>3, <4>1
        <5>. QED
          BY <4>1, <5>1
      <4>2. CASE fr.f = "memset_word"
        <5>1. unit = 2 /\ size = 2 /\ fr.edx = 0
          BY <1>3, <4>2, UnitIs, SizeIs
        <5>2. fr.edi - fr.dest = (fr.n - fr.ecx) * 2 /\ fr.n - fr.ecx \in Int
          BY <1>2, <3>2, <5>1
        <5>3. ((fr.n - fr.ecx) * 2) % 2 = 0
          BY <5>2
        <5>. QED
          BY <5>1, <5>2, <5>3
      <4>3. CASE fr.f = "memset_dword"
        <5>1. unit = 4 /\ size = 4 /\ fr.edx = 0
          BY <1>3, <4>3, UnitIs, SizeIs
        <5>2. fr.edi - fr.dest = (fr.n - fr.ecx) * 4 /\ fr.n - fr.ecx \in Int
          BY <1>2, <3>2, <5>1
        <5>3. ((fr.n - fr.ecx) * 4) % 4 = 0
          BY <5>2
        <5>. QED
          BY <5>1, <5>2, <5>3
      <4>. QED
        BY <1>2, <4>1, <4>2, <4>3
    <3>4. /\ fr'.edi = fr.edi + size /\ fr.edi >= fr.dest /\ fr.edi + size <= fr.dest + total
          /\ fr.esi - fr.edi = fr.src - fr.dest
      BY <1>2, <2>3, <2>9, <3>1, <3>2
    <3>5. Stored(fr', mem')
      BY <1>1, <1>2, <2>3, <2>4, <2>11, <3>2, <3>3, <3>4, StoreUp
    <3> HIDE DEF total, left, size, unit, step
    <3>6. /\ fr'.edi = fr'.dest + total - Left(fr') /\ fr'.esi = fr'.src + total - Left(fr')
          /\ Left(fr') <= total
      BY <1>2, <2>3, <2>7, <2>8, <2>9, <3>1, <3>2
    <3>7. Placed(fr', df')
      BY <1>3, <1>5, <2>3, <2>7, <2>8, <2>11, <3>2, <3>6 DEF Placed, total
    <3>. QED
      BY <2>3, <3>5, <3>7 DEF MemoryRuns
  <2>. QED
    BY <2>10, <2>11
<1>6. CASE /\ fr.ecx = 0 /\ UNCHANGED <<mem, df>>
           /\ fr' = [fr EXCEPT !.pc = IF fr.f \in {"memset", "memcpy"} THEN "bottom" ELSE "ret"]
  <2> DEFINE pc == IF fr.f \in {"memset", "memcpy"} THEN "bottom" ELSE "ret"
  <2>2. pc \in {"top", "rep", "bottom", "ret"}
    OBVIOUS
  <2> HIDE DEF pc
  <2>3. /\ fr' \in Registers /\ SameCall(fr, fr') /\ fr'.pc = pc
        /\ fr'.edi = fr.edi /\ fr'.esi = fr.esi /\ fr'.edx = fr.edx
    BY <1>1, <1>6, <1>7, <2>2 DEF Registers, SameCall, pc
  <2>4. Stored(fr', mem')
    BY <1>1, <1>6, <2>3, StoresNothing
  <2>5. Left(fr') = Left(fr) /\ Unit(fr'.f) = unit /\ (Down(fr') <=> Down(fr))
    <3>1. Left(fr) = fr.edx
      BY <1>2, <1>6
    <3>2. Left(fr') = fr.edx
      BY <1>2, <1>3, <2>3 DEF Left, pc
    <3>. QED
      BY <2>3, <3>1, <3>2 DEF SameCall, Down
  <2>6. pc = "bottom" => ~Down(fr) /\ fr.f \in {"memset", "memcpy"}
    BY <1>1, RegistersAre DEF pc
  <2>7. pc \in {"bottom", "ret"}
    BY DEF pc
  <2>8. Placed(fr', df')
    BY <1>1, <1>2, <1>6, <2>3, <2>5, <2>6, <2>7 DEF Placed, SameCall
  <2>. QED
    BY <2>3, <2>4, <2>8 DEF MemoryRuns
<1>. QED
  BY <1>5, <1>6 DEF Rep

\* The bytes after the last whole word
LEMMA BottomRuns ==
  ASSUME MemoryRuns(fr, mem, df), Bottom
  PROVE  MemoryRuns(fr', mem', df')
<1>1. fr \in Registers /\ Placed(fr, df) /\ Stored(fr, mem) /\ fr.pc = "bottom"
  BY DEF MemoryRuns, Bottom
<1>2. /\ fr.edi \in Int /\ fr.esi \in Int /\ fr.dest \in Nat /\ fr.src \in Nat /\ fr.n \in Nat
      /\ fr.ecx \in Nat /\ fr.edx \in Nat /\ MemSize \in Nat
      /\ fr.f \in {"memset", "memcpy"} /\ ~Down(fr) /\ Unit(fr.f) = 1
      /\ Left(fr) = fr.edx
  <2>1. fr.f \in {"memset", "memcpy"} /\ ~Down(fr)
    BY <1>1, RegistersAre DEF Placed
  <2>. QED
    BY <1>1, <2>1, RegistersAre, UnitIs DEF Left
<1>3. /\ df \in {0, 1} /\ fr.dest + fr.n <= MemSize /\ fr.src + fr.n <= MemSize /\ fr.edx <= fr.n
      /\ fr.edi = fr.dest + fr.n - fr.edx /\ fr.esi = fr.src + fr.n - fr.edx
  BY <1>1, <1>2 DEF Placed
<1>4. fr.edi \in Int /\ fr.esi \in Int /\ fr.ecx \in Nat /\ fr.edx \in Nat
  BY <1>1 DEF Registers
<1>5. CASE fr.edx = 0 /\ fr' = [fr EXCEPT !.pc = "ret"] /\ UNCHANGED mem
  <2>1. /\ fr' \in Registers /\ SameCall(fr, fr') /\ fr'.pc = "ret"
        /\ fr'.edi = fr.edi /\ fr'.esi = fr.esi /\ fr'.edx = fr.edx
    BY <1>1, <1>4, <1>5 DEF Registers, SameCall
  <2>2. Stored(fr', mem')
    BY <1>1, <1>5, <2>1, StoresNothing
  <2>3. Placed(fr', df')
    BY <1>2, <1>3, <1>5, <2>1 DEF Placed, SameCall, Down, Left, Bottom
  <2>. QED
    BY <2>1, <2>2, <2>3 DEF MemoryRuns
<1>6. CASE fr.edx > 0 /\ Store(1) /\ fr' = [Moved(1) EXCEPT !.edx = fr.edx - 1]
  <2>1. fr.edi + 1 \in Int /\ fr.esi + 1 \in Int /\ fr.edx - 1 \in Nat
    BY <1>2, <1>6
  <2>2. /\ fr' \in Registers /\ SameCall(fr, fr') /\ fr'.pc = "bottom"
        /\ fr'.edi = fr.edi + 1 /\ fr'.esi = fr.esi + 1 /\ fr'.edx = fr.edx - 1
    BY <1>1, <1>4, <1>6, <2>1 DEF Registers, SameCall, Moved
  <2>3. Stores(fr, mem, mem', 1)
    BY <1>6 DEF Store, Stores
  <2>4. /\ fr.edi >= fr.dest /\ fr.edi + 1 <= fr.dest + fr.n * Unit(fr.f)
        /\ fr.esi - fr.edi = fr.src - fr.dest
        /\ fr.dest + fr.n * Unit(fr.f) <= MemSize /\ fr.src + fr.n * Unit(fr.f) <= MemSize
    BY <1>2, <1>3, <1>6
  <2>5. fr.f \in Fills => (fr.edi - fr.dest) % Unit(fr.f) = 0 /\ (fr.f # "memset" => 1 = Unit(fr.f))
    <3>1. fr.edi - fr.dest \in Int /\ (fr.edi - fr.dest) % 1 = 0
      BY <1>2
    <3>. QED
      BY <1>2, <3>1
  <2>6. Stored(fr', mem')
    BY <1>1, <1>2, <2>2, <2>3, <2>4, <2>5, StoreUp
  <2>7. Placed(fr', df')
    BY <1>2, <1>3, <1>6, <2>2 DEF Placed, SameCall, Down, Left, Bottom
  <2>. QED
    BY <2>2, <2>6, <2>7 DEF MemoryRuns
<1>. QED
  BY <1>5, <1>6 DEF Bottom

\* A call finds its area of memory as it was
LEMMA EnterRuns ==
  ASSUME mem = Fresh, df \in {0, 1}, df' \in {0, 1},
         NEW f \in {"memset", "memset_word", "memset_dword", "memcpy", "memmove"},
         NEW dest \in Nat, NEW src \in Nat, NEW n \in Nat, NEW edi \in Int, NEW esi \in Int,
         NEW pc \in {"top", "rep"}, Enter(f, dest, src, n, edi, esi, pc),
         pc = "top" <=> f \in {"memset", "memcpy"},
         IF f = "memmove" /\ src < dest
         THEN edi = dest + n - 1 /\ esi = src + n - 1
         ELSE edi = dest /\ esi = src,
         pc = "rep" => (df' = 1 <=> f = "memmove" /\ src < dest)
  PROVE  MemoryRuns(fr', mem', df')
<1>1. /\ dest + n * Unit(f) <= MemSize /\ src + n * Unit(f) <= MemSize
      /\ pc = "rep" => Size(f) = Unit(f)
      /\ Unit(f) \in {1, 2, 4} /\ (f \in {"memset", "memcpy", "memmove"} => Unit(f) = 1)
  <2>1. /\ pc = "rep" => Size(f) = Unit(f)
        /\ Unit(f) \in {1, 2, 4} /\ (f \in {"memset", "memcpy", "memmove"} => Unit(f) = 1)
        /\ f \in {"memset_word", "memset_dword"} => Size(f) = Unit(f)
    BY UnitIs, SizeIs
  <2>2. n * 1 = n
    OBVIOUS
  <2>. QED
    BY <2>1, <2>2 DEF Enter
<1>2. /\ fr' = [f |-> f, pc |-> pc, dest |-> dest, src |-> src, n |-> n,
                edi |-> edi, esi |-> esi, ecx |-> n, edx |-> 0]
      /\ mem' = mem
  BY DEF Enter
<1>3. /\ fr'.f = f /\ fr'.pc = pc /\ fr'.dest = dest /\ fr'.src = src /\ fr'.n = n
      /\ fr'.edi = edi /\ fr'.esi = esi /\ fr'.ecx = n /\ fr'.edx = 0
      /\ fr' \in Registers
  BY <1>2, FillingIs DEF Registers
<1>4. Left(fr') = n * Unit(f)
  <2>1. CASE pc = "top"
    BY <1>1, <1>3, <2>1 DEF Left
  <2>2. CASE pc = "rep"
    <3>1. n * Unit(f) \in Nat
      BY <1>1
    <3>. QED
      BY <1>1, <1>3, <2>2, <3>1 DEF Left
  <2>. QED
    BY <2>1, <2>2
<1>5. Down(fr') <=> f = "memmove" /\ src < dest
  BY <1>3 DEF Down
<1>6. n * Unit(f) \in Nat
  BY <1>1
<1>7. Placed(fr', df')
  <2>1. CASE Down(fr')
    BY <1>1, <1>3, <1>4, <1>5, <1>6, <2>1 DEF Placed
  <2>2. CASE ~Down(fr')
    BY <1>1, <1>3, <1>4, <1>5, <1>6, <2>2 DEF Placed
  <2>. QED
    BY <2>1, <2>2
<1>8. \A a : a \notin Done(fr')
  <2>1. CASE Down(fr')
    BY <1>3, <1>5, <2>1 DEF Done
  <2>2. CASE ~Down(fr')
    BY <1>3, <1>5, <2>2 DEF Done
  <2>. QED
    BY <2>1, <2>2
<1>9. Stored(fr', mem')
  <2>1. mem' = Fresh /\ Fresh = [a \in Addrs |-> Fresh[a]]
    BY <1>2 DEF Fresh
  <2>. QED
    BY <1>8, <2>1 DEF Stored
<1>. QED
  BY <1>3, <1>7, <1>9 DEF MemoryRuns

\* A routine that has returned has stored what it was to store
LEMMA MemoryReturns ==
  ASSUME MemoryRuns(fr, mem, df)
  PROVE  Filled /\ Copied
<1>1. fr \in Registers /\ Placed(fr, df) /\ Stored(fr, mem)
  BY DEF MemoryRuns
<1>2. /\ fr.edi \in Int /\ fr.dest \in Nat /\ fr.src \in Nat /\ fr.n \in Nat
      /\ Unit(fr.f) \in {1, 2, 4} /\ MemSize \in Nat
  BY <1>1, RegistersAre
<1>3. ASSUME fr.pc = "ret"
      PROVE  \A a \in Addrs : a \in Done(fr) <=> a \in fr.dest..fr.dest + fr.n * Unit(fr.f) - 1
  <2>1. Left(fr) = 0
    BY <1>3 DEF Left
  <2>2. CASE Down(fr)
    <3>1. fr.edi = fr.dest - 1 /\ fr.n * Unit(fr.f) = fr.n
      BY <1>1, <1>2, <2>1, <2>2, UnitIs DEF Placed, Down
    <3>. QED
      BY <1>2, <2>2, <3>1 DEF Done
  <2>3. CASE ~Down(fr)
    <3>1. fr.n * Unit(fr.f) \in Nat
      BY <1>2
    <3>2. fr.edi = fr.dest + fr.n * Unit(fr.f)
      BY <1>1, <1>2, <2>1, <2>3, <3>1 DEF Placed
    <3>. QED
      BY <1>2, <2>3, <3>2 DEF Done
  <2>. QED
    BY <2>2, <2>3
<1>4. ASSUME fr.pc = "ret", Sound(fr)
      PROVE  mem = [a \in Addrs |-> IF a \in fr.dest..fr.dest + fr.n * Unit(fr.f) - 1
                                    THEN Wanted(fr, a - fr.dest) ELSE Fresh[a]]
  BY <1>1, <1>3, <1>4 DEF Stored
<1>5. Filled
  <2>1. SUFFICES ASSUME fr.pc = "ret", fr.f \in Fills
                 PROVE  LET size == IF fr.f = "memset" THEN 1 ELSE Size(fr.f)
                        IN  Changed(fr.dest, fr.n * size,
                                    LAMBDA k : Filling[fr.f][(k % size) + 1])
    BY DEF Filled
  <2>2. Sound(fr)
    BY <2>1, FillingIs DEF Sound
  <2>3. (IF fr.f = "memset" THEN 1 ELSE Size(fr.f)) = Unit(fr.f)
    BY <2>1, FillingIs DEF Unit
  <2>4. \A k : Wanted(fr, k) = Filling[fr.f][(k % Unit(fr.f)) + 1]
    BY <2>1 DEF Wanted
  <2>. QED
    BY <1>4, <2>1, <2>2, <2>3, <2>4 DEF Changed
<1>6. Copied
  <2>1. SUFFICES ASSUME fr.pc = "ret", Sound(fr), fr.f \in {"memcpy", "memmove"}
                 PROVE  Changed(fr.dest, fr.n, LAMBDA k : Fresh[fr.src + k])
    BY DEF Copied, Sound
  <2>2. fr.n * Unit(fr.f) = fr.n
    BY <1>2, <2>1, UnitIs
  <2>3. \A k : Wanted(fr, k) = Fresh[fr.src + k]
    BY <2>1, FillingIs DEF Wanted
  <2>. QED
    BY <1>4, <2>1, <2>2, <2>3 DEF Changed
<1>. QED
  BY <1>5, <1>6

----------------------------------------------------------------------------
(* Strings *)

LEMMA ElementOf ==
  ASSUME NEW S, NEW s \in Seq(S), NEW k \in 1..Len(s)
  PROVE  s[k] \in S
OBVIOUS

\* A string is shorter than half of memory, and only its terminator is NUL
LEMMA StringFacts ==
  ASSUME NEW s \in Strings
  PROVE  /\ Len(s) \in Nat /\ Len(s) < Middle /\ Middle \in Nat /\ MemSize \in Nat
         /\ 2 * Middle <= MemSize
         /\ s = [k \in 1..Len(s) |-> s[k]]
         /\ \A k \in Nat : Byte(s, k) \in 0..127 /\ (Byte(s, k) = NUL <=> k >= Len(s))
<1>1. s \in Seq(1..127) /\ Len(s) < MemSize \div 2 /\ MemSize \in Nat
  BY LibAssumption
<1>2. Len(s) \in Nat /\ s = [k \in 1..Len(s) |-> s[k]] /\ \A k \in 1..Len(s) : s[k] \in 1..127
  <2>1. Len(s) \in Nat
    BY <1>1
  <2>2. DOMAIN s = 1..Len(s)
    BY <1>1
  <2>3. \A k \in 1..Len(s) : s[k] \in 1..127
    <3> DEFINE S == 1..127
    <3>1. s \in Seq(S)
      BY <1>1
    <3> HIDE DEF S
    <3>2. \A k \in 1..Len(s) : s[k] \in S
      BY <3>1, ElementOf
    <3>. QED
      BY <3>2 DEF S
  <2>4. s = [k \in 1..Len(s) |-> s[k]]
    BY <1>1, <2>2
  <2>. QED
    BY <2>1, <2>3, <2>4
<1>3. Middle \in Nat /\ 2 * Middle <= MemSize /\ Len(s) < Middle
  BY <1>1 DEF Middle
<1>4. ASSUME NEW k \in Nat
      PROVE  Byte(s, k) \in 0..127 /\ (Byte(s, k) = NUL <=> k >= Len(s))
  <2>1. CASE k < Len(s)
    <3>1. k + 1 \in 1..Len(s)
      BY <1>2, <2>1
    <3>2. s[k + 1] \in 1..127
      BY <1>2, <3>1
    <3>3. Byte(s, k) = s[k + 1]
      BY <2>1 DEF Byte
    <3> DEFINE c == s[k + 1]
    <3>4. c \in 1..127 /\ Byte(s, k) = c
      BY <3>2, <3>3
    <3> HIDE DEF c
    <3>5. c \in 0..127 /\ c # 0
      BY <3>4
    <3>. QED
      BY <1>2, <2>1, <3>4, <3>5 DEF NUL
  <2>2. CASE ~(k < Len(s))
    BY <1>2, <2>2 DEF Byte, NUL
  <2>. QED
    BY <2>1, <2>2
<1>. QED
  BY <1>1, <1>2, <1>3, <1>4

LEMMA CountFacts ==
  ASSUME NEW n \in Lengths
  PROVE  n \in Nat /\ n <= Middle
BY LibAssumption DEF Middle

\* Where two strings lie when a string routine is called
LEMMA HoldingIs ==
  ASSUME NEW s1 \in Strings, NEW s2 \in Strings, NEW m, m = Holding(s1, s2)
  PROVE  OnAddrs(m) /\ Lies(m, 0, s1) /\ Lies(m, Middle, s2)
<1>1. /\ Len(s1) \in Nat /\ Len(s2) \in Nat /\ Len(s1) < Middle /\ Len(s2) < Middle
      /\ Middle \in Nat /\ MemSize \in Nat /\ 2 * Middle <= MemSize
  BY StringFacts
<1>2. OnAddrs(m)
  BY DEF Holding, OnAddrs
<1>3. ASSUME NEW k \in 0..Len(s1)
      PROVE  m[0 + k] = Byte(s1, k)
  <2>1. k \in Addrs /\ k <= Len(s1) /\ 0 + k = k
    BY <1>1 DEF Addrs
  <2>2. m[k] = At(0, s1)[k]
    BY <2>1 DEF Holding
  <2>3. At(0, s1)[k] = IF k = 0 + Len(s1) THEN NUL ELSE s1[k - 0 + 1]
    BY <1>1 DEF At
  <2>4. k - 0 + 1 = k + 1 /\ 0 + Len(s1) = Len(s1)
    BY <1>1
  <2>5. k = 0 + Len(s1) <=> ~(k < Len(s1))
    BY <1>1
  <2>6. m[k] = IF k < Len(s1) THEN s1[k + 1] ELSE NUL
    BY <2>2, <2>3, <2>4, <2>5
  <2>. QED
    BY <2>1, <2>6 DEF Byte
<1>4. ASSUME NEW k \in 0..Len(s2)
      PROVE  m[Middle + k] = Byte(s2, k)
  <2> DEFINE a == Middle + k
  <2>1. /\ a \in Addrs /\ ~(a <= Len(s1)) /\ a \in Middle..Middle + Len(s2)
        /\ (a = Middle + Len(s2) <=> k = Len(s2)) /\ a - Middle + 1 = k + 1
    BY <1>1 DEF Addrs
  <2> HIDE DEF a
  <2>2. m[a] = At(Middle, s2)[a]
    BY <2>1 DEF Holding
  <2>3. At(Middle, s2)[a] = IF a = Middle + Len(s2) THEN NUL ELSE s2[a - Middle + 1]
    BY <2>1 DEF At
  <2>4. m[a] = Byte(s2, k)
    BY <1>1, <2>1, <2>2, <2>3 DEF Byte
  <2>. QED
    BY <2>4 DEF a
<1>. QED
  BY <1>2, <1>3, <1>4 DEF Lies

\* strlen finds the first NUL
LEMMA StrlenIs ==
  ASSUME NEW m, NEW b \in Nat, NEW len \in 0..MemSize, MemSize \in Nat, m[b + len] = NUL,
         \A k \in 0..len - 1 : m[b + k] # NUL
  PROVE  strlen(m, b) = len /\ StringAt(m, b) = [k \in 1..len |-> m[b + k - 1]]
<1> DEFINE l == strlen(m, b)
<1>1. l \in 0..MemSize /\ m[b + l] = NUL /\ \A j \in 0..l - 1 : m[b + j] # NUL
  <2>1. \E k \in 0..MemSize : m[b + k] = NUL /\ \A j \in 0..k - 1 : m[b + j] # NUL
    OBVIOUS
  <2>. QED
    BY <2>1 DEF strlen
<1> HIDE DEF l
<1>2. ~(l < len)
  BY <1>1
<1>3. ~(len < l)
  BY <1>1
<1>4. l = len
  BY <1>1, <1>2, <1>3
<1>. QED
  BY <1>4 DEF l, StringAt

\* A string that lies in memory is what is found there
LEMMA LiesThere ==
  ASSUME NEW s \in Strings, NEW m, NEW b \in Nat, Lies(m, b, s)
  PROVE  strlen(m, b) = Len(s) /\ StringAt(m, b) = s
<1>1. /\ Len(s) \in Nat /\ MemSize \in Nat /\ Len(s) <= MemSize
      /\ s = [k \in 1..Len(s) |-> s[k]]
      /\ \A k \in Nat : Byte(s, k) = NUL <=> k >= Len(s)
  BY StringFacts
<1>2. m[b + Len(s)] = NUL /\ \A k \in 0..Len(s) - 1 : m[b + k] # NUL
  BY <1>1 DEF Lies
<1>3. strlen(m, b) = Len(s) /\ StringAt(m, b) = [k \in 1..Len(s) |-> m[b + k - 1]]
  <2> DEFINE len == Len(s)
  <2>1. len \in 0..MemSize
    BY <1>1
  <2>2. m[b + len] = NUL /\ \A k \in 0..len - 1 : m[b + k] # NUL
    BY <1>2
  <2> HIDE DEF len
  <2>3. strlen(m, b) = len /\ StringAt(m, b) = [k \in 1..len |-> m[b + k - 1]]
    BY <1>1, <2>1, <2>2, StrlenIs
  <2>. QED
    BY <2>3 DEF len
<1>4. ASSUME NEW k \in 1..Len(s)
      PROVE  m[b + k - 1] = s[k]
  <2> DEFINE j == k - 1
  <2>1. j \in 0..Len(s) /\ b + k - 1 = b + j /\ j < Len(s) /\ j + 1 = k
    BY <1>1
  <2> HIDE DEF j
  <2>2. m[b + j] = s[j + 1]
    BY <2>1 DEF Lies, Byte
  <2>. QED
    BY <2>1, <2>2
<1>5. [k \in 1..Len(s) |-> m[b + k - 1]] = [k \in 1..Len(s) |-> s[k]]
  BY <1>4
<1>. QED
  BY <1>1, <1>3, <1>5

LEMMA LocalsAre ==
  ASSUME NEW p \in Locals
  PROVE  /\ p.s1 \in Strings /\ p.s2 \in Strings /\ p.n \in Lengths /\ p.i \in Nat /\ p.val \in Int
         /\ p.n \in Nat /\ p.n <= Middle /\ p.pc \in {"loop", "pad", "ret"}
         /\ p.f \in {"strcpy", "strncpy", "strncmp", "strrev"}
BY CountFacts DEF Locals

\* A call finds its strings in memory
LEMMA CallRuns ==
  ASSUME NEW f \in {"strcpy", "strncpy", "strncmp", "strrev"}, NEW s1 \in Strings,
         NEW s2 \in Strings, NEW n \in Lengths, StringCall(f, s1, s2, n)
  PROVE  StringRuns(fr', mem')
<1>1. /\ fr' = [f |-> f, pc |-> "loop", s1 |-> s1, s2 |-> s2, n |-> n, i |-> 0, val |-> 0]
      /\ mem' = Holding(s2, s1)
  BY DEF StringCall
<1>2. /\ fr' \in Locals
      /\ fr'.f = f /\ fr'.pc = "loop" /\ fr'.s1 = s1 /\ fr'.s2 = s2 /\ fr'.n = n
      /\ fr'.i = 0 /\ fr'.val = 0
  BY <1>1 DEF Locals
<1>3. OnAddrs(mem') /\ Lies(mem', 0, s2) /\ Lies(mem', Middle, s1)
  BY <1>1, HoldingIs
<1>4. Len(s1) \in Nat /\ Len(s2) \in Nat /\ n \in Nat
  BY StringFacts, CountFacts
<1>5. Strcpy(fr', mem')
  BY <1>2, <1>3, <1>4 DEF Strcpy
<1>6. Strncpy(fr', mem')
  BY <1>2, <1>3, <1>4 DEF Strncpy, Lies
<1>7. Strncmp(fr', mem')
  BY <1>2, <1>3, <1>4 DEF Strncmp
<1>8. Strrev(fr', mem')
  <2>1. mem'[0 + Len(s2)] = NUL /\ \A k \in 0..Len(s2) - 1 : mem'[0 + k] = Byte(s2, k)
    BY <1>3, <1>4 DEF Lies, Byte
  <2>2. \A k \in 0..Len(s2) - 1 : Turned(0, Len(s2), k) = k /\ 0 + k = k
    BY <1>4 DEF Turned
  <2>. QED
    BY <1>2, <1>4, <2>1, <2>2 DEF Strrev
<1>. QED
  BY <1>2, <1>3, <1>5, <1>6, <1>7, <1>8 DEF StringRuns

\* A character is written
Writes(m, m2, x, c) == m2 = [m EXCEPT ![x] = c]

LEMMA WritesIs ==
  ASSUME NEW m, NEW m2, NEW x \in Addrs, NEW c, Writes(m, m2, x, c), OnAddrs(m)
  PROVE  /\ OnAddrs(m2)
         /\ m2[x] = c /\ \A a \in Addrs : a # x => m2[a] = m[a]
BY DEF Writes, OnAddrs

\* A write behind a string leaves it alone
LEMMA LiesStill ==
  ASSUME NEW s \in Strings, NEW m, NEW m2, NEW x \in Nat, x >= Middle, Lies(m, 0, s),
         \A a \in Addrs : a # x => m2[a] = m[a]
  PROVE  Lies(m2, 0, s)
<1>1. Len(s) \in Nat /\ Len(s) < Middle /\ Middle \in Nat /\ MemSize \in Nat /\ 2 * Middle <= MemSize
  BY StringFacts
<1>2. ASSUME NEW k \in 0..Len(s)
      PROVE  m2[0 + k] = Byte(s, k)
  <2>1. k \in Addrs /\ k # x /\ 0 + k = k
    BY <1>1 DEF Addrs
  <2>. QED
    BY <2>1 DEF Lies
<1>. QED
  BY <1>2 DEF Lies

\* strcpy has copied the characters before i
LEMMA StrcpyRuns ==
  ASSUME StringRuns(fr, mem), strcpy
  PROVE  StringRuns(fr', mem')
<1> DEFINE i == fr.i
           s == fr.s2
           x == Middle + i
<1>1. /\ fr \in Locals /\ OnAddrs(mem) /\ Strcpy(fr, mem)
      /\ fr.f = "strcpy" /\ fr.pc = "loop"
      /\ Writes(mem, mem', x, mem[i])
      /\ fr' = IF mem[i] # NUL THEN [fr EXCEPT !.i = i + 1] ELSE [fr EXCEPT !.pc = "ret"]
  BY DEF StringRuns, strcpy, Writes
<1>2. s \in Strings /\ i \in Nat /\ i <= Len(s) /\ Lies(mem, 0, s)
      /\ \A k \in 0..i - 1 : mem[Middle + k] = Byte(s, k)
  BY <1>1, LocalsAre DEF Strcpy
<1>3. /\ Len(s) \in Nat /\ Len(s) < Middle /\ Middle \in Nat /\ MemSize \in Nat
      /\ 2 * Middle <= MemSize
      /\ \A k \in Nat : Byte(s, k) \in 0..127 /\ (Byte(s, k) = NUL <=> k >= Len(s))
  BY <1>2, StringFacts
<1>4. fr' \in Locals /\ fr'.f = "strcpy" /\ fr'.s2 = s
      /\ IF mem[i] # NUL THEN fr'.pc = "loop" /\ fr'.i = i + 1 ELSE fr'.pc = "ret" /\ fr'.i = i
  BY <1>1, <1>2 DEF Locals
<1>5. x \in Addrs /\ x \in Nat /\ x >= Middle /\ x = Middle + i
  BY <1>2, <1>3 DEF Addrs
<1>6. mem[i] = Byte(s, i)
  <2>1. i \in 0..Len(s) /\ 0 + i = i
    BY <1>2, <1>3
  <2>. QED
    BY <1>2, <2>1 DEF Lies
<1>7. Writes(mem, mem', x, mem[i]) /\ OnAddrs(mem)
  BY <1>1
<1> HIDE DEF s, i, x
<1>8. /\ OnAddrs(mem')
      /\ mem'[x] = mem[i] /\ \A a \in Addrs : a # x => mem'[a] = mem[a]
  BY <1>5, <1>7, WritesIs
<1>9. Lies(mem', 0, s)
  BY <1>2, <1>5, <1>8, LiesStill
<1>10. \A k \in 0..i : mem'[Middle + k] = Byte(s, k)
  <2> TAKE k \in 0..i
  <2>1. CASE k = i
    BY <1>5, <1>6, <1>8, <2>1
  <2>2. CASE k # i
    <3>1. Middle + k \in Addrs /\ Middle + k # x /\ k \in 0..i - 1
      BY <1>2, <1>3, <1>5, <2>2 DEF Addrs
    <3>. QED
      BY <1>2, <1>8, <3>1
  <2>. QED
    BY <2>1, <2>2
<1>11. Strcpy(fr', mem')
  <2>1. CASE mem[i] # NUL
    <3>1. i < Len(s) /\ fr'.i = i + 1 /\ fr'.pc = "loop" /\ fr'.i - 1 = i /\ fr'.i <= Len(s)
      BY <1>2, <1>3, <1>4, <1>6, <2>1
    <3>. QED
      BY <1>4, <1>9, <1>10, <3>1 DEF Strcpy
  <2>2. CASE mem[i] = NUL
    <3>1. i = Len(s) /\ fr'.i = i /\ fr'.pc = "ret"
      <4>1. Byte(s, i) = NUL
        BY <1>6, <2>2
      <4>2. i = Len(s)
        BY <1>2, <1>3, <4>1
      <4>. QED
        BY <1>4, <2>2, <4>2
    <3>2. Lies(mem', Middle, s)
      BY <1>10, <3>1 DEF Lies
    <3>3. \A k \in 0..i - 1 : mem'[Middle + k] = Byte(s, k)
      BY <1>2, <1>10
    <3>. QED
      BY <1>2, <1>4, <1>9, <3>1, <3>2, <3>3 DEF Strcpy
  <2>. QED
    BY <2>1, <2>2
<1>. QED
  BY <1>4, <1>8, <1>11 DEF StringRuns, Strncpy, Strncmp, Strrev

\* strncpy has copied or padded the places before i, and s1 is still behind them
LEMMA StrncpyRuns ==
  ASSUME StringRuns(fr, mem), strncpy
  PROVE  StringRuns(fr', mem')
<1> DEFINE i == fr.i
           n == fr.n
           s == fr.s2
           s1 == fr.s1
           x == Middle + i
<1>1. /\ fr \in Locals /\ OnAddrs(mem) /\ Strncpy(fr, mem) /\ fr.f = "strncpy"
  BY DEF StringRuns, strncpy
<1>2. /\ s \in Strings /\ s1 \in Strings /\ i \in Nat /\ n \in Nat /\ n <= Middle
      /\ i <= n /\ Lies(mem, 0, s)
      /\ fr.pc = "loop" => i <= Len(s)
      /\ fr.pc # "loop" => i >= Len(s) \/ i >= n
      /\ \A k \in 0..i - 1 : mem[Middle + k] = Byte(s, k)
      /\ \A k \in i..Len(s1) : mem[Middle + k] = Byte(s1, k)
  BY <1>1, LocalsAre DEF Strncpy
<1>3. /\ Len(s) \in Nat /\ Len(s1) \in Nat /\ Len(s) < Middle /\ Len(s1) < Middle
      /\ Middle \in Nat /\ MemSize \in Nat /\ 2 * Middle <= MemSize
      /\ \A k \in Nat : Byte(s, k) \in 0..127 /\ (Byte(s, k) = NUL <=> k >= Len(s))
  BY <1>2, StringFacts
<1>4. fr.pc = "loop" => mem[i] = Byte(s, i)
  <2>1. fr.pc = "loop" => i \in 0..Len(s) /\ 0 + i = i
    BY <1>2, <1>3
  <2>. QED
    BY <1>2, <2>1 DEF Lies
\* A character of the copy is stored
<1>5. ASSUME i < n, Writes(mem, mem', x, Byte(s, i)), fr' = [fr EXCEPT !.i = i + 1],
             fr.pc = "loop" => i < Len(s), fr.pc \in {"loop", "pad"}
      PROVE  StringRuns(fr', mem')
  <2>1. fr' \in Locals /\ fr'.f = "strncpy" /\ fr'.s2 = s /\ fr'.s1 = s1 /\ fr'.n = n
        /\ fr'.pc = fr.pc /\ fr'.i = i + 1
    BY <1>1, <1>2, <1>5 DEF Locals
  <2>2. x \in Addrs /\ x \in Nat /\ x >= Middle /\ x = Middle + i
    BY <1>2, <1>3, <1>5 DEF Addrs
  <2>9. Writes(mem, mem', x, Byte(s, i)) /\ OnAddrs(mem)
    BY <1>1, <1>5
  <2> HIDE DEF s, s1, i, n, x
  <2>3. /\ OnAddrs(mem')
        /\ mem'[x] = Byte(s, i) /\ \A a \in Addrs : a # x => mem'[a] = mem[a]
    BY <2>2, <2>9, WritesIs
  <2>4. Lies(mem', 0, s)
    BY <1>2, <2>2, <2>3, LiesStill
  <2>5. \A k \in 0..i + 1 - 1 : mem'[Middle + k] = Byte(s, k)
    <3> TAKE k \in 0..i + 1 - 1
    <3>1. CASE k = i
      BY <2>2, <2>3, <3>1
    <3>2. CASE k # i
      <4>1. Middle + k \in Addrs /\ Middle + k # x /\ k \in 0..i - 1
        BY <1>2, <1>3, <1>5, <2>2, <3>2 DEF Addrs
      <4>. QED
        BY <1>2, <2>3, <4>1
    <3>. QED
      BY <3>1, <3>2
  <2>6. \A k \in i + 1..Len(s1) : mem'[Middle + k] = Byte(s1, k)
    <3> TAKE k \in i + 1..Len(s1)
    <3>1. Middle + k \in Addrs /\ Middle + k # x /\ k \in i..Len(s1)
      BY <1>2, <1>3, <2>2 DEF Addrs
    <3>. QED
      BY <1>2, <2>3, <3>1
  <2>7. i + 1 <= n /\ (fr.pc = "loop" => i + 1 <= Len(s))
        /\ (fr.pc # "loop" => i + 1 >= Len(s) \/ i + 1 >= n)
    BY <1>2, <1>3, <1>5
  <2>8. Strncpy(fr', mem')
    <3>1. fr.pc # "ret"
      BY <1>5
    <3>2. /\ \A k \in 0..fr'.i - 1 : mem'[Middle + k] = Byte(s, k)
          /\ \A k \in fr'.i..Len(s1) : mem'[Middle + k] = Byte(s1, k)
      BY <1>2, <1>3, <2>1, <2>5, <2>6
    <3>3. /\ fr'.i <= n /\ fr'.pc # "ret"
          /\ fr'.pc = "loop" => fr'.i <= Len(s)
          /\ fr'.pc # "loop" => fr'.i >= Len(s) \/ fr'.i >= n
      BY <2>1, <2>7, <3>1
    <3>. QED
      BY <2>1, <2>4, <3>2, <3>3 DEF Strncpy
  <2>. QED
    BY <2>1, <2>3, <2>8 DEF StringRuns, Strcpy, Strncmp, Strrev
\* The next part begins
<1>6. ASSUME NEW pc \in {"pad", "ret"}, mem' = mem, fr' = [fr EXCEPT !.pc = pc],
             pc = "pad" => i >= Len(s) \/ i >= n, pc = "ret" => i >= n
      PROVE  StringRuns(fr', mem')
  <2>1. fr' \in Locals /\ fr'.f = "strncpy" /\ fr'.s2 = s /\ fr'.s1 = s1 /\ fr'.n = n
        /\ fr'.pc = pc /\ fr'.i = i
    BY <1>1, <1>6 DEF Locals
  <2> HIDE DEF s, s1, i, n
  <2>2. Strncpy(fr', mem')
    BY <1>2, <1>6, <2>1 DEF Strncpy
  <2>. QED
    BY <1>1, <1>6, <2>1, <2>2 DEF StringRuns, Strcpy, Strncmp, Strrev
<1>7. CASE /\ fr.pc = "loop" /\ mem[i] # NUL /\ i < n
           /\ mem' = [mem EXCEPT ![Middle + i] = mem[i]]
           /\ fr' = [fr EXCEPT !.i = i + 1]
  <2>1. Writes(mem, mem', x, Byte(s, i))
    BY <1>4, <1>7 DEF Writes
  <2>2. Byte(s, i) # NUL
    BY <1>4, <1>7
  <2>3. i < Len(s)
    BY <1>2, <1>3, <2>2
  <2>. QED
    BY <1>5, <1>7, <2>1, <2>3
<1>8. CASE /\ fr.pc = "loop" /\ (mem[i] = NUL \/ i >= n)
           /\ fr' = [fr EXCEPT !.pc = "pad"] /\ UNCHANGED mem
  <2>1. i >= Len(s) \/ i >= n
    BY <1>2, <1>3, <1>4, <1>8
  <2>. QED
    BY <1>6, <1>8, <2>1
<1>9. CASE /\ fr.pc = "pad" /\ i < n
           /\ mem' = [mem EXCEPT ![Middle + i] = NUL] /\ fr' = [fr EXCEPT !.i = i + 1]
  <2>1. i >= Len(s)
    BY <1>2, <1>3, <1>9
  <2>2. Byte(s, i) = NUL
    BY <1>2, <1>3, <2>1
  <2>3. Writes(mem, mem', x, Byte(s, i))
    BY <1>9, <2>2 DEF Writes
  <2>. QED
    BY <1>5, <1>9, <2>3
<1>10. CASE /\ fr.pc = "pad" /\ i >= n /\ fr' = [fr EXCEPT !.pc = "ret"] /\ UNCHANGED mem
  BY <1>6, <1>10
<1>. QED
  BY <1>7, <1>8, <1>9, <1>10 DEF strncpy

\* The strings agree before i
LEMMA StrncmpRuns ==
  ASSUME StringRuns(fr, mem), strncmp
  PROVE  StringRuns(fr', mem')
<1> DEFINE i == fr.i
           n == fr.n
           s1 == fr.s1
           s2 == fr.s2
           a == mem[Middle + i]
           b == mem[i]
<1>1. /\ fr \in Locals /\ OnAddrs(mem) /\ Strncmp(fr, mem) /\ fr.f = "strncmp"
      /\ fr.pc = "loop" /\ mem' = mem
      /\ fr' = IF i < n /\ a = b /\ b # NUL THEN [fr EXCEPT !.i = i + 1]
               ELSE [fr EXCEPT !.pc = "ret", !.val = IF i < n THEN a - b ELSE 0]
  BY DEF StringRuns, strncmp
<1>2. /\ s1 \in Strings /\ s2 \in Strings /\ i \in Nat /\ n \in Nat /\ n \in Lengths
      /\ i <= n /\ i <= Len(s1) /\ i <= Len(s2)
      /\ Lies(mem, 0, s2) /\ Lies(mem, Middle, s1)
      /\ \A k \in 0..i - 1 : Byte(s1, k) = Byte(s2, k)
  BY <1>1, LocalsAre DEF Strncmp
<1>3. /\ Len(s1) \in Nat /\ Len(s2) \in Nat
      /\ \A k \in Nat : /\ Byte(s1, k) \in 0..127 /\ (Byte(s1, k) = NUL <=> k >= Len(s1))
                        /\ Byte(s2, k) \in 0..127 /\ (Byte(s2, k) = NUL <=> k >= Len(s2))
  BY <1>2, StringFacts
<1>4. a = Byte(s1, i) /\ b = Byte(s2, i)
  <2>1. i \in 0..Len(s1) /\ i \in 0..Len(s2) /\ 0 + i = i
    BY <1>2, <1>3
  <2>. QED
    BY <1>2, <2>1 DEF Lies
<1>5. a \in 0..127 /\ b \in 0..127
  BY <1>2, <1>3, <1>4
<1>6. /\ fr' \in Locals /\ fr'.f = "strncmp" /\ fr'.s1 = s1 /\ fr'.s2 = s2 /\ fr'.n = n
      /\ IF i < n /\ a = b /\ b # NUL THEN fr'.pc = "loop" /\ fr'.i = i + 1
         ELSE fr'.pc = "ret" /\ fr'.i = i /\ fr'.val = IF i < n THEN a - b ELSE 0
  <2>1. i + 1 \in Nat
    BY <1>2
  <2> HIDE DEF a, b
  <2>2. (IF i < n THEN a - b ELSE 0) \in Int
    <3>1. a \in Int /\ b \in Int
      BY <1>5
    <3> HIDE DEF i, n
    <3>. QED
      BY <3>1
  <2>. QED
    BY <1>1, <2>1, <2>2 DEF Locals
<1> HIDE DEF i, n, s1, s2, a, b
<1>7. CASE i < n /\ a = b /\ b # NUL
  <2>1. i < Len(s1) /\ i < Len(s2)
    <3>1. Byte(s1, i) # NUL /\ Byte(s2, i) # NUL
      BY <1>4, <1>7
    <3>. QED
      BY <1>2, <1>3, <3>1
  <2>2. i + 1 <= n /\ i + 1 <= Len(s1) /\ i + 1 <= Len(s2)
    BY <1>2, <1>3, <1>7, <2>1
  <2>3. \A k \in 0..i + 1 - 1 : Byte(s1, k) = Byte(s2, k)
    <3> TAKE k \in 0..i + 1 - 1
    <3>1. k = i \/ k \in 0..i - 1
      BY <1>2
    <3>. QED
      BY <1>2, <1>4, <1>7, <3>1
  <2>4. fr'.pc = "loop" /\ fr'.i = i + 1
    BY <1>6, <1>7
  <2>5. \A k \in 0..fr'.i - 1 : Byte(s1, k) = Byte(s2, k)
    BY <1>2, <2>3, <2>4
  <2>6. Strncmp(fr', mem')
    BY <1>1, <1>2, <1>6, <2>2, <2>4, <2>5 DEF Strncmp
  <2>. QED
    BY <1>1, <1>6, <2>6 DEF StringRuns, Strcpy, Strncpy, Strrev
<1>8. CASE ~(i < n /\ a = b /\ b # NUL)
  <2>1. fr'.pc = "ret" /\ fr'.i = i /\ fr'.val = IF i < n THEN a - b ELSE 0
    BY <1>6, <1>8
  <2>2. \/ fr'.val = 0 /\ (i = n \/ (i = Len(s1) /\ i = Len(s2)))
        \/ i < n /\ Differ(s1, s2, i) /\ fr'.val = Byte(s1, i) - Byte(s2, i)
    <3>1. CASE ~(i < n)
      BY <1>2, <2>1, <3>1
    <3>2. CASE i < n /\ a # b
      <4>1. Differ(s1, s2, i)
        BY <1>2, <1>4, <3>2 DEF Differ
      <4>. QED
        BY <1>4, <2>1, <3>2, <4>1
    <3>3. CASE i < n /\ a = b
      <4>1. b = NUL
        BY <1>8, <3>3
      <4>2. Byte(s1, i) = NUL /\ Byte(s2, i) = NUL
        BY <1>4, <3>3, <4>1
      <4>3. i = Len(s1) /\ i = Len(s2)
        BY <1>2, <1>3, <4>2
      <4>4. a - b = 0
        BY <1>5, <3>3
      <4>. QED
        BY <2>1, <3>3, <4>3, <4>4
    <3>. QED
      BY <3>1, <3>2, <3>3
  <2>3. Strncmp(fr', mem')
    BY <1>1, <1>2, <1>6, <2>1, <2>2 DEF Strncmp
  <2>. QED
    BY <1>1, <1>6, <2>3 DEF StringRuns, Strcpy, Strncpy, Strrev
<1>. QED
  BY <1>7, <1>8

\* The first i characters and the last i have changed places
LEMMA StrrevRuns ==
  ASSUME StringRuns(fr, mem), strrev
  PROVE  StringRuns(fr', mem')
<1> DEFINE i == fr.i
           s == fr.s2
           len == Len(s)
           end == strlen(mem, 0) - 1 - i
<1>1. /\ fr \in Locals /\ OnAddrs(mem) /\ Strrev(fr, mem) /\ fr.f = "strrev" /\ fr.pc = "loop"
      /\ IF i < end THEN /\ mem' = [mem EXCEPT ![end] = mem[i], ![i] = mem[end]]
                         /\ fr' = [fr EXCEPT !.i = i + 1]
                    ELSE fr' = [fr EXCEPT !.pc = "ret"] /\ mem' = mem
  BY DEF StringRuns, strrev
<1>2. /\ s \in Strings /\ i \in Nat
      /\ mem[len] = NUL /\ 2 * i <= len
      /\ \A k \in 0..len - 1 : mem[k] = Byte(s, Turned(i, len, k))
  BY <1>1, LocalsAre DEF Strrev
<1>3. /\ len \in Nat /\ len < Middle /\ Middle \in Nat /\ MemSize \in Nat /\ 2 * Middle <= MemSize
      /\ \A k \in Nat : Byte(s, k) = NUL <=> k >= len
  BY <1>2, StringFacts
<1>4. /\ i < end => fr' \in Locals /\ fr'.f = "strrev" /\ fr'.s2 = s /\ fr'.i = i + 1
                    /\ fr'.pc = "loop"
      /\ ~(i < end) => fr' \in Locals /\ fr'.f = "strrev" /\ fr'.s2 = s /\ fr'.i = i
                       /\ fr'.pc = "ret"
  <2> HIDE DEF end
  <2>. QED
    BY <1>1, <1>2 DEF Locals
<1> HIDE DEF s, i, len
<1>5. \A k \in 0..len - 1 : Turned(i, len, k) \in 0..len - 1
  BY <1>2, <1>3 DEF Turned
<1>6. strlen(mem, 0) = len
  <2>1. len \in 0..MemSize /\ mem[0 + len] = NUL
    BY <1>2, <1>3
  <2>2. ASSUME NEW k \in 0..len - 1
        PROVE  mem[0 + k] # NUL
    <3>1. Turned(i, len, k) \in Nat /\ Turned(i, len, k) < len /\ 0 + k = k
      BY <1>3, <1>5
    <3>. QED
      BY <1>2, <1>3, <3>1
  <2>. QED
    BY <1>3, <2>1, <2>2, StrlenIs
<1>7. end = len - 1 - i
  BY <1>6
<1>8. CASE i < end
  <2>1. i \in Addrs /\ end \in Addrs /\ i # end /\ i \in 0..len - 1 /\ end \in 0..len - 1
        /\ len \in Addrs /\ len # i /\ len # end
    BY <1>2, <1>3, <1>7, <1>8 DEF Addrs
  <2>2. mem' = [mem EXCEPT ![end] = mem[i], ![i] = mem[end]] /\ mem = [a \in Addrs |-> mem[a]]
    BY <1>1, <1>8 DEF OnAddrs
  <2> HIDE DEF end
  <2>3. /\ mem' = [a \in Addrs |-> mem'[a]]
        /\ mem'[i] = mem[end] /\ mem'[end] = mem[i]
        /\ \A a \in Addrs : a # i /\ a # end => mem'[a] = mem[a]
    BY <2>1, <2>2
  <2>4. mem'[len] = NUL
    BY <1>2, <2>1, <2>3
  <2>5. 2 * (i + 1) <= len /\ i + 1 \in Nat
    BY <1>2, <1>3, <1>7, <1>8
  <2>6. ASSUME NEW k \in 0..len - 1
        PROVE  mem'[k] = Byte(s, Turned(i + 1, len, k))
    <3>1. CASE k = i
      <4>1. Turned(i + 1, len, k) = end /\ Turned(i, len, end) = end
        BY <1>2, <1>3, <1>7, <1>8, <3>1 DEF Turned
      <4>. QED
        BY <1>2, <2>1, <2>3, <3>1, <4>1
    <3>2. CASE k = end
      <4>1. Turned(i + 1, len, k) = i /\ Turned(i, len, i) = i
        BY <1>2, <1>3, <1>7, <1>8, <3>2 DEF Turned
      <4>. QED
        BY <1>2, <2>1, <2>3, <3>2, <4>1
    <3>3. CASE k # i /\ k # end
      <4>1. Turned(i + 1, len, k) = Turned(i, len, k)
        BY <1>2, <1>3, <1>7, <1>8, <3>3 DEF Turned
      <4>2. k \in Addrs
        BY <1>3 DEF Addrs
      <4>. QED
        BY <1>2, <2>3, <3>3, <4>1, <4>2
    <3>. QED
      BY <3>1, <3>2, <3>3
  <2>7. Strrev(fr', mem')
    <3>1. fr'.s2 = s /\ fr'.i = i + 1 /\ fr'.pc = "loop" /\ Len(fr'.s2) = len
      BY <1>4, <1>8 DEF len
    <3>. QED
      BY <2>4, <2>5, <2>6, <3>1 DEF Strrev
  <2>8. OnAddrs(mem')
    BY <2>3 DEF OnAddrs
  <2>. QED
    BY <1>4, <1>8, <2>7, <2>8 DEF StringRuns, Strcpy, Strncpy, Strncmp
<1>9. CASE ~(i < end)
  <2>1. mem' = mem /\ i >= len - 1 - i
    BY <1>1, <1>2, <1>3, <1>7, <1>9
  <2>2. Strrev(fr', mem')
    <3>1. fr'.s2 = s /\ fr'.i = i /\ fr'.pc = "ret" /\ Len(fr'.s2) = len
      BY <1>4, <1>9 DEF len
    <3>. QED
      BY <1>2, <2>1, <3>1 DEF Strrev
  <2>. QED
    BY <1>1, <1>4, <1>9, <2>1, <2>2 DEF StringRuns, Strcpy, Strncpy, Strncmp
<1>. QED
  BY <1>8, <1>9

----------------------------------------------------------------------------
(* What the string routines return *)

\* The first n characters of a string with its terminator
LEMMA CutIs ==
  ASSUME NEW s \in Strings, NEW n \in Nat
  PROVE  /\ Len(Append(s, NUL)) = Len(s) + 1
         /\ \A k \in 1..Len(s) + 1 : Append(s, NUL)[k] = Byte(s, k - 1)
         /\ Cut(Append(s, NUL), n) =
              [k \in 1..(IF n <= Len(s) THEN n ELSE Len(s) + 1) |-> Byte(s, k - 1)]
<1> DEFINE a == Append(s, NUL)
           m == IF n <= Len(s) THEN n ELSE Len(s) + 1
<1>1. Len(s) \in Nat /\ s \in Seq(0..127)
  <2>1. Len(s) \in Nat /\ s \in Seq(1..127)
    BY StringFacts, LibAssumption
  <2>. QED
    BY <2>1
<1>2. /\ a \in Seq(0..127) /\ Len(a) = Len(s) + 1
      /\ \A k \in 1..Len(s) + 1 : a[k] = IF k <= Len(s) THEN s[k] ELSE NUL
  BY <1>1 DEF NUL
<1>3. \A k \in 1..Len(s) + 1 : a[k] = Byte(s, k - 1)
  <2> TAKE k \in 1..Len(s) + 1
  <2>1. k - 1 + 1 = k /\ (k - 1 < Len(s) <=> k <= Len(s))
    BY <1>1
  <2>. QED
    BY <1>2, <2>1 DEF Byte
<1>4. m \in 0..Len(a) /\ Cut(a, n) = SubSeq(a, 1, m)
  BY <1>1, <1>2 DEF Cut
<1>5. Cut(a, n) = [k \in 1..m |-> a[k]]
  <2> HIDE DEF a, m
  <2>. QED
    BY <1>1, <1>2, <1>4
<1>6. [k \in 1..m |-> a[k]] = [k \in 1..m |-> Byte(s, k - 1)]
  <2>1. \A k \in 1..m : a[k] = Byte(s, k - 1)
    BY <1>1, <1>3
  <2> HIDE DEF a, m
  <2>. QED
    BY <2>1
<1>. QED
  BY <1>2, <1>3, <1>5, <1>6

\* What is left of a sequence behind its first n elements
LEMMA TailIs ==
  ASSUME NEW S, NEW s \in Seq(S), NEW n \in Nat, n <= Len(s)
  PROVE  SubSeq(s, n + 1, Len(s)) = [k \in 1..Len(s) - n |-> s[n + k]]
<1> DEFINE t == SubSeq(s, n + 1, Len(s))
<1>1. t \in Seq(S) /\ Len(t) = Len(s) - n /\ \A k \in 1..Len(s) - n : t[k] = s[n + k]
  OBVIOUS
<1>2. t = [k \in 1..Len(t) |-> t[k]]
  BY <1>1
<1> HIDE DEF t
<1>3. t = [k \in 1..Len(s) - n |-> s[n + k]]
  BY <1>1, <1>2
<1>. QED
  BY <1>3 DEF t

LEMMA StrcpyReturns ==
  ASSUME StringRuns(fr, mem), fr.pc = "ret", fr.f = "strcpy"
  PROVE  StringAt(mem, Middle) = fr.s2
<1>1. fr.s2 \in Strings /\ Lies(mem, Middle, fr.s2)
  BY LocalsAre DEF StringRuns, Strcpy
<1>2. Middle \in Nat
  BY <1>1, StringFacts
<1>. QED
  BY <1>1, <1>2, LiesThere

LEMMA StrncpyReturns ==
  ASSUME StringRuns(fr, mem), fr.pc = "ret", fr.f = "strncpy"
  PROVE  /\ \A k \in 0..fr.n - 1 :
              mem[Middle + k] = IF k < Len(fr.s2) THEN fr.s2[k + 1] ELSE NUL
         /\ fr.n <= Len(fr.s1) =>
              StringAt(mem, Middle + fr.n) = SubSeq(fr.s1, fr.n + 1, Len(fr.s1))
<1> DEFINE n == fr.n
           s == fr.s1
<1>1. /\ s \in Strings /\ n \in Nat
      /\ \A k \in 0..n - 1 : mem[Middle + k] = Byte(fr.s2, k)
      /\ \A k \in n..Len(s) : mem[Middle + k] = Byte(s, k)
  <2>1. fr \in Locals /\ Strncpy(fr, mem)
    BY DEF StringRuns
  <2>2. fr.i = n
    BY <2>1, LocalsAre DEF Strncpy
  <2>. QED
    BY <2>1, <2>2, LocalsAre DEF Strncpy
<1>2. \A k \in 0..n - 1 : mem[Middle + k] = IF k < Len(fr.s2) THEN fr.s2[k + 1] ELSE NUL
  BY <1>1 DEF Byte
<1>3. ASSUME n <= Len(s)
      PROVE  StringAt(mem, Middle + n) = SubSeq(s, n + 1, Len(s))
  <2> DEFINE b == Middle + n
             len == Len(s) - n
  <2>1. /\ Len(s) \in Nat /\ Len(s) < Middle /\ Middle \in Nat /\ MemSize \in Nat
        /\ 2 * Middle <= MemSize
        /\ \A k \in Nat : Byte(s, k) = NUL <=> k >= Len(s)
    BY <1>1, StringFacts
  <2>2. s \in Seq(1..127)
    BY <1>1, LibAssumption
  <2>3. b \in Nat /\ len \in 0..MemSize
    BY <1>1, <1>3, <2>1
  <2>4. \A k \in 0..len : mem[b + k] = Byte(s, n + k)
    <3> TAKE k \in 0..len
    <3>1. n + k \in n..Len(s) /\ Middle + (n + k) = b + k
      BY <1>1, <2>1
    <3>. QED
      BY <1>1, <3>1
  <2>5. mem[b + len] = NUL
    <3>1. len \in 0..len /\ n + len = Len(s)
      BY <1>1, <1>3, <2>1
    <3>2. Byte(s, Len(s)) = NUL
      BY <2>1
    <3>. QED
      BY <2>4, <3>1, <3>2
  <2>6. \A k \in 0..len - 1 : mem[b + k] # NUL
    <3> TAKE k \in 0..len - 1
    <3>1. k \in 0..len /\ n + k \in Nat /\ n + k < Len(s)
      BY <1>1, <1>3, <2>1
    <3>. QED
      BY <2>1, <2>4, <3>1
  <2>7. \A k \in 1..len : mem[b + k - 1] = s[n + k]
    <3> TAKE k \in 1..len
    <3> DEFINE j == k - 1
    <3>1. j \in 0..len /\ b + j = b + k - 1 /\ n + j < Len(s) /\ n + j + 1 = n + k
      BY <1>1, <1>3, <2>1
    <3> HIDE DEF j, b, len
    <3>2. mem[b + j] = s[n + j + 1]
      BY <2>4, <3>1 DEF Byte
    <3>. QED
      BY <3>1, <3>2
  <2>8. SubSeq(s, n + 1, Len(s)) = [k \in 1..len |-> s[n + k]]
    BY <1>1, <1>3, <2>1, <2>2, TailIs
  <2> HIDE DEF b, len, n, s
  <2>9. StringAt(mem, b) = [k \in 1..len |-> mem[b + k - 1]]
    <3>1. MemSize \in Nat
      BY <2>1
    <3>2. b \in Nat /\ len \in 0..MemSize /\ mem[b + len] = NUL /\ \A k \in 0..len - 1 : mem[b + k] # NUL
      BY <2>3, <2>5, <2>6
    <3>3. strlen(mem, b) = len
      BY <3>1, <3>2, StrlenIs
    <3>. QED
      BY <3>3 DEF StringAt
  <2>10. [k \in 1..len |-> mem[b + k - 1]] = [k \in 1..len |-> s[n + k]]
    BY <2>7
  <2>. QED
    BY <2>8, <2>9, <2>10 DEF b
<1>. QED
  BY <1>2, <1>3

LEMMA StrrevReturns ==
  ASSUME StringRuns(fr, mem), fr.pc = "ret", fr.f = "strrev"
  PROVE  StringAt(mem, 0) = Reverse(fr.s2)
<1> DEFINE s == fr.s2
           len == Len(s)
           i == fr.i
<1>1. /\ s \in Strings /\ i \in Nat /\ mem[len] = NUL
      /\ 2 * i <= len /\ i >= len - 1 - i
      /\ \A k \in 0..len - 1 : mem[k] = Byte(s, Turned(i, len, k))
  BY LocalsAre DEF StringRuns, Strrev
<1>2. /\ len \in Nat /\ len <= MemSize /\ MemSize \in Nat
      /\ \A k \in Nat : Byte(s, k) = NUL <=> k >= len
  BY <1>1, StringFacts
<1> HIDE DEF i
<1>3. \A k \in 0..len - 1 : Turned(i, len, k) = len - 1 - k
  BY <1>1, <1>2 DEF Turned
<1>4. \A k \in 0..len - 1 : mem[k] = s[len - k] /\ mem[k] # NUL
  <2> TAKE k \in 0..len - 1
  <2> DEFINE j == len - 1 - k
  <2>1. j \in Nat /\ j < len /\ j + 1 = len - k
    BY <1>2
  <2>2. mem[k] = Byte(s, j)
    BY <1>1, <1>3
  <2> HIDE DEF j
  <2>. QED
    BY <1>2, <2>1, <2>2 DEF Byte
<1>5. StringAt(mem, 0) = [k \in 1..len |-> mem[0 + k - 1]]
  <2>1. mem[0 + len] = NUL /\ \A k \in 0..len - 1 : mem[0 + k] # NUL
    BY <1>1, <1>2, <1>4
  <2> HIDE DEF len
  <2>. QED
    BY <1>2, <2>1, StrlenIs
<1>6. \A k \in 1..len : mem[0 + k - 1] = s[(len - k) + 1]
  <2> TAKE k \in 1..len
  <2>1. k - 1 \in 0..len - 1 /\ 0 + k - 1 = k - 1 /\ len - (k - 1) = (len - k) + 1
    BY <1>2
  <2>. QED
    BY <1>4, <2>1
<1>7. [k \in 1..len |-> mem[0 + k - 1]] = [k \in 1..len |-> s[(len - k) + 1]]
  BY <1>6
<1>. QED
  BY <1>5, <1>7 DEF Reverse

\* The place where strncmp stopped is the first difference, or there is none that counts
LEMMA StrncmpReturns ==
  ASSUME StringRuns(fr, mem), fr.pc = "ret", fr.f = "strncmp"
  PROVE  LET a == Append(fr.s1, NUL)
             b == Append(fr.s2, NUL)
         IN  IF Cut(a, fr.n) = Cut(b, fr.n) THEN fr.val = 0
             ELSE LET d == CHOOSE k \in DOMAIN a \intersect DOMAIN b :
                             a[k] # b[k] /\ \A j \in 1..k - 1 : a[j] = b[j]
                  IN  (fr.val < 0) = (a[d] < b[d]) /\ fr.val # 0
<1> DEFINE i == fr.i
           n == fr.n
           s1 == fr.s1
           s2 == fr.s2
           val == fr.val
           a == Append(s1, NUL)
           b == Append(s2, NUL)
           d == CHOOSE k \in DOMAIN a \intersect DOMAIN b :
                  a[k] # b[k] /\ \A j \in 1..k - 1 : a[j] = b[j]
<1>1. /\ s1 \in Strings /\ s2 \in Strings /\ i \in Nat /\ n \in Nat
      /\ i <= n /\ i <= Len(s1) /\ i <= Len(s2)
      /\ \A k \in 0..i - 1 : Byte(s1, k) = Byte(s2, k)
      /\ \/ val = 0 /\ (i = n \/ (i = Len(s1) /\ i = Len(s2)))
         \/ i < n /\ Differ(s1, s2, i) /\ val = Byte(s1, i) - Byte(s2, i)
  BY LocalsAre DEF StringRuns, Strncmp
<1>2. /\ Len(s1) \in Nat /\ Len(s2) \in Nat
      /\ \A k \in Nat : /\ Byte(s1, k) \in 0..127 /\ (Byte(s1, k) = NUL <=> k >= Len(s1))
                        /\ Byte(s2, k) \in 0..127 /\ (Byte(s2, k) = NUL <=> k >= Len(s2))
  BY <1>1, StringFacts
<1>3. /\ Cut(a, n) = [k \in 1..(IF n <= Len(s1) THEN n ELSE Len(s1) + 1) |-> Byte(s1, k - 1)]
      /\ \A k \in 1..Len(s1) + 1 : a[k] = Byte(s1, k - 1)
      /\ DOMAIN a = 1..Len(s1) + 1
  <2>1. s1 \in Seq(1..127)
    BY <1>1, LibAssumption
  <2>2. DOMAIN a = 1..Len(s1) + 1
    BY <2>1
  <2>. QED
    BY <1>1, <2>2, CutIs
<1>4. /\ Cut(b, n) = [k \in 1..(IF n <= Len(s2) THEN n ELSE Len(s2) + 1) |-> Byte(s2, k - 1)]
      /\ \A k \in 1..Len(s2) + 1 : b[k] = Byte(s2, k - 1)
      /\ DOMAIN b = 1..Len(s2) + 1
  <2>1. s2 \in Seq(1..127)
    BY <1>1, LibAssumption
  <2>2. DOMAIN b = 1..Len(s2) + 1
    BY <2>1
  <2>. QED
    BY <1>1, <2>2, CutIs
<1> DEFINE c1 == Cut(a, n)
           c2 == Cut(b, n)
<1> SUFFICES IF c1 = c2 THEN val = 0 ELSE (val < 0) = (a[d] < b[d]) /\ val # 0
  OBVIOUS
<1> HIDE DEF i, n, s1, s2, val
<1>5. CASE val = 0 /\ i = n
  <2>1. /\ (IF n <= Len(s1) THEN n ELSE Len(s1) + 1) = n
        /\ (IF n <= Len(s2) THEN n ELSE Len(s2) + 1) = n
    BY <1>1, <1>5
  <2>2. \A k \in 1..n : Byte(s1, k - 1) = Byte(s2, k - 1)
    BY <1>1, <1>5
  <2>3. [k \in 1..n |-> Byte(s1, k - 1)] = [k \in 1..n |-> Byte(s2, k - 1)]
    BY <2>2
  <2>4. c1 = c2
    BY <1>3, <1>4, <2>1, <2>3
  <2>. QED
    BY <1>5, <2>4
<1>6. CASE val = 0 /\ i = Len(s1) /\ i = Len(s2)
  <2> DEFINE m == IF n <= Len(s1) THEN n ELSE Len(s1) + 1
  <2>1. m = IF n <= Len(s2) THEN n ELSE Len(s2) + 1
    BY <1>6
  <2>2. \A k \in 1..m : Byte(s1, k - 1) = Byte(s2, k - 1)
    <3> TAKE k \in 1..m
    <3>1. k - 1 \in 0..i - 1 \/ (k - 1 \in Nat /\ k - 1 >= Len(s1) /\ k - 1 >= Len(s2))
      BY <1>1, <1>2, <1>6
    <3>. QED
      BY <1>1, <1>2, <3>1
  <2>3. c1 = [k \in 1..m |-> Byte(s1, k - 1)]
    BY <1>3
  <2>4. c2 = [k \in 1..m |-> Byte(s2, k - 1)]
    BY <1>4, <2>1
  <2> HIDE DEF m, c1, c2
  <2>5. c1 = c2
    BY <2>2, <2>3, <2>4
  <2>. QED
    BY <1>6, <2>5
<1>7. CASE i < n /\ Differ(s1, s2, i) /\ val = Byte(s1, i) - Byte(s2, i)
  <2>1. Byte(s1, i) # Byte(s2, i) /\ Byte(s1, i) \in Int /\ Byte(s2, i) \in Int
    <3>1. Byte(s1, i) \in 0..127 /\ Byte(s2, i) \in 0..127
      BY <1>1, <1>2
    <3>2. Byte(s1, i) # Byte(s2, i)
      BY <1>7 DEF Differ
    <3>. QED
      BY <3>1, <3>2
  <2>2. c1 # c2
    <3>1. /\ i + 1 \in 1..(IF n <= Len(s1) THEN n ELSE Len(s1) + 1)
          /\ i + 1 \in 1..(IF n <= Len(s2) THEN n ELSE Len(s2) + 1)
          /\ i + 1 - 1 = i
      BY <1>1, <1>2, <1>7
    <3>2. c1[i + 1] = Byte(s1, i)
      <4> DEFINE m == IF n <= Len(s1) THEN n ELSE Len(s1) + 1
      <4>1. i \in Nat /\ i + 1 \in 1..m /\ c1 = [k \in 1..m |-> Byte(s1, k - 1)]
        BY <1>1, <1>3, <3>1
      <4> HIDE DEF c1, m
      <4>2. c1[i + 1] = Byte(s1, i + 1 - 1)
        BY <4>1
      <4>. QED
        BY <3>1, <4>2
    <3>3. c2[i + 1] = Byte(s2, i)
      <4> DEFINE m == IF n <= Len(s2) THEN n ELSE Len(s2) + 1
      <4>1. i \in Nat /\ i + 1 \in 1..m /\ c2 = [k \in 1..m |-> Byte(s2, k - 1)]
        BY <1>1, <1>4, <3>1
      <4> HIDE DEF c2, m
      <4>2. c2[i + 1] = Byte(s2, i + 1 - 1)
        BY <4>1
      <4>. QED
        BY <3>1, <4>2
    <3>. QED
      BY <2>1, <3>2, <3>3
  <2> HIDE DEF a, b, c1, c2
  <2>3. /\ i + 1 \in DOMAIN a \intersect DOMAIN b
        /\ a[i + 1] = Byte(s1, i) /\ b[i + 1] = Byte(s2, i)
        /\ \A j \in 1..i + 1 - 1 : a[j] = b[j]
    <3>1. /\ i + 1 \in 1..Len(s1) + 1 /\ i + 1 \in 1..Len(s2) + 1 /\ i + 1 - 1 = i
      BY <1>1, <1>2
    <3>2. ASSUME NEW j \in 1..i
          PROVE  a[j] = b[j]
      <4>1. j \in 1..Len(s1) + 1 /\ j \in 1..Len(s2) + 1 /\ j - 1 \in 0..i - 1
        BY <1>1, <1>2
      <4>. QED
        BY <1>1, <1>3, <1>4, <4>1
    <3>3. i + 1 \in DOMAIN a \intersect DOMAIN b
      <4>1. DOMAIN a = 1..Len(s1) + 1 /\ DOMAIN b = 1..Len(s2) + 1
        BY <1>3, <1>4
      <4>. QED
        BY <3>1, <4>1
    <3>4. a[i + 1] = Byte(s1, i) /\ b[i + 1] = Byte(s2, i)
      <4>1. a[i + 1] = Byte(s1, i + 1 - 1) /\ b[i + 1] = Byte(s2, i + 1 - 1)
        <5>1. /\ \A k \in 1..Len(s1) + 1 : a[k] = Byte(s1, k - 1)
              /\ \A k \in 1..Len(s2) + 1 : b[k] = Byte(s2, k - 1)
          BY <1>3, <1>4
        <5>2. i \in Nat
          BY <1>1
        <5>. QED
          BY <3>1, <5>1, <5>2
      <4>. QED
        BY <3>1, <4>1
    <3>. QED
      BY <3>1, <3>2, <3>3, <3>4
  <2>4. /\ d \in DOMAIN a \intersect DOMAIN b
        /\ a[d] # b[d] /\ \A j \in 1..d - 1 : a[j] = b[j]
    <3>1. \E k \in DOMAIN a \intersect DOMAIN b : a[k] # b[k] /\ \A j \in 1..k - 1 : a[j] = b[j]
      <4>1. a[i + 1] # b[i + 1]
        BY <2>1, <2>3
      <4> DEFINE q == i + 1
      <4>2. /\ q \in DOMAIN a \intersect DOMAIN b
            /\ a[q] # b[q] /\ \A j \in 1..q - 1 : a[j] = b[j]
        BY <1>1, <2>3, <4>1
      <4> HIDE DEF q
      <4>. QED
        BY <4>2
    <3>. QED
      BY <3>1
  <2> HIDE DEF d
  <2>5. d = i + 1
    <3>1. d \in Nat /\ d >= 1
      BY <1>2, <1>3, <2>4
    <3>2. ~(d < i + 1)
      BY <1>1, <2>3, <2>4, <3>1
    <3>3. ~(i + 1 < d)
      BY <1>1, <2>1, <2>3, <2>4, <3>1
    <3>. QED
      BY <1>1, <3>1, <3>2, <3>3
  <2>6. a[d] = Byte(s1, i) /\ b[d] = Byte(s2, i)
    BY <2>3, <2>5
  <2>7. (val < 0) = (Byte(s1, i) < Byte(s2, i)) /\ val # 0
    BY <1>7, <2>1
  <2>. QED
    BY <2>2, <2>6, <2>7
<1>. QED
  BY <1>1, <1>5, <1>6, <1>7

LEMMA StringsReturn ==
  ASSUME StringRuns(fr, mem)
  PROVE  StringsRight
BY StrcpyReturns, StrncpyReturns, StrncmpReturns, StrrevReturns DEF StringsRight

----------------------------------------------------------------------------
(* Every step *)

\* Which routine it is shows in its place and in its name
LEMMA Kinds ==
  ASSUME LibInv
  PROVE  /\ fr = idle => mem = Fresh
         /\ fr.pc \in {"top", "rep", "bottom"} => MemoryRuns(fr, mem, df)
         /\ fr.f \in {"strcpy", "strncpy", "strncmp", "strrev"} => StringRuns(fr, mem)
         /\ fr.pc \in {"name", "args", "started"} \/ fr.f = "printf" => OtherRuns(fr)
<1>1. fr = idle => fr.f = "none" /\ fr.pc = "none"
  BY DEF idle
<1>2. MemoryRuns(fr, mem, df) =>
        /\ fr.f \in {"memset", "memset_word", "memset_dword", "memcpy", "memmove"}
        /\ fr.pc \in {"top", "rep", "bottom", "ret"}
  BY FillingIs DEF MemoryRuns, Registers
<1>3. StringRuns(fr, mem) => /\ fr.f \in {"strcpy", "strncpy", "strncmp", "strrev"}
                             /\ fr.pc \in {"loop", "pad", "ret"}
  BY DEF StringRuns, Locals
<1>4. OtherRuns(fr) => /\ fr.f \in {"execute", "printf"}
                       /\ fr.pc \in {"name", "args", "started", "loop", "conv", "past", "ret"}
  BY DEF OtherRuns
<1>5. \/ fr = idle /\ mem = Fresh
      \/ MemoryRuns(fr, mem, df)
      \/ StringRuns(fr, mem)
      \/ OtherRuns(fr)
  BY DEF LibInv
<1>. QED
  BY <1>1, <1>2, <1>3, <1>4, <1>5

\* The steps of execute and of printf go on with their routine
LEMMA ExecuteRuns ==
  ASSUME OtherRuns(fr), (\E refused \in BOOLEAN : FirstToken(refused)) \/ NextToken \/ ExecuteAgain
  PROVE  OtherRuns(fr')
<1>1. fr.pc \in {"name", "args", "started"} /\ fr.f = "execute" /\ {"f", "pc"} \subseteq DOMAIN fr
  BY DEF OtherRuns, FirstToken, NextToken, ExecuteAgain
<1>2. CASE \E refused \in BOOLEAN : FirstToken(refused)
  <2>1. PICK refused \in BOOLEAN : FirstToken(refused)
    BY <1>2
  <2>2. \E name, l :
          \/ fr' = [fr EXCEPT !.pc = "ret", !.last = l]
          \/ fr' = [fr EXCEPT !.pc = IF refused THEN "ret" ELSE "args", !.name = name, !.last = l]
    BY <2>1, Zenon DEF FirstToken
  <2>. QED
    BY <1>1, <2>2 DEF OtherRuns
<1>3. CASE NextToken
  <2>1. \E l, b :
          \/ fr' = [fr EXCEPT !.pc = "started", !.last = l]
          \/ fr' = [fr EXCEPT !.last = l, !.buffer = b]
    BY <1>3, Zenon DEF NextToken
  <2>2. fr.pc = "args"
    BY <1>3 DEF NextToken
  <2>. QED
    BY <1>1, <2>1, <2>2 DEF OtherRuns
<1>4. CASE ExecuteAgain
  BY <1>1, <1>4 DEF ExecuteAgain, OtherRuns
<1>. QED
  BY <1>2, <1>3, <1>4

LEMMA PrintfRuns ==
  ASSUME OtherRuns(fr), PrintfChar \/ PrintfConv
  PROVE  OtherRuns(fr')
<1>1. fr.f = "printf" /\ {"f", "pc"} \subseteq DOMAIN fr
  BY DEF OtherRuns, PrintfChar, PrintfConv
<1>2. CASE PrintfChar
  <2>1. \E b :
          \/ fr' = [fr EXCEPT !.pc = "ret"]
          \/ fr' = [fr EXCEPT !.pc = "conv", !.buf = b, !.alternate = FALSE]
          \/ fr.pc = "loop" /\ fr' = [fr EXCEPT !.buf = b]
    BY <1>2, Zenon DEF PrintfChar
  <2>. QED
    BY <1>1, <2>1 DEF OtherRuns
<1>3. CASE PrintfConv
  <2>1. CASE mem[fr.buf] = Hash
    <3>1. fr.pc = "conv" /\ fr' = [fr EXCEPT !.buf = fr.buf + 1, !.alternate = TRUE]
      BY <1>3, <2>1 DEF PrintfConv
    <3>. QED
      BY <1>1, <3>1 DEF OtherRuns
  <2>2. CASE mem[fr.buf] # Hash
    <3>1. fr' = [fr EXCEPT !.pc = IF mem[fr.buf] = NUL THEN "past" ELSE "loop",
                           !.buf = fr.buf + 1,
                           !.esp = IF mem[fr.buf] \in Takes THEN fr.esp + 1 ELSE fr.esp]
      BY <1>3, <2>2, Zenon DEF PrintfConv
    <3>. QED
      BY <1>1, <3>1 DEF OtherRuns
  <2>. QED
    BY <2>1, <2>2
<1>. QED
  BY <1>2, <1>3

\* Every call enters its routine as the invariant says
LEMMA CallInv ==
  ASSUME LibInv, Call
  PROVE  LibInv'
<1>1. mem = Fresh /\ df \in {0, 1}
  BY Kinds DEF Call, LibInv
<1>2. Places \subseteq Nat /\ Lengths \subseteq Nat
  BY LibAssumption
<1>3. ASSUME NEW p \in Places, NEW n \in Lengths,
             memset(p, n) \/ memset_word(p, n) \/ memset_dword(p, n)
      PROVE  LibInv'
  <2>1. p \in Nat /\ n \in Nat
    BY <1>2
  <2>2. df' \in {0, 1} /\ MemoryRuns(fr', mem', df')
    <3>1. CASE memset(p, n)
      <4>1. df' \in {0, 1} /\ Enter("memset", p, p, n, p, p, "top")
        BY <1>1, <3>1 DEF memset
      <4>. QED
        BY <1>1, <2>1, <4>1, EnterRuns
    <3>2. CASE memset_word(p, n)
      <4>1. df' = 0 /\ Enter("memset_word", p, p, n, p, p, "rep")
        BY <3>2 DEF memset_word
      <4>. QED
        BY <1>1, <2>1, <4>1, EnterRuns
    <3>3. CASE memset_dword(p, n)
      <4>1. df' = 0 /\ Enter("memset_dword", p, p, n, p, p, "rep")
        BY <3>3 DEF memset_dword
      <4>. QED
        BY <1>1, <2>1, <4>1, EnterRuns
    <3>. QED
      BY <1>3, <3>1, <3>2, <3>3
  <2>. QED
    BY <2>2 DEF LibInv
<1>4. ASSUME NEW p \in Places, NEW q \in Places, NEW n \in Lengths,
             memcpy(p, q, n) \/ memmove(p, q, n)
      PROVE  LibInv'
  <2>1. p \in Nat /\ q \in Nat /\ n \in Nat /\ p + n - 1 \in Int /\ q + n - 1 \in Int
    BY <1>2
  <2>2. df' \in {0, 1} /\ MemoryRuns(fr', mem', df')
    <3>1. CASE memcpy(p, q, n)
      <4>1. df' \in {0, 1} /\ Enter("memcpy", p, q, n, p, q, "top")
        BY <1>1, <3>1 DEF memcpy
      <4>. QED
        BY <1>1, <2>1, <4>1, EnterRuns
    <3>2. CASE q >= p /\ df' = 0 /\ Enter("memmove", p, q, n, p, q, "rep")
      <4>1. /\ IF q < p THEN p = p + n - 1 /\ q = q + n - 1 ELSE p = p /\ q = q
            /\ ~(q < p) /\ df' # 1 /\ df' \in {0, 1} /\ p \in Int /\ q \in Int
        BY <2>1, <3>2
      <4>. QED
        BY <1>1, <2>1, <3>2, <4>1, EnterRuns
    <3>3. CASE q < p /\ df' = 1 /\ Enter("memmove", p, q, n, p + n - 1, q + n - 1, "rep")
      BY <1>1, <2>1, <3>3, EnterRuns
    <3>. QED
      BY <1>4, <3>1, <3>2, <3>3 DEF memmove
  <2>. QED
    BY <2>2 DEF LibInv
<1>5. ASSUME NEW f \in {"strcpy", "strncpy", "strncmp", "strrev"}, NEW s1 \in Strings,
             NEW s2 \in Strings, NEW n \in Lengths, StringCall(f, s1, s2, n)
      PROVE  LibInv'
  <2>1. df' = df
    BY <1>5 DEF StringCall
  <2>2. StringRuns(fr', mem')
    BY <1>5, CallRuns
  <2>. QED
    BY <1>1, <2>1, <2>2 DEF LibInv
<1>6. ASSUME NEW line \in CommandLines, ExecuteCall(line)
      PROVE  LibInv'
  <2>1. OtherRuns(fr') /\ df' = df
    BY <1>6 DEF ExecuteCall, OtherRuns
  <2>. QED
    BY <1>1, <2>1 DEF LibInv
<1>7. ASSUME NEW ds, NEW tail, NEW args, PrintfCall(ds, tail, args)
      PROVE  LibInv'
  <2>1. OtherRuns(fr') /\ df' = df
    BY <1>7 DEF PrintfCall, OtherRuns
  <2>. QED
    BY <1>1, <2>1 DEF LibInv
<1>. QED
  BY <1>3, <1>4, <1>5, <1>6, <1>7 DEF Call

\* Every step keeps the invariant
LEMMA StepLibInv ==
  ASSUME LibInv, [Next]_vars
  PROVE  LibInv'
<1>1. df \in {0, 1}
  BY DEF LibInv
<1>2. CASE Call
  BY <1>2, CallInv
<1>3. CASE Top
  <2>1. MemoryRuns(fr, mem, df)
    BY <1>3, Kinds DEF Top
  <2>2. MemoryRuns(fr', mem', df') /\ df' \in {0, 1}
    BY <1>1, <1>3, <2>1, TopRuns DEF Top
  <2>. QED
    BY <2>2 DEF LibInv
<1>4. CASE Rep
  <2>1. MemoryRuns(fr, mem, df)
    BY <1>4, Kinds DEF Rep
  <2>2. MemoryRuns(fr', mem', df') /\ df' \in {0, 1}
    BY <1>1, <1>4, <2>1, RepRuns DEF Rep
  <2>. QED
    BY <2>2 DEF LibInv
<1>5. CASE Bottom
  <2>1. MemoryRuns(fr, mem, df)
    BY <1>5, Kinds DEF Bottom
  <2>2. MemoryRuns(fr', mem', df') /\ df' \in {0, 1}
    BY <1>1, <1>5, <2>1, BottomRuns DEF Bottom
  <2>. QED
    BY <2>2 DEF LibInv
<1>6. CASE strcpy \/ strncpy \/ strncmp \/ strrev
  <2>1. df' = df /\ fr.f \in {"strcpy", "strncpy", "strncmp", "strrev"}
    BY <1>6 DEF strcpy, strncpy, strncmp, strrev
  <2>2. StringRuns(fr, mem)
    BY <2>1, Kinds
  <2>3. StringRuns(fr', mem')
    BY <1>6, <2>2, StrcpyRuns, StrncpyRuns, StrncmpRuns, StrrevRuns
  <2>. QED
    BY <1>1, <2>1, <2>3 DEF LibInv
<1>7. CASE (\E refused \in BOOLEAN : FirstToken(refused)) \/ NextToken \/ ExecuteAgain
  <2>1. df' = df /\ fr.pc \in {"name", "args", "started"}
    BY <1>7 DEF FirstToken, NextToken, ExecuteAgain
  <2>2. OtherRuns(fr')
    BY <1>7, <2>1, Kinds, ExecuteRuns
  <2>. QED
    BY <1>1, <2>1, <2>2 DEF LibInv
<1>8. CASE PrintfChar \/ PrintfConv
  <2>1. df' = df /\ fr.f = "printf"
    BY <1>8 DEF PrintfChar, PrintfConv
  <2>2. OtherRuns(fr')
    BY <1>8, <2>1, Kinds, PrintfRuns
  <2>. QED
    BY <1>1, <2>1, <2>2 DEF LibInv
<1>9. CASE Return
  <2>1. fr' = idle /\ mem' = Fresh /\ df' = df
    BY <1>9 DEF Return
  <2>2. Fresh' = Fresh
    BY DEF Fresh, Addrs
  <2>. QED
    BY <1>1, <2>1, <2>2 DEF LibInv
<1>10. CASE UNCHANGED vars
  <2>1. mem' = mem /\ df' = df /\ fr' = fr
    BY <1>10 DEF vars
  <2>. QED
    BY <2>1 DEF LibInv
<1>. QED
  BY <1>2, <1>3, <1>4, <1>5, <1>6, <1>7, <1>8, <1>9, <1>10 DEF Next

\* The invariant says what a routine that returns has done
LEMMA LibInvRight ==
  ASSUME LibInv
  PROVE  RoutinesRight
<1>1. CASE fr = idle
  BY <1>1, FillingIs DEF idle, RoutinesRight, Filled, Copied, StringsRight
<1>2. CASE MemoryRuns(fr, mem, df)
  <2>1. Filled /\ Copied
    BY <1>2, MemoryReturns
  <2>2. fr.f \in {"memset", "memset_word", "memset_dword", "memcpy", "memmove"}
    BY <1>2, FillingIs DEF MemoryRuns, Registers
  <2>3. StringsRight
    BY <2>2 DEF StringsRight
  <2>. QED
    BY <2>1, <2>3 DEF RoutinesRight
<1>3. CASE StringRuns(fr, mem)
  <2>1. StringsRight
    BY <1>3, StringsReturn
  <2>2. fr.f \in {"strcpy", "strncpy", "strncmp", "strrev"}
    BY <1>3 DEF StringRuns, Locals
  <2>3. Filled /\ Copied
    BY <2>2, FillingIs DEF Filled, Copied
  <2>. QED
    BY <2>1, <2>3 DEF RoutinesRight
<1>4. CASE OtherRuns(fr)
  <2>1. fr.f \in {"execute", "printf"}
    BY <1>4 DEF OtherRuns
  <2>2. Filled /\ Copied /\ StringsRight
    BY <2>1, FillingIs DEF Filled, Copied, StringsRight
  <2>. QED
    BY <2>2 DEF RoutinesRight
<1>. QED
  BY <1>1, <1>2, <1>3, <1>4 DEF LibInv

\* memset, memset_word, memset_dword, memcpy, memmove, strcpy, strncpy, strncmp
\* and strrev do what their callers asked for and nothing else, for every size
\* of memory, every place, count and string, aligned or not, in whatever order
\* they are called and whatever direction the last memmove left behind.
THEOREM RoutinesRightAlways == Spec => []RoutinesRight
<1>1. Init => LibInv
  BY DEF Init, LibInv
<1>2. LibInv /\ [Next]_vars => LibInv'
  BY StepLibInv
<1>3. LibInv => RoutinesRight
  BY LibInvRight
<1>. QED
  BY <1>1, <1>2, <1>3, PTL DEF Spec
=============================================================================
