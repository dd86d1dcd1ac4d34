-------------------------- MODULE InterruptsProof --------------------------
(***************************************************************************)
(* Proofs about Interrupts for every set of devices, of frequencies and of *)
(* lines that callers enable and disable.                                  *)
(*                                                                         *)
(* The argument is about the instructions left of the routine that runs.   *)
(* They keep a discipline (what is selected before an access, which flags  *)
(* are saved where, which masks are still to be written) that holds of     *)
(* every routine when it starts and is kept when its first instruction is  *)
(* taken away; the state only has to fit the next instruction.             *)
(***************************************************************************)
EXTENDS Interrupts, SequenceTheorems, TLAPS

----------------------------------------------------------------------------
(* Sequences of instructions *)

Values == Pics \union {"A", "B", "C"} \union Int
Instruction == {<<op>> : op \in Ops} \union (Ops \X Values) \union (Ops \X Values \X Values)
Code == Seq(Instruction)

LEMMA Instructions ==
  /\ \A op \in Ops : <<op>> \in Instruction
  /\ \A op \in Ops, v \in Values : <<op, v>> \in Instruction
  /\ \A op \in Ops, v \in Values, w \in Values : <<op, v, w>> \in Instruction
BY DEF Instruction

LEMMA EmptyCode == <<>> \in Code /\ Len(<<>>) = 0 /\ DOMAIN <<>> = {}
BY DEF Code

LEMMA NonEmpty ==
  ASSUME NEW c \in Code, c # <<>>
  PROVE  /\ Len(c) \in Nat /\ Len(c) >= 1
         /\ DOMAIN c = 1..Len(c)
         /\ Head(c) = c[1]
BY DEF Code

LEMMA TailCode ==
  ASSUME NEW c \in Code, c # <<>>
  PROVE  /\ Tail(c) \in Code
         /\ Len(Tail(c)) = Len(c) - 1
         /\ DOMAIN Tail(c) = 1..Len(c) - 1
         /\ \A i \in 1..Len(c) - 1 : Tail(c)[i] = c[i + 1]
BY DEF Code

----------------------------------------------------------------------------
(* The discipline of the kernel's routines *)

CodeOps == {"mask_all", "icw", "mask", "unmask", "select", "in", "out_low", "out_pie",
            "clear_flag", "wait", "cli", "restore", "sti"}
Outs   == {"out_low", "out_pie"}
Access == {"select", "in", "out_low", "out_pie"}
Resets == {"mask_all", "icw"}
Syncs  == {"mask", "unmask"}

Register(op) == IF op = "out_low" THEN "A" ELSE "B"

Known == {IRQ_KEYBOARD, IR_SLAVE, IRQ_RTC} \union Disabled
Line(pic, n) == IF pic = "slave" THEN n + 8 ELSE n

\* An instruction of a routine that leaves the clock at frequency f
Fits(x, f) ==
  /\ x[1] \in CodeOps
  /\ x[1] \in Resets \union Syncs => x[2] \in Pics
  /\ x[1] \in Syncs => x[3] \in 0..7
  /\ x[1] = "unmask" => Line(x[2], x[3]) \in Known
  /\ x[1] = "out_low" => x[2] = Rate(f)
  /\ x[1] = "select" => x[2] \in {"A", "B"}

\* A register is selected before every access, and what is written to it was
\* read from it; sti comes last
Ordered(c) ==
  \A i \in DOMAIN c :
    /\ c[i][1] = "sti" => i = Len(c)
    /\ c[i][1] = "select" => i < Len(c)
    /\ c[i][1] = "select" /\ c[i + 1][1] = "in" =>
         i + 2 <= Len(c) /\ c[i + 2][1] = "select" /\ c[i + 2][2] = c[i][2]
    /\ c[i][1] = "select" /\ c[i + 1][1] \in Outs => c[i][2] = Register(c[i + 1][1])
    /\ c[i][1] # "select" /\ i < Len(c) => c[i + 1][1] \notin {"in", "out_low", "out_pie"}
    /\ c[i][1] # "in" /\ i + 1 < Len(c) => ~(c[i + 1][1] = "select" /\ c[i + 2][1] \in Outs)

\* A controller that is reset has its mask written later on
Masked(c) ==
  \A i \in DOMAIN c : c[i][1] \in Resets =>
    \E j \in DOMAIN c : i < j /\ c[j][1] \in Syncs /\ c[j][2] = c[i][2]

Disciplined(c, f) ==
  /\ c \in Code
  /\ \A i \in DOMAIN c : Fits(c[i], f)
  /\ Ordered(c)
  /\ Masked(c)

\* D counts the flags saved before each instruction, q after the last
Saves(x, n) == IF x[1] = "cli" THEN n + 1 ELSE IF x[1] = "restore" THEN n - 1 ELSE n
Balanced(c, D, q) ==
  /\ D \in [1..Len(c) + 1 -> 0..2]
  /\ D[Len(c) + 1] = q
  /\ \A i \in 1..Len(c) : D[i + 1] = Saves(c[i], D[i])

\* The clock is accessed only with at least low flags saved
Guarded(c, D, low) == \A i \in DOMAIN c : c[i][1] \in Access => D[i] >= low

Avoids(c, ops) == \A i \in DOMAIN c : c[i][1] \notin ops

LEMMA TailDisciplined ==
  ASSUME NEW c, NEW f, Disciplined(c, f), c # <<>>
  PROVE  Disciplined(Tail(c), f)
<1> DEFINE t == Tail(c)
<1>1. c \in Code /\ Len(c) \in Nat /\ DOMAIN c = 1..Len(c)
  BY NonEmpty DEF Disciplined
<1>2. /\ t \in Code /\ Len(t) = Len(c) - 1 /\ DOMAIN t = 1..Len(c) - 1
      /\ \A i \in 1..Len(c) - 1 : t[i] = c[i + 1]
  BY <1>1, TailCode
<1> HIDE DEF t
<1>3. \A i \in DOMAIN t : Fits(t[i], f)
  <2>1. \A i \in 1..Len(c) - 1 : i + 1 \in DOMAIN c
    BY <1>1
  <2>. QED
    BY <1>2, <2>1 DEF Disciplined
<1>4. Ordered(t)
  <2> SUFFICES ASSUME NEW i \in 1..Len(c) - 1
               PROVE  /\ t[i][1] = "sti" => i = Len(t)
                      /\ t[i][1] = "select" => i < Len(t)
                      /\ t[i][1] = "select" /\ t[i + 1][1] = "in" =>
                           i + 2 <= Len(t) /\ t[i + 2][1] = "select" /\ t[i + 2][2] = t[i][2]
                      /\ t[i][1] = "select" /\ t[i + 1][1] \in Outs =>
                           t[i][2] = Register(t[i + 1][1])
                      /\ t[i][1] # "select" /\ i < Len(t) =>
                           t[i + 1][1] \notin {"in", "out_low", "out_pie"}
                      /\ t[i][1] # "in" /\ i + 1 < Len(t) =>
                           ~(t[i + 1][1] = "select" /\ t[i + 2][1] \in Outs)
    BY <1>2 DEF Ordered
  <2> DEFINE n  == Len(c)
             k  == i + 1
             x  == t[i]
             x1 == t[i + 1]
             x2 == t[i + 2]
             y1 == c[k + 1]
             y2 == c[k + 2]
  <2>1. k \in DOMAIN c /\ x = c[k] /\ Ordered(c)
    BY <1>1, <1>2 DEF Disciplined
  <2>2. i < n - 1 => x1 = y1
    BY <1>1, <1>2
  <2>3. i + 1 < n - 1 => x2 = y2
    BY <1>1, <1>2
  <2>4. /\ x[1] = "sti" => k = n
        /\ x[1] = "select" => k < n
        /\ x[1] = "select" /\ y1[1] = "in" =>
             k + 2 <= n /\ y2[1] = "select" /\ y2[2] = x[2]
        /\ x[1] = "select" /\ y1[1] \in Outs => x[2] = Register(y1[1])
        /\ x[1] # "select" /\ k < n => y1[1] \notin {"in", "out_low", "out_pie"}
        /\ x[1] # "in" /\ k + 1 < n => ~(y1[1] = "select" /\ y2[1] \in Outs)
    BY <2>1 DEF Ordered
  <2>5. n \in Nat /\ i \in Nat /\ Len(t) = n - 1 /\ k = i + 1
    BY <1>1, <1>2
  <2> HIDE DEF n, k, x, x1, x2, y1, y2
  <2>6. /\ x[1] = "sti" => i = Len(t)
        /\ x[1] = "select" => i < Len(t)
        /\ x[1] = "select" /\ x1[1] = "in" =>
             i + 2 <= Len(t) /\ x2[1] = "select" /\ x2[2] = x[2]
        /\ x[1] = "select" /\ x1[1] \in Outs => x[2] = Register(x1[1])
        /\ x[1] # "select" /\ i < Len(t) => x1[1] \notin {"in", "out_low", "out_pie"}
        /\ x[1] # "in" /\ i + 1 < Len(t) => ~(x1[1] = "select" /\ x2[1] \in Outs)
    BY <2>2, <2>3, <2>4, <2>5
  <2>. QED
    BY <2>6 DEF x, x1, x2
<1>5. Masked(t)
  <2> SUFFICES ASSUME NEW i \in DOMAIN t, t[i][1] \in Resets
               PROVE  \E j \in DOMAIN t : i < j /\ t[j][1] \in Syncs /\ t[j][2] = t[i][2]
    BY DEF Masked
  <2>1. i + 1 \in DOMAIN c /\ t[i] = c[i + 1] /\ i \in Nat
    BY <1>1, <1>2
  <2>2. PICK j \in DOMAIN c : i + 1 < j /\ c[j][1] \in Syncs /\ c[j][2] = c[i + 1][2]
    BY <2>1 DEF Disciplined, Masked
  <2>3. j - 1 \in DOMAIN t /\ i < j - 1 /\ t[j - 1] = c[j]
    BY <1>1, <1>2, <2>1, <2>2
  <2>. QED
    BY <2>1, <2>2, <2>3
<1>. QED
  BY <1>2, <1>3, <1>4, <1>5 DEF Disciplined, t

LEMMA TailAvoids ==
  ASSUME NEW c \in Code, c # <<>>, NEW ops, Avoids(c, ops)
  PROVE  Avoids(Tail(c), ops)
<1>1. Len(c) \in Nat /\ DOMAIN c = 1..Len(c)
  BY NonEmpty
<1>2. \A i \in 1..Len(c) - 1 : i + 1 \in DOMAIN c
  BY <1>1
<1>. QED
  BY <1>2, TailCode DEF Avoids

LEMMA TailBalanced ==
  ASSUME NEW c \in Code, c # <<>>, NEW D, Balanced(c, D, 0)
  PROVE  \E E : /\ Balanced(Tail(c), E, 0)
                /\ E[1] = Saves(c[1], D[1])
                /\ Guarded(c, D, 1) => Guarded(Tail(c), E, 1)
<1> DEFINE n == Len(c)
           t == Tail(c)
           E == [i \in 1..n |-> D[i + 1]]
<1>1. n \in Nat /\ n >= 1 /\ DOMAIN c = 1..n
  BY NonEmpty
<1>2. t \in Code /\ Len(t) = n - 1 /\ DOMAIN t = 1..n - 1 /\ \A i \in 1..n - 1 : t[i] = c[i + 1]
  BY TailCode
<1> HIDE DEF n, t
<1>3. \A i \in 1..n : i + 1 \in 1..n + 1
  BY <1>1
<1>4. D \in [1..n + 1 -> 0..2] /\ D[n + 1] = 0 /\ \A i \in 1..n : D[i + 1] = Saves(c[i], D[i])
  BY DEF Balanced, n
<1>5. E \in [1..n -> 0..2]
  BY <1>3, <1>4
<1>6. (n - 1) + 1 = n
  BY <1>1
<1>7. Balanced(t, E, 0)
  <2>1. E[n] = 0
    BY <1>1, <1>4
  <2>2. ASSUME NEW i \in 1..n - 1 PROVE E[i + 1] = Saves(t[i], E[i])
    <3>1. i \in 1..n /\ i + 1 \in 1..n /\ t[i] = c[i + 1]
      BY <1>1, <1>2
    <3>2. E[i + 1] = D[(i + 1) + 1] /\ E[i] = D[i + 1]
      BY <3>1
    <3>. QED
      BY <1>4, <3>1, <3>2
  <2> HIDE DEF E
  <2>. QED
    BY <1>2, <1>5, <1>6, <2>1, <2>2 DEF Balanced
<1>8. E[1] = Saves(c[1], D[1])
  <2>1. 1 \in 1..n
    BY <1>1
  <2>2. E[1] = D[1 + 1]
    BY <2>1
  <2>. QED
    BY <1>4, <2>1, <2>2
<1>9. ASSUME Guarded(c, D, 1) PROVE Guarded(t, E, 1)
  <2> SUFFICES ASSUME NEW i \in 1..n - 1, t[i][1] \in Access PROVE E[i] >= 1
    BY <1>2 DEF Guarded
  <2>1. i \in 1..n /\ i + 1 \in DOMAIN c /\ t[i] = c[i + 1]
    BY <1>1, <1>2
  <2>2. D[i + 1] >= 1
    BY <1>9, <2>1 DEF Guarded
  <2>. QED
    BY <2>1, <2>2
<1>. QED
  BY <1>7, <1>8, <1>9 DEF t

----------------------------------------------------------------------------
(* Routines are put together from blocks.  A block of instructions starts  *)
(* with p flags saved and ends with q, and accesses the clock only with at *)
(* least low of them saved.                                                *)

Opens(c) ==
  c # <<>> => /\ c[1][1] \notin {"in", "out_low", "out_pie"}
              /\ ~(c[1][1] = "select" /\ c[2][1] \in Outs)

Block(c, f, p, q, low) ==
  /\ c \in Code
  /\ \A i \in DOMAIN c : Fits(c[i], f)
  /\ Ordered(c) /\ Opens(c)
  /\ \E D : Balanced(c, D, q) /\ D[1] = p /\ Guarded(c, D, low)

Contains(c, x) == \E i \in DOMAIN c : c[i] = x

LEMMA ConcatCode ==
  ASSUME NEW a \in Code, NEW b \in Code
  PROVE  /\ a \o b \in Code
         /\ Len(a) \in Nat /\ Len(b) \in Nat
         /\ DOMAIN a = 1..Len(a) /\ DOMAIN b = 1..Len(b)
         /\ Len(a \o b) = Len(a) + Len(b)
         /\ DOMAIN (a \o b) = 1..Len(a) + Len(b)
         /\ \A i \in 1..Len(a) : (a \o b)[i] = a[i]
         /\ \A i \in 1..Len(b) : (a \o b)[Len(a) + i] = b[i]
BY DEF Code

LEMMA EmptyLength ==
  ASSUME NEW c \in Code
  PROVE  c # <<>> <=> Len(c) >= 1
BY DEF Code

\* An index of a concatenation is one of the first part or one of the second
LEMMA ConcatIndex ==
  ASSUME NEW a \in Code, NEW b \in Code, NEW i \in DOMAIN (a \o b)
  PROVE  \/ i \in DOMAIN a /\ (a \o b)[i] = a[i]
         \/ i - Len(a) \in DOMAIN b /\ i > Len(a) /\ (a \o b)[i] = b[i - Len(a)]
<1> DEFINE n == Len(a)
           m == Len(b)
           u == a \o b
<1>1. /\ n \in Nat /\ m \in Nat /\ i \in 1..n + m /\ DOMAIN a = 1..n /\ DOMAIN b = 1..m
      /\ \A j \in 1..n : u[j] = a[j]
      /\ \A j \in 1..m : u[n + j] = b[j]
  BY ConcatCode
<1> HIDE DEF n, m, u
<1>2. CASE i <= n
  BY <1>1, <1>2 DEF n, u
<1>3. CASE i > n
  <2>1. i - n \in 1..m /\ n + (i - n) = i
    BY <1>1, <1>3
  <2>2. u[i] = b[i - n]
    BY <1>1, <2>1
  <2>. QED
    BY <1>1, <1>3, <2>1, <2>2 DEF n, u
<1>. QED
  BY <1>1, <1>2, <1>3

LEMMA ConcatContains ==
  ASSUME NEW a \in Code, NEW b \in Code, NEW x, Contains(a, x) \/ Contains(b, x)
  PROVE  Contains(a \o b, x)
<1> DEFINE n == Len(a)
           m == Len(b)
           u == a \o b
<1>1. /\ n \in Nat /\ m \in Nat /\ DOMAIN a = 1..n /\ DOMAIN b = 1..m /\ DOMAIN u = 1..n + m
      /\ \A j \in 1..n : u[j] = a[j]
      /\ \A j \in 1..m : u[n + j] = b[j]
  BY ConcatCode
<1> HIDE DEF n, m, u
<1>2. ASSUME NEW i \in 1..n, a[i] = x PROVE Contains(u, x)
  <2>1. i \in 1..n + m /\ u[i] = x
    BY <1>1, <1>2
  <2>. QED
    BY <1>1, <2>1 DEF Contains
<1>3. ASSUME NEW i \in 1..m, b[i] = x PROVE Contains(u, x)
  <2>1. n + i \in 1..n + m /\ u[n + i] = x
    BY <1>1, <1>3
  <2>. QED
    BY <1>1, <2>1 DEF Contains
<1>. QED
  BY <1>1, <1>2, <1>3 DEF Contains, u

LEMMA ConcatAvoids ==
  ASSUME NEW a \in Code, NEW b \in Code, NEW ops, Avoids(a, ops), Avoids(b, ops)
  PROVE  Avoids(a \o b, ops)
BY ConcatIndex DEF Avoids

LEMMA ConcatOrdered ==
  ASSUME NEW a \in Code, NEW b \in Code, Ordered(a), Ordered(b), Opens(b), Avoids(a, {"sti"})
  PROVE  Ordered(a \o b)
<1> DEFINE n == Len(a)
           m == Len(b)
           u == a \o b
<1>1. /\ n \in Nat /\ m \in Nat /\ DOMAIN a = 1..n /\ DOMAIN b = 1..m /\ DOMAIN u = 1..n + m
      /\ Len(u) = n + m
      /\ \A j \in 1..n : u[j] = a[j]
      /\ \A j \in 1..m : u[n + j] = b[j]
  BY ConcatCode
<1>2. b # <<>> <=> m >= 1
  BY EmptyLength
<1> SUFFICES ASSUME NEW i \in 1..n + m
             PROVE  /\ u[i][1] = "sti" => i = n + m
                    /\ u[i][1] = "select" => i < n + m
                    /\ u[i][1] = "select" /\ u[i + 1][1] = "in" =>
                         i + 2 <= n + m /\ u[i + 2][1] = "select" /\ u[i + 2][2] = u[i][2]
                    /\ u[i][1] = "select" /\ u[i + 1][1] \in Outs =>
                         u[i][2] = Register(u[i + 1][1])
                    /\ u[i][1] # "select" /\ i < n + m =>
                         u[i + 1][1] \notin {"in", "out_low", "out_pie"}
                    /\ u[i][1] # "in" /\ i + 1 < n + m =>
                         ~(u[i + 1][1] = "select" /\ u[i + 2][1] \in Outs)
  BY <1>1 DEF Ordered
<1> HIDE DEF n, m, u
<1> DEFINE x  == u[i]
           x1 == u[i + 1]
           x2 == u[i + 2]
<1>3. CASE i <= n
  <2> DEFINE y1 == a[i + 1]
             y2 == a[i + 2]
  <2>1. x = a[i] /\ i \in DOMAIN a /\ x[1] # "sti"
    BY <1>1, <1>3 DEF Avoids
  <2>2. /\ x[1] = "select" => i < n
        /\ x[1] = "select" /\ y1[1] = "in" =>
             i + 2 <= n /\ y2[1] = "select" /\ y2[2] = x[2]
        /\ x[1] = "select" /\ y1[1] \in Outs => x[2] = Register(y1[1])
        /\ x[1] # "select" /\ i < n => y1[1] \notin {"in", "out_low", "out_pie"}
        /\ x[1] # "in" /\ i + 1 < n => ~(y1[1] = "select" /\ y2[1] \in Outs)
    BY <2>1 DEF Ordered, n
  <2>3. (i < n => x1 = y1) /\ (i + 2 <= n => x2 = y2)
    BY <1>1, <1>3
  \* the last instruction of a
  <2>4. i + 1 = n => y1[1] # "select"
    <3> SUFFICES ASSUME i + 1 = n PROVE a[n][1] # "select"
      OBVIOUS
    <3>1. n \in DOMAIN a
      BY <1>1, <1>3
    <3>. QED
      BY <1>1, <3>1 DEF Ordered, n
  \* the first instructions of b
  <2>5. i = n /\ i < n + m => /\ x1[1] \notin {"in", "out_low", "out_pie"}
                              /\ x1 = b[1]
    <3> SUFFICES ASSUME i = n, i < n + m
                 PROVE  x1[1] \notin {"in", "out_low", "out_pie"} /\ x1 = b[1]
      OBVIOUS
    <3>1. 1 \in 1..m /\ n + 1 = i + 1
      BY <1>1
    <3>2. x1 = b[1]
      BY <1>1, <3>1
    <3>. QED
      BY <1>1, <1>2, <3>1, <3>2 DEF Opens
  <2>6. i = n /\ i + 1 < n + m => ~(x1[1] = "select" /\ x2[1] \in Outs)
    <3> SUFFICES ASSUME i = n, i + 1 < n + m PROVE ~(x1[1] = "select" /\ x2[1] \in Outs)
      OBVIOUS
    <3>1. 1 \in 1..m /\ 2 \in 1..m /\ n + 1 = i + 1 /\ n + 2 = i + 2
      BY <1>1
    <3>2. x1 = b[1] /\ x2 = b[2]
      BY <1>1, <3>1
    <3>. QED
      BY <1>1, <1>2, <3>1, <3>2 DEF Opens
  <2>7. i \in Nat /\ n \in Nat /\ m \in Nat
    BY <1>1
  <2> HIDE DEF x, x1, x2, y1, y2
  <2>8. /\ x[1] = "sti" => i = n + m
        /\ x[1] = "select" => i < n + m
        /\ x[1] = "select" /\ x1[1] = "in" =>
             i + 2 <= n + m /\ x2[1] = "select" /\ x2[2] = x[2]
        /\ x[1] = "select" /\ x1[1] \in Outs => x[2] = Register(x1[1])
    BY <1>3, <2>1, <2>2, <2>3, <2>7
  <2>9. x[1] # "select" /\ i < n + m => x1[1] \notin {"in", "out_low", "out_pie"}
    BY <1>3, <2>2, <2>3, <2>5, <2>7
  <2>10. x[1] # "in" /\ i + 1 < n + m => ~(x1[1] = "select" /\ x2[1] \in Outs)
    BY <1>3, <2>2, <2>3, <2>4, <2>6, <2>7
  <2>. QED
    BY <2>8, <2>9, <2>10 DEF x, x1, x2
<1>4. CASE i > n
  <2> DEFINE k  == i - n
             y1 == b[k + 1]
             y2 == b[k + 2]
  <2>1. k \in 1..m /\ n + k = i
    BY <1>1, <1>4
  <2>2. x = b[k]
    BY <1>1, <2>1
  <2>3. k + 1 <= m => x1 = y1
    <3> SUFFICES ASSUME k + 1 <= m PROVE x1 = y1
      OBVIOUS
    <3>1. k + 1 \in 1..m /\ n + (k + 1) = i + 1
      BY <1>1, <2>1
    <3>. QED
      BY <1>1, <3>1
  <2>4. k + 2 <= m => x2 = y2
    <3> SUFFICES ASSUME k + 2 <= m PROVE x2 = y2
      OBVIOUS
    <3>1. k + 2 \in 1..m /\ n + (k + 2) = i + 2
      BY <1>1, <2>1
    <3>. QED
      BY <1>1, <3>1
  <2>5. /\ x[1] = "sti" => k = m
        /\ x[1] = "select" => k < m
        /\ x[1] = "select" /\ y1[1] = "in" =>
             k + 2 <= m /\ y2[1] = "select" /\ y2[2] = x[2]
        /\ x[1] = "select" /\ y1[1] \in Outs => x[2] = Register(y1[1])
        /\ x[1] # "select" /\ k < m => y1[1] \notin {"in", "out_low", "out_pie"}
        /\ x[1] # "in" /\ k + 1 < m => ~(y1[1] = "select" /\ y2[1] \in Outs)
    <3>1. k \in DOMAIN b
      BY <1>1, <2>1
    <3> HIDE DEF k, x
    <3>. QED
      BY <2>2, <3>1 DEF Ordered, m
  <2>6. i \in Nat /\ n \in Nat /\ m \in Nat /\ k \in Nat
    BY <1>1, <2>1
  <2> HIDE DEF x, x1, x2, y1, y2, k
  <2>7. /\ x[1] = "sti" => i = n + m
        /\ x[1] = "select" => i < n + m
        /\ x[1] = "select" /\ x1[1] = "in" =>
             i + 2 <= n + m /\ x2[1] = "select" /\ x2[2] = x[2]
        /\ x[1] = "select" /\ x1[1] \in Outs => x[2] = Register(x1[1])
        /\ x[1] # "select" /\ i < n + m => x1[1] \notin {"in", "out_low", "out_pie"}
        /\ x[1] # "in" /\ i + 1 < n + m => ~(x1[1] = "select" /\ x2[1] \in Outs)
    BY <2>1, <2>3, <2>4, <2>5, <2>6
  <2>. QED
    BY <2>7 DEF x, x1, x2
<1>. QED
  BY <1>1, <1>3, <1>4

LEMMA ConcatOpens ==
  ASSUME NEW a \in Code, NEW b \in Code, Ordered(a), Opens(a), Opens(b)
  PROVE  Opens(a \o b)
<1>1. CASE a = <<>>
  BY <1>1 DEF Code
<1>2. CASE a # <<>>
  <2>1. Len(a) \in Nat /\ Len(a) >= 1 /\ DOMAIN a = 1..Len(a)
    BY <1>2, NonEmpty
  <2>2. (a \o b)[1] = a[1]
    BY <2>1, ConcatCode
  <2>3. a[1][1] = "select" => (a \o b)[2] = a[2]
    <3> SUFFICES ASSUME a[1][1] = "select" PROVE (a \o b)[2] = a[2]
      OBVIOUS
    <3>1. 1 \in DOMAIN a
      BY <2>1
    <3>2. 1 < Len(a)
      BY <3>1 DEF Ordered
    <3>. QED
      BY <2>1, <3>2, ConcatCode
  <2>. QED
    BY <1>2, <2>2, <2>3 DEF Opens
<1>. QED
  BY <1>1, <1>2

LEMMA ConcatBlock ==
  ASSUME NEW a, NEW b, NEW f, NEW p, NEW q, NEW r, NEW low,
         Block(a, f, p, q, low), Block(b, f, q, r, low), Avoids(a, {"sti"})
  PROVE  Block(a \o b, f, p, r, low)
<1> DEFINE n == Len(a)
           m == Len(b)
           u == a \o b
<1>1. /\ a \in Code /\ b \in Code /\ u \in Code
      /\ n \in Nat /\ m \in Nat /\ DOMAIN a = 1..n /\ DOMAIN b = 1..m /\ DOMAIN u = 1..n + m
      /\ Len(u) = n + m
      /\ \A j \in 1..n : u[j] = a[j]
      /\ \A j \in 1..m : u[n + j] = b[j]
  BY ConcatCode DEF Block
<1>2. Ordered(u) /\ Opens(u)
  BY <1>1, ConcatOrdered, ConcatOpens DEF Block
<1>3. \A i \in DOMAIN u : Fits(u[i], f)
  BY <1>1, ConcatIndex DEF Block
<1>4. PICK D : Balanced(a, D, q) /\ D[1] = p /\ Guarded(a, D, low)
  BY DEF Block
<1>5. PICK E : Balanced(b, E, r) /\ E[1] = q /\ Guarded(b, E, low)
  BY DEF Block
<1> HIDE DEF n, m, u
<1> DEFINE F == [i \in 1..n + m + 1 |-> IF i <= n THEN D[i] ELSE E[i - n]]
<1>6. /\ D \in [1..n + 1 -> 0..2] /\ D[n + 1] = q
      /\ \A i \in 1..n : D[i + 1] = Saves(a[i], D[i])
  BY <1>4 DEF Balanced, n
<1>7. /\ E \in [1..m + 1 -> 0..2] /\ E[m + 1] = r
      /\ \A i \in 1..m : E[i + 1] = Saves(b[i], E[i])
  BY <1>5 DEF Balanced, m
<1>8. \A i \in 1..n + 1 : F[i] = D[i]
  <2> TAKE i \in 1..n + 1
  <2>1. i \in 1..n + m + 1
    BY <1>1
  <2>2. CASE i = n + 1
    <3>1. i - n = 1 /\ ~(i <= n)
      BY <1>1, <2>2
    <3>. QED
      BY <1>5, <1>6, <2>1, <2>2, <3>1
  <2>3. CASE i # n + 1
    BY <1>1, <2>1, <2>3
  <2>. QED
    BY <2>2, <2>3
<1>9. \A k \in 1..m + 1 : F[n + k] = E[k]
  <2> TAKE k \in 1..m + 1
  <2>1. n + k \in 1..n + m + 1 /\ ~(n + k <= n) /\ (n + k) - n = k
    BY <1>1
  <2>. QED
    BY <2>1
<1>10. F \in [1..n + m + 1 -> 0..2]
  <2>1. ASSUME NEW i \in 1..n + m + 1 PROVE F[i] \in 0..2
    <3>1. CASE i <= n
      BY <1>1, <1>6, <3>1
    <3>2. CASE ~(i <= n)
      <4>1. i - n \in 1..m + 1
        BY <1>1, <3>2
      <4>. QED
        BY <1>7, <3>2, <4>1
    <3>. QED
      BY <3>1, <3>2
  <2>. QED
    BY <2>1
<1> HIDE DEF F
<1>11. Balanced(u, F, r)
  <2>1. F[n + m + 1] = r
    <3>1. m + 1 \in 1..m + 1 /\ n + (m + 1) = n + m + 1
      BY <1>1
    <3>. QED
      BY <1>7, <1>9, <3>1
  <2>2. ASSUME NEW i \in 1..n + m PROVE F[i + 1] = Saves(u[i], F[i])
    <3>1. CASE i <= n
      <4>1. i \in 1..n /\ i \in 1..n + 1 /\ i + 1 \in 1..n + 1
        BY <1>1, <3>1
      <4>. QED
        BY <1>1, <1>6, <1>8, <4>1
    <3>2. CASE ~(i <= n)
      <4> DEFINE k == i - n
      <4>1. k \in 1..m /\ k \in 1..m + 1 /\ k + 1 \in 1..m + 1 /\ n + k = i /\ n + (k + 1) = i + 1
        BY <1>1, <3>2
      <4> HIDE DEF k
      <4>2. u[i] = b[k] /\ F[i] = E[k] /\ F[i + 1] = E[k + 1]
        BY <1>1, <1>9, <4>1
      <4>. QED
        BY <1>7, <4>1, <4>2
    <3>. QED
      BY <3>1, <3>2
  <2>. QED
    BY <1>1, <1>10, <2>1, <2>2 DEF Balanced
<1>12. F[1] = p
  <2>1. 1 \in 1..n + 1
    BY <1>1
  <2>. QED
    BY <1>4, <1>8, <2>1
<1>13. Guarded(u, F, low)
  <2> SUFFICES ASSUME NEW i \in 1..n + m, u[i][1] \in Access PROVE F[i] >= low
    BY <1>1 DEF Guarded
  <2>1. CASE i <= n
    <3>1. i \in 1..n /\ i \in 1..n + 1
      BY <1>1, <2>1
    <3>. QED
      BY <1>1, <1>4, <1>8, <3>1 DEF Guarded
  <2>2. CASE ~(i <= n)
    <3> DEFINE k == i - n
    <3>1. k \in 1..m /\ k \in 1..m + 1 /\ n + k = i
      BY <1>1, <2>2
    <3> HIDE DEF k
    <3>2. u[i] = b[k] /\ F[i] = E[k]
      BY <1>1, <1>9, <3>1
    <3>. QED
      BY <1>1, <1>5, <3>1, <3>2 DEF Guarded
  <2>. QED
    BY <2>1, <2>2
<1>. QED
  BY <1>1, <1>2, <1>3, <1>11, <1>12, <1>13 DEF Block, u

----------------------------------------------------------------------------
(* The routines *)

LEMMA Rates == Rate(2) = 15 /\ \A f : Rate(f) \in 1..15
BY DEF Rate

LEMMA RoutineInstructions ==
  /\ \A op \in {"in", "out_pie", "clear_flag", "wait", "cli", "restore", "sti"} :
        <<op>> \in Instruction
  /\ <<"select", "A">> \in Instruction /\ <<"select", "B">> \in Instruction
  /\ \A f : <<"out_low", Rate(f)>> \in Instruction
  /\ \A op \in Resets, pic \in Pics : <<op, pic>> \in Instruction
  /\ \A op \in Syncs, pic \in Pics, n \in 0..7 : <<op, pic, n>> \in Instruction
<1>1. CodeOps \subseteq Ops /\ Resets \subseteq Ops /\ Syncs \subseteq Ops
  BY DEF CodeOps, Ops, Resets, Syncs
<1>2. {"in", "out_pie", "clear_flag", "wait", "cli", "restore", "sti", "select", "out_low"}
        \subseteq Ops
  BY DEF Ops
<1>3. "A" \in Values /\ "B" \in Values /\ Pics \subseteq Values /\ 0..7 \subseteq Values
  BY DEF Values
<1>4. \A f : Rate(f) \in Values
  BY Rates DEF Values
<1>. QED
  BY <1>1, <1>2, <1>3, <1>4, Instructions

\* Instructions that save no flags stay at one depth
LEMMA LevelBlock ==
  ASSUME NEW c \in Code, NEW f, NEW p \in 0..2, NEW low,
         \A i \in DOMAIN c : Fits(c[i], f),
         Ordered(c), Opens(c), Avoids(c, {"cli", "restore"}),
         p >= low \/ Avoids(c, Access)
  PROVE  Block(c, f, p, p, low)
<1> DEFINE n == Len(c)
           D == [i \in 1..n + 1 |-> p]
<1>1. n \in Nat /\ DOMAIN c = 1..n
  BY DEF Code
<1> HIDE DEF n
<1>2. D \in [1..n + 1 -> 0..2] /\ D[1] = p /\ D[n + 1] = p
  BY <1>1
<1>3. \A i \in 1..n : D[i] = p /\ D[i + 1] = p
  BY <1>1
<1> HIDE DEF D
<1>4. Balanced(c, D, p)
  BY <1>1, <1>2, <1>3 DEF Balanced, Saves, Avoids, n
<1>5. Guarded(c, D, low)
  BY <1>1, <1>3 DEF Guarded, Avoids
<1>. QED
  BY <1>2, <1>4, <1>5 DEF Block

LEMMA SingleBlock ==
  ASSUME NEW op \in {"clear_flag", "wait", "cli", "restore", "sti"}, NEW f,
         NEW p \in 0..2, NEW q \in 0..2, q = Saves(<<op>>, p), NEW low
  PROVE  /\ Block(<< <<op>> >>, f, p, q, low)
         /\ Avoids(<< <<op>> >>, Resets)
         /\ op # "sti" => Avoids(<< <<op>> >>, {"sti"})
<1> DEFINE c == << <<op>> >>
           D == [i \in 1..2 |-> IF i = 1 THEN p ELSE q]
<1>1. c \in Code /\ Len(c) = 1 /\ DOMAIN c = 1..1 /\ c[1] = <<op>> /\ c[1][1] = op
  BY RoutineInstructions DEF Code
<1> HIDE DEF c
<1>2. D \in [1..2 -> 0..2] /\ D[1] = p /\ D[2] = q
  OBVIOUS
<1> HIDE DEF D
<1>3. Balanced(c, D, q)
  BY <1>1, <1>2 DEF Balanced
<1>4. Guarded(c, D, low)
  BY <1>1 DEF Guarded, Access
<1>5. Fits(c[1], f)
  BY <1>1 DEF Fits, CodeOps, Resets, Syncs
<1>6. Ordered(c)
  BY <1>1 DEF Ordered, Outs
<1>7. Opens(c)
  BY <1>1 DEF Opens
<1>8. Block(c, f, p, q, low)
  BY <1>1, <1>2, <1>3, <1>4, <1>5, <1>6, <1>7 DEF Block
<1>9. Avoids(c, Resets) /\ (op # "sti" => Avoids(c, {"sti"}))
  BY <1>1 DEF Avoids, Resets
<1>. QED
  BY <1>8, <1>9 DEF c

\* What rtc_init and rtc_write do to registers A and B
LEMMA SetRateBlock ==
  ASSUME NEW f, NEW p \in 0..2, NEW low, p >= low
  PROVE  LET c == set_rate(Rate(f))
         IN  /\ Block(c, f, p, p, low)
             /\ Contains(c, <<"out_low", Rate(f)>>)
             /\ Avoids(c, Resets) /\ Avoids(c, {"sti"})
<1> DEFINE c == set_rate(Rate(f))
<1>1. /\ c \in Code /\ Len(c) = 4 /\ DOMAIN c = 1..4
      /\ c[1] = <<"select", "A">> /\ c[2] = <<"in">>
      /\ c[3] = <<"select", "A">> /\ c[4] = <<"out_low", Rate(f)>>
  BY RoutineInstructions DEF set_rate, Code
<1>2. /\ c[1][1] = "select" /\ c[1][2] = "A" /\ c[2][1] = "in"
      /\ c[3][1] = "select" /\ c[3][2] = "A" /\ c[4][1] = "out_low" /\ c[4][2] = Rate(f)
  BY <1>1
<1> HIDE DEF c
<1>3. \A i \in 1..4 : i = 1 \/ i = 2 \/ i = 3 \/ i = 4
  OBVIOUS
<1>4. \A i \in DOMAIN c : Fits(c[i], f)
  BY <1>1, <1>2, <1>3 DEF Fits, CodeOps, Resets, Syncs
<1>5. Ordered(c)
  BY <1>1, <1>2, <1>3 DEF Ordered, Outs, Register
<1>6. Opens(c)
  BY <1>2 DEF Opens, Outs
<1>7. Avoids(c, {"cli", "restore"}) /\ Avoids(c, Resets) /\ Avoids(c, {"sti"})
  BY <1>1, <1>2, <1>3 DEF Avoids, Resets
<1>8. Contains(c, <<"out_low", Rate(f)>>)
  BY <1>1 DEF Contains
<1>. QED
  BY <1>1, <1>4, <1>5, <1>6, <1>7, <1>8, LevelBlock DEF c

EnablePie == << <<"select", "B">>, <<"in">>, <<"select", "B">>, <<"out_pie">> >>

LEMMA EnablePieBlock ==
  ASSUME NEW f, NEW p \in 0..2, NEW low, p >= low
  PROVE  LET c == EnablePie
         IN  /\ Block(c, f, p, p, low)
             /\ Contains(c, <<"out_pie">>)
             /\ Avoids(c, Resets) /\ Avoids(c, {"sti"})
<1> DEFINE c == EnablePie
<1>1. /\ c \in Code /\ Len(c) = 4 /\ DOMAIN c = 1..4
      /\ c[1] = <<"select", "B">> /\ c[2] = <<"in">>
      /\ c[3] = <<"select", "B">> /\ c[4] = <<"out_pie">>
  BY RoutineInstructions DEF EnablePie, Code
<1>2. /\ c[1][1] = "select" /\ c[1][2] = "B" /\ c[2][1] = "in"
      /\ c[3][1] = "select" /\ c[3][2] = "B" /\ c[4][1] = "out_pie"
  BY <1>1
<1> HIDE DEF c
<1>3. \A i \in 1..4 : i = 1 \/ i = 2 \/ i = 3 \/ i = 4
  OBVIOUS
<1>4. \A i \in DOMAIN c : Fits(c[i], f)
  BY <1>1, <1>2, <1>3 DEF Fits, CodeOps, Resets, Syncs
<1>5. Ordered(c)
  BY <1>1, <1>2, <1>3 DEF Ordered, Outs, Register
<1>6. Opens(c)
  BY <1>2 DEF Opens, Outs
<1>7. Avoids(c, {"cli", "restore"}) /\ Avoids(c, Resets) /\ Avoids(c, {"sti"})
  BY <1>1, <1>2, <1>3 DEF Avoids, Resets
<1>8. Contains(c, <<"out_pie">>)
  BY <1>1 DEF Contains
<1>. QED
  BY <1>1, <1>4, <1>5, <1>6, <1>7, <1>8, LevelBlock DEF c

\* Sequences of one or two changes of the masks
LEMMA MaskBlock ==
  ASSUME NEW op \in Syncs, NEW f, NEW p \in 0..2, NEW low,
         NEW pic \in Pics, NEW n \in 0..7, NEW rest \in Code,
         op = "unmask" => Line(pic, n) \in Known,
         \/ rest = <<>>
         \/ rest = << <<op, "master", IR_SLAVE>> >>
  PROVE  LET c == << <<op, pic, n>> >> \o rest
         IN  /\ Block(c, f, p, p, low)
             /\ Contains(c, <<op, pic, n>>)
             /\ rest # <<>> => Contains(c, <<op, "master", IR_SLAVE>>)
             /\ Avoids(c, Resets) /\ Avoids(c, {"sti"})
<1>1. ASSUME NEW pc \in Pics, NEW m \in 0..7, op = "unmask" => Line(pc, m) \in Known
      PROVE  LET c == << <<op, pc, m>> >>
             IN  /\ Block(c, f, p, p, low)
                 /\ Contains(c, <<op, pc, m>>)
                 /\ Avoids(c, Resets) /\ Avoids(c, {"sti"})
  <2> DEFINE c == << <<op, pc, m>> >>
  <2>1. c \in Code /\ Len(c) = 1 /\ DOMAIN c = 1..1 /\ c[1] = <<op, pc, m>>
    <3>1. <<op, pc, m>> \in Instruction
      BY RoutineInstructions
    <3>. QED
      BY <3>1 DEF Code
  <2>2. c[1][1] = op /\ c[1][2] = pc /\ c[1][3] = m
    BY <2>1
  <2> HIDE DEF c
  <2>3. Fits(c[1], f)
    BY <1>1, <2>2 DEF Fits, CodeOps, Resets, Syncs
  <2>4. Ordered(c) /\ Opens(c)
    BY <2>1, <2>2 DEF Ordered, Opens, Outs, Syncs
  <2>5. /\ Avoids(c, {"cli", "restore"}) /\ Avoids(c, Resets) /\ Avoids(c, {"sti"})
        /\ Avoids(c, Access)
    BY <2>1, <2>2 DEF Avoids, Resets, Syncs, Access
  <2>6. Contains(c, <<op, pc, m>>)
    BY <2>1 DEF Contains
  <2>. QED
    BY <2>1, <2>3, <2>4, <2>5, <2>6, LevelBlock DEF c
<1> DEFINE a == << <<op, pic, n>> >>
           b == << <<op, "master", IR_SLAVE>> >>
<1>2. /\ Block(a, f, p, p, low) /\ Contains(a, <<op, pic, n>>)
      /\ Avoids(a, Resets) /\ Avoids(a, {"sti"})
  BY <1>1
<1>3. a \in Code
  BY <1>2 DEF Block
<1>4. CASE rest = <<>>
  <2>1. a \o <<>> = a
    BY <1>3 DEF Code
  <2>. QED
    BY <1>2, <1>4, <2>1
<1>5. CASE rest = b
  <2>1. "master" \in Pics /\ IR_SLAVE \in 0..7 /\ Line("master", IR_SLAVE) \in Known
    BY DEF Pics, IR_SLAVE, Line, Known
  <2>2. /\ Block(b, f, p, p, low) /\ Contains(b, <<op, "master", IR_SLAVE>>)
        /\ Avoids(b, Resets) /\ Avoids(b, {"sti"})
    BY <1>1, <2>1
  <2> HIDE DEF a, b
  <2>3. b \in Code
    BY <2>2 DEF Block
  <2>4. Block(a \o b, f, p, p, low)
    BY <1>2, <2>2, ConcatBlock
  <2>5. /\ Contains(a \o b, <<op, pic, n>>) /\ Contains(a \o b, <<op, "master", IR_SLAVE>>)
        /\ Avoids(a \o b, Resets) /\ Avoids(a \o b, {"sti"})
    BY <1>2, <1>3, <2>2, <2>3, ConcatContains, ConcatAvoids
  <2>. QED
    BY <1>5, <2>4, <2>5 DEF a
<1>. QED
  BY <1>4, <1>5

LEMMA PairCode ==
  ASSUME NEW x \in Instruction, NEW y \in Instruction
  PROVE  <<x, y>> = <<x>> \o <<y>>
<1> DEFINE s == <<x>>
           t == <<y>>
           u == <<x, y>>
<1>1. s \in Code /\ t \in Code /\ u \in Code /\ Len(s) = 1 /\ Len(t) = 1 /\ Len(u) = 2
  BY DEF Code
<1>2. s \o t \in Code /\ Len(s \o t) = 2
  BY <1>1 DEF Code
<1>3. ASSUME NEW i \in 1..2 PROVE u[i] = (s \o t)[i]
  <2>1. i = 1 \/ i = 2
    OBVIOUS
  <2>. QED
    BY <1>1, <2>1
<1>. QED
  BY <1>1, <1>2, <1>3, SeqEqual DEF Code

LEMMA EmptyBlock ==
  ASSUME NEW f, NEW p \in 0..2, NEW low
  PROVE  Block(<<>>, f, p, p, low) /\ \A ops : Avoids(<<>>, ops)
<1>1. Ordered(<<>>) /\ Opens(<<>>) /\ \A ops : Avoids(<<>>, ops)
  BY EmptyCode DEF Ordered, Opens, Avoids
<1>2. \A i \in DOMAIN <<>> : Fits(<<>>[i], f)
  BY EmptyCode
<1>. QED
  BY <1>1, <1>2, EmptyCode, LevelBlock

LEMMA MasksBlock ==
  ASSUME NEW op \in Syncs, NEW irq \in Nat, op = "unmask" => irq \in Known,
         NEW c, NEW f, NEW p \in 0..2, NEW low,
         c = IF irq > NUM_IRQ THEN <<>>
             ELSE IF irq > 7
             THEN << <<op, "slave", irq - 8>>, <<op, "master", IR_SLAVE>> >>
             ELSE << <<op, "master", irq>> >>
  PROVE  /\ Block(c, f, p, p, low)
         /\ Avoids(c, Resets) /\ Avoids(c, {"sti"})
         /\ irq = IRQ_RTC => /\ Contains(c, <<op, "slave", 0>>)
                             /\ Contains(c, <<op, "master", IR_SLAVE>>)
<1>1. CASE irq > NUM_IRQ
  BY <1>1, EmptyBlock DEF NUM_IRQ, IRQ_RTC
<1>2. CASE irq \in 8..15
  <2> DEFINE n == irq - 8
             x == <<op, "slave", n>>
             y == <<op, "master", IR_SLAVE>>
  <2>1. n \in 0..7 /\ IR_SLAVE \in 0..7 /\ "slave" \in Pics /\ "master" \in Pics
    BY <1>2 DEF IR_SLAVE, Pics
  <2>2. x \in Instruction /\ y \in Instruction
    BY <2>1, RoutineInstructions
  <2>3. op = "unmask" => Line("slave", n) \in Known
    BY <1>2 DEF Line
  <2>4. c = <<x>> \o <<y>>
    <3>1. irq > 7 /\ ~(irq > NUM_IRQ)
      BY <1>2 DEF NUM_IRQ
    <3>2. c = <<x, y>>
      BY <3>1
    <3>. QED
      BY <2>2, <3>2, PairCode
  <2>5. <<y>> \in Code /\ <<y>> # <<>>
    BY <2>2 DEF Code
  <2>6. irq = IRQ_RTC => n = 0
    BY DEF IRQ_RTC
  <2> HIDE DEF n
  <2>. QED
    BY <2>1, <2>3, <2>4, <2>5, <2>6, MaskBlock
<1>3. CASE irq \in 0..7
  <2> DEFINE x == <<op, "master", irq>>
  <2>1. "master" \in Pics /\ x \in Instruction
    BY <1>3, RoutineInstructions DEF Pics
  <2>2. op = "unmask" => Line("master", irq) \in Known
    BY DEF Line
  <2>3. c = <<x>> \o <<>>
    <3>1. ~(irq > 7) /\ ~(irq > NUM_IRQ)
      BY <1>3 DEF NUM_IRQ
    <3>2. <<x>> \o <<>> = <<x>>
      BY <2>1
    <3>. QED
      BY <3>1, <3>2
  <2>4. irq # IRQ_RTC
    BY <1>3 DEF IRQ_RTC
  <2> HIDE DEF x
  <2>. QED
    BY <1>3, <2>1, <2>2, <2>3, <2>4, EmptyCode, MaskBlock DEF x
<1>. QED
  BY <1>1, <1>2, <1>3 DEF NUM_IRQ

LEMMA EnableBlock ==
  ASSUME NEW irq \in Nat, irq \in Known, NEW f, NEW p \in 0..2, NEW low
  PROVE  LET c == enable_irq(irq)
         IN  /\ Block(c, f, p, p, low)
             /\ Avoids(c, Resets) /\ Avoids(c, {"sti"})
             /\ irq = IRQ_RTC => /\ Contains(c, <<"unmask", "slave", 0>>)
                                 /\ Contains(c, <<"unmask", "master", IR_SLAVE>>)
<1>1. "unmask" \in Syncs
  BY DEF Syncs
<1>. QED
  BY <1>1, MasksBlock DEF enable_irq

LEMMA DisableBlock ==
  ASSUME NEW irq \in Nat, NEW f, NEW p \in 0..2, NEW low
  PROVE  LET c == disable_irq(irq)
         IN  /\ Block(c, f, p, p, low)
             /\ Avoids(c, Resets) /\ Avoids(c, {"sti"})
<1>1. "mask" \in Syncs /\ "mask" # "unmask"
  BY DEF Syncs
<1>. QED
  BY <1>1, MasksBlock DEF disable_irq

LEMMA RtcInitBlock ==
  ASSUME NEW p \in 0..2, NEW low, p >= low
  PROVE  LET c == rtc_init
         IN  /\ Block(c, 2, p, p, low)
             /\ Avoids(c, Resets) /\ Avoids(c, {"sti"})
             /\ Contains(c, <<"out_low", Rate(2)>>) /\ Contains(c, <<"out_pie">>)
             /\ Contains(c, <<"unmask", "slave", 0>>)
             /\ Contains(c, <<"unmask", "master", IR_SLAVE>>)
<1> DEFINE a == set_rate(Rate(2))
           b == EnablePie
           c == enable_irq(IRQ_RTC)
           d == << <<"clear_flag">> >>
<1>1. /\ Block(a, 2, p, p, low) /\ Avoids(a, Resets) /\ Avoids(a, {"sti"})
      /\ Contains(a, <<"out_low", Rate(2)>>)
  BY SetRateBlock
<1>2. /\ Block(b, 2, p, p, low) /\ Avoids(b, Resets) /\ Avoids(b, {"sti"})
      /\ Contains(b, <<"out_pie">>)
  BY EnablePieBlock
<1>3. /\ Block(c, 2, p, p, low) /\ Avoids(c, Resets) /\ Avoids(c, {"sti"})
      /\ Contains(c, <<"unmask", "slave", 0>>)
      /\ Contains(c, <<"unmask", "master", IR_SLAVE>>)
  <2>1. IRQ_RTC \in Nat /\ IRQ_RTC \in Known
    BY DEF IRQ_RTC, Known
  <2>. QED
    BY <2>1, EnableBlock
<1>4. Block(d, 2, p, p, low) /\ Avoids(d, Resets) /\ Avoids(d, {"sti"})
  <2>1. p = Saves(<<"clear_flag">>, p)
    BY DEF Saves
  <2>. QED
    BY <2>1, SingleBlock
<1>5. rtc_init = ((a \o b) \o c) \o d
  BY Rates DEF rtc_init, EnablePie
<1> HIDE DEF a, b, c, d
<1>6. a \in Code /\ b \in Code /\ c \in Code /\ d \in Code
  BY <1>1, <1>2, <1>3, <1>4 DEF Block
<1>7. /\ Block(a \o b, 2, p, p, low) /\ Avoids(a \o b, Resets) /\ Avoids(a \o b, {"sti"})
      /\ Contains(a \o b, <<"out_low", Rate(2)>>) /\ Contains(a \o b, <<"out_pie">>)
      /\ a \o b \in Code
  BY <1>1, <1>2, <1>6, ConcatBlock, ConcatAvoids, ConcatContains, ConcatCode
<1> DEFINE e == (a \o b) \o c
<1>8. /\ Block(e, 2, p, p, low) /\ Avoids(e, Resets) /\ Avoids(e, {"sti"})
      /\ Contains(e, <<"out_low", Rate(2)>>) /\ Contains(e, <<"out_pie">>)
      /\ Contains(e, <<"unmask", "slave", 0>>) /\ Contains(e, <<"unmask", "master", IR_SLAVE>>)
      /\ e \in Code
  BY <1>3, <1>6, <1>7, ConcatBlock, ConcatAvoids, ConcatContains, ConcatCode
<1>9. rtc_init = e \o d
  BY <1>5
<1> HIDE DEF e
<1>. QED
  BY <1>4, <1>6, <1>8, <1>9, ConcatBlock, ConcatAvoids, ConcatContains

LEMMA RtcWriteBlock ==
  ASSUME NEW f, NEW p \in 0..1
  PROVE  LET c == rtc_write(f)
         IN  /\ Block(c, f, p, p, 1)
             /\ Avoids(c, Resets) /\ Avoids(c, {"sti"})
             /\ Contains(c, <<"out_low", Rate(f)>>)
<1> DEFINE a == << <<"cli">> >>
           b == set_rate(Rate(f))
           c == << <<"restore">> >>
           q == p + 1
<1>1. Block(a, f, p, q, 1) /\ Avoids(a, Resets) /\ Avoids(a, {"sti"})
  <2>1. q = Saves(<<"cli">>, p) /\ p \in 0..2 /\ q \in 0..2
    BY DEF Saves
  <2>. QED
    BY <2>1, SingleBlock
<1>2. /\ Block(b, f, q, q, 1) /\ Avoids(b, Resets) /\ Avoids(b, {"sti"})
      /\ Contains(b, <<"out_low", Rate(f)>>)
  BY SetRateBlock
<1>3. Block(c, f, q, p, 1) /\ Avoids(c, Resets) /\ Avoids(c, {"sti"})
  <2>1. p = Saves(<<"restore">>, q) /\ p \in 0..2 /\ q \in 0..2
    BY DEF Saves
  <2>. QED
    BY <2>1, SingleBlock
<1>4. rtc_write(f) = (a \o b) \o c
  BY DEF rtc_write
<1> HIDE DEF a, b, c, q
<1>5. a \in Code /\ b \in Code /\ c \in Code
  BY <1>1, <1>2, <1>3 DEF Block
<1> DEFINE e == a \o b
<1>6. /\ Block(e, f, p, q, 1) /\ Avoids(e, Resets) /\ Avoids(e, {"sti"})
      /\ Contains(e, <<"out_low", Rate(f)>>) /\ e \in Code
  BY <1>1, <1>2, <1>5, ConcatBlock, ConcatAvoids, ConcatContains, ConcatCode
<1>7. rtc_write(f) = e \o c
  BY <1>4
<1> HIDE DEF e
<1>. QED
  BY <1>3, <1>5, <1>6, <1>7, ConcatBlock, ConcatAvoids, ConcatContains

LEMMA RtcOpenBlock ==
  LET c == rtc_open
  IN  /\ Block(c, 2, 0, 0, 1)
      /\ Avoids(c, Resets) /\ Avoids(c, {"sti"})
      /\ Contains(c, <<"out_low", Rate(2)>>)
<1> DEFINE a == << <<"cli">> >>
           b == rtc_init
           c == rtc_write(2)
           d == << <<"restore">> >>
<1>1. Block(a, 2, 0, 1, 1) /\ Avoids(a, Resets) /\ Avoids(a, {"sti"})
  <2>1. 1 = Saves(<<"cli">>, 0)
    BY DEF Saves
  <2>. QED
    BY <2>1, SingleBlock
<1>2. Block(b, 2, 1, 1, 1) /\ Avoids(b, Resets) /\ Avoids(b, {"sti"})
  BY RtcInitBlock
<1>3. /\ Block(c, 2, 1, 1, 1) /\ Avoids(c, Resets) /\ Avoids(c, {"sti"})
      /\ Contains(c, <<"out_low", Rate(2)>>)
  BY RtcWriteBlock
<1>4. Block(d, 2, 1, 0, 1) /\ Avoids(d, Resets) /\ Avoids(d, {"sti"})
  <2>1. 0 = Saves(<<"restore">>, 1)
    BY DEF Saves
  <2>. QED
    BY <2>1, SingleBlock
<1>5. rtc_open = ((a \o b) \o c) \o d
  BY DEF rtc_open
<1> HIDE DEF a, b, c, d
<1>6. a \in Code /\ b \in Code /\ c \in Code /\ d \in Code
  BY <1>1, <1>2, <1>3, <1>4 DEF Block
<1>7. /\ Block(a \o b, 2, 0, 1, 1) /\ Avoids(a \o b, Resets) /\ Avoids(a \o b, {"sti"})
      /\ a \o b \in Code
  BY <1>1, <1>2, <1>6, ConcatBlock, ConcatAvoids, ConcatCode
<1> DEFINE e == (a \o b) \o c
<1>8. /\ Block(e, 2, 0, 1, 1) /\ Avoids(e, Resets) /\ Avoids(e, {"sti"})
      /\ Contains(e, <<"out_low", Rate(2)>>) /\ e \in Code
  BY <1>3, <1>6, <1>7, ConcatBlock, ConcatAvoids, ConcatContains, ConcatCode
<1>9. rtc_open = e \o d
  BY <1>5
<1> HIDE DEF e
<1>. QED
  BY <1>4, <1>6, <1>8, <1>9, ConcatBlock, ConcatAvoids, ConcatContains

LEMMA RtcReadBlock ==
  ASSUME NEW f
  PROVE  Block(rtc_read, f, 0, 0, 1) /\ Avoids(rtc_read, Resets)
<1> DEFINE a == << <<"wait">> >>
           b == << <<"clear_flag">> >>
<1>1. Block(a, f, 0, 0, 1) /\ Avoids(a, Resets) /\ Avoids(a, {"sti"})
  <2>1. 0 = Saves(<<"wait">>, 0)
    BY DEF Saves
  <2>. QED
    BY <2>1, SingleBlock
<1>2. Block(b, f, 0, 0, 1) /\ Avoids(b, Resets) /\ Avoids(b, {"sti"})
  <2>1. 0 = Saves(<<"clear_flag">>, 0)
    BY DEF Saves
  <2>. QED
    BY <2>1, SingleBlock
<1>3. rtc_read = a \o b
  <2>1. <<"wait">> \in Instruction /\ <<"clear_flag">> \in Instruction
    BY RoutineInstructions
  <2>. QED
    BY <2>1, PairCode DEF rtc_read
<1> HIDE DEF a, b
<1>4. a \in Code /\ b \in Code
  BY <1>1, <1>2 DEF Block
<1>. QED
  BY <1>1, <1>2, <1>3, <1>4, ConcatBlock, ConcatAvoids

\* A routine that keeps its accesses to the clock to itself
Routine(c, f) == Block(c, f, 0, 0, 1) /\ Avoids(c, Resets)

LEMMA Routines ==
  /\ Routine(rtc_open, 2) /\ Routine(rtc_open \o << <<"sti">> >>, 2)
  /\ \A f : Routine(rtc_write(f), f) /\ Routine(rtc_read, f)
  /\ \A irq \in Disabled : \A f : Routine(enable_irq(irq), f) /\ Routine(disable_irq(irq), f)
  /\ Contains(rtc_open, <<"out_low", Rate(2)>>)
  /\ Contains(rtc_open \o << <<"sti">> >>, <<"out_low", Rate(2)>>)
  /\ \A f : Contains(rtc_write(f), <<"out_low", Rate(f)>>)
<1> DEFINE a == rtc_open
           b == << <<"sti">> >>
<1>1. /\ Block(a, 2, 0, 0, 1) /\ Avoids(a, Resets) /\ Avoids(a, {"sti"})
      /\ Contains(a, <<"out_low", Rate(2)>>)
  BY RtcOpenBlock
<1>2. Block(b, 2, 0, 0, 1) /\ Avoids(b, Resets)
  <2>1. 0 = Saves(<<"sti">>, 0)
    BY DEF Saves
  <2>. QED
    BY <2>1, SingleBlock
<1> HIDE DEF a, b
<1>3. a \in Code /\ b \in Code
  BY <1>1, <1>2 DEF Block
<1>4. Routine(a \o b, 2) /\ Contains(a \o b, <<"out_low", Rate(2)>>)
  BY <1>1, <1>2, <1>3, ConcatBlock, ConcatAvoids, ConcatContains DEF Routine
<1>5. \A f : /\ Routine(rtc_write(f), f) /\ Routine(rtc_read, f)
             /\ Contains(rtc_write(f), <<"out_low", Rate(f)>>)
  BY RtcWriteBlock, RtcReadBlock DEF Routine
<1>6. \A irq \in Disabled : \A f : Routine(enable_irq(irq), f) /\ Routine(disable_irq(irq), f)
  <2> TAKE irq \in Disabled
  <2> TAKE f
  <2>1. irq \in Nat /\ irq \in Known
    BY InterruptsAssumption DEF Known
  <2>. QED
    BY <2>1, EnableBlock, DisableBlock DEF Routine
<1>. QED
  BY <1>1, <1>4, <1>5, <1>6 DEF Routine, a, b

\* A block without resets keeps the discipline
LEMMA RoutineDisciplined ==
  ASSUME NEW c, NEW f, Routine(c, f)
  PROVE  Disciplined(c, f)
BY DEF Routine, Block, Disciplined, Masked, Avoids

\* The controllers are initialised first, and rtc_init writes both masks
LEMMA InitPicsBlock ==
  LET c == i8259_init
  IN  Block(c, 2, 0, 0, 0) /\ Avoids(c, {"sti"}) /\ Avoids(c, Syncs)
<1> DEFINE c == i8259_init
<1>1. /\ <<"mask_all", "master">> \in Instruction /\ <<"mask_all", "slave">> \in Instruction
      /\ <<"icw", "master">> \in Instruction /\ <<"icw", "slave">> \in Instruction
  BY RoutineInstructions DEF Resets, Pics
<1>2. /\ c \in Code /\ Len(c) = 4 /\ DOMAIN c = 1..4
      /\ c[1] = <<"mask_all", "master">> /\ c[2] = <<"mask_all", "slave">>
      /\ c[3] = <<"icw", "master">> /\ c[4] = <<"icw", "slave">>
  BY <1>1 DEF i8259_init, Code
<1> HIDE DEF c
<1>3. \A i \in 1..4 : c[i][1] \in Resets /\ c[i][2] \in Pics
  <2> TAKE i \in 1..4
  <2>1. i = 1 \/ i = 2 \/ i = 3 \/ i = 4
    OBVIOUS
  <2>. QED
    BY <1>2, <2>1 DEF Resets, Pics
<1>4. \A i \in DOMAIN c : Fits(c[i], 2)
  BY <1>2, <1>3 DEF Fits, CodeOps, Resets, Syncs
<1>5. Ordered(c)
  <2>1. \A i \in 1..4 : i + 1 <= 4 => i + 1 \in 1..4
    OBVIOUS
  <2>. QED
    BY <1>2, <1>3, <2>1 DEF Ordered, Resets, Outs
<1>6. Opens(c)
  BY <1>3 DEF Opens, Resets
<1>7. Avoids(c, {"cli", "restore"}) /\ Avoids(c, {"sti"}) /\ Avoids(c, Syncs)
  BY <1>2, <1>3 DEF Avoids, Resets, Syncs
<1>. QED
  BY <1>2, <1>4, <1>5, <1>6, <1>7, LevelBlock DEF c

\* A reset is followed by a write of the mask if a later block has both
LEMMA ConcatMasked ==
  ASSUME NEW a \in Code, NEW b \in Code, Avoids(b, Resets),
         \A i \in DOMAIN a : a[i][1] \in Resets => a[i][2] \in Pics,
         \/ Masked(a)
         \/ /\ Contains(b, <<"unmask", "slave", 0>>)
            /\ Contains(b, <<"unmask", "master", IR_SLAVE>>)
  PROVE  Masked(a \o b)
<1> DEFINE n == Len(a)
           m == Len(b)
           u == a \o b
<1>1. /\ n \in Nat /\ m \in Nat /\ DOMAIN a = 1..n /\ DOMAIN b = 1..m /\ DOMAIN u = 1..n + m
      /\ \A j \in 1..n : u[j] = a[j]
      /\ \A j \in 1..m : u[n + j] = b[j]
  BY ConcatCode
<1> SUFFICES ASSUME NEW i \in DOMAIN u, u[i][1] \in Resets
             PROVE  \E j \in DOMAIN u : i < j /\ u[j][1] \in Syncs /\ u[j][2] = u[i][2]
  BY DEF Masked
<1>2. i \in DOMAIN a /\ u[i] = a[i]
  BY ConcatIndex DEF Avoids
<1> HIDE DEF n, m, u
<1>3. CASE Masked(a)
  <2>1. PICK j \in DOMAIN a : i < j /\ a[j][1] \in Syncs /\ a[j][2] = a[i][2]
    BY <1>2, <1>3 DEF Masked
  <2>2. j \in 1..n + m /\ u[j] = a[j]
    BY <1>1
  <2>. QED
    BY <1>1, <1>2, <2>1, <2>2
<1>4. ASSUME NEW k \in 1..m, b[k][1] \in Syncs, b[k][2] = a[i][2]
      PROVE  \E j \in DOMAIN u : i < j /\ u[j][1] \in Syncs /\ u[j][2] = u[i][2]
  <2>1. n + k \in 1..n + m /\ i < n + k /\ u[n + k] = b[k]
    BY <1>1, <1>2
  <2>. QED
    BY <1>1, <1>2, <1>4, <2>1
<1>5. CASE /\ Contains(b, <<"unmask", "slave", 0>>)
           /\ Contains(b, <<"unmask", "master", IR_SLAVE>>)
  <2>1. PICK k \in 1..m, l \in 1..m :
          b[k] = <<"unmask", "slave", 0>> /\ b[l] = <<"unmask", "master", IR_SLAVE>>
    BY <1>1, <1>5 DEF Contains
  <2>2. /\ b[k][1] \in Syncs /\ b[k][2] = "slave"
        /\ b[l][1] \in Syncs /\ b[l][2] = "master"
    BY <2>1 DEF Syncs
  <2>3. a[i][2] = "slave" \/ a[i][2] = "master"
    BY <1>2 DEF Pics
  <2>. QED
    BY <1>4, <2>2, <2>3
<1>. QED
  BY <1>3, <1>5

LEMMA BootBlock ==
  LET c == boot
  IN  /\ Block(c, 2, 0, 0, 0) /\ Disciplined(c, 2)
      /\ Contains(c, <<"out_low", Rate(2)>>) /\ Contains(c, <<"out_pie">>)
      /\ Contains(c, <<"unmask", "slave", 0>>)
      /\ Contains(c, <<"unmask", "master", IR_SLAVE>>)
<1> DEFINE s1 == i8259_init
           s2 == rtc_init
           s3 == enable_irq(IRQ_KEYBOARD)
           s4 == enable_irq(IRQ_RTC)
           s5 == << <<"sti">> >>
           Kept(c) == /\ Block(c, 2, 0, 0, 0) /\ Masked(c)
                      /\ Contains(c, <<"out_low", Rate(2)>>) /\ Contains(c, <<"out_pie">>)
                      /\ Contains(c, <<"unmask", "slave", 0>>)
                      /\ Contains(c, <<"unmask", "master", IR_SLAVE>>)
<1>1. Block(s1, 2, 0, 0, 0) /\ Avoids(s1, {"sti"})
  BY InitPicsBlock
<1>2. /\ Block(s2, 2, 0, 0, 0) /\ Avoids(s2, Resets) /\ Avoids(s2, {"sti"})
      /\ Contains(s2, <<"out_low", Rate(2)>>) /\ Contains(s2, <<"out_pie">>)
      /\ Contains(s2, <<"unmask", "slave", 0>>)
      /\ Contains(s2, <<"unmask", "master", IR_SLAVE>>)
  BY RtcInitBlock
<1>3. /\ Block(s3, 2, 0, 0, 0) /\ Avoids(s3, Resets) /\ Avoids(s3, {"sti"})
      /\ Block(s4, 2, 0, 0, 0) /\ Avoids(s4, Resets) /\ Avoids(s4, {"sti"})
  <2>1. IRQ_KEYBOARD \in Nat /\ IRQ_KEYBOARD \in Known /\ IRQ_RTC \in Nat /\ IRQ_RTC \in Known
    BY DEF IRQ_KEYBOARD, IRQ_RTC, Known
  <2>. QED
    BY <2>1, EnableBlock
<1>4. Block(s5, 2, 0, 0, 0) /\ Avoids(s5, Resets)
  <2>1. 0 = Saves(<<"sti">>, 0)
    BY DEF Saves
  <2>. QED
    BY <2>1, SingleBlock
<1>5. boot = (((s1 \o s2) \o s3) \o s4) \o s5
  BY DEF boot
<1>6. \A c : Block(c, 2, 0, 0, 0) =>
              c \in Code /\ \A i \in DOMAIN c : c[i][1] \in Resets => c[i][2] \in Pics
  BY DEF Block, Fits
<1> HIDE DEF s1, s2, s3, s4, s5
<1>7. Kept(s1 \o s2) /\ Avoids(s1 \o s2, {"sti"})
  BY <1>1, <1>2, <1>6, ConcatBlock, ConcatAvoids, ConcatContains, ConcatMasked
<1>8. ASSUME NEW a, NEW b, Kept(a), Avoids(a, {"sti"}), Block(b, 2, 0, 0, 0), Avoids(b, Resets)
      PROVE  Kept(a \o b) /\ (Avoids(b, {"sti"}) => Avoids(a \o b, {"sti"}))
  <2>1. a \in Code /\ b \in Code
    BY <1>6, <1>8
  <2>2. Block(a \o b, 2, 0, 0, 0)
    BY <1>8, ConcatBlock
  <2>3. Masked(a \o b)
    BY <1>6, <1>8, <2>1, ConcatMasked
  <2>4. Avoids(b, {"sti"}) => Avoids(a \o b, {"sti"})
    BY <1>8, <2>1, ConcatAvoids
  <2>. QED
    BY <1>8, <2>1, <2>2, <2>3, <2>4, ConcatContains
<1> HIDE DEF Kept
<1>9. Kept((s1 \o s2) \o s3) /\ Avoids((s1 \o s2) \o s3, {"sti"})
  BY <1>3, <1>7, <1>8
<1>10. Kept(((s1 \o s2) \o s3) \o s4) /\ Avoids(((s1 \o s2) \o s3) \o s4, {"sti"})
  BY <1>3, <1>8, <1>9
<1>11. Kept(boot)
  BY <1>4, <1>5, <1>8, <1>10
<1>. QED
  BY <1>11 DEF Kept, Block, Disciplined

----------------------------------------------------------------------------
(* The handlers *)

HandlerOps == {"set_flag", "select", "read", "eoi", "read_key", "iret", "blue_screen"}

\* The iret comes last
Served(h) ==
  /\ h \in Code
  /\ \A i \in DOMAIN h : /\ h[i][1] \in HandlerOps
                         /\ h[i][1] = "iret" => i = Len(h)
                         /\ h[i][1] = "select" => h[i][2] \in {"A", "B", "C"}

LEMMA ConcatServed ==
  ASSUME NEW a, NEW b, Served(a), Served(b), Avoids(a, {"iret"})
  PROVE  Served(a \o b)
<1>1. a \in Code /\ b \in Code /\ a \o b \in Code
  BY ConcatCode DEF Served
<1>2. ASSUME NEW i \in DOMAIN (a \o b)
      PROVE  /\ (a \o b)[i][1] \in HandlerOps
             /\ (a \o b)[i][1] = "iret" => i = Len(a \o b)
             /\ (a \o b)[i][1] = "select" => (a \o b)[i][2] \in {"A", "B", "C"}
  <2>1. CASE i \in DOMAIN a /\ (a \o b)[i] = a[i]
    BY <2>1 DEF Served, Avoids
  <2>2. CASE i - Len(a) \in DOMAIN b /\ (a \o b)[i] = b[i - Len(a)]
    <3> DEFINE k == i - Len(a)
    <3>1. /\ b[k][1] \in HandlerOps
          /\ b[k][1] = "iret" => k = Len(b)
          /\ b[k][1] = "select" => b[k][2] \in {"A", "B", "C"}
      BY <2>2 DEF Served
    <3>2. Len(a) \in Nat /\ Len(b) \in Nat /\ Len(a \o b) = Len(a) + Len(b) /\ i \in Int
      BY <1>1, ConcatCode
    <3>3. k = Len(b) => i = Len(a \o b)
      BY <3>2
    <3> HIDE DEF k
    <3>. QED
      BY <2>2, <3>1, <3>3 DEF k
  <2>. QED
    BY <1>1, <2>1, <2>2, ConcatIndex
<1>. QED
  BY <1>1, <1>2 DEF Served

LEMMA SingleServed ==
  ASSUME NEW x \in Instruction, x[1] \in HandlerOps \ {"select"}
  PROVE  /\ Served(<<x>>) /\ Contains(<<x>>, x)
         /\ x[1] # "iret" => Avoids(<<x>>, {"iret"})
<1> DEFINE h == <<x>>
<1>1. h \in Code /\ Len(h) = 1 /\ DOMAIN h = 1..1 /\ h[1] = x
  BY DEF Code
<1> HIDE DEF h
<1>2. Served(h) /\ Contains(h, x) /\ (x[1] # "iret" => Avoids(h, {"iret"}))
  BY <1>1 DEF Served, Contains, Avoids
<1>. QED
  BY <1>2 DEF h

LEMMA HandlerInstructions ==
  /\ \A op \in HandlerOps : <<op>> \in Instruction
  /\ \A l \in 0..NUM_IRQ : <<"eoi", l>> \in Instruction
  /\ <<"select", "C">> \in Instruction
<1>1. HandlerOps \subseteq Ops /\ "eoi" \in Ops /\ "select" \in Ops
  BY DEF HandlerOps, Ops
<1>2. 0..NUM_IRQ \subseteq Values /\ "C" \in Values
  BY DEF Values
<1>. QED
  BY <1>1, <1>2, Instructions

LEMMA EoiServed ==
  ASSUME NEW irq \in 0..NUM_IRQ
  PROVE  LET h == send_eoi(irq)
         IN  /\ Served(h) /\ Avoids(h, {"iret"})
             /\ Contains(h, <<"eoi", irq>>) /\ Contains(h, <<"eoi", Level(irq)>>)
<1> DEFINE x == <<"eoi", irq>>
           y == <<"eoi", IR_SLAVE>>
<1>1. x \in Instruction /\ y \in Instruction /\ irq \in 0..15
  BY HandlerInstructions DEF NUM_IRQ, IR_SLAVE
<1>2. x[1] = "eoi" /\ y[1] = "eoi" /\ "eoi" \in HandlerOps \ {"select"} /\ "eoi" # "iret"
  BY DEF HandlerOps
<1>3. /\ Served(<<x>>) /\ Contains(<<x>>, x) /\ Avoids(<<x>>, {"iret"})
      /\ Served(<<y>>) /\ Contains(<<y>>, y) /\ Avoids(<<y>>, {"iret"})
  BY <1>1, <1>2, SingleServed
<1>4. CASE irq > 7
  <2>1. send_eoi(irq) = <<x, y>> /\ Level(irq) = IR_SLAVE
    BY <1>1, <1>4 DEF send_eoi, NUM_IRQ, Level
  <2>2. <<x, y>> = <<x>> \o <<y>>
    BY <1>1, PairCode
  <2>3. <<x>> \in Code /\ <<y>> \in Code
    BY <1>3 DEF Served
  <2> DEFINE a == <<x>>
             b == <<y>>
  <2> HIDE DEF a, b
  <2>4. /\ Served(a \o b) /\ Avoids(a \o b, {"iret"})
        /\ Contains(a \o b, x) /\ Contains(a \o b, y)
    BY <1>3, <2>3, ConcatServed, ConcatAvoids, ConcatContains DEF a, b
  <2>. QED
    BY <2>1, <2>2, <2>4 DEF a, b
<1>5. CASE ~(irq > 7)
  <2>1. send_eoi(irq) = <<x>> /\ Level(irq) = irq
    BY <1>1, <1>5 DEF send_eoi, NUM_IRQ, Level
  <2>. QED
    BY <1>3, <2>1
<1>. QED
  BY <1>4, <1>5

LEMMA KeyHandlerServed ==
  LET h == key_handler
  IN  Served(h) /\ Contains(h, <<"eoi", IRQ_KEYBOARD>>)
<1> DEFINE a == << <<"read_key">> >>
           b == send_eoi(IRQ_KEYBOARD)
           c == << <<"iret">> >>
<1>1. Served(a) /\ Avoids(a, {"iret"}) /\ Served(c)
  <2>1. /\ <<"read_key">> \in Instruction /\ <<"read_key">>[1] \in HandlerOps \ {"select"}
        /\ <<"iret">> \in Instruction /\ <<"iret">>[1] \in HandlerOps \ {"select"}
        /\ <<"read_key">>[1] # "iret"
    BY HandlerInstructions DEF HandlerOps
  <2>. QED
    BY <2>1, SingleServed
<1>2. Served(b) /\ Avoids(b, {"iret"}) /\ Contains(b, <<"eoi", IRQ_KEYBOARD>>)
  <2>1. IRQ_KEYBOARD \in 0..NUM_IRQ
    BY DEF IRQ_KEYBOARD, NUM_IRQ
  <2>. QED
    BY <2>1, EoiServed
<1>3. key_handler = (a \o b) \o c
  BY DEF key_handler
<1> HIDE DEF a, b, c
<1>4. a \in Code /\ b \in Code /\ c \in Code
  BY <1>1, <1>2 DEF Served
<1> DEFINE e == a \o b
<1>5. /\ Served(e) /\ Avoids(e, {"iret"}) /\ Contains(e, <<"eoi", IRQ_KEYBOARD>>)
      /\ e \in Code
  BY <1>1, <1>2, <1>4, ConcatServed, ConcatAvoids, ConcatContains, ConcatCode
<1>6. key_handler = e \o c
  BY <1>3
<1> HIDE DEF e
<1>. QED
  BY <1>1, <1>4, <1>5, <1>6, ConcatServed, ConcatContains

LEMMA RtcHandlerServed ==
  LET h == rtc_handler
  IN  Served(h) /\ Contains(h, <<"eoi", IRQ_RTC>>) /\ Contains(h, <<"eoi", Level(IRQ_RTC)>>)
<1> DEFINE a == << <<"set_flag">>, <<"select", "C">>, <<"read">> >>
           b == send_eoi(IRQ_RTC)
           c == << <<"iret">> >>
           Sound(h) == Served(h) /\ Avoids(h, {"iret"}) /\ h \in Code
           Ends(h) == Contains(h, <<"eoi", IRQ_RTC>>) /\ Contains(h, <<"eoi", Level(IRQ_RTC)>>)
<1>1. Sound(a)
  <2>1. /\ <<"set_flag">> \in Instruction /\ <<"select", "C">> \in Instruction
        /\ <<"read">> \in Instruction
    BY HandlerInstructions DEF HandlerOps
  <2>2. /\ a \in Code /\ Len(a) = 3 /\ DOMAIN a = 1..3
        /\ a[1] = <<"set_flag">> /\ a[2] = <<"select", "C">> /\ a[3] = <<"read">>
    BY <2>1 DEF Code
  <2> HIDE DEF a
  <2>3. \A i \in 1..3 : i = 1 \/ i = 2 \/ i = 3
    OBVIOUS
  <2>. QED
    BY <2>2, <2>3 DEF Served, Avoids, HandlerOps
<1>2. Served(c) /\ c \in Code
  <2>1. <<"iret">> \in Instruction /\ <<"iret">>[1] \in HandlerOps \ {"select"}
    BY HandlerInstructions DEF HandlerOps
  <2>. QED
    BY <2>1, SingleServed DEF Served
<1>3. Sound(b) /\ Ends(b)
  <2>1. IRQ_RTC \in 0..NUM_IRQ
    BY DEF IRQ_RTC, NUM_IRQ
  <2>. QED
    BY <2>1, EoiServed DEF Served
<1>4. rtc_handler = ((a \o b) \o b) \o c
  BY DEF rtc_handler, rtc_interrupt_handler
<1> HIDE DEF a, b, c
<1>5. ASSUME NEW h, NEW g, Sound(h), Sound(g), Ends(g) PROVE Sound(h \o g) /\ Ends(h \o g)
  BY <1>5, ConcatServed, ConcatAvoids, ConcatContains, ConcatCode
<1>6. Sound(a \o b)
  BY <1>1, <1>3, <1>5
<1> DEFINE e == (a \o b) \o b
<1>7. Sound(e) /\ Ends(e)
  BY <1>3, <1>5, <1>6
<1>8. rtc_handler = e \o c
  BY <1>4
<1> HIDE DEF e
<1>. QED
  BY <1>2, <1>7, <1>8, ConcatServed, ConcatContains

LEMMA ErrorServed == Served(generic_error) /\ \A l : ~Contains(generic_error, <<"eoi", l>>)
<1> DEFINE x == <<"blue_screen">>
<1>1. x \in Instruction /\ x[1] \in HandlerOps \ {"select"}
  BY HandlerInstructions DEF HandlerOps
<1>2. generic_error = <<x>> /\ DOMAIN generic_error = 1..1 /\ generic_error[1][1] = "blue_screen"
  BY DEF generic_error
<1>3. Served(generic_error)
  BY <1>1, <1>2, SingleServed
<1>4. ASSUME NEW l, Contains(generic_error, <<"eoi", l>>) PROVE FALSE
  <2>1. generic_error[1] = <<"eoi", l>>
    BY <1>2, <1>4 DEF Contains
  <2>2. generic_error[1][1] = "eoi"
    BY <2>1
  <2>. QED
    BY <1>2, <2>2
<1>. QED
  BY <1>3, <1>4

\* Every vector leads to a sound handler, and the two that are known signal
\* the end of what they serve
LEMMA IdtServed ==
  ASSUME NEW irq \in 0..NUM_IRQ
  PROVE  /\ Served(idt(irq)) /\ idt(irq) # <<>>
         /\ irq \in {IRQ_KEYBOARD, IRQ_RTC} =>
              /\ Contains(idt(irq), <<"eoi", irq>>) /\ Contains(idt(irq), <<"eoi", Level(irq)>>)
              /\ idt(irq) # generic_error
         /\ irq \notin {IRQ_KEYBOARD, IRQ_RTC} => idt(irq) = generic_error
<1>1. \A h, x : Contains(h, x) => h # <<>>
  BY EmptyCode DEF Contains
<1>2. CASE irq = IRQ_KEYBOARD
  <2>1. idt(irq) = key_handler
    BY <1>2 DEF idt, IRQ_KEYBOARD, IRQ_RTC
  <2>2. irq = 1 /\ ~(irq > 7)
    BY <1>2 DEF IRQ_KEYBOARD
  <2>3. Level(irq) = irq
    BY <2>2 DEF Level
  <2>. QED
    BY <1>1, <1>2, <2>1, <2>3, KeyHandlerServed, ErrorServed
<1>3. CASE irq = IRQ_RTC
  <2>1. idt(irq) = rtc_handler
    BY <1>3 DEF idt, IRQ_KEYBOARD, IRQ_RTC
  <2>. QED
    BY <1>1, <1>3, <2>1, RtcHandlerServed, ErrorServed
<1>4. CASE irq \notin {IRQ_KEYBOARD, IRQ_RTC}
  <2>1. idt(irq) = generic_error
    BY <1>4 DEF idt
  <2>2. generic_error # <<>>
    BY DEF generic_error
  <2>. QED
    BY <1>4, <2>1, <2>2, ErrorServed
<1>. QED
  BY <1>2, <1>3, <1>4


----------------------------------------------------------------------------
(* The inductive invariant *)

\* Interrupts are on, or will be when a handler returns or flags are restored
Exposed == IF_flag \/ handler # <<>> \/ \E j \in DOMAIN flags : flags[j] = TRUE

\* What is left to run restores the flags that are saved, and while an
\* interrupt could come back it accesses the clock only with flags saved
Nesting == \E D : /\ Balanced(code, D, 0)
                  /\ D[1] = Len(flags)
                  /\ Exposed => Guarded(code, D, 1)

\* Only the outermost caller can have had interrupts on
Flags ==
  /\ IF_flag \/ handler # <<>> => flags = <<>>
  /\ IF_flag => handler = <<>>
  /\ \A j \in DOMAIN flags : flags[j] = TRUE => j = Len(flags)

\* A value of a register that keeps the divider, or the mode bits
Good(r, byte) ==
  /\ r = "A" => byte.hi = 2
  /\ r = "B" => byte.lo = 2 /\ byte.hi \in {0, PIE}

\* The clock is ready for the access that comes next
Ready ==
  code # <<>> =>
    /\ code[1][1] = "in" => Len(code) > 1 /\ index = code[2][2]
    /\ code[1][1] \in Outs => index = Register(code[1][1]) /\ Good(index, temp)
    /\ code[1][1] = "select" /\ code[2][1] \in Outs => Good(code[1][2], temp)

\* What is not still to be written has been written
Registers ==
  /\ Good("A", regs["A"]) /\ Good("B", regs["B"])
  /\ Avoids(code, {"out_low"}) => regs["A"].lo = Rate(wanted)
  /\ Avoids(code, {"out_pie"}) => regs["B"].hi = PIE

Masks ==
  /\ Exposed => imr = mask /\ Avoids(code, Resets)
  /\ \A p \in Pics : \/ imr[p] = mask[p]
                     \/ \E j \in DOMAIN code : code[j][1] \in Syncs /\ code[j][2] = p

Lines ==
  /\ \A p \in Pics : \A n \in (0..7) \ mask[p] : Line(p, n) \in Known
  /\ irr \subseteq Devices \union {IRQ_RTC}

\* The handler has yet to end what is in service
Handling ==
  /\ Served(handler)
  /\ panic => handler # <<>>
  /\ panic \/ \A l \in isr : Contains(handler, <<"eoi", l>>)

IInv ==
  /\ TypeOK
  /\ Disciplined(code, wanted)
  /\ Nesting
  /\ Flags
  /\ Ready
  /\ Registers
  /\ Masks
  /\ Lines
  /\ Handling

\* The instructions of sound routines and handlers are instructions
LEMMA SoundOps ==
  /\ \A c, f : Disciplined(c, f) => \A i \in DOMAIN c : c[i][1] \in Ops
  /\ \A h : Served(h) => \A i \in DOMAIN h : h[i][1] \in Ops
<1>1. CodeOps \subseteq Ops /\ HandlerOps \subseteq Ops
  BY DEF CodeOps, HandlerOps, Ops
<1>. QED
  BY <1>1 DEF Disciplined, Fits, Served

LEMMA EmptyServed == Served(<<>>)
BY EmptyCode DEF Served

\* What starts a routine: it has its flags balanced, and opens with no access
LEMMA BlockStarts ==
  ASSUME NEW c, NEW f, NEW low, Block(c, f, 0, 0, low)
  PROVE  /\ \E D : Balanced(c, D, 0) /\ D[1] = 0 /\ Guarded(c, D, low)
         /\ c # <<>> => /\ c[1][1] \notin {"in", "out_low", "out_pie"}
                        /\ ~(c[1][1] = "select" /\ c[2][1] \in Outs)
BY DEF Block, Opens

LEMMA InitIInv ==
  ASSUME Init
  PROVE  IInv
<1>1. /\ mask = [p \in Pics |-> 0..7] /\ imr \in [Pics -> {{}, 0..7}]
      /\ irr = {} /\ isr = {} /\ raised = {} /\ index = "C"
      /\ regs = [A |-> [hi |-> 2, lo |-> 6], B |-> [hi |-> 0, lo |-> 2],
                 C |-> [hi |-> 0, lo |-> 0]]
      /\ intflag = FALSE /\ IF_flag = FALSE /\ flags = <<>>
      /\ temp = [hi |-> 0, lo |-> 0]
      /\ code = boot /\ handler = <<>> /\ wanted = 2 /\ panic = FALSE
  BY DEF Init
<1>2. /\ Block(code, 2, 0, 0, 0) /\ Disciplined(code, wanted)
      /\ Contains(code, <<"out_low", Rate(2)>>) /\ Contains(code, <<"out_pie">>)
      /\ Contains(code, <<"unmask", "slave", 0>>)
      /\ Contains(code, <<"unmask", "master", IR_SLAVE>>)
  BY <1>1, BootBlock
<1>3. flags \in Seq(BOOLEAN) /\ Len(flags) = 0 /\ DOMAIN flags = {} /\ DOMAIN handler = {}
  BY <1>1
<1>4. ~Exposed
  BY <1>1, <1>3 DEF Exposed
<1>5. /\ regs["A"] = [hi |-> 2, lo |-> 6] /\ regs["B"] = [hi |-> 0, lo |-> 2]
      /\ regs \in [{"A", "B", "C"} -> Byte]
  <2>1. \A h, l \in 0..15 : [hi |-> h, lo |-> l] \in Byte
    BY DEF Byte
  <2>2. /\ [hi |-> 2, lo |-> 6] \in Byte /\ [hi |-> 0, lo |-> 2] \in Byte
        /\ [hi |-> 0, lo |-> 0] \in Byte
    BY <2>1
  <2> DEFINE ra == [hi |-> 2, lo |-> 6]
             rb == [hi |-> 0, lo |-> 2]
             rc == [hi |-> 0, lo |-> 0]
  <2>3. regs = [A |-> ra, B |-> rb, C |-> rc] /\ ra \in Byte /\ rb \in Byte /\ rc \in Byte
    BY <1>1, <2>2
  <2> HIDE DEF ra, rb, rc
  <2>4. regs["A"] = ra /\ regs["B"] = rb /\ regs \in [{"A", "B", "C"} -> Byte]
    BY <2>3
  <2>. QED
    BY <2>4 DEF ra, rb
<1>6. TypeOK
  <2>1. /\ mask \in [Pics -> SUBSET (0..7)] /\ imr \in [Pics -> SUBSET (0..7)]
        /\ irr \subseteq 0..NUM_IRQ /\ isr \subseteq 0..NUM_IRQ
    BY <1>1
  <2>2. temp \in Byte
    BY <1>1 DEF Byte
  <2>3. /\ \A i \in DOMAIN handler : handler[i][1] \in Ops
        /\ \A i \in DOMAIN code : code[i][1] \in Ops
    BY <1>2, <1>3, SoundOps
  <2>4. raised \subseteq Devices /\ index \in {"A", "B", "C"} /\ wanted \in Freqs \union {2}
    BY <1>1
  <2>5. intflag \in BOOLEAN /\ IF_flag \in BOOLEAN /\ panic \in BOOLEAN
    BY <1>1
  <2>6. flags \in Seq(BOOLEAN) /\ Len(flags) <= 2
    BY <1>3
  <2>. QED
    BY <1>5, <2>1, <2>2, <2>3, <2>4, <2>5, <2>6 DEF TypeOK
<1>7. Nesting
  BY <1>2, <1>3, <1>4, BlockStarts DEF Nesting
<1>8. Flags
  BY <1>1, <1>3 DEF Flags
<1>9. Ready
  BY <1>2, BlockStarts DEF Ready, Outs
<1>10. Registers
  <2>1. Good("A", regs["A"]) /\ Good("B", regs["B"])
    BY <1>5 DEF Good
  <2>2. ~Avoids(code, {"out_low"}) /\ ~Avoids(code, {"out_pie"})
    <3>1. <<"out_low", Rate(2)>>[1] = "out_low" /\ <<"out_pie">>[1] = "out_pie"
      OBVIOUS
    <3>. QED
      BY <1>2, <3>1 DEF Avoids, Contains
  <2>. QED
    BY <2>1, <2>2 DEF Registers
<1>11. Masks
  <2>1. \A p \in Pics : \E j \in DOMAIN code : code[j][1] \in Syncs /\ code[j][2] = p
    <3>1. /\ <<"unmask", "slave", 0>>[1] = "unmask" /\ <<"unmask", "slave", 0>>[2] = "slave"
          /\ <<"unmask", "master", IR_SLAVE>>[1] = "unmask"
          /\ <<"unmask", "master", IR_SLAVE>>[2] = "master"
      OBVIOUS
    <3>. QED
      BY <1>2, <3>1 DEF Contains, Syncs, Pics
  <2>. QED
    BY <1>4, <2>1 DEF Masks
<1>12. Lines
  BY <1>1 DEF Lines
<1>13. Handling
  BY <1>1, EmptyServed DEF Handling
<1>. QED
  BY <1>2, <1>6, <1>7, <1>8, <1>9, <1>10, <1>11, <1>12, <1>13 DEF IInv


----------------------------------------------------------------------------
(* The devices *)

\* A bit that is set stays within its nibble
LEMMA WithBitType ==
  /\ \A n \in 0..15 : WithBit(n, PF) \in 0..15
  /\ \A n \in {0, PIE} : WithBit(n, PIE) = PIE
<1>1. ASSUME NEW n \in 0..15 PROVE WithBit(n, PF) \in 0..15
  <2>1. (n \div 4) % 2 # 1 => n + 4 \in 0..15
    <3>1. \/ n \in {0, 1, 2, 3} \/ n \in {4, 5, 6, 7}
          \/ n \in {8, 9, 10, 11} \/ n \in {12, 13, 14, 15}
      OBVIOUS
    <3>2. n \in {12, 13, 14, 15} => n \div 4 = 3
      OBVIOUS
    <3>3. 3 % 2 = 1
      OBVIOUS
    <3>. QED
      BY <3>1, <3>2, <3>3
  <2>. QED
    BY <2>1 DEF WithBit, PF
<1>2. ASSUME NEW n \in {0, PIE} PROVE WithBit(n, PIE) = PIE
  BY DEF WithBit, PIE
<1>. QED
  BY <1>1, <1>2

LEMMA TickIInv ==
  ASSUME IInv, Tick
  PROVE  IInv'
<1> DEFINE c == [regs["C"] EXCEPT !.hi = WithBit(@, PF)]
<1>1. UNCHANGED <<mask, imr, isr, raised, index, intflag, cpuVars, wanted, panic>>
  BY DEF Tick
<1>2. /\ UNCHANGED <<mask, imr, isr, raised, index, intflag>> /\ UNCHANGED <<wanted, panic>>
      /\ UNCHANGED <<IF_flag, flags, temp, code, handler>>
  BY <1>1 DEF cpuVars
<1>3. regs \in [{"A", "B", "C"} -> Byte]
  BY DEF IInv, TypeOK
<1>4. c \in Byte
  <2>1. regs["C"] \in Byte /\ regs["C"].hi \in 0..15
    BY <1>3 DEF Byte
  <2>2. WithBit(regs["C"].hi, PF) \in 0..15
    BY <2>1, WithBitType
  <2>. QED
    BY <2>1, <2>2 DEF Byte
<1>5. regs' = [regs EXCEPT !["C"] = c] /\ (irr' = irr \/ irr' = irr \union {IRQ_RTC})
  <2>1. [regs EXCEPT !["C"].hi = WithBit(@, PF)] = [regs EXCEPT !["C"] = c]
    BY <1>3
  <2>. QED
    BY <2>1 DEF Tick, SetRegs
<1> HIDE DEF c
<1>6. /\ regs' \in [{"A", "B", "C"} -> Byte]
      /\ regs'["A"] = regs["A"] /\ regs'["B"] = regs["B"]
  BY <1>3, <1>4, <1>5
<1>7. TypeOK'
  <2>1. irr' \subseteq 0..NUM_IRQ
    BY <1>5 DEF IInv, TypeOK, NUM_IRQ, IRQ_RTC
  <2>. QED
    BY <1>2, <1>6, <2>1 DEF IInv, TypeOK
<1>8. Exposed' <=> Exposed
  BY <1>2 DEF Exposed
<1>9. Disciplined(code, wanted)' /\ Nesting' /\ Flags'
  BY <1>2, <1>8 DEF IInv, Nesting, Flags
<1>10. Ready' /\ Registers'
  BY <1>2, <1>6 DEF IInv, Ready, Registers
<1>11. Masks' /\ Lines' /\ Handling'
  BY <1>2, <1>5, <1>8 DEF IInv, Masks, Lines, Handling
<1>. QED
  BY <1>7, <1>9, <1>10, <1>11 DEF IInv

LEMMA RaiseIInv ==
  ASSUME IInv, NEW d \in Devices, Raise(d)
  PROVE  IInv'
<1>1. raised' = raised \union {d} /\ irr' = irr \union {d}
  BY DEF Raise
<1>2. /\ UNCHANGED <<mask, imr, isr, index, regs, intflag>> /\ UNCHANGED <<wanted, panic>>
      /\ UNCHANGED <<IF_flag, flags, temp, code, handler>>
  BY DEF Raise, rtcVars, cpuVars
<1>3. TypeOK'
  <2>1. irr' \subseteq 0..NUM_IRQ /\ raised' \subseteq Devices
    BY <1>1, InterruptsAssumption DEF IInv, TypeOK
  <2>. QED
    BY <1>2, <2>1 DEF IInv, TypeOK
<1>4. Exposed' <=> Exposed
  BY <1>2 DEF Exposed
<1>5. Disciplined(code, wanted)' /\ Nesting' /\ Flags'
  BY <1>2, <1>4 DEF IInv, Nesting, Flags
<1>6. Ready' /\ Registers'
  BY <1>2 DEF IInv, Ready, Registers
<1>7. Masks' /\ Lines' /\ Handling'
  BY <1>1, <1>2, <1>4 DEF IInv, Masks, Lines, Handling
<1>. QED
  BY <1>3, <1>5, <1>6, <1>7 DEF IInv

\* While interrupts are on nothing is in service, and the routine that is
\* interrupted is not about to access the clock
LEMMA InterruptIInv ==
  ASSUME IInv, NEW irq \in 0..NUM_IRQ, Interrupt(irq)
  PROVE  IInv'
<1>1. /\ ~panic /\ IF_flag /\ IF_flag' = FALSE /\ handler' = idt(irq)
      /\ irr' = irr \ {irq} /\ isr' = isr \union {irq, Level(irq)}
  BY DEF Interrupt
<1>2. panic' = (idt(irq) = generic_error)
  BY DEF Interrupt
<1>3. /\ UNCHANGED <<mask, imr, raised, index, regs, intflag>>
      /\ UNCHANGED <<flags, temp, code, wanted>>
  BY DEF Interrupt, rtcVars
<1>4. handler = <<>> /\ flags = <<>> /\ isr = {}
  <2>1. handler = <<>> /\ flags = <<>>
    BY <1>1 DEF IInv, Flags
  <2>. QED
    BY <1>1, <2>1, EmptyCode DEF IInv, Handling, Contains
<1>5. /\ Served(handler') /\ handler' # <<>>
      /\ irq \in {IRQ_KEYBOARD, IRQ_RTC} =>
           /\ Contains(handler', <<"eoi", irq>>) /\ Contains(handler', <<"eoi", Level(irq)>>)
      /\ irq \notin {IRQ_KEYBOARD, IRQ_RTC} => panic'
  BY <1>1, <1>2, IdtServed
<1>6. panic' \in BOOLEAN
  BY <1>2
<1>7. TypeOK'
  <2>1. Level(irq) \in 0..NUM_IRQ
    BY DEF Level, NUM_IRQ, IR_SLAVE
  <2>2. irr' \subseteq 0..NUM_IRQ /\ isr' \subseteq 0..NUM_IRQ
    BY <1>1, <2>1 DEF IInv, TypeOK
  <2>3. IF_flag' \in BOOLEAN
    BY <1>1
  <2>4. \A i \in DOMAIN handler' : handler'[i][1] \in Ops
    BY <1>5, SoundOps
  <2>. QED
    BY <1>3, <1>6, <2>2, <2>3, <2>4 DEF IInv, TypeOK
<1>8. Exposed /\ Exposed'
  BY <1>1, <1>5 DEF Exposed
<1>9. Disciplined(code, wanted)' /\ Nesting'
  BY <1>3, <1>8 DEF IInv, Nesting
<1>10. Flags'
  BY <1>1, <1>3, <1>4 DEF IInv, Flags
<1>11. Ready' /\ Registers'
  BY <1>3 DEF IInv, Ready, Registers
<1>12. Masks' /\ Lines'
  BY <1>1, <1>3, <1>8 DEF IInv, Masks, Lines
<1>13. Handling'
  BY <1>1, <1>4, <1>5 DEF Handling
<1>. QED
  BY <1>7, <1>9, <1>10, <1>11, <1>12, <1>13 DEF IInv


----------------------------------------------------------------------------
(* Calls *)

\* Between routines no flags are saved, and masks and rate are up to date
LEMMA Idle ==
  ASSUME IInv, code = <<>>
  PROVE  flags = <<>> /\ imr = mask /\ regs["A"].lo = Rate(wanted) /\ regs["B"].hi = PIE
<1>1. DOMAIN code = {} /\ Len(code) = 0
  BY EmptyCode
<1>2. flags = <<>>
  <2>1. PICK D : Balanced(code, D, 0) /\ D[1] = Len(flags)
    BY DEF IInv, Nesting
  <2>2. D[1] = 0
    <3>1. D[Len(code) + 1] = 0 /\ Len(code) + 1 = 1
      BY <1>1, <2>1 DEF Balanced
    <3>. QED
      BY <3>1
  <2>3. flags \in Seq(BOOLEAN) /\ Len(flags) = 0
    BY <2>1, <2>2 DEF IInv, TypeOK
  <2>. QED
    BY <2>3
<1>3. imr = mask
  <2>1. \A p \in Pics : imr[p] = mask[p]
    BY <1>1 DEF IInv, Masks
  <2>2. imr \in [Pics -> SUBSET (0..7)] /\ mask \in [Pics -> SUBSET (0..7)]
    BY DEF IInv, TypeOK
  <2>. QED
    BY <2>1, <2>2
<1>4. \A ops : Avoids(code, ops)
  BY <1>1 DEF Avoids
<1>. QED
  BY <1>2, <1>3, <1>4 DEF IInv, Registers

LEMMA StartIInv ==
  ASSUME IInv, NEW r, NEW f \in Freqs \union {2}, Routine(r, f), Start(r, f),
         Contains(r, <<"out_low", Rate(f)>>) \/ f = wanted,
         IF_flag' = IF_flag \/ IF_flag' = FALSE
  PROVE  IInv'
<1>1. ~panic /\ handler = <<>> /\ code = <<>> /\ code' = r /\ wanted' = f
  <2>1. ~panic /\ Current = <<>> /\ code' = r /\ wanted' = f
    BY DEF Start
  <2>. QED
    BY <2>1 DEF Current
<1>2. /\ UNCHANGED <<mask, imr, irr, isr, raised>> /\ UNCHANGED <<index, regs, intflag>>
      /\ UNCHANGED <<flags, temp, handler, panic>>
  BY DEF Start, picVars, rtcVars
<1>3. flags = <<>> /\ imr = mask /\ regs["A"].lo = Rate(wanted) /\ regs["B"].hi = PIE
  BY <1>1, Idle
<1>4. /\ Block(r, f, 0, 0, 1) /\ Avoids(r, Resets) /\ Disciplined(r, f)
  BY RoutineDisciplined DEF Routine
<1>5. TypeOK'
  <2>1. IF_flag' \in BOOLEAN
    BY DEF IInv, TypeOK
  <2>2. \A i \in DOMAIN code' : code'[i][1] \in Ops
    BY <1>1, <1>4, SoundOps
  <2>. QED
    BY <1>1, <1>2, <2>1, <2>2 DEF IInv, TypeOK
<1>6. Nesting'
  <2>1. Len(flags') = 0
    BY <1>2, <1>3
  <2>. QED
    BY <1>1, <1>4, <2>1, BlockStarts DEF Nesting
<1>7. Flags'
  <2>1. DOMAIN flags' = {}
    BY <1>2, <1>3
  <2>. QED
    BY <1>1, <1>2, <1>3, <2>1 DEF Flags
<1>8. Ready'
  BY <1>1, <1>4, BlockStarts DEF Ready, Outs
<1>9. Registers'
  <2>1. <<"out_low", Rate(f)>>[1] = "out_low"
    OBVIOUS
  <2>2. Avoids(r, {"out_low"}) => f = wanted
    BY <2>1 DEF Avoids, Contains
  <2>. QED
    BY <1>1, <1>2, <1>3, <2>2 DEF IInv, Registers
<1>10. Masks' /\ Lines' /\ Handling'
  BY <1>1, <1>2, <1>3, <1>4 DEF IInv, Masks, Lines, Handling
<1>. QED
  BY <1>1, <1>4, <1>5, <1>6, <1>7, <1>8, <1>9, <1>10 DEF IInv

LEMMA CallIInv ==
  ASSUME IInv, SystemCall \/ KernelCall
  PROVE  IInv'
<1>1. wanted \in Freqs \union {2} /\ 2 \in Freqs \union {2}
  BY DEF IInv, TypeOK
<1>2. CASE SystemCall
  <2>1. Start(rtc_open \o << <<"sti">> >>, 2) /\ IF_flag' = FALSE
    BY <1>2 DEF SystemCall
  <2>. QED
    BY <1>1, <2>1, Routines, StartIInv
<1>3. CASE KernelCall
  <2>1. IF_flag' = IF_flag
    BY <1>3 DEF KernelCall
  <2>2. CASE Start(rtc_open, 2)
    BY <1>1, <2>1, <2>2, Routines, StartIInv
  <2>3. ASSUME NEW f \in Freqs, Start(rtc_write(f), f) PROVE IInv'
    BY <1>1, <2>1, <2>3, Routines, StartIInv
  <2>4. CASE Start(rtc_read, wanted)
    BY <1>1, <2>1, <2>4, Routines, StartIInv
  <2>5. ASSUME NEW irq \in Disabled,
               Start(disable_irq(irq), wanted) \/ Start(enable_irq(irq), wanted)
        PROVE  IInv'
    BY <1>1, <2>1, <2>5, Routines, StartIInv
  <2>. QED
    BY <1>3, <2>2, <2>3, <2>4, <2>5 DEF KernelCall
<1>. QED
  BY <1>2, <1>3

----------------------------------------------------------------------------
(* A handler's step *)

\* Reading a register clears register C at most
LEMMA ReadEffect ==
  ASSUME TypeOK,
         SetRegs(IF index = "C" THEN [regs EXCEPT !["C"] = [hi |-> 0, lo |-> 0]] ELSE regs)
  PROVE  /\ regs' \in [{"A", "B", "C"} -> Byte]
         /\ regs'["A"] = regs["A"] /\ regs'["B"] = regs["B"]
         /\ irr' = irr \/ irr' = irr \union {IRQ_RTC}
<1> DEFINE z == [hi |-> 0, lo |-> 0]
<1>1. z \in Byte
  BY DEF Byte
<1>2. regs' = IF index = "C" THEN [regs EXCEPT !["C"] = z] ELSE regs
  BY DEF SetRegs
<1>3. irr' = irr \/ irr' = irr \union {IRQ_RTC}
  BY DEF SetRegs
<1>4. regs \in [{"A", "B", "C"} -> Byte]
  BY DEF TypeOK
<1> HIDE DEF z
<1>. QED
  BY <1>1, <1>2, <1>3, <1>4

LEMMA HandlerEffect ==
  ASSUME TypeOK, Step, handler # <<>>, Served(handler)
  PROVE  /\ ~panic /\ handler' = Tail(handler)
         /\ UNCHANGED <<mask, imr, flags, temp, code, wanted, panic>>
         /\ regs' \in [{"A", "B", "C"} -> Byte]
         /\ regs'["A"] = regs["A"] /\ regs'["B"] = regs["B"]
         /\ irr' = irr \/ irr' = irr \union {IRQ_RTC}
         /\ isr' = IF handler[1][1] = "eoi" THEN isr \ {handler[1][2]} ELSE isr
         /\ raised' \subseteq Devices
         /\ index' \in {"A", "B", "C"}
         /\ intflag' \in BOOLEAN
         /\ IF handler[1][1] = "iret" THEN IF_flag' = TRUE ELSE IF_flag' = IF_flag
<1> DEFINE x == handler[1]
<1>1. x[1] \in HandlerOps /\ (x[1] = "select" => x[2] \in {"A", "B", "C"})
  <2>1. handler \in Code /\ 1 \in DOMAIN handler
    BY NonEmpty DEF Served
  <2>. QED
    BY <2>1 DEF Served
<1>2. Instr = x /\ \A op : Executes(op) => ~panic /\ x[1] = op
  BY NonEmpty DEF Served, Instr, Current, Executes
<1>3. Advance => handler' = Tail(handler) /\ code' = code
  BY DEF Advance
<1>4. /\ regs \in [{"A", "B", "C"} -> Byte] /\ raised \subseteq Devices
      /\ index \in {"A", "B", "C"} /\ intflag \in BOOLEAN
  BY DEF TypeOK
<1> HIDE DEF x
<1>5. CASE Pic
  <2>1. /\ Advance
        /\ UNCHANGED <<raised, index, regs, intflag>> /\ UNCHANGED <<IF_flag, flags, temp, wanted, panic>>
    BY <1>5 DEF Pic, rtcVars
  <2>2. /\ Executes("eoi") /\ isr' = isr \ {Instr[2]} /\ UNCHANGED <<mask, imr, irr>>
    BY <1>1, <1>2, <1>5 DEF Pic, HandlerOps
  <2>3. x[1] = "eoi" /\ ~panic
    BY <1>2, <2>2
  <2>. QED
    BY <1>2, <1>3, <1>4, <2>1, <2>2, <2>3 DEF x
<1>6. CASE Port
  <2>1. Advance /\ UNCHANGED <<mask, imr, isr, raised, intflag, IF_flag, flags, wanted, panic>>
    BY <1>6 DEF Port
  <2>2. ~WriteReg
    BY <1>1, <1>2 DEF WriteReg, HandlerOps
  <2>3. ~Executes("in")
    BY <1>1, <1>2 DEF HandlerOps
  <2>4. CASE Select
    <3>1. x[1] = "select" /\ ~panic /\ index' = x[2] /\ UNCHANGED <<regs, irr, temp>>
      BY <1>2, <2>4 DEF Select
    <3>. QED
      BY <1>1, <1>3, <1>4, <2>1, <3>1 DEF x
  <2>5. CASE ReadReg
    <3>1. Executes("read") /\ temp' = temp /\ index' = index
      BY <2>3, <2>5 DEF ReadReg
    <3>2. x[1] = "read" /\ ~panic
      BY <1>2, <3>1
    <3>3. SetRegs(IF index = "C" THEN [regs EXCEPT !["C"] = [hi |-> 0, lo |-> 0]] ELSE regs)
      BY <2>5 DEF ReadReg
    <3>4. /\ regs' \in [{"A", "B", "C"} -> Byte]
          /\ regs'["A"] = regs["A"] /\ regs'["B"] = regs["B"]
          /\ irr' = irr \/ irr' = irr \union {IRQ_RTC}
      BY <3>3, ReadEffect
    <3>. QED
      BY <1>3, <1>4, <2>1, <3>1, <3>2, <3>4 DEF x
  <2>. QED
    BY <1>6, <2>2, <2>4, <2>5 DEF Port
<1>7. CASE Flag
  <2>1. Advance /\ UNCHANGED <<mask, imr, irr, isr, raised, index, regs>>
        /\ UNCHANGED <<IF_flag, flags, temp, wanted, panic>>
    BY <1>7 DEF Flag, picVars
  <2>2. Executes("set_flag") /\ intflag' = TRUE
    BY <1>1, <1>2, <1>7 DEF Flag, HandlerOps
  <2>3. x[1] = "set_flag" /\ ~panic
    BY <1>2, <2>2
  <2>. QED
    BY <1>3, <1>4, <2>1, <2>2, <2>3 DEF x
<1>8. CASE IfFlag
  <2>1. Advance /\ UNCHANGED <<mask, imr, irr, isr, raised, index, regs, intflag>>
        /\ UNCHANGED <<temp, wanted, panic>>
    BY <1>8 DEF IfFlag, picVars, rtcVars
  <2>2. Executes("iret") /\ IF_flag' = TRUE /\ flags' = flags
    BY <1>1, <1>2, <1>8 DEF IfFlag, HandlerOps
  <2>3. x[1] = "iret" /\ ~panic
    BY <1>2, <2>2
  <2>. QED
    BY <1>3, <1>4, <2>1, <2>2, <2>3 DEF x
<1>9. CASE ReadKey
  <2>1. Advance /\ UNCHANGED <<mask, imr, irr, isr, index, regs, intflag>>
        /\ UNCHANGED <<IF_flag, flags, temp, wanted, panic>>
        /\ Executes("read_key") /\ raised' = raised \ {IRQ_KEYBOARD}
    BY <1>9 DEF ReadKey, picVars, rtcVars
  <2>2. x[1] = "read_key" /\ ~panic
    BY <1>2, <2>1
  <2>. QED
    BY <1>3, <1>4, <2>1, <2>2 DEF x
<1>. QED
  BY <1>5, <1>6, <1>7, <1>8, <1>9 DEF Step

LEMMA TailServed ==
  ASSUME NEW h, Served(h), h # <<>>
  PROVE  /\ Served(Tail(h))
         /\ h[1][1] = "iret" => Tail(h) = <<>>
         /\ \A y : Contains(h, y) /\ h[1] # y => Contains(Tail(h), y)
<1> DEFINE n == Len(h)
           t == Tail(h)
<1>1. h \in Code /\ n \in Nat /\ n >= 1 /\ DOMAIN h = 1..n
  BY NonEmpty DEF Served
<1>2. t \in Code /\ Len(t) = n - 1 /\ DOMAIN t = 1..n - 1 /\ \A i \in 1..n - 1 : t[i] = h[i + 1]
  BY <1>1, TailCode
<1>3. \A i \in 1..n : /\ h[i][1] \in HandlerOps
                      /\ h[i][1] = "iret" => i = n
                      /\ h[i][1] = "select" => h[i][2] \in {"A", "B", "C"}
  BY <1>1 DEF Served
<1>4. t = <<>> <=> ~(Len(t) >= 1)
  BY <1>2, EmptyLength
<1> HIDE DEF n, t
<1>5. ASSUME NEW i \in 1..n - 1
      PROVE  /\ t[i][1] \in HandlerOps
             /\ t[i][1] = "iret" => i = Len(t)
             /\ t[i][1] = "select" => t[i][2] \in {"A", "B", "C"}
  <2>1. i + 1 \in 1..n /\ t[i] = h[i + 1]
    BY <1>1, <1>2
  <2>2. i + 1 = n => i = Len(t)
    BY <1>1, <1>2
  <2>. QED
    BY <1>3, <2>1, <2>2
<1>6. Served(t)
  BY <1>2, <1>5 DEF Served
<1>7. ASSUME h[1][1] = "iret" PROVE t = <<>>
  <2>1. 1 = n
    BY <1>1, <1>3, <1>7
  <2>. QED
    BY <1>2, <1>4, <2>1
<1>8. ASSUME NEW y, Contains(h, y), h[1] # y PROVE Contains(t, y)
  <2>1. PICK i \in 1..n : h[i] = y
    BY <1>1, <1>8 DEF Contains
  <2>2. i # 1
    BY <1>8, <2>1
  <2>3. i - 1 \in 1..n - 1 /\ (i - 1) + 1 = i
    BY <1>1, <2>2
  <2>4. t[i - 1] = y
    BY <1>2, <2>1, <2>3
  <2>. QED
    BY <1>2, <2>3, <2>4 DEF Contains
<1>. QED
  BY <1>6, <1>7, <1>8 DEF t

\* The routine that was interrupted is not at an access, so it does not matter
\* which register the handler selects
LEMMA HandlerStep ==
  ASSUME IInv, Step, handler # <<>>
  PROVE  IInv'
<1> DEFINE x == handler[1]
<1>1. TypeOK /\ Served(handler) /\ handler \in Code
  BY DEF IInv, Handling, Served
<1>2. /\ ~panic /\ handler' = Tail(handler)
      /\ UNCHANGED <<mask, imr, flags, temp, code, wanted, panic>>
      /\ regs' \in [{"A", "B", "C"} -> Byte]
      /\ regs'["A"] = regs["A"] /\ regs'["B"] = regs["B"]
      /\ irr' = irr \/ irr' = irr \union {IRQ_RTC}
      /\ isr' = IF x[1] = "eoi" THEN isr \ {x[2]} ELSE isr
      /\ raised' \subseteq Devices
      /\ index' \in {"A", "B", "C"}
      /\ intflag' \in BOOLEAN
      /\ IF x[1] = "iret" THEN IF_flag' = TRUE ELSE IF_flag' = IF_flag
  BY <1>1, HandlerEffect
<1>3. /\ Served(handler')
      /\ x[1] = "iret" => handler' = <<>>
      /\ \A y : Contains(handler, y) /\ x # y => Contains(handler', y)
  BY <1>1, <1>2, TailServed
<1>4. flags = <<>> /\ IF_flag = FALSE /\ Exposed
  <2>1. flags = <<>> /\ ~IF_flag
    BY DEF IInv, Flags
  <2>2. IF_flag \in BOOLEAN
    BY <1>1 DEF TypeOK
  <2>3. Exposed
    BY DEF Exposed
  <2>. QED
    BY <2>1, <2>2, <2>3
<1> HIDE DEF x
<1>5. TypeOK'
  <2>1. irr' \subseteq 0..NUM_IRQ /\ isr' \subseteq 0..NUM_IRQ
    <3>1. irr \subseteq 0..NUM_IRQ /\ isr \subseteq 0..NUM_IRQ
      BY <1>1 DEF TypeOK
    <3>2. IRQ_RTC \in 0..NUM_IRQ
      BY DEF NUM_IRQ, IRQ_RTC
    <3>. QED
      BY <1>2, <3>1, <3>2
  <2>2. IF_flag' \in BOOLEAN
    BY <1>2, <1>4
  <2>3. \A i \in DOMAIN handler' : handler'[i][1] \in Ops
    BY <1>3, SoundOps
  <2>. QED
    BY <1>1, <1>2, <2>1, <2>2, <2>3 DEF TypeOK
<1>6. PICK D : Balanced(code, D, 0) /\ D[1] = Len(flags) /\ Guarded(code, D, 1)
  BY <1>4 DEF IInv, Nesting
<1>7. Disciplined(code, wanted)' /\ Nesting'
  BY <1>2, <1>6 DEF IInv, Nesting
<1>8. Flags'
  <2>1. IF_flag' => handler' = <<>>
    BY <1>2, <1>3, <1>4
  <2>2. flags' = <<>> /\ DOMAIN flags' = {}
    BY <1>2, <1>4
  <2>. QED
    BY <2>1, <2>2 DEF Flags
<1>9. Ready'
  <2> SUFFICES ASSUME code # <<>> PROVE code[1][1] \notin Access
    BY <1>2 DEF Ready, Access, Outs
  <2>1. 1 \in DOMAIN code
    BY NonEmpty DEF IInv, Disciplined
  <2>2. D[1] = 0
    BY <1>4, <1>6
  <2>. QED
    BY <1>6, <2>1, <2>2 DEF Guarded
<1>10. Registers'
  BY <1>2 DEF IInv, Registers
<1>11. Masks'
  BY <1>2, <1>4 DEF IInv, Masks
<1>12. Lines'
  BY <1>2 DEF IInv, Lines
<1>13. Handling'
  <2>1. ASSUME NEW l \in isr' PROVE Contains(handler', <<"eoi", l>>)
    <3>1. l \in isr /\ x # <<"eoi", l>>
      BY <1>2, <2>1
    <3>. QED
      BY <1>2, <1>3, <3>1 DEF IInv, Handling
  <2>. QED
    BY <1>2, <1>3, <2>1 DEF Handling
<1>. QED
  BY <1>5, <1>7, <1>8, <1>9, <1>10, <1>11, <1>12, <1>13 DEF IInv


----------------------------------------------------------------------------
(* A routine's step *)

\* The state in which a routine runs, and its next instruction
Running(x) ==
  /\ IInv /\ Step /\ handler = <<>>
  /\ code # <<>> /\ x = code[1] /\ Fits(x, wanted)

LEMMA RunningStarts ==
  ASSUME IInv, Step, handler = <<>>
  PROVE  Running(code[1])
<1>1. \A op : Executes(op) => code # <<>>
  BY DEF Executes, Current
<1>2. code # <<>>
  BY <1>1 DEF Step, Pic, Port, Select, ReadReg, WriteReg, Flag, IfFlag, ReadKey
<1>3. 1 \in DOMAIN code
  BY <1>2, NonEmpty DEF IInv, Disciplined
<1>. QED
  BY <1>2, <1>3 DEF Running, IInv, Disciplined

LEMMA RunningControl ==
  ASSUME NEW x, Running(x)
  PROVE  /\ ~panic /\ panic' = panic /\ code' = Tail(code) /\ handler' = <<>>
         /\ wanted' = wanted
         /\ Instr = x /\ \A op : Executes(op) => x[1] = op
<1>1. Instr = x /\ \A op : Executes(op) => ~panic /\ x[1] = op
  BY NonEmpty DEF Running, IInv, Disciplined, Instr, Current, Executes
<1>2. Advance => code' = Tail(code) /\ handler' = <<>>
  BY DEF Running, Advance
<1>3. ~panic
  BY <1>1 DEF Running, Step, Pic, Port, Select, ReadReg, WriteReg, Flag, IfFlag, ReadKey
<1>4. Advance /\ panic' = panic /\ wanted' = wanted
  BY DEF Running, Step, Pic, Port, Flag, IfFlag, ReadKey
<1>. QED
  BY <1>1, <1>2, <1>3, <1>4

\* Which variables an instruction leaves alone
LEMMA RunningFrame ==
  ASSUME NEW x, Running(x)
  PROVE  /\ raised' = raised
         /\ x[1] \notin Resets \union Syncs => UNCHANGED <<mask, imr>>
         /\ x[1] # "select" => index' = index
         /\ x[1] # "in" => temp' = temp
         /\ x[1] \notin {"cli", "restore", "sti"} => UNCHANGED <<IF_flag, flags>>
         /\ isr' \subseteq isr
         /\ intflag' \in BOOLEAN
<1>1. \A op : Executes(op) => x[1] = op
  BY RunningControl
<1>2. x[1] \in CodeOps
  BY DEF Running, Fits
<1>3. intflag \in BOOLEAN
  BY DEF Running, IInv, TypeOK
<1>4. CASE Pic
  <2>1. /\ UNCHANGED <<raised, index, regs, intflag>> /\ UNCHANGED <<IF_flag, flags, temp>>
    BY <1>4 DEF Pic, rtcVars
  <2>2. x[1] \in Resets \union Syncs \/ UNCHANGED <<mask, imr>>
    BY <1>1, <1>4 DEF Pic, Resets, Syncs
  <2>3. isr' \subseteq isr
    BY <1>4 DEF Pic
  <2>. QED
    BY <1>3, <2>1, <2>2, <2>3
<1>5. CASE Port
  <2>1. UNCHANGED <<mask, imr, isr, raised, intflag, IF_flag, flags>>
    BY <1>5 DEF Port
  <2>2. x[1] = "select" \/ index' = index
    BY <1>1, <1>5 DEF Port, Select, ReadReg, WriteReg
  <2>3. x[1] = "in" \/ temp' = temp
    BY <1>1, <1>5 DEF Port, Select, ReadReg, WriteReg
  <2>. QED
    BY <1>3, <2>1, <2>2, <2>3
<1>6. CASE Flag
  <2>1. UNCHANGED <<mask, imr, irr, isr, raised, index, IF_flag, flags, temp>>
    BY <1>6 DEF Flag, picVars
  <2>2. intflag' = TRUE \/ intflag' = FALSE \/ intflag' = intflag
    BY <1>6 DEF Flag
  <2>. QED
    BY <1>3, <2>1, <2>2
<1>7. CASE IfFlag
  <2>1. UNCHANGED <<mask, imr, irr, isr, raised, index, intflag, temp>>
    BY <1>7 DEF IfFlag, picVars, rtcVars
  <2>2. x[1] \in {"cli", "restore", "sti"}
    BY <1>1, <1>2, <1>7 DEF IfFlag, CodeOps
  <2>. QED
    BY <1>3, <2>1, <2>2
<1>8. CASE ReadKey
  BY <1>1, <1>2, <1>8 DEF ReadKey, CodeOps
<1>. QED
  BY <1>4, <1>5, <1>6, <1>7, <1>8 DEF Running, Step

\* What each instruction does
LEMMA RunningMasks ==
  ASSUME NEW x, Running(x), x[1] \in Resets \union Syncs
  PROVE  \E s \in SUBSET (0..7) :
           /\ imr' = [imr EXCEPT ![x[2]] = s]
           /\ x[1] \in Resets => mask' = mask
           /\ x[1] \in Syncs => mask' = [mask EXCEPT ![x[2]] = s]
           /\ x[1] = "mask" => mask[x[2]] \subseteq s
           /\ x[1] = "unmask" => s = mask[x[2]] \ {x[3]}
<1>1. Instr = x /\ \A op : Executes(op) => x[1] = op
  BY RunningControl
<1>2. /\ x[1] \in {"mask_all", "icw", "mask", "unmask"}
      /\ x[2] \in Pics
      /\ x[1] \in {"mask", "unmask"} => x[3] \in 0..7
  BY DEF Running, Fits, Resets, Syncs
<1>3. mask[x[2]] \in SUBSET (0..7)
  BY <1>2 DEF Running, IInv, TypeOK
<1>4. Pic
  BY <1>1, <1>2 DEF Running, Step, Port, Select, ReadReg, WriteReg, Flag, IfFlag, ReadKey
<1>5. CASE x[1] = "mask_all"
  <2>1. imr' = [imr EXCEPT ![x[2]] = 0..7] /\ mask' = mask
    BY <1>1, <1>4, <1>5 DEF Pic
  <2>. QED
    BY <1>5, <2>1 DEF Syncs
<1>6. CASE x[1] = "icw"
  <2>1. imr' = [imr EXCEPT ![x[2]] = {}] /\ mask' = mask
    BY <1>1, <1>4, <1>6 DEF Pic
  <2>. QED
    BY <1>6, <2>1 DEF Syncs
<1>7. CASE x[1] = "mask"
  <2> DEFINE s == mask[x[2]] \union {x[3]}
  <2>1. imr' = [imr EXCEPT ![x[2]] = s] /\ mask' = [mask EXCEPT ![x[2]] = s]
    BY <1>1, <1>4, <1>7 DEF Pic, SetMask
  <2>2. s \in SUBSET (0..7) /\ mask[x[2]] \subseteq s
    BY <1>2, <1>3, <1>7
  <2> HIDE DEF s
  <2>. QED
    BY <1>7, <2>1, <2>2 DEF Resets
<1>8. CASE x[1] = "unmask"
  <2> DEFINE s == mask[x[2]] \ {x[3]}
  <2>1. imr' = [imr EXCEPT ![x[2]] = s] /\ mask' = [mask EXCEPT ![x[2]] = s]
    BY <1>1, <1>4, <1>8 DEF Pic, SetMask
  <2>2. s \in SUBSET (0..7) /\ s = mask[x[2]] \ {x[3]}
    BY <1>3
  <2> HIDE DEF s
  <2>. QED
    BY <1>8, <2>1, <2>2 DEF Resets
<1>. QED
  BY <1>2, <1>5, <1>6, <1>7, <1>8

LEMMA RunningSelect ==
  ASSUME NEW x, Running(x)
  PROVE  /\ x[1] = "select" => index' = x[2] /\ x[2] \in {"A", "B"}
         /\ x[1] = "in" => temp' = regs[index]
<1>1. Instr = x /\ \A op : Executes(op) => x[1] = op
  BY RunningControl
<1>2. CASE x[1] = "select"
  <2>1. Select
    BY <1>1, <1>2 DEF Running, Step, Pic, Port, ReadReg, WriteReg, Flag, IfFlag, ReadKey
  <2>. QED
    BY <1>1, <1>2, <2>1 DEF Select, Running, Fits
<1>3. CASE x[1] = "in"
  <2>1. ReadReg
    BY <1>1, <1>3 DEF Running, Step, Pic, Port, Select, WriteReg, Flag, IfFlag, ReadKey
  <2>2. Executes("in")
    BY <1>1, <1>3, <2>1 DEF ReadReg
  <2>. QED
    BY <1>3, <2>1, <2>2 DEF ReadReg
<1>. QED
  BY <1>2, <1>3

LEMMA RunningFlags ==
  ASSUME NEW x, Running(x)
  PROVE  /\ x[1] = "cli" => flags' = <<IF_flag>> \o flags /\ IF_flag' = FALSE
         /\ x[1] = "restore" => IF_flag' = Head(flags) /\ flags' = Tail(flags)
         /\ x[1] = "sti" => IF_flag' = TRUE /\ flags' = flags
<1>1. \A op : Executes(op) => x[1] = op
  BY RunningControl
<1> SUFFICES ASSUME x[1] \in {"cli", "restore", "sti"}
             PROVE  /\ x[1] = "cli" => flags' = <<IF_flag>> \o flags /\ IF_flag' = FALSE
                    /\ x[1] = "restore" => IF_flag' = Head(flags) /\ flags' = Tail(flags)
                    /\ x[1] = "sti" => IF_flag' = TRUE /\ flags' = flags
  OBVIOUS
<1>2. IfFlag
  BY <1>1 DEF Running, Step, Pic, Port, Select, ReadReg, WriteReg, Flag, ReadKey
<1>. QED
  BY <1>1, <1>2 DEF IfFlag


\* A write goes to the register that was read, and keeps what it must keep
LEMMA RunningRegs ==
  ASSUME NEW x, Running(x)
  PROVE  /\ regs' \in [{"A", "B", "C"} -> Byte]
         /\ irr' \subseteq irr \union {IRQ_RTC}
         /\ Good("A", regs'["A"]) /\ Good("B", regs'["B"])
         /\ IF x[1] = "out_low" THEN regs'["A"].lo = Rate(wanted)
            ELSE regs'["A"] = regs["A"]
         /\ IF x[1] = "out_pie" THEN regs'["B"].hi = PIE
            ELSE regs'["B"] = regs["B"]
<1>1. Instr = x /\ \A op : Executes(op) => x[1] = op
  BY RunningControl
<1>2. /\ regs \in [{"A", "B", "C"} -> Byte] /\ temp \in Byte
      /\ Good("A", regs["A"]) /\ Good("B", regs["B"])
  BY DEF Running, IInv, TypeOK, Registers
<1>3. CASE x[1] \notin Outs
  <2>1. ~WriteReg
    BY <1>1, <1>3 DEF WriteReg, Outs
  <2>2. \/ regs' = regs /\ irr' \subseteq irr
        \/ SetRegs(IF index = "C" THEN [regs EXCEPT !["C"] = [hi |-> 0, lo |-> 0]] ELSE regs)
    <3>1. CASE Pic
      <4>1. irr' \subseteq irr
        BY <3>1 DEF Pic
      <4>2. regs' = regs
        BY <3>1 DEF Pic, rtcVars
      <4>. QED
        BY <4>1, <4>2
    <3>2. CASE Port
      <4>1. CASE Select
        BY <4>1 DEF Select
      <4>2. CASE ReadReg
        BY <4>2 DEF ReadReg
      <4>. QED
        BY <2>1, <3>2, <4>1, <4>2 DEF Port
    <3>3. CASE Flag \/ IfFlag \/ ReadKey
      BY <3>3 DEF Flag, IfFlag, ReadKey, picVars, rtcVars
    <3>. QED
      BY <3>1, <3>2, <3>3 DEF Running, Step
  <2>3. TypeOK
    BY DEF Running, IInv
  <2>4. /\ regs' \in [{"A", "B", "C"} -> Byte] /\ irr' \subseteq irr \union {IRQ_RTC}
        /\ regs'["A"] = regs["A"] /\ regs'["B"] = regs["B"]
    BY <1>2, <2>2, <2>3, ReadEffect
  <2>. QED
    BY <1>2, <1>3, <2>4 DEF Outs
<1>4. CASE x[1] \in Outs
  <2>1. index = Register(x[1]) /\ Good(index, temp)
    BY <1>4 DEF Running, IInv, Ready
  <2>2. WriteReg
    BY <1>1, <1>4 DEF Outs, Running, Step, Pic, Port, Select, ReadReg, Flag, IfFlag, ReadKey
  <2>3. CASE x[1] = "out_low"
    <3> DEFINE b == [hi |-> temp.hi, lo |-> x[2]]
    <3>1. index = "A" /\ temp.hi = 2 /\ x[2] = Rate(wanted)
      BY <2>1, <2>3 DEF Register, Good, Running, Fits
    <3>2. b \in Byte /\ b.hi = 2 /\ b.lo = Rate(wanted)
      <4>1. x[2] \in 0..15
        BY <3>1, Rates
      <4>. QED
        BY <1>2, <3>1, <4>1 DEF Byte
    <3>3. Store(b)
      BY <1>1, <2>2, <2>3 DEF WriteReg
    <3> HIDE DEF b
    <3>4. regs' = [regs EXCEPT !["A"] = b] /\ irr' \subseteq irr \union {IRQ_RTC}
      BY <3>1, <3>3 DEF Store, SetRegs
    <3>5. /\ regs' \in [{"A", "B", "C"} -> Byte] /\ regs'["A"] = b /\ regs'["B"] = regs["B"]
      BY <1>2, <3>2, <3>4
    <3>. QED
      BY <1>2, <2>3, <3>2, <3>4, <3>5 DEF Good
  <2>4. CASE x[1] = "out_pie"
    <3> DEFINE b == [temp EXCEPT !.hi = WithBit(@, PIE)]
    <3>1. index = "B" /\ temp.lo = 2 /\ temp.hi \in {0, PIE}
      BY <2>1, <2>4 DEF Register, Good
    <3>2. WithBit(temp.hi, PIE) = PIE
      BY <3>1, WithBitType
    <3>3. b \in Byte /\ b.hi = PIE /\ b.lo = 2
      <4>1. PIE \in 0..15
        BY DEF PIE
      <4>2. b = [temp EXCEPT !.hi = PIE]
        BY <1>2, <3>2 DEF Byte
      <4>. QED
        BY <1>2, <3>1, <4>1, <4>2 DEF Byte
    <3>4. Store(b)
      BY <1>1, <2>2, <2>4 DEF WriteReg
    <3> HIDE DEF b
    <3>5. regs' = [regs EXCEPT !["B"] = b] /\ irr' \subseteq irr \union {IRQ_RTC}
      BY <3>1, <3>4 DEF Store, SetRegs
    <3>6. /\ regs' \in [{"A", "B", "C"} -> Byte] /\ regs'["B"] = b /\ regs'["A"] = regs["A"]
      BY <1>2, <3>3, <3>5
    <3>. QED
      BY <1>2, <2>4, <3>3, <3>5, <3>6 DEF Good
  <2>. QED
    BY <1>4, <2>3, <2>4 DEF Outs
<1>. QED
  BY <1>3, <1>4

\* What an instruction still to come says of the ones left after this one
LEMMA TailLeft ==
  ASSUME NEW c \in Code, c # <<>>
  PROVE  /\ \A ops : Avoids(Tail(c), ops) /\ c[1][1] \notin ops => Avoids(c, ops)
         /\ \A j \in DOMAIN c : j > 1 => \E i \in DOMAIN Tail(c) : Tail(c)[i] = c[j]
<1> DEFINE n == Len(c)
           t == Tail(c)
<1>1. n \in Nat /\ DOMAIN c = 1..n
  BY NonEmpty
<1>2. DOMAIN t = 1..n - 1 /\ \A i \in 1..n - 1 : t[i] = c[i + 1]
  BY TailCode
<1> HIDE DEF n, t
<1>3. ASSUME NEW j \in 1..n, j > 1 PROVE \E i \in 1..n - 1 : t[i] = c[j]
  <2>1. j - 1 \in 1..n - 1 /\ (j - 1) + 1 = j
    BY <1>1, <1>3
  <2>. QED
    BY <1>2, <2>1
<1>4. ASSUME NEW ops, Avoids(t, ops), c[1][1] \notin ops PROVE Avoids(c, ops)
  <2>1. ASSUME NEW j \in 1..n PROVE c[j][1] \notin ops
    <3>1. CASE j = 1
      BY <1>4, <3>1
    <3>2. CASE j > 1
      BY <1>2, <1>3, <1>4, <3>2 DEF Avoids
    <3>. QED
      BY <1>1, <3>1, <3>2
  <2>. QED
    BY <1>1, <2>1 DEF Avoids
<1>. QED
  BY <1>1, <1>2, <1>3, <1>4 DEF t

LEMMA RegistersStep ==
  ASSUME NEW x, Running(x)
  PROVE  Registers'
<1>1. code \in Code /\ code # <<>> /\ x = code[1]
  BY DEF Running, IInv, Disciplined
<1>2. code' = Tail(code) /\ wanted' = wanted
  BY RunningControl
<1>3. Good("A", regs'["A"]) /\ Good("B", regs'["B"])
  BY RunningRegs
<1>4. ASSUME Avoids(code', {"out_low"}) PROVE regs'["A"].lo = Rate(wanted)
  <2>1. CASE x[1] = "out_low"
    BY <2>1, RunningRegs
  <2>2. CASE x[1] # "out_low"
    <3>1. Avoids(code, {"out_low"})
      BY <1>1, <1>2, <1>4, <2>2, TailLeft
    <3>. QED
      BY <2>2, <3>1, RunningRegs DEF Running, IInv, Registers
  <2>. QED
    BY <2>1, <2>2
<1>5. ASSUME Avoids(code', {"out_pie"}) PROVE regs'["B"].hi = PIE
  <2>1. CASE x[1] = "out_pie"
    BY <2>1, RunningRegs
  <2>2. CASE x[1] # "out_pie"
    <3>1. Avoids(code, {"out_pie"})
      BY <1>1, <1>2, <1>5, <2>2, TailLeft
    <3>. QED
      BY <2>2, <3>1, RunningRegs DEF Running, IInv, Registers
  <2>. QED
    BY <2>1, <2>2
<1>. QED
  BY <1>2, <1>3, <1>4, <1>5 DEF Registers

LEMMA ReadyStep ==
  ASSUME NEW x, Running(x)
  PROVE  Ready'
<1> DEFINE t == Tail(code)
           y == t[1]
           z == t[2]
           n == Len(code)
<1>1. /\ code \in Code /\ code # <<>> /\ x = code[1] /\ Ordered(code)
      /\ \A i \in DOMAIN code : Fits(code[i], wanted)
  BY DEF Running, IInv, Disciplined
<1>2. code' = t
  BY RunningControl
<1>3. n \in Nat /\ n >= 1 /\ DOMAIN code = 1..n
  BY <1>1, NonEmpty
<1>4. t \in Code /\ Len(t) = n - 1 /\ DOMAIN t = 1..n - 1 /\ \A i \in 1..n - 1 : t[i] = code[i + 1]
  BY <1>1, TailCode
<1> SUFFICES ASSUME t # <<>>
             PROVE  /\ y[1] = "in" => Len(t) > 1 /\ index' = z[2]
                    /\ y[1] \in Outs => index' = Register(y[1]) /\ Good(index', temp')
                    /\ y[1] = "select" /\ z[1] \in Outs => Good(y[2], temp')
  BY <1>2 DEF Ready
<1>5. n >= 2 /\ y = code[2]
  <2>1. Len(t) >= 1
    BY <1>4, EmptyLength
  <2>2. n >= 2 /\ 1 \in 1..n - 1 /\ 1 + 1 = 2
    BY <1>3, <1>4, <2>1
  <2>. QED
    BY <1>4, <2>2
<1>6. n >= 3 => z = code[3] /\ Len(t) > 1
  <2>1. n >= 3 => 2 \in 1..n - 1 /\ 2 + 1 = 3
    BY <1>3
  <2>. QED
    BY <1>3, <1>4, <2>1
<1>7. /\ x[1] = "select" /\ y[1] = "in" => n >= 3 /\ code[3][1] = "select" /\ code[3][2] = x[2]
      /\ x[1] = "select" /\ y[1] \in Outs => x[2] = Register(y[1])
      /\ x[1] # "select" => y[1] \notin {"in", "out_low", "out_pie"}
      /\ x[1] # "in" /\ n >= 3 => ~(y[1] = "select" /\ code[3][1] \in Outs)
      /\ y[1] = "select" => n >= 3
  <2>1. 1 \in DOMAIN code /\ 2 \in DOMAIN code /\ 1 + 1 = 2 /\ 1 + 2 = 3
    BY <1>3, <1>5
  <2>2. /\ x[1] = "select" /\ y[1] = "in" => 3 <= n /\ code[3][1] = "select" /\ code[3][2] = x[2]
        /\ x[1] = "select" /\ y[1] \in Outs => x[2] = Register(y[1])
        /\ x[1] # "select" /\ 1 < n => y[1] \notin {"in", "out_low", "out_pie"}
        /\ x[1] # "in" /\ 2 < n => ~(y[1] = "select" /\ code[3][1] \in Outs)
    BY <1>1, <1>5, <2>1 DEF Ordered
  <2>3. y[1] = "select" => 2 < n
    BY <1>1, <1>5, <2>1 DEF Ordered
  <2> HIDE DEF n, y
  <2>. QED
    BY <1>3, <1>5, <2>2, <2>3
<1> HIDE DEF n, y, z, t
<1>8. ASSUME y[1] = "in" PROVE Len(t) > 1 /\ index' = z[2]
  <2>1. x[1] = "select"
    BY <1>7, <1>8
  <2>2. index' = x[2]
    BY <2>1, RunningSelect
  <2>. QED
    BY <1>6, <1>7, <1>8, <2>1, <2>2
<1>9. ASSUME y[1] \in Outs PROVE index' = Register(y[1]) /\ Good(index', temp')
  <2>1. x[1] = "select"
    BY <1>7, <1>9 DEF Outs
  <2>2. index' = x[2] /\ temp' = temp
    BY <2>1, RunningSelect, RunningFrame
  <2>3. Good(x[2], temp)
    BY <1>1, <1>5, <1>9, <2>1 DEF Running, IInv, Ready
  <2>. QED
    BY <1>7, <1>9, <2>1, <2>2, <2>3
<1>10. ASSUME y[1] = "select", z[1] \in Outs PROVE Good(y[2], temp')
  <2>1. x[1] = "in"
    BY <1>6, <1>7, <1>10
  <2>2. index = y[2]
    BY <1>1, <1>5, <2>1 DEF Running, IInv, Ready
  <2>3. temp' = regs[index]
    BY <2>1, RunningSelect
  <2>4. y[2] \in {"A", "B"}
    <3>1. 2 \in DOMAIN code
      BY <1>3, <1>5
    <3>. QED
      BY <1>1, <1>5, <1>10, <3>1 DEF Fits
  <2>5. Good("A", regs["A"]) /\ Good("B", regs["B"])
    BY DEF Running, IInv, Registers
  <2>. QED
    BY <2>2, <2>3, <2>4, <2>5
<1>. QED
  BY <1>8, <1>9, <1>10


\* Interrupts come on only with the last instruction, or where they were on
\* before the flags were saved
LEMMA FlagsStep ==
  ASSUME NEW x, Running(x)
  PROVE  /\ Nesting' /\ Flags'
         /\ Exposed' => Exposed \/ code' = <<>>
         /\ IF_flag' \in BOOLEAN /\ flags' \in Seq(BOOLEAN) /\ Len(flags') <= 2
<1> DEFINE n == Len(flags)
<1>1. code \in Code /\ code # <<>> /\ x = code[1] /\ handler = <<>> /\ Ordered(code)
  BY DEF Running, IInv, Disciplined
<1>2. code' = Tail(code) /\ handler' = <<>>
  BY RunningControl
<1>3. IF_flag \in BOOLEAN /\ flags \in Seq(BOOLEAN) /\ n \in Nat
  BY DEF Running, IInv, TypeOK
<1>4. /\ IF_flag => flags = <<>>
      /\ \A j \in 1..n : flags[j] = TRUE => j = n
  BY <1>3 DEF Running, IInv, Flags
<1>5. PICK D : /\ Balanced(code, D, 0) /\ D[1] = n
               /\ Exposed => Guarded(code, D, 1)
  BY DEF Running, IInv, Nesting
<1>6. PICK E : /\ Balanced(Tail(code), E, 0) /\ E[1] = Saves(x, n)
               /\ Guarded(code, D, 1) => Guarded(Tail(code), E, 1)
  BY <1>1, <1>5, TailBalanced
<1>7. E[1] \in 0..2
  <2>1. Len(Tail(code)) \in Nat
    BY <1>1, TailCode, NonEmpty
  <2>2. 1 \in 1..Len(Tail(code)) + 1
    BY <2>1
  <2>. QED
    BY <1>6, <2>2 DEF Balanced
<1>8. Exposed <=> IF_flag \/ \E j \in 1..n : flags[j] = TRUE
  BY <1>1, <1>3 DEF Exposed
<1> SUFFICES /\ flags' \in Seq(BOOLEAN) /\ Len(flags') = E[1] /\ IF_flag' \in BOOLEAN
             /\ IF_flag' => flags' = <<>>
             /\ \A j \in 1..Len(flags') : flags'[j] = TRUE => j = Len(flags')
             /\ IF_flag' \/ (\E j \in 1..Len(flags') : flags'[j] = TRUE) =>
                  Exposed \/ code' = <<>>
  <2> SUFFICES ASSUME /\ flags' \in Seq(BOOLEAN) /\ Len(flags') = E[1] /\ IF_flag' \in BOOLEAN
                      /\ IF_flag' => flags' = <<>>
                      /\ \A j \in 1..Len(flags') : flags'[j] = TRUE => j = Len(flags')
                      /\ IF_flag' \/ (\E j \in 1..Len(flags') : flags'[j] = TRUE) =>
                           Exposed \/ code' = <<>>
               PROVE  /\ Nesting' /\ Flags'
                      /\ Exposed' => Exposed \/ code' = <<>>
                      /\ Len(flags') <= 2
    OBVIOUS
  <2>1. DOMAIN flags' = 1..Len(flags')
    OBVIOUS
  <2>2. Exposed' => Exposed \/ code' = <<>>
    BY <1>2, <2>1 DEF Exposed
  <2>3. Flags'
    BY <1>2, <2>1 DEF Flags
  <2>4. Exposed' => Guarded(code', E, 1)
    <3>1. code' = <<>> => Guarded(code', E, 1)
      BY EmptyCode DEF Guarded
    <3>. QED
      BY <1>2, <1>5, <1>6, <2>2, <3>1
  <2>5. Nesting'
    BY <1>2, <1>6, <2>4 DEF Nesting
  <2>6. Len(flags') <= 2
    BY <1>7
  <2>. QED
    BY <2>2, <2>3, <2>5, <2>6
<1> HIDE DEF n
<1>9. CASE x[1] \notin {"cli", "restore", "sti"}
  <2>1. IF_flag' = IF_flag /\ flags' = flags
    BY <1>9, RunningFrame
  <2>2. E[1] = n
    BY <1>6, <1>9 DEF Saves
  <2>. QED
    BY <1>3, <1>4, <1>8, <2>1, <2>2 DEF n
<1>10. CASE x[1] = "cli"
  <2>1. flags' = <<IF_flag>> \o flags /\ IF_flag' = FALSE
    BY <1>10, RunningFlags
  <2>2. E[1] = n + 1
    BY <1>6, <1>10 DEF Saves
  <2> DEFINE b == IF_flag
  <2>3. /\ flags' \in Seq(BOOLEAN) /\ Len(flags') = n + 1 /\ flags'[1] = b
        /\ \A j \in 2..n + 1 : flags'[j] = flags[j - 1]
    <3>1. b \in BOOLEAN /\ flags' = <<b>> \o flags /\ n = Len(flags)
      BY <1>3, <2>1 DEF n
    <3> HIDE DEF b
    <3>. QED
      BY <1>3, <3>1
  <2>4. \A j \in 2..n + 1 : j - 1 \in 1..n /\ (j - 1 = n => j = n + 1)
    BY <1>3
  <2>5. b = TRUE => n = 0
    BY <1>4 DEF n
  <2>6. ASSUME NEW j \in 1..n + 1, flags'[j] = TRUE
        PROVE  j = n + 1 /\ Exposed
    <3>1. CASE j = 1
      <4>1. b = TRUE
        BY <2>3, <2>6, <3>1
      <4>2. IF_flag
        BY <4>1
      <4>. QED
        BY <1>8, <2>5, <3>1, <4>1, <4>2
    <3>2. CASE j # 1
      <4>1. j \in 2..n + 1
        BY <1>3, <3>2
      <4>2. flags[j - 1] = TRUE /\ j - 1 \in 1..n
        BY <2>3, <2>4, <2>6, <4>1
      <4>. QED
        BY <1>4, <1>8, <2>4, <4>1, <4>2
    <3>. QED
      BY <3>1, <3>2
  <2>. QED
    BY <2>1, <2>2, <2>3, <2>6
<1>11. CASE x[1] = "restore"
  <2>1. IF_flag' = Head(flags) /\ flags' = Tail(flags)
    BY <1>11, RunningFlags
  <2>2. E[1] = n - 1
    BY <1>6, <1>11 DEF Saves
  <2>3. n >= 1
    BY <1>3, <1>7, <2>2
  <2>4. /\ IF_flag' = flags[1] /\ flags[1] \in BOOLEAN
        /\ flags' \in Seq(BOOLEAN) /\ Len(flags') = n - 1
        /\ \A j \in 1..n - 1 : flags'[j] = flags[j + 1]
        /\ n = 1 => flags' = <<>>
    BY <1>3, <2>1, <2>3 DEF n
  <2>5. \A j \in 1..n - 1 : j + 1 \in 1..n /\ (j + 1 = n => j = n - 1)
    BY <1>3
  <2>6. 1 \in 1..n
    BY <1>3, <2>3
  <2>7. IF_flag' => flags[1] = TRUE
    BY <2>4
  <2>8. IF_flag' => flags' = <<>> /\ Exposed
    BY <1>4, <1>8, <2>4, <2>6, <2>7
  <2>9. ASSUME NEW j \in 1..n - 1, flags'[j] = TRUE PROVE j = n - 1 /\ Exposed
    BY <1>4, <1>8, <2>4, <2>5, <2>9
  <2>. QED
    BY <2>2, <2>4, <2>8, <2>9
<1>12. CASE x[1] = "sti"
  <2>1. IF_flag' = TRUE /\ flags' = flags
    BY <1>12, RunningFlags
  <2>2. E[1] = n
    BY <1>6, <1>12 DEF Saves
  <2>3. Len(code) = 1 /\ Len(Tail(code)) = 0 /\ Tail(code) \in Code
    <3>1. 1 \in DOMAIN code
      BY <1>1, NonEmpty
    <3>2. Len(code) = 1
      BY <1>1, <1>12, <3>1 DEF Ordered
    <3>. QED
      BY <1>1, <3>2, TailCode
  <2>4. code' = <<>>
    <3> DEFINE c == Tail(code)
    <3>1. c \in Code /\ Len(c) = 0
      BY <2>3
    <3> HIDE DEF c
    <3>2. c = <<>>
      BY <3>1, EmptyLength
    <3>. QED
      BY <1>2, <3>2 DEF c
  <2>5. n = 0
    <3>1. E[Len(Tail(code)) + 1] = 0 /\ Len(Tail(code)) + 1 = 1
      BY <1>6, <2>3 DEF Balanced
    <3>. QED
      BY <2>2, <3>1
  <2>6. flags' = <<>> /\ Len(flags') = 0 /\ flags' \in Seq(BOOLEAN)
    BY <1>3, <2>1, <2>5 DEF n
  <2>. QED
    BY <2>1, <2>2, <2>4, <2>5, <2>6
<1>. QED
  BY <1>9, <1>10, <1>11, <1>12


\* A reset controller has its mask written before interrupts come on
LEMMA MasksStep ==
  ASSUME NEW x, Running(x)
  PROVE  /\ Masks' /\ Lines'
         /\ mask' \in [Pics -> SUBSET (0..7)] /\ imr' \in [Pics -> SUBSET (0..7)]
<1>1. /\ code \in Code /\ code # <<>> /\ x = code[1] /\ Masked(code)
      /\ 1 \in DOMAIN code /\ \A j \in DOMAIN code : j # 1 => j > 1
  BY NonEmpty DEF Running, IInv, Disciplined
<1>2. code' = Tail(code) /\ Fits(x, wanted)
  BY RunningControl DEF Running
<1>3. mask \in [Pics -> SUBSET (0..7)] /\ imr \in [Pics -> SUBSET (0..7)]
  BY DEF Running, IInv, TypeOK
<1>4. /\ Exposed => imr = mask /\ Avoids(code, Resets)
      /\ \A p \in Pics : \/ imr[p] = mask[p]
                         \/ \E j \in DOMAIN code : code[j][1] \in Syncs /\ code[j][2] = p
      /\ \A p \in Pics : \A m \in (0..7) \ mask[p] : Line(p, m) \in Known
      /\ irr \subseteq Devices \union {IRQ_RTC}
  BY DEF Running, IInv, Masks, Lines
<1>5. \A j \in DOMAIN code : j > 1 => \E i \in DOMAIN code' : code'[i] = code[j]
  BY <1>1, <1>2, TailLeft
<1>6. irr' \subseteq Devices \union {IRQ_RTC}
  BY <1>4, RunningRegs
<1> DEFINE Later(p) == \E j \in DOMAIN code' : code'[j][1] \in Syncs /\ code'[j][2] = p
<1>7. ASSUME NEW p \in Pics, ~(x[1] \in Syncs /\ x[2] = p) PROVE imr[p] = mask[p] \/ Later(p)
  <2>1. ASSUME NEW j \in DOMAIN code, code[j][1] \in Syncs, code[j][2] = p PROVE Later(p)
    <3>1. j > 1
      BY <1>1, <1>7, <2>1
    <3>. QED
      BY <1>5, <2>1, <3>1
  <2>. QED
    BY <1>4, <2>1
<1>8. ASSUME x[1] \in Resets PROVE Later(x[2])
  <2>1. PICK j \in DOMAIN code : 1 < j /\ code[j][1] \in Syncs /\ code[j][2] = x[2]
    BY <1>1, <1>8 DEF Masked
  <2>2. j > 1
    <3>1. j \in Nat
      BY <1>1, NonEmpty
    <3>. QED
      BY <2>1, <3>1
  <2>. QED
    BY <1>5, <2>1, <2>2
<1> HIDE DEF Later
<1>9. /\ mask' \in [Pics -> SUBSET (0..7)] /\ imr' \in [Pics -> SUBSET (0..7)]
      /\ \A p \in Pics : imr'[p] = mask'[p] \/ Later(p)
      /\ Exposed => imr' = mask'
      /\ \A p \in Pics : \A m \in (0..7) \ mask'[p] : Line(p, m) \in Known
  <2>1. CASE x[1] \notin Resets \union Syncs
    <3>1. mask' = mask /\ imr' = imr
      BY <2>1, RunningFrame
    <3>. QED
      BY <1>3, <1>4, <1>7, <2>1, <3>1
  <2>2. CASE x[1] \in Resets
    <3>1. PICK s \in SUBSET (0..7) : imr' = [imr EXCEPT ![x[2]] = s] /\ mask' = mask
      BY <2>2, RunningMasks
    <3>2. ~Exposed
      BY <1>1, <1>4, <2>2 DEF Avoids
    <3>3. x[1] \notin Syncs /\ x[2] \in Pics
      BY <1>2, <2>2 DEF Resets, Syncs, Fits
    <3>4. imr' \in [Pics -> SUBSET (0..7)]
      BY <1>3, <3>1, <3>3
    <3>5. ASSUME NEW p \in Pics PROVE imr'[p] = mask'[p] \/ Later(p)
      <4>1. CASE p = x[2]
        BY <1>8, <2>2, <4>1
      <4>2. CASE p # x[2]
        <5>1. imr'[p] = imr[p]
          BY <1>3, <3>1, <4>2
        <5>. QED
          BY <1>7, <3>1, <3>3, <5>1
      <4>. QED
        BY <4>1, <4>2
    <3>. QED
      BY <1>3, <1>4, <3>1, <3>2, <3>4, <3>5
  <2>3. CASE x[1] \in Syncs
    <3>1. PICK s \in SUBSET (0..7) :
            /\ imr' = [imr EXCEPT ![x[2]] = s] /\ mask' = [mask EXCEPT ![x[2]] = s]
            /\ x[1] = "mask" => mask[x[2]] \subseteq s
            /\ x[1] = "unmask" => s = mask[x[2]] \ {x[3]}
      BY <2>3, RunningMasks
    <3>2. /\ x[2] \in Pics /\ x[1] \in {"mask", "unmask"} /\ x[3] \in 0..7
          /\ x[1] = "unmask" => Line(x[2], x[3]) \in Known
      BY <1>2, <2>3 DEF Syncs, Fits
    <3>3. mask' \in [Pics -> SUBSET (0..7)] /\ imr' \in [Pics -> SUBSET (0..7)]
      BY <1>3, <3>1, <3>2
    <3>4. imr'[x[2]] = s /\ mask'[x[2]] = s
      BY <1>3, <3>1, <3>2
    <3>5. \A p \in Pics : p # x[2] => imr'[p] = imr[p] /\ mask'[p] = mask[p]
      BY <1>3, <3>1
    <3>6. ASSUME NEW p \in Pics PROVE imr'[p] = mask'[p] \/ Later(p)
      BY <1>7, <3>4, <3>5
    <3>7. Exposed => imr' = mask'
      BY <1>4, <3>1
    <3>8. ASSUME NEW p \in Pics, NEW m \in (0..7) \ mask'[p] PROVE Line(p, m) \in Known
      <4>1. CASE p = x[2]
        <5>1. m \in (0..7) \ mask[p] \/ (x[1] = "unmask" /\ m = x[3])
          BY <3>1, <3>2, <3>4, <4>1
        <5>. QED
          BY <1>4, <3>2, <4>1, <5>1
      <4>2. CASE p # x[2]
        BY <1>4, <3>5, <4>2
      <4>. QED
        BY <4>1, <4>2
    <3>. QED
      BY <3>3, <3>6, <3>7, <3>8
  <2>. QED
    BY <2>1, <2>2, <2>3
<1>10. Exposed' => imr' = mask' /\ Avoids(code', Resets)
  <2>1. CASE Exposed
    BY <1>1, <1>2, <1>4, <1>9, <2>1, TailAvoids
  <2>2. CASE code' = <<>>
    <3>1. \A p \in Pics : imr'[p] = mask'[p]
      BY <1>9, <2>2, EmptyCode DEF Later
    <3>2. imr' = mask'
      BY <1>9, <3>1
    <3>. QED
      BY <2>2, <3>2, EmptyCode DEF Avoids
  <2>. QED
    BY <2>1, <2>2, FlagsStep
<1>11. Masks'
  BY <1>9, <1>10 DEF Masks, Later
<1>. QED
  BY <1>6, <1>9, <1>11 DEF Lines

LEMMA CodeStep ==
  ASSUME IInv, Step, handler = <<>>
  PROVE  IInv'
<1> DEFINE x == code[1]
<1>1. Running(x)
  BY RunningStarts
<1> HIDE DEF x
<1>2. /\ ~panic /\ panic' = panic /\ code' = Tail(code) /\ handler' = <<>>
      /\ wanted' = wanted
  BY <1>1, RunningControl
<1>3. Disciplined(code, wanted)'
  BY <1>1, <1>2, TailDisciplined DEF Running, IInv
<1>4. isr' = {}
  <2>1. isr = {}
    BY <1>1, <1>2, EmptyCode DEF Running, IInv, Handling, Contains
  <2>. QED
    BY <1>1, <2>1, RunningFrame
<1>5. TypeOK'
  <2>1. TypeOK
    BY DEF IInv
  <2>2. irr' \subseteq 0..NUM_IRQ /\ isr' \subseteq 0..NUM_IRQ
    <3>1. irr \subseteq 0..NUM_IRQ
      BY <2>1 DEF TypeOK
    <3>2. IRQ_RTC \in 0..NUM_IRQ
      BY DEF NUM_IRQ, IRQ_RTC
    <3>. QED
      BY <1>1, <1>4, <3>1, <3>2, RunningRegs
  <2>3. raised' \subseteq Devices /\ intflag' \in BOOLEAN
    BY <1>1, <2>1, RunningFrame DEF TypeOK
  <2>4. index' \in {"A", "B", "C"}
    BY <1>1, <2>1, RunningFrame, RunningSelect DEF TypeOK
  <2>5. temp' \in Byte
    <3>1. regs[index] \in Byte /\ temp \in Byte
      BY <2>1 DEF TypeOK
    <3>. QED
      BY <1>1, <3>1, RunningFrame, RunningSelect
  <2>6. \A i \in DOMAIN handler' : handler'[i][1] \in Ops
    BY <1>2, EmptyCode
  <2>7. \A i \in DOMAIN code' : code'[i][1] \in Ops
    BY <1>3, SoundOps
  <2>8. wanted' \in Freqs \union {2} /\ panic' \in BOOLEAN
    BY <1>2, <2>1 DEF TypeOK
  <2>9. /\ mask' \in [Pics -> SUBSET (0..7)] /\ imr' \in [Pics -> SUBSET (0..7)]
        /\ regs' \in [{"A", "B", "C"} -> Byte]
    BY <1>1, MasksStep, RunningRegs
  <2>10. IF_flag' \in BOOLEAN /\ flags' \in Seq(BOOLEAN) /\ Len(flags') <= 2
    BY <1>1, FlagsStep
  <2>. QED
    BY <2>2, <2>3, <2>4, <2>5, <2>6, <2>7, <2>8, <2>9, <2>10 DEF TypeOK
<1>6. Nesting' /\ Flags'
  BY <1>1, FlagsStep
<1>7. Ready' /\ Registers'
  BY <1>1, ReadyStep, RegistersStep
<1>8. Masks' /\ Lines'
  BY <1>1, MasksStep
<1>9. Handling'
  BY <1>2, <1>4, EmptyServed DEF Handling
<1>. QED
  BY <1>3, <1>5, <1>6, <1>7, <1>8, <1>9 DEF IInv

----------------------------------------------------------------------------
(* Theorems *)

LEMMA StutterIInv ==
  ASSUME IInv, UNCHANGED vars
  PROVE  IInv'
<1>1. /\ UNCHANGED <<mask, imr, irr, isr>> /\ UNCHANGED <<raised, index, regs, intflag>>
      /\ UNCHANGED <<IF_flag, flags, temp, code, handler>> /\ UNCHANGED <<wanted, panic>>
  BY DEF vars, picVars, rtcVars, cpuVars
<1>2. Exposed' <=> Exposed
  BY <1>1 DEF Exposed
<1>3. TypeOK'
  BY <1>1 DEF IInv, TypeOK
<1>4. Disciplined(code, wanted)' /\ Nesting' /\ Flags' /\ Ready' /\ Registers'
  BY <1>1, <1>2 DEF IInv, Nesting, Flags, Ready, Registers
<1>5. Masks' /\ Lines' /\ Handling'
  BY <1>1, <1>2 DEF IInv, Masks, Lines, Handling
<1>. QED
  BY <1>3, <1>4, <1>5 DEF IInv

LEMMA NextIInv ==
  ASSUME IInv, [Next]_vars
  PROVE  IInv'
<1>1. CASE Tick
  BY <1>1, TickIInv
<1>2. ASSUME NEW d \in Devices, Raise(d) PROVE IInv'
  BY <1>2, RaiseIInv
<1>3. ASSUME NEW irq \in 0..NUM_IRQ, Interrupt(irq) PROVE IInv'
  BY <1>3, InterruptIInv
<1>4. CASE Step
  BY <1>4, HandlerStep, CodeStep
<1>5. CASE SystemCall \/ KernelCall
  BY <1>5, CallIInv
<1>6. CASE UNCHANGED vars
  BY <1>6, StutterIInv
<1>. QED
  BY <1>1, <1>2, <1>3, <1>4, <1>5, <1>6 DEF Next

\* The strengthened invariant holds in every state.
THEOREM Invariance == Spec => []IInv
<1>1. Init => IInv
  BY InitIInv
<1>2. IInv /\ [Next]_vars => IInv'
  BY NextIInv
<1>. QED
  BY <1>1, <1>2, PTL DEF Spec

\* Every variable keeps its type, and no caller saves flags more than two deep.
THEOREM TypesKept == Spec => []TypeOK
<1>1. IInv => TypeOK
  BY DEF IInv
<1>. QED
  BY <1>1, Invariance, PTL

\* Whenever interrupts are on, the controllers mask what the kernel believes
\* they mask.
THEOREM MasksAgreeAlways == Spec => []MasksAgree
<1>1. IInv => MasksAgree
  BY DEF IInv, Masks, Exposed, MasksAgree
<1>. QED
  BY <1>1, Invariance, PTL

\* No select-and-access of the clock is split: the divider and the mode bits
\* survive, and between routines the rate is the one asked for last.
THEOREM RegistersKeptAlways == Spec => []RegistersKept
<1>1. ASSUME IInv PROVE RegistersKept
  <2>1. regs["A"].hi = 2 /\ regs["B"].lo = 2
    BY <1>1 DEF IInv, Registers, Good
  <2>2. Current = <<>> => code = <<>>
    BY DEF Current
  <2>. QED
    BY <1>1, <2>1, <2>2, Idle DEF RegistersKept
<1>. QED
  BY <1>1, Invariance, PTL

\* Between handlers nothing is left in service.
THEOREM NothingInServiceAlways == Spec => []NothingInService
<1>1. IInv => NothingInService
  BY EmptyCode DEF IInv, Handling, Contains, NothingInService
<1>. QED
  BY <1>1, Invariance, PTL


\* The kernel enables the keyboard and the clock, and its callers enable no
\* other line that a device raises
OnlyKnownEnabled == Devices \cap Disabled \subseteq {IRQ_KEYBOARD}

\* A line that gets through was opened by the kernel, so it has a handler
LEMMA OpenHasHandler ==
  ASSUME IInv, OnlyKnownEnabled, NEW irq \in 0..NUM_IRQ, Interrupt(irq)
  PROVE  irq \in {IRQ_KEYBOARD, IRQ_RTC}
<1>1. IF_flag /\ irq \in irr /\ Open(irq)
  BY DEF Interrupt, Deliverable
<1>2. imr = mask
  BY <1>1 DEF IInv, Masks, Exposed
<1>3. irq \in Devices \union {IRQ_RTC}
  BY <1>1 DEF IInv, Lines
<1>4. irq \in Known
  <2>1. \A p \in Pics : \A m \in (0..7) \ mask[p] : Line(p, m) \in Known
    BY DEF IInv, Lines
  <2>2. CASE irq > 7
    <3>1. irq - 8 \notin mask["slave"]
      BY <1>1, <1>2, <2>2 DEF Open
    <3>2. irq - 8 \in 0..7 /\ (irq - 8) + 8 = irq
      BY <2>2 DEF NUM_IRQ
    <3>3. Line("slave", irq - 8) = irq
      BY <3>2 DEF Line
    <3>. QED
      BY <2>1, <3>1, <3>2, <3>3 DEF Pics
  <2>3. CASE ~(irq > 7)
    <3>1. irq \notin mask["master"]
      BY <1>1, <1>2, <2>3 DEF Open
    <3>2. irq \in 0..7
      BY <2>3 DEF NUM_IRQ
    <3>3. Line("master", irq) = irq
      BY DEF Line
    <3>. QED
      BY <2>1, <3>1, <3>2, <3>3 DEF Pics
  <2>. QED
    BY <2>2, <2>3
<1>5. irq # IR_SLAVE
  BY <1>3, InterruptsAssumption DEF IRQ_RTC, IR_SLAVE
<1>. QED
  BY <1>3, <1>4, <1>5 DEF Known, OnlyKnownEnabled

\* If callers enable no line but the keyboard's among those that devices
\* raise, no interrupt ever arrives that has no handler: however routines,
\* handlers and resets of the controllers interleave, the masks let nothing
\* else through.
THEOREM NoPanicAlways ==
  ASSUME OnlyKnownEnabled
  PROVE  Spec => []NoPanic
<1>1. Init => NoPanic
  BY DEF Init, NoPanic
<1>2. ASSUME IInv, NoPanic, [Next]_vars PROVE NoPanic'
  <2>1. ASSUME NEW irq \in 0..NUM_IRQ, Interrupt(irq) PROVE ~panic'
    <3>1. idt(irq) # generic_error
      BY <1>2, <2>1, OpenHasHandler, IdtServed
    <3>. QED
      BY <2>1, <3>1 DEF Interrupt
  <2>2. ASSUME Step PROVE panic' = panic
    BY <2>2 DEF Step, Pic, Port, Flag, IfFlag, ReadKey
  <2>3. ASSUME SystemCall \/ KernelCall PROVE panic' = panic
    BY <2>3 DEF SystemCall, KernelCall, Start
  <2>4. ASSUME Tick \/ (\E d \in Devices : Raise(d)) PROVE panic' = panic
    BY <2>4 DEF Tick, Raise
  <2>5. UNCHANGED vars => panic' = panic
    BY DEF vars
  <2>. QED
    BY <1>2, <2>1, <2>2, <2>3, <2>4, <2>5 DEF Next, NoPanic
<1>. QED
  BY <1>1, <1>2, Invariance, PTL DEF Spec
=============================================================================
