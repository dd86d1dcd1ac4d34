----------------------------- MODULE Interrupts -----------------------------
(***************************************************************************)
(* The two interrupt controllers (i8259.c), the real-time clock (rtc.c)    *)
(* and the interrupt linkage (interr.S, kernel.c).  The kernel's routines  *)
(* are sequences of instructions, and an interrupt may come between any    *)
(* two of them while IF is set: a handler selects a register of the clock  *)
(* in the middle of somebody else's select-and-access unless the routine   *)
(* has interrupts off.                                                     *)
(*                                                                         *)
(* The chips are modelled by what the code relies on: a mask, requests     *)
(* latched on a rising edge, lines in service until their EOI, fixed       *)
(* priority, the slave behind line 2 of the master; and an index port that *)
(* selects which register of the clock the data port accesses.             *)
(***************************************************************************)
EXTENDS Integers, Sequences

CONSTANTS
  Devices, \* the lines with a device that interrupts, beside the clock's
  Freqs,   \* the frequencies callers pass to rtc_write
  Disabled \* the lines callers disable and enable

NUM_IRQ == 15
IR_SLAVE == 2 \* ICW3_SLAVE: the line of the master that carries the slave
IRQ_RTC  == 8
IRQ_KEYBOARD == 1

ASSUME InterruptsAssumption ==
  /\ Devices \subseteq 0..NUM_IRQ \ {IR_SLAVE, IRQ_RTC}
  /\ Freqs \subseteq Int
  /\ Disabled \subseteq Nat

VARIABLES
  mask,    \* master_mask and slave_mask: the masked lines of each controller
  imr,     \* the controllers' own mask registers
  irr,     \* the lines, 0..15, whose request is latched
  isr,     \* the lines whose interrupt is in service
  raised,  \* the devices whose line is up
  index,   \* the register of the clock selected by port 0x70
  regs,    \* registers A, B and C of the clock, as two nibbles
  intflag, \* whether the clock's handler has run
  IF_flag, \* the interrupt flag
  flags,   \* the flags saved by cli_and_save, innermost first
  temp,    \* the value read last by a routine of the kernel
  code,    \* the instructions left of the routine that runs
  handler, \* the instructions left of the interrupt handler that runs
  wanted,  \* the frequency asked for last
  panic    \* whether generic_error stopped the machine

picVars == <<mask, imr, irr, isr>>
rtcVars == <<index, regs, intflag>>
cpuVars == <<IF_flag, flags, temp, code, handler>>
vars == <<picVars, raised, rtcVars, cpuVars, wanted, panic>>

Pics == {"master", "slave"}
Byte == [hi : 0..15, lo : 0..15]
Ops == {"mask_all", "icw", "mask", "unmask", "eoi", "select", "in", "read", "out_low", "out_pie",
        "set_flag", "clear_flag", "wait", "cli", "restore", "sti", "iret", "read_key",
        "blue_screen"}

\* Every variable has its type, and the flags of no more than two callers are
\* saved at a time (rtc_open, and the rtc_write it calls).
TypeOK ==
  /\ mask \in [Pics -> SUBSET (0..7)] /\ imr \in [Pics -> SUBSET (0..7)]
  /\ irr \subseteq 0..NUM_IRQ /\ isr \subseteq 0..NUM_IRQ
  /\ raised \subseteq Devices
  /\ index \in {"A", "B", "C"}
  /\ regs \in [{"A", "B", "C"} -> Byte]
  /\ intflag \in BOOLEAN /\ IF_flag \in BOOLEAN /\ panic \in BOOLEAN
  /\ flags \in Seq(BOOLEAN) /\ Len(flags) <= 2
  /\ temp \in Byte
  /\ \A i \in DOMAIN handler : handler[i][1] \in Ops
  /\ \A i \in DOMAIN code : code[i][1] \in Ops
  /\ wanted \in Freqs \union {2}

----------------------------------------------------------------------------
(* The routines, as sequences of instructions *)

\* Mutant: only the master is told
send_eoi_master_only(irq_num) ==
  IF irq_num > NUM_IRQ THEN <<>>
  ELSE IF irq_num > 7 THEN << <<"eoi", IR_SLAVE>> >>
  ELSE << <<"eoi", irq_num>> >>

send_eoi(irq_num) ==
  IF irq_num > NUM_IRQ THEN <<>>
  ELSE IF irq_num > 7 THEN << <<"eoi", irq_num>>, <<"eoi", IR_SLAVE>> >>
  ELSE << <<"eoi", irq_num>> >>

\* Mutant: a line of the slave opens the cascade only
enable_irq_cascade_only(irq_num) ==
  IF irq_num > NUM_IRQ THEN <<>>
  ELSE IF irq_num > 7 THEN << <<"unmask", "master", IR_SLAVE>> >>
  ELSE << <<"unmask", "master", irq_num>> >>

enable_irq(irq_num) ==
  IF irq_num > NUM_IRQ THEN <<>>
  ELSE IF irq_num > 7
  THEN << <<"unmask", "slave", irq_num - 8>>, <<"unmask", "master", IR_SLAVE>> >>
  ELSE << <<"unmask", "master", irq_num>> >>

\* Masks the cascade with every line of the slave
disable_irq(irq_num) ==
  IF irq_num > NUM_IRQ THEN <<>>
  ELSE IF irq_num > 7
  THEN << <<"mask", "slave", irq_num - 8>>, <<"mask", "master", IR_SLAVE>> >>
  ELSE << <<"mask", "master", irq_num>> >>

\* The chips forget their masks when they are initialised; mask does not
i8259_init == << <<"mask_all", "master">>, <<"mask_all", "slave">>,
                 <<"icw", "master">>, <<"icw", "slave">> >>

\* Read register A, replace its low nibble, write it back
set_rate(rate) == << <<"select", "A">>, <<"in">>, <<"select", "A">>, <<"out_low", rate>> >>

rtc_init ==
  set_rate(15)
  \o << <<"select", "B">>, <<"in">>, <<"select", "B">>, <<"out_pie">> >>
  \o enable_irq(IRQ_RTC) \o << <<"clear_flag">> >>

\* The eighth test assigns 256 instead of comparing, so it is the last
Rate(frequency) ==
  CASE frequency = 2 -> 15
    [] frequency = 4 -> 14
    [] frequency = 8 -> 13
    [] frequency = 16 -> 12
    [] frequency = 32 -> 11
    [] frequency = 64 -> 10
    [] frequency = 128 -> 2
    [] OTHER -> 1

\* Mutant: interrupts are left on
rtc_write_no_cli(frequency) == set_rate(Rate(frequency))
\* Mutant: the flags are not restored
rtc_write_no_restore(frequency) == << <<"cli">> >> \o set_rate(Rate(frequency))
rtc_write(frequency) == << <<"cli">> >> \o set_rate(Rate(frequency)) \o << <<"restore">> >>

rtc_open == << <<"cli">> >> \o rtc_init \o rtc_write(2) \o << <<"restore">> >>

rtc_read == << <<"wait">>, <<"clear_flag">> >>

\* Mutant: register C is not read
rtc_interrupt_handler_no_ack == << <<"set_flag">>, <<"select", "C">> >> \o send_eoi(IRQ_RTC)
rtc_interrupt_handler == << <<"set_flag">>, <<"select", "C">>, <<"read">> >> \o send_eoi(IRQ_RTC)

rtc_handler == rtc_interrupt_handler \o send_eoi(IRQ_RTC) \o << <<"iret">> >>

\* handle_charpress reads the data port, which lowers the keyboard's line
key_handler == << <<"read_key">> >> \o send_eoi(IRQ_KEYBOARD) \o << <<"iret">> >>

\* It shows the blue screen and loops with interrupts off
generic_error == << <<"blue_screen">> >>

\* ICW2 sends lines to vectors 0x20.. and 0x28..; two of them have a handler
idt(irq) == CASE irq = IRQ_KEYBOARD -> key_handler
              [] irq = IRQ_RTC -> rtc_handler
              [] OTHER -> generic_error

\* entry, from the PIC's initialisation to sti
boot == i8259_init \o rtc_init \o enable_irq(IRQ_KEYBOARD) \o enable_irq(IRQ_RTC)
        \o << <<"sti">> >>

\* The boot loader leaves interrupts off, any mask in the chips, and the
\* clock's divider set (hi of A) and its interrupts off
Init ==
  /\ mask = [p \in Pics |-> 0..7]
  /\ imr \in [Pics -> {{}, 0..7}]
  /\ irr = {} /\ isr = {}
  /\ raised = {}
  /\ index = "C"
  /\ regs = [A |-> [hi |-> 2, lo |-> 6], B |-> [hi |-> 0, lo |-> 2], C |-> [hi |-> 0, lo |-> 0]]
  /\ intflag = FALSE
  /\ IF_flag = FALSE /\ flags = <<>>
  /\ temp = [hi |-> 0, lo |-> 0]
  /\ code = boot /\ handler = <<>>
  /\ wanted = 2
  /\ panic = FALSE

----------------------------------------------------------------------------
(* The chips *)

PF == 4  \* periodic flag, bit 6 of register C
PIE == 4 \* periodic interrupt enable, bit 6 of register B

WithBit(n, bit) == IF (n \div bit) % 2 = 1 THEN n ELSE n + bit

RtcLine(r) == (r["C"].hi \div PF) % 2 = 1 /\ (r["B"].hi \div PIE) % 2 = 1

\* The clock's registers change; a rising edge of its line is latched
SetRegs(r) ==
  /\ regs' = r
  /\ irr' = IF RtcLine(r) /\ ~RtcLine(regs) THEN irr \union {IRQ_RTC} ELSE irr

Tick ==
  /\ regs["A"].hi = 2
  /\ SetRegs([regs EXCEPT !["C"].hi = WithBit(@, PF)])
  /\ UNCHANGED <<mask, imr, isr, raised, index, intflag, cpuVars, wanted, panic>>

Raise(d) ==
  /\ d \notin raised
  /\ raised' = raised \union {d}
  /\ irr' = irr \union {d}
  /\ UNCHANGED <<mask, imr, isr, rtcVars, cpuVars, wanted, panic>>

\* A line gets through unless it, or the cascade before it, is masked
Open(irq) ==
  IF irq > 7 THEN irq - 8 \notin imr["slave"] /\ IR_SLAVE \notin imr["master"]
  ELSE irq \notin imr["master"]

\* Where the master sees a line
Level(irq) == IF irq > 7 THEN IR_SLAVE ELSE irq

\* The line served next: the highest priority one that gets through and is
\* not held back by one in service
Deliverable(irq) ==
  /\ irq \in irr /\ Open(irq)
  /\ \A s \in isr : IF irq > 7 /\ s > 7 THEN irq < s ELSE s > 7 \/ Level(irq) < s
  /\ \A o \in irr : Open(o) => Level(irq) < Level(o) \/ (Level(irq) = Level(o) /\ irq <= o)

Interrupt(irq) ==
  /\ ~panic /\ IF_flag
  /\ Deliverable(irq)
  /\ irr' = irr \ {irq}
  /\ isr' = isr \union {irq, Level(irq)}
  /\ IF_flag' = FALSE
  /\ handler' = idt(irq)
  /\ panic' = (idt(irq) = generic_error)
  /\ UNCHANGED <<mask, imr, raised, rtcVars, flags, temp, code, wanted>>

----------------------------------------------------------------------------
(* The processor *)

Current == IF handler # <<>> THEN handler ELSE code
Instr == Head(Current)

\* The instruction op is executed next
Executes(op) == ~panic /\ Current # <<>> /\ Instr[1] = op

Advance == IF handler # <<>> THEN handler' = Tail(handler) /\ UNCHANGED code
           ELSE code' = Tail(code) /\ UNCHANGED handler

\* The mask in memory and the controller's, in one step: no handler uses them
SetMask(pic, lines) ==
  /\ mask' = [mask EXCEPT ![pic] = lines]
  /\ imr' = [imr EXCEPT ![pic] = lines]

Pic ==
  /\ \/ Executes("mask_all") /\ imr' = [imr EXCEPT ![Instr[2]] = 0..7] /\ UNCHANGED <<mask, irr, isr>>
     \/ /\ Executes("icw")
        /\ imr' = [imr EXCEPT ![Instr[2]] = {}]
        /\ irr' = {l \in irr : (l > 7) # (Instr[2] = "slave")}
        /\ isr' = {l \in isr : (l > 7) # (Instr[2] = "slave")}
        /\ UNCHANGED mask
     \/ Executes("mask") /\ SetMask(Instr[2], mask[Instr[2]] \union {Instr[3]}) /\ UNCHANGED <<irr, isr>>
     \/ Executes("unmask") /\ SetMask(Instr[2], mask[Instr[2]] \ {Instr[3]}) /\ UNCHANGED <<irr, isr>>
     \/ Executes("eoi") /\ isr' = isr \ {Instr[2]} /\ UNCHANGED <<mask, imr, irr>>
  /\ Advance
  /\ UNCHANGED <<raised, rtcVars, IF_flag, flags, temp, wanted, panic>>

\* Reading register C clears it
Select == Executes("select") /\ index' = Instr[2] /\ UNCHANGED <<regs, irr, temp>>
ReadReg == /\ Executes("in") \/ Executes("read")
           /\ temp' = IF Executes("in") THEN regs[index] ELSE temp
           /\ SetRegs(IF index = "C" THEN [regs EXCEPT !["C"] = [hi |-> 0, lo |-> 0]] ELSE regs)
           /\ UNCHANGED index

\* Register C ignores writes
Store(byte) == SetRegs(IF index = "C" THEN regs ELSE [regs EXCEPT ![index] = byte])
WriteReg == /\ \/ Executes("out_low") /\ Store([hi |-> temp.hi, lo |-> Instr[2]])
               \/ Executes("out_pie") /\ Store([temp EXCEPT !.hi = WithBit(@, PIE)])
            /\ UNCHANGED <<index, temp>>

Port ==
  /\ Select \/ ReadReg \/ WriteReg
  /\ Advance
  /\ UNCHANGED <<mask, imr, isr, raised, intflag, IF_flag, flags, wanted, panic>>

Flag ==
  /\ \/ Executes("set_flag") /\ intflag' = TRUE
     \/ Executes("clear_flag") /\ intflag' = FALSE
     \/ Executes("wait") /\ intflag /\ UNCHANGED intflag
  /\ Advance
  /\ UNCHANGED <<picVars, raised, index, regs, IF_flag, flags, temp, wanted, panic>>

\* cli_and_save, restore_flags, sti, and the iret of a handler
IfFlag ==
  /\ \/ Executes("cli") /\ flags' = <<IF_flag>> \o flags /\ IF_flag' = FALSE
     \/ Executes("restore") /\ IF_flag' = Head(flags) /\ flags' = Tail(flags)
     \/ (Executes("sti") \/ Executes("iret")) /\ IF_flag' = TRUE /\ UNCHANGED flags
  /\ Advance
  /\ UNCHANGED <<picVars, raised, rtcVars, temp, wanted, panic>>

ReadKey ==
  /\ Executes("read_key")
  /\ raised' = raised \ {IRQ_KEYBOARD}
  /\ Advance
  /\ UNCHANGED <<picVars, rtcVars, IF_flag, flags, temp, wanted, panic>>

Step == Pic \/ Port \/ Flag \/ IfFlag \/ ReadKey

\* The next routine: from a system call (open calls rtc_open), or from the
\* kernel itself with interrupts on
Start(routine, frequency) ==
  /\ ~panic /\ Current = <<>>
  /\ code' = routine
  /\ wanted' = frequency
  /\ UNCHANGED <<picVars, raised, rtcVars, flags, temp, handler, panic>>

SystemCall == Start(rtc_open \o << <<"sti">> >>, 2) /\ IF_flag' = FALSE

KernelCall ==
  /\ \/ Start(rtc_open, 2)
     \/ \E f \in Freqs : Start(rtc_write(f), f)
     \/ Start(rtc_read, wanted)
     \/ \E irq \in Disabled : \/ Start(disable_irq(irq), wanted)
                              \/ Start(enable_irq(irq), wanted)
  /\ UNCHANGED IF_flag

Next ==
  \/ Tick
  \/ \E d \in Devices : Raise(d)
  \/ \E irq \in 0..NUM_IRQ : Interrupt(irq)
  \/ Step
  \/ SystemCall
  \/ KernelCall

\* The processor executes and takes interrupts, the clock ticks, and its
\* handler is over long before the next tick: it leaves time to the caller
CallerStep == handler = <<>> /\ Step
Spec == /\ Init /\ [][Next]_vars
        /\ WF_vars(Step) /\ WF_vars(\E irq \in 0..NUM_IRQ : Interrupt(irq))
        /\ WF_vars(Tick) /\ SF_vars(CallerStep)

----------------------------------------------------------------------------
(* Properties *)

\* Once interrupts are on, the controllers mask what the kernel believes they
\* mask, although their initialisation clears it behind the kernel's back.
MasksAgree == IF_flag => imr = mask

\* No interrupt arrives that has no handler: the machine never stops in
\* generic_error because of a device the kernel does not know.
NoPanic == ~panic

\* A routine's select-and-access of the clock is never split by the clock's
\* own handler: the divider and the mode bits survive, interrupts stay
\* enabled, and the rate is the one written last.
RegistersKept ==
  /\ regs["A"].hi = 2 /\ regs["B"].lo = 2
  /\ Current = <<>> => regs["A"].lo = Rate(wanted) /\ regs["B"].hi = PIE

\* Between handlers nothing is left in service, and so no later interrupt is
\* held back, by the doubled EOI of the clock or otherwise.
NothingInService == handler = <<>> => isr = {}

\* A caller that waits in rtc_read with interrupts on gets its tick, however
\* often it waited before, in every behaviour in which the keyboard, which goes
\* before the clock, has no request from some point on.
Waiting == code # <<>> /\ Head(code) = <<"wait">>
TickWakes == <>[](IRQ_KEYBOARD \notin irr) => (Waiting ~> ~Waiting)
=============================================================================
