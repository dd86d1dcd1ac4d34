------------------------------- MODULE Paging -------------------------------
(***************************************************************************)
(* paging.c and what execute, halt and vidmap do to memory through it.     *)
(*                                                                         *)
(* Syscalls switches the program page in one step.  Here a switch is what  *)
(* the code does: an entry of the page directory is stored, the TLB is     *)
(* flushed, and everything the kernel and the programs touch in between    *)
(* goes through the translation that the processor uses at that moment.    *)
(* The processor may cache a translation whenever it likes.                *)
(*                                                                         *)
(* A virtual page is <<index in the directory, index in the table>>; a     *)
(* physical page is a number, a 4 MB frame NUM_ENTRIES of them.  Frame 0   *)
(* is the low memory, 1 the kernel, 2 + pid the program of process pid.    *)
(***************************************************************************)
EXTENDS Naturals

CONSTANTS
  NUM_ENTRIES,        \* entries of the directory and of a table (1024)
  VM_START,           \* page of the video memory (0xB8)
  PAGE_USER,          \* directory index of 128 MB (32)
  PAGE_VIDMAP,        \* directory index of 132 MB (33)
  PAGE_256MB,         \* directory index of 256 MB (64)
  NUM_MAX_PROCESSES,  \* 6
  Programs,           \* the programs of the image
  None                \* no program

ASSUME PagingAssumption ==
  /\ NUM_ENTRIES \in Nat /\ VM_START \in Nat /\ VM_START + 3 < NUM_ENTRIES
  /\ PAGE_USER \in 2..NUM_ENTRIES - 1 /\ PAGE_VIDMAP \in 2..NUM_ENTRIES - 1
  /\ PAGE_256MB \in 2..NUM_ENTRIES - 1
  /\ PAGE_USER # PAGE_VIDMAP /\ PAGE_256MB \notin {PAGE_USER, PAGE_VIDMAP}
  /\ NUM_MAX_PROCESSES \in Nat \ {0}
  /\ None \notin Programs

VARIABLES
  page_directory, page_table, video_pages,
  cr,            \* paging on, and 4 MB pages allowed (cr0 and cr4)
  tlb,           \* the translation that the processor has cached, or no_entry
  memory,        \* per frame: program image, command string, screen pointer
  pid_array, curr_process,
  pcb,           \* of each process: its parent and the stack it returns to
  k,             \* the step that the kernel is at, and its local variables
  asked,         \* the program that the caller of execute named, by process
  vidmapped      \* vidmap has been called with success

vars == <<page_directory, page_table, video_pages, cr, tlb, memory, pid_array,
          curr_process, pcb, k, asked, vidmapped>>
tables == <<page_directory, page_table, video_pages, cr>>
processes == <<pid_array, curr_process, pcb>>

Index == 0..NUM_ENTRIES - 1
Pids == 0..NUM_MAX_PROCESSES - 1
VIDEO == VM_START
KernelFrame == 1
FrameOf(pid) == 2 + pid
Frames == 0..1 + NUM_MAX_PROCESSES
VirtualPages == Index \X Index

\* Flags 2: not present; 3: present, for the kernel; 7: for programs, too
Pte(page, flags) == [present |-> flags # 2, user |-> flags = 7, page |-> page]
NotPresent == [present |-> FALSE, user |-> FALSE, table |-> "none", frame |-> 0]
Table(name, flags) == [present |-> TRUE, user |-> flags = 7, table |-> name, frame |-> 0]
Frame4MB(frame, user) == [present |-> TRUE, user |-> user, table |-> "none", frame |-> frame]

no_entry == [cached |-> FALSE]
Blank == [image |-> None, command |-> None, screen |-> <<0, 0>>]
At(step) == k.at = step

\* caller: whose stack execute returns to; wanted: the command as it was given
Step(at) == [at |-> at, then |-> "none", frame |-> 0, next |-> 0, caller |-> "user",
             prog |-> None, wanted |-> None]

----------------------------------------------------------------------------
(* The processor *)

Fault == [present |-> FALSE, user |-> FALSE, page |-> 0]

\* A directory entry with the page size bit is one only while cr4 allows it
Walk(v) ==
  LET pde == page_directory[v[1]]
      pte == IF pde.table = "page_table" THEN page_table[v[2]] ELSE video_pages[v[2]]
  IN  CASE ~cr.paging -> [present |-> TRUE, user |-> TRUE, page |-> v[1] * NUM_ENTRIES + v[2]]
        [] cr.paging /\ pde.present /\ pde.table = "none" /\ cr.pse ->
             [present |-> TRUE, user |-> pde.user, page |-> pde.frame * NUM_ENTRIES + v[2]]
        [] cr.paging /\ pde.present /\ pde.table # "none" /\ pte.present ->
             [present |-> TRUE, user |-> pde.user /\ pte.user, page |-> pte.page]
        [] OTHER -> Fault

Translate(v) == IF tlb.cached /\ tlb.page = v THEN tlb.to ELSE Walk(v)

\* The processor caches the translation of any mapped page at any time
Cache ==
  /\ cr.paging
  /\ \E v \in VirtualPages :
       /\ Walk(v).present
       /\ tlb' = [cached |-> TRUE, page |-> v, to |-> Walk(v)]
  /\ UNCHANGED <<tables, memory, processes, k, asked, vidmapped>>

----------------------------------------------------------------------------
(* paging_init *)

Init ==
  /\ page_directory = [i \in Index |-> NotPresent]
  /\ page_table = [i \in Index |-> Pte(0, 2)]
  /\ video_pages = [i \in Index |-> Pte(0, 2)]
  /\ cr = [paging |-> FALSE, pse |-> FALSE]
  /\ tlb = no_entry
  /\ memory = [f \in Frames |-> Blank]
  /\ pid_array = [p \in Pids |-> 0]
  /\ curr_process = 0
  /\ pcb = [p \in Pids |-> [parent_num |-> 0, parent_esp |-> "boot"]]
  /\ k = Step("init_tables")
  /\ asked = [p \in Pids |-> None]
  /\ vidmapped = FALSE

paging_init ==
  /\ At("init_tables")
  /\ page_directory' = [[i \in Index |-> NotPresent] EXCEPT
       ![0] = Table("page_table", 3), ![1] = Frame4MB(KernelFrame, FALSE)]
  /\ page_table' = [i \in Index |->
       Pte(i, IF i >= VM_START /\ i <= VM_START + 3 THEN 3 ELSE 2)]
  /\ k' = Step("init_cr4")
  /\ UNCHANGED <<video_pages, cr, tlb, memory, processes, asked, vidmapped>>

\* Mutant: cr0 is written before cr4
paging_init_cr4_last ==
  /\ At("init_cr4")
  /\ cr' = [cr EXCEPT !.paging = TRUE]
  /\ k' = Step("init_cr0")
  /\ UNCHANGED <<page_directory, page_table, video_pages, tlb, memory, processes, asked, vidmapped>>

paging_init_cr4 ==
  /\ At("init_cr4")
  /\ cr' = [cr EXCEPT !.pse = TRUE]
  /\ k' = Step("init_cr0")
  /\ UNCHANGED <<page_directory, page_table, video_pages, tlb, memory, processes, asked, vidmapped>>

paging_init_cr0 ==
  /\ At("init_cr0")
  /\ cr' = [cr EXCEPT !.paging = TRUE]
  /\ k' = Step("boot")
  /\ UNCHANGED <<page_directory, page_table, video_pages, tlb, memory, processes, asked, vidmapped>>

----------------------------------------------------------------------------
(* update_page_directory(128 MB, the frame in k, 0x87) and flush_tlb *)

\* Mutant: the flush is forgotten
update_page_directory_no_flush ==
  /\ At("update")
  /\ page_directory' = [page_directory EXCEPT ![PAGE_USER] = Frame4MB(k.frame, TRUE)]
  /\ k' = [k EXCEPT !.at = k.then]
  /\ UNCHANGED <<page_table, video_pages, cr, tlb, memory, processes, asked, vidmapped>>

update_page_directory ==
  /\ At("update")
  /\ page_directory' = [page_directory EXCEPT ![PAGE_USER] = Frame4MB(k.frame, TRUE)]
  /\ k' = [k EXCEPT !.at = "flush"]
  /\ UNCHANGED <<page_table, video_pages, cr, tlb, memory, processes, asked, vidmapped>>

flush_tlb ==
  /\ At("flush")
  /\ tlb' = no_entry
  /\ k' = [k EXCEPT !.at = k.then]
  /\ UNCHANGED <<tables, memory, processes, asked, vidmapped>>

Update(pid, then) == [k EXCEPT !.at = "update", !.frame = FrameOf(pid), !.then = then]

----------------------------------------------------------------------------
(* Memory as the kernel and the programs reach it through the program page *)

\* program_image, a program's command and its screen_start
Program == <<PAGE_USER, 0>>

FrameAt(v) == Translate(v).page \div NUM_ENTRIES
Store(value) == memory' = [memory EXCEPT ![FrameAt(Program)] = value]
Here == memory[FrameAt(Program)]

----------------------------------------------------------------------------
(* execute *)

\* The boot loop's command is a literal in the kernel's page
BootLoop ==
  /\ At("boot")
  /\ \E prog \in Programs :
       /\ memory' = [memory EXCEPT ![KernelFrame].command = prog]
       /\ k' = [Step("parse") EXCEPT !.wanted = prog, !.caller = "boot"]
  /\ UNCHANGED <<tables, tlb, processes, asked, vidmapped>>

\* A program writes a command into its memory and makes the call
Execute ==
  /\ At("user")
  /\ \E prog \in Programs :
       /\ Store([Here EXCEPT !.command = prog])
       /\ k' = [Step("parse") EXCEPT !.wanted = prog]
  /\ UNCHANGED <<tables, tlb, processes, asked, vidmapped>>

command == IF k.caller = "boot" THEN memory[KernelFrame].command ELSE Here.command

\* The name and the arguments are copied to the kernel's stack
execute_parse ==
  /\ At("parse")
  /\ k' = [k EXCEPT !.at = "take", !.prog = command]
  /\ UNCHANGED <<tables, tlb, memory, processes, asked, vidmapped>>

FreePids == {p \in Pids : pid_array[p] = 0}

execute_take ==
  /\ At("take")
  /\ IF FreePids = {}
     THEN k' = Step(k.caller) /\ UNCHANGED pid_array
     ELSE LET next_process == CHOOSE p \in FreePids : \A q \in FreePids : p <= q
          IN  /\ pid_array' = [pid_array EXCEPT ![next_process] = 1]
              /\ k' = [Update(next_process, "load") EXCEPT !.next = next_process]
  /\ UNCHANGED <<tables, tlb, memory, curr_process, pcb, asked, vidmapped>>

\* read_data into program_image, and the switch to the program
execute_load ==
  /\ At("load")
  /\ Store([Blank EXCEPT !.image = k.prog])
  /\ pcb' = [pcb EXCEPT ![k.next] = [parent_num |-> curr_process, parent_esp |-> k.caller]]
  /\ curr_process' = k.next
  /\ asked' = [asked EXCEPT ![k.next] = k.wanted]
  /\ k' = Step("user")
  /\ UNCHANGED <<tables, tlb, pid_array, vidmapped>>

\* Mutant: the caller's page is not mapped back
execute_load_failed_keeps ==
  /\ At("load")
  /\ Store(Blank)
  /\ k' = Step(k.caller)
  /\ UNCHANGED <<tables, tlb, processes, asked, vidmapped>>

\* A missing block: read_data stops half way, the caller's page is mapped back
execute_load_failed ==
  /\ At("load")
  /\ Store(Blank)
  /\ k' = Update(curr_process, k.caller)
  /\ UNCHANGED <<tables, tlb, processes, asked, vidmapped>>

----------------------------------------------------------------------------
(* halt *)

Halt ==
  /\ At("user")
  /\ k' = Update(pcb[curr_process].parent_num, "halted")
  /\ UNCHANGED <<tables, tlb, memory, processes, asked, vidmapped>>

\* return_to_execute, to the boot loop's stack or to a program's
halt_return ==
  /\ At("halted")
  /\ pid_array' = [pid_array EXCEPT ![curr_process] = 0]
  /\ curr_process' = pcb[curr_process].parent_num
  /\ asked' = [asked EXCEPT ![curr_process] = None]
  /\ k' = Step(pcb[curr_process].parent_esp)
  /\ UNCHANGED <<tables, tlb, memory, pcb, vidmapped>>

----------------------------------------------------------------------------
(* vidmap *)

\* screen_start lies in the program's page or the call is refused
Vidmap ==
  /\ At("user")
  /\ \E inRange \in BOOLEAN :
       IF inRange
       THEN /\ Store([Here EXCEPT !.screen = <<PAGE_256MB, 0>>])
            /\ k' = Step("vidmap_pde")
       ELSE UNCHANGED <<memory, k>>
  /\ UNCHANGED <<tables, tlb, processes, asked, vidmapped>>

\* Mutant: the entry names the table of the low memory
vidmap_pde_low ==
  /\ At("vidmap_pde")
  /\ page_directory' = [page_directory EXCEPT ![PAGE_VIDMAP] = Table("page_table", 7)]
  /\ k' = [k EXCEPT !.at = "vidmap_pte"]
  /\ UNCHANGED <<page_table, video_pages, cr, tlb, memory, processes, asked, vidmapped>>

vidmap_pde ==
  /\ At("vidmap_pde")
  /\ page_directory' = [page_directory EXCEPT ![PAGE_VIDMAP] = Table("video_pages", 7)]
  /\ k' = [k EXCEPT !.at = "vidmap_pte"]
  /\ UNCHANGED <<page_table, video_pages, cr, tlb, memory, processes, asked, vidmapped>>

vidmap_pte ==
  /\ At("vidmap_pte")
  /\ video_pages' = [video_pages EXCEPT ![0] = Pte(VIDEO, 7)]
  /\ k' = [k EXCEPT !.at = "flush", !.then = "vidmap_pointer"]
  /\ UNCHANGED <<page_directory, page_table, cr, tlb, memory, processes, asked, vidmapped>>

vidmap_pointer ==
  /\ At("vidmap_pointer")
  /\ Store([Here EXCEPT !.screen = <<PAGE_VIDMAP, 0>>])
  /\ vidmapped' = TRUE
  /\ k' = Step("user")
  /\ UNCHANGED <<tables, tlb, processes, asked>>

----------------------------------------------------------------------------

Next ==
  \/ Cache
  \/ paging_init \/ paging_init_cr4 \/ paging_init_cr0
  \/ update_page_directory \/ flush_tlb
  \/ BootLoop \/ Execute \/ execute_parse \/ execute_take
  \/ execute_load \/ execute_load_failed
  \/ Halt \/ halt_return
  \/ Vidmap \/ vidmap_pde \/ vidmap_pte \/ vidmap_pointer

Spec == Init /\ [][Next]_vars

----------------------------------------------------------------------------

Ptes == [present : BOOLEAN, user : BOOLEAN, page : Index]
Pdes == [present : BOOLEAN, user : BOOLEAN, table : {"none", "page_table", "video_pages"},
         frame : Frames]

Starting == {"init_tables", "init_cr4", "init_cr0"}
Steps ==
  [at : Starting \union {"boot", "user", "parse", "take", "load", "update", "flush", "halted",
                         "vidmap_pde", "vidmap_pte", "vidmap_pointer"},
   then : {"none", "load", "halted", "boot", "user", "vidmap_pointer"},
   frame : Frames, next : Pids, caller : {"boot", "user"},
   prog : Programs \union {None}, wanted : Programs \union {None}]

(***************************************************************************)
(* Every entry of the tables, every PCB and every step of the kernel has   *)
(* its type.                                                               *)
(***************************************************************************)
TypeOK ==
  /\ page_directory \in [Index -> Pdes]
  /\ page_table \in [Index -> Ptes] /\ video_pages \in [Index -> Ptes]
  /\ cr \in [paging : BOOLEAN, pse : BOOLEAN]
  /\ tlb.cached => tlb.page \in VirtualPages /\ tlb.to.present
  /\ memory \in [Frames -> [image : Programs \union {None}, command : Programs \union {None},
                            screen : VirtualPages]]
  /\ pid_array \in [Pids -> 0..1] /\ curr_process \in Pids
  /\ pcb \in [Pids -> [parent_num : Pids, parent_esp : {"boot", "user"}]]
  /\ k \in Steps
  /\ asked \in [Pids -> Programs \union {None}]
  /\ vidmapped \in BOOLEAN

(***************************************************************************)
(* From the moment the processor translates, the kernel's page and the     *)
(* video memory stay where the kernel was linked to use them, closed to    *)
(* programs, and every other address below 4 MB faults: whatever execute,  *)
(* halt and vidmap store in the directory, whose entries, like the tables  *)
(* and the PCBs, stay well formed.                                         *)
(***************************************************************************)
KernelMapped ==
  /\ TypeOK
  /\ cr.paging =>
       \A i \in Index :
         /\ Translate(<<1, i>>) = [present |-> TRUE, user |-> FALSE, page |-> NUM_ENTRIES + i]
         /\ Translate(<<0, i>>) = IF i \in VM_START..VM_START + 3
                                  THEN [present |-> TRUE, user |-> FALSE, page |-> i] ELSE Fault

(***************************************************************************)
(* A running program, through the translations that the processor has      *)
(* cached too, reaches its own 4 MB frame and nothing of the kernel or of  *)
(* another program; and the one page of video memory once some program has *)
(* called vidmap, whose entry halt leaves in place.                        *)
(***************************************************************************)
UserConfined ==
  At("user") =>
    \A v \in VirtualPages :
      LET t == Translate(v)
      IN  t.present /\ t.user =>
            \/ t.page \div NUM_ENTRIES = FrameOf(curr_process) /\ v[1] = PAGE_USER
            \/ t.page = VIDEO /\ vidmapped

(***************************************************************************)
(* The frame of every program that runs or waits for its child holds the   *)
(* program that was asked for: execute reads the command before it unmaps  *)
(* the caller and loads the image after the new mapping is in force, and a *)
(* load that fails overwrites nobody.                                      *)
(***************************************************************************)
ImagesKept ==
  \A p \in Pids : asked[p] # None => memory[FrameOf(p)].image = asked[p]

(***************************************************************************)
(* The pointer that vidmap gave a program leads to the video memory        *)
(* whenever that program runs, after any number of children, too.          *)
(***************************************************************************)
ScreenReachable ==
  At("user") =>
    LET screen == memory[FrameOf(curr_process)].screen
    IN  screen # <<0, 0>> =>
          Translate(screen) = [present |-> TRUE, user |-> TRUE, page |-> VIDEO]
=============================================================================
