---------------------------- MODULE PagingProof ----------------------------
(***************************************************************************)
(* Proofs about Paging for every size of the tables, every number of       *)
(* processes and every set of programs.                                    *)
(***************************************************************************)
EXTENDS Paging, Integers, WellFoundedInduction, TLAPS

----------------------------------------------------------------------------
(* The inductive invariant *)

\* The entry that maps the program page to the frame of process p
MapsTo(p) == Frame4MB(FrameOf(p), TRUE)

UserEntries == {NotPresent} \union {MapsTo(p) : p \in Pids}

LowPages == [i \in Index |-> Pte(i, IF i >= VM_START /\ i <= VM_START + 3 THEN 3 ELSE 2)]

\* What the tables hold: besides the program page and the video map nothing
\* changes once paging_init is through
Tables ==
  /\ At("init_tables") => page_directory = [i \in Index |-> NotPresent]
  /\ ~At("init_tables") =>
       /\ page_directory[0] = Table("page_table", 3)
       /\ page_directory[1] = Frame4MB(KernelFrame, FALSE)
       /\ page_table = LowPages
  /\ \A i \in Index \ {0, 1, PAGE_USER, PAGE_VIDMAP} : page_directory[i] = NotPresent
  /\ page_directory[PAGE_USER] \in UserEntries
  /\ page_directory[PAGE_VIDMAP] \in {NotPresent, Table("video_pages", 7)}
  /\ video_pages[0] \in {Pte(0, 2), Pte(VIDEO, 7)}
  /\ \A i \in Index \ {0} : video_pages[i] = Pte(0, 2)

\* 4 MB pages are allowed before paging is turned on
Control ==
  /\ cr.paging <=> k.at \notin Starting
  /\ k.at \notin {"init_tables", "init_cr4"} => cr.pse

\* A cached translation is the one that the tables hold, but for the program
\* page between the store of its entry and the flush
Cached ==
  /\ tlb.cached \in BOOLEAN
  /\ tlb.cached =>
       /\ cr.paging
       /\ tlb.page \in VirtualPages
       /\ tlb.to.present
       /\ tlb.to = Walk(tlb.page) \/ (At("flush") /\ tlb.page[1] = PAGE_USER)

\* Which process's frame the program page shows at each step of the kernel
Mapped ==
  /\ k.at \in {"user", "vidmap_pde", "vidmap_pte", "vidmap_pointer"}
       => page_directory[PAGE_USER] = MapsTo(curr_process)
  /\ k.at \in {"parse", "take"} /\ k.caller = "user"
       => page_directory[PAGE_USER] = MapsTo(curr_process)
  /\ At("load") => page_directory[PAGE_USER] = MapsTo(k.next)
  /\ At("halted") => page_directory[PAGE_USER] = MapsTo(pcb[curr_process].parent_num)
  /\ k.at \in {"update", "flush"} =>
       /\ k.then \in {"load", "halted", "boot", "user", "vidmap_pointer"}
       /\ k.then = "load" => k.frame = FrameOf(k.next)
       /\ k.then = "halted" => k.frame = FrameOf(pcb[curr_process].parent_num)
       /\ k.then \in {"boot", "user"} => k.frame = FrameOf(curr_process)
  /\ At("update") => k.then # "vidmap_pointer"
  /\ At("flush") =>
       IF k.then = "vidmap_pointer"
       THEN page_directory[PAGE_USER] = MapsTo(curr_process)
       ELSE page_directory[PAGE_USER] = Frame4MB(k.frame, TRUE)

\* A load is under way, into the frame of k.next
Loading == At("load") \/ (k.at \in {"update", "flush"} /\ k.then = "load")

\* The command survives from the caller's memory to the loader, and a process
\* number that is being loaded belonged to nobody
Commands ==
  /\ At("parse") => k.wanted = IF k.caller = "boot" THEN memory[KernelFrame].command
                               ELSE memory[FrameOf(curr_process)].command
  /\ At("take") \/ Loading => k.prog = k.wanted
  /\ Loading => asked[k.next] = None /\ pid_array[k.next] = 1
  /\ \A p \in Pids : asked[p] # None => pid_array[p] = 1

InVidmap == \/ k.at \in {"vidmap_pde", "vidmap_pte", "vidmap_pointer"}
            \/ At("flush") /\ k.then = "vidmap_pointer"

\* The video map is complete once a call of vidmap has returned, and outside
\* the call complete only then; pointers to it are given out only then
VideoMap ==
  /\ page_directory[PAGE_VIDMAP].present /\ video_pages[0].present /\ ~InVidmap => vidmapped
  /\ vidmapped \/ At("vidmap_pointer") \/ (At("flush") /\ k.then = "vidmap_pointer")
       => page_directory[PAGE_VIDMAP].present /\ video_pages[0].present
  /\ At("vidmap_pte") => page_directory[PAGE_VIDMAP].present
  /\ \A p \in Pids :
       \/ InVidmap /\ p = curr_process
       \/ memory[FrameOf(p)].screen = <<0, 0>>
       \/ memory[FrameOf(p)].screen = <<PAGE_VIDMAP, 0>> /\ vidmapped

IInv == /\ TypeOK /\ Tables /\ Control /\ Cached
        /\ Mapped /\ Commands /\ ImagesKept /\ VideoMap

----------------------------------------------------------------------------
(* Translation *)

LEMMA FrameOfPage ==
  ASSUME NEW f \in Nat, NEW j \in Index
  PROVE  /\ f * NUM_ENTRIES + j \in Nat
         /\ (f * NUM_ENTRIES + j) \div NUM_ENTRIES = f
<1> DEFINE N == NUM_ENTRIES
           q == (f * N + j) \div N
<1>1. N \in Nat /\ N > 0 /\ j \in Nat /\ j < N
  BY PagingAssumption DEF Index
<1>2. f * N + j \in Nat
  BY <1>1
<1>3. q \in Int /\ N * q <= f * N + j /\ f * N + j < N * q + N
  BY <1>1, <1>2
<1>4. ~(q <= f - 1)
  <2>1. SUFFICES ASSUME q <= f - 1 PROVE FALSE
    OBVIOUS
  <2>2. N * q <= N * (f - 1)
    BY <2>1, <1>1, <1>3
  <2>. QED
    BY <2>2, <1>1, <1>3
<1>5. ~(q >= f + 1)
  <2>1. SUFFICES ASSUME q >= f + 1 PROVE FALSE
    OBVIOUS
  <2>2. N * q >= N * (f + 1)
    BY <2>1, <1>1, <1>3
  <2>. QED
    BY <2>2, <1>1, <1>3
<1>. QED
  BY <1>2, <1>3, <1>4, <1>5

\* Entries, field by field
LEMMA TableValue ==
  ASSUME NEW name
  PROVE  /\ Table(name, 3) = [present |-> TRUE, user |-> FALSE, table |-> name, frame |-> 0]
         /\ Table(name, 7) = [present |-> TRUE, user |-> TRUE, table |-> name, frame |-> 0]
<1>1. (3 = 7) = FALSE /\ (7 = 7) = TRUE
  OBVIOUS
<1>. QED
  BY <1>1, Zenon DEF Table

LEMMA PteValue ==
  ASSUME NEW page
  PROVE  /\ Pte(page, 2) = [present |-> FALSE, user |-> FALSE, page |-> page]
         /\ Pte(page, 3) = [present |-> TRUE, user |-> FALSE, page |-> page]
         /\ Pte(page, 7) = [present |-> TRUE, user |-> TRUE, page |-> page]
<1>1. /\ (2 = 7) = FALSE /\ (3 = 7) = FALSE /\ (7 = 7) = TRUE
      /\ (2 # 2) = FALSE /\ (3 # 2) = TRUE /\ (7 # 2) = TRUE
  OBVIOUS
<1>. QED
  BY <1>1, Zenon DEF Pte

\* What the tables translate a page to, directory entry by directory entry
LEMMA WalkValues ==
  ASSUME TypeOK, Tables, Control, cr.paging, NEW v \in VirtualPages
  PROVE  /\ v[1] = 0 => Walk(v) = IF v[2] \in VM_START..VM_START + 3
                                  THEN [present |-> TRUE, user |-> FALSE, page |-> v[2]]
                                  ELSE Fault
         /\ v[1] = 1 => Walk(v) = [present |-> TRUE, user |-> FALSE, page |-> NUM_ENTRIES + v[2]]
         /\ v[1] = PAGE_USER =>
              Walk(v) = IF page_directory[PAGE_USER].present
                        THEN [present |-> TRUE, user |-> TRUE,
                              page |-> page_directory[PAGE_USER].frame * NUM_ENTRIES + v[2]]
                        ELSE Fault
         /\ v[1] = PAGE_VIDMAP =>
              Walk(v) = IF page_directory[PAGE_VIDMAP].present /\ video_pages[0].present /\ v[2] = 0
                        THEN [present |-> TRUE, user |-> TRUE, page |-> VIDEO]
                        ELSE Fault
         /\ v[1] \notin {0, 1, PAGE_USER, PAGE_VIDMAP} => Walk(v) = Fault
<1>1. /\ ~At("init_tables") /\ cr.pse
      /\ v[1] \in Index /\ v[2] \in Index
  BY DEF Control, At, Starting, VirtualPages
<1>a. v[1] \in Nat /\ v[2] \in Nat
  BY <1>1 DEF Index
<1>b. /\ PAGE_USER \notin {0, 1} /\ PAGE_VIDMAP \notin {0, 1} /\ PAGE_USER # PAGE_VIDMAP
      /\ NUM_ENTRIES \in Nat /\ VM_START \in Nat
  BY PagingAssumption
<1>2. ASSUME v[1] = 0
      PROVE  Walk(v) = IF v[2] \in VM_START..VM_START + 3
                       THEN [present |-> TRUE, user |-> FALSE, page |-> v[2]] ELSE Fault
  <2>1. page_directory[v[1]] = [present |-> TRUE, user |-> FALSE, table |-> "page_table", frame |-> 0]
    BY <1>1, <1>2, TableValue DEF Tables
  <2>2. CASE v[2] \in VM_START..VM_START + 3
    <3>1. v[2] >= VM_START /\ v[2] <= VM_START + 3
      BY <1>a, <1>b, <2>2
    <3>2. page_table[v[2]] = [present |-> TRUE, user |-> FALSE, page |-> v[2]]
      BY <1>1, <3>1, PteValue DEF Tables, LowPages
    <3>3. (page_directory[v[1]].user /\ page_table[v[2]].user) = FALSE
      BY <2>1, <3>2
    <3>4. Walk(v) = [present |-> TRUE, user |-> page_directory[v[1]].user /\ page_table[v[2]].user,
                     page |-> v[2]]
      BY <2>1, <3>2 DEF Walk
    <3>. QED
      BY <2>2, <3>3, <3>4, Zenon
  <2>3. CASE v[2] \notin VM_START..VM_START + 3
    <3>1. ~(v[2] >= VM_START /\ v[2] <= VM_START + 3)
      BY <1>a, <1>b, <2>3
    <3>2. page_table[v[2]] = Pte(v[2], 2)
      BY <1>1, <1>a, <1>b, <3>1 DEF Tables, LowPages
    <3>3. page_table[v[2]].present = FALSE
      BY <3>2, PteValue
    <3>. QED
      BY <2>1, <2>3, <3>3 DEF Walk
  <2>. QED
    BY <2>2, <2>3
<1>3. ASSUME v[1] = 1
      PROVE  Walk(v) = [present |-> TRUE, user |-> FALSE, page |-> NUM_ENTRIES + v[2]]
  <2>1. page_directory[v[1]] = [present |-> TRUE, user |-> FALSE, table |-> "none", frame |-> 1]
    BY <1>1, <1>3 DEF Tables, Frame4MB, KernelFrame
  <2>2. Walk(v) = [present |-> TRUE, user |-> FALSE, page |-> 1 * NUM_ENTRIES + v[2]]
    BY <1>1, <2>1 DEF Walk
  <2>3. 1 * NUM_ENTRIES + v[2] = NUM_ENTRIES + v[2]
    BY <1>a, <1>b
  <2>. QED
    BY <2>2, <2>3, Zenon
<1>4. ASSUME v[1] = PAGE_USER
      PROVE  Walk(v) = IF page_directory[PAGE_USER].present
                       THEN [present |-> TRUE, user |-> TRUE,
                             page |-> page_directory[PAGE_USER].frame * NUM_ENTRIES + v[2]]
                       ELSE Fault
  <2> DEFINE pde == page_directory[v[1]]
  <2>1. \/ pde = NotPresent
        \/ pde.present = TRUE /\ pde.user = TRUE /\ pde.table = "none"
    BY <1>4 DEF Tables, UserEntries, MapsTo, Frame4MB
  <2>2. CASE pde = NotPresent
    BY <1>1, <1>4, <2>2 DEF Walk, NotPresent
  <2>3. CASE pde.present = TRUE /\ pde.user = TRUE /\ pde.table = "none"
    BY <1>1, <1>4, <2>3 DEF Walk
  <2>. QED
    BY <2>1, <2>2, <2>3
<1>5. ASSUME v[1] = PAGE_VIDMAP
      PROVE  Walk(v) = IF page_directory[PAGE_VIDMAP].present /\ video_pages[0].present /\ v[2] = 0
                       THEN [present |-> TRUE, user |-> TRUE, page |-> VIDEO]
                       ELSE Fault
  <2> DEFINE pde == page_directory[v[1]]
  <2>1. \/ pde = NotPresent
        \/ pde.present = TRUE /\ pde.user = TRUE /\ pde.table = "video_pages"
    BY <1>5, TableValue DEF Tables
  <2>2. /\ v[2] # 0 => video_pages[v[2]].present = FALSE
        /\ \/ video_pages[0].present = FALSE
           \/ video_pages[0].present = TRUE /\ video_pages[0].user = TRUE /\ video_pages[0].page = VIDEO
    BY <1>1, PteValue DEF Tables
  <2>3. CASE pde = NotPresent
    BY <1>1, <1>5, <2>3 DEF Walk, NotPresent
  <2>4. CASE pde.present = TRUE /\ pde.user = TRUE /\ pde.table = "video_pages"
    BY <1>1, <1>5, <2>2, <2>4 DEF Walk
  <2>. QED
    BY <2>1, <2>3, <2>4
<1>6. ASSUME v[1] \notin {0, 1, PAGE_USER, PAGE_VIDMAP}
      PROVE  Walk(v) = Fault
  <2>1. page_directory[v[1]].present = FALSE
    BY <1>1, <1>6 DEF Tables, NotPresent
  <2>. QED
    BY <2>1 DEF Walk
<1>. QED
  BY <1>2, <1>3, <1>4, <1>5, <1>6, Zenon

\* The tables alone decide how a page is translated
LEMMA WalkUnchanged ==
  ASSUME UNCHANGED tables
  PROVE  \A v : Walk(v)' = Walk(v)
BY DEF tables, Walk

\* Through the program page the kernel reaches the frame that it shows
LEMMA ProgramFrame ==
  ASSUME IInv, k.at \notin Starting \union {"flush"},
         NEW p \in Pids, page_directory[PAGE_USER] = MapsTo(p)
  PROVE  FrameAt(Program) = FrameOf(p) /\ FrameOf(p) \in Frames
<1>1. Program \in VirtualPages /\ Program[1] = PAGE_USER /\ Program[2] = 0
  BY PagingAssumption DEF Program, VirtualPages, Index
<1>2. cr.paging
  BY DEF IInv, Control
<1>3. Walk(Program) = [present |-> TRUE, user |-> TRUE, page |-> FrameOf(p) * NUM_ENTRIES + 0]
  <2>1. page_directory[PAGE_USER].present = TRUE /\ page_directory[PAGE_USER].frame = FrameOf(p)
    BY DEF MapsTo, Frame4MB
  <2>. QED
    BY <1>1, <1>2, <2>1, WalkValues DEF IInv
<1>4. Translate(Program) = Walk(Program)
  BY DEF IInv, Cached, Translate, At
<1>5. FrameOf(p) \in Nat /\ FrameOf(p) \in Frames /\ 0 \in Index
  BY PagingAssumption DEF Pids, FrameOf, Frames, Index
<1>. QED
  BY <1>3, <1>4, <1>5, FrameOfPage DEF FrameAt

----------------------------------------------------------------------------
(* The invariant holds at the start and is kept *)

LEMMA InitIInv == Init => IInv
<1> SUFFICES ASSUME Init PROVE IInv
  OBVIOUS
<1>1. /\ 0 \in Index /\ 0 \in Pids /\ 0 \in Frames
      /\ \A p \in Pids : FrameOf(p) \in Frames
      /\ PAGE_USER \in Index /\ PAGE_VIDMAP \in Index
      /\ PAGE_USER \notin {0, 1} /\ PAGE_VIDMAP \notin {0, 1}
  BY PagingAssumption DEF Index, Pids, Frames, FrameOf
<1>2. NotPresent \in Pdes /\ Pte(0, 2) \in Ptes /\ ~Pte(0, 2).present
  <2>1. NotPresent \in Pdes
    BY <1>1 DEF NotPresent, Pdes
  <2>2. Pte(0, 2) = [present |-> FALSE, user |-> FALSE, page |-> 0]
    BY PteValue, Zenon
  <2>3. [present |-> FALSE, user |-> FALSE, page |-> 0] \in Ptes
    BY <1>1 DEF Ptes
  <2>4. ~[present |-> FALSE, user |-> FALSE, page |-> 0].present
    OBVIOUS
  <2>. QED
    BY <2>1, <2>2, <2>3, <2>4, Zenon
<1>3. TypeOK
  <2>1. /\ page_directory \in [Index -> Pdes]
        /\ page_table \in [Index -> Ptes] /\ video_pages \in [Index -> Ptes]
    BY <1>2 DEF Init
  <2>2. /\ cr \in [paging : BOOLEAN, pse : BOOLEAN]
        /\ ~tlb.cached
        /\ vidmapped \in BOOLEAN
    BY DEF Init, no_entry
  <2>3. memory \in [Frames -> [image : Programs \union {None}, command : Programs \union {None},
                               screen : VirtualPages]]
    BY <1>1 DEF Init, Blank, VirtualPages
  <2>4. /\ pid_array \in [Pids -> 0..1] /\ curr_process \in Pids
        /\ pcb \in [Pids -> [parent_num : Pids, parent_esp : {"boot", "user"}]]
        /\ asked \in [Pids -> Programs \union {None}]
    BY <1>1 DEF Init
  <2>5. k \in Steps
    BY <1>1 DEF Init, Step, Steps, Starting
  <2>. QED
    BY <2>1, <2>2, <2>3, <2>4, <2>5 DEF TypeOK
<1>4. Tables
  BY <1>1, PagingAssumption DEF Init, Tables, UserEntries, At, Step
<1>5. Control /\ Cached
  BY DEF Init, Control, Cached, no_entry, Step, Starting
<1>6. Mapped /\ Commands
  BY DEF Init, Mapped, Commands, Loading, Step, At
<1>7. ImagesKept
  BY DEF Init, ImagesKept
<1>8. VideoMap
  BY <1>1, <1>2 DEF Init, VideoMap, InVidmap, NotPresent, Blank, Step, At
<1>. QED
  BY <1>3, <1>4, <1>5, <1>6, <1>7, <1>8 DEF IInv

\* A step of the kernel that stores to no table
LEMMA KeepTables ==
  ASSUME IInv, UNCHANGED <<tables, tlb>>,
         k.at \notin Starting \union {"flush"}, k'.at \notin Starting
  PROVE  Tables' /\ Control' /\ Cached'
<1>1. UNCHANGED <<page_directory, page_table, video_pages, cr, tlb>>
  BY DEF tables
<1>2. Tables'
  BY <1>1 DEF IInv, Tables, At, Starting
<1>3. Control'
  BY <1>1 DEF IInv, Control, Starting
<1>4. Cached'
  BY <1>1, WalkUnchanged DEF IInv, Cached, At
<1>. QED
  BY <1>2, <1>3, <1>4

LEMMA CacheIInv == IInv /\ Cache => IInv'
<1> SUFFICES ASSUME IInv, Cache PROVE IInv'
  OBVIOUS
<1>1. UNCHANGED <<page_directory, page_table, video_pages, cr, memory, pid_array, curr_process,
                  pcb, k, asked, vidmapped>>
  BY DEF Cache, tables, processes
<1>2. TypeOK' /\ Cached'
  <2>1. PICK v \in VirtualPages : /\ Walk(v).present
                                  /\ tlb' = [cached |-> TRUE, page |-> v, to |-> Walk(v)]
    BY DEF Cache
  <2>2. cr.paging /\ UNCHANGED tables
    BY <1>1 DEF Cache, tables
  <2>3. TypeOK'
    BY <1>1, <2>1 DEF IInv, TypeOK
  <2>4. Cached'
    BY <1>1, <2>1, <2>2, WalkUnchanged DEF Cached
  <2>. QED
    BY <2>3, <2>4
<1>3. Tables' /\ Control'
  BY <1>1 DEF IInv, Tables, Control, At
<1>4. Mapped'
  BY <1>1 DEF IInv, Mapped, At
<1>5. Commands' /\ ImagesKept'
  BY <1>1 DEF IInv, Commands, ImagesKept, At, Loading
<1>6. VideoMap'
  BY <1>1 DEF IInv, VideoMap, At, InVidmap
<1>. QED
  BY <1>2, <1>3, <1>4, <1>5, <1>6 DEF IInv

\* The three steps of paging_init
LEMMA StartIInv == IInv /\ (paging_init \/ paging_init_cr4 \/ paging_init_cr0) => IInv'
<1> SUFFICES ASSUME IInv, paging_init \/ paging_init_cr4 \/ paging_init_cr0 PROVE IInv'
  OBVIOUS
<1>1. /\ k.at \in Starting
      /\ k' \in {Step("init_cr4"), Step("init_cr0"), Step("boot")}
      /\ UNCHANGED <<video_pages, tlb, memory, pid_array, curr_process, pcb, asked, vidmapped>>
  BY DEF paging_init, paging_init_cr4, paging_init_cr0, processes, At, Starting
<1>2. ~tlb.cached /\ Cached'
  BY <1>1 DEF IInv, Control, Cached
<1>3. /\ 0 \in Index /\ 1 \in Index /\ 0 \in Pids /\ 0 \in Frames /\ 1 \in Frames
      /\ PAGE_USER \in Index /\ PAGE_VIDMAP \in Index
      /\ PAGE_USER \notin {0, 1} /\ PAGE_VIDMAP \notin {0, 1}
  BY PagingAssumption DEF Index, Pids, Frames
<1>4. /\ page_directory' \in [Index -> Pdes] /\ page_table' \in [Index -> Ptes]
      /\ cr' \in [paging : BOOLEAN, pse : BOOLEAN]
      /\ Tables' /\ Control'
      /\ page_directory'[PAGE_VIDMAP].present = page_directory[PAGE_VIDMAP].present
  <2>1. CASE paging_init
    <3>1. /\ Table("page_table", 3) \in Pdes /\ Frame4MB(KernelFrame, FALSE) \in Pdes
          /\ NotPresent \in Pdes
      <4>1. /\ [present |-> TRUE, user |-> FALSE, table |-> "page_table", frame |-> 0] \in Pdes
            /\ Frame4MB(KernelFrame, FALSE) \in Pdes /\ NotPresent \in Pdes
        BY <1>3 DEF Pdes, Frame4MB, KernelFrame, NotPresent
      <4>. QED
        BY <4>1, TableValue, Zenon
    <3>2. page_directory' \in [Index -> Pdes]
      BY <2>1, <3>1 DEF paging_init
    <3>3. \A i \in Index : Pte(i, 2) \in Ptes /\ Pte(i, 3) \in Ptes
      <4> SUFFICES ASSUME NEW i \in Index PROVE Pte(i, 2) \in Ptes /\ Pte(i, 3) \in Ptes
        OBVIOUS
      <4>1. /\ [present |-> FALSE, user |-> FALSE, page |-> i] \in Ptes
            /\ [present |-> TRUE, user |-> FALSE, page |-> i] \in Ptes
        BY DEF Ptes
      <4>. QED
        BY <4>1, PteValue, Zenon
    <3>4. page_table' \in [Index -> Ptes]
      BY <2>1, <3>3 DEF paging_init
    <3>5. /\ page_directory = [i \in Index |-> NotPresent]
          /\ page_directory' = [[i \in Index |-> NotPresent] EXCEPT
               ![0] = Table("page_table", 3), ![1] = Frame4MB(KernelFrame, FALSE)]
          /\ page_table' = LowPages /\ cr' = cr /\ k.at = "init_tables" /\ k'.at = "init_cr4"
      BY <2>1 DEF paging_init, LowPages, IInv, Tables, At, Step
    <3>6. Tables'
      <4>1. /\ page_directory'[0] = Table("page_table", 3)
            /\ page_directory'[1] = Frame4MB(KernelFrame, FALSE)
            /\ \A i \in Index \ {0, 1} : page_directory'[i] = NotPresent
        <5> DEFINE blank == [i \in Index |-> NotPresent]
        <5>1. page_directory' = [[blank EXCEPT ![0] = Table("page_table", 3)] EXCEPT
                                   ![1] = Frame4MB(KernelFrame, FALSE)]
          BY <3>5, Zenon
        <5>2. \A i \in Index : blank[i] = NotPresent
          OBVIOUS
        <5>3. DOMAIN blank = Index
          OBVIOUS
        <5> HIDE DEF blank
        <5> DEFINE first == [blank EXCEPT ![0] = Table("page_table", 3)]
        <5>4. /\ DOMAIN first = Index /\ first[0] = Table("page_table", 3)
              /\ \A i \in Index \ {0} : first[i] = NotPresent
          BY <1>3, <5>2, <5>3
        <5>5. page_directory' = [first EXCEPT ![1] = Frame4MB(KernelFrame, FALSE)]
          BY <5>1
        <5> HIDE DEF first
        <5>6. page_directory'[1] = Frame4MB(KernelFrame, FALSE)
          BY <1>3, <5>4, <5>5
        <5>7. \A i \in Index : i # 1 => page_directory'[i] = first[i]
          BY <1>3, <5>4, <5>5
        <5>. QED
          BY <1>3, <5>4, <5>6, <5>7
      <4>. QED
        BY <1>1, <1>3, <3>5, <4>1 DEF IInv, Tables, UserEntries, At
    <3>7. Control'
      BY <3>5 DEF IInv, Control, Starting
    <3>. QED
      BY <1>3, <3>2, <3>4, <3>5, <3>6, <3>7 DEF IInv, TypeOK
  <2>2. CASE paging_init_cr4 \/ paging_init_cr0
    <3>1. UNCHANGED <<page_directory, page_table>> /\ k.at # "init_tables" /\ k'.at # "init_tables"
      BY <2>2 DEF paging_init_cr4, paging_init_cr0, At, Step
    <3>2. cr' \in [paging : BOOLEAN, pse : BOOLEAN]
      BY <2>2 DEF paging_init_cr4, paging_init_cr0, IInv, TypeOK
    <3>3. Tables'
      BY <1>1, <3>1 DEF IInv, Tables, At
    <3>4. Control'
      <4>1. CASE paging_init_cr4
        <5>1. k'.at = "init_cr0" /\ cr'.paging = cr.paging /\ ~cr.paging
          BY <1>1, <4>1 DEF paging_init_cr4, IInv, TypeOK, Control, Step
        <5>2. k'.at \in Starting /\ cr'.pse
          BY <4>1, <5>1 DEF paging_init_cr4, IInv, TypeOK, Starting
        <5>. QED
          BY <5>1, <5>2, Zenon DEF Control
      <4>2. CASE paging_init_cr0
        <5>1. k'.at = "boot" /\ cr'.paging = TRUE /\ cr'.pse = cr.pse
          BY <1>1, <4>2 DEF paging_init_cr0, IInv, TypeOK, Step
        <5>2. cr.pse
          BY <4>2 DEF paging_init_cr0, IInv, Control, At
        <5>3. k'.at \notin Starting
          BY <5>1 DEF Starting
        <5>. QED
          BY <5>1, <5>2, <5>3 DEF Control
      <4>. QED
        BY <2>2, <4>1, <4>2
    <3>. QED
      BY <3>1, <3>2, <3>3, <3>4 DEF IInv, TypeOK
  <2>. QED
    BY <2>1, <2>2
<1>5. TypeOK'
  <2>1. k' \in Steps
    BY <1>1, <1>3 DEF Step, Steps, Starting
  <2>. QED
    BY <1>1, <1>2, <1>4, <2>1 DEF IInv, TypeOK
<1>6. Mapped'
  <2>1. k'.at \in {"init_cr4", "init_cr0", "boot"}
    BY <1>1 DEF Step
  <2>. QED
    BY <2>1 DEF Mapped, At
<1>7. Commands' /\ ImagesKept'
  <2>1. k'.at \notin {"parse", "take", "load", "update", "flush"}
    BY <1>1 DEF Step
  <2>. QED
    BY <1>1, <2>1 DEF IInv, Commands, ImagesKept, At, Loading
<1>8. VideoMap'
  <2>1. ~InVidmap /\ ~InVidmap' /\ ~At("vidmap_pointer")' /\ ~At("flush")' /\ ~At("vidmap_pte")'
    BY <1>1 DEF Step, At, InVidmap, Starting
  <2>. QED
    BY <1>1, <1>4, <2>1 DEF IInv, VideoMap
<1>. QED
  BY <1>2, <1>4, <1>5, <1>6, <1>7, <1>8 DEF IInv

\* The store of the program page's entry: it makes stale what is cached of
\* that page and nothing else
LEMMA UpdateIInv == IInv /\ update_page_directory => IInv'
<1> SUFFICES ASSUME IInv, update_page_directory PROVE IInv'
  OBVIOUS
<1>1. /\ k.at = "update" /\ k' = [k EXCEPT !.at = "flush"]
      /\ page_directory' = [page_directory EXCEPT ![PAGE_USER] = Frame4MB(k.frame, TRUE)]
      /\ UNCHANGED <<page_table, video_pages, cr, tlb, memory, pid_array, curr_process, pcb,
                     asked, vidmapped>>
  BY DEF update_page_directory, processes, At
<1>2. /\ PAGE_USER \in Index /\ PAGE_VIDMAP \in Index /\ 0 \in Index /\ 1 \in Index
      /\ PAGE_USER \notin {0, 1, PAGE_VIDMAP}
  BY PagingAssumption DEF Index
<1>3. k \in Steps /\ k.frame \in Frames /\ page_directory \in [Index -> Pdes]
  BY DEF IInv, TypeOK, Steps
<1>4. /\ k' \in Steps /\ k'.at = "flush" /\ k'.then = k.then /\ k'.frame = k.frame
      /\ k'.next = k.next /\ k'.prog = k.prog /\ k'.wanted = k.wanted
  BY <1>1, <1>3 DEF Steps
<1>5. PICK p \in Pids : k.frame = FrameOf(p)
  BY <1>1, <1>3 DEF IInv, TypeOK, Mapped, Steps, At
<1>6. TypeOK'
  <2>1. Frame4MB(k.frame, TRUE) \in Pdes
    BY <1>3 DEF Frame4MB, Pdes
  <2>2. page_directory' \in [Index -> Pdes]
    BY <1>1, <1>3, <2>1
  <2>. QED
    BY <1>1, <1>4, <2>2 DEF IInv, TypeOK
<1>7. Tables' /\ Control'
  <2>1. page_directory'[PAGE_USER] \in UserEntries
    BY <1>1, <1>2, <1>3, <1>5 DEF UserEntries, MapsTo
  <2>2. \A i \in Index : i # PAGE_USER => page_directory'[i] = page_directory[i]
    BY <1>1, <1>3
  <2>. QED
    BY <1>1, <1>2, <1>4, <2>1, <2>2 DEF IInv, Tables, Control, At, Starting
<1>8. Cached'
  <2>1. ASSUME NEW v \in VirtualPages, v[1] # PAGE_USER PROVE Walk(v)' = Walk(v)
    <3>1. page_directory'[v[1]] = page_directory[v[1]]
      BY <1>1, <1>3, <2>1 DEF VirtualPages
    <3>. QED
      BY <1>1, <3>1 DEF Walk
  <2>. QED
    BY <1>1, <1>4, <2>1 DEF IInv, Cached, At
<1>9. Mapped'
  <2>1. page_directory'[PAGE_USER] = Frame4MB(k'.frame, TRUE)
    BY <1>1, <1>2, <1>3, <1>4
  <2>2. k.then # "vidmap_pointer"
    BY <1>1 DEF IInv, Mapped, At
  <2>. QED
    BY <1>1, <1>4, <2>1, <2>2 DEF IInv, Mapped, At
<1>10. Commands' /\ ImagesKept'
  BY <1>1, <1>4 DEF IInv, Commands, ImagesKept, At, Loading
<1>11. VideoMap'
  <2>1. page_directory'[PAGE_VIDMAP] = page_directory[PAGE_VIDMAP]
    BY <1>1, <1>2, <1>3
  <2>2. k.then # "vidmap_pointer"
    BY <1>1 DEF IInv, Mapped, At
  <2>3. ~InVidmap /\ ~InVidmap' /\ ~At("vidmap_pointer")' /\ ~At("vidmap_pte")' /\ k'.then # "vidmap_pointer"
    BY <1>1, <1>4, <2>2 DEF InVidmap, At
  <2>. QED
    BY <1>1, <2>1, <2>3 DEF IInv, VideoMap
<1>. QED
  BY <1>6, <1>7, <1>8, <1>9, <1>10, <1>11 DEF IInv

LEMMA FlushIInv == IInv /\ flush_tlb => IInv'
<1> SUFFICES ASSUME IInv, flush_tlb PROVE IInv'
  OBVIOUS
<1>1. /\ k.at = "flush" /\ k' = [k EXCEPT !.at = k.then] /\ tlb' = no_entry
      /\ UNCHANGED <<page_directory, page_table, video_pages, cr, memory, pid_array, curr_process,
                     pcb, asked, vidmapped>>
  BY DEF flush_tlb, tables, processes, At
<1>2. k \in Steps /\ k.then \in {"load", "halted", "boot", "user", "vidmap_pointer"}
  BY <1>1 DEF IInv, TypeOK, Mapped, At
<1>3. /\ k' \in Steps /\ k'.at = k.then /\ k'.frame = k.frame
      /\ k'.next = k.next /\ k'.prog = k.prog /\ k'.wanted = k.wanted
  BY <1>1, <1>2 DEF Steps
<1>4. ~tlb'.cached /\ Cached'
  BY <1>1 DEF no_entry, Cached
<1>5. TypeOK'
  BY <1>1, <1>3, <1>4 DEF IInv, TypeOK
<1>6. Tables' /\ Control'
  BY <1>1, <1>2, <1>3 DEF IInv, Tables, Control, At, Starting
<1>7. Mapped'
  BY <1>1, <1>2, <1>3 DEF IInv, Mapped, MapsTo, At
<1>8. Commands' /\ ImagesKept'
  BY <1>1, <1>2, <1>3 DEF IInv, Commands, ImagesKept, At, Loading
<1>9. VideoMap'
  BY <1>1, <1>2, <1>3 DEF IInv, VideoMap, InVidmap, At
<1>. QED
  BY <1>4, <1>5, <1>6, <1>7, <1>8, <1>9 DEF IInv

LEMMA FramesDistinct ==
  /\ \A p \in Pids : FrameOf(p) \in Frames /\ FrameOf(p) # KernelFrame
  /\ \A p, q \in Pids : FrameOf(p) = FrameOf(q) => p = q
  /\ 0 \in Pids /\ 0 \in Frames /\ KernelFrame \in Frames
BY PagingAssumption DEF Pids, Frames, FrameOf, KernelFrame

LEMMA BootLoopIInv == IInv /\ BootLoop => IInv'
<1> SUFFICES ASSUME IInv, BootLoop PROVE IInv'
  OBVIOUS
<1>1. PICK prog \in Programs :
        /\ memory' = [memory EXCEPT ![KernelFrame].command = prog]
        /\ k' = [Step("parse") EXCEPT !.wanted = prog, !.caller = "boot"]
  BY DEF BootLoop
<1>2. /\ k.at = "boot"
      /\ UNCHANGED <<page_directory, page_table, video_pages, cr, tlb, pid_array, curr_process, pcb,
                     asked, vidmapped>>
  BY DEF BootLoop, tables, processes, At
<1>3. /\ k'.at = "parse" /\ k'.caller = "boot" /\ k'.wanted = prog /\ k' \in Steps
  BY <1>1, FramesDistinct DEF Step, Steps
<1>4. Tables' /\ Control' /\ Cached'
  BY <1>2, <1>3, KeepTables DEF Starting, tables
<1>5. /\ memory' \in [Frames -> [image : Programs \union {None}, command : Programs \union {None},
                                 screen : VirtualPages]]
      /\ memory'[KernelFrame].command = prog
      /\ \A p \in Pids : memory'[FrameOf(p)] = memory[FrameOf(p)]
  BY <1>1, FramesDistinct DEF IInv, TypeOK
<1>6. TypeOK'
  BY <1>2, <1>3, <1>5 DEF IInv, TypeOK
<1>7. Mapped'
  BY <1>3 DEF Mapped, At
<1>8. Commands'
  BY <1>2, <1>3, <1>5 DEF IInv, Commands, At, Loading
<1>9. ImagesKept'
  BY <1>2, <1>5 DEF IInv, ImagesKept
<1>10. VideoMap'
  BY <1>2, <1>3, <1>5 DEF IInv, VideoMap, InVidmap, At
<1>. QED
  BY <1>4, <1>6, <1>7, <1>8, <1>9, <1>10 DEF IInv

LEMMA ExecuteIInv == IInv /\ Execute => IInv'
<1> SUFFICES ASSUME IInv, Execute PROVE IInv'
  OBVIOUS
<1>1. PICK prog \in Programs : /\ Store([Here EXCEPT !.command = prog])
                               /\ k' = [Step("parse") EXCEPT !.wanted = prog]
  BY DEF Execute
<1>2. /\ k.at = "user" /\ curr_process \in Pids
      /\ UNCHANGED <<page_directory, page_table, video_pages, cr, tlb, pid_array, curr_process, pcb,
                     asked, vidmapped>>
  BY DEF Execute, tables, processes, At, IInv, TypeOK
<1>3. /\ k'.at = "parse" /\ k'.caller = "user" /\ k'.wanted = prog /\ k' \in Steps
  BY <1>1, FramesDistinct DEF Step, Steps
<1>4. Tables' /\ Control' /\ Cached'
  BY <1>2, <1>3, KeepTables DEF Starting, tables
<1>5. page_directory[PAGE_USER] = MapsTo(curr_process)
  BY <1>2 DEF IInv, Mapped
<1>6. FrameAt(Program) = FrameOf(curr_process)
  BY <1>2, <1>5, ProgramFrame DEF Starting
<1>7. memory' = [memory EXCEPT ![FrameOf(curr_process)] =
                   [memory[FrameOf(curr_process)] EXCEPT !.command = prog]]
  BY <1>1, <1>6, Zenon DEF Store, Here
<1>8. /\ memory' \in [Frames -> [image : Programs \union {None}, command : Programs \union {None},
                                 screen : VirtualPages]]
      /\ memory'[FrameOf(curr_process)].command = prog
      /\ \A p \in Pids : /\ memory'[FrameOf(p)].image = memory[FrameOf(p)].image
                         /\ memory'[FrameOf(p)].screen = memory[FrameOf(p)].screen
  BY <1>2, <1>7, FramesDistinct DEF IInv, TypeOK
<1>9. TypeOK'
  BY <1>2, <1>3, <1>8 DEF IInv, TypeOK
<1>10. Mapped'
  BY <1>2, <1>3, <1>5 DEF Mapped, At
<1>11. Commands'
  BY <1>2, <1>3, <1>8 DEF IInv, Commands, At, Loading
<1>12. ImagesKept'
  BY <1>2, <1>8 DEF IInv, ImagesKept
<1>13. VideoMap'
  BY <1>2, <1>3, <1>8 DEF IInv, VideoMap, InVidmap, At
<1>. QED
  BY <1>4, <1>9, <1>10, <1>11, <1>12, <1>13 DEF IInv

LEMMA ParseIInv == IInv /\ execute_parse => IInv'
<1> SUFFICES ASSUME IInv, execute_parse PROVE IInv'
  OBVIOUS
<1>1. /\ k.at = "parse" /\ curr_process \in Pids /\ k \in Steps
      /\ k' = [k EXCEPT !.at = "take", !.prog = command]
      /\ UNCHANGED <<page_directory, page_table, video_pages, cr, tlb, memory, pid_array, curr_process,
                     pcb, asked, vidmapped>>
  BY DEF execute_parse, tables, processes, At, IInv, TypeOK
<1>2. command = k.wanted
  <2>1. CASE k.caller = "boot"
    BY <1>1, <2>1 DEF command, IInv, Commands, At
  <2>2. CASE k.caller # "boot"
    <3>1. k.caller = "user"
      BY <1>1, <2>2 DEF Steps
    <3>2. page_directory[PAGE_USER] = MapsTo(curr_process)
      BY <1>1, <3>1 DEF IInv, Mapped
    <3>3. FrameAt(Program) = FrameOf(curr_process)
      BY <1>1, <3>2, ProgramFrame DEF Starting
    <3>. QED
      BY <1>1, <2>2, <3>3 DEF command, Here, IInv, Commands, At
  <2>. QED
    BY <2>1, <2>2
<1>3. k'.at = "take" /\ k'.caller = k.caller /\ k'.prog = k'.wanted /\ k' \in Steps
  BY <1>1, <1>2 DEF Steps
<1>4. Tables' /\ Control' /\ Cached'
  BY <1>1, <1>3, KeepTables DEF Starting, tables
<1>5. TypeOK'
  BY <1>1, <1>3 DEF IInv, TypeOK
<1>6. Mapped'
  BY <1>1, <1>3 DEF IInv, Mapped, At
<1>7. Commands' /\ ImagesKept'
  BY <1>1, <1>3 DEF IInv, Commands, ImagesKept, At, Loading
<1>8. VideoMap'
  BY <1>1, <1>3 DEF IInv, VideoMap, InVidmap, At
<1>. QED
  BY <1>4, <1>5, <1>6, <1>7, <1>8 DEF IInv

LEMMA FreePidExists ==
  ASSUME FreePids # {}
  PROVE  (CHOOSE p \in FreePids : \A q \in FreePids : p <= q) \in FreePids
<1>1. FreePids \in SUBSET Nat
  BY DEF FreePids, Pids
<1>2. PICK p \in FreePids : \A q \in FreePids : ~ (<<q, p>> \in OpToRel(<, Nat))
  BY <1>1, NatLessThanWellFounded, WFMin
<1>3. \A q \in FreePids : ~ (q < p)
  BY <1>1, <1>2 DEF OpToRel
<1>4. \A q \in FreePids : p <= q
  BY <1>1, <1>3
<1>. QED
  BY <1>4

LEMMA TakeIInv == IInv /\ execute_take => IInv'
<1> SUFFICES ASSUME IInv, execute_take PROVE IInv'
  OBVIOUS
<1>1. /\ k.at = "take" /\ curr_process \in Pids /\ k \in Steps /\ pid_array \in [Pids -> 0..1]
      /\ UNCHANGED <<page_directory, page_table, video_pages, cr, tlb, memory, curr_process,
                     pcb, asked, vidmapped>>
  BY DEF execute_take, tables, At, IInv, TypeOK
<1>2. CASE FreePids = {}
  <2>1. k' = Step(k.caller) /\ pid_array' = pid_array
    BY <1>2 DEF execute_take
  <2>2. k'.at = k.caller /\ k.caller \in {"boot", "user"} /\ k' \in Steps
    BY <1>1, <2>1, FramesDistinct DEF Step, Steps
  <2>3. Tables' /\ Control' /\ Cached'
    BY <1>1, <2>2, KeepTables DEF Starting, tables
  <2>4. TypeOK'
    BY <1>1, <2>1, <2>2 DEF IInv, TypeOK
  <2>5. Mapped'
    BY <1>1, <2>2 DEF IInv, Mapped, At
  <2>6. Commands' /\ ImagesKept'
    BY <1>1, <2>1, <2>2 DEF IInv, Commands, ImagesKept, At, Loading
  <2>7. VideoMap'
    BY <1>1, <2>2 DEF IInv, VideoMap, InVidmap, At
  <2>. QED
    BY <2>3, <2>4, <2>5, <2>6, <2>7 DEF IInv
<1>3. CASE FreePids # {}
  <2> DEFINE n == CHOOSE p \in FreePids : \A q \in FreePids : p <= q
  <2>1. n \in Pids /\ pid_array[n] = 0
    BY <1>3, FreePidExists DEF FreePids
  <2>2. /\ pid_array' = [pid_array EXCEPT ![n] = 1]
        /\ k' = [Update(n, "load") EXCEPT !.next = n]
    BY <1>3 DEF execute_take
  <2> HIDE DEF n
  <2>3. /\ k'.at = "update" /\ k'.then = "load" /\ k'.next = n /\ k'.frame = FrameOf(n)
        /\ k'.prog = k.prog /\ k'.wanted = k.wanted /\ k' \in Steps
    BY <1>1, <2>1, <2>2, FramesDistinct DEF Update, Steps
  <2>4. Tables' /\ Control' /\ Cached'
    BY <1>1, <2>3, KeepTables DEF Starting, tables
  <2>5. TypeOK'
    BY <1>1, <2>1, <2>2, <2>3 DEF IInv, TypeOK
  <2>6. Mapped'
    BY <1>1, <2>3 DEF IInv, Mapped, At
  <2>7. asked[n] = None
    BY <2>1 DEF IInv, Commands
  <2>8. Commands' /\ ImagesKept'
    BY <1>1, <2>1, <2>2, <2>3, <2>7 DEF IInv, Commands, ImagesKept, At, Loading
  <2>9. VideoMap'
    BY <1>1, <2>3 DEF IInv, VideoMap, InVidmap, At
  <2>. QED
    BY <2>4, <2>5, <2>6, <2>8, <2>9 DEF IInv
<1>. QED
  BY <1>2, <1>3

\* Both ends of a load write the frame of the process that is being created
LEMMA LoadedFrame ==
  ASSUME IInv, At("load")
  PROVE  FrameAt(Program) = FrameOf(k.next) /\ k.next \in Pids
<1>1. k.next \in Pids /\ page_directory[PAGE_USER] = MapsTo(k.next)
  BY DEF IInv, TypeOK, Steps, Mapped
<1>. QED
  BY <1>1, ProgramFrame DEF At, Starting

LEMMA LoadIInv == IInv /\ execute_load => IInv'
<1> SUFFICES ASSUME IInv, execute_load PROVE IInv'
  OBVIOUS
<1>1. /\ k.at = "load" /\ curr_process \in Pids /\ k \in Steps
      /\ FrameAt(Program) = FrameOf(k.next) /\ k.next \in Pids
      /\ UNCHANGED <<page_directory, page_table, video_pages, cr, tlb, pid_array, vidmapped>>
  BY LoadedFrame DEF execute_load, tables, At, IInv, TypeOK
<1>2. /\ pcb' = [pcb EXCEPT ![k.next] = [parent_num |-> curr_process, parent_esp |-> k.caller]]
      /\ curr_process' = k.next /\ asked' = [asked EXCEPT ![k.next] = k.wanted] /\ k' = Step("user")
      /\ memory' = [memory EXCEPT ![FrameOf(k.next)] = [Blank EXCEPT !.image = k.prog]]
  BY <1>1 DEF execute_load, Store
<1>3. k'.at = "user" /\ k' \in Steps
  BY <1>2, FramesDistinct DEF Step, Steps
<1>4. Tables' /\ Control' /\ Cached'
  BY <1>1, <1>3, KeepTables DEF Starting, tables
<1>5. k.prog = k.wanted /\ k.prog \in Programs \union {None} /\ k.caller \in {"boot", "user"}
  BY <1>1 DEF IInv, Commands, Loading, At, Steps
<1>6. \E m \in [image : Programs \union {None}, command : Programs \union {None},
                screen : VirtualPages] :
        /\ m = [Blank EXCEPT !.image = k.prog]
        /\ m.image = k.prog /\ m.screen = <<0, 0>>
  <2>1. <<0, 0>> \in VirtualPages
    BY PagingAssumption DEF VirtualPages, Index
  <2>2. [Blank EXCEPT !.image = k.prog] = [image |-> k.prog, command |-> None, screen |-> <<0, 0>>]
    BY DEF Blank
  <2>. QED
    BY <1>5, <2>1, <2>2
<1>7. /\ memory' \in [Frames -> [image : Programs \union {None}, command : Programs \union {None},
                                 screen : VirtualPages]]
      /\ memory'[FrameOf(k.next)].image = k.prog /\ memory'[FrameOf(k.next)].screen = <<0, 0>>
      /\ \A p \in Pids : p # k.next => memory'[FrameOf(p)] = memory[FrameOf(p)]
  BY <1>1, <1>2, <1>6, FramesDistinct DEF IInv, TypeOK
<1>8. TypeOK'
  BY <1>1, <1>2, <1>3, <1>5, <1>7 DEF IInv, TypeOK
<1>9. Mapped'
  BY <1>1, <1>2, <1>3 DEF IInv, Mapped, At
<1>10. ImagesKept'
  BY <1>1, <1>2, <1>5, <1>7 DEF IInv, TypeOK, ImagesKept
<1>11. Commands'
  <2>1. \A p \in Pids : asked'[p] # None => pid_array'[p] = 1
    BY <1>1, <1>2 DEF IInv, TypeOK, Commands, Loading, At
  <2>. QED
    BY <1>3, <2>1 DEF Commands, Loading, At
<1>12. VideoMap'
  BY <1>1, <1>2, <1>3, <1>7 DEF IInv, VideoMap, InVidmap, At
<1>. QED
  BY <1>4, <1>8, <1>9, <1>10, <1>11, <1>12 DEF IInv

LEMMA LoadFailedIInv == IInv /\ execute_load_failed => IInv'
<1> SUFFICES ASSUME IInv, execute_load_failed PROVE IInv'
  OBVIOUS
<1>1. /\ k.at = "load" /\ curr_process \in Pids /\ k \in Steps
      /\ FrameAt(Program) = FrameOf(k.next) /\ k.next \in Pids
      /\ UNCHANGED <<page_directory, page_table, video_pages, cr, tlb, pid_array, curr_process, pcb,
                     asked, vidmapped>>
  BY LoadedFrame DEF execute_load_failed, tables, processes, At, IInv, TypeOK
<1>2. /\ k' = Update(curr_process, k.caller)
      /\ memory' = [memory EXCEPT ![FrameOf(k.next)] = Blank]
  BY <1>1 DEF execute_load_failed, Store
<1>3. /\ k'.at = "update" /\ k'.then = k.caller /\ k.caller \in {"boot", "user"}
      /\ k'.frame = FrameOf(curr_process) /\ k' \in Steps
  BY <1>1, <1>2, FramesDistinct DEF Update, Steps
<1>4. Tables' /\ Control' /\ Cached'
  BY <1>1, <1>3, KeepTables DEF Starting, tables
<1>5. /\ Blank \in [image : Programs \union {None}, command : Programs \union {None},
                    screen : VirtualPages]
      /\ Blank.screen = <<0, 0>>
  BY PagingAssumption DEF Blank, VirtualPages, Index
<1>6. /\ memory' \in [Frames -> [image : Programs \union {None}, command : Programs \union {None},
                                 screen : VirtualPages]]
      /\ memory'[FrameOf(k.next)].screen = <<0, 0>>
      /\ \A p \in Pids : p # k.next => memory'[FrameOf(p)] = memory[FrameOf(p)]
  BY <1>1, <1>2, <1>5, FramesDistinct DEF IInv, TypeOK
<1>7. TypeOK'
  BY <1>1, <1>3, <1>6 DEF IInv, TypeOK
<1>8. Mapped'
  BY <1>1, <1>3 DEF IInv, Mapped, At
<1>9. asked[k.next] = None
  BY <1>1 DEF IInv, Commands, Loading, At
<1>10. ImagesKept' /\ Commands'
  BY <1>1, <1>3, <1>6, <1>9 DEF IInv, ImagesKept, Commands, Loading, At
<1>11. VideoMap'
  BY <1>1, <1>3, <1>6 DEF IInv, VideoMap, InVidmap, At
<1>. QED
  BY <1>4, <1>7, <1>8, <1>10, <1>11 DEF IInv

LEMMA HaltIInv == IInv /\ Halt => IInv'
<1> SUFFICES ASSUME IInv, Halt PROVE IInv'
  OBVIOUS
<1>1. /\ k.at = "user" /\ curr_process \in Pids /\ k \in Steps
      /\ pcb[curr_process].parent_num \in Pids
      /\ k' = Update(pcb[curr_process].parent_num, "halted")
      /\ UNCHANGED <<page_directory, page_table, video_pages, cr, tlb, memory, pid_array, curr_process,
                     pcb, asked, vidmapped>>
  BY DEF Halt, tables, processes, At, IInv, TypeOK
<1>2. /\ k'.at = "update" /\ k'.then = "halted" /\ k'.frame = FrameOf(pcb[curr_process].parent_num)
      /\ k' \in Steps
  BY <1>1, FramesDistinct DEF Update, Steps
<1>3. Tables' /\ Control' /\ Cached'
  BY <1>1, <1>2, KeepTables DEF Starting, tables
<1>4. TypeOK'
  BY <1>1, <1>2 DEF IInv, TypeOK
<1>5. Mapped'
  BY <1>1, <1>2 DEF Mapped, At
<1>6. ImagesKept' /\ Commands'
  BY <1>1, <1>2 DEF IInv, ImagesKept, Commands, Loading, At
<1>7. VideoMap'
  BY <1>1, <1>2 DEF IInv, VideoMap, InVidmap, At
<1>. QED
  BY <1>3, <1>4, <1>5, <1>6, <1>7 DEF IInv

LEMMA ReturnIInv == IInv /\ halt_return => IInv'
<1> SUFFICES ASSUME IInv, halt_return PROVE IInv'
  OBVIOUS
<1> DEFINE parent == pcb[curr_process].parent_num
           esp == pcb[curr_process].parent_esp
<1>1. /\ k.at = "halted" /\ curr_process \in Pids /\ k \in Steps
      /\ parent \in Pids /\ esp \in {"boot", "user"}
      /\ pid_array' = [pid_array EXCEPT ![curr_process] = 0]
      /\ curr_process' = parent
      /\ asked' = [asked EXCEPT ![curr_process] = None]
      /\ k' = Step(esp)
      /\ UNCHANGED <<page_directory, page_table, video_pages, cr, tlb, memory, pcb, vidmapped>>
  BY DEF halt_return, tables, At, IInv, TypeOK
<1>2. page_directory[PAGE_USER] = MapsTo(parent)
  BY <1>1 DEF IInv, Mapped, At
<1> HIDE DEF parent, esp
<1>3. k'.at = esp /\ k' \in Steps
  BY <1>1, FramesDistinct DEF Step, Steps
<1>4. Tables' /\ Control' /\ Cached'
  BY <1>1, <1>3, KeepTables DEF Starting, tables
<1>5. TypeOK'
  BY <1>1, <1>3 DEF IInv, TypeOK
<1>6. Mapped'
  BY <1>1, <1>2, <1>3 DEF Mapped, At
<1>7. ImagesKept' /\ Commands'
  BY <1>1, <1>3 DEF IInv, TypeOK, ImagesKept, Commands, Loading, At
<1>8. VideoMap'
  BY <1>1, <1>3 DEF IInv, VideoMap, InVidmap, At
<1>. QED
  BY <1>4, <1>5, <1>6, <1>7, <1>8 DEF IInv

\* vidmap, up to the directory's entry
LEMMA VidmapIInv == IInv /\ Vidmap => IInv'
<1> SUFFICES ASSUME IInv, Vidmap PROVE IInv'
  OBVIOUS
<1>1. /\ k.at = "user" /\ curr_process \in Pids
      /\ UNCHANGED <<page_directory, page_table, video_pages, cr, tlb, pid_array, curr_process, pcb,
                     asked, vidmapped>>
  BY DEF Vidmap, tables, processes, At, IInv, TypeOK
<1>2. CASE UNCHANGED <<memory, k>>
  <2>1. Tables' /\ Control' /\ Cached'
    BY <1>1, <1>2, KeepTables DEF Starting, tables
  <2>2. TypeOK'
    BY <1>1, <1>2 DEF IInv, TypeOK
  <2>3. Mapped'
    BY <1>1, <1>2 DEF IInv, Mapped, At
  <2>4. ImagesKept' /\ Commands'
    BY <1>1, <1>2 DEF IInv, ImagesKept, Commands, Loading, At
  <2>5. VideoMap'
    BY <1>1, <1>2 DEF IInv, VideoMap, InVidmap, At
  <2>. QED
    BY <2>1, <2>2, <2>3, <2>4, <2>5 DEF IInv
<1>3. CASE Store([Here EXCEPT !.screen = <<PAGE_256MB, 0>>]) /\ k' = Step("vidmap_pde")
  <2>1. k'.at = "vidmap_pde" /\ k' \in Steps
    BY <1>3, FramesDistinct DEF Step, Steps
  <2>2. Tables' /\ Control' /\ Cached'
    BY <1>1, <2>1, KeepTables DEF Starting, tables
  <2>3. page_directory[PAGE_USER] = MapsTo(curr_process)
    BY <1>1 DEF IInv, Mapped
  <2>4. FrameAt(Program) = FrameOf(curr_process)
    BY <1>1, <2>3, ProgramFrame DEF Starting
  <2>5. memory' = [memory EXCEPT ![FrameOf(curr_process)] =
                     [memory[FrameOf(curr_process)] EXCEPT !.screen = <<PAGE_256MB, 0>>]]
    BY <1>3, <2>4, Zenon DEF Store, Here
  <2>6. <<PAGE_256MB, 0>> \in VirtualPages
    BY PagingAssumption DEF VirtualPages, Index
  <2>7. /\ memory' \in [Frames -> [image : Programs \union {None}, command : Programs \union {None},
                                   screen : VirtualPages]]
        /\ \A p \in Pids : /\ memory'[FrameOf(p)].image = memory[FrameOf(p)].image
                           /\ p # curr_process => memory'[FrameOf(p)] = memory[FrameOf(p)]
    <3> DEFINE m == [memory[FrameOf(curr_process)] EXCEPT !.screen = <<PAGE_256MB, 0>>]
               Cells == [image : Programs \union {None}, command : Programs \union {None},
                         screen : VirtualPages]
    <3>1. m \in Cells /\ m.image = memory[FrameOf(curr_process)].image
      <4>1. memory[FrameOf(curr_process)] \in Cells
        BY <1>1, FramesDistinct DEF IInv, TypeOK
      <4>. QED
        BY <2>6, <4>1
    <3>2. memory' = [memory EXCEPT ![FrameOf(curr_process)] = m] /\ memory \in [Frames -> Cells]
      BY <2>5 DEF IInv, TypeOK
    <3> HIDE DEF m, Cells
    <3>3. memory' \in [Frames -> Cells]
      BY <1>1, <3>1, <3>2, FramesDistinct
    <3>4. \A p \in Pids : /\ memory'[FrameOf(p)].image = memory[FrameOf(p)].image
                          /\ p # curr_process => memory'[FrameOf(p)] = memory[FrameOf(p)]
      BY <1>1, <3>1, <3>2, FramesDistinct
    <3>. QED
      BY <3>3, <3>4 DEF Cells
  <2>8. TypeOK'
    BY <1>1, <2>1, <2>7 DEF IInv, TypeOK
  <2>9. Mapped'
    BY <1>1, <2>1, <2>3 DEF Mapped, At
  <2>10. ImagesKept' /\ Commands'
    BY <1>1, <2>1, <2>7 DEF IInv, ImagesKept, Commands, Loading, At
  <2>11. VideoMap'
    BY <1>1, <2>1, <2>7 DEF IInv, VideoMap, InVidmap, At
  <2>. QED
    BY <2>2, <2>8, <2>9, <2>10, <2>11 DEF IInv
<1>. QED
  BY <1>2, <1>3 DEF Vidmap

\* The two stores of vidmap add translations and change none
LEMMA VidmapPdeIInv == IInv /\ vidmap_pde => IInv'
<1> SUFFICES ASSUME IInv, vidmap_pde PROVE IInv'
  OBVIOUS
<1>1. /\ k.at = "vidmap_pde" /\ k \in Steps /\ k' = [k EXCEPT !.at = "vidmap_pte"]
      /\ page_directory \in [Index -> Pdes]
      /\ page_directory' = [page_directory EXCEPT ![PAGE_VIDMAP] = Table("video_pages", 7)]
      /\ UNCHANGED <<page_table, video_pages, cr, tlb, memory, pid_array, curr_process, pcb,
                     asked, vidmapped>>
  BY DEF vidmap_pde, processes, At, IInv, TypeOK
<1>2. /\ PAGE_USER \in Index /\ PAGE_VIDMAP \in Index /\ 0 \in Index /\ 1 \in Index
      /\ PAGE_VIDMAP \notin {0, 1, PAGE_USER}
  BY PagingAssumption DEF Index
<1>3. k'.at = "vidmap_pte" /\ k' \in Steps
  BY <1>1 DEF Steps
<1>4. /\ Table("video_pages", 7) \in Pdes /\ Table("video_pages", 7).present
  <2>1. /\ [present |-> TRUE, user |-> TRUE, table |-> "video_pages", frame |-> 0] \in Pdes
        /\ [present |-> TRUE, user |-> TRUE, table |-> "video_pages", frame |-> 0].present
    BY FramesDistinct DEF Pdes
  <2>. QED
    BY <2>1, TableValue, Zenon
<1>5. /\ page_directory' \in [Index -> Pdes]
      /\ page_directory'[PAGE_VIDMAP] = Table("video_pages", 7)
      /\ \A i \in Index : i # PAGE_VIDMAP => page_directory'[i] = page_directory[i]
  BY <1>1, <1>2, <1>4
<1>6. TypeOK'
  BY <1>1, <1>3, <1>5 DEF IInv, TypeOK
<1>7. Tables'
  BY <1>1, <1>2, <1>3, <1>5 DEF IInv, Tables, At
<1>8. Control'
  BY <1>1, <1>3 DEF IInv, Control, Starting
<1>9. Cached'
  <2>1. ASSUME NEW v \in VirtualPages, Walk(v).present, cr.paging PROVE Walk(v)' = Walk(v)
    <3>1. v[1] \in Index
      BY DEF VirtualPages
    <3>2. CASE page_directory'[v[1]] = page_directory[v[1]]
      BY <1>1, <3>2 DEF Walk
    <3>3. CASE v[1] = PAGE_VIDMAP /\ page_directory[v[1]] = NotPresent
      <4>1. Walk(v) = Fault
        BY <2>1, <3>3 DEF Walk, NotPresent
      <4>. QED
        BY <2>1, <4>1 DEF Fault
    <3>. QED
      BY <1>5, <3>1, <3>2, <3>3 DEF IInv, Tables
  <2>. QED
    BY <1>1, <1>3, <2>1 DEF IInv, Cached, At
<1>10. Mapped'
  BY <1>1, <1>2, <1>3, <1>5 DEF IInv, Mapped, At
<1>11. Commands' /\ ImagesKept'
  BY <1>1, <1>3 DEF IInv, Commands, ImagesKept, Loading, At
<1>12. VideoMap'
  BY <1>1, <1>3, <1>4, <1>5 DEF IInv, VideoMap, InVidmap, At
<1>. QED
  BY <1>6, <1>7, <1>8, <1>9, <1>10, <1>11, <1>12 DEF IInv

LEMMA VidmapPteIInv == IInv /\ vidmap_pte => IInv'
<1> SUFFICES ASSUME IInv, vidmap_pte PROVE IInv'
  OBVIOUS
<1>1. /\ k.at = "vidmap_pte" /\ k \in Steps
      /\ k' = [k EXCEPT !.at = "flush", !.then = "vidmap_pointer"]
      /\ video_pages \in [Index -> Ptes]
      /\ video_pages' = [video_pages EXCEPT ![0] = Pte(VIDEO, 7)]
      /\ UNCHANGED <<page_directory, page_table, cr, tlb, memory, pid_array, curr_process, pcb,
                     asked, vidmapped>>
  BY DEF vidmap_pte, processes, At, IInv, TypeOK
<1>2. 0 \in Index /\ VIDEO \in Index
  BY PagingAssumption DEF Index, VIDEO
<1>3. k'.at = "flush" /\ k'.then = "vidmap_pointer" /\ k' \in Steps
  BY <1>1 DEF Steps
<1>4. /\ Pte(VIDEO, 7) \in Ptes /\ Pte(VIDEO, 7).present
  <2>1. /\ [present |-> TRUE, user |-> TRUE, page |-> VIDEO] \in Ptes
        /\ [present |-> TRUE, user |-> TRUE, page |-> VIDEO].present
    BY <1>2 DEF Ptes
  <2>. QED
    BY <2>1, PteValue, Zenon
<1>5. /\ video_pages' \in [Index -> Ptes]
      /\ video_pages'[0] = Pte(VIDEO, 7)
      /\ \A i \in Index : i # 0 => video_pages'[i] = video_pages[i]
  BY <1>1, <1>2, <1>4
<1>6. TypeOK'
  BY <1>1, <1>3, <1>5 DEF IInv, TypeOK
<1>7. Tables'
  BY <1>1, <1>2, <1>3, <1>5 DEF IInv, Tables, At
<1>8. Control'
  BY <1>1, <1>3 DEF IInv, Control, Starting
<1>9. Cached'
  <2>1. ASSUME NEW v \in VirtualPages, Walk(v).present, cr.paging PROVE Walk(v)' = Walk(v)
    <3>1. v[1] \in Index /\ v[2] \in Index
      BY DEF VirtualPages
    <3>2. CASE video_pages'[v[2]] = video_pages[v[2]]
      BY <1>1, <3>2 DEF Walk
    <3>3. CASE page_directory[v[1]].table # "video_pages"
      BY <1>1, <3>3, <1>3 DEF Walk, IInv, TypeOK, Pdes
    <3>4. CASE page_directory[v[1]].table = "video_pages" /\ v[2] = 0 /\ video_pages[0] = Pte(0, 2)
      <4>1. video_pages[0].present = FALSE
        BY <3>4, PteValue
      <4>2. Walk(v) = Fault
        BY <2>1, <3>4, <4>1 DEF Walk
      <4>. QED
        BY <2>1, <4>2 DEF Fault
    <3>. QED
      BY <1>5, <3>1, <3>2, <3>3, <3>4 DEF IInv, Tables
  <2>. QED
    BY <1>1, <1>3, <2>1 DEF IInv, Cached, At
<1>10. Mapped'
  BY <1>1, <1>3 DEF IInv, Mapped, At
<1>11. Commands' /\ ImagesKept'
  BY <1>1, <1>3 DEF IInv, Commands, ImagesKept, Loading, At
<1>12. VideoMap'
  BY <1>1, <1>3, <1>4, <1>5 DEF IInv, VideoMap, InVidmap, At
<1>. QED
  BY <1>6, <1>7, <1>8, <1>9, <1>10, <1>11, <1>12 DEF IInv

LEMMA VidmapPointerIInv == IInv /\ vidmap_pointer => IInv'
<1> SUFFICES ASSUME IInv, vidmap_pointer PROVE IInv'
  OBVIOUS
<1>1. /\ k.at = "vidmap_pointer" /\ curr_process \in Pids /\ k' = Step("user") /\ vidmapped' = TRUE
      /\ UNCHANGED <<page_directory, page_table, video_pages, cr, tlb, pid_array, curr_process, pcb,
                     asked>>
  BY DEF vidmap_pointer, tables, processes, At, IInv, TypeOK
<1>2. k'.at = "user" /\ k' \in Steps
  BY <1>1, FramesDistinct DEF Step, Steps
<1>3. Tables' /\ Control' /\ Cached'
  BY <1>1, <1>2, KeepTables DEF Starting, tables
<1>4. page_directory[PAGE_USER] = MapsTo(curr_process)
  BY <1>1 DEF IInv, Mapped
<1>5. FrameAt(Program) = FrameOf(curr_process)
  BY <1>1, <1>4, ProgramFrame DEF Starting
<1> DEFINE m == [memory[FrameOf(curr_process)] EXCEPT !.screen = <<PAGE_VIDMAP, 0>>]
           Cells == [image : Programs \union {None}, command : Programs \union {None},
                     screen : VirtualPages]
<1>6. memory' = [memory EXCEPT ![FrameOf(curr_process)] = m] /\ memory \in [Frames -> Cells]
  <2>1. memory' = [memory EXCEPT ![FrameOf(curr_process)] = m]
    BY <1>5, Zenon DEF Store, Here, vidmap_pointer
  <2>. QED
    BY <2>1 DEF IInv, TypeOK
<1>7. /\ m \in Cells /\ m.image = memory[FrameOf(curr_process)].image
      /\ m.screen = <<PAGE_VIDMAP, 0>>
  <2>1. <<PAGE_VIDMAP, 0>> \in VirtualPages
    BY PagingAssumption DEF VirtualPages, Index
  <2>. QED
    BY <1>1, <2>1, FramesDistinct DEF IInv, TypeOK
<1> HIDE DEF m, Cells
<1>8. /\ memory' \in [Frames -> Cells]
      /\ memory'[FrameOf(curr_process)].screen = <<PAGE_VIDMAP, 0>>
  BY <1>1, <1>6, <1>7, FramesDistinct
<1>9. \A p \in Pids : /\ memory'[FrameOf(p)].image = memory[FrameOf(p)].image
                      /\ p # curr_process => memory'[FrameOf(p)] = memory[FrameOf(p)]
  BY <1>1, <1>6, <1>7, FramesDistinct
<1>10. TypeOK'
  BY <1>1, <1>2, <1>8 DEF IInv, TypeOK, Cells
<1>11. Mapped'
  BY <1>1, <1>2, <1>4 DEF Mapped, At
<1>12. ImagesKept' /\ Commands'
  BY <1>1, <1>2, <1>9 DEF IInv, ImagesKept, Commands, Loading, At
<1>13. VideoMap'
  BY <1>1, <1>2, <1>8, <1>9 DEF IInv, VideoMap, InVidmap, At
<1>. QED
  BY <1>3, <1>10, <1>11, <1>12, <1>13 DEF IInv

LEMMA StepIInv == IInv /\ [Next]_vars => IInv'
<1> SUFFICES ASSUME IInv, [Next]_vars PROVE IInv'
  OBVIOUS
<1>1. CASE Next
  BY <1>1, CacheIInv, StartIInv, UpdateIInv, FlushIInv, BootLoopIInv, ExecuteIInv, ParseIInv,
     TakeIInv, LoadIInv, LoadFailedIInv, HaltIInv, ReturnIInv, VidmapIInv, VidmapPdeIInv,
     VidmapPteIInv, VidmapPointerIInv, Zenon DEF Next
<1>2. CASE UNCHANGED vars
  <2>1. UNCHANGED <<page_directory, page_table, video_pages, cr, tlb, memory, pid_array, curr_process,
                    pcb, k, asked, vidmapped>> /\ UNCHANGED tables
    BY <1>2 DEF vars, tables
  <2>2. TypeOK'
    BY <2>1 DEF IInv, TypeOK
  <2>3. Tables' /\ Control'
    BY <2>1 DEF IInv, Tables, Control, At
  <2>4. Cached'
    BY <2>1, WalkUnchanged DEF IInv, Cached, At
  <2>5. Mapped'
    BY <2>1 DEF IInv, Mapped, At
  <2>6. Commands' /\ ImagesKept'
    BY <2>1 DEF IInv, Commands, ImagesKept, At, Loading
  <2>7. VideoMap'
    BY <2>1 DEF IInv, VideoMap, At, InVidmap
  <2>. QED
    BY <2>2, <2>3, <2>4, <2>5, <2>6, <2>7 DEF IInv
<1>. QED
  BY <1>1, <1>2

LEMMA SpecIInv == Spec => []IInv
BY InitIInv, StepIInv, PTL DEF Spec

----------------------------------------------------------------------------
(* What the invariant says of translation *)

\* Outside the program page, and everywhere but before a flush, the processor
\* translates as the tables say
LEMMA TranslateIsWalk ==
  ASSUME IInv, NEW v \in VirtualPages, v[1] # PAGE_USER \/ ~At("flush")
  PROVE  Translate(v) = Walk(v)
BY DEF IInv, Cached, Translate

(***************************************************************************)
(* From the moment paging_init turns paging on, the kernel's page and the  *)
(* video memory stay mapped where the kernel uses them, closed to          *)
(* programs, and nothing else below 4 MB is mapped: whatever execute, halt *)
(* and vidmap store and whatever the processor has cached.                 *)
(***************************************************************************)
THEOREM KernelMappedAlways == Spec => []KernelMapped
<1>1. ASSUME IInv PROVE KernelMapped
  <2>1. TypeOK
    BY <1>1 DEF IInv
  <2>2. ASSUME cr.paging, NEW i \in Index
        PROVE  /\ Translate(<<1, i>>) = [present |-> TRUE, user |-> FALSE, page |-> NUM_ENTRIES + i]
               /\ Translate(<<0, i>>) = IF i \in VM_START..VM_START + 3
                                        THEN [present |-> TRUE, user |-> FALSE, page |-> i]
                                        ELSE Fault
    <3>1. <<0, i>> \in VirtualPages /\ <<1, i>> \in VirtualPages /\ PAGE_USER \notin {0, 1}
      BY PagingAssumption DEF VirtualPages, Index
    <3>2. Translate(<<0, i>>) = Walk(<<0, i>>) /\ Translate(<<1, i>>) = Walk(<<1, i>>)
      BY <1>1, <3>1, TranslateIsWalk
    <3>3. <<0, i>>[1] = 0 /\ <<0, i>>[2] = i /\ <<1, i>>[1] = 1 /\ <<1, i>>[2] = i
      OBVIOUS
    <3>4. Walk(<<1, i>>) = [present |-> TRUE, user |-> FALSE, page |-> NUM_ENTRIES + i]
      <4>1. Walk(<<1, i>>) = [present |-> TRUE, user |-> FALSE, page |-> NUM_ENTRIES + <<1, i>>[2]]
        BY <1>1, <2>2, <3>1, <3>3, WalkValues, Zenon DEF IInv
      <4>. QED
        BY <3>3, <4>1, Zenon
    <3>5. Walk(<<0, i>>) = IF i \in VM_START..VM_START + 3
                           THEN [present |-> TRUE, user |-> FALSE, page |-> i] ELSE Fault
      <4>1. Walk(<<0, i>>) = IF <<0, i>>[2] \in VM_START..VM_START + 3
                             THEN [present |-> TRUE, user |-> FALSE, page |-> <<0, i>>[2]] ELSE Fault
        BY <1>1, <2>2, <3>1, <3>3, WalkValues, Zenon DEF IInv
      <4>. QED
        BY <3>3, <4>1, Zenon
    <3>. QED
      BY <3>2, <3>4, <3>5, Zenon
  <2>. QED
    BY <2>1, <2>2, Zenon DEF KernelMapped
<1>. QED
  BY <1>1, SpecIInv, PTL

(***************************************************************************)
(* A program that runs reaches its own 4 MB frame, the video memory once   *)
(* vidmap has been called, and nothing else, however execute and halt have *)
(* switched the program page before and whatever is cached.                *)
(***************************************************************************)
THEOREM UserConfinedAlways == Spec => []UserConfined
<1>1. ASSUME IInv PROVE UserConfined
  <2> SUFFICES ASSUME At("user"), NEW v \in VirtualPages,
                      Translate(v).present, Translate(v).user
               PROVE  \/ /\ Translate(v).page \div NUM_ENTRIES = FrameOf(curr_process)
                         /\ v[1] = PAGE_USER
                      \/ Translate(v).page = VIDEO /\ vidmapped
    BY DEF UserConfined
  <2>1. Translate(v) = Walk(v) /\ Walk(v).present /\ Walk(v).user
    BY <1>1, TranslateIsWalk DEF At
  <2>2. /\ TypeOK /\ Tables /\ Control /\ cr.paging /\ v[1] \in Index /\ v[2] \in Index
        /\ curr_process \in Pids
    BY <1>1 DEF IInv, TypeOK, Control, At, Starting, VirtualPages
  <2>3. v[1] \in {PAGE_USER, PAGE_VIDMAP}
    <3>1. v[1] # 0
      BY <2>1, <2>2, WalkValues DEF Fault
    <3>2. v[1] # 1
      BY <2>1, <2>2, WalkValues
    <3>. QED
      BY <2>1, <2>2, <3>1, <3>2, WalkValues DEF Fault
  <2>4. CASE v[1] = PAGE_USER
    <3>1. page_directory[PAGE_USER] = MapsTo(curr_process)
      BY <1>1 DEF IInv, Mapped, At
    <3>2. page_directory[PAGE_USER].present = TRUE
          /\ page_directory[PAGE_USER].frame = FrameOf(curr_process)
      BY <3>1 DEF MapsTo, Frame4MB
    <3>3. Walk(v).page = FrameOf(curr_process) * NUM_ENTRIES + v[2]
      BY <2>2, <2>4, <3>2, WalkValues
    <3>4. FrameOf(curr_process) \in Nat
      BY <2>2, PagingAssumption DEF FrameOf, Pids
    <3>. QED
      BY <2>1, <2>2, <2>4, <3>3, <3>4, FrameOfPage
  <2>5. CASE v[1] = PAGE_VIDMAP
    <3>1. ~InVidmap
      BY DEF InVidmap, At
    <3>2. page_directory[PAGE_VIDMAP].present /\ video_pages[0].present /\ Walk(v).page = VIDEO
      BY <2>1, <2>2, <2>5, WalkValues DEF Fault
    <3>. QED
      BY <1>1, <2>1, <3>1, <3>2 DEF IInv, VideoMap
  <2>. QED
    BY <2>3, <2>4, <2>5
<1>. QED
  BY <1>1, SpecIInv, PTL

(***************************************************************************)
(* The frame of every program that runs or waits for its child holds the   *)
(* program that its execute named: the loader writes to no frame but the   *)
(* new process's, and the command it goes by is the caller's.              *)
(***************************************************************************)
THEOREM ImagesKeptAlways == Spec => []ImagesKept
<1>1. IInv => ImagesKept
  BY DEF IInv
<1>. QED
  BY <1>1, SpecIInv, PTL

(***************************************************************************)
(* The pointer that vidmap stores for a program leads to the video memory  *)
(* whenever that program runs, whatever its children have done.            *)
(***************************************************************************)
THEOREM ScreenReachableAlways == Spec => []ScreenReachable
<1>1. ASSUME IInv PROVE ScreenReachable
  <2> DEFINE v == <<PAGE_VIDMAP, 0>>
  <2> SUFFICES ASSUME At("user"), memory[FrameOf(curr_process)].screen # <<0, 0>>
               PROVE  Translate(memory[FrameOf(curr_process)].screen) =
                        [present |-> TRUE, user |-> TRUE, page |-> VIDEO]
    BY DEF ScreenReachable
  <2>1. /\ TypeOK /\ Tables /\ Control /\ cr.paging /\ ~InVidmap /\ ~At("flush")
        /\ curr_process \in Pids
    BY <1>1 DEF IInv, TypeOK, Control, At, Starting, InVidmap
  <2>2. memory[FrameOf(curr_process)].screen = v /\ vidmapped
    BY <1>1, <2>1 DEF IInv, VideoMap
  <2>3. page_directory[PAGE_VIDMAP].present /\ video_pages[0].present
    BY <1>1, <2>2 DEF IInv, VideoMap
  <2>4. v \in VirtualPages /\ v[1] = PAGE_VIDMAP /\ v[2] = 0
    BY PagingAssumption DEF VirtualPages, Index
  <2> HIDE DEF v
  <2>5. Walk(v) = [present |-> TRUE, user |-> TRUE, page |-> VIDEO]
    BY <2>1, <2>3, <2>4, WalkValues
  <2>6. Translate(v) = Walk(v)
    BY <1>1, <2>1, <2>4, TranslateIsWalk
  <2>. QED
    BY <2>2, <2>5, <2>6
<1>. QED
  BY <1>1, SpecIInv, PTL
=============================================================================
