----------------------------- MODULE FileArray -----------------------------
(***************************************************************************)
(* The file descriptors of one process: pcb_t.file_array and the functions *)
(* of filesys.c, terminal.c and rtc.c that the open, close, read and write *)
(* system calls dispatch to.  Every operator maps the array before a call  *)
(* to the outcome of the call: the array after it, the value returned, the *)
(* bytes stored past the end of the caller's buffer, and what became of    *)
(* the machine.                                                            *)
(***************************************************************************)
EXTENDS FileSys

CONSTANTS
  NUM_MAX_OPEN_FILES, \* descriptors per process (8)
  UINT_MOD,           \* 2^w for the w-bit registers (2^32)
  MAX_INPUT_CHARS     \* longest line terminal_read returns (128)

ASSUME FileArrayAssumption ==
  /\ NUM_MAX_OPEN_FILES \in Nat /\ NUM_MAX_OPEN_FILES > 2
  /\ UINT_MOD \in Nat /\ UINT_MOD > NUM_FILES
  /\ MAX_INPUT_CHARS \in Nat \ {0}
  /\ \A i \in 0..inode_count-1 : inodes[i].length < UINT_MOD

FILE_AVAIL == 1
FILE_OCCUP == 0

Fds  == 0..NUM_MAX_OPEN_FILES-1
Slot == [file_ops_table_ptr : {"none", "terminal", "file", "directory", "rtc"},
         inode_num : Nat, file_position : 0..UINT_MOD-1,
         flags : {FILE_AVAIL, FILE_OCCUP}]

blank == [file_ops_table_ptr |-> "none", inode_num |-> 0,
          file_position |-> 0, flags |-> FILE_AVAIL]

stdio == [blank EXCEPT !.file_ops_table_ptr = "terminal", !.flags = FILE_OCCUP]

init_file_array == [fd \in Fds |-> IF fd < 2 THEN stdio ELSE blank]

(***************************************************************************)
(* Outcomes.  "up" is normal operation, "spin" an endless loop in the      *)
(* kernel with interrupts disabled, "panic" the blue screen, "overwritten" *)
(* a kernel whose own memory a call has stored over.                       *)
(***************************************************************************)
Machine == {"up", "spin", "panic", "overwritten"}

Outcome(fa, ret, over, m) == [fa |-> fa, ret |-> ret, over |-> over, machine |-> m]
Return(fa, ret) == Outcome(fa, ret, 0, "up")
Fail(fa) == Return(fa, -1)

Unsigned(n) == n % UINT_MOD

----------------------------------------------------------------------------

FreeFds(fa) == {fd \in Fds : fd >= 2 /\ fa[fd].flags = FILE_AVAIL}

NextFd(fa) == CHOOSE fd \in FreeFds(fa) : \A g \in FreeFds(fa) : fd <= g

\* Mutant: the RTC branch goes on to the lines that mark the slot occupied
file_open_rtc_occupied(fa, filename) ==
  LET dentry == read_dentry_by_name(filename)
      fd     == NextFd(fa)
  IN  IF \/ NameLen[filename] >= FILENAME_LEN
         \/ dentry = NoDentry
         \/ FreeFds(fa) = {}
      THEN Fail(fa)
      ELSE Return([fa EXCEPT ![fd] =
                     [file_ops_table_ptr |-> IF dentry.filetype = FILE_TYPE_RTC
                                             THEN "rtc" ELSE "file",
                      inode_num |-> dentry.inode_num,
                      file_position |-> 0, flags |-> FILE_OCCUP]], fd)

\* The RTC branch returns before the lines that mark the slot occupied
file_open(fa, filename) ==
  LET dentry == read_dentry_by_name(filename)
      fd     == NextFd(fa)
  IN  IF \/ NameLen[filename] >= FILENAME_LEN
         \/ dentry = NoDentry
         \/ FreeFds(fa) = {}
         \/ dentry.filetype \notin {FILE_TYPE_RTC, FILE_TYPE_DIR, FILE_TYPE_FILE}
      THEN Fail(fa)
      ELSE IF dentry.filetype = FILE_TYPE_RTC
      THEN Return([fa EXCEPT ![fd].file_ops_table_ptr = "rtc",
                             ![fd].inode_num = dentry.inode_num], fd)
      ELSE Return([fa EXCEPT ![fd] =
                     [file_ops_table_ptr |-> IF dentry.filetype = FILE_TYPE_FILE
                                             THEN "file" ELSE "directory",
                      inode_num |-> dentry.inode_num,
                      file_position |-> 0, flags |-> FILE_OCCUP]], fd)

\* The RTC case falls through into the file case: file_open runs twice
open(fa, filename) ==
  LET dentry == read_dentry_by_name(filename)
      first  == file_open(fa, filename)
  IN  IF \/ dentry = NoDentry
         \/ dentry.filetype \notin {FILE_TYPE_RTC, FILE_TYPE_DIR, FILE_TYPE_FILE}
      THEN Fail(fa)
      ELSE IF dentry.filetype = FILE_TYPE_RTC /\ first.ret # -1
      THEN file_open(first.fa, filename)
      ELSE first

----------------------------------------------------------------------------

\* Mutant: any open descriptor may be closed
close_stdio(fa, fd) ==
  IF fd \notin Fds THEN Fail(fa)
  ELSE IF fa[fd].flags = FILE_AVAIL THEN Fail(fa)
  ELSE IF fa[fd].file_ops_table_ptr \in {"file", "directory"}
  THEN Return([fa EXCEPT ![fd] = blank], 0)
  ELSE Return(fa, 0)

\* rtc_close and terminal_close return 0 and leave the slot alone
close(fa, fd) ==
  IF fd \notin 2..NUM_MAX_OPEN_FILES-1 THEN Fail(fa)
  ELSE IF fa[fd].flags = FILE_AVAIL THEN Fail(fa)
  ELSE IF fa[fd].file_ops_table_ptr \in {"file", "directory"}
  THEN Return([fa EXCEPT ![fd] = blank], 0)
  ELSE Return(fa, 0)

----------------------------------------------------------------------------

\* Mutant: the position moves by what was asked for
file_read_nbytes(fa, fd, nbytes) ==
  LET n == read_data(fa[fd].inode_num, fa[fd].file_position, Unsigned(nbytes))
  IN  IF fd < 2 THEN Fail(fa)
      ELSE Return([fa EXCEPT ![fd].file_position = (@ + nbytes) % UINT_MOD], n)

\* A read_data of -1 is added to the position like any other count
file_read(fa, fd, nbytes) ==
  LET n == read_data(fa[fd].inode_num, fa[fd].file_position, Unsigned(nbytes))
  IN  IF fd < 2 THEN Fail(fa)
      ELSE Return([fa EXCEPT ![fd].file_position = (@ + n) % UINT_MOD], n)

\* Copies the name and its terminator whatever nbytes says
directory_read(fa, fd, nbytes) ==
  LET index == fa[fd].file_position
      len   == Smaller(NameLen[direntries[index].filename], FILENAME_LEN)
  IN  IF index >= NUM_FILES THEN Fail(fa)
      ELSE Outcome([fa EXCEPT ![fd].file_position = (@ + 1) % UINT_MOD],
                   len,
                   IF nbytes < len + 1 THEN len + 1 - nbytes ELSE 0, "up")

\* Blocks, with interrupts on, until the user ends a line; typed is its
\* length (module Terminal models the line editor)
terminal_read(fa, fd, nbytes, typed) ==
  LET max == Smaller(Unsigned(nbytes), MAX_INPUT_CHARS)
      len == Smaller(typed, max)
  IN  IF fd # 0 THEN Fail(fa)
      ELSE Outcome(fa, len, IF nbytes < len + 1 /\ nbytes >= 0 THEN 1 ELSE 0, "up")

\* rtc_read returns 0 when a tick is already pending; if not it polls intflag
\* for ever, because a system call runs with interrupts disabled
rtc_read(fa, ticked) ==
  IF ticked THEN Return(fa, 0) ELSE Outcome(fa, 0, 0, "spin")

read(fa, fd, nbytes, typed, ticked) ==
  IF fd \notin Fds THEN Fail(fa)
  ELSE IF fa[fd].flags = FILE_AVAIL THEN Fail(fa)
  ELSE CASE fa[fd].file_ops_table_ptr = "terminal" -> terminal_read(fa, fd, nbytes, typed)
         [] fa[fd].file_ops_table_ptr = "file" -> file_read(fa, fd, nbytes)
         [] fa[fd].file_ops_table_ptr = "directory" -> directory_read(fa, fd, nbytes)
         [] OTHER -> rtc_read(fa, ticked)

\* How many bytes read stores at the address it is given, also when it fails
\* over a missing block: a line and a name end with a NUL that is not counted
bytes_stored(fa, fd, nbytes, typed) ==
  IF fd \notin Fds THEN 0
  ELSE IF fa[fd].flags = FILE_AVAIL THEN 0
  ELSE CASE fa[fd].file_ops_table_ptr = "terminal" ->
              terminal_read(fa, fd, nbytes, typed).ret + 1
         [] fa[fd].file_ops_table_ptr = "directory" ->
              directory_read(fa, fd, nbytes).ret + 1
         [] fa[fd].file_ops_table_ptr = "file" /\ fd >= 2 ->
              copied(fa[fd].inode_num, fa[fd].file_position, Unsigned(nbytes))
         [] OTHER -> 0

----------------------------------------------------------------------------

\* Writes up to the first NUL, which comes after strlen characters
terminal_write(fa, fd, nbytes, strlen) ==
  IF fd # 1 THEN Fail(fa) ELSE Return(fa, Smaller(strlen, Unsigned(nbytes)))

\* rtc_write takes (buf, nbytes) but is called with (fd, buf, nbytes): it
\* dereferences the descriptor number as an address in the unmapped page 0
write(fa, fd, nbytes, strlen) ==
  IF fd \notin Fds THEN Fail(fa)
  ELSE IF fa[fd].flags = FILE_AVAIL THEN Fail(fa)
  ELSE CASE fa[fd].file_ops_table_ptr = "terminal" -> terminal_write(fa, fd, nbytes, strlen)
         [] fa[fd].file_ops_table_ptr \in {"file", "directory"} -> Fail(fa)
         [] OTHER -> Outcome(fa, -1, 0, "panic")
=============================================================================
