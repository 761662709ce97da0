---------------------------- MODULE Descriptors -----------------------------
(***************************************************************************)
(* The system calls on a process's table of file descriptors (syscalls.c), *)
(* as operators on the table fds, with their dispatch (syscalls_asm.S).    *)
(* What Files and Rtc say of several processes is left out here: this is   *)
(* what one process is answered.                                           *)
(***************************************************************************)
EXTENDS Names

CONSTANT MAX_FD

ASSUME DescriptorsAssumption == MAX_FD \in Nat /\ MAX_FD >= 2

(* A call's answer: its return value and the table afterwards.             *)
answer(ret, fds) == [ret |-> ret, fds |-> fds]

(* A new process's table: what the slot's last process left, with only     *)
(* stdin and stdout in use.                                                *)
new_table(old) ==
  [i \in 0 .. MAX_FD - 1 |->
     CASE i = 0 -> [old[i] EXCEPT !.in_use = TRUE, !.jumptable = "stdin"]
       [] i = 1 -> [old[i] EXCEPT !.in_use = TRUE, !.jumptable = "stdout"]
       [] OTHER -> [old[i] EXCEPT !.in_use = FALSE]]

usable(fds, fd) == fd \in 0 .. MAX_FD - 1 /\ fds[fd].in_use

(* The jump tables: no_read, no_write and fs_write fail, what the others   *)
(* return is at least 0 for a file that is intact.                         *)
can_read(file) ==
  \/ file.jumptable \in {"stdin", "rtc"}
  \/ file.jumptable = "fs" /\ file.filetype \in {1, 2}

can_write(file) == file.jumptable \in {"stdout", "rtc"}

read(fds, fd) == IF usable(fds, fd) /\ can_read(fds[fd]) THEN 0 ELSE -1

write(fds, fd) == IF usable(fds, fd) /\ can_write(fds[fd]) THEN 0 ELSE -1

(* The first descriptor that is free.                                      *)
open(fds, dentries, n_dentries, filename) ==
  LET found == read_dentry_by_name(dentries, n_dentries, filename)
      free == {i \in 0 .. MAX_FD - 1 : ~fds[i].in_use}
      type == dentries[found][MAX_FNAME_LEN]
  IN IF found = NotFound \/ free = {} THEN answer(-1, fds)
     ELSE answer(Min(free),
                 [fds EXCEPT ![Min(free)] =
                    [in_use |-> TRUE, filetype |-> type,
                     jumptable |-> IF type = 0 THEN "rtc" ELSE "fs"]])

(* Faulty variant: stdin and stdout can be closed.                         *)
close_any(fds, fd) ==
  IF ~usable(fds, fd) THEN answer(-1, fds)
  ELSE answer(0, [fds EXCEPT ![fd].in_use = FALSE])

close(fds, fd) ==
  IF fd < 2 \/ ~usable(fds, fd) THEN answer(-1, fds)
  ELSE answer(0, [fds EXCEPT ![fd].in_use = FALSE])

(* vidmap's tests of its pointer, a signed comparison.                     *)
PROGRAM_IMAGE == 134217728
USER_PAGE_BOTTOM == 138412032

vidmap(screenstart) ==
  IF screenstart \in PROGRAM_IMAGE .. USER_PAGE_BOTTOM - 4 THEN 0 ELSE -1

(* The dispatch on the number of the call; jmptbl[n] is what call n does.  *)
syscall_wrapper(eax, jmptbl) == IF eax <= 0 \/ eax > 10 THEN -1 ELSE jmptbl[eax]
=============================================================================
