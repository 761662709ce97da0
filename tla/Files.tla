------------------------------- MODULE Files --------------------------------
(***************************************************************************)
(* File descriptors and the reading of directories (open, close, halt and  *)
(* execute in syscalls.c; dir_read and fs_close in filesys.c).  Every      *)
(* process has descriptors of its own, but the place reached in the        *)
(* directory, dirs_read, is one global.  System calls other than execute   *)
(* and halt run with interrupts on, so a task switch may come between any  *)
(* two accesses of dirs_read.  What a read of a regular file returns is    *)
(* the subject of module ReadData.                                         *)
(***************************************************************************)
EXTENDS Integers

CONSTANTS
  Slots,       \* process slots
  MAX_FD,      \* descriptors of a process; 0 and 1 are stdin and stdout
  n_dentries,  \* directory entries, 0 .. n_dentries - 1
  MaxDirs      \* bound on dirs_read, which interleaved increments and
               \* resets can carry past the end of the directory

ASSUME FilesAssumption ==
  /\ MAX_FD \in Nat /\ MAX_FD > 2
  /\ n_dentries \in Nat
  /\ MaxDirs \in Nat

VARIABLES
  in_use,     \* the descriptors each slot has open
  dirs,       \* those of them that are directories
  dirs_read,  \* directory entries read so far, by anyone
  pc,         \* where each process is in dir_read or close
  fd,         \* the descriptor it reads
  len_of,     \* the entries whose names dir_read took the length from
  name_of,    \* the entry whose name dir_read copied
  loaded,     \* the value of dirs_read that dirs_read++ will store plus one
  listed,     \* history: entries read since the open of each descriptor
  mixed,      \* history: the <<slot, descriptor>> whose listing was not
              \* begun at the first entry, or was moved by another's step
  torn        \* history: a process was killed inside close, and no listing
              \* has ended since

vars == <<in_use, dirs, dirs_read, pc, fd, len_of, name_of, loaded, listed,
          mixed, torn>>

FDs == 2 .. MAX_FD - 1

Init ==
  /\ in_use = [p \in Slots |-> {}]
  /\ dirs = [p \in Slots |-> {}]
  /\ dirs_read = 0
  /\ pc = [p \in Slots |-> "user"]
  /\ fd = [p \in Slots |-> 2]
  /\ len_of = [p \in Slots |-> {}]
  /\ name_of = [p \in Slots |-> 0]
  /\ loaded = [p \in Slots |-> 0]
  /\ listed = [p \in Slots |-> [f \in FDs |-> 0]]
  /\ mixed = {}
  /\ torn = FALSE

goes(p, place) == pc' = [pc EXCEPT ![p] = place]

(* p is back in user mode: the variables of dir_read are gone.             *)
returns(p) ==
  /\ goes(p, "user")
  /\ fd' = [fd EXCEPT ![p] = 2]
  /\ len_of' = [len_of EXCEPT ![p] = {}]
  /\ name_of' = [name_of EXCEPT ![p] = 0]
  /\ loaded' = [loaded EXCEPT ![p] = 0]

Listings == {l \in Slots \X FDs : l[2] \in dirs[l[1]]}

(* The listings that a store of n in dirs_read moves.                      *)
moved(n) == IF n = dirs_read THEN {} ELSE Listings

-----------------------------------------------------------------------------
first_unused(p, f) ==
  f \in FDs \ in_use[p] /\ \A g \in 2 .. f - 1 : g \in in_use[p]

(* open of the directory or of another file.                               *)
open(p, is_dir) ==
  /\ pc[p] = "user"
  /\ \E f \in FDs :
       /\ first_unused(p, f)
       /\ in_use' = [in_use EXCEPT ![p] = @ \cup {f}]
       /\ dirs' = [dirs EXCEPT ![p] = IF is_dir THEN @ \cup {f} ELSE @]
       /\ mixed' = IF is_dir /\ dirs_read # 0 THEN mixed \cup {<<p, f>>}
                   ELSE mixed
  /\ UNCHANGED <<dirs_read, pc, fd, len_of, name_of, loaded, listed, torn>>

close(p, f) ==
  /\ pc[p] = "user"
  /\ f \in in_use[p]
  /\ in_use' = [in_use EXCEPT ![p] = @ \ {f}]
  /\ dirs' = [dirs EXCEPT ![p] = @ \ {f}]
  /\ listed' = [listed EXCEPT ![p][f] = 0]
  /\ mixed' = mixed \ {<<p, f>>}
  /\ IF f \in dirs[p] THEN goes(p, "fs_close") ELSE UNCHANGED pc
  /\ UNCHANGED <<dirs_read, fd, len_of, name_of, loaded, torn>>

fs_close(p) ==
  /\ pc[p] = "fs_close"
  /\ dirs_read' = 0
  /\ mixed' = mixed \cup moved(0)
  /\ torn' = FALSE
  /\ goes(p, "user")
  /\ UNCHANGED <<in_use, dirs, fd, len_of, name_of, loaded, listed>>

-----------------------------------------------------------------------------
(* The end of the directory.  Faulty variant: the bound is inclusive.      *)
entries_left_inclusive == dirs_read <= n_dentries

entries_left == dirs_read < n_dentries

(* dir_read; at the end of the directory it returns 0 at once.             *)
dir_read(p, f) ==
  /\ pc[p] = "user"
  /\ f \in dirs[p]
  /\ entries_left
  /\ fd' = [fd EXCEPT ![p] = f]
  /\ goes(p, "len")
  /\ UNCHANGED <<in_use, dirs, dirs_read, len_of, name_of, loaded, listed, mixed,
                 torn>>

(* The loop that finds the length reads dirs_read for every character.     *)
dir_read_len(p) ==
  /\ pc[p] = "len"
  /\ len_of' = [len_of EXCEPT ![p] = @ \cup {dirs_read}]
  /\ UNCHANGED pc \/ goes(p, "name")
  /\ UNCHANGED <<in_use, dirs, dirs_read, fd, name_of, loaded, listed, mixed, torn>>

dir_read_name(p) ==
  /\ pc[p] = "name"
  /\ name_of' = [name_of EXCEPT ![p] = dirs_read]
  /\ goes(p, "inc")
  /\ UNCHANGED <<in_use, dirs, dirs_read, fd, len_of, loaded, listed, mixed, torn>>

(* dirs_read++ is a load and a store, and an interrupt may come between.   *)
dir_read_load(p) ==
  /\ pc[p] = "inc"
  /\ loaded' = [loaded EXCEPT ![p] = dirs_read]
  /\ goes(p, "store")
  /\ UNCHANGED <<in_use, dirs, dirs_read, fd, len_of, name_of, listed, mixed, torn>>

dir_read_store(p) ==
  /\ pc[p] = "store"
  /\ loaded[p] < MaxDirs
  /\ dirs_read' = loaded[p] + 1
  /\ mixed' = mixed \cup (moved(loaded[p] + 1) \ {<<p, fd[p]>>})
  /\ listed' = [listed EXCEPT ![p][fd[p]] = IF @ > n_dentries THEN @ ELSE @ + 1]
  /\ returns(p)
  /\ UNCHANGED <<in_use, dirs, torn>>

-----------------------------------------------------------------------------
(* execute of the directory opens it, reads an entry and closes it, all    *)
(* with interrupts off; it fails earlier when no descriptor is left.       *)
execute_dir(p) ==
  /\ pc[p] = "user"
  /\ in_use[p] # FDs
  /\ dirs_read' = 0
  /\ mixed' = mixed \cup moved(0)
  /\ torn' = FALSE
  /\ UNCHANGED <<in_use, dirs, pc, fd, len_of, name_of, loaded, listed>>

(* What closing the descriptors leaves in dirs_read.                       *)
(* Faulty variant: halt frees the descriptors without closing them.        *)
dirs_read_after_halt_kept(p) == dirs_read

dirs_read_after_halt(p) == IF dirs[p] # {} THEN 0 ELSE dirs_read

(* halt, and exception_halt, which may come inside a system call.          *)
halt(p) ==
  /\ dirs_read' = dirs_read_after_halt(p)
  /\ mixed' = (mixed \cup moved(dirs_read_after_halt(p))) \ ({p} \X FDs)
  /\ in_use' = [in_use EXCEPT ![p] = {}]
  /\ dirs' = [dirs EXCEPT ![p] = {}]
  /\ listed' = [listed EXCEPT ![p] = [f \in FDs |-> 0]]
  /\ torn' = (dirs[p] = {} /\ (torn \/ pc[p] = "fs_close"))
  /\ returns(p)

-----------------------------------------------------------------------------
Next ==
  \E p \in Slots :
    \/ \E is_dir \in BOOLEAN : open(p, is_dir)
    \/ \E f \in FDs : close(p, f)
    \/ fs_close(p)
    \/ \E f \in FDs : dir_read(p, f)
    \/ dir_read_len(p)
    \/ dir_read_name(p)
    \/ dir_read_load(p)
    \/ dir_read_store(p)
    \/ execute_dir(p)
    \/ halt(p)

Spec == Init /\ [][Next]_vars

-----------------------------------------------------------------------------
(* When nobody has the directory open or is closing it, the next listing   *)
(* starts with the first entry: every way to end (close, halt, the failed  *)
(* execute of the directory) has reset dirs_read, however the listings     *)
(* were interleaved.  Only a process killed between close's release of the *)
(* descriptor and fs_close leaves it, until the next listing ends.         *)
NextListingFromStart ==
  (\A p \in Slots : dirs[p] = {} /\ pc[p] # "fs_close") =>
    dirs_read = 0 \/ torn

(* A listing that begins at the first entry, and whose place nobody else   *)
(* moves, returns the entries one by one and stops after the last: however *)
(* the reads of others, which read the same dirs_read, are interleaved     *)
(* with it, its length and its name come from one entry, the next one.     *)
ListsInOrder ==
  \A p \in Slots : \A f \in dirs[p] :
    <<p, f>> \notin mixed =>
      /\ listed[p][f] = dirs_read
      /\ dirs_read <= n_dentries
      /\ fd[p] = f /\ pc[p] \in {"inc", "store"} =>
           name_of[p] = dirs_read /\ len_of[p] = {dirs_read}

(* "reads from a file starting at the last read location" (filesys.c:250): *)
(* a read of a directory returns the entry after the one it returned last. *)
(* Another process's read, close or execute of the directory moves the     *)
(* place.                                                                  *)
ContinuesListing ==
  \A p \in Slots : pc[p] = "inc" => name_of[p] = listed[p][fd[p]]
=============================================================================
