------------------------------- MODULE Names --------------------------------
(***************************************************************************)
(* Names and command lines: the search of the directory and the copying of *)
(* names out of it (filesys.c), and the splitting of a command into a file *)
(* name and arguments, with getargs (syscalls.c).                          *)
(*                                                                         *)
(* The kernel's copy of a directory entry is an array: MAX_FNAME_LEN bytes *)
(* of name, NUL-padded, and behind them the lowest byte of the type.       *)
(***************************************************************************)
EXTENDS Lib

CONSTANTS
  MAX_FNAME_LEN,
  MAX_DENTRIES,
  BUFFER_SIZE

ASSUME NamesAssumption ==
  {MAX_FNAME_LEN, MAX_DENTRIES, BUFFER_SIZE} \subseteq Nat \ {0}

Blank == 32
NotFound == -1

(* The loop that measures a name, one step past the end of the name field. *)
name_len(name) ==
  Min({MAX_FNAME_LEN + 1}
        \cup {k \in 0 .. MAX_FNAME_LEN : name[k] = NUL})

(* Faulty variant: lengths are not compared first.                         *)
matches_prefix(fname, name) == strncmp(fname, name, name_len(fname)) = 0

matches(fname, name) ==
  /\ name_len(fname) = name_len(name)
  /\ strncmp(fname, name, name_len(fname)) = 0

(* dentries is the boot block's array, of which n_dentries are in use; the *)
(* result is the index of the entry that is copied out.                    *)
read_dentry_by_name(dentries, n_dentries, fname) ==
  LET found == {i \in 0 .. n_dentries - 1 :
                  i < MAX_DENTRIES /\ matches(fname, dentries[i])}
  IN IF found = {} THEN NotFound ELSE Min(found)

(* dir_read's buffer and return value for one entry.                       *)
dir_read(buf, name) ==
  LET len == name_len(name)
      b == strncpy(buf, name, len)
  IN IF len < MAX_FNAME_LEN
       THEN [buf |-> [b EXCEPT ![len] = NUL], ret |-> len + 1]
       ELSE [buf |-> b, ret |-> len]

-----------------------------------------------------------------------------
(* execute's parsing of the command: the name ends at a blank or the end,  *)
(* blanks are skipped, and the rest up to a limit is kept as arguments.    *)
word_end(command) ==
  CHOOSE i \in DOMAIN command :
    /\ command[i] \in {NUL, Blank}
    /\ \A k \in 0 .. i - 1 : command[k] \notin {NUL, Blank}

args_start(command) ==
  CHOOSE i \in DOMAIN command :
    /\ i >= word_end(command)
    /\ command[i] # Blank
    /\ \A k \in word_end(command) .. i - 1 : command[k] = Blank

args_limit(command) == BUFFER_SIZE - args_start(command)

args_end(command) ==
  LET i == args_start(command) IN
  Min({Max({i, args_limit(command)})}
        \cup {j \in DOMAIN command : j >= i /\ command[j] = NUL})

too_long(command) == word_end(command) > MAX_FNAME_LEN

exename(command) == [k \in 1 .. word_end(command) |-> command[k - 1]]

(* The arguments; the loop copies none for a caller in the last slot.      *)
args(command, last_slot) ==
  LET i == args_start(command)
  IN IF last_slot THEN <<>>
     ELSE [k \in 1 .. args_end(command) - i |-> command[i + k - 1]]

(* getargs's test, which is on unsigned numbers.                           *)
(* Faulty variant: one too many.                                           *)
args_fit_exactly(arguments, nbytes) == Len(arguments) <= nbytes % 2^WordBits

args_fit(arguments, nbytes) == Len(arguments) < (nbytes - 1) % 2^WordBits

(* The buffer afterwards, or what it was.                                  *)
getargs(buf, nbytes, arguments) ==
  IF ~args_fit(arguments, nbytes) THEN [ret |-> -1, buf |-> buf]
  ELSE LET size == Len(arguments)
           zeroed == filled(buf, 0, NUL, nbytes)
           full == copied(zeroed, [k \in 0 .. size - 1 |-> arguments[k + 1]], size)
       IN [ret |-> 0, buf |-> [full EXCEPT ![size] = NUL]]
=============================================================================
