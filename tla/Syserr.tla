------------------------------- MODULE Syserr -------------------------------
(***************************************************************************)
(* The test program ece391syserr.c: eight tests of what the system calls   *)
(* must refuse.  A test is an operator on the table of descriptors; fail   *)
(* says that something was not refused.                                    *)
(***************************************************************************)
EXTENDS Descriptors

outcome(fail, fds) == [fail |-> fail, fds |-> fds]

NEG == -1073741823
BIG == 1073741823

(* The directory: "." and a file, for hello and shell.                     *)
c_string(str) == [k \in 0 .. MAX_FNAME_LEN + 1 |->
                    IF k < Len(str) THEN str[k + 1] ELSE NUL]
dot == c_string(<<46>>)
hello == <<97, 98>>
directory == (0 :> [dot EXCEPT ![MAX_FNAME_LEN] = 1]) @@
             (1 :> [c_string(hello) EXCEPT ![MAX_FNAME_LEN] = 2])

open_named(fds, name) == open(fds, directory, 2, name)

(* read, write and close with a descriptor that does not exist.            *)
refuses_fd(fds, fd) ==
  LET c == close(fds, fd)
  IN outcome(read(fds, fd) # -1 \/ write(fds, fd) # -1 \/ c.ret # -1, c.fds)

err_neg_fd(fds) == refuses_fd(fds, NEG)
err_big_fd(fds) == refuses_fd(fds, BIG)

(* Seven times open of ".", of which one must fail, then close of all.     *)
err_open_lots(fds) ==
  LET opened == FoldLeft(LAMBDA a, i : LET o == open_named(a.fds, dot)
                                       IN [cnt |-> a.cnt + (IF o.ret = -1 THEN 1 ELSE 0),
                                           fds |-> o.fds],
                         [cnt |-> 0, fds |-> fds], UpFrom(0, 6))
      closed == FoldLeft(LAMBDA t, i : close(t, i).fds, opened.fds, UpFrom(2, 7))
  IN outcome(opened.cnt # 1, closed)

(* A name with a character too many, one with one too few, and no name.    *)
err_open(fds) ==
  FoldLeft(LAMBDA a, name : LET o == open_named(a.fds, c_string(name))
                            IN outcome(a.fail \/ o.ret # -1, o.fds),
           outcome(FALSE, fds), <<Append(hello, 98), Front(hello), <<>>>>)

err_unopened(fds) ==
  LET closed == FoldLeft(LAMBDA a, i : LET c == close(a.fds, i)
                                       IN outcome(a.fail \/ c.ret # -1, c.fds),
                         outcome(FALSE, fds), UpFrom(0, 7))
  IN outcome(\/ closed.fail
             \/ \E i \in 2 .. 7 : read(closed.fds, i) # -1 \/ write(closed.fds, i) # -1,
             closed.fds)

err_vidmap(fds) == outcome(vidmap(0) # -1 \/ vidmap(4194304) # -1, fds)

err_stdin_out(fds) == outcome(write(fds, 0) # -1 \/ read(fds, 1) # -1, fds)

(* None of the numbers gets as far as a call.                              *)
err_syscall_num(fds) ==
  outcome(\E num \in {BIG, NEG, 0} : syscall_wrapper(num, [n \in 1 .. 10 |-> 0]) # -1, fds)

Tests == 1 .. 8
test(i, fds) ==
  CASE i = 1 -> err_neg_fd(fds)    [] i = 2 -> err_big_fd(fds)
    [] i = 3 -> err_open_lots(fds) [] i = 4 -> err_open(fds)
    [] i = 5 -> err_unopened(fds)  [] i = 6 -> err_vidmap(fds)
    [] i = 7 -> err_stdin_out(fds) [] i = 8 -> err_syscall_num(fds)

(* The program: the test selected, or all for 0, each on the table the one *)
(* before has left.                                                        *)
syserr(select, fds) ==
  FoldLeft(LAMBDA a, i : LET t == test(i, a.fds) IN outcome(a.fail \/ t.fail, t.fds),
           outcome(FALSE, fds),
           IF select = 0 THEN UpFrom(1, 8) ELSE <<select>>)
=============================================================================
