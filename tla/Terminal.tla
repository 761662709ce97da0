------------------------------ MODULE Terminal ------------------------------
(***************************************************************************)
(* The line buffer of one terminal (terminal.c): keyboard interrupts fill  *)
(* it, terminal_read empties it with interrupts on, so a key may come      *)
(* between any two of its memory accesses.  One process reads at a time,   *)
(* the leaf of the terminal's chain.  The terminal is the visible one:     *)
(* no key reaches the buffer of a hidden terminal.                         *)
(***************************************************************************)
EXTENDS Integers, Sequences

CONSTANTS
  BUFFER_SIZE,  \* bytes in the buffer
  Chars,        \* characters the regular keys give
  Newline,      \* '\n'
  Nul,          \* '\0', which no key gives
  Sizes         \* values of nbytes programs pass to read

ASSUME TerminalAssumption ==
  /\ BUFFER_SIZE \in Nat \ {0}
  /\ Newline \notin Chars /\ Nul \notin Chars /\ Nul # Newline
  /\ Sizes \subseteq Nat

VARIABLES
  buffer,        \* the bytes of the line, 0 .. BUFFER_SIZE - 1
  buf_pos,       \* where the next character goes
  kbd_is_read,   \* ENTER was pressed, the line may be read
  halt_pending,  \* a CTRL-C waits for the process to be scheduled
  pc,            \* what the reading process does next
  copied,             \* terminal_read's index i
  nbytes,        \* terminal_read's argument
  buf,           \* what terminal_read has copied
  typed,         \* history: the line as it was typed, up to its newline
  spoilt         \* history: a key was pressed while a line waited, or a
                 \* reader killed when it had cleared half of the state

read_vars == <<pc, copied, nbytes, buf>>
history_vars == <<typed, spoilt>>
terminal_vars ==
  <<buffer, buf_pos, kbd_is_read, halt_pending, history_vars, read_vars>>

Places == 0 .. BUFFER_SIZE - 1

(* terminal_init, the bytes of the buffer being zero.                      *)
TerminalInit ==
  /\ buffer = [k \in Places |-> Nul]
  /\ buf_pos = 0
  /\ kbd_is_read = FALSE
  /\ halt_pending = FALSE
  /\ pc = "user"
  /\ copied = 0
  /\ nbytes = 0
  /\ buf = <<>>
  /\ typed = <<>>
  /\ spoilt = FALSE

-----------------------------------------------------------------------------
(* A line is complete and the read that takes it has not returned.         *)
LineWaits == kbd_is_read \/ pc = "clear_flag"

(* A key makes line of what was typed, or comes while a line waits.        *)
record(line) == IF LineWaits THEN typed' = typed /\ spoilt' = TRUE
                             ELSE typed' = line /\ spoilt' = spoilt

(* Nothing is typed and nothing waits: a new line begins.                  *)
record_nothing_typed == typed' = <<>> /\ spoilt' = FALSE

(* The test of keyboardHandler that keeps a place for the newline.         *)
has_room == buf_pos < BUFFER_SIZE - 1

do_reg(c) ==
  /\ has_room
  /\ buffer' = [buffer EXCEPT ![buf_pos] = c]
  /\ buf_pos' = buf_pos + 1
  /\ record(Append(typed, c))
  /\ UNCHANGED <<kbd_is_read, halt_pending, read_vars>>

do_spec_enter ==
  /\ buffer' = [buffer EXCEPT ![buf_pos] = Newline]
  /\ kbd_is_read' = TRUE
  /\ record(Append(typed, Newline))
  /\ UNCHANGED <<buf_pos, halt_pending, read_vars>>

do_spec_backspace ==
  /\ buf_pos # 0
  /\ buf_pos' = buf_pos - 1
  /\ record(SubSeq(typed, 1, Len(typed) - 1))
  /\ UNCHANGED <<buffer, kbd_is_read, halt_pending, read_vars>>

key_ctrl_l ==
  /\ buf_pos' = 0
  /\ record(<<>>)
  /\ UNCHANGED <<buffer, kbd_is_read, halt_pending, read_vars>>

-----------------------------------------------------------------------------
(* The reading process dies.  A base shell is started again, which calls   *)
(* terminal_init; otherwise its parent goes on and finds what there is.    *)
dies ==
  /\ pc' = "user"
  /\ buf' = <<>>
  /\ copied' = 0
  /\ nbytes' = 0

restarted ==
  dies /\ buf_pos' = 0 /\ kbd_is_read' = FALSE /\ record_nothing_typed

(* CTRL-C, the reading process having the CPU or not.                      *)
key_ctrl_c ==
  /\ buf_pos' = 0
  /\ \/ restarted /\ UNCHANGED halt_pending
     \/ /\ dies
        /\ record(<<>>)
        /\ UNCHANGED <<kbd_is_read, halt_pending>>
     \/ /\ halt_pending' = TRUE
        /\ record(<<>>)
        /\ UNCHANGED <<kbd_is_read, read_vars>>
  /\ UNCHANGED buffer

(* The end of a time slice that finds a CTRL-C pending, and an exception   *)
(* of the process, its own or at the address it gave for buf.              *)
killed ==
  /\ \/ halt_pending /\ halt_pending' = FALSE
     \/ pc \in {"user", "copy"} /\ UNCHANGED halt_pending
  /\ \/ restarted
     \/ /\ dies
        /\ spoilt' = (spoilt \/ pc = "clear_flag")
        /\ UNCHANGED <<buf_pos, kbd_is_read, typed>>
  /\ UNCHANGED buffer

-----------------------------------------------------------------------------
(* terminal_read, one memory access of the shared state at a time.         *)
read_call(n) ==
  /\ pc = "user"
  /\ pc' = "spin"
  /\ copied' = 0
  /\ nbytes' = n
  /\ buf' = <<>>
  /\ UNCHANGED <<buffer, buf_pos, kbd_is_read, halt_pending, history_vars>>

(* What ends the wait.  Faulty variant: an empty line does not.            *)
line_ready_nonempty == kbd_is_read /\ buf_pos # 0

line_ready == kbd_is_read

read_spin ==
  /\ pc = "spin"
  /\ line_ready
  /\ pc' = "test"
  /\ UNCHANGED <<buffer, buf_pos, kbd_is_read, halt_pending, history_vars, copied,
                 nbytes, buf>>

(* The loop's condition.  Faulty variants: the newline at buf_pos is not   *)
(* part of the line; one byte too many is asked for.                       *)
more_no_newline == copied < nbytes /\ copied < buf_pos
more_one_extra == copied <= nbytes /\ copied <= buf_pos

more == copied < nbytes /\ copied <= buf_pos

read_test ==
  /\ pc = "test"
  /\ pc' = IF more THEN "copy" ELSE "clear_pos"
  /\ UNCHANGED <<buffer, buf_pos, kbd_is_read, halt_pending, history_vars, copied,
                 nbytes, buf>>

read_copy ==
  /\ pc = "copy"
  /\ buf' = Append(buf, buffer[copied])
  /\ copied' = copied + 1
  /\ pc' = "test"
  /\ UNCHANGED <<buffer, buf_pos, kbd_is_read, halt_pending, history_vars,
                 nbytes>>

read_clear_pos ==
  /\ pc = "clear_pos"
  /\ buf_pos' = 0
  /\ pc' = "clear_flag"
  /\ UNCHANGED <<buffer, kbd_is_read, halt_pending, history_vars, copied, nbytes,
                 buf>>

read_clear_flag ==
  /\ pc = "clear_flag"
  /\ kbd_is_read' = FALSE
  /\ typed' = <<>>
  /\ spoilt' = (buf_pos # 0)
  /\ pc' = "user"
  /\ UNCHANGED <<buffer, buf_pos, halt_pending, copied, nbytes, buf>>

terminal_read ==
  \/ read_spin
  \/ read_test
  \/ read_copy
  \/ read_clear_pos
  \/ read_clear_flag

-----------------------------------------------------------------------------
TerminalNext ==
  \/ \E c \in Chars : do_reg(c)
  \/ do_spec_enter
  \/ do_spec_backspace
  \/ key_ctrl_l
  \/ key_ctrl_c
  \/ killed
  \/ \E n \in Sizes : read_call(n)
  \/ terminal_read

TerminalSpec == TerminalInit /\ [][TerminalNext]_terminal_vars

(* A process inside terminal_read goes on: the scheduler gives its         *)
(* terminal the CPU again and again (Kernel, EveryTerminalRuns).           *)
FairTerminalSpec == TerminalSpec /\ WF_terminal_vars(terminal_read)

-----------------------------------------------------------------------------
(* What a read has copied when it is about to return is the line that was  *)
(* typed, after backspaces and CTRL-Ls, newline included, cut at nbytes;   *)
(* nothing of an earlier line shows through, whether or not that one was   *)
(* read to its end or its reader died.  Only a key pressed while a line    *)
(* waits, or a kill between the last two steps of a read, spoils it, up to *)
(* the next time the buffer is empty.                                      *)
ReadExact ==
  pc = "clear_flag" /\ ~spoilt =>
    buf = SubSeq(typed, 1, IF nbytes < Len(typed) THEN nbytes ELSE Len(typed))

(* Keys never take buf_pos out of the buffer, whose last place is for the  *)
(* newline (do_reg, do_spec), and a read never copies more than nbytes or  *)
(* than the buffer holds, however they move buf_pos under it.              *)
ReadBounded == buf_pos \in Places /\ Len(buf) <= nbytes /\ Len(buf) <= BUFFER_SIZE

(* A read that finds a line returns or its process dies, even if keys keep *)
(* coming: they cannot keep the copy loop going.                           *)
ReadReturns == pc # "user" /\ kbd_is_read ~> pc = "user"
=============================================================================
