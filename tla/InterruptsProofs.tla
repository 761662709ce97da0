-------------------------- MODULE InterruptsProofs --------------------------
(***************************************************************************)
(* Proofs about what interrupts come between: terminal_read and the line   *)
(* buffer that keys change under it (module Terminal), for any size of the *)
(* buffer, any characters and any lengths that programs ask for; and the   *)
(* handlers on the kernel stacks (module Interrupts), for any number of    *)
(* terminals, of processes of one terminal and of interrupts open on one   *)
(* stack.                                                                  *)
(***************************************************************************)
EXTENDS Interrupts, Terminal, TLAPS

-----------------------------------------------------------------------------
(* The line buffer of a terminal.                                          *)

Bytes == Chars \cup {Newline, Nul}
Copying == {"test", "copy", "clear_pos", "clear_flag"}

TypeInv ==
  /\ buffer \in [Places -> Bytes]
  /\ buf_pos \in Places
  /\ kbd_is_read \in BOOLEAN
  /\ pc \in {"user", "spin"} \cup Copying
  /\ copied \in Nat
  /\ nbytes \in Nat
  /\ buf \in Seq(Bytes)
  /\ typed \in Seq(Bytes)
  /\ spoilt \in BOOLEAN

(* terminal_read has copied i bytes and stays within its limits, whatever  *)
(* keys do to buf_pos meanwhile.                                           *)
BoundsInv ==
  /\ pc \in Copying => kbd_is_read
  /\ Len(buf) = copied /\ copied <= nbytes /\ copied <= BUFFER_SIZE
  /\ pc = "copy" => copied < nbytes /\ copied < BUFFER_SIZE
  /\ pc = "spin" => copied = 0

(* The buffer holds what was typed until the read clears buf_pos; and what *)
(* has been copied are the first bytes of it, all that was asked for when  *)
(* the loop has ended.                                                     *)
LineInv ==
  ~spoilt =>
    /\ pc # "clear_flag" =>
         /\ Len(typed) = IF kbd_is_read THEN buf_pos + 1 ELSE buf_pos
         /\ \A k \in 1 .. Len(typed) : typed[k] = buffer[k - 1]
    /\ pc \in Copying =>
         /\ copied <= Len(typed)
         /\ \A k \in 1 .. copied : buf[k] = typed[k]
    /\ pc = "copy" => copied < Len(typed)
    /\ pc \in {"clear_pos", "clear_flag"} => copied = nbytes \/ copied = Len(typed)

TerminalInv == TypeInv /\ BoundsInv /\ LineInv

(* A key that does not end the reading process.                            *)
LEMMA KeyStep ==
  ASSUME TerminalInv, NEW line \in Seq(Bytes), record(line),
         buffer' \in [Places -> Bytes], buf_pos' \in Places,
         kbd_is_read' \in BOOLEAN, kbd_is_read => kbd_is_read',
         UNCHANGED read_vars,
         ~kbd_is_read /\ ~spoilt =>
           /\ Len(line) = IF kbd_is_read' THEN buf_pos' + 1 ELSE buf_pos'
           /\ \A k \in 1 .. Len(line) : line[k] = buffer'[k - 1]
  PROVE  TerminalInv'
<1>1. LineWaits <=> kbd_is_read
  BY DEF LineWaits, TerminalInv, BoundsInv, TypeInv, Copying
<1>2. /\ kbd_is_read => typed' = typed /\ spoilt' = TRUE
      /\ ~kbd_is_read => typed' = line /\ spoilt' = spoilt
  BY <1>1 DEF record
<1>3. TypeInv'
  BY <1>2, Zenon DEF TerminalInv, TypeInv, read_vars
<1>4. BoundsInv'
  BY DEF TerminalInv, BoundsInv, read_vars
<1>5. LineInv'
  <2>1. CASE kbd_is_read
    BY <1>2, <2>1 DEF LineInv
  <2>2. CASE ~kbd_is_read
    <3>1. pc \notin Copying /\ pc' = pc /\ pc # "clear_flag"
      BY <2>2 DEF TerminalInv, BoundsInv, Copying, read_vars
    <3> QED
      BY <1>2, <2>2, <3>1 DEF LineInv, Copying
  <2> QED
    BY <2>1, <2>2
<1> QED
  BY <1>3, <1>4, <1>5 DEF TerminalInv

(* The reading process dies and leaves the line as it is, or a new line is *)
(* begun.                                                                  *)
LEMMA DiesStep ==
  ASSUME TerminalInv, dies, buffer' = buffer,
         \/ /\ spoilt' = (spoilt \/ pc = "clear_flag")
            /\ UNCHANGED <<buf_pos, kbd_is_read, typed>>
         \/ buf_pos' = 0 /\ kbd_is_read' = kbd_is_read /\ record(<<>>)
         \/ buf_pos' = 0 /\ kbd_is_read' = FALSE /\ record_nothing_typed
  PROVE  TerminalInv'
<1>0. /\ TypeInv /\ BoundsInv /\ LineInv
      /\ 0 \in Places /\ BUFFER_SIZE \in Nat
  BY TerminalAssumption DEF TerminalInv, Places
<1>1. pc' = "user" /\ copied' = 0 /\ nbytes' = 0 /\ buf' = <<>>
  BY DEF dies
<1>2. BoundsInv'
  BY <1>0, <1>1 DEF BoundsInv, Copying
<1>3. <<>> \in Seq(Bytes) /\ Len(<<>>) = 0
  OBVIOUS
<1>4. CASE /\ spoilt' = (spoilt \/ pc = "clear_flag")
           /\ UNCHANGED <<buf_pos, kbd_is_read, typed>>
  <2>1. TypeInv'
    BY <1>0, <1>1, <1>3, <1>4 DEF TypeInv
  <2>2. LineInv'
    BY <1>0, <1>1, <1>4, Zenon DEF LineInv, Copying
  <2> QED
    BY <1>2, <2>1, <2>2 DEF TerminalInv
<1>5. CASE buf_pos' = 0 /\ kbd_is_read' = kbd_is_read /\ record(<<>>)
  <2>1. TypeInv'
    BY <1>0, <1>1, <1>3, <1>5 DEF TypeInv, record
  <2>2. LineInv'
    BY <1>0, <1>1, <1>3, <1>5 DEF LineInv, Copying, record, LineWaits
  <2> QED
    BY <1>2, <2>1, <2>2 DEF TerminalInv
<1>6. CASE buf_pos' = 0 /\ kbd_is_read' = FALSE /\ record_nothing_typed
  <2>1. TypeInv'
    BY <1>0, <1>1, <1>3, <1>6 DEF TypeInv, record_nothing_typed
  <2>2. LineInv'
    BY <1>0, <1>1, <1>3, <1>6 DEF LineInv, Copying, record_nothing_typed
  <2> QED
    BY <1>2, <2>1, <2>2 DEF TerminalInv
<1> QED
  BY <1>4, <1>5, <1>6, Zenon

(* Every step keeps the invariant.                                         *)
LEMMA TerminalStep ==
  ASSUME TerminalInv, TerminalNext
  PROVE  TerminalInv'
<1>0. /\ TypeInv /\ BoundsInv /\ LineInv
      /\ Places \subseteq Nat /\ BUFFER_SIZE \in Nat /\ 0 \in Places
      /\ \A k \in Nat : k < BUFFER_SIZE <=> k \in Places
  BY TerminalAssumption DEF TerminalInv, Places
<1>a. /\ buffer \in [Places -> Bytes] /\ buf_pos \in Places /\ buf_pos \in Nat
      /\ typed \in Seq(Bytes) /\ kbd_is_read \in BOOLEAN
  BY <1>0 DEF TypeInv
<1>b. ~kbd_is_read /\ ~spoilt =>
        /\ Len(typed) = buf_pos
        /\ \A k \in 1 .. Len(typed) : typed[k] = buffer[k - 1]
  BY <1>0 DEF LineInv, BoundsInv, Copying
<1>1. ASSUME NEW c \in Chars, do_reg(c)
      PROVE  TerminalInv'
  <2> DEFINE line == Append(typed, c)
  <2>1. /\ buf_pos + 1 \in Places
        /\ buffer' = [buffer EXCEPT ![buf_pos] = c]
        /\ buf_pos' = buf_pos + 1
        /\ kbd_is_read' = kbd_is_read
        /\ record(line)
        /\ UNCHANGED read_vars
    BY <1>0, <1>a, <1>1 DEF do_reg, has_room
  <2>2. line \in Seq(Bytes) /\ c \in Bytes
    BY <1>a DEF Bytes
  <2>3. buffer' \in [Places -> Bytes]
    BY <1>a, <2>1, <2>2
  <2>4. ~kbd_is_read /\ ~spoilt =>
          /\ Len(line) = buf_pos + 1
          /\ \A k \in 1 .. Len(line) : line[k] = buffer'[k - 1]
    BY <1>0, <1>a, <1>b, <2>1
  <2> HIDE DEF line
  <2> QED
    BY <1>a, <2>1, <2>2, <2>3, <2>4, KeyStep
<1>2. CASE do_spec_enter
  <2> DEFINE line == Append(typed, Newline)
  <2>1. /\ buffer' = [buffer EXCEPT ![buf_pos] = Newline]
        /\ buf_pos' = buf_pos
        /\ kbd_is_read' = TRUE
        /\ record(line)
        /\ UNCHANGED read_vars
    BY <1>2 DEF do_spec_enter
  <2>2. line \in Seq(Bytes) /\ Newline \in Bytes
    BY <1>a DEF Bytes
  <2>3. buffer' \in [Places -> Bytes]
    BY <1>a, <2>1, <2>2
  <2>4. ~kbd_is_read /\ ~spoilt =>
          /\ Len(line) = buf_pos + 1
          /\ \A k \in 1 .. Len(line) : line[k] = buffer'[k - 1]
    BY <1>0, <1>a, <1>b, <2>1
  <2> HIDE DEF line
  <2> QED
    BY <1>a, <2>1, <2>2, <2>3, <2>4, KeyStep
<1>3. CASE do_spec_backspace
  <2> DEFINE line == SubSeq(typed, 1, Len(typed) - 1)
  <2>1. /\ buf_pos - 1 \in Places
        /\ buffer' = buffer
        /\ buf_pos' = buf_pos - 1
        /\ kbd_is_read' = kbd_is_read
        /\ record(line)
        /\ UNCHANGED read_vars
    BY <1>0, <1>a, <1>3 DEF do_spec_backspace, Places
  <2>2. line \in Seq(Bytes)
    BY <1>a
  <2>4. ~kbd_is_read /\ ~spoilt =>
          /\ Len(line) = buf_pos - 1
          /\ \A k \in 1 .. Len(line) : line[k] = buffer[k - 1]
    BY <1>0, <1>a, <1>b, <2>1
  <2> HIDE DEF line
  <2> QED
    BY <1>a, <2>1, <2>2, <2>4, KeyStep
<1>4. <<>> \in Seq(Bytes) /\ Len(<<>>) = 0
  OBVIOUS
<1>5. ASSUME buf_pos' = 0, record(<<>>), UNCHANGED <<buffer, kbd_is_read, read_vars>>
      PROVE  TerminalInv'
  <2>1. ~kbd_is_read /\ ~spoilt =>
          /\ Len(<<>>) = IF kbd_is_read' THEN buf_pos' + 1 ELSE buf_pos'
          /\ \A k \in 1 .. Len(<<>>) : <<>>[k] = buffer'[k - 1]
    BY <1>4, <1>5
  <2> QED
    BY <1>0, <1>a, <1>4, <1>5, <2>1, KeyStep
<1>6. CASE key_ctrl_l
  BY <1>5, <1>6 DEF key_ctrl_l
<1>7. CASE key_ctrl_c
  BY <1>5, <1>7, DiesStep, Zenon DEF key_ctrl_c, restarted
<1>8. CASE killed
  BY <1>8, DiesStep, Zenon DEF killed, restarted
<1>9. ASSUME NEW n \in Sizes, read_call(n)
      PROVE  TerminalInv'
  <2>1. n \in Nat
    BY TerminalAssumption
  <2>2. TypeInv'
    BY <1>0, <1>4, <1>9, <2>1 DEF read_call, TypeInv, history_vars
  <2>3. BoundsInv'
    BY <1>0, <1>4, <1>9, <2>1 DEF read_call, BoundsInv, Copying
  <2>4. LineInv'
    BY <1>0, <1>9 DEF read_call, LineInv, Copying, history_vars
  <2> QED
    BY <2>2, <2>3, <2>4 DEF TerminalInv
<1>10. CASE read_spin
  <2>1. TypeInv'
    BY <1>0, <1>10 DEF read_spin, TypeInv, Copying, history_vars
  <2>2. BoundsInv'
    BY <1>0, <1>10 DEF read_spin, line_ready, BoundsInv, Copying
  <2>3. LineInv'
    <3>1. copied = 0 /\ Len(typed) \in Nat
      BY <1>0, <1>a, <1>10 DEF read_spin, BoundsInv
    <3> QED
      BY <1>0, <1>10, <3>1 DEF read_spin, LineInv, Copying, history_vars
  <2> QED
    BY <2>1, <2>2, <2>3 DEF TerminalInv
<1>11. CASE read_test
  <2>1. TypeInv'
    BY <1>0, <1>11 DEF read_test, TypeInv, Copying, history_vars
  <2>0. copied \in Nat /\ nbytes \in Nat
    BY <1>0 DEF TypeInv
  <2>2. BoundsInv'
    BY <1>0, <1>a, <1>11, <2>0 DEF read_test, more, BoundsInv, Copying
  <2>3. LineInv'
    BY <1>0, <1>a, <1>11, <2>0
       DEF read_test, more, LineInv, BoundsInv, Copying, history_vars
  <2> QED
    BY <2>1, <2>2, <2>3 DEF TerminalInv
<1>12. CASE read_copy
  <2>0. copied \in Nat /\ nbytes \in Nat /\ copied < BUFFER_SIZE /\ copied < nbytes
        /\ buf \in Seq(Bytes) /\ Len(buf) = copied /\ kbd_is_read
        /\ pc = "copy" /\ pc' = "test"
        /\ copied' = copied + 1
        /\ buf' = Append(buf, buffer[copied])
        /\ buffer[copied] \in Bytes
        /\ UNCHANGED <<buffer, buf_pos, kbd_is_read, nbytes, typed, spoilt>>
    BY <1>0, <1>a, <1>12
       DEF read_copy, TypeInv, BoundsInv, Copying, history_vars
  <2>1. TypeInv'
    BY <1>0, <2>0 DEF TypeInv, Copying
  <2>2. BoundsInv'
    BY <1>0, <2>0 DEF BoundsInv
  <2>3. LineInv'
    <3> SUFFICES ASSUME ~spoilt
                 PROVE  /\ Len(typed) = buf_pos + 1
                        /\ \A k \in 1 .. Len(typed) : typed[k] = buffer[k - 1]
                        /\ copied + 1 <= Len(typed)
                        /\ \A k \in 1 .. copied + 1 : buf'[k] = typed[k]
      BY <2>0 DEF LineInv
    <3>1. /\ Len(typed) = buf_pos + 1
          /\ \A k \in 1 .. Len(typed) : typed[k] = buffer[k - 1]
          /\ copied < Len(typed)
          /\ \A k \in 1 .. copied : buf[k] = typed[k]
      BY <1>0, <2>0 DEF LineInv, Copying
    <3>2. typed[copied + 1] = buffer[copied]
      <4>1. copied + 1 \in 1 .. Len(typed) /\ (copied + 1) - 1 = copied
        BY <1>a, <2>0, <3>1
      <4> QED
        BY <3>1, <4>1
    <3> QED
      BY <1>a, <2>0, <3>1, <3>2
  <2> QED
    BY <2>1, <2>2, <2>3 DEF TerminalInv
<1>13. CASE read_clear_pos
  <2>1. TypeInv'
    BY <1>0, <1>13 DEF read_clear_pos, TypeInv, Copying, history_vars
  <2>2. BoundsInv'
    BY <1>0, <1>13 DEF read_clear_pos, BoundsInv, Copying
  <2>3. LineInv'
    BY <1>0, <1>13 DEF read_clear_pos, LineInv, Copying, history_vars
  <2> QED
    BY <2>1, <2>2, <2>3 DEF TerminalInv
<1>14. CASE read_clear_flag
  <2>1. TypeInv'
    BY <1>0, <1>4, <1>14 DEF read_clear_flag, TypeInv
  <2>2. BoundsInv'
    BY <1>0, <1>14 DEF read_clear_flag, BoundsInv, Copying
  <2>3. LineInv'
    <3>1. /\ typed' = <<>> /\ pc' = "user" /\ kbd_is_read' = FALSE
          /\ buf_pos' = buf_pos
          /\ ~spoilt' => buf_pos = 0
      BY <1>14, Zenon DEF read_clear_flag
    <3> QED
      BY <1>4, <3>1 DEF LineInv, Copying
  <2> QED
    BY <2>1, <2>2, <2>3 DEF TerminalInv
<1> QED
  BY <1>1, <1>2, <1>3, <1>6, <1>7, <1>8, <1>9, <1>10, <1>11, <1>12, <1>13,
     <1>14
     DEF TerminalNext, terminal_read

(* What the two theorems below rest on.                                    *)
THEOREM TerminalInvariant == TerminalSpec => []TerminalInv
<1>1. TerminalInit => TerminalInv
  <2> SUFFICES ASSUME TerminalInit PROVE TerminalInv
    OBVIOUS
  <2>1. <<>> \in Seq(Bytes) /\ Len(<<>>) = 0
    OBVIOUS
  <2>2. 0 \in Places /\ BUFFER_SIZE \in Nat
    BY TerminalAssumption DEF Places
  <2>3. TypeInv
    BY <2>1, <2>2 DEF TerminalInit, TypeInv, Bytes
  <2>4. BoundsInv
    BY <2>1, <2>2 DEF TerminalInit, BoundsInv, Copying
  <2>5. LineInv
    BY <2>1 DEF TerminalInit, LineInv, Copying
  <2> QED
    BY <2>3, <2>4, <2>5 DEF TerminalInv
<1>2. TerminalInv /\ [TerminalNext]_terminal_vars => TerminalInv'
  <2>1. ASSUME TerminalInv, UNCHANGED terminal_vars
        PROVE  TerminalInv'
    BY <2>1
       DEF terminal_vars, history_vars, read_vars, TerminalInv, TypeInv, BoundsInv,
                LineInv
  <2> QED
    BY <2>1, TerminalStep
<1> QED
  BY <1>1, <1>2, PTL DEF TerminalSpec

(* Whatever keys come between the steps of terminal_read, it stays within  *)
(* the buffer and within nbytes.                                           *)
THEOREM ReadsBounded == TerminalSpec => []ReadBounded
<1>1. TerminalInv => ReadBounded
  BY DEF TerminalInv, TypeInv, BoundsInv, ReadBounded
<1> QED
  BY <1>1, TerminalInvariant, PTL

(* A read returns the line as it was typed, cut at nbytes, unless a key    *)
(* was pressed while the line waited or its reader was killed half-way.    *)
THEOREM ReadsExact == TerminalSpec => []ReadExact
<1>1. ASSUME TerminalInv, pc = "clear_flag", ~spoilt
      PROVE  buf = SubSeq(typed, 1, IF nbytes < Len(typed) THEN nbytes ELSE Len(typed))
  <2> DEFINE n == IF nbytes < Len(typed) THEN nbytes ELSE Len(typed)
             line == SubSeq(typed, 1, n)
  <2>1. /\ typed \in Seq(Bytes) /\ buf \in Seq(Bytes) /\ nbytes \in Nat
        /\ Len(buf) = copied /\ copied \in Nat /\ copied <= nbytes
    BY <1>1 DEF TerminalInv, TypeInv, BoundsInv
  <2>2. /\ copied <= Len(typed)
        /\ \A k \in 1 .. copied : buf[k] = typed[k]
        /\ copied = nbytes \/ copied = Len(typed)
    BY <1>1 DEF TerminalInv, LineInv, Copying
  <2>3. copied = n /\ Len(typed) \in Nat
    BY <2>1, <2>2
  <2> HIDE DEF n
  <2>4. /\ line \in Seq(Bytes) /\ Len(line) = copied
        /\ \A k \in 1 .. copied : line[k] = typed[k]
    BY <2>1, <2>2, <2>3
  <2> HIDE DEF line
  <2>5. buf = line
    BY <2>1, <2>2, <2>4
  <2> QED
    BY <2>5 DEF line, n
<1>2. TerminalInv => ReadExact
  BY <1>1 DEF ReadExact
<1> QED
  BY <1>2, TerminalInvariant, PTL

-----------------------------------------------------------------------------
(* Handlers on the kernel stacks.                                          *)
Handlers == {"pit", "keyboard", "rtc"}
Frames == {f \in [h : Handlers \cup {"syscall"}, done : Nat] :
             f.done <= Len(body(f.h))}
Stacks == Seq(Frames)
Threads == Terminals \cup {Boot}

(* Of a stack, of its part below the top, and of all stacks of a terminal: *)
(* nothing left to do but turn interrupts on and return.                   *)
Quiet(stack) == \A k \in 1 .. Len(stack) : resumable(stack[k])
QuietBelow(stack) == \A k \in 1 .. Len(stack) - 1 : resumable(stack[k])
AllQuiet(c) == \A p \in 1 .. Len(c) : Quiet(c[p])
QuietButTop(c) ==
  /\ c # <<>>
  /\ \A p \in 1 .. Len(c) - 1 : Quiet(c[p])
  /\ QuietBelow(Last(c))

ChainInv ==
  /\ cpu \in Threads
  /\ chain \in [Threads -> Seq(Stacks)]
  /\ \A t \in Threads \ {cpu} : AllQuiet(chain[t])
  /\ QuietButTop(chain[cpu])

(* Of the lines the kernel uses these are masked.                          *)
Masks(only) ==
  /\ SLAVE_IRQ_NUM \notin master_mask
  /\ \A i \in Irqs : masked(i) <=> i \in only

(* The controllers and the devices are ready for any interrupt.            *)
Ready == isr = {} /\ Masks({}) /\ waiting = irr

(* How far interrupt i is dealt with once its handler has done d steps.    *)
ServedTo(i, d) ==
  /\ isr = IF d < 3 THEN {i, master_line(i)} ELSE {}
  /\ Masks(IF d = 0 THEN {} ELSE {i})
  /\ waiting = IF d < 2 THEN irr \cup {i} ELSE irr
  /\ i \notin irr

(* The top of a terminal's runnable stack, and whether it is a handler     *)
(* that has not yet done with the hardware.                                *)
TopOf(c) == Last(Last(c))
Serving(c) == Last(c) # <<>> /\ TopOf(c).h # "syscall" /\ TopOf(c).done < 4

HardwareInv ==
  /\ int_flag \in BOOLEAN
  /\ irr \subseteq Irqs
  /\ Serving(chain[cpu]) =>
       ServedTo(irq_of(TopOf(chain[cpu]).h), TopOf(chain[cpu]).done)
  /\ ~Serving(chain[cpu]) => Ready
  /\ int_flag => AllQuiet(chain[cpu])

InterruptsInv == ChainInv /\ HardwareInv

-----------------------------------------------------------------------------
(* Sequences: without the last element, and with another one.              *)
LEMMA DropLast ==
  ASSUME NEW S, NEW c \in Seq(S), c # <<>>
  PROVE  /\ Front(c) \in Seq(S)
         /\ Len(Front(c)) = Len(c) - 1
         /\ \A k \in 1 .. Len(c) - 1 : Front(c)[k] = c[k]
         /\ Last(c) \in S /\ Len(c) \in Nat /\ Len(c) > 0
<1>1. PICK n \in Nat : n + 1 = Len(c)
  <2>1. Len(c) \in Nat /\ Len(c) # 0
    OBVIOUS
  <2>2. \A m \in Nat : m # 0 => m - 1 \in Nat /\ (m - 1) + 1 = m
    OBVIOUS
  <2> QED
    BY <2>1, <2>2
<1>2. Len(c) - 1 = n /\ n <= Len(c) /\ Len(c) \in Nat /\ Len(c) > 0
  BY <1>1
<1>3. /\ SubSeq(c, 1, n) \in Seq(S)
      /\ Len(SubSeq(c, 1, n)) = n
      /\ \A k \in 1 .. n : SubSeq(c, 1, n)[k] = c[k]
  BY <1>2
<1>4. c[Len(c)] \in S
  BY <1>2
<1> QED
  BY <1>2, <1>3, <1>4 DEF Front, Last

(* A sequence with another last element.                                   *)
LEMMA ReplaceLast ==
  ASSUME NEW S, NEW c \in Seq(S), c # <<>>, NEW s \in S
  PROVE  /\ Front(c) \o <<s>> \in Seq(S)
         /\ Len(Front(c) \o <<s>>) = Len(c)
         /\ Front(c) \o <<s>> # <<>>
         /\ \A k \in 1 .. Len(c) - 1 : (Front(c) \o <<s>>)[k] = c[k]
         /\ Last(Front(c) \o <<s>>) = s
<1>1. /\ Front(c) \in Seq(S) /\ Len(Front(c)) = Len(c) - 1
      /\ \A k \in 1 .. Len(c) - 1 : Front(c)[k] = c[k]
      /\ Len(c) \in Nat /\ Len(c) > 0
  BY DropLast
<1> DEFINE f == Front(c)
<1>2. /\ f \in Seq(S) /\ Len(f) = Len(c) - 1
      /\ \A k \in 1 .. Len(c) - 1 : f[k] = c[k]
  BY <1>1
<1> HIDE DEF f
<1>3. /\ f \o <<s>> \in Seq(S) /\ Len(f \o <<s>>) = Len(c)
      /\ f \o <<s>> # <<>>
      /\ \A k \in 1 .. Len(c) - 1 : (f \o <<s>>)[k] = c[k]
      /\ (f \o <<s>>)[Len(c)] = s
  BY <1>1, <1>2
<1> QED
  BY <1>3 DEF f, Last

(* The handlers' steps: the first four are the same.                       *)
LEMMA Bodies ==
  /\ \A h \in Handlers :
       /\ body(h)[1] = "disable" /\ body(h)[2] = "attend"
       /\ body(h)[3] = "eoi" /\ body(h)[4] = "enable"
  /\ Len(body("rtc")) = 5 /\ body("rtc")[5] = "sti"
  /\ Len(body("keyboard")) = 5 /\ body("keyboard")[5] = "leave"
  /\ Len(body("pit")) = 6
  /\ body("pit")[5] = "task_switch" /\ body("pit")[6] = "sti"
  /\ Len(body("syscall")) = 0
BY DEF body, Handlers, rtcHandler, keyboardHandler, pitHandler

(* The frames of the stack that is running.                                *)
LEMMA Running ==
  ASSUME ChainInv
  PROVE  /\ chain[cpu] \in Seq(Stacks) /\ chain[cpu] # <<>>
         /\ running(cpu) \in Stacks /\ QuietBelow(running(cpu))
         /\ running(cpu) # <<>> => top \in Frames
         /\ in_handler => top \in Frames /\ top.h \in Handlers
<1>1. chain[cpu] \in Seq(Stacks) /\ chain[cpu] # <<>>
  BY DEF ChainInv, QuietButTop
<1>2. running(cpu) \in Stacks
  BY <1>1, DropLast DEF running
<1>3. QuietBelow(running(cpu))
  BY DEF ChainInv, QuietButTop, running
<1>4. running(cpu) # <<>> => top \in Frames
  BY <1>2, DropLast DEF top, Stacks
<1> QED
  BY <1>1, <1>2, <1>3, <1>4 DEF in_handler, Frames

(* Where a handler is when it has a step to do, and where it is after it.  *)
LEMMA NextIs ==
  ASSUME ChainInv, NEW s, next_is(s)
  PROVE  /\ top \in Frames /\ top.h \in Handlers /\ in_handler
         /\ s = "disable" => top.done = 0
         /\ s = "attend" => top.done = 1
         /\ s = "eoi" => top.done = 2
         /\ s = "enable" => top.done = 3
         /\ s \in {"task_switch", "leave"} => top.done = 4
         /\ s = "sti" => top.done >= 4
         /\ [top EXCEPT !.done = @ + 1] \in Frames
         /\ s \in {"task_switch", "leave", "sti"} =>
              resumable([top EXCEPT !.done = @ + 1])
<1> DEFINE f == top
           g == [f EXCEPT !.done = @ + 1]
<1>1. f \in Frames /\ f.h \in Handlers /\ in_handler
  BY Running DEF next_is
<1>2. f.done # Len(body(f.h)) /\ body(f.h)[f.done + 1] = s
  BY DEF next_is, finished
<1> HIDE DEF f
<1>3. f.done \in Nat /\ f.done <= Len(body(f.h))
      /\ f \in [h : Handlers \cup {"syscall"}, done : Nat]
  BY <1>1 DEF Frames
<1>4. f.h \in {"pit", "keyboard", "rtc"}
  BY <1>1 DEF Handlers
<1>5. f.done \in 0 .. 5 /\ f.done < Len(body(f.h))
  <2>1. PICK n \in {5, 6} : Len(body(f.h)) = n
    BY <1>4, Bodies
  <2>2. PICK d \in Nat : f.done = d
    BY <1>3
  <2> QED
    BY <1>2, <1>3, <2>1, <2>2
<1>6. /\ s = "disable" => f.done = 0
      /\ s = "attend" => f.done = 1
      /\ s = "eoi" => f.done = 2
      /\ s = "enable" => f.done = 3
      /\ s \in {"task_switch", "leave"} => f.done = 4
      /\ s = "sti" => f.done >= 4
  <2>1. CASE f.done = 0
    BY <1>1, <1>2, <2>1, Bodies
  <2>2. CASE f.done = 1
    BY <1>1, <1>2, <2>2, Bodies
  <2>3. CASE f.done = 2
    BY <1>1, <1>2, <2>3, Bodies
  <2>4. CASE f.done = 3
    BY <1>1, <1>2, <2>4, Bodies
  <2>5. CASE f.done = 4
    BY <1>2, <1>4, <2>5, Bodies
  <2>6. CASE f.done = 5
    BY <1>2, <1>4, <1>5, <2>6, Bodies
  <2> QED
    BY <1>5, <2>1, <2>2, <2>3, <2>4, <2>5, <2>6
<1>7. g \in [h : Handlers \cup {"syscall"}, done : Nat] /\ g.h = f.h
      /\ g.done = f.done + 1
  BY <1>3
<1>8. g \in Frames
  <2>1. f.done + 1 <= Len(body(f.h))
    <3>1. \A n \in {5, 6} : \A d \in 0 .. 5 : d < n => d + 1 <= n
      OBVIOUS
    <3>2. Len(body(f.h)) \in {5, 6}
      BY <1>4, Bodies
    <3> QED
      BY <1>5, <3>1, <3>2
  <2> QED
    BY <1>7, <2>1 DEF Frames
<1>9. s \in {"task_switch", "leave", "sti"} => resumable(g)
  <2> SUFFICES ASSUME s \in {"task_switch", "leave", "sti"},
                      NEW k \in f.done + 2 .. Len(body(f.h))
               PROVE  body(f.h)[k] = "sti"
    BY <1>3, <1>7 DEF resumable
  <2>1. f.h = "pit" /\ k = 6
    <3>1. f.done >= 4
      BY <1>3, <1>6
    <3>2. Len(body(f.h)) >= 6 /\ k >= 6 /\ k <= Len(body(f.h))
      <4>1. Len(body(f.h)) \in {5, 6}
        BY <1>4, Bodies
      <4> QED
        BY <1>3, <3>1, <4>1
    <3>3. f.h # "rtc" /\ f.h # "keyboard"
      <4>1. Len(body("rtc")) = 5 /\ Len(body("keyboard")) = 5
        BY Bodies
      <4>2. ~(5 >= 6)
        OBVIOUS
      <4> QED
        BY <3>2, <4>1, <4>2, Zenon
    <3>4. f.h = "pit"
      BY <1>4, <3>3
    <3>5. Len(body(f.h)) = 6
      BY <3>4, Bodies
    <3>6. k \in Int /\ k >= 6 /\ k <= 6
      BY <1>3, <3>2, <3>5
    <3> QED
      BY <3>4, <3>6
  <2> QED
    BY <2>1, Bodies
<1> QED
  BY <1>1, <1>6, <1>8, <1>9 DEF f

-----------------------------------------------------------------------------
(* What becomes of the stacks.                                             *)

(* The stack that is running is replaced.                                  *)
LEMMA SetRunning ==
  ASSUME ChainInv, NEW stack \in Stacks, QuietBelow(stack)
  PROVE  /\ set_running(cpu, stack) \in [Threads -> Seq(Stacks)]
         /\ \A t \in Threads \ {cpu} : set_running(cpu, stack)[t] = chain[t]
         /\ QuietButTop(set_running(cpu, stack)[cpu])
         /\ Last(set_running(cpu, stack)[cpu]) = stack
         /\ Quiet(stack) => AllQuiet(set_running(cpu, stack)[cpu])
<1> DEFINE c == chain[cpu]
           d == Front(c) \o <<stack>>
<1>1. c \in Seq(Stacks) /\ c # <<>> /\ Len(c) \in Nat
      /\ cpu \in Threads /\ chain \in [Threads -> Seq(Stacks)]
      /\ \A p \in 1 .. Len(c) - 1 : Quiet(c[p])
  BY Running DEF ChainInv, QuietButTop
<1>2. /\ set_running(cpu, stack) = [chain EXCEPT ![cpu] = d]
  BY DEF set_running
<1> HIDE DEF c
<1>3. /\ d \in Seq(Stacks) /\ Len(d) = Len(c) /\ d # <<>>
      /\ \A p \in 1 .. Len(c) - 1 : d[p] = c[p]
      /\ Last(d) = stack
  BY <1>1, ReplaceLast
<1> HIDE DEF d
<1>4. QuietButTop(d)
  BY <1>1, <1>3 DEF QuietButTop
<1>5. ASSUME Quiet(stack) PROVE AllQuiet(d)
  <2> SUFFICES ASSUME NEW p \in 1 .. Len(d) PROVE Quiet(d[p])
    BY DEF AllQuiet
  <2>1. CASE p = Len(d)
    BY <1>3, <1>5, <2>1 DEF Last
  <2>2. CASE p # Len(d)
    <3>1. p \in 1 .. Len(c) - 1
      BY <1>1, <1>3, <2>2
    <3>2. d[p] = c[p] /\ Quiet(c[p])
      BY <1>1, <1>3, <3>1
    <3> QED
      BY <3>2
  <2> QED
    BY <2>1, <2>2
<1>6. /\ set_running(cpu, stack)[cpu] = d
      /\ set_running(cpu, stack) \in [Threads -> Seq(Stacks)]
      /\ \A t \in Threads \ {cpu} : set_running(cpu, stack)[t] = chain[t]
  BY <1>1, <1>2, <1>3
<1> QED
  BY <1>3, <1>4, <1>5, <1>6

(* Its handler does a step.                                                *)
LEMMA Advanced ==
  ASSUME ChainInv, NEW s, next_is(s)
  PROVE  LET stack == advanced(running(cpu)) IN
         /\ stack \in Stacks /\ stack # <<>> /\ QuietBelow(stack)
         /\ Last(stack) = [top EXCEPT !.done = @ + 1]
         /\ resumable(Last(stack)) => Quiet(stack)
<1> DEFINE r == running(cpu)
           g == [top EXCEPT !.done = @ + 1]
           stack == Front(r) \o <<g>>
<1>0. r \in Seq(Frames) /\ r # <<>> /\ QuietBelow(r)
  BY Running DEF Stacks, next_is, in_handler
<1>1. r \in Seq(Frames) /\ r # <<>> /\ QuietBelow(r) /\ g \in Frames
      /\ Len(r) \in Nat
  BY <1>0, NextIs
<1>2. advanced(running(cpu)) = stack
  BY DEF advanced, top
<1> HIDE DEF r, g
<1>3. /\ stack \in Seq(Frames) /\ Len(stack) = Len(r) /\ stack # <<>>
      /\ \A k \in 1 .. Len(r) - 1 : stack[k] = r[k]
      /\ Last(stack) = g
  BY <1>1, ReplaceLast
<1> HIDE DEF stack
<1>4. QuietBelow(stack)
  BY <1>1, <1>3 DEF QuietBelow
<1>5. ASSUME resumable(Last(stack)), NEW k \in 1 .. Len(stack)
      PROVE  resumable(stack[k])
  <2>1. CASE k = Len(stack)
    BY <1>5, <2>1 DEF Last
  <2>2. CASE k # Len(stack)
    BY <1>1, <1>3, <1>4, <2>2 DEF QuietBelow
  <2> QED
    BY <2>1, <2>2
<1>6. resumable(Last(stack)) => Quiet(stack)
  BY <1>5 DEF Quiet
<1> QED
  BY <1>2, <1>3, <1>4, <1>6 DEF g, Stacks

(* It returns.                                                             *)
LEMMA Popped ==
  ASSUME ChainInv, running(cpu) # <<>>
  PROVE  LET stack == Front(running(cpu)) IN
         /\ stack \in Stacks /\ QuietBelow(stack) /\ Quiet(stack)
<1> DEFINE r == running(cpu)
           stack == Front(r)
<1>1. r \in Seq(Frames) /\ r # <<>> /\ QuietBelow(r)
  BY Running DEF Stacks
<1> HIDE DEF r
<1>2. /\ stack \in Seq(Frames) /\ Len(stack) = Len(r) - 1 /\ Len(r) \in Nat
      /\ \A k \in 1 .. Len(r) - 1 : stack[k] = r[k]
  BY <1>1, DropLast
<1> HIDE DEF stack
<1>3. Quiet(stack) /\ QuietBelow(stack)
  BY <1>1, <1>2 DEF Quiet, QuietBelow
<1> QED
  BY <1>2, <1>3 DEF stack, r, Stacks

(* Another one is entered.                                                 *)
LEMMA Pushed ==
  ASSUME ChainInv, Quiet(running(cpu)), NEW f \in Frames
  PROVE  LET stack == Append(running(cpu), f) IN
         /\ stack \in Stacks /\ stack # <<>> /\ QuietBelow(stack)
         /\ Last(stack) = f
         /\ resumable(f) => Quiet(stack)
<1> DEFINE r == running(cpu)
           stack == Append(r, f)
<1>1. r \in Seq(Frames) /\ Quiet(r) /\ Len(r) \in Nat
  BY Running DEF Stacks
<1> HIDE DEF r
<1>2. /\ stack \in Seq(Frames) /\ Len(stack) = Len(r) + 1 /\ stack # <<>>
      /\ \A k \in 1 .. Len(r) : stack[k] = r[k]
      /\ stack[Len(r) + 1] = f
  BY <1>1
<1> HIDE DEF stack
<1>3. QuietBelow(stack) /\ Last(stack) = f
  BY <1>1, <1>2 DEF Quiet, QuietBelow, Last
<1>4. resumable(f) => Quiet(stack)
  BY <1>1, <1>2 DEF Quiet
<1> QED
  BY <1>2, <1>3, <1>4 DEF stack, r, Stacks

-----------------------------------------------------------------------------
(* A stack that is quiet up to its top.                                    *)
LEMMA QuietTop ==
  ASSUME NEW stack \in Stacks, stack # <<>>, QuietBelow(stack)
  PROVE  Quiet(stack) <=> resumable(Last(stack))
<1>1. Len(stack) \in Nat /\ Len(stack) > 0
  BY DropLast DEF Stacks
<1> QED
  BY <1>1 DEF Quiet, QuietBelow, Last

(* The stacks of a terminal that are quiet up to the top of the runnable   *)
(* one.                                                                    *)
LEMMA AllQuietTop ==
  ASSUME NEW c \in Seq(Stacks), QuietButTop(c)
  PROVE  AllQuiet(c) <=> Quiet(Last(c))
<1>1. Len(c) \in Nat /\ Len(c) > 0 /\ c # <<>>
  BY DropLast DEF QuietButTop
<1> QED
  BY <1>1 DEF AllQuiet, QuietButTop, Last

(* With no step left but sti, a handler has done with the hardware.        *)
LEMMA QuietDone ==
  ASSUME NEW c \in Seq(Stacks), c # <<>>, AllQuiet(c)
  PROVE  ~Serving(c) /\ QuietButTop(c) /\ Quiet(Last(c))
<1>1. Len(c) \in Nat /\ Len(c) > 0 /\ Last(c) \in Stacks
  BY DropLast
<1>2. Quiet(Last(c))
  BY <1>1 DEF AllQuiet, Last
<1> DEFINE stack == Last(c)
<1> HIDE DEF stack
<1>3. stack \in Stacks /\ Quiet(stack) /\ Len(stack) \in Nat
  BY <1>1, <1>2 DEF stack, Stacks
<1>4. QuietBelow(stack)
  BY <1>3 DEF Quiet, QuietBelow
<1>5. QuietButTop(c)
  BY <1>1, <1>4 DEF QuietButTop, AllQuiet, stack
<1>6. ASSUME Serving(c) PROVE FALSE
  <2> DEFINE f == Last(stack)
  <2>1. stack # <<>> /\ f.h # "syscall" /\ f.done < 4
    BY <1>6 DEF Serving, TopOf, stack
  <2>2. f \in Frames /\ resumable(f)
    BY <1>3, <1>4, <2>1, QuietTop, DropLast DEF Stacks
  <2> HIDE DEF f
  <2>3. f.h \in Handlers /\ f.done \in Nat
    BY <2>1, <2>2 DEF Frames
  <2>4. 4 \in f.done + 1 .. Len(body(f.h))
    <3> DEFINE n == Len(body(f.h))
    <3>1. n \in {5, 6}
      BY <2>3, Bodies DEF Handlers
    <3> HIDE DEF n
    <3>2. 4 \in f.done + 1 .. n
      BY <2>1, <2>3, <3>1
    <3> QED
      BY <3>2 DEF n
  <2>5. body(f.h)[4] = "sti"
    BY <2>1, <2>2, <2>4 DEF resumable
  <2> QED
    BY <2>3, <2>5, Bodies
<1> QED
  BY <1>2, <1>5, <1>6

(* Nothing at all was entered there.                                       *)
LEMMA EmptyQuiet ==
  /\ <<(<<>>)>> \in Seq(Stacks)
  /\ <<(<<>>)>> # <<>>
  /\ AllQuiet(<<(<<>>)>>)
<1>1. <<>> \in Stacks /\ Quiet(<<>>)
  BY DEF Stacks, Quiet
<1> QED
  BY <1>1 DEF AllQuiet

(* A step that touches no hardware, from a state in which the hardware is  *)
(* ready to one in which all stacks are quiet.                             *)
LEMMA QuietStep ==
  ASSUME InterruptsInv, ~Serving(chain[cpu]), int_flag' \in BOOLEAN,
         UNCHANGED <<pic_vars, waiting>>,
         cpu' \in Threads, chain' \in [Threads -> Seq(Stacks)],
         chain'[cpu'] # <<>>,
         \A t \in Threads : AllQuiet(chain'[t])
  PROVE  InterruptsInv'
<1>1. Ready /\ irr \subseteq Irqs
  BY DEF InterruptsInv, HardwareInv
<1>2. Ready' /\ irr' \subseteq Irqs
  BY <1>1 DEF Ready, Masks, masked, pic_vars
<1>3. /\ chain'[cpu'] \in Seq(Stacks)
      /\ AllQuiet(chain'[cpu'])
  OBVIOUS
<1>4. ~Serving(chain'[cpu']) /\ QuietButTop(chain'[cpu'])
  BY <1>3, QuietDone
<1>5. ChainInv'
  BY <1>4 DEF ChainInv
<1>6. HardwareInv'
  BY <1>2, <1>3, <1>4 DEF HardwareInv
<1> QED
  BY <1>5, <1>6 DEF InterruptsInv

-----------------------------------------------------------------------------
(* The steps.                                                              *)

(* A handler disables its line, attends to its device, sends the end of    *)
(* interrupt and enables the line again.                                   *)
LEMMA HardwareStep ==
  ASSUME InterruptsInv,
         step_disable \/ step_attend \/ step_eoi \/ step_enable
  PROVE  InterruptsInv'
<1>1. PICK s \in {"disable", "attend", "eoi", "enable"} : next_is(s)
  BY DEF step_disable, step_attend, step_eoi, step_enable
<1>2. /\ advance /\ cpu' = cpu /\ int_flag' = int_flag /\ irr' = irr
      /\ ChainInv /\ irr \subseteq Irqs /\ cpu \in Threads
  BY DEF step_disable, step_attend, step_eoi, step_enable, pic_vars,
         InterruptsInv, HardwareInv, ChainInv
<1>a. PICK f \in Frames : f = top
  BY <1>1, <1>2, NextIs
<1> DEFINE g == [f EXCEPT !.done = @ + 1]
<1>3. /\ f.h \in Handlers /\ in_handler /\ g \in Frames
      /\ f.done \in 0 .. 3
  BY <1>1, <1>2, <1>a, NextIs
<1>4. g.h = f.h /\ g.done = f.done + 1
  BY <1>3 DEF Frames
<1>5. Serving(chain[cpu]) /\ TopOf(chain[cpu]) = f
  BY <1>a, <1>3 DEF Serving, TopOf, in_handler, running, top
<1>6. ServedTo(irq_of(f.h), f.done)
  BY <1>5 DEF InterruptsInv, HardwareInv
<1>7. int_flag = FALSE
  BY <1>2, <1>5, QuietDone, Running DEF InterruptsInv, HardwareInv
<1>8. /\ chain' \in [Threads -> Seq(Stacks)]
      /\ \A t \in Threads \ {cpu} : chain'[t] = chain[t]
      /\ QuietButTop(chain'[cpu])
      /\ Last(chain'[cpu]) # <<>> /\ TopOf(chain'[cpu]) = g
  BY <1>a, <1>1, <1>2, Advanced, SetRunning, Zenon DEF advance, TopOf
<1>9. ChainInv'
  BY <1>2, <1>8 DEF ChainInv
<1>10. PICK i \in {0, 1, 8} : i = irq_of(f.h)
  BY <1>3 DEF Handlers, irq_of, PIT_IRQ_NUM, KEYBOARD_IRQ_NUM, RTC_IRQ_NUM
<1>11. Serving(chain'[cpu]) <=> f.done < 3
  BY <1>3, <1>4, <1>8 DEF Serving, Handlers
<1> HIDE DEF g
<1>12. /\ f.done = 0 => isr = {i, master_line(i)} /\ Masks({})
       /\ f.done \in {1, 2} => isr = {i, master_line(i)} /\ Masks({i})
       /\ f.done = 3 => isr = {} /\ Masks({i})
       /\ waiting = IF f.done < 2 THEN irr \cup {i} ELSE irr
       /\ i \notin irr
  BY <1>3, <1>6, <1>10 DEF ServedTo
<1>13. /\ f.done = 0 => isr' = {i, master_line(i)} /\ Masks({i})'
       /\ f.done = 1 => isr' = {i, master_line(i)} /\ Masks({i})'
       /\ f.done = 2 => isr' = {} /\ Masks({i})'
       /\ f.done = 3 => isr' = {} /\ Masks({})'
       /\ waiting' = IF f.done < 1 THEN irr \cup {i} ELSE irr
  <2>1. CASE step_disable
    <3>1. f.done = 0 /\ disable_irq(i) /\ UNCHANGED <<irr, isr, waiting>>
      BY <1>2, <1>a, <1>10, <2>1, NextIs DEF step_disable
    <3>2. Masks({i})'
      BY <1>10, <1>12, <3>1
         DEF Masks, masked, master_line, disable_irq, on_master, Irqs,
             PIT_IRQ_NUM, KEYBOARD_IRQ_NUM, SLAVE_IRQ_NUM, RTC_IRQ_NUM
    <3> QED
      BY <1>12, <3>1, <3>2
  <2>2. CASE step_attend
    <3>1. f.done = 1 /\ waiting' = waiting \ {i} /\ UNCHANGED pic_vars
      BY <1>2, <1>a, <1>10, <2>2, NextIs DEF step_attend
    <3>2. Masks({i})'
      BY <1>12, <3>1 DEF Masks, masked, pic_vars
    <3> QED
      BY <1>12, <3>1, <3>2 DEF pic_vars
  <2>3. CASE step_eoi
    <3>1. /\ f.done = 2 /\ send_eoi(i)
          /\ UNCHANGED <<master_mask, slave_mask, irr, waiting>>
      BY <1>2, <1>a, <1>10, <2>3, NextIs DEF step_eoi
    <3>2. Masks({i})'
      BY <1>12, <3>1 DEF Masks, masked
    <3>3. isr' = {}
      BY <1>10, <1>12, <3>1 DEF send_eoi, master_line, on_master
    <3> QED
      BY <1>12, <3>1, <3>2, <3>3
  <2>4. CASE step_enable
    <3>1. f.done = 3 /\ enable_irq(i) /\ UNCHANGED <<irr, isr, waiting>>
      BY <1>2, <1>a, <1>10, <2>4, NextIs DEF step_enable
    <3>2. Masks({})'
      BY <1>10, <1>12, <3>1
         DEF Masks, masked, master_line, enable_irq, on_master, Irqs,
             PIT_IRQ_NUM, KEYBOARD_IRQ_NUM, SLAVE_IRQ_NUM, RTC_IRQ_NUM
    <3> QED
      BY <1>12, <3>1, <3>2
  <2> QED
    BY <2>1, <2>2, <2>3, <2>4
<1>14. f.done < 3 => ServedTo(irq_of(g.h), g.done)'
  BY <1>2, <1>3, <1>4, <1>10, <1>12, <1>13 DEF ServedTo
<1>15. f.done = 3 => Ready'
  BY <1>2, <1>13 DEF Ready
<1>16. HardwareInv'
  <2>1. int_flag' = FALSE /\ irr' \subseteq Irqs
    BY <1>2, <1>7
  <2>2. (Serving(chain[cpu]) =>
           ServedTo(irq_of(TopOf(chain[cpu]).h), TopOf(chain[cpu]).done))'
    BY <1>2, <1>8, <1>11, <1>14
  <2>3. (~Serving(chain[cpu]) => Ready)'
    BY <1>2, <1>3, <1>11, <1>15
  <2> QED
    BY <2>1, <2>2, <2>3, Zenon DEF HardwareInv
<1> QED
  BY <1>9, <1>16 DEF InterruptsInv

(* A device requests.                                                      *)
LEMMA RaiseStep ==
  ASSUME InterruptsInv, NEW i \in Irqs, raise(i)
  PROVE  InterruptsInv'
<1>1. /\ UNCHANGED <<int_flag, master_mask, slave_mask, isr, cpu, chain>>
      /\ waiting' = waiting \cup {i} /\ irr' = irr \cup {i}
      /\ ChainInv /\ HardwareInv
  BY DEF raise, InterruptsInv
<1>2. ChainInv'
  BY <1>1 DEF ChainInv
<1>3. \A only : Masks(only)' <=> Masks(only)
  BY <1>1 DEF Masks, masked
<1>4. Ready => Ready'
  BY <1>1, <1>3 DEF Ready
<1>5. Serving(chain[cpu]) => TopOf(chain[cpu]) = top /\ in_handler
  BY DEF Serving, TopOf, in_handler, running, top
<1>6. Serving(chain[cpu]) => irq_of(TopOf(chain[cpu]).h) # i
  BY <1>5 DEF raise
<1>7. ASSUME NEW j, NEW d, j # i, ServedTo(j, d)
      PROVE  ServedTo(j, d)'
  BY <1>1, <1>3, <1>7 DEF ServedTo
<1>8. HardwareInv'
  BY <1>1, <1>4, <1>6, <1>7 DEF HardwareInv
<1> QED
  BY <1>2, <1>8 DEF InterruptsInv

(* The CPU takes an interrupt: all stacks were quiet, and the controllers  *)
(* ready.                                                                  *)
LEMMA AcceptStep ==
  ASSUME InterruptsInv, NEW i \in Irqs, accept(i)
  PROVE  InterruptsInv'
<1>1. /\ int_flag /\ i \in irr /\ irr' = irr \ {i}
      /\ isr' = isr \cup {i, master_line(i)} /\ int_flag' = FALSE
      /\ UNCHANGED <<master_mask, slave_mask, waiting, cpu>>
      /\ ChainInv /\ HardwareInv
  BY DEF accept, signalled, InterruptsInv
<1>2. AllQuiet(chain[cpu])
  BY <1>1 DEF HardwareInv
<1>3. ~Serving(chain[cpu]) /\ Quiet(running(cpu))
  BY <1>1, <1>2, Running, QuietDone DEF running
<1>4. Ready
  BY <1>1, <1>3 DEF HardwareInv
<1>5. PICK f \in Frames : f = frame(idt[vector(i)])
                          /\ f.h \in Handlers /\ irq_of(f.h) = i /\ f.done = 0
  <2>1. /\ idt[vector(i)] \in Handlers
        /\ irq_of(idt[vector(i)]) = i
    BY DEF Irqs, PIT_IRQ_NUM, KEYBOARD_IRQ_NUM, RTC_IRQ_NUM, vector, idt,
           on_master, ICW2_MASTER, ICW2_SLAVE, irq_of, Handlers
  <2>2. Len(body(idt[vector(i)])) \in {5, 6}
    BY <2>1, Bodies DEF Handlers
  <2>3. frame(idt[vector(i)]) \in Frames
    BY <2>1, <2>2 DEF frame, Frames
  <2> QED
    BY <2>1, <2>3 DEF frame
<1>6. /\ chain' \in [Threads -> Seq(Stacks)]
      /\ \A t \in Threads \ {cpu} : chain'[t] = chain[t]
      /\ QuietButTop(chain'[cpu])
      /\ Last(chain'[cpu]) # <<>> /\ TopOf(chain'[cpu]) = f
  <2>1. chain' = set_running(cpu, Append(running(cpu), f))
    BY <1>5 DEF accept
  <2> QED
    BY <1>1, <1>3, <2>1, Pushed, SetRunning, Zenon DEF TopOf
<1>7. ChainInv'
  BY <1>1, <1>6 DEF ChainInv
<1>8. ServedTo(i, 0)'
  BY <1>1, <1>4 DEF ServedTo, Ready, Masks, masked
<1>9. Serving(chain'[cpu])
  BY <1>5, <1>6 DEF Serving, Handlers
<1>10. HardwareInv'
  <2>1. int_flag' = FALSE /\ irr' \subseteq Irqs
    BY <1>1 DEF HardwareInv
  <2>2. (Serving(chain[cpu]) =>
           ServedTo(irq_of(TopOf(chain[cpu]).h), TopOf(chain[cpu]).done))'
    BY <1>1, <1>5, <1>6, <1>8
  <2> QED
    BY <1>1, <1>9, <2>1, <2>2, Zenon DEF HardwareInv
<1> QED
  BY <1>7, <1>10 DEF InterruptsInv

(* A handler that has done with the hardware does a step.                  *)
LEMMA LateAdvance ==
  ASSUME ChainInv, NEW s \in {"task_switch", "leave", "sti"}, next_is(s)
  PROVE  LET c == set_running(cpu, advanced(running(cpu))) IN
         /\ ~Serving(chain[cpu])
         /\ c \in [Threads -> Seq(Stacks)]
         /\ \A t \in Threads : AllQuiet(c[t])
         /\ c[cpu] # <<>>
         /\ \A t \in Threads \ {cpu} : c[t] = chain[t]
<1>1. /\ top.done >= 4 /\ top \in Frames
      /\ resumable([top EXCEPT !.done = @ + 1])
  BY NextIs
<1>2. ~Serving(chain[cpu])
  BY <1>1 DEF Serving, TopOf, top, running, Frames
<1> DEFINE stack == advanced(running(cpu))
           c == set_running(cpu, stack)
<1>3. stack \in Stacks /\ QuietBelow(stack) /\ Quiet(stack)
  BY <1>1, Advanced
<1> HIDE DEF stack
<1>4. /\ c \in [Threads -> Seq(Stacks)]
      /\ \A t \in Threads \ {cpu} : c[t] = chain[t]
      /\ QuietButTop(c[cpu]) /\ AllQuiet(c[cpu])
  BY <1>3, SetRunning
<1> HIDE DEF c
<1> QED
  BY <1>2, <1>4, Zenon DEF ChainInv, QuietButTop, c, stack

(* Every other step of a handler.                                          *)
LEMMA LateStep ==
  ASSUME InterruptsInv,
         \/ step_sti \/ task_switch_returns \/ task_switch_switches
         \/ key_plain \/ key_switches \/ key_launches
  PROVE  InterruptsInv'
<1> DEFINE c == set_running(cpu, advanced(running(cpu)))
<1>1. PICK s \in {"task_switch", "leave", "sti"} : next_is(s)
  BY DEF step_sti, task_switch_returns, task_switch_switches, key_plain,
         key_switches, key_launches
<1>2. ChainInv /\ cpu \in Threads /\ int_flag \in BOOLEAN
  BY DEF InterruptsInv, ChainInv, HardwareInv
<1>3. /\ ~Serving(chain[cpu])
      /\ c \in [Threads -> Seq(Stacks)]
      /\ \A t \in Threads : AllQuiet(c[t])
      /\ c[cpu] # <<>>
      /\ \A t \in Threads \ {cpu} : c[t] = chain[t]
  BY <1>1, <1>2, LateAdvance
<1>4. UNCHANGED <<pic_vars, waiting>>
  BY DEF step_sti, task_switch_returns, task_switch_switches, key_plain,
         key_switches, key_launches
<1>5. int_flag' \in BOOLEAN
  BY <1>2, Zenon
     DEF step_sti, task_switch_returns, task_switch_switches, key_plain,
              key_switches, key_launches, flag_for_user
<1>6. CASE step_sti \/ task_switch_returns \/ key_plain \/ key_switches
  <2>1. chain' = c /\ cpu' = cpu
    BY <1>6
       DEF step_sti, task_switch_returns, key_plain, key_switches, advance
  <2> QED
    BY <1>2, <1>3, <1>4, <1>5, <2>1, QuietStep
<1>7. CASE task_switch_switches
  <2>1. chain' = c /\ cpu' \in launched \ {cpu}
    BY <1>7 DEF task_switch_switches, advance
  <2>2. cpu' \in Threads /\ c[cpu'] # <<>>
    BY <1>3, <2>1 DEF launched, Threads
  <2> QED
    BY <1>3, <1>4, <1>5, <2>1, <2>2, QuietStep
<1>8. CASE key_launches
  <2>1. PICK t \in Terminals \ launched :
          cpu' = t /\ chain' = [c EXCEPT ![t] = <<(<<>>)>>]
    BY <1>8, Zenon DEF key_launches
  <2>2. t \in Threads
    BY <2>1 DEF Threads
  <2> HIDE DEF c
  <2>3. /\ chain' \in [Threads -> Seq(Stacks)]
        /\ chain'[cpu'] # <<>>
        /\ \A u \in Threads : AllQuiet(chain'[u])
    BY <1>3, <2>1, <2>2, EmptyQuiet
  <2> QED
    BY <1>3, <1>4, <1>5, <2>1, <2>2, <2>3, QuietStep
<1> QED
  BY <1>6, <1>7, <1>8

(* A process ends: its parent, if it has one, was quiet.                   *)
LEMMA EndsStep ==
  ASSUME InterruptsInv, ~Serving(chain[cpu]), ends
  PROVE  InterruptsInv'
<1> DEFINE c == chain[cpu]
           d == IF Len(c) = 1 THEN <<(<<>>)>> ELSE Front(c)
<1>1. /\ ChainInv /\ cpu \in Threads /\ chain \in [Threads -> Seq(Stacks)]
      /\ cpu' = cpu /\ UNCHANGED <<pic_vars, waiting>>
      /\ int_flag' \in BOOLEAN
      /\ chain' = [chain EXCEPT ![cpu] = d]
      /\ c \in Seq(Stacks) /\ c # <<>>
      /\ \A p \in 1 .. Len(c) - 1 : Quiet(c[p])
      /\ \A t \in Threads \ {cpu} : AllQuiet(chain[t])
  BY DEF InterruptsInv, ChainInv, QuietButTop, ends
<1> HIDE DEF c
<1>2. d \in Seq(Stacks) /\ d # <<>> /\ AllQuiet(d)
  <2>1. CASE Len(c) = 1
    BY <2>1, EmptyQuiet
  <2>2. CASE Len(c) # 1
    <3>1. /\ Front(c) \in Seq(Stacks) /\ Len(Front(c)) = Len(c) - 1
          /\ \A k \in 1 .. Len(c) - 1 : Front(c)[k] = c[k]
          /\ Len(c) \in Nat /\ Len(c) > 0
      BY <1>1, DropLast, Zenon
    <3> DEFINE e == Front(c)
    <3>2. e \in Seq(Stacks) /\ Len(e) = Len(c) - 1 /\ d = e
          /\ \A k \in 1 .. Len(c) - 1 : e[k] = c[k]
      BY <2>2, <3>1
    <3> HIDE DEF e, d
    <3>3. e # <<>>
      BY <2>2, <3>1, <3>2
    <3>4. AllQuiet(e)
      BY <1>1, <3>2 DEF AllQuiet
    <3> QED
      BY <3>2, <3>3, <3>4
  <2> QED
    BY <2>1, <2>2
<1> HIDE DEF d
<1>3. /\ chain' \in [Threads -> Seq(Stacks)] /\ chain'[cpu'] # <<>>
      /\ \A t \in Threads : AllQuiet(chain'[t])
  BY <1>1, <1>2
<1> QED
  BY <1>1, <1>3, QuietStep

(* A handler or a system call returns.                                     *)
LEMMA ReturnsStep ==
  ASSUME InterruptsInv, iret \/ syscall_returns
  PROVE  InterruptsInv'
<1>1. /\ ChainInv /\ running(cpu) # <<>> /\ cpu' = cpu /\ cpu \in Threads
      /\ UNCHANGED <<pic_vars, waiting>> /\ int_flag' = TRUE
      /\ chain' = set_running(cpu, Front(running(cpu)))
  BY DEF InterruptsInv, ChainInv, iret, syscall_returns, in_handler,
     in_syscall
<1>2. ~Serving(chain[cpu])
  <2>1. CASE iret
    <3>1. top \in Frames /\ top.h \in Handlers /\ top.done = Len(body(top.h))
      BY <1>1, <2>1, Running DEF iret, finished
    <3>2. Len(body(top.h)) \in {5, 6}
      BY <3>1, Bodies DEF Handlers
    <3>3. top.done \in {5, 6}
      BY <3>1, <3>2, Zenon
    <3>4. ~(top.done < 4)
      BY <3>3
    <3> QED
      BY <3>4 DEF Serving, TopOf, top, running
  <2>2. CASE syscall_returns
    BY <2>2 DEF Serving, TopOf, top, running, syscall_returns, in_syscall
  <2> QED
    BY <2>1, <2>2
<1> DEFINE stack == Front(running(cpu))
<1>3. stack \in Stacks /\ QuietBelow(stack) /\ Quiet(stack)
  BY <1>1, Popped
<1> HIDE DEF stack
<1>4. /\ chain' \in [Threads -> Seq(Stacks)]
      /\ \A t \in Threads \ {cpu} : chain'[t] = chain[t]
      /\ QuietButTop(chain'[cpu]) /\ AllQuiet(chain'[cpu])
  BY <1>1, <1>3, SetRunning DEF stack
<1>5. /\ chain'[cpu'] # <<>>
      /\ \A t \in Threads : AllQuiet(chain'[t])
  <2>1. \A t \in Threads \ {cpu} : AllQuiet(chain[t])
    BY <1>1 DEF ChainInv
  <2>2. chain'[cpu] # <<>> /\ cpu' = cpu
    BY <1>1, <1>4 DEF QuietButTop
  <2> QED
    BY <1>4, <2>1, <2>2
<1> QED
  BY <1>1, <1>2, <1>4, <1>5, QuietStep

(* A process runs, or is in a system call.                                 *)
LEMMA CallQuiet ==
  ASSUME ChainInv, running(cpu) = <<>> \/ in_syscall
  PROVE  ~Serving(chain[cpu]) /\ \A t \in Threads : AllQuiet(chain[t])
<1>1. /\ running(cpu) \in Stacks /\ QuietBelow(running(cpu))
      /\ chain[cpu] \in Seq(Stacks) /\ QuietButTop(chain[cpu])
      /\ running(cpu) = Last(chain[cpu])
  BY Running DEF ChainInv, running
<1>2. Quiet(running(cpu))
  <2>1. CASE running(cpu) = <<>>
    BY <2>1 DEF Quiet
  <2>2. CASE in_syscall
    BY <1>1, <2>2, QuietTop DEF in_syscall, top, resumable
  <2> QED
    BY <2>1, <2>2
<1>3. AllQuiet(chain[cpu])
  BY <1>1, <1>2, AllQuietTop
<1>4. ~Serving(chain[cpu])
  BY <1>1, <1>3, QuietDone DEF QuietButTop
<1> QED
  BY <1>3, <1>4 DEF ChainInv

(* Boot and system calls.                                                  *)
LEMMA CallStep ==
  ASSUME InterruptsInv,
         \/ boot_shell \/ syscall \/ syscall_cli \/ syscall_sti \/ execute
  PROVE  InterruptsInv'
<1>1. running(cpu) = <<>> \/ in_syscall
  BY DEF boot_shell, syscall, syscall_cli, syscall_sti, execute
<1>2. /\ ChainInv /\ cpu \in Threads /\ int_flag \in BOOLEAN
      /\ chain \in [Threads -> Seq(Stacks)]
      /\ chain[cpu] # <<>> /\ chain[cpu] \in Seq(Stacks)
  BY DEF InterruptsInv, ChainInv, HardwareInv, QuietButTop
<1>3. ~Serving(chain[cpu]) /\ \A t \in Threads : AllQuiet(chain[t])
  BY <1>1, <1>2, CallQuiet
<1>4. UNCHANGED <<pic_vars, waiting>> /\ int_flag' \in BOOLEAN
  BY <1>2, Zenon DEF boot_shell, syscall, syscall_cli, syscall_sti, execute,
              flag_for_user
<1>5. CASE syscall_cli \/ syscall_sti
  <2>1. UNCHANGED <<cpu, chain>>
    BY <1>5 DEF syscall_cli, syscall_sti
  <2> QED
    BY <1>2, <1>3, <1>4, <2>1, QuietStep
<1>6. CASE boot_shell
  <2>1. /\ cpu' = 0 /\ 0 \in Threads
        /\ chain' = [chain EXCEPT ![0] = <<(<<>>)>>]
    BY <1>6, InterruptsAssumption DEF boot_shell, Threads, Terminals
  <2>2. /\ chain' \in [Threads -> Seq(Stacks)] /\ chain'[cpu'] # <<>>
        /\ \A t \in Threads : AllQuiet(chain'[t])
    BY <1>2, <1>3, <2>1, EmptyQuiet
  <2> QED
    BY <1>3, <1>4, <2>1, <2>2, QuietStep
<1>7. CASE syscall
  <2> DEFINE stack == <<frame("syscall")>>
  <2>1. /\ cpu' = cpu /\ chain' = set_running(cpu, stack)
    BY <1>7 DEF syscall
  <2>2. frame("syscall") \in Frames /\ resumable(frame("syscall"))
    BY Bodies DEF frame, Frames, resumable
  <2>3. stack \in Stacks /\ QuietBelow(stack) /\ Quiet(stack)
    BY <2>2 DEF Stacks, QuietBelow, Quiet
  <2> HIDE DEF stack
  <2>4. /\ chain' \in [Threads -> Seq(Stacks)]
        /\ \A t \in Threads \ {cpu} : chain'[t] = chain[t]
        /\ QuietButTop(chain'[cpu]) /\ AllQuiet(chain'[cpu])
    BY <1>2, <2>1, <2>3, SetRunning
  <2>5. /\ chain'[cpu'] # <<>>
        /\ \A t \in Threads : AllQuiet(chain'[t])
    BY <1>3, <2>1, <2>4 DEF QuietButTop
  <2> QED
    BY <1>2, <1>3, <1>4, <2>1, <2>4, <2>5, QuietStep
<1>8. CASE execute
  <2> DEFINE c == chain[cpu]
             d == Append(c, <<>>)
  <2>1. /\ cpu' = cpu /\ chain' = [chain EXCEPT ![cpu] = d]
    BY <1>8 DEF execute
  <2>2. <<>> \in Stacks /\ Quiet(<<>>)
    BY DEF Stacks, Quiet
  <2>3. c \in Seq(Stacks) /\ AllQuiet(c) /\ Len(c) \in Nat
    BY <1>2, <1>3
  <2> HIDE DEF c
  <2>4. /\ d \in Seq(Stacks) /\ Len(d) = Len(c) + 1 /\ d # <<>>
        /\ \A k \in 1 .. Len(c) : d[k] = c[k]
        /\ d[Len(c) + 1] = <<>>
    BY <2>2, <2>3
  <2> HIDE DEF d
  <2>5. AllQuiet(d)
    BY <2>2, <2>3, <2>4 DEF AllQuiet
  <2>6. /\ chain' \in [Threads -> Seq(Stacks)] /\ chain'[cpu'] # <<>>
        /\ \A t \in Threads : AllQuiet(chain'[t])
    BY <1>2, <1>3, <2>1, <2>4, <2>5
  <2> QED
    BY <1>2, <1>3, <1>4, <2>1, <2>6, QuietStep
<1> QED
  BY <1>5, <1>6, <1>7, <1>8

-----------------------------------------------------------------------------
(* Every step keeps the invariant.                                         *)
LEMMA InterruptsStep ==
  ASSUME InterruptsInv, Next
  PROVE  InterruptsInv'
<1>1. ChainInv
  BY DEF InterruptsInv
<1>2. CASE task_switch_halts \/ key_halts
  <2>1. PICK s \in {"task_switch", "leave", "sti"} : next_is(s) /\ ends
    BY <1>2 DEF task_switch_halts, key_halts
  <2> QED
    BY <1>1, <2>1, LateAdvance, EndsStep
<1>3. CASE halt \/ exception
  <2>1. (running(cpu) = <<>> \/ in_syscall) /\ ends
    BY <1>3 DEF halt, exception
  <2> QED
    BY <1>1, <2>1, CallQuiet, EndsStep
<1> QED
  BY <1>2, <1>3, RaiseStep, AcceptStep, HardwareStep, LateStep, ReturnsStep,
     CallStep DEF Next, HandlerStep

(* The invariant holds at the start and ever after.                        *)
THEOREM InterruptsInvariant == Spec => []InterruptsInv
<1>1. Init => InterruptsInv
  <2> SUFFICES ASSUME Init PROVE InterruptsInv
    OBVIOUS
  <2>1. /\ cpu = Boot /\ Boot \in Threads /\ int_flag = TRUE /\ waiting = {}
        /\ irr = {} /\ isr = {}
        /\ chain = [t \in Threads |-> IF t = Boot THEN <<(<<>>)>> ELSE <<>>]
    BY DEF Init, Threads, i8259_init
  <2>2. <<>> \in Seq(Stacks) /\ AllQuiet(<<>>)
    BY DEF AllQuiet
  <2>3. /\ chain \in [Threads -> Seq(Stacks)] /\ chain[cpu] # <<>>
        /\ \A t \in Threads : AllQuiet(chain[t])
    BY <2>1, <2>2, EmptyQuiet
  <2>4. ~Serving(chain[cpu]) /\ QuietButTop(chain[cpu])
    BY <2>1, <2>3, QuietDone, Zenon
  <2>5. Masks({})
    BY DEF Masks, masked, master_line, on_master, Init, i8259_init,
       lines_open,
           Irqs, PIT_IRQ_NUM, KEYBOARD_IRQ_NUM, SLAVE_IRQ_NUM, RTC_IRQ_NUM
  <2>6. HardwareInv
    BY <2>1, <2>3, <2>4, <2>5 DEF HardwareInv, Ready
  <2> QED
    BY <2>1, <2>3, <2>4, <2>6 DEF InterruptsInv, ChainInv
<1>2. InterruptsInv /\ [Next]_vars => InterruptsInv'
  <2>1. ASSUME InterruptsInv, UNCHANGED vars PROVE InterruptsInv'
    <3>1. UNCHANGED <<int_flag, master_mask, slave_mask, irr, isr, waiting,
                      cpu, chain>>
      BY <2>1 DEF vars, pic_vars
    <3>2. ChainInv'
      BY <2>1, <3>1 DEF InterruptsInv, ChainInv
    <3>3. HardwareInv'
      BY <2>1, <3>1
         DEF InterruptsInv, HardwareInv, Ready, ServedTo, Masks, masked
    <3> QED
      BY <3>2, <3>3 DEF InterruptsInv
  <2> QED
    BY <2>1, InterruptsStep
<1> QED
  BY <1>1, <1>2, PTL DEF Spec

(* With interrupts on, nothing is in service, no line is masked and every  *)
(* device that waits has its request latched: no way out of a handler, by  *)
(* return or by another stack, comes before send_eoi and enable_irq.       *)
THEOREM ReadyCorrect == Spec => []ReadyWhenOn
<1>1. ASSUME InterruptsInv PROVE ReadyWhenOn
  <2>1. ASSUME int_flag PROVE Ready
    BY <1>1, <2>1, QuietDone, Running DEF InterruptsInv, HardwareInv
  <2>2. Ready => isr = {} /\ waiting = irr
    BY Zenon DEF Ready
  <2>3. Ready => \A i \in Irqs : ~masked(i)
    <3>1. ASSUME Ready, NEW i \in Irqs PROVE ~masked(i)
      <4>1. masked(i) <=> i \in {}
        BY <3>1, Zenon DEF Ready, Masks
      <4> QED
        BY <4>1
    <3> QED
      BY <3>1, Zenon
  <2> QED
    BY <2>1, <2>2, <2>3, Zenon DEF ReadyWhenOn
<1> QED
  BY <1>1, InterruptsInvariant, PTL

(* Below the top of any stack, and on top of every stack that is not       *)
(* running, there is a system call or a handler about to return.           *)
THEOREM HandlersAlone == Spec => []HandlersRunAlone
<1>1. ASSUME InterruptsInv PROVE HandlersRunAlone
  <2> SUFFICES ASSUME NEW t \in launched \cup {Boot},
                      NEW p \in DOMAIN chain[t],
                      NEW k \in DOMAIN chain[t][p],
                      ~(t = cpu /\ p = Len(chain[t]) /\ k = Len(chain[t][p]))
               PROVE  resumable(chain[t][p][k])
    BY DEF HandlersRunAlone
  <2>1. t \in Threads /\ chain[t] \in Seq(Stacks)
    BY <1>1 DEF launched, Threads, InterruptsInv, ChainInv
  <2>2. p \in 1 .. Len(chain[t]) /\ Len(chain[t]) \in Nat
        /\ chain[t][p] \in Seq(Frames)
    BY <2>1 DEF Stacks
  <2>3. k \in 1 .. Len(chain[t][p]) /\ Len(chain[t][p]) \in Nat
    BY <2>2
  <2>4. CASE t # cpu
    BY <1>1, <2>1, <2>2, <2>3, <2>4, Zenon
       DEF InterruptsInv, ChainInv, AllQuiet, Quiet
  <2>5. CASE t = cpu /\ p # Len(chain[t])
    <3>1. Quiet(chain[t][p])
      BY <1>1, <2>2, <2>5 DEF InterruptsInv, ChainInv, QuietButTop
    <3> QED
      BY <2>3, <3>1 DEF Quiet
  <2>6. CASE t = cpu /\ p = Len(chain[t]) /\ k # Len(chain[t][p])
    <3>1. QuietBelow(chain[t][p])
      BY <1>1, <2>6 DEF InterruptsInv, ChainInv, QuietButTop, Last
    <3> QED
      BY <2>3, <2>6, <3>1 DEF QuietBelow
  <2> QED
    BY <2>4, <2>5, <2>6
<1> QED
  BY <1>1, InterruptsInvariant, PTL
=============================================================================
