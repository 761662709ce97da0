----------------------------- MODULE Interrupts -----------------------------
(***************************************************************************)
(* The two interrupt controllers (i8259.c), the table of gates (idt.c),    *)
(* the wrappers (int_wrapper.S, syscalls_asm.S) and the way every handler  *)
(* acknowledges its interrupt, with the exits that do not return: a timer  *)
(* interrupt leaves by another process's stack, a key may start a terminal *)
(* or end a process.  What processes do otherwise is in module Kernel.     *)
(*                                                                         *)
(* A device is the timer (in one-shot mode), the keyboard or the real-time *)
(* clock: it requests once and then waits to be attended to (a new count,  *)
(* its data read, its register C read).                                    *)
(***************************************************************************)
EXTENDS Integers, Sequences

CONSTANTS
  NUM_TERMINALS,
  MaxProcesses,   \* bound: processes of one terminal
  MaxDepth        \* bound: interrupts and system calls open on one stack

ASSUME InterruptsAssumption ==
  {NUM_TERMINALS, MaxProcesses, MaxDepth} \subseteq Nat \ {0}

PIT_IRQ_NUM == 0
KEYBOARD_IRQ_NUM == 1
SLAVE_IRQ_NUM == 2
RTC_IRQ_NUM == 8
Irqs == {PIT_IRQ_NUM, KEYBOARD_IRQ_NUM, RTC_IRQ_NUM}

ICW2_MASTER == 32
ICW2_SLAVE == 40

Terminals == 0 .. NUM_TERMINALS - 1

(* The thread that starts the kernel, before the first shell.              *)
Boot == NUM_TERMINALS

VARIABLES
  int_flag,      \* the CPU's interrupt flag
  master_mask, slave_mask,   \* lines masked, numbered 0 to 7
  irr, isr,      \* interrupts requested, and in service (the master's line
                 \* of the slave included)
  waiting,       \* devices that have requested and were not attended to yet
  cpu,           \* the terminal of the current process, or Boot
  chain          \* of each terminal its processes, the last one runnable,
                 \* each with the frames on its kernel stack

pic_vars == <<master_mask, slave_mask, irr, isr>>
vars == <<int_flag, pic_vars, waiting, cpu, chain>>

-----------------------------------------------------------------------------
(* i8259.c.                                                                *)
on_master(i) == i < 8

enable_irq(i) ==
  IF on_master(i)
    THEN master_mask' = master_mask \ {i} /\ UNCHANGED slave_mask
    ELSE slave_mask' = slave_mask \ {i - 8} /\ UNCHANGED master_mask

disable_irq(i) ==
  IF on_master(i)
    THEN master_mask' = master_mask \cup {i} /\ UNCHANGED slave_mask
    ELSE slave_mask' = slave_mask \cup {i - 8} /\ UNCHANGED master_mask

(* The master must be told of the slave's too.                             *)
send_eoi(i) == isr' = isr \ (IF on_master(i) THEN {i} ELSE {i, SLAVE_IRQ_NUM})

(* After i8259_init, rtc_init, the keyboard's enable_irq and pit_init.     *)
lines_open == {PIT_IRQ_NUM, KEYBOARD_IRQ_NUM, SLAVE_IRQ_NUM}
i8259_init ==
  /\ master_mask = (0 .. 7) \ lines_open
  /\ slave_mask = (0 .. 7) \ {RTC_IRQ_NUM - 8}
  /\ irr = {}
  /\ isr = {}

(* How the controllers choose: lower lines first, and none while a line    *)
(* that is lower or the same is in service.                                *)
master_line(i) == IF on_master(i) THEN i ELSE SLAVE_IRQ_NUM
masked(i) ==
  \/ master_line(i) \in master_mask
  \/ ~on_master(i) /\ i - 8 \in slave_mask
signalled(i) ==
  /\ i \in irr
  /\ ~masked(i)
  /\ \A s \in isr : master_line(s) > master_line(i)

(* The gates: which handler a vector runs.                                 *)
vector(i) == IF on_master(i) THEN ICW2_MASTER + i ELSE ICW2_SLAVE + i - 8
idt == [v \in {32, 33, 40} |-> CASE v = 32 -> "pit"
                                 [] v = 33 -> "keyboard"
                                 [] v = 40 -> "rtc"]
irq_of(h) ==
  CASE h = "pit" -> PIT_IRQ_NUM
    [] h = "keyboard" -> KEYBOARD_IRQ_NUM
    [] h = "rtc" -> RTC_IRQ_NUM

-----------------------------------------------------------------------------
(* What a handler does to the hardware, in order.  "leave" stands for the  *)
(* four ways out of keyboardHandler.                                       *)
rtcHandler == <<"disable", "attend", "eoi", "enable", "sti">>

(* Faulty variant: interrupts on before the key is acted upon.             *)
keyboardHandler_open == <<"disable", "attend", "eoi", "enable", "sti", "leave">>

keyboardHandler == <<"disable", "attend", "eoi", "enable", "leave">>

(* Faulty variant: acknowledged after the switch.                          *)
pitHandler_late == <<"disable", "attend", "task_switch", "eoi", "enable", "sti">>

pitHandler == <<"disable", "attend", "eoi", "enable", "task_switch", "sti">>

body(h) ==
  CASE h = "rtc" -> rtcHandler
    [] h = "keyboard" -> keyboardHandler
    [] h = "pit" -> pitHandler
    [] h = "syscall" -> <<>>

(* A frame: a handler and how many of its steps are done.  With all of     *)
(* them done the wrapper is about to restore the registers and return.     *)
frame(h) == [h |-> h, done |-> 0]
finished(f) == f.done = Len(body(f.h))

(* A stack's top is its last element.                                      *)
Last(s) == s[Len(s)]
Front(s) == SubSeq(s, 1, Len(s) - 1)

running(t) == Last(chain[t])
top == Last(running(cpu))
in_handler == running(cpu) # <<>> /\ top.h # "syscall"
next_is(s) == in_handler /\ ~finished(top) /\ body(top.h)[top.done + 1] = s
in_syscall == running(cpu) # <<>> /\ top.h = "syscall"

set_running(t, stack) == [chain EXCEPT ![t] = Front(@) \o <<stack>>]
advanced(stack) == Front(stack) \o <<[Last(stack) EXCEPT !.done = @ + 1]>>
advance == chain' = set_running(cpu, advanced(running(cpu)))

Init ==
  /\ int_flag = TRUE
  /\ i8259_init
  /\ waiting = {}
  /\ cpu = Boot
  /\ chain = [t \in Terminals \cup {Boot} |-> IF t = Boot THEN <<(<<>>)>> ELSE <<>>]

-----------------------------------------------------------------------------
(* The hardware.                                                           *)

(* A device requests.  Each is slower than its own handler, and the timer  *)
(* than any time with interrupts off; a request of its that comes then is  *)
(* held till they are on, so it may as well come at that moment.           *)
raise(i) ==
  /\ i \notin waiting
  /\ i = PIT_IRQ_NUM => int_flag
  /\ in_handler => irq_of(top.h) # i
  /\ waiting' = waiting \cup {i}
  /\ irr' = irr \cup {i}
  /\ UNCHANGED <<int_flag, master_mask, slave_mask, isr, cpu, chain>>

(* The CPU takes an interrupt through its gate, which turns interrupts off.*)
accept(i) ==
  /\ int_flag
  /\ signalled(i)
  /\ \A j \in Irqs : signalled(j) => i <= j
  /\ Len(running(cpu)) < MaxDepth
  /\ irr' = irr \ {i}
  /\ isr' = isr \cup {i, master_line(i)}
  /\ int_flag' = FALSE
  /\ chain' = set_running(cpu, Append(running(cpu), frame(idt[vector(i)])))
  /\ UNCHANGED <<master_mask, slave_mask, waiting, cpu>>

-----------------------------------------------------------------------------
(* Handlers.                                                               *)
step_disable ==
  /\ next_is("disable")
  /\ disable_irq(irq_of(top.h))
  /\ advance
  /\ UNCHANGED <<int_flag, irr, isr, waiting, cpu>>

(* set_count, inb(KEYBOARD_DATA) or inb(RTC_DATA).                         *)
step_attend ==
  /\ next_is("attend")
  /\ waiting' = waiting \ {irq_of(top.h)}
  /\ advance
  /\ UNCHANGED <<int_flag, pic_vars, cpu>>

step_eoi ==
  /\ next_is("eoi")
  /\ send_eoi(irq_of(top.h))
  /\ advance
  /\ UNCHANGED <<int_flag, master_mask, slave_mask, irr, waiting, cpu>>

step_enable ==
  /\ next_is("enable")
  /\ enable_irq(irq_of(top.h))
  /\ advance
  /\ UNCHANGED <<int_flag, irr, isr, waiting, cpu>>

step_sti ==
  /\ next_is("sti")
  /\ int_flag' = TRUE
  /\ advance
  /\ UNCHANGED <<pic_vars, waiting, cpu>>

(* kernel_to_user sets the interrupt flag among those iret will restore.   *)
(* Faulty variant: it does not.                                            *)
flag_for_user_off == FALSE

flag_for_user == TRUE

launched == {t \in Terminals : chain[t] # <<>>}

(* halt and exception_halt: the parent goes on in its execute, interrupts  *)
(* still off; a base shell starts again, in user mode with interrupts on.  *)
ends ==
  /\ cpu # Boot
  /\ int_flag' = (Len(chain[cpu]) = 1 /\ flag_for_user)
  /\ chain' = [chain EXCEPT ![cpu] = IF Len(@) = 1 THEN <<(<<>>)>> ELSE Front(@)]
  /\ UNCHANGED <<pic_vars, waiting, cpu>>

(* task_switch.  The process that is left will go on behind this step, and *)
(* the one that is taken up does so now, with interrupts on.               *)
task_switch_returns ==
  /\ next_is("task_switch")
  /\ cpu = Boot \/ launched = {cpu}
  /\ advance
  /\ UNCHANGED <<int_flag, pic_vars, waiting, cpu>>

task_switch_halts == next_is("task_switch") /\ ends

task_switch_switches ==
  /\ next_is("task_switch")
  /\ cpu # Boot
  /\ \E t \in launched \ {cpu} : cpu' = t
  /\ int_flag' = TRUE
  /\ advance
  /\ UNCHANGED <<pic_vars, waiting>>

(* The ways out of keyboardHandler: to its end; from terminal_switch, with *)
(* interrupts still off; into the first shell of a terminal; and by CTRL-C.*)
key_plain ==
  /\ next_is("leave")
  /\ int_flag' = TRUE
  /\ advance
  /\ UNCHANGED <<pic_vars, waiting, cpu>>

key_switches ==
  /\ next_is("leave")
  /\ advance
  /\ UNCHANGED <<int_flag, pic_vars, waiting, cpu>>

key_launches ==
  /\ next_is("leave")
  /\ cpu # Boot
  /\ \E t \in Terminals \ launched :
       /\ cpu' = t
       /\ chain' = [set_running(cpu, advanced(running(cpu))) EXCEPT ![t] = <<(<<>>)>>]
  /\ int_flag' = flag_for_user
  /\ UNCHANGED <<pic_vars, waiting>>

key_halts == next_is("leave") /\ ends

(* The end of a wrapper: registers, sti, iret.                             *)
iret ==
  /\ in_handler
  /\ finished(top)
  /\ int_flag' = TRUE
  /\ chain' = set_running(cpu, Front(running(cpu)))
  /\ UNCHANGED <<pic_vars, waiting, cpu>>

-----------------------------------------------------------------------------
(* Boot and system calls.  The gate of system calls leaves interrupts on;  *)
(* some calls turn them off, terminal_read turns them on again.            *)
boot_shell ==
  /\ cpu = Boot
  /\ running(cpu) = <<>>
  /\ cpu' = 0
  /\ chain' = [chain EXCEPT ![0] = <<(<<>>)>>]
  /\ int_flag' = flag_for_user
  /\ UNCHANGED <<pic_vars, waiting>>

syscall ==
  /\ cpu # Boot
  /\ running(cpu) = <<>>
  /\ chain' = set_running(cpu, <<frame("syscall")>>)
  /\ UNCHANGED <<int_flag, pic_vars, waiting, cpu>>

syscall_cli ==
  in_syscall /\ int_flag' = FALSE /\ UNCHANGED <<pic_vars, waiting, cpu, chain>>

syscall_sti ==
  in_syscall /\ int_flag' = TRUE /\ UNCHANGED <<pic_vars, waiting, cpu, chain>>

syscall_returns ==
  /\ in_syscall
  /\ int_flag' = TRUE
  /\ chain' = set_running(cpu, Front(running(cpu)))
  /\ UNCHANGED <<pic_vars, waiting, cpu>>

execute ==
  /\ in_syscall
  /\ Len(chain[cpu]) < MaxProcesses
  /\ int_flag' = flag_for_user
  /\ chain' = [chain EXCEPT ![cpu] = Append(@, <<>>)]
  /\ UNCHANGED <<pic_vars, waiting, cpu>>

halt == in_syscall /\ ends

(* All exceptions have gates that turn interrupts off, and halt.           *)
exception == (running(cpu) = <<>> \/ in_syscall) /\ ends

-----------------------------------------------------------------------------
HandlerStep ==
  \/ step_disable \/ step_attend \/ step_eoi \/ step_enable \/ step_sti
  \/ task_switch_returns \/ task_switch_halts \/ task_switch_switches
  \/ key_plain \/ key_switches \/ key_launches \/ key_halts
  \/ iret

Next ==
  \/ \E i \in Irqs : raise(i) \/ accept(i)
  \/ HandlerStep
  \/ boot_shell
  \/ syscall \/ syscall_cli \/ syscall_sti \/ syscall_returns
  \/ execute \/ halt \/ exception

(* Handlers go on, and a system call does not keep interrupts off; the CPU *)
(* looks for a signalled interrupt after every instruction with interrupts *)
(* on, so one that is signalled again and again is taken.                  *)
Spec ==
  /\ Init /\ [][Next]_vars
  /\ WF_vars(HandlerStep)
  /\ WF_vars(~int_flag /\ (syscall_sti \/ syscall_returns \/ execute \/ halt))
  /\ \A i \in Irqs : SF_vars(accept(i))

-----------------------------------------------------------------------------
(* Whenever interrupts are on, the controllers would deliver any of them:  *)
(* nothing is in service, no line the kernel uses is masked, and a device  *)
(* that still waits has its request latched.  So every way out of a        *)
(* handler, by return or by another stack, comes after its send_eoi and    *)
(* enable_irq and after the device was attended to.                        *)
ReadyWhenOn ==
  int_flag => /\ isr = {}
              /\ \A i \in Irqs : ~masked(i)
              /\ waiting = irr

(* Interrupts nest only in the last instructions of a wrapper and in system*)
(* calls: whatever lies below the top of any stack, and the top of every   *)
(* stack that is not running, is a system call or a handler that has       *)
(* nothing left to do but turn interrupts on and return.                   *)
resumable(f) ==
  \/ f.h = "syscall"
  \/ \A k \in f.done + 1 .. Len(body(f.h)) : body(f.h)[k] = "sti"

HandlersRunAlone ==
  \A t \in launched \cup {Boot} : \A p \in DOMAIN chain[t] :
    LET stack == chain[t][p] IN
    \A k \in DOMAIN stack :
      (t = cpu /\ p = Len(chain[t]) /\ k = Len(stack)) \/ resumable(stack[k])

(* A requested timer or keyboard interrupt is served, and so is the clock's*)
(* unless keys keep coming.                                                *)
Served(i) == (i \in irr) ~> (i \notin irr)
RequestsServed ==
  /\ Served(PIT_IRQ_NUM)
  /\ Served(KEYBOARD_IRQ_NUM)
  /\ <>[](KEYBOARD_IRQ_NUM \notin irr) => Served(RTC_IRQ_NUM)
=============================================================================
