------------------------------- MODULE Kernel -------------------------------
(***************************************************************************)
(* Processes, the scheduler and the three virtual terminals of OScelot:    *)
(* execute, halt, exception_halt, execute_base_shell, task_switch and      *)
(* vidmap of syscalls.c, the page directories they load (paging.c), the    *)
(* PIT interrupt (pit.c) and the part of the keyboard interrupt that       *)
(* touches processes or the video context (terminal.c).                    *)
(*                                                                         *)
(* The machine has one CPU.  execute, halt and the interrupt handlers run  *)
(* with interrupts off (cli, or an interrupt gate), so each is one action; *)
(* vidmap runs with them on and is split where an interrupt can come       *)
(* between its decision and its effect.                                    *)
(***************************************************************************)
EXTENDS Integers

CONSTANTS
  MAX_PROCESSES,  \* process slots besides slot 0, which is the kernel's
  NUM_TERMINALS,  \* virtual terminals
  Args,           \* argument strings a command may carry
  NoArgs,         \* the empty argument string
  Programs,       \* what execute may find: "intact" and "corrupt" executables
  VidmapCallers   \* bound: the slots whose programs call vidmap

ASSUME ConstantsAssumption ==
  /\ MAX_PROCESSES \in Nat \ {0}
  /\ NUM_TERMINALS \in Nat \ {0}
  /\ NoArgs \notin Args
  /\ Programs \subseteq {"intact", "corrupt"}
  /\ VidmapCallers \subseteq 1 .. MAX_PROCESSES

PIDs == 0 .. MAX_PROCESSES
Terminals == 0 .. NUM_TERMINALS - 1

(* set_video_context's argument: the visible page, or terminal t's hidden  *)
(* page, named by t itself.                                                *)
ACTIVE_CONTEXT == -1
Pages == Terminals \cup {ACTIVE_CONTEXT}

(* A user video page that is not mapped, a vidmap that is not under way.   *)
NOT_MAPPED == -2

VARIABLES
  CPID,                \* the current process; 0 before the first shell
  running,             \* the slots with running = 1
  active,              \* the slots with active = 1
  PPID,                \* the parent of each slot
  terminal,            \* the terminal of each slot
  args,                \* the arguments stored in each slot
  using_video_mem,     \* the slots with using_video_mem = 1
  active_processes,    \* the active process of each terminal, 0 for none
  needs_to_be_halted,  \* the terminals with a pending CTRL-C
  cur_terminal,        \* the visible terminal
  video_mem,           \* the page the kernel's putc writes to
  user_video,          \* the page each slot's vidmap window maps
  vidmap_page,         \* the page a preempted vidmap is about to map
  cr3,                 \* the slot whose page directory is loaded
  esp0,                \* the slot whose kernel stack tss.esp0 names
  switch_frames,       \* slots whose esp_switch names a live stack frame
  execute_frames       \* slots whose esp_execute names a live stack frame

pcb_vars == <<running, active, PPID, terminal, args, using_video_mem>>
video_vars == <<cur_terminal, video_mem>>
map_vars == <<user_video, vidmap_page>>
cpu_vars == <<CPID, cr3, esp0>>
frame_vars == <<switch_frames, execute_frames>>
vars == <<pcb_vars, video_vars, map_vars, cpu_vars, frame_vars,
          active_processes, needs_to_be_halted>>

(* Types; in particular every slot number stored is one of the table's.    *)
TypeOK ==
  /\ CPID \in PIDs
  /\ running \subseteq PIDs
  /\ active \subseteq PIDs
  /\ PPID \in [PIDs -> PIDs]
  /\ terminal \in [PIDs -> Terminals]
  /\ args \in [PIDs -> Args \cup {NoArgs}]
  /\ using_video_mem \subseteq PIDs
  /\ active_processes \in [Terminals -> PIDs]
  /\ needs_to_be_halted \subseteq Terminals
  /\ cur_terminal \in Terminals
  /\ video_mem \in Pages
  /\ user_video \in [PIDs -> Pages \cup {NOT_MAPPED}]
  /\ vidmap_page \in [PIDs -> Pages \cup {NOT_MAPPED}]
  /\ cr3 \in PIDs
  /\ esp0 \in PIDs
  /\ switch_frames \subseteq PIDs
  /\ execute_frames \subseteq PIDs

-----------------------------------------------------------------------------
(* Faulty variant: the tables marked empty with a value that is no slot.   *)
syscalls_init_minus_one ==
  /\ running = {0}
  /\ active_processes = [t \in Terminals |-> -1]
  /\ needs_to_be_halted = {}

(* What syscalls_init makes of slot 0 and of the terminals' tables.        *)
syscalls_init ==
  /\ running = {0}
  /\ active_processes = [t \in Terminals |-> 0]
  /\ needs_to_be_halted = {}

(* The state at the sti of entry: the boot thread runs on the stack that   *)
(* slot 1 will use, with page directory 0; the other globals are zero.     *)
Init ==
  /\ syscalls_init
  /\ CPID = 0
  /\ active = {}
  /\ PPID = [p \in PIDs |-> 0]
  /\ terminal = [p \in PIDs |-> 0]
  /\ args = [p \in PIDs |-> NoArgs]
  /\ using_video_mem = {}
  /\ cur_terminal = 0
  /\ video_mem = ACTIVE_CONTEXT
  /\ user_video = [p \in PIDs |-> NOT_MAPPED]
  /\ vidmap_page = [p \in PIDs |-> NOT_MAPPED]
  /\ cr3 = 0
  /\ esp0 = 1
  /\ switch_frames = {}
  /\ execute_frames = {}

(* A user program has the CPU, the boot thread is gone for good.           *)
Booted == ~(cr3 = 0 /\ esp0 = 1)

-----------------------------------------------------------------------------
(* The page on which process p's output belongs while cur is visible.      *)
(* Faulty variants: never the visible page, another terminal's page.       *)
right_page_hidden(p, cur) == terminal[p]
right_page_visible(p, cur) == IF terminal[p] = cur THEN ACTIVE_CONTEXT ELSE cur

right_page(p, cur) == IF terminal[p] = cur THEN ACTIVE_CONTEXT ELSE terminal[p]

(* The slot the search for a free PCB stops at, run being the slots in use.*)
(* Faulty variant: the last slot is taken when all are in use.             *)
first_free_no_bound(run, p) ==
  /\ p \notin run \/ p = MAX_PROCESSES
  /\ \A q \in PIDs : q < p => q \in run

first_free(run, p) ==
  /\ p \notin run
  /\ \A q \in PIDs : q < p => q \in run

(* The active flags once slot new takes over from slot old.                *)
(* Faulty variant: the old one stays marked.                               *)
activated_both(act, new, old) == act \cup {new}

activated(act, new, old) == (act \cup {new}) \ {old}

(* Slot p becomes the current one: its page directory, its kernel stack.   *)
(* Faulty variant: tss.esp0 is left alone.                                 *)
enter_same_stack(p) == CPID' = p /\ cr3' = p /\ esp0' = esp0

enter(p) == CPID' = p /\ cr3' = p /\ esp0' = p

(* execute_base_shell(t), called with the PCB flags run and act, the       *)
(* stored arguments arg and the switch frames swf of that moment.  All its *)
(* callers have made sure of a free slot.                                  *)
execute_base_shell(t, run, act, arg, swf) ==
  \E p \in PIDs :
    /\ first_free(run, p)
    /\ enter(p)
    /\ running' = run \cup {p}
    /\ active' = activated(act, p, 0)
    /\ PPID' = [PPID EXCEPT ![p] = 0]
    /\ terminal' = [terminal EXCEPT ![p] = t]
    /\ args' = [arg EXCEPT ![p] = NoArgs]
    /\ using_video_mem' = using_video_mem \ {p}
    /\ active_processes' = [active_processes EXCEPT ![t] = p]
    /\ user_video' = [user_video EXCEPT ![p] = NOT_MAPPED]
    /\ vidmap_page' = [vidmap_page EXCEPT ![p] = NOT_MAPPED]
    /\ switch_frames' = swf \ {p}
    /\ execute_frames' = execute_frames \ {p}

(* entry() starts the first shell, in terminal 0.                          *)
Boot ==
  /\ ~Booted
  /\ execute_base_shell(0, running, active, args, switch_frames)
  /\ UNCHANGED <<needs_to_be_halted, video_vars>>

-----------------------------------------------------------------------------
(* The arguments after a process ended whose parent is p: p's are cleared. *)
(* Faulty variant: everybody's are.                                        *)
args_after_halt_all(p) == [q \in PIDs |-> NoArgs]

args_after_halt(p) == [args EXCEPT ![p] = NoArgs]

(* What halt and exception_halt do to the current process: its parent      *)
(* resumes in its execute call, and a base shell is started again.         *)
resume_parent ==
  LET parent == PPID[CPID] IN
  /\ parent # 0
  /\ enter(parent)
  /\ running' = running \ {CPID}
  /\ active' = activated(active, parent, CPID)
  /\ active_processes' = [active_processes EXCEPT ![terminal[parent]] = parent]
  /\ args' = args_after_halt(parent)
  /\ execute_frames' = execute_frames \ {parent}
  /\ UNCHANGED <<PPID, terminal, using_video_mem, map_vars, switch_frames>>

restart_shell ==
  /\ PPID[CPID] = 0
  /\ execute_base_shell(terminal[CPID],
                        running \ {CPID},
                        (active \ {CPID}) \cup {0},
                        args_after_halt(0),
                        switch_frames)

exception_halt == resume_parent \/ restart_shell

-----------------------------------------------------------------------------
(* System calls and exceptions of the current process, which has the CPU   *)
(* in user mode: it is not inside a vidmap.                                *)
InUserMode == Booted /\ vidmap_page[CPID] = NOT_MAPPED

(* halt and exception_halt differ in the value execute returns only.       *)
halt ==
  /\ InUserMode
  /\ exception_halt
  /\ UNCHANGED <<needs_to_be_halted, video_vars>>

(* An exception may also interrupt a kernel path of the process.           *)
exception ==
  /\ Booted
  /\ exception_halt
  /\ UNCHANGED <<needs_to_be_halted, video_vars>>

(* The arguments execute copies for its child.                             *)
copied_args(a) == IF CPID < MAX_PROCESSES THEN a ELSE NoArgs

(* execute, past its tests: a missing file, a file that is not executable  *)
(* and a full process table return before any variable here changes.  A    *)
(* corrupt file fails in fs_copy, after the PCB and the page directory of  *)
(* the child are in place.                                                 *)
execute(file, a) ==
  /\ InUserMode
  /\ \E p \in PIDs :
       /\ first_free(running, p)
       /\ CPID' = p
       /\ running' = running \cup {p}
       /\ active' = activated(active, p, CPID)
       /\ PPID' = [PPID EXCEPT ![p] = CPID]
       /\ terminal' = [terminal EXCEPT ![p] = terminal[CPID]]
       /\ args' = [args EXCEPT ![p] = copied_args(a)]
       /\ using_video_mem' = using_video_mem \ {p}
       /\ active_processes' = [active_processes EXCEPT ![terminal[CPID]] = p]
       /\ user_video' = [user_video EXCEPT ![p] = NOT_MAPPED]
       /\ vidmap_page' = [vidmap_page EXCEPT ![p] = NOT_MAPPED]
       /\ cr3' = p
       /\ switch_frames' = switch_frames \ {p}
       /\ \/ /\ file = "intact"
             /\ esp0' = p
             /\ execute_frames' = (execute_frames \ {p}) \cup {CPID}
          \/ /\ file = "corrupt"
             /\ esp0' = esp0
             /\ execute_frames' = execute_frames \ {p}
  /\ UNCHANGED <<needs_to_be_halted, video_vars>>

(* vidmap, up to its test of cur_terminal.  An interrupt between the flag  *)
(* and the test is taken to come before the flag: all it could do more is  *)
(* to map the window right in a task switch, which vidmap_map maps anew.   *)
vidmap_choose ==
  /\ CPID \in VidmapCallers
  /\ InUserMode
  /\ using_video_mem' = using_video_mem \cup {CPID}
  /\ vidmap_page' = [vidmap_page EXCEPT ![CPID] =
                       right_page(CPID, cur_terminal)]
  /\ UNCHANGED <<running, active, PPID, terminal, args, video_vars,
                 user_video, cpu_vars, frame_vars, active_processes,
                 needs_to_be_halted>>

(* The page table entry that vidmap writes after the test.                 *)
vidmap_map ==
  /\ Booted
  /\ vidmap_page[CPID] # NOT_MAPPED
  /\ user_video' = [user_video EXCEPT ![CPID] = vidmap_page[CPID]]
  /\ vidmap_page' = [vidmap_page EXCEPT ![CPID] = NOT_MAPPED]
  /\ cr3' = CPID
  /\ UNCHANGED <<pcb_vars, video_vars, CPID, esp0, frame_vars,
                 active_processes, needs_to_be_halted>>

-----------------------------------------------------------------------------
(* The terminal whose process runs after one of terminal i: the next one   *)
(* in cyclic order, i itself included last, that has an active process.    *)
(* Faulty variant: the search starts at terminal 0 every time.             *)
next_terminal_from_0(i, j) ==
  /\ active_processes[j] # 0
  /\ \A m \in Terminals : m < j /\ m # i => active_processes[m] = 0

next_terminal(i, j) ==
  \E k \in 1 .. NUM_TERMINALS :
    /\ j = (i + k) % NUM_TERMINALS
    /\ active_processes[j] # 0
    /\ \A m \in 1 .. k - 1 : active_processes[(i + m) % NUM_TERMINALS] = 0

(* The vidmap windows task_switch writes again, those of p and q.          *)
(* Faulty variants: none; only the outgoing process's.                     *)
windows_none(p, q) == {}
windows_old(p, q) == {p} \cap using_video_mem

windows(p, q) == {p, q} \cap using_video_mem

remapped(p, q) ==
  [r \in PIDs |-> IF r \in windows(p, q) THEN right_page(r, cur_terminal)
                                         ELSE user_video[r]]

(* A CTRL-C waits for the terminal of the current process.                 *)
(* Faulty variant: for the visible terminal.                               *)
halt_pending_visible == cur_terminal \in needs_to_be_halted

halt_pending == terminal[CPID] \in needs_to_be_halted

(* task_switch when a CTRL-C is pending for the current terminal ...       *)
task_switch_halts ==
  /\ halt_pending
  /\ needs_to_be_halted' = needs_to_be_halted \ {terminal[CPID]}
  /\ exception_halt
  /\ UNCHANGED video_vars

(* ... and when it passes the CPU to the next terminal's process.          *)
task_switch_switches ==
  /\ ~halt_pending
  /\ \E t \in Terminals :
       LET new == active_processes[t] IN
       /\ next_terminal(terminal[CPID], t)
       /\ new # CPID
       /\ enter(new)
       /\ video_mem' = right_page(new, cur_terminal)
       /\ user_video' = remapped(CPID, new)
       /\ switch_frames' = (switch_frames \cup {CPID}) \ {new}
  /\ UNCHANGED <<pcb_vars, cur_terminal, vidmap_page, execute_frames,
                 active_processes, needs_to_be_halted>>

(* The PIT interrupt; with a single active process it changes nothing.     *)
pitHandler ==
  /\ CPID # 0
  /\ task_switch_halts \/ task_switch_switches

-----------------------------------------------------------------------------
(* terminal_switch(t), called by the keyboard handler, which has made the  *)
(* visible page the kernel's output page.                                  *)
terminal_switch_same(t) ==
  /\ t = cur_terminal
  /\ video_mem' = ACTIVE_CONTEXT
  /\ UNCHANGED <<pcb_vars, cur_terminal, map_vars, cpu_vars, frame_vars,
                 active_processes, needs_to_be_halted>>

(* The terminal shown has no process yet and must be given a base shell.   *)
needs_shell(t) == active_processes[t] = 0

(* The interrupted process is saved as task_switch would save it.          *)
(* Faulty variant: it is not.                                              *)
frames_at_launch_unsaved == switch_frames

frames_at_launch == switch_frames \cup {CPID}

terminal_switch_new(t) ==
  /\ t # cur_terminal
  /\ needs_shell(t)
  /\ cur_terminal' = t
  /\ video_mem' = ACTIVE_CONTEXT
  /\ execute_base_shell(t, running, active, args, frames_at_launch)
  /\ UNCHANGED needs_to_be_halted

terminal_switch_live(t) ==
  /\ t # cur_terminal
  /\ ~needs_shell(t)
  /\ cur_terminal' = t
  /\ video_mem' = right_page(CPID, t)
  /\ UNCHANGED <<pcb_vars, map_vars, cpu_vars, frame_vars,
                 active_processes, needs_to_be_halted>>

(* ALT-F1, ALT-F2, ALT-F3: terminal 0 is taken to have a process always.   *)
switch_allowed(t) ==
  \/ t = 0
  \/ active_processes[t] # 0
  \/ \E p \in PIDs \ {0} : p \notin running

key_alt_f(t) ==
  /\ switch_allowed(t)
  /\ \/ terminal_switch_same(t)
     \/ terminal_switch_new(t)
     \/ terminal_switch_live(t)

(* CTRL-C.                                                                 *)
key_ctrl_c ==
  \/ /\ CPID = active_processes[cur_terminal]
     /\ video_mem' = ACTIVE_CONTEXT
     /\ exception_halt
     /\ UNCHANGED <<cur_terminal, needs_to_be_halted>>
  \/ /\ CPID # active_processes[cur_terminal]
     /\ needs_to_be_halted' = needs_to_be_halted \cup {cur_terminal}
     /\ video_mem' = right_page(CPID, cur_terminal)
     /\ UNCHANGED <<pcb_vars, cur_terminal, map_vars, cpu_vars, frame_vars,
                    active_processes>>

(* Any other key, and a refused ALT-F2 or ALT-F3, leave by the end of the  *)
(* handler, which gives the kernel the current process's page again.       *)
key_other ==
  /\ video_mem' = right_page(CPID, cur_terminal)
  /\ UNCHANGED <<pcb_vars, cur_terminal, map_vars, cpu_vars, frame_vars,
                 active_processes, needs_to_be_halted>>

keyboardHandler ==
  \/ \E t \in Terminals : key_alt_f(t)
  \/ key_ctrl_c
  \/ key_other

-----------------------------------------------------------------------------
UserStep ==
  \/ halt
  \/ exception
  \/ \E file \in Programs, a \in Args \cup {NoArgs} : execute(file, a)
  \/ vidmap_choose
  \/ vidmap_map

Next ==
  \/ Boot
  \/ UserStep
  \/ pitHandler
  \/ Booted /\ keyboardHandler

Spec == Init /\ [][Next]_vars

(* The PIT fires for ever: every interrupt re-arms it (set_count) and      *)
(* every path that leaves the kernel turns interrupts on again.  Nothing   *)
(* obliges a program or the user at the keyboard to do anything.           *)
FairSpec == Spec /\ WF_vars(Boot) /\ WF_vars(pitHandler)
=============================================================================
