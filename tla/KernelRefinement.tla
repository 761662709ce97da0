-------------------------- MODULE KernelRefinement --------------------------
(***************************************************************************)
(* Module Kernel implements module TaskStacks: the stack of a terminal is  *)
(* the chain of parents that ends in its active process.                   *)
(***************************************************************************)
EXTENDS KernelProperties, Chains

(* There are no more than MAX_PROCESSES to follow.                         *)
ancestors(p) == chain(PPID)[MAX_PROCESSES][p]

stacks == [t \in Terminals |-> ancestors(active_processes[t])]

Abstract == INSTANCE TaskStacks
              WITH Slots <- PIDs \ {0},
                   stack <- stacks,
                   cpu <- IF Booted THEN terminal[CPID] ELSE -1,
                   shown <- cur_terminal

(* Every step of the kernel is one step of TaskStacks or leaves the stacks *)
(* alone: in particular a process that ends, by halt, exception or CTRL-C, *)
(* uncovers the process that executed it, a terminal's last process is     *)
(* replaced at once, and the CPU goes round the terminals in order.        *)
ImplementsTaskStacks == Abstract!Spec

(* Every process is on the stack of its terminal, once, and the stacks     *)
(* hold nothing else: no cycle of parents, no process out of reach.        *)
EveryProcessStacked ==
  Booted => \A p \in PIDs \ {0} : \A t \in Terminals :
    LET places == {i \in 1 .. Len(stacks[t]) : stacks[t][i] = p} IN
    IF p \in running /\ terminal[p] = t
      THEN \E i \in places : places = {i}
      ELSE places = {}

(* What a slot keeps of a process that has ended is written again before   *)
(* it is read: states that differ in it only are explored once.            *)
LiveSlotsView ==
  <<[p \in running |-> <<PPID[p], terminal[p], args[p], p \in using_video_mem,
                         user_video[p], vidmap_page[p]>>],
    active, video_vars, cpu_vars, frame_vars, active_processes, needs_to_be_halted>>
=============================================================================
