------------------------- MODULE KernelProperties --------------------------
(***************************************************************************)
(* What processes, scheduler and terminals promise.  The specification is  *)
(* in module Kernel; the inductive proofs are in module KernelProofs.      *)
(***************************************************************************)
EXTENDS Kernel

(* The slots that hold a process.                                          *)
Live == running \ {0}

(* A process's parent, unless it is the kernel, is alive and on the same   *)
(* terminal.                                                               *)
ParentsLive ==
  \A p \in Live : PPID[p] # 0 => /\ PPID[p] \in Live
                                 /\ terminal[PPID[p]] = terminal[p]

(* The process a terminal calls active is alive and on that terminal.      *)
ActiveLive ==
  \A t \in Terminals : active_processes[t] # 0 =>
    /\ active_processes[t] \in Live
    /\ terminal[active_processes[t]] = t

(* No process has two children, no terminal two base shells.               *)
OneChild ==
  \A p, q \in Live : PPID[p] = PPID[q] /\ terminal[p] = terminal[q] => p = q

(* The process a terminal calls active is the one that waits for no child. *)
ActiveIsLeaf ==
  \A p \in Live :
    active_processes[terminal[p]] = p <=> \A q \in Live : PPID[q] # p

(* A terminal without an active process has no process at all.             *)
NoOrphans == \A p \in Live : active_processes[terminal[p]] # 0

(* execute, halt and the shell restarts keep the processes of a terminal   *)
(* on one chain of parents: every process but the last waits in execute    *)
(* for exactly one child, and the last is the one the scheduler knows      *)
(* (active_processes).  Slot 0 is never given to a process.                *)
ProcessTree ==
  /\ 0 \in running
  /\ ParentsLive
  /\ ActiveLive
  /\ OneChild
  /\ ActiveIsLeaf
  /\ NoOrphans

(* Whoever has the CPU is the active process of its terminal, and runs in  *)
(* its own address space and on its own kernel stack: cr3, tss.esp0 and    *)
(* CPID are never changed one without the others.                          *)
CpuOwner ==
  Booted => /\ CPID \in Live
            /\ active_processes[terminal[CPID]] = CPID
            /\ cr3 = CPID
            /\ esp0 = CPID

(* A saved context is one that will be resumed, once: a process has a live *)
(* task_switch frame exactly when it is active and not current, and a live *)
(* execute frame exactly when it waits for a child.  task_switch and halt  *)
(* load esp from the PCB without a test, so they rely on this.             *)
SavedContexts ==
  Booted => \A p \in Live :
    /\ p \in switch_frames <=>
         p # CPID /\ active_processes[terminal[p]] = p
    /\ p \in execute_frames <=> \E q \in Live : PPID[q] = p

(* The PCBs' active flags and active_processes, which every operation      *)
(* updates separately, name the same processes, and the visible terminal   *)
(* has one: keyboardHandler relies on it for CTRL-C, and task_switch to    *)
(* find some process to run.                                               *)
ActiveRecords ==
  Booted => /\ active = {active_processes[t] : t \in Terminals} \ {0}
            /\ active_processes[cur_terminal] # 0

(* The kernel's output page is the visible one or the hidden page of the   *)
(* current process's terminal: a process never writes on the hidden page   *)
(* of another terminal, nor on its own hidden page while it is visible.    *)
KernelPageOwn ==
  video_mem # ACTIVE_CONTEXT =>
    video_mem = terminal[CPID] /\ video_mem # cur_terminal

(* The same of the vidmap window of every process, current or not, and of  *)
(* the page a preempted vidmap is about to map: whatever terminal switches *)
(* come between, it is never the hidden page of another terminal.          *)
VidmapPageOwn ==
  \A p \in Live :
    /\ user_video[p] \in {NOT_MAPPED, ACTIVE_CONTEXT, terminal[p]}
    /\ vidmap_page[p] \in {NOT_MAPPED, ACTIVE_CONTEXT, terminal[p]}

(* The kernel's output page is the one the current process should see.     *)
KernelPageRight == video_mem = right_page(CPID, cur_terminal)

(* When the CPU passes to a process of another terminal, the kernel's      *)
(* output page and that process's vidmap window are right, whatever        *)
(* happened to the terminals while it was off the CPU.                     *)
SetsPages ==
  terminal'[CPID'] # terminal[CPID] =>
    /\ KernelPageRight'
    /\ CPID' \in using_video_mem' =>
         user_video'[CPID'] = right_page(CPID, cur_terminal)'

SwitchSetsPages == [][SetsPages]_vars

(* The arguments a process was launched with stay stored for getargs until *)
(* a child of its own ends: no other process's execute, halt or exception, *)
(* and no terminal's shell restart, touches them.                          *)
KeepsArgs ==
  \A p \in Live \cap running' :
    args'[p] # args[p] => PPID[CPID] = p /\ CPID' = p

ArgsUntilChildEnds == [][KeepsArgs]_vars

(* No fs_copy has failed: after one, the caller goes on in the child's     *)
(* address space, and what it executes there is beyond this model.         *)
LoadsSucceeded == Booted => esp0 = cr3

-----------------------------------------------------------------------------
(* Every terminal that has a process gets the CPU again and again: the     *)
(* round robin of task_switch starves nobody, CTRL-Cs, restarts and new    *)
(* terminals notwithstanding.                                              *)
EveryTerminalRuns ==
  \A t \in Terminals : active_processes[t] # 0 ~> terminal[CPID] = t

(* A CTRL-C that had to wait is acted upon.                                *)
CtrlCActedUpon ==
  \A t \in Terminals : t \in needs_to_be_halted ~> t \notin needs_to_be_halted

(* The vidmap window of the current process shows another page than the    *)
(* one it should write to.                                                 *)
WindowWrong ==
  /\ CPID \in using_video_mem
  /\ user_video[CPID] \notin {NOT_MAPPED, right_page(CPID, cur_terminal)}

(* A wrong window, after ALT-Fn or because ALT-Fn came between vidmap's    *)
(* test and its mapping, does not last: by the end of the time slice it is *)
(* right or another process, whose window is right, has the CPU.           *)
WindowRepaired == WindowWrong ~> ~WindowWrong

-----------------------------------------------------------------------------
(* What a comment of the code says and the code does not do.               *)

(* "so that the process in the current terminal is halted next time it     *)
(* receives processor time" (terminal.c:162): a pending CTRL-C does not    *)
(* outlive the process it was meant for.  task_switch looks at the flag    *)
(* when a slice ends, and the process may have ended or executed a child.  *)
CtrlCHitsItsProcess ==
  [][\A t \in needs_to_be_halted :
       active_processes'[t] # active_processes[t] =>
         t \notin needs_to_be_halted']_vars
=============================================================================
