---------------------------- MODULE KernelProofs ----------------------------
(***************************************************************************)
(* Proofs about module Kernel, for every number of process slots and       *)
(* terminals.                                                              *)
(***************************************************************************)
EXTENDS KernelProperties, TLAPS

(* Slots, terminals and pages: the facts about the constants used below.   *)
LEMMA ConstantFacts ==
  /\ PIDs \subseteq Int
  /\ Terminals \subseteq Int
  /\ 0 \in PIDs /\ 1 \in PIDs
  /\ 0 \in Terminals
  /\ ACTIVE_CONTEXT \in Pages
  /\ ACTIVE_CONTEXT \notin Terminals
  /\ NOT_MAPPED \notin Pages
  /\ Terminals \subseteq Pages
BY ConstantsAssumption
   DEF PIDs, Terminals, Pages, ACTIVE_CONTEXT, NOT_MAPPED

(* The page a process's output belongs to is a page.                       *)
LEMMA RightPageType ==
  ASSUME TypeOK, NEW p \in PIDs, NEW cur \in Terminals
  PROVE  right_page(p, cur) \in Pages
BY ConstantFacts, Zenon DEF TypeOK, right_page

-----------------------------------------------------------------------------
(* Type correctness.                                                       *)

(* A started base shell leaves every variable it sets well typed.          *)
LEMMA BaseShellType ==
  ASSUME TypeOK, NEW t \in Terminals, NEW run \in SUBSET PIDs,
         NEW act \in SUBSET PIDs, NEW arg \in [PIDs -> Args \cup {NoArgs}],
         NEW swf \in SUBSET PIDs,
         execute_base_shell(t, run, act, arg, swf),
         cur_terminal' \in Terminals, video_mem' \in Pages,
         needs_to_be_halted' \subseteq Terminals
  PROVE  TypeOK'
<1>1. PICK p \in PIDs : execute_base_shell(t, run, act, arg, swf)!(p)
  BY Zenon DEF execute_base_shell
<1> QED
  BY <1>1, ConstantFacts DEF TypeOK, enter, activated

(* So does the end of the current process.                                 *)
LEMMA ExceptionHaltType ==
  ASSUME TypeOK, exception_halt,
         cur_terminal' \in Terminals, video_mem' \in Pages,
         needs_to_be_halted' \subseteq Terminals
  PROVE  TypeOK'
<1>1. CASE resume_parent
  BY <1>1, ConstantFacts, Zenon
     DEF TypeOK, resume_parent, args_after_halt, enter, activated, map_vars
<1>2. CASE restart_shell
  <2>1. /\ terminal[CPID] \in Terminals
        /\ running \ {CPID} \in SUBSET PIDs
        /\ (active \ {CPID}) \cup {0} \in SUBSET PIDs
        /\ args_after_halt(0) \in [PIDs -> Args \cup {NoArgs}]
        /\ switch_frames \in SUBSET PIDs
    BY ConstantFacts DEF TypeOK, args_after_halt
  <2> QED
    BY <1>2, <2>1, BaseShellType DEF restart_shell
<1> QED
  BY <1>1, <1>2 DEF exception_halt

(* The initial state is well typed, and every step keeps it so.            *)
LEMMA TypeInit == Init => TypeOK
BY ConstantFacts DEF Init, syscalls_init, TypeOK

(* Every step keeps the types.                                             *)
LEMMA TypeStep ==
  ASSUME TypeOK, [Next]_vars
  PROVE  TypeOK'
<1> USE ConstantFacts
<1>1. CASE Boot
  <2>1. 0 \in Terminals /\ running \in SUBSET PIDs /\ active \in SUBSET PIDs
        /\ args \in [PIDs -> Args \cup {NoArgs}]
        /\ switch_frames \in SUBSET PIDs
    BY DEF TypeOK
  <2>2. /\ cur_terminal' \in Terminals
        /\ video_mem' \in Pages
        /\ needs_to_be_halted' \subseteq Terminals
    BY <1>1 DEF Boot, TypeOK, video_vars
  <2> QED
    BY <1>1, <2>1, <2>2, BaseShellType DEF Boot
<1>2. CASE halt \/ exception
  BY <1>2, ExceptionHaltType, Zenon DEF halt, exception, TypeOK, video_vars
<1>3. ASSUME NEW file \in Programs, NEW a \in Args \cup {NoArgs},
             execute(file, a)
      PROVE  TypeOK'
  <2>1. copied_args(a) \in Args \cup {NoArgs}
    BY DEF copied_args
  <2>2. PICK p \in PIDs : execute(file, a)!2!(p)
    BY <1>3, Zenon DEF execute
  <2>3. UNCHANGED <<needs_to_be_halted, video_vars>>
    BY <1>3 DEF execute
  <2> QED
    BY <2>1, <2>2, <2>3, Zenon DEF TypeOK, activated, video_vars
<1>4. CASE vidmap_choose
  BY <1>4, RightPageType
     DEF vidmap_choose, TypeOK, video_vars, cpu_vars, frame_vars
<1>5. CASE vidmap_map
  BY <1>5 DEF vidmap_map, TypeOK, pcb_vars, video_vars, frame_vars
<1>6. CASE pitHandler
  <2>1. CASE task_switch_halts
    BY <2>1, ExceptionHaltType, Zenon
       DEF task_switch_halts, TypeOK, video_vars
  <2>2. CASE task_switch_switches
    <3>1. PICK t \in Terminals :
            /\ next_terminal(terminal[CPID], t)
            /\ active_processes[t] # CPID
            /\ enter(active_processes[t])
            /\ switch_frames' =
                 (switch_frames \cup {CPID}) \ {active_processes[t]}
      BY <2>2, Zenon DEF task_switch_switches
    <3>a. UNCHANGED <<running, PPID, terminal, active_processes, execute_frames>>
      BY <2>2, Zenon DEF task_switch_switches, pcb_vars
    <3> DEFINE new == active_processes[t]
    <3>2. new \in PIDs
      BY DEF TypeOK
    <3>3. right_page(new, cur_terminal) \in Pages
      BY <3>2, RightPageType, Zenon DEF TypeOK
    <3>4. remapped(CPID, new) \in [PIDs -> Pages \cup {NOT_MAPPED}]
      BY RightPageType DEF remapped, TypeOK
    <3> QED
      BY <2>2, <3>1, <3>2, <3>3, <3>4, Zenon
         DEF task_switch_switches, TypeOK, enter, pcb_vars
  <2> QED
    BY <1>6, <2>1, <2>2 DEF pitHandler
<1>7. CASE keyboardHandler
  <2>1. ASSUME NEW t \in Terminals, key_alt_f(t)
        PROVE  TypeOK'
    <3>1. CASE terminal_switch_same(t)
      BY <3>1 DEF terminal_switch_same, TypeOK, pcb_vars, map_vars,
                  cpu_vars, frame_vars
    <3>2. CASE terminal_switch_new(t)
      <4>1. /\ running \in SUBSET PIDs /\ active \in SUBSET PIDs
            /\ args \in [PIDs -> Args \cup {NoArgs}]
            /\ frames_at_launch \in SUBSET PIDs
        BY DEF TypeOK, frames_at_launch
      <4>2. /\ cur_terminal' \in Terminals
            /\ video_mem' \in Pages
            /\ needs_to_be_halted' \subseteq Terminals
        BY <3>2 DEF terminal_switch_new, TypeOK
      <4> QED
        BY <3>2, <4>1, <4>2, BaseShellType DEF terminal_switch_new
    <3>3. CASE terminal_switch_live(t)
      BY <3>3, RightPageType
         DEF terminal_switch_live, TypeOK, pcb_vars, map_vars, cpu_vars,
             frame_vars
    <3> QED
      BY <2>1, <3>1, <3>2, <3>3 DEF key_alt_f
  <2>2. CASE key_ctrl_c
    <3>1. CASE CPID = active_processes[cur_terminal]
      BY <2>2, <3>1, ExceptionHaltType, Zenon DEF key_ctrl_c, TypeOK
    <3>2. CASE CPID # active_processes[cur_terminal]
      <4>1. /\ needs_to_be_halted' = needs_to_be_halted \cup {cur_terminal}
            /\ video_mem' = right_page(CPID, cur_terminal)
            /\ UNCHANGED <<pcb_vars, cur_terminal, map_vars, cpu_vars,
                           frame_vars, active_processes>>
        BY <2>2, <3>2, Zenon DEF key_ctrl_c
      <4> QED
        BY <4>1, RightPageType
           DEF TypeOK, pcb_vars, map_vars, cpu_vars, frame_vars
    <3> QED
      BY <3>1, <3>2
  <2>3. CASE key_other
    BY <2>3, RightPageType
       DEF key_other, TypeOK, pcb_vars, map_vars, cpu_vars, frame_vars
  <2> QED
    BY <1>7, <2>1, <2>2, <2>3 DEF keyboardHandler
<1>8. CASE UNCHANGED vars
  BY <1>8 DEF vars, TypeOK, pcb_vars, video_vars, map_vars, cpu_vars,
              frame_vars
<1> QED
  BY <1>1, <1>2, <1>3, <1>4, <1>5, <1>6, <1>7, <1>8 DEF Next, UserStep

(* Every variable keeps its type, whatever the image holds.                *)
THEOREM TypeCorrect == Spec => []TypeOK
<1>1. TypeOK /\ [Next]_vars => TypeOK'
  BY TypeStep
<1> QED
  BY <1>1, TypeInit, PTL DEF Spec

-----------------------------------------------------------------------------
(* The process tree.  ProcessTree alone is not inductive: that execute and *)
(* halt keep it depends on the current process being the leaf of its       *)
(* terminal's chain, and the first shell on nothing being there before it. *)
TreeInv ==
  /\ TypeOK
  /\ ProcessTree
  /\ Booted => /\ CPID \in Live
               /\ active_processes[terminal[CPID]] = CPID
               /\ cr3 # 0
  /\ ~Booted => /\ CPID = 0
                /\ running = {0}
                /\ active_processes = [t \in Terminals |-> 0]

(* execute: the new process p hangs below the current one.                 *)
LEMMA SpawnTree ==
  ASSUME TreeInv, Booted, NEW p \in PIDs, p \notin running,
         running' = running \cup {p},
         PPID' = [PPID EXCEPT ![p] = CPID],
         terminal' = [terminal EXCEPT ![p] = terminal[CPID]],
         active_processes' = [active_processes EXCEPT ![terminal[CPID]] = p]
  PROVE  ProcessTree' /\ active_processes'[terminal'[p]] = p /\ p \in Live'
<1> USE DEF TreeInv, ProcessTree, TypeOK, Live
<1>0. /\ 0 \in running /\ p # 0
      /\ Live' = Live \cup {p}
      /\ CPID \in Live
      /\ active_processes[terminal[CPID]] = CPID
      /\ PPID'[p] = CPID /\ terminal'[p] = terminal[CPID]
      /\ active_processes'[terminal[CPID]] = p
      /\ \A q \in Live : PPID'[q] = PPID[q] /\ terminal'[q] = terminal[q]
      /\ \A t \in Terminals : t # terminal[CPID] =>
                               active_processes'[t] = active_processes[t]
      /\ terminal[CPID] \in Terminals
  OBVIOUS
<1>1. ParentsLive'
  BY <1>0 DEF ParentsLive
<1>2. ActiveLive'
  BY <1>0 DEF ActiveLive
<1>3. \A q \in Live : PPID[q] # p
  BY <1>0 DEF ParentsLive
<1>4. \A q \in Live : PPID[q] # CPID
  BY <1>0 DEF ActiveIsLeaf
<1>5. OneChild'
  BY <1>0, <1>4 DEF OneChild
<1>6. ActiveIsLeaf'
  <2> SUFFICES ASSUME NEW q \in Live'
               PROVE  (active_processes[terminal[q]] = q)' <=>
                        \A r \in Live' : PPID'[r] # q
    BY DEF ActiveIsLeaf
  <2>1. CASE q = p
    BY <1>0, <1>3, <2>1
  <2>2. CASE q = CPID
    BY <1>0, <2>2
  <2>3. CASE q \notin {p, CPID}
    BY <1>0, <2>3 DEF ActiveIsLeaf, ActiveLive
  <2> QED
    BY <2>1, <2>2, <2>3
<1>7. NoOrphans'
  BY <1>0 DEF NoOrphans
<1> QED
  BY <1>0, <1>1, <1>2, <1>5, <1>6, <1>7

(* execute_base_shell in a terminal that has no process: p is its first.   *)
LEMMA LaunchTree ==
  ASSUME TreeInv, NEW t \in Terminals, active_processes[t] = 0,
         NEW p \in PIDs, p \notin running,
         running' = running \cup {p},
         PPID' = [PPID EXCEPT ![p] = 0],
         terminal' = [terminal EXCEPT ![p] = t],
         active_processes' = [active_processes EXCEPT ![t] = p]
  PROVE  ProcessTree' /\ active_processes'[terminal'[p]] = p /\ p \in Live'
<1> USE DEF TreeInv, ProcessTree, TypeOK, Live
<1>0. /\ 0 \in running /\ p # 0
      /\ Live' = Live \cup {p}
      /\ PPID'[p] = 0 /\ terminal'[p] = t
      /\ active_processes'[t] = p
      /\ \A q \in Live : PPID'[q] = PPID[q] /\ terminal'[q] = terminal[q]
      /\ \A u \in Terminals : u # t => active_processes'[u] = active_processes[u]
  OBVIOUS
<1>1. \A q \in Live : terminal[q] # t
  BY DEF NoOrphans
<1>2. \A q \in Live : PPID[q] # p
  BY <1>0 DEF ParentsLive
<1>3. ParentsLive'
  BY <1>0 DEF ParentsLive
<1>4. ActiveLive'
  BY <1>0 DEF ActiveLive
<1>5. OneChild'
  BY <1>0, <1>1 DEF OneChild
<1>6. ActiveIsLeaf'
  BY <1>0, <1>1, <1>2 DEF ActiveIsLeaf
<1>7. NoOrphans'
  BY <1>0, <1>1 DEF NoOrphans
<1> QED
  BY <1>0, <1>3, <1>4, <1>5, <1>6, <1>7

(* halt of a process with a parent: the parent is the leaf again.          *)
LEMMA ResumeTree ==
  ASSUME TreeInv, Booted, PPID[CPID] # 0,
         running' = running \ {CPID},
         PPID' = PPID, terminal' = terminal,
         active_processes' =
           [active_processes EXCEPT ![terminal[PPID[CPID]]] = PPID[CPID]]
  PROVE  /\ ProcessTree'
         /\ active_processes'[terminal'[PPID[CPID]]] = PPID[CPID]
         /\ PPID[CPID] \in Live'
<1> USE DEF TreeInv, ProcessTree, TypeOK, Live
<1> DEFINE par == PPID[CPID]
<1>0. /\ 0 \in running
      /\ CPID \in Live
      /\ active_processes[terminal[CPID]] = CPID
      /\ Live' = Live \ {CPID}
      /\ par \in Live
      /\ terminal[par] = terminal[CPID]
      /\ terminal[CPID] \in Terminals
  BY DEF ParentsLive
<1>1. \A q \in Live : PPID[q] # CPID
  BY <1>0 DEF ActiveIsLeaf
<1>2. par # CPID
  BY <1>0, <1>1
<1>3. \A q \in Live : q # CPID => PPID[q] # par
  BY <1>0 DEF OneChild, ParentsLive
<1>4. /\ active_processes'[terminal[CPID]] = par
      /\ \A u \in Terminals : u # terminal[CPID] =>
                               active_processes'[u] = active_processes[u]
  BY <1>0
<1>5. ParentsLive'
  BY <1>0, <1>1 DEF ParentsLive
<1>6. ActiveLive'
  BY <1>0, <1>2, <1>4 DEF ActiveLive
<1>7. OneChild'
  BY <1>0 DEF OneChild
<1>8. ActiveIsLeaf'
  <2> SUFFICES ASSUME NEW q \in Live'
               PROVE  (active_processes[terminal[q]] = q)' <=>
                        \A r \in Live' : PPID'[r] # q
    BY DEF ActiveIsLeaf
  <2>1. CASE q = par
    BY <1>0, <1>3, <1>4, <2>1
  <2>2. CASE q # par
    BY <1>0, <1>4, <2>2 DEF ActiveIsLeaf
  <2> QED
    BY <2>1, <2>2
<1>9. NoOrphans'
  BY <1>0, <1>4 DEF NoOrphans
<1> QED
  BY <1>0, <1>2, <1>4, <1>5, <1>6, <1>7, <1>8, <1>9

(* halt of a base shell: a new process p, perhaps in the same slot, takes  *)
(* its place.                                                              *)
LEMMA RestartTree ==
  ASSUME TreeInv, Booted, PPID[CPID] = 0,
         NEW p \in PIDs, p \notin running \ {CPID},
         running' = (running \ {CPID}) \cup {p},
         PPID' = [PPID EXCEPT ![p] = 0],
         terminal' = [terminal EXCEPT ![p] = terminal[CPID]],
         active_processes' = [active_processes EXCEPT ![terminal[CPID]] = p]
  PROVE  ProcessTree' /\ active_processes'[terminal'[p]] = p /\ p \in Live'
<1> USE DEF TreeInv, ProcessTree, TypeOK, Live
<1> DEFINE t == terminal[CPID]
<1>0. /\ 0 \in running /\ p # 0
      /\ CPID \in Live
      /\ active_processes[t] = CPID
      /\ Live' = (Live \ {CPID}) \cup {p}
      /\ PPID'[p] = 0 /\ terminal'[p] = t
      /\ t \in Terminals
      /\ active_processes'[t] = p
      /\ \A q \in Live \ {CPID} : q # p /\ PPID'[q] = PPID[q]
                                          /\ terminal'[q] = terminal[q]
      /\ \A u \in Terminals : u # t => active_processes'[u] = active_processes[u]
  OBVIOUS
<1>1. \A q \in Live : PPID[q] # CPID
  BY <1>0 DEF ActiveIsLeaf
<1>2. \A q \in Live \ {CPID} : terminal[q] = t => PPID[q] # 0
  BY <1>0 DEF OneChild
<1>3. \A q \in Live \ {CPID} : PPID[q] # p
  BY <1>0, <1>1 DEF ParentsLive
<1>4. ParentsLive'
  BY <1>0, <1>1 DEF ParentsLive
<1>5. ActiveLive'
  BY <1>0 DEF ActiveLive
<1>6. OneChild'
  BY <1>0, <1>2 DEF OneChild
<1>7. ActiveIsLeaf'
  <2> SUFFICES ASSUME NEW q \in Live'
               PROVE  (active_processes[terminal[q]] = q)' <=>
                        \A r \in Live' : PPID'[r] # q
    BY DEF ActiveIsLeaf
  <2>1. CASE q = p
    BY <1>0, <1>3, <2>1
  <2>2. CASE q # p
    BY <1>0, <1>1, <2>2 DEF ActiveIsLeaf
  <2> QED
    BY <2>1, <2>2
<1>8. NoOrphans'
  BY <1>0 DEF NoOrphans
<1> QED
  BY <1>0, <1>4, <1>5, <1>6, <1>7, <1>8

(* What TreeInv says once the first shell runs, of the next state.         *)
LEMMA TreeInvNext ==
  ASSUME TypeOK', ProcessTree', CPID' \in Live',
         active_processes'[terminal'[CPID']] = CPID', cr3' # 0
  PROVE  TreeInv' /\ Booted'
BY DEF TreeInv, Booted

(* The end of the current process, however it comes about.                 *)
LEMMA ExceptionHaltTree ==
  ASSUME TreeInv, Booted, exception_halt, TypeOK'
  PROVE  TreeInv' /\ Booted'
<1>1. CASE resume_parent
  <2>1. /\ ProcessTree'
        /\ active_processes'[terminal'[PPID[CPID]]] = PPID[CPID]
        /\ PPID[CPID] \in Live'
    BY <1>1, ResumeTree DEF resume_parent, enter
  <2>2. CPID' = PPID[CPID] /\ cr3' = PPID[CPID] /\ PPID[CPID] # 0
    BY <1>1 DEF resume_parent, enter
  <2> QED
    BY <2>1, <2>2, TreeInvNext
<1>2. CASE restart_shell
  <2> DEFINE run == running \ {CPID}
             act == (active \ {CPID}) \cup {0}
             arg == args_after_halt(0)
  <2>1. PICK p \in PIDs :
          execute_base_shell(terminal[CPID], run, act, arg, switch_frames)!(p)
    BY <1>2, Zenon DEF restart_shell, execute_base_shell
  <2>2. PPID[CPID] = 0 /\ p \notin run
    BY <1>2, <2>1 DEF restart_shell, first_free
  <2>3. ProcessTree' /\ active_processes'[terminal'[p]] = p /\ p \in Live'
    BY <2>1, <2>2, RestartTree, Zenon
  <2> QED
    BY <2>1, <2>3, TreeInvNext DEF enter, Live
<1> QED
  BY <1>1, <1>2 DEF exception_halt

(* Live processes have numbers of the table, and terminals.                *)
LEMMA LiveTypes ==
  ASSUME TypeOK
  PROVE  \A q \in Live : /\ q \in PIDs /\ q # 0
                         /\ terminal[q] \in Terminals
                         /\ PPID[q] \in PIDs
BY DEF TypeOK, Live

(* A shell started in a terminal without processes.                        *)
LEMMA BaseShellTree ==
  ASSUME TreeInv, NEW t \in Terminals, active_processes[t] = 0,
         NEW act, NEW arg, NEW swf,
         execute_base_shell(t, running, act, arg, swf), TypeOK'
  PROVE  TreeInv' /\ Booted'
<1>1. PICK p \in PIDs : execute_base_shell(t, running, act, arg, swf)!(p)
  BY Zenon DEF execute_base_shell
<1>2. p \notin running
  BY <1>1 DEF first_free
<1>3. ProcessTree' /\ active_processes'[terminal'[p]] = p /\ p \in Live'
  BY <1>1, <1>2, LaunchTree, Zenon
<1> QED
  BY <1>1, <1>3, TreeInvNext DEF enter, Live

(* Steps that leave the process table and the current process alone.       *)
LEMMA SameTree ==
  ASSUME TreeInv, TypeOK', UNCHANGED <<running, PPID, terminal,
                                       active_processes, CPID, cr3, esp0>>
  PROVE  TreeInv' /\ (Booted' <=> Booted)
BY DEF TreeInv, ProcessTree, ParentsLive, ActiveLive, OneChild, ActiveIsLeaf,
       NoOrphans, Live, Booted

(* TreeInv is inductive; the type invariant of the next state is given.    *)
LEMMA TreeStep ==
  ASSUME TreeInv, Next, TypeOK'
  PROVE  TreeInv' /\ Booted'
<1> USE DEF pcb_vars, video_vars, map_vars, cpu_vars, frame_vars
<1>1. CASE Boot
  <2>1. ~Booted /\ active_processes[0] = 0
    BY <1>1, ConstantFacts DEF Boot, TreeInv
  <2> QED
    BY <1>1, <2>1, BaseShellTree, ConstantFacts DEF Boot
<1>2. CASE halt \/ exception
  BY <1>2, ExceptionHaltTree DEF halt, exception, InUserMode
<1>3. ASSUME NEW file \in Programs, NEW a \in Args \cup {NoArgs},
             execute(file, a)
      PROVE  TreeInv' /\ Booted'
  <2>1. PICK p \in PIDs : execute(file, a)!2!(p)
    BY <1>3, Zenon DEF execute
  <2>2. Booted /\ p \notin running
    BY <1>3, <2>1 DEF execute, InUserMode, first_free
  <2>3. ProcessTree' /\ active_processes'[terminal'[p]] = p /\ p \in Live'
    BY <2>1, <2>2, SpawnTree, Zenon
  <2> QED
    BY <2>1, <2>3, TreeInvNext DEF Live
<1>4. CASE vidmap_choose
  BY <1>4, SameTree DEF vidmap_choose, InUserMode
<1>5. CASE vidmap_map
  <2>1. /\ UNCHANGED <<running, PPID, terminal, active_processes, CPID>>
        /\ cr3' = CPID
        /\ Booted
    BY <1>5 DEF vidmap_map
  <2>2. ProcessTree' /\ CPID \in Live /\ Live' = Live
    BY <2>1 DEF TreeInv, ProcessTree, ParentsLive, ActiveLive, OneChild,
                ActiveIsLeaf, NoOrphans, Live
  <2> QED
    BY <2>1, <2>2, TreeInvNext DEF TreeInv, Live
<1>6. CASE pitHandler
  <2>0. Booted
    BY <1>6 DEF pitHandler, TreeInv
  <2>1. CASE task_switch_halts
    BY <2>0, <2>1, ExceptionHaltTree DEF task_switch_halts
  <2>2. CASE task_switch_switches
    <3>1. PICK t \in Terminals :
            /\ next_terminal(terminal[CPID], t)
            /\ active_processes[t] # CPID
            /\ enter(active_processes[t])
            /\ switch_frames' =
                 (switch_frames \cup {CPID}) \ {active_processes[t]}
      BY <2>2, Zenon DEF task_switch_switches
    <3>a. UNCHANGED <<running, PPID, terminal, active_processes, execute_frames>>
      BY <2>2, Zenon DEF task_switch_switches, pcb_vars
    <3> DEFINE new == active_processes[t]
    <3>2. /\ new # 0
          /\ CPID' = new /\ cr3' = new
          /\ UNCHANGED <<running, PPID, terminal, active_processes>>
      BY <2>2, <3>1, Zenon DEF task_switch_switches, next_terminal, enter
    <3>3. /\ ProcessTree' /\ Live' = Live
          /\ new \in Live /\ active_processes[terminal[new]] = new
      BY <3>2 DEF TreeInv, ProcessTree, ParentsLive, ActiveLive, OneChild,
                  ActiveIsLeaf, NoOrphans, Live
    <3> QED
      BY <3>2, <3>3, TreeInvNext
  <2> QED
    BY <1>6, <2>1, <2>2 DEF pitHandler
<1>7. CASE Booted /\ keyboardHandler
  <2>1. ASSUME NEW t \in Terminals, key_alt_f(t)
        PROVE  TreeInv' /\ Booted'
    <3>1. CASE terminal_switch_same(t) \/ terminal_switch_live(t)
      BY <1>7, <3>1, SameTree DEF terminal_switch_same, terminal_switch_live
    <3>2. CASE terminal_switch_new(t)
      BY <3>2, BaseShellTree DEF terminal_switch_new, needs_shell
    <3> QED
      BY <2>1, <3>1, <3>2 DEF key_alt_f
  <2>2. CASE key_ctrl_c
    BY <1>7, <2>2, ExceptionHaltTree, SameTree DEF key_ctrl_c
  <2>3. CASE key_other
    BY <1>7, <2>3, SameTree DEF key_other
  <2> QED
    BY <1>7, <2>1, <2>2, <2>3 DEF keyboardHandler
<1> QED
  BY <1>1, <1>2, <1>3, <1>4, <1>5, <1>6, <1>7 DEF Next, UserStep

(* No process exists at the start.                                         *)
LEMMA TreeInit ==
  ASSUME Init
  PROVE  TreeInv
<1>1. TypeOK
  BY TypeInit
<1>2. Live = {} /\ ~Booted /\ 0 \in running
  BY DEF Init, syscalls_init, Live, Booted
<1>3. ProcessTree
  BY <1>2 DEF ProcessTree, ParentsLive, ActiveLive, OneChild, ActiveIsLeaf,
              NoOrphans, Init, syscalls_init
<1> QED
  BY <1>1, <1>2, <1>3 DEF TreeInv, Init, syscalls_init

(* TreeInv holds in every reachable state.                                 *)
THEOREM TreeInvariant == Spec => []TreeInv
<1>1. Init => TreeInv
  BY TreeInit
<1>2. TreeInv /\ [Next]_vars => TreeInv'
  <2> SUFFICES ASSUME TreeInv, [Next]_vars PROVE TreeInv'
    OBVIOUS
  <2>1. TypeOK'
    BY TypeStep DEF TreeInv
  <2>2. CASE Next
    BY <2>1, <2>2, TreeStep
  <2>3. CASE UNCHANGED vars
    BY <2>1, <2>3, SameTree DEF vars, pcb_vars, cpu_vars
  <2> QED
    BY <2>2, <2>3
<1> QED
  BY <1>1, <1>2, PTL DEF Spec

(* execute, halt, exceptions, CTRL-C and terminal switches keep the        *)
(* processes of every terminal on one chain of parents whose leaf is the   *)
(* process the scheduler knows, whatever the image holds.                  *)
THEOREM TreeCorrect == Spec => []ProcessTree
BY TreeInvariant, PTL DEF TreeInv

-----------------------------------------------------------------------------
(* The CPU and the saved contexts, for an image without corrupt files.     *)
ContextInv == TreeInv /\ CpuOwner /\ SavedContexts

(* A shell started in a terminal without processes, the current process,   *)
(* if there is one, having been saved.                                     *)
LEMMA BaseShellContext ==
  ASSUME ContextInv, NEW t \in Terminals, active_processes[t] = 0,
         NEW act, NEW arg, NEW swf,
         Booted => swf = switch_frames \cup {CPID},
         execute_base_shell(t, running, act, arg, swf), TreeInv', Booted'
  PROVE  ContextInv'
<1>0. /\ TypeOK /\ 0 \in running /\ ParentsLive /\ NoOrphans
      /\ CpuOwner /\ SavedContexts
  BY DEF ContextInv, TreeInv, ProcessTree
<1>1. PICK p \in PIDs : execute_base_shell(t, running, act, arg, swf)!(p)
  BY Zenon DEF execute_base_shell
<1>2. /\ p \notin running /\ p # 0
      /\ Live' = Live \cup {p}
      /\ CPID' = p /\ cr3' = p /\ esp0' = p
      /\ PPID'[p] = 0 /\ terminal'[p] = t
      /\ active_processes'[t] = p
      /\ \A q \in Live : PPID'[q] = PPID[q] /\ terminal'[q] = terminal[q]
      /\ \A u \in Terminals : u # t => active_processes'[u] = active_processes[u]
      /\ switch_frames' = swf \ {p}
      /\ execute_frames' = execute_frames \ {p}
  <2>1. /\ p \notin running /\ running' = running \cup {p}
        /\ CPID' = p /\ cr3' = p /\ esp0' = p
        /\ PPID' = [PPID EXCEPT ![p] = 0]
        /\ terminal' = [terminal EXCEPT ![p] = t]
        /\ active_processes' = [active_processes EXCEPT ![t] = p]
        /\ switch_frames' = swf \ {p}
        /\ execute_frames' = execute_frames \ {p}
    BY <1>1, Zenon DEF first_free, enter
  <2>2. p # 0 /\ Live' = Live \cup {p} /\ \A q \in Live : q \in PIDs /\ q # p
    BY <1>0, <2>1, LiveTypes DEF Live
  <2>3. /\ PPID'[p] = 0 /\ terminal'[p] = t
        /\ \A q \in PIDs : q # p => PPID'[q] = PPID[q] /\ terminal'[q] = terminal[q]
    BY <1>0, <2>1 DEF TypeOK
  <2>4. /\ active_processes'[t] = p
        /\ \A u \in Terminals : u # t => active_processes'[u] = active_processes[u]
    BY <1>0, <2>1 DEF TypeOK
  <2> QED
    BY <2>1, <2>2, <2>3, <2>4, Zenon
<1>3. CpuOwner'
  BY <1>2, Zenon DEF CpuOwner
<1>4. \A q \in Live : PPID[q] # p /\ terminal[q] # t
  <2>1. \A q \in Live : PPID[q] # p
    BY <1>0, <1>2 DEF ParentsLive, Live
  <2>2. \A q \in Live : terminal[q] # t
    BY <1>0, LiveTypes DEF NoOrphans
  <2> QED
    BY <2>1, <2>2, Zenon
<1>5. ~Booted => Live = {}
  BY DEF ContextInv, TreeInv, Live
<1>6. SavedContexts'
  <2> SUFFICES ASSUME NEW q \in Live'
               PROVE  /\ q \in switch_frames' <=>
                           q # CPID' /\ active_processes'[terminal'[q]] = q
                      /\ q \in execute_frames' <=>
                           \E r \in Live' : PPID'[r] = q
    BY DEF SavedContexts
  <2>1. CASE q = p
    BY <1>2, <1>4, <2>1
  <2>2. CASE q # p
    <3>1. Booted /\ q \in Live
      BY <1>2, <1>5, <2>2
    <3>2. (\E r \in Live' : PPID'[r] = q) <=> (\E r \in Live : PPID[r] = q)
      BY <1>0, <1>2, <3>1, LiveTypes
    <3>3. /\ terminal'[q] = terminal[q] /\ terminal[q] \in Terminals
          /\ active_processes'[terminal[q]] = active_processes[terminal[q]]
      BY <1>0, <1>2, <1>4, <2>2, <3>1, LiveTypes
    <3>4. /\ q \in switch_frames <=>
               q # CPID /\ active_processes[terminal[q]] = q
          /\ q \in execute_frames <=> \E r \in Live : PPID[r] = q
      BY <1>0, <3>1 DEF SavedContexts
    <3>5. q \in switch_frames' <=> active_processes[terminal[q]] = q
      <4>1. CPID \in Live /\ active_processes[terminal[CPID]] = CPID
        BY <1>0, <3>1 DEF CpuOwner
      <4> QED
        BY <1>2, <2>2, <3>1, <3>4, <4>1
    <3> QED
      BY <1>2, <2>2, <3>2, <3>3, <3>4, <3>5
  <2> QED
    BY <2>1, <2>2
<1> QED
  BY <1>3, <1>6 DEF ContextInv

(* The end of the current process.                                         *)
LEMMA ExceptionHaltContext ==
  ASSUME ContextInv, Booted, exception_halt, TreeInv', Booted'
  PROVE  ContextInv'
<1>a. /\ TypeOK /\ 0 \in running /\ ParentsLive /\ OneChild /\ ActiveIsLeaf
      /\ SavedContexts
      /\ CPID \in Live /\ active_processes[terminal[CPID]] = CPID
  BY DEF ContextInv, TreeInv, ProcessTree
<1>0. \A q \in Live : PPID[q] # CPID
  BY <1>a DEF ActiveIsLeaf
<1>1. CASE resume_parent
  <2> DEFINE par == PPID[CPID]
  <2>1. /\ par # 0 /\ par \in Live /\ par # CPID
        /\ Live' = Live \ {CPID}
        /\ CPID' = par /\ cr3' = par /\ esp0' = par
        /\ PPID' = PPID /\ terminal' = terminal
        /\ terminal[par] = terminal[CPID]
        /\ active_processes'[terminal[par]] = par
        /\ \A u \in Terminals : u # terminal[par] =>
                                 active_processes'[u] = active_processes[u]
        /\ switch_frames' = switch_frames
        /\ execute_frames' = execute_frames \ {par}
    <3>1. /\ par # 0 /\ running' = running \ {CPID}
          /\ CPID' = par /\ cr3' = par /\ esp0' = par
          /\ PPID' = PPID /\ terminal' = terminal
          /\ active_processes' = [active_processes EXCEPT ![terminal[par]] = par]
          /\ switch_frames' = switch_frames
          /\ execute_frames' = execute_frames \ {par}
      BY <1>1, Zenon DEF resume_parent, enter
    <3>2. par \in Live /\ terminal[par] = terminal[CPID]
      BY <1>a, <3>1 DEF ParentsLive
    <3>3. par # CPID /\ Live' = Live \ {CPID} /\ terminal[par] \in Terminals
      BY <1>a, <1>0, <3>1, <3>2, LiveTypes DEF Live
    <3>4. /\ active_processes'[terminal[par]] = par
          /\ \A u \in Terminals : u # terminal[par] =>
               active_processes'[u] = active_processes[u]
      BY <1>a, <3>1, <3>3 DEF TypeOK
    <3> QED
      BY <3>1, <3>2, <3>3, <3>4, Zenon
  <2>2. CpuOwner'
    BY <2>1 DEF CpuOwner
  <2>3. ASSUME NEW r \in Live, r # CPID
        PROVE  PPID[r] # par
    <3> SUFFICES ASSUME PPID[r] = par
                 PROVE  FALSE
      OBVIOUS
    <3>1. terminal[r] = terminal[CPID]
      BY <1>a, <2>1, <2>3 DEF ParentsLive
    <3> QED
      BY <1>a, <2>3, <3>1 DEF OneChild
  <2>4. SavedContexts'
    <3> SUFFICES ASSUME NEW q \in Live'
                 PROVE  /\ q \in switch_frames' <=>
                             q # CPID' /\ active_processes'[terminal'[q]] = q
                        /\ q \in execute_frames' <=>
                             \E r \in Live' : PPID'[r] = q
      BY DEF SavedContexts
    <3>1. CASE q = par
      <4>1. active_processes[terminal[par]] # par
        BY <1>a, <2>1
      <4> QED
        BY <1>a, <2>1, <2>3, <3>1, <4>1 DEF SavedContexts
    <3>2. CASE q # par
      <4>1. /\ q \in Live /\ q # CPID /\ terminal[q] \in Terminals
            /\ q \in switch_frames <=>
                 q # CPID /\ active_processes[terminal[q]] = q
            /\ q \in execute_frames <=> \E r \in Live : PPID[r] = q
        BY <1>a, <2>1, LiveTypes DEF SavedContexts
      <4>2. (\E r \in Live' : PPID'[r] = q) <=> (\E r \in Live : PPID[r] = q)
        BY <1>a, <2>1, <3>2
      <4>3. active_processes'[terminal'[q]] = q <=>
              active_processes[terminal[q]] = q
        BY <1>a, <2>1, <3>2, <4>1
      <4> QED
        BY <2>1, <3>2, <4>1, <4>2, <4>3
    <3> QED
      BY <3>1, <3>2
  <2> QED
    BY <2>2, <2>4 DEF ContextInv
<1>2. CASE restart_shell
  <2> DEFINE run == running \ {CPID}
             act == (active \ {CPID}) \cup {0}
             arg == args_after_halt(0)
             t == terminal[CPID]
  <2>1. PICK p \in PIDs :
          execute_base_shell(terminal[CPID], run, act, arg, switch_frames)!(p)
    BY <1>2, Zenon DEF restart_shell, execute_base_shell
  <2>2. /\ p \notin run /\ p # 0
        /\ Live' = (Live \ {CPID}) \cup {p}
        /\ CPID' = p /\ cr3' = p /\ esp0' = p
        /\ PPID'[p] = 0 /\ terminal'[p] = t
        /\ active_processes'[t] = p
        /\ \A q \in Live \ {CPID} : q # p /\ PPID'[q] = PPID[q]
                                    /\ terminal'[q] = terminal[q]
        /\ \A u \in Terminals : u # t =>
                                 active_processes'[u] = active_processes[u]
        /\ switch_frames' = switch_frames \ {p}
        /\ execute_frames' = execute_frames \ {p}
    <3>1. /\ p \notin run /\ running' = run \cup {p}
          /\ CPID' = p /\ cr3' = p /\ esp0' = p
          /\ PPID' = [PPID EXCEPT ![p] = 0]
          /\ terminal' = [terminal EXCEPT ![p] = t]
          /\ active_processes' = [active_processes EXCEPT ![t] = p]
          /\ switch_frames' = switch_frames \ {p}
          /\ execute_frames' = execute_frames \ {p}
      BY <2>1, Zenon DEF first_free, enter
    <3>2. /\ p # 0 /\ Live' = (Live \ {CPID}) \cup {p}
          /\ \A q \in Live \ {CPID} : q \in PIDs /\ q # p
      BY <1>a, <3>1, LiveTypes DEF Live
    <3>3. /\ PPID'[p] = 0 /\ terminal'[p] = t
          /\ \A q \in PIDs : q # p => PPID'[q] = PPID[q] /\ terminal'[q] = terminal[q]
      BY <1>a, <3>1 DEF TypeOK
    <3>4. /\ active_processes'[t] = p
          /\ \A u \in Terminals : u # t => active_processes'[u] = active_processes[u]
      BY <1>a, <3>1 DEF TypeOK
    <3> QED
      BY <3>1, <3>2, <3>3, <3>4, Zenon
  <2>3. CpuOwner'
    BY <2>2 DEF CpuOwner
  <2>4. \A q \in Live \ {CPID} : PPID[q] # p
    BY <1>a, <1>0, <2>2, LiveTypes DEF ParentsLive
  <2>5. SavedContexts'
    <3> SUFFICES ASSUME NEW q \in Live'
                 PROVE  /\ q \in switch_frames' <=>
                             q # CPID' /\ active_processes'[terminal'[q]] = q
                        /\ q \in execute_frames' <=>
                             \E r \in Live' : PPID'[r] = q
      BY DEF SavedContexts
    <3>1. CASE q = p
      BY <2>2, <2>4, <3>1
    <3>2. CASE q # p
      <4>1. q \in Live /\ q # CPID
        BY <2>2, <3>2
      <4>2. PPID[CPID] = 0 /\ q # 0
        BY <1>a, <1>2, <4>1, LiveTypes DEF restart_shell
      <4>3. (\E r \in Live' : PPID'[r] = q) <=> (\E r \in Live : PPID[r] = q)
        BY <2>2, <4>1, <4>2
      <4> QED
        BY <1>a, <2>2, <3>2, <4>1, <4>3, LiveTypes DEF SavedContexts
    <3> QED
      BY <3>1, <3>2
  <2> QED
    BY <2>3, <2>5 DEF ContextInv
<1> QED
  BY <1>1, <1>2 DEF exception_halt

(* Steps that leave the tree, the CPU and the frames alone.                *)
LEMMA SameContext ==
  ASSUME ContextInv, TreeInv', Booted' <=> Booted,
         UNCHANGED <<running, PPID, terminal, active_processes, CPID, cr3,
                     esp0, switch_frames, execute_frames>>
  PROVE  ContextInv'
BY DEF ContextInv, CpuOwner, SavedContexts, Live

(* ContextInv is inductive when no file of the image is corrupt.           *)
LEMMA ContextStep ==
  ASSUME "corrupt" \notin Programs, ContextInv, Next, TypeOK'
  PROVE  ContextInv'
<1> USE DEF pcb_vars, video_vars, map_vars, cpu_vars, frame_vars
<1>0. TreeInv' /\ Booted'
  BY TreeStep DEF ContextInv
<1>1. CASE Boot
  <2>1. ~Booted /\ active_processes[0] = 0
    BY <1>1, ConstantFacts DEF Boot, ContextInv, TreeInv
  <2> QED
    BY <1>0, <1>1, <2>1, BaseShellContext, ConstantFacts DEF Boot
<1>2. CASE halt \/ exception
  BY <1>0, <1>2, ExceptionHaltContext DEF halt, exception, InUserMode
<1>3. ASSUME NEW file \in Programs, NEW a \in Args \cup {NoArgs},
             execute(file, a)
      PROVE  ContextInv'
  <2>0. /\ TypeOK /\ 0 \in running /\ ParentsLive /\ ActiveIsLeaf
        /\ CpuOwner /\ SavedContexts
    BY DEF ContextInv, TreeInv, ProcessTree
  <2>1. PICK p \in PIDs : execute(file, a)!2!(p)
    BY <1>3, Zenon DEF execute
  <2>2. /\ Booted /\ p \notin running /\ p # 0
        /\ CPID \in Live /\ active_processes[terminal[CPID]] = CPID
        /\ terminal[CPID] \in Terminals
        /\ Live' = Live \cup {p}
        /\ PPID'[p] = CPID /\ terminal'[p] = terminal[CPID]
        /\ active_processes'[terminal[CPID]] = p
        /\ \A q \in Live : PPID'[q] = PPID[q] /\ terminal'[q] = terminal[q]
        /\ \A u \in Terminals : u # terminal[CPID] =>
                                 active_processes'[u] = active_processes[u]
        /\ switch_frames' = switch_frames \ {p}
    <3>1. /\ Booted /\ p \notin running /\ running' = running \cup {p}
          /\ PPID' = [PPID EXCEPT ![p] = CPID]
          /\ terminal' = [terminal EXCEPT ![p] = terminal[CPID]]
          /\ active_processes' = [active_processes EXCEPT ![terminal[CPID]] = p]
          /\ switch_frames' = switch_frames \ {p}
      BY <1>3, <2>1, Zenon DEF execute, InUserMode, first_free
    <3>2. /\ CPID \in Live /\ active_processes[terminal[CPID]] = CPID
          /\ terminal[CPID] \in Terminals
      BY <2>0, <3>1, LiveTypes DEF ContextInv, TreeInv
    <3>3. p # 0 /\ Live' = Live \cup {p} /\ \A q \in Live : q \in PIDs /\ q # p
      BY <2>0, <3>1, LiveTypes DEF Live
    <3>4. /\ PPID'[p] = CPID /\ terminal'[p] = terminal[CPID]
          /\ \A q \in PIDs : q # p => PPID'[q] = PPID[q] /\ terminal'[q] = terminal[q]
      BY <2>0, <3>1 DEF TypeOK
    <3>5. /\ active_processes'[terminal[CPID]] = p
          /\ \A u \in Terminals : u # terminal[CPID] =>
               active_processes'[u] = active_processes[u]
      BY <2>0, <3>1, <3>2 DEF TypeOK
    <3> QED
      BY <3>1, <3>2, <3>3, <3>4, <3>5, Zenon
  <2>3. /\ CPID' = p /\ cr3' = p /\ esp0' = p
        /\ execute_frames' = (execute_frames \ {p}) \cup {CPID}
    BY <2>1
  <2>4. CpuOwner'
    BY <2>2, <2>3 DEF CpuOwner
  <2>5. \A q \in Live : PPID[q] # p
    BY <2>0, <2>2 DEF ParentsLive, Live
  <2>6. SavedContexts'
    <3> SUFFICES ASSUME NEW q \in Live'
                 PROVE  /\ q \in switch_frames' <=>
                             q # CPID' /\ active_processes'[terminal'[q]] = q
                        /\ q \in execute_frames' <=>
                             \E r \in Live' : PPID'[r] = q
      BY DEF SavedContexts
    <3>1. CASE q = p
      BY <2>2, <2>3, <2>5, <3>1
    <3>2. CASE q = CPID
      BY <2>0, <2>2, <2>3, <3>2 DEF SavedContexts
    <3>3. CASE q \notin {p, CPID}
      <4>1. q \in Live /\ terminal[q] \in Terminals
        BY <2>0, <2>2, <3>3, LiveTypes
      <4>2. (\E r \in Live' : PPID'[r] = q) <=> (\E r \in Live : PPID[r] = q)
        BY <2>2, <3>3
      <4>3. active_processes'[terminal'[q]] = q <=>
              active_processes[terminal[q]] = q
        BY <2>2, <3>3, <4>1
      <4> QED
        BY <2>0, <2>2, <2>3, <3>3, <4>1, <4>2, <4>3 DEF SavedContexts
    <3> QED
      BY <3>1, <3>2, <3>3
  <2> QED
    BY <1>0, <2>4, <2>6 DEF ContextInv
<1>4. CASE vidmap_choose
  BY <1>0, <1>4, SameContext DEF vidmap_choose, InUserMode
<1>5. CASE vidmap_map
  <2>1. cr3' = cr3
    BY <1>5 DEF vidmap_map, ContextInv, CpuOwner
  <2> QED
    BY <1>0, <1>5, <2>1, SameContext DEF vidmap_map
<1>6. CASE pitHandler
  <2>0. Booted
    BY <1>6 DEF pitHandler, ContextInv, TreeInv
  <2>1. CASE task_switch_halts
    BY <1>0, <2>0, <2>1, ExceptionHaltContext DEF task_switch_halts
  <2>2. CASE task_switch_switches
    <3>0. TypeOK /\ ActiveLive /\ CpuOwner /\ SavedContexts /\ CPID \in Live
          /\ active_processes[terminal[CPID]] = CPID
      BY <2>0, Zenon DEF ContextInv, TreeInv, ProcessTree
    <3>1. PICK t \in Terminals :
            /\ next_terminal(terminal[CPID], t)
            /\ active_processes[t] # CPID
            /\ enter(active_processes[t])
            /\ switch_frames' =
                 (switch_frames \cup {CPID}) \ {active_processes[t]}
      BY <2>2, Zenon DEF task_switch_switches
    <3>a. UNCHANGED <<running, PPID, terminal, active_processes, execute_frames>>
      BY <2>2, Zenon DEF task_switch_switches, pcb_vars
    <3> DEFINE new == active_processes[t]
    <3>2. /\ new # 0 /\ new # CPID
          /\ CPID' = new /\ cr3' = new /\ esp0' = new
          /\ UNCHANGED <<running, PPID, terminal, active_processes,
                         execute_frames>>
          /\ switch_frames' = (switch_frames \cup {CPID}) \ {new}
      BY <3>1, <3>a, Zenon DEF next_terminal, enter
    <3>3. Live' = Live /\ new \in Live /\ terminal[new] = t
      BY <3>0, <3>2 DEF ActiveLive, Live
    <3>4. CpuOwner'
      BY <3>0, <3>2, <3>3 DEF CpuOwner
    <3>5. SavedContexts'
      BY <2>0, <3>0, <3>2, <3>3 DEF SavedContexts, CpuOwner
    <3> QED
      BY <1>0, <3>4, <3>5 DEF ContextInv
  <2> QED
    BY <1>6, <2>1, <2>2 DEF pitHandler
<1>7. CASE Booted /\ keyboardHandler
  <2>1. ASSUME NEW t \in Terminals, key_alt_f(t)
        PROVE  ContextInv'
    <3>1. CASE terminal_switch_same(t) \/ terminal_switch_live(t)
      BY <1>0, <1>7, <3>1, SameContext
         DEF terminal_switch_same, terminal_switch_live
    <3>2. CASE terminal_switch_new(t)
      BY <1>0, <3>2, BaseShellContext
         DEF terminal_switch_new, needs_shell, frames_at_launch
    <3> QED
      BY <2>1, <3>1, <3>2 DEF key_alt_f
  <2>2. CASE key_ctrl_c
    BY <1>0, <1>7, <2>2, ExceptionHaltContext, SameContext DEF key_ctrl_c
  <2>3. CASE key_other
    BY <1>0, <1>7, <2>3, SameContext DEF key_other
  <2> QED
    BY <1>7, <2>1, <2>2, <2>3 DEF keyboardHandler
<1> QED
  BY <1>1, <1>2, <1>3, <1>4, <1>5, <1>6, <1>7 DEF Next, UserStep

(* The invariant of an image whose executables load.                       *)
THEOREM ContextInvariant ==
  ASSUME "corrupt" \notin Programs
  PROVE  Spec => []ContextInv
<1>1. Init => ContextInv
  <2> SUFFICES ASSUME Init PROVE ContextInv
    OBVIOUS
  <2>1. ~Booted
    BY DEF Init, Booted
  <2> QED
    BY <2>1, TreeInit DEF ContextInv, CpuOwner, SavedContexts
<1>2. ContextInv /\ [Next]_vars => ContextInv'
  <2> SUFFICES ASSUME ContextInv, [Next]_vars PROVE ContextInv'
    OBVIOUS
  <2>1. TypeOK'
    BY TypeStep DEF ContextInv, TreeInv
  <2>2. CASE Next
    BY <2>1, <2>2, ContextStep
  <2>3. CASE UNCHANGED vars
    BY <2>1, <2>3, SameTree, SameContext
       DEF vars, pcb_vars, cpu_vars, frame_vars, ContextInv
  <2> QED
    BY <2>2, <2>3
<1> QED
  BY <1>1, <1>2, PTL DEF Spec

(* With an image whose executables load, the process that has the CPU      *)
(* always runs in its own address space and on its own kernel stack.       *)
THEOREM CpuOwned ==
  ASSUME "corrupt" \notin Programs
  PROVE  Spec => []CpuOwner
BY ContextInvariant, PTL DEF ContextInv

(* With such an image every context that task_switch or halt resumes was   *)
(* saved and is still there.                                               *)
THEOREM ContextsCorrect ==
  ASSUME "corrupt" \notin Programs
  PROVE  Spec => []SavedContexts
BY ContextInvariant, PTL DEF ContextInv
=============================================================================
