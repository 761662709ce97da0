-------------------------- MODULE KernelPagesProofs --------------------------
(***************************************************************************)
(* Proofs about the scheduler's records, the video pages and the stored    *)
(* arguments of module Kernel, and about the address spaces of module      *)
(* KernelPaging, for any number of slots, terminals and pages and any      *)
(* program image, corrupt files included.                                  *)
(***************************************************************************)
EXTENDS KernelPaging, KernelProofs

-----------------------------------------------------------------------------
(* The scheduler's records, the video pages and the stored arguments.      *)
(* What a base shell is started with and the state before the first one    *)
(* are needed to keep the rest.                                            *)
ShellsWithoutArgs == \A p \in Live : PPID[p] = 0 => args[p] = NoArgs

RecordsInv ==
  /\ TreeInv
  /\ ActiveRecords
  /\ KernelPageOwn
  /\ VidmapPageOwn
  /\ ShellsWithoutArgs
  /\ ~Booted => /\ active = {}
                /\ cur_terminal = 0
                /\ video_mem = ACTIVE_CONTEXT
                /\ terminal[0] = 0

(* When terminal t's active process becomes p, which no terminal had, the  *)
(* processes that are active are the old ones without t's, and p.          *)
LEMMA NewActive ==
  ASSUME TypeOK, ActiveLive, NEW t \in Terminals, NEW p \in PIDs, p # 0,
         \A u \in Terminals : u # t => active_processes[u] # p,
         active_processes' = [active_processes EXCEPT ![t] = p]
  PROVE  {active_processes'[u] : u \in Terminals} \ {0} =
           (({active_processes[u] : u \in Terminals} \ {0})
              \ {active_processes[t]}) \cup {p}
<1>1. /\ active_processes'[t] = p
      /\ \A u \in Terminals : u # t => active_processes'[u] = active_processes[u]
  BY DEF TypeOK
<1>2. ASSUME NEW u \in Terminals, u # t, active_processes[u] # 0
      PROVE  active_processes[u] # active_processes[t]
  BY <1>2 DEF ActiveLive
<1> QED
  BY <1>1, <1>2

(* A process p that a step starts in terminal t, the visible one or the    *)
(* current process's, or that goes on there.                               *)
LEMMA EntersRecords ==
  ASSUME RecordsInv, TreeInv', Booted', NEW p \in PIDs, p # 0,
         NEW t \in Terminals,
         Live' \subseteq Live \cup {p}, CPID' = p, terminal'[p] = t,
         \A q \in Live' \ {p} : terminal'[q] = terminal[q] /\ PPID'[q] = PPID[q],
         \A u \in Terminals : u # t => active_processes[u] # p,
         active_processes' = [active_processes EXCEPT ![t] = p],
         active' \ {0} = ((active \ {0}) \ {active_processes[t]}) \cup {p},
         0 \notin active',
         \/ /\ video_mem' = video_mem /\ cur_terminal' = cur_terminal
            /\ terminal[CPID] = t
         \/ /\ video_mem' = ACTIVE_CONTEXT /\ cur_terminal' \in {t, cur_terminal}
            /\ Booted
  PROVE  ActiveRecords' /\ KernelPageOwn'
<1>0. TypeOK /\ ActiveLive /\ ActiveRecords /\ KernelPageOwn
  BY DEF RecordsInv, TreeInv, ProcessTree
<1>1. {active_processes'[u] : u \in Terminals} \ {0} =
        (({active_processes[u] : u \in Terminals} \ {0})
           \ {active_processes[t]}) \cup {p}
  BY <1>0, NewActive, Zenon
<1>2. active \ {0} = {active_processes[u] : u \in Terminals} \ {0}
  <2>1. CASE Booted
    BY <1>0, <2>1 DEF ActiveRecords
  <2>2. CASE ~Booted
    BY <2>2 DEF RecordsInv, TreeInv
  <2> QED
    BY <2>1, <2>2
<1>3. active' = {active_processes'[u] : u \in Terminals} \ {0}
  BY <1>1, <1>2
<1>4. active_processes'[cur_terminal'] # 0
  <2>1. CASE Booted
    BY <1>0, <2>1 DEF ActiveRecords, TypeOK
  <2>2. CASE ~Booted
    BY <1>0, <2>2 DEF RecordsInv, TreeInv, TypeOK
  <2> QED
    BY <2>1, <2>2
<1>5. KernelPageOwn'
  BY <1>0 DEF KernelPageOwn
<1> QED
  BY <1>3, <1>4, <1>5 DEF ActiveRecords

(* Slot p is given windows and arguments, the other slots keep theirs.     *)
LEMMA FreshSlot ==
  ASSUME TypeOK, NEW p \in PIDs, NEW a,
         user_video' = [user_video EXCEPT ![p] = NOT_MAPPED],
         vidmap_page' = [vidmap_page EXCEPT ![p] = NOT_MAPPED],
         args' = [args EXCEPT ![p] = a]
  PROVE  /\ user_video'[p] = NOT_MAPPED /\ vidmap_page'[p] = NOT_MAPPED
         /\ args'[p] = a
         /\ \A q \in Live : q # p => /\ user_video'[q] = user_video[q]
                                     /\ vidmap_page'[q] = vidmap_page[q]
                                     /\ args'[q] = args[q]
<1>1. /\ user_video'[p] = NOT_MAPPED
      /\ \A q \in PIDs : q # p => user_video'[q] = user_video[q]
  BY DEF TypeOK
<1>2. /\ vidmap_page'[p] = NOT_MAPPED
      /\ \A q \in PIDs : q # p => vidmap_page'[q] = vidmap_page[q]
  BY DEF TypeOK
<1>3. args'[p] = a /\ \A q \in PIDs : q # p => args'[q] = args[q]
  BY DEF TypeOK
<1> QED
  BY <1>1, <1>2, <1>3, LiveTypes, Zenon

(* The end of the current process.                                         *)
LEMMA EndRecords ==
  ASSUME RecordsInv, Booted, exception_halt, TreeInv', Booted',
         cur_terminal' = cur_terminal,
         video_mem' \in {video_mem, ACTIVE_CONTEXT}
  PROVE  RecordsInv' /\ SetsPages /\ KeepsArgs
<1>0. /\ TypeOK /\ 0 \in running
      /\ ParentsLive /\ ActiveLive /\ OneChild /\ ActiveIsLeaf /\ NoOrphans
      /\ CPID \in Live /\ active_processes[terminal[CPID]] = CPID
      /\ ActiveRecords /\ VidmapPageOwn /\ ShellsWithoutArgs
  BY DEF RecordsInv, TreeInv, ProcessTree
<1>a. CPID \in PIDs /\ CPID # 0 /\ terminal[CPID] \in Terminals
  BY <1>0, LiveTypes
<1>b. 0 \notin active
  BY <1>0 DEF ActiveRecords
<1>1. CASE resume_parent
  <2> DEFINE par == PPID[CPID]
  <2>1. /\ par # 0 /\ par \in Live /\ par \in PIDs /\ par # CPID
        /\ Live' = Live \ {CPID} /\ running' = running \ {CPID}
        /\ CPID' = par
        /\ PPID' = PPID /\ terminal' = terminal
        /\ terminal[par] = terminal[CPID]
        /\ active_processes' = [active_processes EXCEPT ![terminal[CPID]] = par]
        /\ active' = (active \cup {par}) \ {CPID}
        /\ user_video' = user_video /\ vidmap_page' = vidmap_page
        /\ args' = [args EXCEPT ![par] = NoArgs]
    <3>1. /\ par # 0 /\ running' = running \ {CPID} /\ CPID' = par
          /\ PPID' = PPID /\ terminal' = terminal
          /\ active_processes' = [active_processes EXCEPT ![terminal[par]] = par]
          /\ active' = (active \cup {par}) \ {CPID}
          /\ user_video' = user_video /\ vidmap_page' = vidmap_page
          /\ args' = [args EXCEPT ![par] = NoArgs]
      BY <1>1, Zenon DEF resume_parent, enter, activated, map_vars, args_after_halt
    <3>2. par \in Live /\ terminal[par] = terminal[CPID]
      BY <1>0, <3>1 DEF ParentsLive
    <3>3. par \in PIDs /\ par # CPID /\ Live' = Live \ {CPID}
      BY <1>0, <3>1, <3>2, LiveTypes DEF ActiveIsLeaf, Live
    <3> QED
      BY <3>1, <3>2, <3>3, Zenon
  <2>2. \A u \in Terminals : active_processes[u] # par
    BY <1>0, <2>1 DEF ActiveLive
  <2>3. active' \ {0} =
          ((active \ {0}) \ {active_processes[terminal[CPID]]}) \cup {par}
        /\ 0 \notin active'
    BY <1>0, <1>b, <2>1
  <2>4. ActiveRecords' /\ KernelPageOwn'
    BY <1>a, <2>1, <2>2, <2>3, EntersRecords, Zenon
  <2>5. VidmapPageOwn'
    BY <1>0, <2>1 DEF VidmapPageOwn
  <2>6. ShellsWithoutArgs'
    BY <1>0, <2>1, LiveTypes DEF ShellsWithoutArgs, TypeOK
  <2>7. SetsPages /\ KeepsArgs
    BY <1>0, <2>1 DEF SetsPages, KeepsArgs, TypeOK
  <2> QED
    BY <2>4, <2>5, <2>6, <2>7 DEF RecordsInv
<1>2. CASE restart_shell
  <2> DEFINE run == running \ {CPID}
             act == (active \ {CPID}) \cup {0}
             arg == args_after_halt(0)
             t == terminal[CPID]
  <2>1. PICK p \in PIDs :
          execute_base_shell(terminal[CPID], run, act, arg, switch_frames)!(p)
    BY <1>2, Zenon DEF restart_shell, execute_base_shell
  <2>2. /\ p \notin run /\ p # 0 /\ PPID[CPID] = 0
        /\ Live' = (Live \ {CPID}) \cup {p}
        /\ CPID' = p
        /\ terminal'[p] = t
        /\ \A q \in Live \ {CPID} : q # p /\ PPID'[q] = PPID[q]
                                    /\ terminal'[q] = terminal[q]
        /\ active_processes' = [active_processes EXCEPT ![t] = p]
        /\ active' = ((active \ {CPID}) \cup {0} \cup {p}) \ {0}
        /\ user_video' = [user_video EXCEPT ![p] = NOT_MAPPED]
        /\ vidmap_page' = [vidmap_page EXCEPT ![p] = NOT_MAPPED]
        /\ args' = [[args EXCEPT ![0] = NoArgs] EXCEPT ![p] = NoArgs]
    BY <1>0, <1>2, <2>1
       DEF restart_shell, first_free, enter, activated, args_after_halt, TypeOK, Live
  <2>3. \A u \in Terminals : u # t => active_processes[u] # p
    BY <1>0, <2>2 DEF ActiveLive, Live
  <2>4. active' \ {0} = ((active \ {0}) \ {active_processes[t]}) \cup {p}
        /\ 0 \notin active'
    BY <1>0, <1>b, <2>2
  <2>5. /\ Live' \subseteq Live \cup {p}
        /\ \A q \in Live' \ {p} : terminal'[q] = terminal[q] /\ PPID'[q] = PPID[q]
    BY <2>2
  <2>6. ActiveRecords' /\ KernelPageOwn'
    BY <1>a, <2>2, <2>3, <2>4, <2>5, EntersRecords, Zenon
  <2>7. VidmapPageOwn'
    <3>1. /\ user_video'[p] = NOT_MAPPED /\ vidmap_page'[p] = NOT_MAPPED
          /\ \A q \in PIDs : q # p => /\ user_video'[q] = user_video[q]
                                      /\ vidmap_page'[q] = vidmap_page[q]
      BY <1>0, <2>2 DEF TypeOK
    <3> QED
      BY <1>0, <2>2, <3>1, LiveTypes DEF VidmapPageOwn
  <2>8. ShellsWithoutArgs'
    BY <1>0, <2>2, LiveTypes DEF ShellsWithoutArgs, TypeOK
  <2>9. SetsPages
    BY <2>2, Zenon DEF SetsPages
  <2>10. KeepsArgs
    <3>1. args[CPID] = NoArgs
      BY <1>0, <2>2, Zenon DEF ShellsWithoutArgs
    <3>2. \A q \in Live : q # p => args'[q] = args[q]
      BY <1>0, <2>2, LiveTypes DEF TypeOK
    <3>3. p \in Live => p = CPID
      BY <2>2 DEF Live
    <3>4. args'[p] = NoArgs
      BY <1>0, <2>2 DEF TypeOK
    <3> QED
      BY <3>1, <3>2, <3>3, <3>4 DEF KeepsArgs
  <2> QED
    BY <2>6, <2>7, <2>8, <2>9, <2>10 DEF RecordsInv
<1> QED
  BY <1>1, <1>2 DEF exception_halt

(* A base shell in a terminal t that has no process.                       *)
LEMMA ShellRecords ==
  ASSUME RecordsInv, TreeInv', Booted', NEW t \in Terminals, NEW swf,
         active_processes[t] = 0,
         execute_base_shell(t, running, active, args, swf),
         \/ video_mem' = video_mem /\ cur_terminal' = cur_terminal
            /\ terminal[CPID] = t
         \/ video_mem' = ACTIVE_CONTEXT /\ cur_terminal' = t /\ Booted
  PROVE  RecordsInv' /\ SetsPages /\ KeepsArgs
<1>0. /\ TypeOK /\ 0 \in running /\ ActiveLive
      /\ VidmapPageOwn /\ ShellsWithoutArgs
      /\ Booted => ActiveRecords
      /\ ~Booted => active = {}
  BY Zenon DEF RecordsInv, TreeInv, ProcessTree
<1>1. PICK p \in PIDs : execute_base_shell(t, running, active, args, swf)!(p)
  BY Zenon DEF execute_base_shell
<1>2. /\ p \notin running /\ p # 0
      /\ Live' = Live \cup {p}
      /\ CPID' = p
      /\ terminal'[p] = t
      /\ \A q \in Live : q # p /\ PPID'[q] = PPID[q] /\ terminal'[q] = terminal[q]
      /\ active_processes' = [active_processes EXCEPT ![t] = p]
      /\ active' = (active \cup {p}) \ {0}
      /\ using_video_mem' = using_video_mem \ {p}
      /\ user_video' = [user_video EXCEPT ![p] = NOT_MAPPED]
      /\ vidmap_page' = [vidmap_page EXCEPT ![p] = NOT_MAPPED]
      /\ args' = [args EXCEPT ![p] = NoArgs]
  BY <1>0, <1>1 DEF first_free, enter, activated, TypeOK, Live
<1>3. \A u \in Terminals : active_processes[u] # p
  BY <1>0, <1>2 DEF ActiveLive, Live
<1>4. active' \ {0} = ((active \ {0}) \ {active_processes[t]}) \cup {p}
      /\ 0 \notin active'
  BY <1>2
<1>5. ActiveRecords' /\ KernelPageOwn'
  BY <1>2, <1>3, <1>4, EntersRecords, Zenon
<1>a. /\ user_video'[p] = NOT_MAPPED /\ vidmap_page'[p] = NOT_MAPPED
      /\ args'[p] = NoArgs
      /\ \A q \in Live : /\ user_video'[q] = user_video[q]
                         /\ vidmap_page'[q] = vidmap_page[q]
                         /\ args'[q] = args[q]
  BY <1>0, <1>2, FreshSlot, Zenon
<1>6. VidmapPageOwn'
  BY <1>0, <1>2, <1>a DEF VidmapPageOwn
<1>7. ShellsWithoutArgs'
  BY <1>0, <1>2, <1>a DEF ShellsWithoutArgs
<1>8. SetsPages
  BY <1>2 DEF SetsPages, KernelPageRight, right_page
<1>9. KeepsArgs
  BY <1>a, Zenon DEF KeepsArgs
<1> QED
  BY <1>5, <1>6, <1>7, <1>8, <1>9 DEF RecordsInv

(* Steps that leave the processes alone: the visible terminal and the      *)
(* video pages may change.                                                 *)
LEMMA SameRecords ==
  ASSUME RecordsInv, Booted, TreeInv', Booted',
         UNCHANGED <<running, active, PPID, terminal, args, active_processes,
                     CPID>>,
         active_processes[cur_terminal'] # 0,
         \/ UNCHANGED video_vars
         \/ video_mem' \in {ACTIVE_CONTEXT, right_page(CPID, cur_terminal')},
         VidmapPageOwn'
  PROVE  RecordsInv' /\ SetsPages /\ KeepsArgs
<1>1. Live' = Live
  BY DEF Live
<1>2. ActiveRecords' /\ KernelPageOwn'
  BY DEF RecordsInv, ActiveRecords, KernelPageOwn, right_page, video_vars
<1>3. ShellsWithoutArgs' /\ SetsPages /\ KeepsArgs
  BY <1>1 DEF RecordsInv, ShellsWithoutArgs, SetsPages, KeepsArgs
<1> QED
  BY <1>2, <1>3 DEF RecordsInv

(* Every step keeps the invariant and does what the action properties say. *)
LEMMA RecordsStep ==
  ASSUME RecordsInv, Next, TypeOK'
  PROVE  RecordsInv' /\ SetsPages /\ KeepsArgs
<1> USE DEF pcb_vars, video_vars, map_vars, cpu_vars, frame_vars
<1> DEFINE Goal == RecordsInv' /\ SetsPages /\ KeepsArgs
<1>0. TreeInv' /\ Booted'
  BY TreeStep DEF RecordsInv
<1>a. /\ TypeOK /\ 0 \in running /\ ParentsLive /\ ActiveLive
      /\ VidmapPageOwn /\ ShellsWithoutArgs
  BY DEF RecordsInv, TreeInv, ProcessTree
<1>b. Booted => /\ CPID \in Live /\ CPID \in PIDs /\ CPID # 0
                /\ terminal[CPID] \in Terminals
                /\ active_processes[terminal[CPID]] = CPID
                /\ 0 \notin active
                /\ active_processes[cur_terminal] # 0
  BY <1>a, LiveTypes DEF RecordsInv, TreeInv, ActiveRecords
<1>1. CASE Boot
  <2>1. /\ active_processes[0] = 0 /\ terminal[CPID] = 0
        /\ video_mem' = video_mem /\ cur_terminal' = cur_terminal
        /\ execute_base_shell(0, running, active, args, switch_frames)
    BY <1>1, ConstantFacts DEF Boot, RecordsInv, TreeInv
  <2> QED
    BY <1>0, <2>1, ShellRecords, ConstantFacts
<1>2. CASE halt \/ exception
  BY <1>0, <1>2, EndRecords DEF halt, exception, InUserMode
<1>3. ASSUME NEW file \in Programs, NEW a \in Args \cup {NoArgs},
             execute(file, a)
      PROVE  Goal
  <2>1. PICK p \in PIDs : execute(file, a)!2!(p)
    BY <1>3, Zenon DEF execute
  <2>2. /\ Booted /\ p \notin running /\ p # 0
        /\ Live' = Live \cup {p}
        /\ CPID' = p
        /\ terminal'[p] = terminal[CPID] /\ PPID'[p] = CPID
        /\ \A q \in Live : q # p /\ PPID'[q] = PPID[q]
                                 /\ terminal'[q] = terminal[q]
        /\ active_processes' = [active_processes EXCEPT ![terminal[CPID]] = p]
        /\ active' = (active \cup {p}) \ {CPID}
        /\ user_video' = [user_video EXCEPT ![p] = NOT_MAPPED]
        /\ vidmap_page' = [vidmap_page EXCEPT ![p] = NOT_MAPPED]
        /\ args' = [args EXCEPT ![p] = copied_args(a)]
        /\ UNCHANGED <<video_mem, cur_terminal>>
    <3>1. /\ Booted /\ p \notin running /\ running' = running \cup {p}
          /\ CPID' = p
          /\ PPID' = [PPID EXCEPT ![p] = CPID]
          /\ terminal' = [terminal EXCEPT ![p] = terminal[CPID]]
          /\ active_processes' = [active_processes EXCEPT ![terminal[CPID]] = p]
          /\ active' = (active \cup {p}) \ {CPID}
          /\ user_video' = [user_video EXCEPT ![p] = NOT_MAPPED]
          /\ vidmap_page' = [vidmap_page EXCEPT ![p] = NOT_MAPPED]
          /\ args' = [args EXCEPT ![p] = copied_args(a)]
          /\ UNCHANGED <<video_mem, cur_terminal>>
      BY <1>3, <2>1, Zenon DEF execute, InUserMode, first_free, activated
    <3>2. p # 0 /\ Live' = Live \cup {p} /\ \A q \in Live : q # p
      BY <1>a, <3>1 DEF Live
    <3>3. /\ terminal'[p] = terminal[CPID] /\ PPID'[p] = CPID
          /\ \A q \in PIDs : q # p => /\ PPID'[q] = PPID[q]
                                      /\ terminal'[q] = terminal[q]
      BY <1>a, <3>1 DEF TypeOK
    <3> QED
      BY <1>a, <3>1, <3>2, <3>3, LiveTypes, Zenon
  <2>3. \A u \in Terminals : active_processes[u] # p
    BY <1>a, <2>2, Zenon DEF ActiveLive, Live
  <2>4. active' \ {0} =
          ((active \ {0}) \ {active_processes[terminal[CPID]]}) \cup {p}
        /\ 0 \notin active'
    BY <1>b, <2>2
  <2>5. ActiveRecords' /\ KernelPageOwn'
    BY <1>0, <1>b, <2>2, <2>3, <2>4, EntersRecords, Zenon
  <2>a. /\ user_video'[p] = NOT_MAPPED /\ vidmap_page'[p] = NOT_MAPPED
        /\ \A q \in Live : /\ user_video'[q] = user_video[q]
                           /\ vidmap_page'[q] = vidmap_page[q]
                           /\ args'[q] = args[q]
    BY <1>a, <2>2, FreshSlot, Zenon
  <2>6. VidmapPageOwn'
    BY <1>a, <2>2, <2>a DEF VidmapPageOwn
  <2>7. ShellsWithoutArgs'
    BY <1>a, <1>b, <2>2, <2>a DEF ShellsWithoutArgs
  <2>8. SetsPages /\ KeepsArgs
    BY <2>2, <2>a, Zenon DEF SetsPages, KeepsArgs
  <2> QED
    BY <1>0, <2>5, <2>6, <2>7, <2>8 DEF RecordsInv
<1>4. CASE vidmap_choose
  <2>1. Booted /\ VidmapPageOwn'
    <3>1. /\ Booted
          /\ vidmap_page' = [vidmap_page EXCEPT ![CPID] =
                                right_page(CPID, cur_terminal)]
          /\ UNCHANGED <<running, terminal, user_video>>
      BY <1>4, Zenon DEF vidmap_choose, InUserMode
    <3>2. /\ vidmap_page'[CPID] = right_page(CPID, cur_terminal)
          /\ \A q \in PIDs : q # CPID => vidmap_page'[q] = vidmap_page[q]
      BY <1>a, <3>1 DEF TypeOK
    <3>3. Live' = Live
      BY <3>1 DEF Live
    <3>4. right_page(CPID, cur_terminal) \in {ACTIVE_CONTEXT, terminal[CPID]}
      BY DEF right_page
    <3> QED
      BY <1>a, <3>1, <3>2, <3>3, <3>4, LiveTypes, Zenon DEF VidmapPageOwn
  <2> QED
    BY <1>0, <1>4, <1>b, <2>1, SameRecords, Zenon DEF vidmap_choose
<1>5. CASE vidmap_map
  <2>1. Booted /\ VidmapPageOwn'
    BY <1>5, <1>a, LiveTypes DEF vidmap_map, VidmapPageOwn, TypeOK, Live
  <2> QED
    BY <1>0, <1>5, <1>b, <2>1, SameRecords, Zenon DEF vidmap_map
<1>6. CASE pitHandler
  <2>0. Booted
    BY <1>6 DEF pitHandler, RecordsInv, TreeInv
  <2>1. CASE task_switch_halts
    BY <1>0, <2>0, <2>1, EndRecords DEF task_switch_halts
  <2>2. CASE task_switch_switches
    <3>1. PICK t \in Terminals : task_switch_switches!2!(t)
      BY <2>2 DEF task_switch_switches
    <3> DEFINE new == active_processes[t]
    <3>2. /\ new # 0 /\ new \in PIDs /\ CPID' = new
          /\ UNCHANGED <<pcb_vars, cur_terminal, vidmap_page, active_processes>>
          /\ video_mem' = right_page(new, cur_terminal)
          /\ user_video' = remapped(CPID, new)
      BY <1>a, <2>2, <3>1, Zenon
         DEF task_switch_switches, next_terminal, enter, TypeOK
    <3>3. Live' = Live
      BY <3>2 DEF Live
    <3>4. ActiveRecords'
      BY <2>0, <3>2, Zenon DEF RecordsInv, ActiveRecords
    <3>5. KernelPageOwn'
      BY <3>2 DEF KernelPageOwn, right_page
    <3>6. VidmapPageOwn'
      BY <1>a, <3>2, <3>3, LiveTypes
         DEF VidmapPageOwn, remapped, right_page, TypeOK
    <3>7. SetsPages
      BY <3>2, Zenon
         DEF SetsPages, KernelPageRight, remapped, windows, right_page
    <3>8. ShellsWithoutArgs' /\ KeepsArgs
      BY <1>a, <3>2, <3>3 DEF ShellsWithoutArgs, KeepsArgs
    <3> QED
      BY <1>0, <3>4, <3>5, <3>6, <3>7, <3>8 DEF RecordsInv
  <2> QED
    BY <1>6, <2>1, <2>2 DEF pitHandler
<1>7. CASE Booted /\ keyboardHandler
  <2>0. ASSUME UNCHANGED <<running, terminal, user_video, vidmap_page>>
        PROVE  VidmapPageOwn'
    BY <1>a, <2>0 DEF VidmapPageOwn, Live
  <2>1. ASSUME NEW t \in Terminals, key_alt_f(t)
        PROVE  Goal
    <3>1. CASE terminal_switch_same(t) \/ terminal_switch_live(t)
      BY <1>0, <1>7, <1>b, <2>0, <3>1, SameRecords
         DEF terminal_switch_same, terminal_switch_live, needs_shell
    <3>2. CASE terminal_switch_new(t)
      BY <1>0, <1>7, <3>2, ShellRecords DEF terminal_switch_new, needs_shell
    <3> QED
      BY <2>1, <3>1, <3>2 DEF key_alt_f
  <2>2. CASE key_ctrl_c
    BY <1>0, <1>7, <1>b, <2>0, <2>2, EndRecords, SameRecords DEF key_ctrl_c
  <2>3. CASE key_other
    BY <1>0, <1>7, <1>b, <2>0, <2>3, SameRecords, Zenon DEF key_other
  <2> QED
    BY <1>7, <2>1, <2>2, <2>3 DEF keyboardHandler
<1> QED
  BY <1>1, <1>2, <1>3, <1>4, <1>5, <1>6, <1>7 DEF Next, UserStep

(* What the theorems below rest on, for every image, and what every step   *)
(* from such a state does to the pages and to the stored arguments.        *)
THEOREM RecordsInvariant ==
  Spec => []RecordsInv /\ [][SetsPages /\ KeepsArgs]_vars
<1>1. Init => RecordsInv
  <2> SUFFICES ASSUME Init PROVE RecordsInv
    OBVIOUS
  <2>1. ~Booted /\ TreeInv
    BY TreeInit DEF Init, Booted
  <2> QED
    BY <2>1, ConstantFacts
       DEF Init, syscalls_init, RecordsInv, ActiveRecords, KernelPageOwn,
           VidmapPageOwn, ShellsWithoutArgs, Live
<1>2. RecordsInv /\ [Next]_vars => RecordsInv' /\ [SetsPages /\ KeepsArgs]_vars
  <2> SUFFICES ASSUME RecordsInv, [Next]_vars
               PROVE  RecordsInv' /\ [SetsPages /\ KeepsArgs]_vars
    OBVIOUS
  <2>1. TypeOK'
    BY TypeStep DEF RecordsInv, TreeInv
  <2>2. CASE Next
    BY <2>1, <2>2, RecordsStep
  <2>3. CASE UNCHANGED vars
    <3>1. TreeInv'
      BY <2>1, <2>3, SameTree DEF vars, pcb_vars, cpu_vars, RecordsInv
    <3>2. RecordsInv'
      BY <2>3, <3>1
         DEF vars, pcb_vars, cpu_vars, video_vars, map_vars, RecordsInv,
             ActiveRecords, KernelPageOwn, VidmapPageOwn, ShellsWithoutArgs,
             Live, Booted
    <3> QED
      BY <2>3, <3>2
  <2> QED
    BY <2>2, <2>3
<1> QED
  BY <1>1, <1>2, PTL DEF Spec

(* The PCBs' active flags and the scheduler's table name the same          *)
(* processes, and the visible terminal has one: in every run.              *)
THEOREM RecordsAgree == Spec => []ActiveRecords
BY RecordsInvariant, PTL DEF RecordsInv

(* The kernel never writes on the hidden page of a terminal other than the *)
(* current process's, in any interleaving of task and terminal switches.   *)
THEOREM KernelPageOwned == Spec => []KernelPageOwn
BY RecordsInvariant, PTL DEF RecordsInv

(* No program's vidmap window is ever the hidden page of another terminal, *)
(* also when the switches come in the middle of vidmap.                    *)
THEOREM WindowsOwned == Spec => []VidmapPageOwn
BY RecordsInvariant, PTL DEF RecordsInv

(* A switch to another terminal's process sets the kernel's page and that  *)
(* process's window as the visible terminal requires.                      *)
THEOREM SwitchPages == Spec => SwitchSetsPages
BY RecordsInvariant, PTL DEF SwitchSetsPages

(* A process's stored arguments are cleared by the end of its own child    *)
(* only.                                                                   *)
THEOREM ArgsKept == Spec => ArgsUntilChildEnds
BY RecordsInvariant, PTL DEF ArgsUntilChildEnds

-----------------------------------------------------------------------------
(* Address spaces.                                                         *)

(* The directory loaded for slot p whose video window shows page: what     *)
(* new_page_directory wrote, and the window's entry once there is one.     *)
IsDirectory(dir, p, page) ==
  /\ DOMAIN dir = {LOW, KERNEL_LOC, PROGRAM_IMAGE} \cup
                    IF page = NOT_MAPPED THEN {} ELSE {USER_PAGE_BOTTOM}
  /\ dir[LOW] = to_table("first_4MB", FALSE)
  /\ dir[KERNEL_LOC] = page_4MB(KERNEL_LOC, FALSE)
  /\ dir[PROGRAM_IMAGE] = page_4MB(p + 1, TRUE)
  /\ page # NOT_MAPPED =>
       dir[USER_PAGE_BOTTOM] = to_table("video_page_tables", TRUE)

(* Every process's directory and tables are its own, show the page that    *)
(* Kernel says it sees, and are what the CPU uses while it runs.           *)
PagingInv ==
  /\ cr3 = CPID
  /\ loaded = CPID
  /\ tlb = [dir |-> pageDir[CPID], first_4MB |-> first_4MB[CPID],
            video_page_tables |-> video_page_tables[CPID]]
  /\ DOMAIN pageDir = PIDs
  /\ DOMAIN first_4MB = PIDs
  /\ DOMAIN video_page_tables = PIDs
  /\ \A p \in PIDs : DOMAIN video_page_tables[p] \subseteq {0}
  /\ \A p \in Live :
       /\ IsDirectory(pageDir[p], p, user_video[p])
       /\ first_4MB[p] = identity
       /\ user_video[p] # NOT_MAPPED =>
            /\ DOMAIN video_page_tables[p] = {0}
            /\ video_page_tables[p][0] = page_4KB(page_number(user_video[p]), TRUE)
  /\ ~Booted => pageDir[CPID] = kernel_part(absent) /\ first_4MB[CPID] = identity

(* Every step with the page tables is a step of Kernel.                    *)
LEMMA AllNextIsNext ==
  ASSUME AllNext
  PROVE  Next
<1>1. CASE starts
  BY <1>1 DEF starts, Next, UserStep, keyboardHandler, key_alt_f
<1>2. CASE ends
  BY <1>2 DEF ends, Next, UserStep, keyboardHandler
<1>3. CASE switches
  BY <1>3 DEF switches, Next
<1>4. CASE maps
  BY <1>4 DEF maps, Next, UserStep
<1>5. CASE others
  BY <1>5 DEF others, Next, UserStep, keyboardHandler, key_alt_f
<1> QED
  BY <1>1, <1>2, <1>3, <1>4, <1>5 DEF AllNext

(* After a step some program has the CPU.                                  *)
LEMMA NextBooted ==
  ASSUME TreeInv, AllNext
  PROVE  Booted'
<1>1. Next
  BY AllNextIsNext
<1>2. TypeOK'
  BY <1>1, TypeStep DEF TreeInv
<1> QED
  BY <1>1, <1>2, TreeStep

(* What holds of the kernel holds of the kernel with its page tables.      *)
LEMMA AllSpecIsSpec == AllSpec => Spec
<1>1. AllInit => Init
  BY DEF AllInit
<1>2. [AllNext]_all_vars => [Next]_vars
  BY AllNextIsNext, Zenon DEF all_vars
<1> QED
  BY <1>1, <1>2, PTL DEF AllSpec, Spec

(* new_page_directory(p) makes a directory of p's without a window.        *)
LEMMA ProcessDirectory ==
  ASSUME NEW p, NEW old
  PROVE  IsDirectory(process_directory(p, old), p, NOT_MAPPED)
<1> DEFINE low == to_table("first_4MB", FALSE)
           own == page_4MB(KERNEL_LOC, FALSE)
           image == page_4MB(p + 1, TRUE)
           one == with_entry(absent, LOW, low)
           two == with_entry(one, KERNEL_LOC, own)
           dir == with_entry(two, PROGRAM_IMAGE, image)
<1> HIDE DEF low, own, image
<1>1. DOMAIN one = {LOW} /\ one[LOW] = low
  BY DEF with_entry, absent
<1> HIDE DEF one
<1>2. DOMAIN two = {LOW, KERNEL_LOC} /\ two[LOW] = low /\ two[KERNEL_LOC] = own
  BY <1>1 DEF with_entry, LOW, KERNEL_LOC
<1> HIDE DEF two
<1>3. /\ DOMAIN dir = {LOW, KERNEL_LOC, PROGRAM_IMAGE}
      /\ dir[LOW] = low /\ dir[KERNEL_LOC] = own /\ dir[PROGRAM_IMAGE] = image
  BY <1>2 DEF with_entry, LOW, KERNEL_LOC, PROGRAM_IMAGE
<1>4. process_directory(p, old) = dir
  BY Zenon DEF process_directory, kernel_part, two, one, low, own, image
<1> HIDE DEF dir
<1>5. DOMAIN dir = {LOW, KERNEL_LOC, PROGRAM_IMAGE} \cup {}
  BY <1>3
<1> QED
  BY <1>3, <1>4, <1>5, Zenon DEF IsDirectory, low, own, image

(* An entry for the window is added to the directory, or written again.    *)
LEMMA WithWindow ==
  ASSUME NEW dir, NEW p, NEW old, NEW page, page # NOT_MAPPED,
         IsDirectory(dir, p, old)
  PROVE  IsDirectory(with_entry(dir, USER_PAGE_BOTTOM,
                                to_table("video_page_tables", TRUE)), p, page)
<1> DEFINE e == to_table("video_page_tables", TRUE)
           new == with_entry(dir, USER_PAGE_BOTTOM, e)
<1>1. /\ DOMAIN new = DOMAIN dir \cup {USER_PAGE_BOTTOM}
      /\ new[USER_PAGE_BOTTOM] = e
      /\ \A j \in DOMAIN dir : j # USER_PAGE_BOTTOM => new[j] = dir[j]
  BY DEF with_entry
<1> HIDE DEF e, new
<1>2. /\ DOMAIN new = {LOW, KERNEL_LOC, PROGRAM_IMAGE} \cup {USER_PAGE_BOTTOM}
      /\ {LOW, KERNEL_LOC, PROGRAM_IMAGE} \subseteq DOMAIN dir
  BY <1>1 DEF IsDirectory
<1>3. /\ new[LOW] = dir[LOW]
      /\ new[KERNEL_LOC] = dir[KERNEL_LOC]
      /\ new[PROGRAM_IMAGE] = dir[PROGRAM_IMAGE]
  BY <1>1, <1>2 DEF LOW, KERNEL_LOC, PROGRAM_IMAGE, USER_PAGE_BOTTOM
<1>4. IsDirectory(new, p, page)
  BY <1>1, <1>2, <1>3 DEF IsDirectory, e
<1> QED
  BY <1>4 DEF new, e

(* A process p enters with a directory made for it.                        *)
LEMMA EntersNew ==
  ASSUME PagingInv, TypeOK, Booted', NEW p \in PIDs,
         CPID' = p, cr3' = p, Live' \subseteq Live \cup {p},
         user_video' = [user_video EXCEPT ![p] = NOT_MAPPED],
         new_page_directory(p)
  PROVE  PagingInv'
<1>1. /\ pageDir' = [pageDir EXCEPT ![p] = process_directory(p, pageDir[p])]
      /\ first_4MB' = [first_4MB EXCEPT ![p] = identity]
      /\ video_page_tables' = video_page_tables
      /\ loaded' = p
      /\ tlb' = [dir |-> pageDir'[p], first_4MB |-> first_4MB'[p],
                 video_page_tables |-> video_page_tables'[p]]
  BY Zenon DEF new_page_directory, loadPageDir
<1>2. /\ pageDir'[p] = process_directory(p, pageDir[p])
      /\ first_4MB'[p] = identity
      /\ user_video'[p] = NOT_MAPPED
      /\ \A q \in Live' \ {p} : /\ q \in Live
                                /\ pageDir'[q] = pageDir[q]
                                /\ first_4MB'[q] = first_4MB[q]
                                /\ user_video'[q] = user_video[q]
  <2>1. /\ pageDir'[p] = process_directory(p, pageDir[p])
        /\ \A q \in PIDs : q # p => pageDir'[q] = pageDir[q]
    BY <1>1, Zenon DEF PagingInv
  <2>2. /\ first_4MB'[p] = identity
        /\ \A q \in PIDs : q # p => first_4MB'[q] = first_4MB[q]
    BY <1>1, Zenon DEF PagingInv
  <2>3. /\ user_video'[p] = NOT_MAPPED
        /\ \A q \in PIDs : q # p => user_video'[q] = user_video[q]
    BY DEF TypeOK
  <2>4. \A q \in Live' \ {p} : q \in Live /\ q \in PIDs
    BY LiveTypes
  <2> QED
    BY <2>1, <2>2, <2>3, <2>4, Zenon
<1>3. IsDirectory(pageDir'[p], p, user_video'[p])
  <2>1. IsDirectory(process_directory(p, pageDir[p]), p, NOT_MAPPED)
    BY ProcessDirectory, Zenon
  <2> QED
    BY <1>2, <2>1, Zenon
<1>4. \A q \in Live' :
       /\ IsDirectory(pageDir'[q], q, user_video'[q])
       /\ first_4MB'[q] = identity
       /\ user_video'[q] # NOT_MAPPED =>
            /\ DOMAIN video_page_tables'[q] = {0}
            /\ video_page_tables'[q][0] = page_4KB(page_number(user_video'[q]), TRUE)
  <2> SUFFICES ASSUME NEW q \in Live'
               PROVE  /\ IsDirectory(pageDir'[q], q, user_video'[q])
                      /\ first_4MB'[q] = identity
                      /\ user_video'[q] # NOT_MAPPED =>
                           /\ DOMAIN video_page_tables'[q] = {0}
                           /\ video_page_tables'[q][0] =
                                page_4KB(page_number(user_video'[q]), TRUE)
    BY Zenon
  <2>1. CASE q = p
    BY <1>2, <1>3, <2>1, Zenon
  <2>2. CASE q # p
    <3>1. /\ q \in Live /\ pageDir'[q] = pageDir[q]
          /\ first_4MB'[q] = first_4MB[q] /\ user_video'[q] = user_video[q]
          /\ video_page_tables'[q] = video_page_tables[q]
      BY <1>1, <1>2, <2>2, Zenon
    <3>2. /\ IsDirectory(pageDir[q], q, user_video[q])
          /\ first_4MB[q] = identity
          /\ user_video[q] # NOT_MAPPED =>
               /\ DOMAIN video_page_tables[q] = {0}
               /\ video_page_tables[q][0] = page_4KB(page_number(user_video[q]), TRUE)
      BY <3>1, Zenon DEF PagingInv
    <3> QED
      BY <3>1, <3>2, Zenon
  <2> QED
    BY <2>1, <2>2, Zenon
<1> QED
  BY <1>1, <1>4, Zenon DEF PagingInv, page_number, identity, Ptes

(* A process goes on with the directory it has.                            *)
LEMMA EntersOld ==
  ASSUME PagingInv, Booted', cr3' = CPID', Live' \subseteq Live,
         user_video' = user_video, swap_pages(CPID')
  PROVE  PagingInv'
BY Zenon
   DEF PagingInv, swap_pages, loadPageDir, tables, page_number, identity, Ptes

(* Windows of live processes are written, and a live process goes on.      *)
LEMMA EntersMapped ==
  ASSUME PagingInv, TypeOK, Booted', cr3' = CPID', Live' = Live,
         NEW S \in SUBSET Live, NEW page,
         \A p \in S : /\ page[p] = page_number(user_video'[p])
                      /\ user_video'[p] # NOT_MAPPED,
         \A p \in Live \ S : user_video'[p] = user_video[p],
         new_page_directory_entries(S, page), loadPageDir(CPID')
  PROVE  PagingInv'
<1>0. Directories = PIDs /\ Live \subseteq PIDs
  BY PagingAssumption, LiveTypes
<1>1. /\ first_4MB' = first_4MB
      /\ loaded' = CPID'
      /\ tlb' = [dir |-> pageDir'[CPID'], first_4MB |-> first_4MB'[CPID'],
                 video_page_tables |-> video_page_tables'[CPID']]
      /\ DOMAIN pageDir' = PIDs
      /\ DOMAIN video_page_tables' = PIDs
  BY <1>0, Zenon DEF new_page_directory_entries, loadPageDir
<1>2. \A p \in PIDs \ S : pageDir'[p] = pageDir[p]
                          /\ video_page_tables'[p] = video_page_tables[p]
  BY <1>0 DEF new_page_directory_entries
<1>3. ASSUME NEW p \in S
      PROVE  /\ IsDirectory(pageDir'[p], p, user_video'[p])
             /\ DOMAIN video_page_tables'[p] = {0}
             /\ video_page_tables'[p][0] = page_4KB(page_number(user_video'[p]), TRUE)
  <2>1. /\ pageDir'[p] = with_entry(pageDir[p], USER_PAGE_BOTTOM,
                                    to_table("video_page_tables", TRUE))
        /\ video_page_tables'[p] =
             with_entry(video_page_tables[p], 0, page_4KB(page[p], TRUE))
    BY <1>0, Zenon DEF new_page_directory_entries
  <2>2. IsDirectory(pageDir[p], p, user_video[p])
    BY Zenon DEF PagingInv
  <2>3. IsDirectory(pageDir'[p], p, user_video'[p])
    BY <2>1, <2>2, WithWindow, Zenon
  <2>4. DOMAIN video_page_tables[p] \subseteq {0}
    BY <1>0 DEF PagingInv
  <2>5. page_4KB(page[p], TRUE) = page_4KB(page_number(user_video'[p]), TRUE)
    BY Zenon
  <2>6. DOMAIN video_page_tables'[p] = {0}
    BY <2>1, <2>4 DEF with_entry
  <2>7. video_page_tables'[p][0] = page_4KB(page[p], TRUE)
    BY <2>1 DEF with_entry
  <2> QED
    BY <2>3, <2>5, <2>6, <2>7, Zenon
<1>4. ASSUME NEW p \in Live \ S
      PROVE  /\ IsDirectory(pageDir'[p], p, user_video'[p])
             /\ user_video'[p] # NOT_MAPPED =>
                  /\ DOMAIN video_page_tables'[p] = {0}
                  /\ video_page_tables'[p][0] =
                       page_4KB(page_number(user_video'[p]), TRUE)
  BY <1>0, <1>2, Zenon DEF PagingInv
<1>5. \A p \in PIDs : DOMAIN video_page_tables'[p] \subseteq {0}
  BY <1>2, <1>3, Zenon DEF PagingInv
<1>6. \A p \in Live : first_4MB'[p] = identity
  BY <1>1, Zenon DEF PagingInv
<1>7. \A p \in Live' :
       /\ IsDirectory(pageDir'[p], p, user_video'[p])
       /\ first_4MB'[p] = identity
       /\ user_video'[p] # NOT_MAPPED =>
            /\ DOMAIN video_page_tables'[p] = {0}
            /\ video_page_tables'[p][0] = page_4KB(page_number(user_video'[p]), TRUE)
  BY <1>3, <1>4, <1>6, Zenon
<1> QED
  BY <1>1, <1>5, <1>7, Zenon DEF PagingInv, page_number, identity, Ptes

(* What execute_base_shell does to the slot it takes.                      *)
LEMMA BaseShellEnters ==
  ASSUME NEW t, NEW run \in SUBSET running, NEW act, NEW arg, NEW swf,
         execute_base_shell(t, run, act, arg, swf)
  PROVE  /\ CPID' \in PIDs /\ cr3' = CPID'
         /\ Live' \subseteq Live \cup {CPID'}
         /\ user_video' = [user_video EXCEPT ![CPID'] = NOT_MAPPED]
BY DEF execute_base_shell, enter, Live

(* Steps that leave the tables and the windows alone.                      *)
LEMMA SamePaging ==
  ASSUME PagingInv, Booted' <=> Booted,
         UNCHANGED <<CPID, cr3, running, user_video, paging_vars>>
  PROVE  PagingInv'
BY Zenon DEF PagingInv, paging_vars, tables, Live, page_number, identity, Ptes

(* Every step keeps the invariant of the page tables.                      *)
LEMMA PagingStep ==
  ASSUME TreeInv, PagingInv, AllNext
  PROVE  PagingInv'
<1> USE DEF pcb_vars, video_vars, map_vars, cpu_vars, frame_vars
<1>0. /\ TypeOK /\ 0 \in running /\ ActiveLive
      /\ Booted => CPID \in Live /\ CPID \in PIDs
  BY LiveTypes DEF TreeInv, ProcessTree
<1>1. CASE starts
  <2>1. CASE Boot
    BY <1>0, <1>1, <2>1, BaseShellEnters, EntersNew, NextBooted
       DEF starts, Boot
  <2>2. ASSUME NEW file \in Programs, NEW a \in Args \cup {NoArgs},
               execute(file, a)
        PROVE  PagingInv'
    <3>1. /\ CPID' \in PIDs /\ cr3' = CPID'
          /\ Live' \subseteq Live \cup {CPID'}
          /\ user_video' = [user_video EXCEPT ![CPID'] = NOT_MAPPED]
      BY <2>2 DEF execute, Live
    <3> QED
      BY <1>0, <1>1, <2>2, <3>1, EntersNew, NextBooted, Zenon DEF starts
  <2>3. ASSUME NEW t \in Terminals, terminal_switch_new(t)
        PROVE  PagingInv'
    BY <1>0, <1>1, <2>3, BaseShellEnters, EntersNew, NextBooted
       DEF starts, terminal_switch_new
  <2> QED
    BY <1>1, <2>1, <2>2, <2>3 DEF starts
<1>2. CASE ends
  <2>1. exception_halt
    BY <1>2 DEF ends, halt, exception, pitHandler, task_switch_halts,
                task_switch_switches, key_ctrl_c
  <2>2. CASE resume_parent
    <3>1. /\ cr3' = CPID' /\ Live' \subseteq Live /\ user_video' = user_video
          /\ PPID[CPID] # 0
      BY <2>2 DEF resume_parent, enter, Live
    <3> QED
      BY <1>2, <3>1, EntersOld, NextBooted DEF ends
  <2>3. CASE restart_shell
    <3>1. running \ {CPID} \subseteq running
      OBVIOUS
    <3>2. /\ CPID' \in PIDs /\ cr3' = CPID'
          /\ Live' \subseteq Live \cup {CPID'}
          /\ user_video' = [user_video EXCEPT ![CPID'] = NOT_MAPPED]
          /\ PPID[CPID] = 0
      BY <2>3, <3>1, BaseShellEnters, Zenon DEF restart_shell
    <3> QED
      BY <1>0, <1>2, <3>2, EntersNew, NextBooted, Zenon DEF ends
  <2> QED
    BY <2>1, <2>2, <2>3, Zenon DEF exception_halt
<1>3. CASE switches
  <2>0. Booted /\ task_switch_switches
    BY <1>3 DEF switches, pitHandler, task_switch_halts, TreeInv
  <2>1. PICK t \in Terminals : task_switch_switches!2!(t)
    BY <2>0, Zenon DEF task_switch_switches
  <2> DEFINE new == active_processes[t]
  <2>2. /\ new # 0 /\ CPID' = new /\ cr3' = new
        /\ running' = running
        /\ user_video' = remapped(CPID, new)
    BY <2>0, <2>1, Zenon DEF task_switch_switches, next_terminal, enter
  <2>3. new \in Live /\ Live' = Live
    BY <1>0, <2>2 DEF ActiveLive, Live
  <2> DEFINE S == windows(CPID, new)
             page == [p \in Directories |-> page_number(right_page(p, cur_terminal))]
  <2>4. S \subseteq Live
    BY <1>0, <2>0, <2>3 DEF windows
  <2>5. \A p \in S : /\ page[p] = page_number(user_video'[p])
                     /\ user_video'[p] # NOT_MAPPED
    <3> SUFFICES ASSUME NEW p \in S
                 PROVE  /\ page[p] = page_number(user_video'[p])
                        /\ user_video'[p] # NOT_MAPPED
      OBVIOUS
    <3>1. p \in PIDs /\ p \in Directories /\ cur_terminal \in Terminals
      BY <1>0, <2>4, LiveTypes, PagingAssumption DEF TypeOK
    <3>2. user_video'[p] = right_page(p, cur_terminal)
      BY <2>2, <3>1 DEF remapped
    <3>3. right_page(p, cur_terminal) # NOT_MAPPED
      BY <1>0, <3>1, RightPageType, ConstantFacts
    <3> QED
      BY <3>1, <3>2, <3>3
  <2>6. \A p \in Live \ S : user_video'[p] = user_video[p]
    BY <1>0, <2>2, LiveTypes DEF remapped
  <2>7. new_page_directory_entries(S, page) /\ loadPageDir(CPID')
    BY <1>3, <2>2 DEF switches
  <2> HIDE DEF S, page
  <2> QED
    BY <1>0, <1>3, <2>2, <2>3, <2>4, <2>5, <2>6, <2>7, EntersMapped,
       NextBooted
<1>4. CASE maps
  <2>1. /\ Booted /\ vidmap_page[CPID] # NOT_MAPPED
        /\ CPID' = CPID /\ cr3' = CPID /\ running' = running
        /\ user_video' = [user_video EXCEPT ![CPID] = vidmap_page[CPID]]
    BY <1>4 DEF maps, vidmap_map
  <2> DEFINE page == [p \in {CPID} |-> page_number(vidmap_page[CPID])]
  <2>2. /\ user_video'[CPID] = vidmap_page[CPID]
        /\ page[CPID] = page_number(vidmap_page[CPID])
        /\ \A p \in Live \ {CPID} : user_video'[p] = user_video[p]
    BY <1>0, <2>1, LiveTypes DEF TypeOK
  <2>3. new_page_directory_entries({CPID}, page) /\ loadPageDir(CPID')
    BY <1>4, <2>1 DEF maps
  <2>4. Live' = Live /\ {CPID} \subseteq Live
    BY <1>0, <2>1 DEF Live
  <2> HIDE DEF page
  <2> QED
    BY <1>0, <1>4, <2>1, <2>2, <2>3, <2>4, EntersMapped, NextBooted
<1>5. CASE others
  <2>1. Booted /\ UNCHANGED <<CPID, cr3, running, user_video, paging_vars>>
    BY <1>5 DEF others, vidmap_choose, InUserMode, key_ctrl_c, key_other,
                terminal_switch_same, terminal_switch_live
  <2> QED
    BY <1>5, <2>1, SamePaging, NextBooted
<1> QED
  BY <1>1, <1>2, <1>3, <1>4, <1>5 DEF AllNext

(* Kernel's invariant and the one about the tables hold in every state.    *)
THEOREM PagingInvariant == AllSpec => [](TreeInv /\ PagingInv)
<1>1. AllInit => PagingInv
  <2> SUFFICES ASSUME AllInit PROVE PagingInv
    OBVIOUS
  <2>1. /\ Directories = PIDs /\ 0 \in PIDs
        /\ CPID = 0 /\ cr3 = 0 /\ loaded = 0 /\ Live = {}
    BY PagingAssumption, ConstantFacts
       DEF AllInit, Init, syscalls_init, paging_init, Live
  <2>2. /\ pageDir = [p \in PIDs |-> IF p = 0 THEN kernel_part(absent) ELSE absent]
        /\ first_4MB = [p \in PIDs |-> IF p = 0 THEN identity ELSE absent]
        /\ video_page_tables = [p \in PIDs |-> absent]
        /\ tlb = [dir |-> kernel_part(absent), first_4MB |-> identity,
                  video_page_tables |-> absent]
    BY <2>1 DEF AllInit, paging_init
  <2>3. DOMAIN absent = {}
    BY DEF absent
  <2> QED
    BY <2>1, <2>2, <2>3 DEF PagingInv
<1>2. TreeInv /\ PagingInv /\ [AllNext]_all_vars => PagingInv'
  <2>1. ASSUME PagingInv, UNCHANGED all_vars
        PROVE  PagingInv'
    BY <2>1, SamePaging
       DEF all_vars, vars, pcb_vars, map_vars, cpu_vars, Booted
  <2> QED
    BY <2>1, PagingStep
<1>3. AllSpec => []TreeInv
  BY AllSpecIsSpec, TreeInvariant, PTL
<1> QED
  BY <1>1, <1>2, <1>3, PTL DEF AllSpec

(* What the CPU has for directory entry d, and as one of its tables.       *)
EntryIs(d, e) == d \in DOMAIN tlb.dir /\ tlb.dir[d] = e
TableIs(name, t) == name # "none" /\ tlb[name] = t

(* What a translation says.                                                *)
Says(d, i, user, region, page) ==
  /\ Translation(d, i) = [user |-> user, frame |-> <<region, page>>]
  /\ Translation(d, i).user = user
  /\ Translation(d, i).frame = <<region, page>>

(* What the fields of a translation are.                                   *)
LEMMA TranslationFields ==
  ASSUME NEW d, NEW i, NEW u, NEW r, NEW n,
         Translation(d, i) = [user |-> u, frame |-> <<r, n>>]
  PROVE  Says(d, i, u, r, n)
<1>1. [user |-> u, frame |-> <<r, n>>].user = u
      /\ [user |-> u, frame |-> <<r, n>>].frame = <<r, n>>
  OBVIOUS
<1> QED
  BY <1>1, Zenon DEF Says

(* A 4 MB page is mapped, to its region.                                   *)
LEMMA TranslatesRegion ==
  ASSUME NEW d, NEW r, NEW u, NEW i, EntryIs(d, page_4MB(r, u))
  PROVE  Mapped(d, i) /\ Says(d, i, u, r, i)
<1>1. /\ page_4MB(r, u).table = "none"
      /\ page_4MB(r, u).user = u
      /\ page_4MB(r, u).region = r
  BY DEF page_4MB
<1>2. /\ tlb.dir[d].table = "none" /\ tlb.dir[d].user = u
      /\ tlb.dir[d].region = r /\ d \in DOMAIN tlb.dir
  BY <1>1, Zenon DEF EntryIs
<1>3. Translation(d, i) = [user |-> u, frame |-> <<r, i>>]
  BY <1>2, Zenon DEF Translation
<1> QED
  BY <1>2, <1>3, TranslationFields, Zenon DEF Mapped

(* What a table of the directory maps, and where to.                       *)
LEMMA TranslatesTable ==
  ASSUME NEW d, NEW name, NEW u, NEW t, NEW i, TableIs(name, t),
         EntryIs(d, to_table(name, u))
  PROVE  /\ Mapped(d, i) <=> i \in DOMAIN t
         /\ Says(d, i, u /\ t[i].user, 0, t[i].page)
<1>1. to_table(name, u).table = name /\ to_table(name, u).user = u
  BY DEF to_table
<1>2. /\ tlb.dir[d].table = name /\ tlb.dir[d].user = u
      /\ d \in DOMAIN tlb.dir /\ name # "none" /\ tlb[name] = t
  BY <1>1, Zenon DEF EntryIs, TableIs
<1>3. Translation(d, i) = [user |-> u /\ t[i].user, frame |-> <<0, t[i].page>>]
  BY <1>2, Zenon DEF Translation
<1> QED
  BY <1>2, <1>3, TranslationFields, Zenon DEF Mapped

(* The table of the first 4 MB.                                            *)
LEMMA IdentityTable ==
  /\ DOMAIN identity = Ptes \ {0}
  /\ \A i \in Ptes \ {0} : identity[i].page = i /\ identity[i].user = FALSE
BY DEF identity, page_4KB

(* Whatever directory is loaded, the kernel finds itself and the video     *)
(* pages where they are, and nothing at page 0.                            *)
THEOREM KernelSpaceCorrect == AllSpec => []KernelSpace
<1>1. ASSUME TreeInv, PagingInv
      PROVE  KernelSpace
  <2>1. TableIs("first_4MB", identity)
    BY <1>1, Zenon DEF PagingInv, TreeInv, TableIs
  <2>2. /\ EntryIs(LOW, to_table("first_4MB", FALSE))
        /\ EntryIs(KERNEL_LOC, page_4MB(KERNEL_LOC, FALSE))
    <3>1. CASE Booted
      <4>1. IsDirectory(tlb.dir, CPID, user_video[CPID])
        BY <1>1, <3>1, Zenon DEF PagingInv, TreeInv
      <4> QED
        BY <4>1, Zenon DEF IsDirectory, EntryIs
    <3>2. CASE ~Booted
      <4>1. tlb.dir = kernel_part(absent)
        BY <1>1, <3>2, Zenon DEF PagingInv
      <4>2. /\ LOW \in DOMAIN kernel_part(absent)
            /\ KERNEL_LOC \in DOMAIN kernel_part(absent)
            /\ kernel_part(absent)[LOW] = to_table("first_4MB", FALSE)
            /\ kernel_part(absent)[KERNEL_LOC] = page_4MB(KERNEL_LOC, FALSE)
        BY DEF kernel_part, with_entry, LOW, KERNEL_LOC
      <4> QED
        BY <4>1, <4>2, Zenon DEF EntryIs
    <3> QED
      BY <3>1, <3>2, Zenon
  <2>3. \A i : Mapped(KERNEL_LOC, i) /\ Says(KERNEL_LOC, i, FALSE, KERNEL_LOC, i)
    BY <2>2, TranslatesRegion, Zenon
  <2>4. \A i : /\ Mapped(LOW, i) <=> i \in DOMAIN identity
               /\ Says(LOW, i, FALSE /\ identity[i].user, 0, identity[i].page)
    BY <2>1, <2>2, TranslatesTable, Zenon
  <2>5. \A i \in Ptes \ {0} : Mapped(LOW, i) /\
          Translation(LOW, i) = [user |-> FALSE, frame |-> <<0, i>>]
    <3>1. \A i : Translation(LOW, i) = [user |-> FALSE, frame |-> <<0, identity[i].page>>]
      BY <2>4, Zenon DEF Says
    <3> QED
      BY <2>4, <3>1, IdentityTable, Zenon
  <2>6. ~Mapped(LOW, 0)
    BY <2>4, IdentityTable, Zenon
  <2> QED
    BY <1>1, <2>3, <2>5, <2>6, Zenon DEF KernelSpace, PagingInv, Says
<1> QED
  BY <1>1, PagingInvariant, PTL

(* A program sees its own image and the video page that is its own, and    *)
(* nothing else.                                                           *)
THEOREM UserSpaceCorrect == AllSpec => []UserSpace
<1>1. ASSUME TreeInv, PagingInv, Booted
      PROVE  {<<v, Translation(v[1], v[2]).frame>> : v \in UserPages} =
               {<<<<PROGRAM_IMAGE, i>>, <<CPID + 1, i>>>> : i \in Ptes}
               \cup IF user_video[CPID] = NOT_MAPPED THEN {}
                    ELSE {<<<<USER_PAGE_BOTTOM, 0>>,
                            <<0, page_number(user_video[CPID])>>>>}
  <2> DEFINE page == user_video[CPID]
             usable(d, i) == Mapped(d, i) /\ Translation(d, i).user
             frame(d, i) == Translation(d, i).frame
  <2>1. /\ tlb.first_4MB = identity
        /\ IsDirectory(tlb.dir, CPID, page)
        /\ page # NOT_MAPPED =>
             /\ DOMAIN tlb.video_page_tables = {0}
             /\ tlb.video_page_tables[0] = page_4KB(page_number(page), TRUE)
    BY <1>1, Zenon DEF PagingInv, TreeInv
  <2>2. /\ EntryIs(LOW, to_table("first_4MB", FALSE))
        /\ EntryIs(KERNEL_LOC, page_4MB(KERNEL_LOC, FALSE))
        /\ EntryIs(PROGRAM_IMAGE, page_4MB(CPID + 1, TRUE))
        /\ page # NOT_MAPPED =>
             EntryIs(USER_PAGE_BOTTOM, to_table("video_page_tables", TRUE))
    BY <2>1, Zenon DEF IsDirectory, EntryIs
  <2>3. /\ TableIs("first_4MB", identity)
        /\ TableIs("video_page_tables", tlb.video_page_tables)
    BY <2>1 DEF TableIs
  <2>4. \A i : ~usable(LOW, i) /\ ~usable(KERNEL_LOC, i)
    <3>1. \A i : Says(LOW, i, FALSE /\ identity[i].user, 0, identity[i].page)
      BY <2>2, <2>3, TranslatesTable, Zenon
    <3>2. \A i : Says(KERNEL_LOC, i, FALSE, KERNEL_LOC, i)
      BY <2>2, TranslatesRegion, Zenon
    <3> QED
      BY <3>1, <3>2, Zenon DEF Says
  <2>5. \A i : usable(PROGRAM_IMAGE, i) /\ frame(PROGRAM_IMAGE, i) = <<CPID + 1, i>>
    <3>1. \A i : Mapped(PROGRAM_IMAGE, i) /\ Says(PROGRAM_IMAGE, i, TRUE, CPID + 1, i)
      BY <2>2, TranslatesRegion, Zenon
    <3> QED
      BY <3>1, Zenon DEF Says
  <2>6. ASSUME page # NOT_MAPPED
        PROVE  /\ \A i : usable(USER_PAGE_BOTTOM, i) <=> i = 0
               /\ frame(USER_PAGE_BOTTOM, 0) = <<0, page_number(page)>>
    <3> DEFINE t == tlb.video_page_tables
    <3>1. \A i : /\ Mapped(USER_PAGE_BOTTOM, i) <=> i \in DOMAIN t
                 /\ Says(USER_PAGE_BOTTOM, i, TRUE /\ t[i].user, 0, t[i].page)
      BY <2>2, <2>3, <2>6, TranslatesTable, Zenon
    <3>2. DOMAIN t = {0} /\ t[0].user = TRUE /\ t[0].page = page_number(page)
      BY <2>1, <2>6 DEF page_4KB
    <3> QED
      BY <3>1, <3>2, Zenon DEF Says
  <2>7. UserPages = {v \in (DOMAIN tlb.dir) \X Ptes : usable(v[1], v[2])}
    BY DEF UserPages
  <2>8. 0 \in Ptes
    BY PagingAssumption, ConstantsAssumption DEF Ptes
  <2> HIDE DEF usable, frame
  <2>9. CASE page = NOT_MAPPED
    <3>1. DOMAIN tlb.dir = {LOW, KERNEL_LOC, PROGRAM_IMAGE}
      BY <2>1, <2>9 DEF IsDirectory
    <3>2. UserPages = {<<PROGRAM_IMAGE, i>> : i \in Ptes}
      BY <2>4, <2>5, <2>7, <3>1
    <3>3. {<<v, frame(v[1], v[2])>> : v \in UserPages} =
            {<<<<PROGRAM_IMAGE, i>>, <<CPID + 1, i>>>> : i \in Ptes}
      BY <2>5, <3>2
    <3> QED
      BY <2>9, <3>3 DEF frame
  <2>10. CASE page # NOT_MAPPED
    <3>1. DOMAIN tlb.dir = {LOW, KERNEL_LOC, PROGRAM_IMAGE, USER_PAGE_BOTTOM}
      BY <2>1, <2>10 DEF IsDirectory
    <3>2. UserPages = {<<PROGRAM_IMAGE, i>> : i \in Ptes}
                      \cup {<<USER_PAGE_BOTTOM, 0>>}
      BY <2>4, <2>5, <2>6, <2>7, <2>8, <2>10, <3>1
    <3>3. {<<v, frame(v[1], v[2])>> : v \in UserPages} =
            {<<<<PROGRAM_IMAGE, i>>, <<CPID + 1, i>>>> : i \in Ptes}
            \cup {<<<<USER_PAGE_BOTTOM, 0>>, <<0, page_number(page)>>>>}
      BY <2>5, <2>6, <2>10, <3>2
    <3> QED
      BY <2>10, <3>3 DEF frame
  <2> QED
    BY <2>9, <2>10
<1>2. TreeInv /\ PagingInv => UserSpace
  BY <1>1 DEF UserSpace
<1> QED
  BY <1>2, PagingInvariant, PTL
=============================================================================
