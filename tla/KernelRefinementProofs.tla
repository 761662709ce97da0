----------------------- MODULE KernelRefinementProofs -----------------------
(***************************************************************************)
(* Module Kernel implements module TaskStacks, for every number of process *)
(* slots and terminals.                                                    *)
(***************************************************************************)
EXTENDS KernelRefinement, KernelProofs, Basics

(* The slots a process can have.                                           *)
Slots == PIDs \ {0}

(* They are numbered from 1.                                               *)
LEMMA SlotFacts ==
  /\ MAX_PROCESSES \in Nat /\ Slots = 1 .. MAX_PROCESSES
  /\ PIDs = Slots \cup {0} /\ 0 \notin Slots
BY ConstantsAssumption DEF Slots, PIDs

(* The stacks of the refinement mapping are those of the live processes.   *)
TheStacks == StacksOf(Slots, Terminals, stacks, Live, PPID, terminal, active_processes)

(* Before the first shell, terminal 0 is on the screen.                    *)
RefinementInv == TreeInv /\ TheStacks /\ (~Booted => cur_terminal = 0)

(* The processes on the stacks.                                            *)
LEMMA UsedAlive ==
  ASSUME TypeOK, TheStacks
  PROVE  Abstract!Used = Live
<1>1. \A p \in Live : terminal[p] \in Terminals
  BY DEF TypeOK, Live
<1>2. Abstract!Used \subseteq Live
  BY DEF Abstract!Used, TheStacks, StacksOf
<1>3. ASSUME NEW p \in Live PROVE p \in Abstract!Used
  BY <1>1 DEF Abstract!Used, TheStacks, StacksOf
<1> QED
  BY <1>2, <1>3

(* A terminal has a process exactly when it has an active one, on top.     *)
LEMMA TopActive ==
  ASSUME TheStacks, NEW t \in Terminals
  PROVE  /\ stacks[t] \in Seq(Slots) /\ Len(stacks[t]) \in Nat
         /\ stacks[t] = <<>> <=> active_processes[t] = 0
         /\ stacks[t] = <<>> <=> Len(stacks[t]) = 0
         /\ stacks[t] # <<>> => active_processes[t] = stacks[t][Len(stacks[t])]
         /\ stacks[t] # <<>> => PPID[stacks[t][1]] = 0
         /\ Len(stacks[t]) = 1 <=> stacks[t] # <<>> /\ PPID[active_processes[t]] = 0
<1> DEFINE s == stacks[t]
           c == active_processes[t]
<1>1. IsLine(Slots, PPID, s, c)
  BY DEF TheStacks, StacksOf
<1> HIDE DEF s, c
<1>2. /\ s \in Seq(Slots) /\ Len(s) \in Nat
      /\ c = IF s = <<>> THEN 0 ELSE s[Len(s)]
      /\ \A i \in 1 .. Len(s) : PPID[s[i]] = IF i = 1 THEN 0 ELSE s[i - 1]
      /\ \A i \in 1 .. Len(s) : s[i] # 0
      /\ s = <<>> <=> Len(s) = 0
  BY <1>1 DEF IsLine, Slots
<1>3. ASSUME s # <<>>
      PROVE  /\ PPID[s[1]] = 0 /\ c # 0
             /\ Len(s) = 1 <=> PPID[c] = 0
  <2>1. 1 \in 1 .. Len(s) /\ Len(s) \in 1 .. Len(s)
    BY <1>2, <1>3
  <2>2. Len(s) # 1 => Len(s) - 1 \in 1 .. Len(s)
    <3>1. \A n \in Nat : n # 0 /\ n # 1 => n - 1 \in 1 .. n
      OBVIOUS
    <3> QED
      BY <1>2, <1>3, <3>1, Zenon
  <2> QED
    BY <1>2, <1>3, <2>1, <2>2
<1> QED
  BY <1>2, <1>3 DEF s, c

(* The types of what the stacks are made from.                             *)
LEMMA TypedStacks ==
  ASSUME NEW live \in SUBSET Slots, NEW parent \in [PIDs -> PIDs],
         NEW term \in [PIDs -> Terminals], NEW act \in [Terminals -> PIDs]
  PROVE  StackTyped(Slots, Terminals, live, parent, term, act)
<1>1. PICK ids : ids = Slots \cup {0}
  BY Zenon
<1>2. ids = PIDs /\ 0 \notin Slots
  BY <1>1, SlotFacts, Zenon
<1>3. /\ parent \in [ids -> ids]
      /\ term \in [ids -> Terminals] /\ act \in [Terminals -> ids]
  BY <1>2, Zenon
<1> QED
  BY <1>1, <1>2, <1>3, Zenon DEF StackTyped

(* In particular in every state.                                           *)
LEMMA StackTypes ==
  ASSUME TypeOK
  PROVE  StackTyped(Slots, Terminals, Live, PPID, terminal, active_processes)
<1>1. /\ Live \in SUBSET Slots /\ PPID \in [PIDs -> PIDs]
      /\ terminal \in [PIDs -> Terminals]
      /\ active_processes \in [Terminals -> PIDs]
  BY DEF TypeOK, Live, Slots
<1> QED
  BY <1>1, TypedStacks, Zenon

(* The stacks after a step are known once something is found that lines up *)
(* the processes after it.                                                 *)
LEMMA StacksNext ==
  ASSUME TypeOK', NEW st2,
         StacksOf(Slots, Terminals, st2, Live', PPID', terminal', active_processes')
  PROVE  TheStacks' /\ stacks' = st2
<1>1. /\ Live' \in SUBSET Slots
      /\ PPID' \in [PIDs -> PIDs]
      /\ terminal' \in [PIDs -> Terminals]
      /\ active_processes' \in [Terminals -> PIDs]
  BY DEF TypeOK, Live, Slots
<1>2. st2 = [t \in Terminals |->
               chain(PPID')[MAX_PROCESSES][active_processes'[t]]]
  <2>1. StackTyped(Slots, Terminals, Live', PPID', terminal',
                   active_processes')
    BY <1>1, TypedStacks, Zenon
  <2> QED
    BY <2>1, SlotFacts, StacksFound
<1>3. stacks' = [t \in Terminals |->
                   chain(PPID')[MAX_PROCESSES][active_processes'[t]]]
  BY Zenon DEF stacks, ancestors
<1>4. stacks' = st2
  BY <1>2, <1>3
<1> QED
  BY <1>4 DEF TheStacks

(* A process is put on top of terminal t's stack.                          *)
LEMMA PushStep ==
  ASSUME TypeOK, TypeOK', TheStacks, NEW t \in Terminals, NEW p \in Slots,
         p \notin Live, Live' = Live \cup {p},
         PPID' = [PPID EXCEPT ![p] = active_processes[t]],
         terminal' = [terminal EXCEPT ![p] = t],
         active_processes' = [active_processes EXCEPT ![t] = p]
  PROVE  TheStacks' /\ stacks' = [stacks EXCEPT ![t] = Append(stacks[t], p)]
<1> DEFINE st2 == [stacks EXCEPT ![t] = Append(stacks[t], p)]
<1>1. IsPush(stacks, Live, PPID, terminal, active_processes, t, p,
             st2, Live', PPID', terminal', active_processes')
  BY DEF IsPush
<1> HIDE DEF st2
<1>2. StacksOf(Slots, Terminals, st2, Live', PPID', terminal', active_processes')
  BY <1>1, StackTypes, Pushed DEF TheStacks
<1>3. TheStacks' /\ stacks' = st2
  BY <1>2, StacksNext, Zenon
<1> QED
  BY <1>3 DEF st2

(* The process on top of terminal t's stack is taken away.                 *)
LEMMA PopStep ==
  ASSUME TypeOK, TypeOK', TheStacks, NEW t \in Terminals, stacks[t] # <<>>,
         Live' = Live \ {active_processes[t]},
         PPID' = PPID, terminal' = terminal,
         active_processes' =
           [active_processes EXCEPT ![t] = PPID[active_processes[t]]]
  PROVE  /\ TheStacks'
         /\ stacks' =
              [stacks EXCEPT ![t] = SubSeq(stacks[t], 1, Len(stacks[t]) - 1)]
<1> DEFINE st2 == [stacks EXCEPT ![t] = SubSeq(stacks[t], 1, Len(stacks[t]) - 1)]
<1>1. IsPop(stacks, Live, PPID, active_processes, t,
            st2, Live', active_processes')
  BY DEF IsPop
<1> HIDE DEF st2
<1>2. StacksOf(Slots, Terminals, st2, Live', PPID, terminal, active_processes')
  BY <1>1, StackTypes, Popped DEF TheStacks
<1>3. StacksOf(Slots, Terminals, st2, Live', PPID', terminal', active_processes')
  BY <1>2
<1>4. TheStacks' /\ stacks' = st2
  BY <1>3, StacksNext, Zenon
<1> QED
  BY <1>4 DEF st2

(* The only process of terminal t is replaced, perhaps in the same slot.   *)
LEMMA ReplaceStep ==
  ASSUME TypeOK, TypeOK', TheStacks, NEW t \in Terminals,
         Len(stacks[t]) = 1, NEW p \in Slots,
         p \notin Live \ {active_processes[t]},
         Live' = (Live \ {active_processes[t]}) \cup {p},
         PPID' = [PPID EXCEPT ![p] = 0],
         terminal' = [terminal EXCEPT ![p] = t],
         active_processes' = [active_processes EXCEPT ![t] = p]
  PROVE  TheStacks' /\ stacks' = [stacks EXCEPT ![t] = <<p>>]
<1>1. stacks[t] # <<>> /\ PPID[active_processes[t]] = 0
  BY TopActive
<1>2. stacks \in [Terminals -> Seq(Slots)]
  BY DEF TheStacks, StacksOf
<1>3. SubSeq(stacks[t], 1, Len(stacks[t]) - 1) = <<>>
  <2>1. stacks[t] \in Seq(Slots)
    BY <1>2
  <2> QED
    BY <1>1, <2>1, AllButLast
<1> DEFINE st1 == [stacks EXCEPT ![t] = <<>>]
           live1 == Live \ {active_processes[t]}
           act1 == [active_processes EXCEPT ![t] = 0]
           st2 == [stacks EXCEPT ![t] = <<p>>]
<1>4. IsPop(stacks, Live, PPID, active_processes, t, st1, live1, act1)
  BY <1>1, <1>3, Zenon DEF IsPop
<1>5. IsPush(st1, live1, PPID, terminal, act1, t, p,
             st2, Live', PPID', terminal', active_processes')
  <2>1. st1[t] = <<>> /\ act1[t] = 0
    BY <1>2, StackTypes DEF StackTyped
  <2>2. st2 = [st1 EXCEPT ![t] = Append(@, p)]
    <3>1. Append(<<>>, p) = <<p>>
      OBVIOUS
    <3> QED
      BY <1>2, <2>1, <3>1, Zenon
  <2>3. active_processes' = [act1 EXCEPT ![t] = p]
    BY StackTypes, Zenon DEF StackTyped
  <2> HIDE DEF st1, st2, act1
  <2> QED
    BY <2>1, <2>2, <2>3, Zenon DEF IsPush
<1>6. StackTyped(Slots, Terminals, live1, PPID, terminal, act1)
  BY StackTypes, ConstantFacts DEF StackTyped
<1> HIDE DEF st1, live1, act1, st2
<1>7. StacksOf(Slots, Terminals, st1, live1, PPID, terminal, act1)
  BY <1>4, StackTypes, Popped DEF TheStacks
<1>8. StacksOf(Slots, Terminals, st2, Live', PPID', terminal', active_processes')
  BY <1>5, <1>6, <1>7, Pushed, Zenon
<1>9. TheStacks' /\ stacks' = st2
  BY <1>8, StacksNext, Zenon
<1> QED
  BY <1>9 DEF st2

(* A step that leaves the processes where they are leaves the stacks.      *)
LEMMA SameStacks ==
  ASSUME TheStacks, UNCHANGED <<running, PPID, terminal, active_processes>>
  PROVE  TheStacks' /\ stacks' = stacks
<1>1. stacks' = stacks
  BY DEF stacks, ancestors
<1> QED
  BY <1>1 DEF TheStacks, Live

(* A shell is started in a terminal without processes.                     *)
LEMMA ShellStarts ==
  ASSUME RefinementInv, TypeOK', NEW t \in Terminals, active_processes[t] = 0,
         NEW act, NEW arg, NEW swf,
         execute_base_shell(t, running, act, arg, swf),
         cur_terminal' = t, ~Booted => t = cur_terminal
  PROVE  TheStacks' /\ Abstract!Start(t)
<1>0. TypeOK /\ TheStacks /\ 0 \in running /\ Booted'
  BY BaseShellTree DEF RefinementInv, TreeInv, ProcessTree
<1>1. PICK p \in PIDs : execute_base_shell(t, running, act, arg, swf)!(p)
  BY Zenon DEF execute_base_shell
<1>2. p \notin running /\ p \in Slots /\ p \notin Live
  BY <1>0, <1>1 DEF first_free, Slots, Live
<1>3. /\ Live' = Live \cup {p}
      /\ PPID' = [PPID EXCEPT ![p] = active_processes[t]]
      /\ terminal' = [terminal EXCEPT ![p] = t]
      /\ active_processes' = [active_processes EXCEPT ![t] = p]
      /\ CPID' = p
  BY <1>1, <1>2 DEF Live, Slots, enter
<1>4. TheStacks' /\ stacks' = [stacks EXCEPT ![t] = Append(stacks[t], p)]
  BY <1>0, <1>2, <1>3, PushStep, Zenon
<1>5. stacks[t] = <<>>
  BY <1>0, TopActive
<1>6. stacks' = [stacks EXCEPT ![t] = <<p>>]
  <2>1. Append(<<>>, p) = <<p>>
    OBVIOUS
  <2> QED
    BY <1>4, <1>5, <2>1
<1>7. p \in (PIDs \ {0}) \ Abstract!Used
  BY <1>0, <1>2, UsedAlive DEF Slots
<1>8. terminal'[CPID'] = t
  <2>1. p \in DOMAIN terminal
    BY <1>0, <1>2 DEF TypeOK, Slots
  <2> QED
    BY <1>3, <2>1
<1>9. Booted => terminal[CPID] # -1
  BY <1>0, ConstantFacts DEF TypeOK, Terminals
<1> QED
  BY <1>0, <1>4, <1>5, <1>6, <1>7, <1>8, <1>9, Zenon DEF Abstract!Start

(* The current process, the topmost of its terminal.                       *)
LEMMA CurrentOnTop ==
  ASSUME RefinementInv, Booted
  PROVE  /\ TypeOK /\ TheStacks /\ CPID \in Live /\ CPID \in Slots
         /\ terminal[CPID] \in Terminals
         /\ active_processes[terminal[CPID]] = CPID
         /\ stacks[terminal[CPID]] # <<>>
<1>1. /\ TypeOK /\ TheStacks /\ CPID \in Live
      /\ active_processes[terminal[CPID]] = CPID
  BY DEF RefinementInv, TreeInv
<1>2. terminal[CPID] \in Terminals /\ CPID # 0 /\ CPID \in Slots
  BY <1>1 DEF TypeOK, Live, Slots
<1> QED
  BY <1>1, <1>2, TopActive, Zenon

(* execute is TaskStacks's Call.                                           *)
LEMMA ExecuteCalls ==
  ASSUME RefinementInv, TypeOK', Booted', NEW file, NEW a, execute(file, a)
  PROVE  TheStacks' /\ Abstract!Call
<1>0. Booted /\ cur_terminal' = cur_terminal
  BY DEF execute, InUserMode, video_vars
<1> DEFINE t == terminal[CPID]
<1>1. /\ TypeOK /\ TheStacks /\ t \in Terminals
      /\ active_processes[t] = CPID /\ 0 \in running
  BY <1>0, CurrentOnTop DEF RefinementInv, TreeInv, ProcessTree
<1>2. PICK p \in PIDs : execute(file, a)!2!(p)
  BY Zenon DEF execute
<1>3. p \notin running /\ p \in Slots /\ p \notin Live
  BY <1>1, <1>2 DEF first_free, Slots, Live
<1>4. /\ Live' = Live \cup {p}
      /\ PPID' = [PPID EXCEPT ![p] = active_processes[t]]
      /\ terminal' = [terminal EXCEPT ![p] = t]
      /\ active_processes' = [active_processes EXCEPT ![t] = p]
      /\ CPID' = p
  BY <1>1, <1>2, <1>3 DEF Live, Slots
<1>5. TheStacks' /\ stacks' = [stacks EXCEPT ![t] = Append(stacks[t], p)]
  BY <1>1, <1>3, <1>4, PushStep, Zenon
<1>6. p \in (PIDs \ {0}) \ Abstract!Used
  BY <1>1, <1>3, UsedAlive DEF Slots
<1>7. terminal'[CPID'] = t
  BY <1>1, <1>4 DEF TypeOK
<1> HIDE DEF t
<1>8. t = terminal[CPID]
  BY DEF t
<1> QED
  BY <1>0, <1>1, <1>5, <1>6, <1>7, <1>8, Zenon DEF Abstract!Call

(* The end of the current process is TaskStacks's Return.                  *)
LEMMA HaltReturns ==
  ASSUME RefinementInv, TypeOK', Booted, Booted', exception_halt,
         cur_terminal' = cur_terminal
  PROVE  TheStacks' /\ Abstract!Return
<1> DEFINE t == terminal[CPID]
<1>1. /\ TypeOK /\ TheStacks /\ t \in Terminals /\ CPID \in Live
      /\ CPID \in Slots /\ active_processes[t] = CPID /\ stacks[t] # <<>>
  BY CurrentOnTop
<1>2. /\ Len(stacks[t]) \in Nat /\ Len(stacks[t]) # 0
      /\ Len(stacks[t]) = 1 <=> PPID[CPID] = 0
      /\ CPID = stacks[t][Len(stacks[t])]
  BY <1>1, TopActive
<1>3. CASE resume_parent
  <2>1. /\ PPID[CPID] # 0 /\ CPID' = PPID[CPID]
        /\ terminal[PPID[CPID]] = t
        /\ Live' = Live \ {active_processes[t]}
        /\ PPID' = PPID /\ terminal' = terminal
        /\ active_processes' =
             [active_processes EXCEPT ![t] = PPID[active_processes[t]]]
    BY <1>1, <1>3, Zenon
       DEF resume_parent, RefinementInv, TreeInv, ProcessTree,
                      ParentsLive, Live, enter
  <2>2. /\ TheStacks'
        /\ stacks' =
             [stacks EXCEPT ![t] = SubSeq(stacks[t], 1, Len(stacks[t]) - 1)]
    BY <1>1, <2>1, PopStep, Zenon
  <2>3. Len(stacks[t]) > 1
    <3>1. \A n \in Nat : n # 0 /\ n # 1 => n > 1
      OBVIOUS
    <3> QED
      BY <1>2, <2>1, <3>1, Zenon
  <2>4. terminal'[CPID'] = t
    BY <2>1
  <2> HIDE DEF t
  <2>5. t = terminal[CPID]
    BY DEF t
  <2> QED
    BY <1>1, <2>2, <2>3, <2>4, <2>5 DEF Abstract!Return
<1>4. CASE restart_shell
  <2> DEFINE run == running \ {CPID}
             act == (active \ {CPID}) \cup {0}
             arg == args_after_halt(0)
  <2>1. PICK p \in PIDs :
          execute_base_shell(terminal[CPID], run, act, arg, switch_frames)!(p)
    BY <1>4, Zenon DEF restart_shell, execute_base_shell
  <2>2. /\ PPID[CPID] = 0 /\ p \notin run
        /\ 0 \in running /\ CPID # 0
    BY <1>1, <1>4, <2>1
       DEF restart_shell, first_free, RefinementInv, TreeInv, ProcessTree, Live
  <2>3. /\ p \in Slots /\ p \notin Live \ {active_processes[t]}
        /\ Live' = (Live \ {active_processes[t]}) \cup {p}
        /\ PPID' = [PPID EXCEPT ![p] = 0]
        /\ terminal' = [terminal EXCEPT ![p] = t]
        /\ active_processes' = [active_processes EXCEPT ![t] = p]
        /\ CPID' = p
    BY <1>1, <2>1, <2>2 DEF Live, Slots, enter
  <2>4. Len(stacks[t]) = 1
    BY <1>2, <2>2
  <2>5. TheStacks' /\ stacks' = [stacks EXCEPT ![t] = <<p>>]
    BY <1>1, <2>3, <2>4, ReplaceStep, Zenon
  <2>6. p \in ((PIDs \ {0}) \ Abstract!Used) \cup {stacks[t][1]}
    <3>1. stacks[t][1] = CPID
      BY <1>2, <2>4
    <3> QED
      BY <1>1, <2>3, <3>1, UsedAlive DEF Slots
  <2>7. terminal'[CPID'] = t
    <3>1. p \in DOMAIN terminal
      BY <1>1, <2>3 DEF TypeOK, Slots
    <3> QED
      BY <2>3, <3>1
  <2> HIDE DEF t
  <2>8. t = terminal[CPID]
    BY DEF t
  <2> QED
    BY <1>1, <2>4, <2>5, <2>6, <2>7, <2>8, Zenon DEF Abstract!Return
<1> QED
  BY <1>3, <1>4 DEF exception_halt

(* No terminal the search for the next process has gone past has one.      *)
LEMMA NextTerminal ==
  ASSUME NEW i \in Terminals, NEW j \in Terminals, i # j,
         next_terminal(i, j), NEW u \in Abstract!Between(i, j)
  PROVE  active_processes[u] = 0
<1>1. PICK k \in 1 .. NUM_TERMINALS :
        /\ j = (i + k) % NUM_TERMINALS
        /\ \A m \in 1 .. k - 1 : active_processes[(i + m) % NUM_TERMINALS] = 0
  BY DEF next_terminal
<1> DEFINE N == NUM_TERMINALS
<1>2. N \in Nat /\ i \in 0 .. N - 1 /\ j \in 0 .. N - 1 /\ k \in 1 .. N
  BY ConstantsAssumption DEF Terminals
<1>3. /\ u \in 0 .. N - 1
      /\ IF i < j THEN i < u /\ u < j ELSE i < u \/ u < j
  BY DEF Abstract!Between, Terminals
<1>4. \A r \in 0 .. N - 1 : r % N = r /\ (r + N) % N = r
  <2>1. ASSUME NEW r \in 0 .. N - 1 PROVE r % N = r /\ (r + N) % N = r
    <3>1. (0 * N + r) % N = r /\ (1 * N + r) % N = r
      BY <1>2, DivMod
    <3>2. 0 * N + r = r /\ 1 * N + r = r + N
      BY <1>2
    <3> QED
      BY <3>1, <3>2
  <2> QED
    BY <2>1
<1>5. \A m \in 1 .. k - 1 : active_processes[(i + m) % N] = 0
  BY <1>1
<1>6. j = (i + k) % N
  BY <1>1
<1> HIDE DEF N
<1>7. CASE i + k < N
  <2>1. i + k \in 0 .. N - 1
    BY <1>2, <1>7
  <2>2. j = i + k
    BY <1>4, <1>6, <2>1
  <2>3. u - i \in 1 .. k - 1 /\ i + (u - i) = u
    BY <1>2, <1>3, <2>2
  <2>4. active_processes[u % N] = 0
    BY <1>5, <2>3
  <2> QED
    BY <1>3, <1>4, <2>4
<1>8. CASE ~(i + k < N)
  <2>1. i + k - N \in 0 .. N - 1 /\ (i + k - N) + N = i + k
    BY <1>2, <1>8
  <2>2. j = i + k - N
    BY <1>4, <1>6, <2>1
  <2>3. CASE i < u
    <3>1. u - i \in 1 .. k - 1 /\ i + (u - i) = u
      BY <1>2, <1>3, <1>8, <2>3
    <3>2. active_processes[u % N] = 0
      BY <1>5, <3>1
    <3> QED
      BY <1>3, <1>4, <3>2
  <2>4. CASE ~(i < u)
    <3>1. u + N - i \in 1 .. k - 1 /\ i + (u + N - i) = u + N
      BY <1>2, <1>3, <2>2, <2>4
    <3>2. active_processes[(u + N) % N] = 0
      BY <1>5, <3>1
    <3> QED
      BY <1>3, <1>4, <3>2
  <2> QED
    BY <2>3, <2>4
<1> QED
  BY <1>7, <1>8

(* task_switch, when it switches, is TaskStacks's Pass.                    *)
LEMMA SwitchPasses ==
  ASSUME RefinementInv, Booted, Booted', task_switch_switches
  PROVE  TheStacks' /\ Abstract!Pass
<1> DEFINE i == terminal[CPID]
<1>1. /\ TypeOK /\ TheStacks /\ i \in Terminals /\ active_processes[i] = CPID
  BY CurrentOnTop
<1>2. PICK t \in Terminals : task_switch_switches!2!(t)
  BY Zenon DEF task_switch_switches
<1>3. /\ UNCHANGED <<running, PPID, terminal, active_processes, cur_terminal>>
  BY DEF task_switch_switches, pcb_vars
<1>4. /\ next_terminal(i, t) /\ active_processes[t] # 0
      /\ active_processes[t] # CPID /\ CPID' = active_processes[t]
  BY <1>2 DEF next_terminal, enter
<1>5. t # i
  BY <1>1, <1>4
<1>6. terminal'[CPID'] = t
  BY <1>3, <1>4 DEF RefinementInv, TreeInv, ProcessTree, ActiveLive
<1>7. TheStacks' /\ stacks' = stacks
  BY <1>1, <1>3, SameStacks
<1>8. stacks[t] # <<>>
  BY <1>1, <1>4, TopActive
<1> HIDE DEF i
<1>9. \A u \in Abstract!Between(i, t) : stacks[u] = <<>>
  <2> TAKE u \in Abstract!Between(i, t)
  <2>1. active_processes[u] = 0
    BY <1>1, <1>4, <1>5, NextTerminal
  <2>2. u \in Terminals
    BY DEF Abstract!Between
  <2> QED
    BY <1>1, <2>1, <2>2, TopActive
<1>10. i = terminal[CPID]
  BY DEF i
<1> QED
  BY <1>1, <1>3, <1>5, <1>6, <1>7, <1>8, <1>9, <1>10 DEF Abstract!Pass

(* Steps that leave the process table and the current process alone: the   *)
(* stacks stay, and so does the terminal that has the CPU.                 *)
LEMMA SameTasks ==
  ASSUME RefinementInv, Booted' <=> Booted,
         UNCHANGED <<running, PPID, terminal, active_processes, CPID>>
  PROVE  /\ TheStacks' /\ stacks' = stacks
         /\ (IF Booted THEN terminal[CPID] ELSE -1)' =
              IF Booted THEN terminal[CPID] ELSE -1
<1>1. TheStacks' /\ stacks' = stacks
  BY SameStacks DEF RefinementInv
<1>2. (IF Booted THEN terminal[CPID] ELSE -1)' =
        IF Booted' THEN terminal'[CPID'] ELSE -1
  OBVIOUS
<1> QED
  BY <1>1, <1>2

(* Every step keeps the invariant and is a step of TaskStacks, or leaves   *)
(* what TaskStacks speaks of as it is.                                     *)
LEMMA RefinementStep ==
  ASSUME RefinementInv, Next, TypeOK'
  PROVE  RefinementInv' /\ (Abstract!Next \/ UNCHANGED Abstract!vars)
<1> USE DEF pcb_vars, video_vars, map_vars, cpu_vars, frame_vars
<1>0. TreeInv' /\ Booted' /\ TypeOK /\ TheStacks /\ TreeInv
  BY TreeStep DEF RefinementInv, TreeInv
<1> SUFFICES TheStacks' /\ (Abstract!Next \/ UNCHANGED Abstract!vars)
  BY <1>0 DEF RefinementInv
<1>1. CASE Boot
  <2>1. ~Booted /\ active_processes[0] = 0 /\ cur_terminal = 0
    BY <1>1, ConstantFacts DEF Boot, RefinementInv, TreeInv
  <2>2. 0 \in Terminals /\ cur_terminal' = 0
    BY <1>1, <2>1, ConstantFacts DEF Boot
  <2>3. TheStacks' /\ Abstract!Start(0)
    BY <1>1, <2>1, <2>2, ShellStarts DEF Boot
  <2> QED
    BY <2>2, <2>3 DEF Abstract!Next
<1>2. ASSUME Booted, exception_halt, cur_terminal' = cur_terminal
      PROVE  TheStacks' /\ Abstract!Next
  BY <1>0, <1>2, HaltReturns DEF Abstract!Next
<1>3. ASSUME NEW file \in Programs, NEW a \in Args \cup {NoArgs},
             execute(file, a)
      PROVE  TheStacks' /\ Abstract!Next
  BY <1>0, <1>3, ExecuteCalls DEF Abstract!Next
<1>4. ASSUME Booted, cur_terminal' = cur_terminal,
             UNCHANGED <<running, PPID, terminal, active_processes, CPID>>
      PROVE  TheStacks' /\ UNCHANGED Abstract!vars
  BY <1>0, <1>4, SameTasks DEF Abstract!vars
<1>5. CASE vidmap_choose \/ vidmap_map
  BY <1>4, <1>5 DEF vidmap_choose, vidmap_map, InUserMode
<1>6. CASE pitHandler
  <2>0. Booted
    BY <1>0, <1>6 DEF pitHandler, TreeInv
  <2>1. CASE task_switch_halts
    BY <1>2, <2>0, <2>1 DEF task_switch_halts
  <2>2. CASE task_switch_switches
    BY <1>0, <2>0, <2>2, SwitchPasses DEF Abstract!Next
  <2> QED
    BY <1>6, <2>1, <2>2 DEF pitHandler
<1>7. CASE Booted /\ keyboardHandler
  <2>1. ASSUME NEW t \in Terminals, key_alt_f(t)
        PROVE  TheStacks' /\ (Abstract!Next \/ UNCHANGED Abstract!vars)
    <3>1. CASE terminal_switch_same(t)
      BY <1>4, <1>7, <3>1 DEF terminal_switch_same
    <3>2. CASE terminal_switch_new(t)
      <4>1. TheStacks' /\ Abstract!Start(t)
        BY <1>7, <3>2, ShellStarts DEF terminal_switch_new, needs_shell
      <4> QED
        BY <4>1 DEF Abstract!Next
    <3>3. CASE terminal_switch_live(t)
      <4>1. /\ active_processes[t] # 0 /\ cur_terminal' = t
            /\ UNCHANGED <<running, PPID, terminal, active_processes, CPID>>
        BY <3>3 DEF terminal_switch_live, needs_shell
      <4>2. stacks[t] # <<>>
        BY <1>0, <4>1, TopActive
      <4>3. TheStacks' /\ Abstract!Show(t)
        BY <1>0, <1>7, <4>1, <4>2, SameTasks DEF Abstract!Show
      <4> QED
        BY <4>3 DEF Abstract!Next
    <3> QED
      BY <2>1, <3>1, <3>2, <3>3 DEF key_alt_f
  <2>2. CASE key_ctrl_c
    BY <1>2, <1>4, <1>7, <2>2 DEF key_ctrl_c
  <2>3. CASE key_other
    BY <1>4, <1>7, <2>3 DEF key_other
  <2> QED
    BY <1>7, <2>1, <2>2, <2>3 DEF keyboardHandler
<1>8. CASE halt \/ exception
  BY <1>2, <1>8 DEF halt, exception, InUserMode
<1> QED
  BY <1>1, <1>3, <1>5, <1>6, <1>7, <1>8 DEF Next, UserStep

(* At the start every stack is empty.                                      *)
LEMMA RefinementInit ==
  ASSUME Init
  PROVE  RefinementInv /\ Abstract!Init
<1>1. TreeInv /\ TypeOK /\ ~Booted /\ cur_terminal = 0
  BY TreeInit DEF TreeInv, Init, Booted
<1>2. Live = {} /\ active_processes = [t \in Terminals |-> 0]
  BY DEF Init, syscalls_init, Live
<1> DEFINE st == [t \in Terminals |-> <<>>]
<1>3. StacksOf(Slots, Terminals, st, Live, PPID, terminal, active_processes)
  BY <1>2 DEF StacksOf, IsLine
<1> HIDE DEF st
<1>4. stacks = st
  <2>1. StackTyped(Slots, Terminals, Live, PPID, terminal, active_processes)
    BY <1>1, StackTypes, Zenon
  <2>2. [t \in Terminals |-> chain(PPID)[MAX_PROCESSES][active_processes[t]]]
          = st
    BY <1>3, <2>1, SlotFacts, StacksFound
  <2> QED
    BY <2>2, Zenon DEF stacks, ancestors
<1>5. TheStacks
  BY <1>3, <1>4 DEF TheStacks
<1> QED
  BY <1>1, <1>4, <1>5 DEF RefinementInv, Abstract!Init, st

(* RefinementInv holds in every reachable state, and every step is one of  *)
(* TaskStacks or a stutter.                                                *)
THEOREM RefinementInvariant ==
  Spec => []RefinementInv /\ [][Abstract!Next]_(Abstract!vars)
<1>1. Init => RefinementInv
  BY RefinementInit
<1>2. RefinementInv /\ [Next]_vars
        => RefinementInv' /\ (Abstract!Next \/ UNCHANGED Abstract!vars)
  <2> SUFFICES ASSUME RefinementInv, [Next]_vars
               PROVE  RefinementInv' /\ (Abstract!Next \/ UNCHANGED Abstract!vars)
    OBVIOUS
  <2>1. TypeOK'
    BY TypeStep DEF RefinementInv, TreeInv
  <2>2. CASE Next
    BY <2>1, <2>2, RefinementStep
  <2>3. CASE UNCHANGED vars
    <3>1. /\ UNCHANGED <<running, PPID, terminal, active_processes, CPID,
                         cr3, esp0, cur_terminal>>
      BY <2>3 DEF vars, pcb_vars, video_vars, cpu_vars
    <3>2. TreeInv' /\ (Booted' <=> Booted)
      BY <2>1, <3>1, SameTree DEF RefinementInv
    <3>3. TheStacks' /\ UNCHANGED Abstract!vars
      BY <3>1, <3>2, SameTasks DEF Abstract!vars
    <3> QED
      BY <3>1, <3>2, <3>3 DEF RefinementInv
  <2> QED
    BY <2>2, <2>3
<1>3. RefinementInv /\ [Next]_vars => [Abstract!Next]_(Abstract!vars)
  BY <1>2
<1> QED
  BY <1>1, <1>2, <1>3, PTL DEF Spec

(* Module Kernel implements TaskStacks, for every number of slots and of   *)
(* terminals: execute, halt, exceptions, CTRL-C, task_switch and ALT-Fn    *)
(* do to the tables what TaskStacks does to stacks, or nothing at all.     *)
THEOREM Refines == Spec => ImplementsTaskStacks
<1>1. Init => Abstract!Init
  BY RefinementInit
<1> QED
  BY <1>1, RefinementInvariant, PTL
     DEF Spec, ImplementsTaskStacks, Abstract!Spec

(* Every process is on the stack of its terminal, in one place, and on no  *)
(* other.                                                                  *)
THEOREM StacksCorrect == Spec => []EveryProcessStacked
<1>1. RefinementInv => EveryProcessStacked
  <2> SUFFICES ASSUME RefinementInv, NEW p \in Slots, NEW t \in Terminals
               PROVE  LET places == {i \in 1 .. Len(stacks[t]) : stacks[t][i] = p}
                      IN  IF p \in running /\ terminal[p] = t
                            THEN \E i \in places : places = {i}
                            ELSE places = {}
    BY DEF EveryProcessStacked, Slots
  <2>1. /\ \A i \in 1 .. Len(stacks[t]) :
             stacks[t][i] \in Live /\ terminal[stacks[t][i]] = t
        /\ \A i, j \in 1 .. Len(stacks[t]) : stacks[t][i] = stacks[t][j] => i = j
        /\ p \in Live /\ terminal[p] = t
             => \E i \in 1 .. Len(stacks[t]) : stacks[t][i] = p
    BY DEF RefinementInv, TheStacks, StacksOf, IsLine
  <2>2. p \in Live <=> p \in running
    BY DEF Live, Slots
  <2>3. CASE p \in Live /\ terminal[p] = t
    <3>1. PICK i \in 1 .. Len(stacks[t]) : stacks[t][i] = p
      BY <2>1, <2>3
    <3> QED
      BY <2>1, <2>2, <2>3, <3>1
  <2>4. CASE ~(p \in Live /\ terminal[p] = t)
    BY <2>1, <2>2, <2>4
  <2> QED
    BY <2>3, <2>4
<1> QED
  BY <1>1, RefinementInvariant, PTL
=============================================================================
