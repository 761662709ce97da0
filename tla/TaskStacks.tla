----------------------------- MODULE TaskStacks -----------------------------
(***************************************************************************)
(* What OScelot's processes look like from outside: every terminal has a   *)
(* stack of processes, the topmost of which can run; one terminal has the  *)
(* CPU and one is on the screen.  There are no tables, flags or saved      *)
(* contexts here.                                                          *)
(***************************************************************************)
EXTENDS Integers, Sequences

CONSTANTS Slots,     \* the processes there may be
          Terminals  \* 0 .. the number of terminals minus 1

VARIABLES stack,  \* the processes of each terminal, the topmost last
          cpu,    \* the terminal that has the CPU, -1 before the first shell
          shown   \* the terminal on the screen

vars == <<stack, cpu, shown>>

Init ==
  /\ stack = [t \in Terminals |-> <<>>]
  /\ cpu = -1
  /\ shown = 0

Used == UNION {{stack[t][i] : i \in 1 .. Len(stack[t])} : t \in Terminals}

(* A terminal that has no process is shown: it gets a shell and the CPU.   *)
Start(t) ==
  /\ stack[t] = <<>>
  /\ cpu = -1 => t = shown
  /\ \E p \in Slots \ Used : stack' = [stack EXCEPT ![t] = <<p>>]
  /\ cpu' = t
  /\ shown' = t

(* The running process starts another and waits for it.                    *)
Call ==
  /\ cpu \in Terminals
  /\ \E p \in Slots \ Used : stack' = [stack EXCEPT ![cpu] = Append(@, p)]
  /\ UNCHANGED <<cpu, shown>>

(* The running process ends and the one that waits for it goes on; the     *)
(* last of a terminal is replaced by a new shell.                          *)
Return ==
  /\ cpu \in Terminals
  /\ \/ /\ Len(stack[cpu]) > 1
        /\ stack' = [stack EXCEPT ![cpu] = SubSeq(@, 1, Len(@) - 1)]
     \/ /\ Len(stack[cpu]) = 1
        /\ \E p \in (Slots \ Used) \cup {stack[cpu][1]} :
             stack' = [stack EXCEPT ![cpu] = <<p>>]
  /\ UNCHANGED <<cpu, shown>>

(* The CPU goes round the terminals that have a process: no such terminal  *)
(* lies between the one that loses it and the one that gets it.            *)
Between(s, t) == IF s < t THEN {u \in Terminals : s < u /\ u < t}
                          ELSE {u \in Terminals : s < u \/ u < t}

Pass ==
  /\ cpu \in Terminals
  /\ \E t \in Terminals \ {cpu} :
       /\ stack[t] # <<>>
       /\ \A u \in Between(cpu, t) : stack[u] = <<>>
       /\ cpu' = t
  /\ UNCHANGED <<stack, shown>>

(* A terminal that has processes is shown; the CPU stays where it is.      *)
Show(t) ==
  /\ stack[t] # <<>>
  /\ shown' = t
  /\ UNCHANGED <<stack, cpu>>

Next ==
  \/ \E t \in Terminals : Start(t) \/ Show(t)
  \/ Call
  \/ Return
  \/ Pass

Spec == Init /\ [][Next]_vars
=============================================================================
