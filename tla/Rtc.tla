-------------------------------- MODULE Rtc ---------------------------------
(***************************************************************************)
(* The RTC driver (rtc.c): one hardware interrupt at the highest rate,     *)
(* from which every process is notified at a rate of its own.  The         *)
(* interrupt may come between any two steps of a process, and so may a     *)
(* task switch to another process.                                         *)
(***************************************************************************)
EXTENDS PowersOfTwo

CONSTANTS
  Slots,      \* process slots
  NUM_FREQS,  \* number of rates other than 0
  COUNT_BITS, \* width of count
  MAX_RTC_FDS \* rtc file descriptors a process may hold

ASSUME RtcAssumption ==
  /\ NUM_FREQS \in Nat \ {0}
  /\ COUNT_BITS \in Nat /\ COUNT_BITS >= NUM_FREQS
  /\ MAX_RTC_FDS \in Nat

MAXIMUM_RTC_RATE == two_to[NUM_FREQS]

VARIABLES
  count,           \* interrupts so far, of COUNT_BITS bits
  active_freq,     \* the rate of each slot, 0 for none
  interrupt_flag,  \* the slots that are due
  fds,             \* how many rtc descriptors each slot has open
  pc,              \* each slot's process is in user mode ("user"), waiting
                   \* in rtc_read ("wait"), about to clear its flag there
                   \* ("clear"), or in close, which has freed the descriptor
                   \* and will call rtc_close ("rtc_close"); with "exec_" it
                   \* is execute that reads and closes, to test a file that
                   \* turns out to be the rtc
  torn             \* history: the slots whose process was killed between
                   \* the two halves of close, with no rtc_close since

vars == <<count, active_freq, interrupt_flag, fds, pc, torn>>

rtc_init ==
  /\ active_freq = [p \in Slots |-> 0]
  /\ interrupt_flag = {}

Init ==
  /\ rtc_init
  /\ count = 0
  /\ fds = [p \in Slots |-> 0]
  /\ pc = [p \in Slots |-> "user"]
  /\ torn = {}

-----------------------------------------------------------------------------
bit(n, k) == (n \div two_to[k]) % 2

(* The rates whose bit of count changes.  Faulty variants: the frequency   *)
(* loop stops one short; a bit counts when it is set.                      *)
due_rates_short(old, new) ==
  {MAXIMUM_RTC_RATE \div two_to[k] :
     k \in {j \in 0 .. NUM_FREQS - 2 : bit(old, j) # bit(new, j)}}
due_rates_set(old, new) ==
  {MAXIMUM_RTC_RATE \div two_to[k] :
     k \in {j \in 0 .. NUM_FREQS - 1 : bit(new, j) = 1}}

due_rates(old, new) ==
  {MAXIMUM_RTC_RATE \div two_to[k] :
     k \in {j \in 0 .. NUM_FREQS - 1 : bit(old, j) # bit(new, j)}}

rtcHandler ==
  /\ count' = (count + 1) % two_to[COUNT_BITS]
  /\ interrupt_flag' = interrupt_flag \cup
       {p \in Slots : active_freq[p] \in due_rates(count, count')}
  /\ UNCHANGED <<active_freq, fds, pc, torn>>

-----------------------------------------------------------------------------
(* open of the rtc, by a process that has a descriptor left.               *)
rtc_open(p) ==
  /\ pc[p] = "user"
  /\ fds[p] < MAX_RTC_FDS
  /\ fds' = [fds EXCEPT ![p] = @ + 1]
  /\ UNCHANGED <<count, active_freq, interrupt_flag, pc, torn>>

(* The rates rtc_write accepts.                                            *)
valid_rate(rate) == rate = 0 \/ \E k \in 1 .. NUM_FREQS : rate = two_to[k]

rtc_write(p, rate) ==
  /\ pc[p] = "user"
  /\ fds[p] > 0
  /\ valid_rate(rate)
  /\ active_freq' = [active_freq EXCEPT ![p] = rate]
  /\ UNCHANGED <<count, interrupt_flag, fds, pc, torn>>

(* close, by the process or by execute, frees the descriptor and only then *)
(* calls rtc_close, with interrupts on.                                    *)
close(p) ==
  /\ pc[p] \in {"user", "exec_close"}
  /\ fds[p] > 0
  /\ fds' = [fds EXCEPT ![p] = @ - 1]
  /\ pc' = [pc EXCEPT ![p] = "rtc_close"]
  /\ UNCHANGED <<count, active_freq, interrupt_flag, torn>>

rtc_close(p) ==
  /\ pc[p] = "rtc_close"
  /\ active_freq' = [active_freq EXCEPT ![p] = 0]
  /\ pc' = [pc EXCEPT ![p] = "user"]
  /\ torn' = torn \ {p}
  /\ UNCHANGED <<count, interrupt_flag, fds>>

(* rtc_read; with no rate set it returns at once and changes nothing.      *)
rtc_read(p) ==
  /\ pc[p] = "user"
  /\ fds[p] > 0
  /\ active_freq[p] # 0
  /\ pc' = [pc EXCEPT ![p] = "wait"]
  /\ UNCHANGED <<count, active_freq, interrupt_flag, fds, torn>>

(* execute of the file rtc opens it, reads it and closes it again, which   *)
(* changes nothing if the process has no rate.  execute turns interrupts   *)
(* off, and only the wait of rtc_read turns them on: a process that is due *)
(* already does it all in one step.                                        *)
execute_rtc(p) ==
  /\ pc[p] = "user"
  /\ fds[p] < MAX_RTC_FDS
  /\ active_freq[p] # 0
  /\ \/ /\ p \in interrupt_flag
        /\ interrupt_flag' = interrupt_flag \ {p}
        /\ active_freq' = [active_freq EXCEPT ![p] = 0]
        /\ torn' = torn \ {p}
        /\ UNCHANGED <<fds, pc>>
     \/ /\ p \notin interrupt_flag
        /\ fds' = [fds EXCEPT ![p] = @ + 1]
        /\ pc' = [pc EXCEPT ![p] = "exec_wait"]
        /\ UNCHANGED <<active_freq, interrupt_flag, torn>>
  /\ UNCHANGED count

rtc_read_wait(p) ==
  /\ p \in interrupt_flag
  /\ \/ pc[p] = "wait" /\ pc' = [pc EXCEPT ![p] = "clear"]
     \/ pc[p] = "exec_wait" /\ pc' = [pc EXCEPT ![p] = "exec_clear"]
  /\ UNCHANGED <<count, active_freq, interrupt_flag, fds, torn>>

rtc_read_clear(p) ==
  /\ interrupt_flag' = interrupt_flag \ {p}
  /\ \/ pc[p] = "clear" /\ pc' = [pc EXCEPT ![p] = "user"]
     \/ pc[p] = "exec_clear" /\ pc' = [pc EXCEPT ![p] = "exec_close"]
  /\ UNCHANGED <<count, active_freq, fds, torn>>

(* halt closes the descriptors that are still in use, with interrupts off; *)
(* another process may get the slot.  A process that halt finds between    *)
(* the two halves of close has no descriptor there any more, so rtc_close  *)
(* is called only if another one is open.                                  *)
(* Faulty variant: the rate is kept.                                       *)
rate_after_halt_kept(p) == active_freq[p]

rate_after_halt(p) == IF fds[p] > 0 THEN 0 ELSE active_freq[p]

halt(p) ==
  /\ fds' = [fds EXCEPT ![p] = 0]
  /\ active_freq' = [active_freq EXCEPT ![p] = rate_after_halt(p)]
  /\ pc' = [pc EXCEPT ![p] = "user"]
  /\ torn' = IF fds[p] > 0 THEN torn \ {p}
             ELSE IF pc[p] = "rtc_close" THEN torn \cup {p} ELSE torn
  /\ UNCHANGED <<count, interrupt_flag>>

-----------------------------------------------------------------------------
(* The steps of a process that is in the kernel.                           *)
in_kernel(p) ==
  \/ rtc_read_wait(p)
  \/ rtc_read_clear(p)
  \/ pc[p] = "exec_close" /\ close(p)
  \/ rtc_close(p)

Next ==
  \/ rtcHandler
  \/ \E p \in Slots :
       \/ rtc_open(p)
       \/ \E rate \in 0 .. MAXIMUM_RTC_RATE + 1 : rtc_write(p, rate)
       \/ close(p)
       \/ rtc_close(p)
       \/ rtc_read(p)
       \/ execute_rtc(p)
       \/ rtc_read_wait(p)
       \/ rtc_read_clear(p)
       \/ halt(p)

Spec == Init /\ [][Next]_vars

(* The chip interrupts for ever (rtcHandler reads register C each time),   *)
(* and every process gets the CPU again (Kernel, EveryTerminalRuns).       *)
FairSpec ==
  Spec /\ WF_vars(rtcHandler) /\ \A p \in Slots : WF_vars(in_kernel(p))

-----------------------------------------------------------------------------
(* The binary counting of rtcHandler notifies a process at exactly the     *)
(* rate it asked for: a slot becomes due at the interrupts whose number is *)
(* a multiple of MAXIMUM_RTC_RATE / rate, when count overflows too.        *)
NotifiesAtRate ==
  count' # count =>
    \A p \in Slots :
      p \in interrupt_flag' <=>
        \/ p \in interrupt_flag
        \/ /\ active_freq[p] # 0
           /\ count' % (MAXIMUM_RTC_RATE \div active_freq[p]) = 0

NotifiedAtRate == [][NotifiesAtRate]_vars

(* A slot that has no rtc descriptor has no rate, once close is done: what *)
(* a process set does not outlive it, and its successor in the slot starts *)
(* without a rate.  Only a process killed between close's release of the   *)
(* descriptor and rtc_close leaves a rate behind, until the slot's next    *)
(* rtc_close.                                                              *)
NoRateWithoutDescriptor ==
  \A p \in Slots :
    fds[p] = 0 /\ pc[p] # "rtc_close" => active_freq[p] = 0 \/ p \in torn

(* A process that waits in rtc_read has a rate, so an interrupt will come, *)
(* and it comes back (or is killed), from execute's read and close too.    *)
RtcReadReturns ==
  \A p \in Slots : pc[p] # "user" ~> pc[p] = "user"
=============================================================================
