----------------------------- MODULE RtcProofs ------------------------------
(***************************************************************************)
(* Proofs about the RTC driver, for any set of slots, any number of rates  *)
(* and any width of count that has a bit for each of them; and about the   *)
(* blinking characters that a program moves at its interrupts, for any     *)
(* number of structures, size of screen and width of a length.             *)
(***************************************************************************)
EXTENDS Rtc, Blink, Basics

Places == {"user", "wait", "clear", "rtc_close",
           "exec_wait", "exec_clear", "exec_close"}

(* count, the rates and the descriptors have values the code can give      *)
(* them, execute holds a descriptor while it reads the rtc, and a slot     *)
(* with no descriptor has no rate, unless its process is about to call     *)
(* rtc_close or was killed there.                                          *)
RtcInv ==
  /\ count \in 0 .. two_to[COUNT_BITS] - 1
  /\ active_freq \in [Slots -> {r \in Nat : valid_rate(r)}]
  /\ fds \in [Slots -> Nat]
  /\ pc \in [Slots -> Places]
  /\ \A p \in Slots :
       pc[p] \in {"exec_wait", "exec_clear", "exec_close"} => fds[p] > 0
  /\ NoRateWithoutDescriptor

(* Counting up changes bit j exactly when the j bits below it are all 0    *)
(* afterwards, also when count overflows.                                  *)
LEMMA BitChanges ==
  ASSUME NEW old \in 0 .. two_to[COUNT_BITS] - 1, NEW j \in 0 .. NUM_FREQS - 1
  PROVE  LET new == (old + 1) % two_to[COUNT_BITS]
         IN  bit(old, j) # bit(new, j) <=> new % two_to[j] = 0
<1> DEFINE n == two_to[COUNT_BITS]
           m == two_to[j]
           new == (old + 1) % n
           q == old \div m
           r == old % m
<1>0. j \in Nat /\ COUNT_BITS \in Nat /\ COUNT_BITS - j - 1 \in Nat
  BY RtcAssumption
<1>1. n \in Nat /\ m \in Nat /\ m > 0 /\ n > 0 /\ old \in Nat
  <2>1. n \in Nat /\ m \in Nat
    BY <1>0, TwoTo
  <2>2. n >= 1 /\ m >= 1
    BY <1>0, TwoToPositive, Zenon
  <2> HIDE DEF n, m
  <2> QED
    BY <2>1, <2>2 DEF n
<1>2. PICK h \in Nat : h > 0 /\ n = (2 * h) * m
  <2>1. two_to[(COUNT_BITS - j - 1) + 1] = 2 * two_to[COUNT_BITS - j - 1]
    BY <1>0, TwoTo
  <2>2. two_to[((COUNT_BITS - j - 1) + 1) + j] = two_to[(COUNT_BITS - j - 1) + 1] * m
    <3>1. (COUNT_BITS - j - 1) + 1 \in Nat
      BY <1>0
    <3> QED
      BY <1>0, <3>1, TwoToSum
  <2>3. ((COUNT_BITS - j - 1) + 1) + j = COUNT_BITS
    BY <1>0
  <2>4. two_to[COUNT_BITS - j - 1] \in Nat /\ two_to[COUNT_BITS - j - 1] > 0
    <3>1. two_to[COUNT_BITS - j - 1] \in Nat
      BY <1>0, TwoTo
    <3>2. two_to[COUNT_BITS - j - 1] >= 1
      BY <1>0, TwoToPositive, Zenon
    <3> QED
      BY <3>1, <3>2
  <2> HIDE DEF m
  <2> QED
    BY <2>1, <2>2, <2>3, <2>4
<1>a. old < n
  BY <1>1
<1> HIDE DEF n, m
<1>3. q \in Nat /\ r \in Nat /\ r < m /\ old = q * m + r
  <2>1. m \in Nat \ {0}
    BY <1>1
  <2>2. /\ old \div m \in Nat /\ old % m \in 0 .. m - 1
        /\ old = (old \div m) * m + (old % m)
    BY <1>1, <2>1, DivModExists, Zenon
  <2> QED
    BY <1>1, <2>2
<1> HIDE DEF q, r
<1>4. CASE old + 1 < n
  <2>1. new = old + 1
    <3>1. (0 * n + (old + 1)) % n = old + 1
      BY <1>1, <1>4, DivMod
    <3> QED
      BY <1>1, <3>1
  <2>2. CASE r + 1 < m
    <3>1. (q * m + (r + 1)) \div m = q /\ (q * m + (r + 1)) % m = r + 1
      <4>1. q \in Nat /\ m \in Nat /\ r + 1 \in Nat
        BY <1>1, <1>3
      <4> QED
        BY <2>2, <4>1, DivMod, Zenon
    <3>2. new = q * m + (r + 1) /\ r + 1 # 0 /\ q * m \in Nat
      BY <1>1, <1>3, <2>1
    <3>3. new \div m = old \div m /\ new % m # 0
      BY <3>1, <3>2 DEF q
    <3> QED
      BY <3>3 DEF bit, m, n
  <2>3. CASE r + 1 = m
    <3>1. ((q + 1) * m + 0) \div m = q + 1 /\ ((q + 1) * m + 0) % m = 0
      BY <1>1, <1>3, DivMod
    <3>2. new = (q + 1) * m + 0
      BY <1>1, <1>3, <2>1, <2>3
    <3>3. new \div m = q + 1 /\ new % m = 0 /\ old \div m = q
      BY <3>1, <3>2 DEF q
    <3>4. q % 2 # (q + 1) % 2
      BY <1>3
    <3> QED
      BY <3>3, <3>4 DEF bit, m, n
  <2> QED
    BY <1>1, <1>3, <2>2, <2>3
<1>5. CASE old + 1 = n
  <2>1. new = 0
    BY <1>1, <1>5
  <2>2. new \div m = 0 /\ new % m = 0
    <3>1. (0 * m + 0) \div m = 0 /\ (0 * m + 0) % m = 0
      BY <1>1, DivMod
    <3> QED
      BY <1>1, <2>1, <3>1
  <2>3. old = (2 * h - 1) * m + (m - 1)
    BY <1>1, <1>2, <1>5
  <2>4. ((2 * h - 1) * m + (m - 1)) \div m = 2 * h - 1
    <3>1. 2 * h - 1 \in Nat /\ m - 1 \in Nat /\ m - 1 < m
      BY <1>1, <1>2
    <3> QED
      BY <1>1, <3>1, DivMod
  <2>5. (2 * h - 1) % 2 = 1
    BY <1>2
  <2> QED
    BY <2>2, <2>3, <2>4, <2>5 DEF bit, m, n
<1> QED
  BY <1>1, <1>a, <1>4, <1>5

(* A rate is due at the interrupts whose number is a multiple of           *)
(* MAXIMUM_RTC_RATE / rate.                                                *)
LEMMA DueRates ==
  ASSUME NEW old \in 0 .. two_to[COUNT_BITS] - 1,
         NEW rate \in Nat, valid_rate(rate)
  PROVE  LET new == (old + 1) % two_to[COUNT_BITS]
         IN  rate \in due_rates(old, new) <=>
               rate # 0 /\ new % (MAXIMUM_RTC_RATE \div rate) = 0
<1> DEFINE new == (old + 1) % two_to[COUNT_BITS]
           N == NUM_FREQS
<1>0. N \in Nat
  BY RtcAssumption
<1>1. \A j \in 0 .. N - 1 :
        /\ MAXIMUM_RTC_RATE \div two_to[j] = two_to[N - j]
        /\ two_to[N - j] # 0
        /\ bit(old, j) # bit(new, j) <=> new % two_to[j] = 0
  <2> SUFFICES ASSUME NEW j \in 0 .. N - 1
               PROVE  /\ MAXIMUM_RTC_RATE \div two_to[j] = two_to[N - j]
                      /\ two_to[N - j] # 0
                      /\ bit(old, j) # bit(new, j) <=> new % two_to[j] = 0
    OBVIOUS
  <2>1. j \in 0 .. N /\ N - j \in Nat
    BY <1>0
  <2>2. MAXIMUM_RTC_RATE \div two_to[j] = two_to[N - j]
    BY <1>0, <2>1, TwoToDiv DEF MAXIMUM_RTC_RATE
  <2>3. two_to[N - j] # 0
    BY <2>1, TwoTo, TwoToPositive
  <2> QED
    BY <2>2, <2>3, BitChanges
<1> HIDE DEF new
<1>2. rate \in due_rates(old, new) <=>
        \E j \in 0 .. N - 1 : rate = two_to[N - j] /\ new % two_to[j] = 0
  BY <1>1 DEF due_rates
<1> DEFINE Due == rate # 0 /\ new % (MAXIMUM_RTC_RATE \div rate) = 0
<1>3. ASSUME rate = 0
      PROVE  rate \in due_rates(old, new) <=> Due
  BY <1>1, <1>2, <1>3
<1>4. ASSUME rate # 0
      PROVE  rate \in due_rates(old, new) <=> Due
  <2>1. PICK k \in 1 .. N : rate = two_to[k]
    BY <1>4 DEF valid_rate
  <2>2. N - k \in 0 .. N - 1 /\ N - (N - k) = k /\ k \in 0 .. N
    BY <1>0
  <2>3. MAXIMUM_RTC_RATE \div rate = two_to[N - k]
    BY <1>0, <2>1, <2>2, TwoToDiv DEF MAXIMUM_RTC_RATE
  <2>4. \A j \in 0 .. N - 1 : rate = two_to[N - j] => j = N - k
    <3> SUFFICES ASSUME NEW j \in 0 .. N - 1, two_to[k] = two_to[N - j]
                 PROVE  N - j = k
      BY <1>0, <2>1
    <3>1. N - j \in Nat /\ k \in Nat /\ two_to[k] \in Nat
      BY <1>0, TwoTo
    <3> QED
      BY <3>1, TwoToInjective
  <2> QED
    BY <1>2, <1>4, <2>1, <2>2, <2>3, <2>4
<1> QED
  BY <1>3, <1>4 DEF new

(* Every step keeps the invariant and notifies at the rates asked for.     *)
LEMMA RtcStep ==
  ASSUME RtcInv, Next
  PROVE  RtcInv' /\ NotifiesAtRate
<1>0. two_to[COUNT_BITS] \in Nat /\ two_to[COUNT_BITS] > 0
  BY RtcAssumption, TwoTo, TwoToPositive
<1>1. CASE rtcHandler
  <2>1. count' \in 0 .. two_to[COUNT_BITS] - 1
    BY <1>0, <1>1 DEF rtcHandler, RtcInv
  <2>2. RtcInv'
    BY <1>1, <2>1 DEF rtcHandler, RtcInv, NoRateWithoutDescriptor
  <2>3. \A p \in Slots :
          active_freq[p] \in due_rates(count, count') <=>
            /\ active_freq[p] # 0
            /\ count' % (MAXIMUM_RTC_RATE \div active_freq[p]) = 0
    <3> SUFFICES ASSUME NEW p \in Slots
                 PROVE  active_freq[p] \in due_rates(count, count') <=>
                          /\ active_freq[p] # 0
                          /\ count' % (MAXIMUM_RTC_RATE \div active_freq[p]) = 0
      OBVIOUS
    <3>1. active_freq[p] \in Nat /\ valid_rate(active_freq[p])
      BY DEF RtcInv
    <3>2. count' = (count + 1) % two_to[COUNT_BITS]
          /\ count \in 0 .. two_to[COUNT_BITS] - 1
      BY <1>1 DEF rtcHandler, RtcInv
    <3> QED
      BY <3>1, <3>2, DueRates
  <2>4. NotifiesAtRate
    BY <1>1, <2>3 DEF rtcHandler, NotifiesAtRate
  <2> QED
    BY <2>2, <2>4
<1>2. ASSUME NEW p \in Slots,
             \/ rtc_open(p)
             \/ \E rate \in 0 .. MAXIMUM_RTC_RATE + 1 : rtc_write(p, rate)
             \/ close(p)
             \/ rtc_close(p)
             \/ rtc_read(p)
             \/ execute_rtc(p)
             \/ rtc_read_wait(p)
             \/ rtc_read_clear(p)
             \/ halt(p)
      PROVE  RtcInv' /\ NotifiesAtRate
  <2>0. /\ active_freq \in [Slots -> {r \in Nat : valid_rate(r)}]
        /\ fds \in [Slots -> Nat]
        /\ pc \in [Slots -> Places]
        /\ \A q \in Slots :
             pc[q] \in {"exec_wait", "exec_clear", "exec_close"} => fds[q] > 0
        /\ NoRateWithoutDescriptor
        /\ 0 \in {r \in Nat : valid_rate(r)}
    BY DEF RtcInv, valid_rate
  <2>1. count' = count
    BY <1>2
       DEF rtc_open, rtc_write, close, rtc_close, rtc_read, execute_rtc,
           rtc_read_wait, rtc_read_clear, halt
  <2> DEFINE Same == /\ count' \in 0 .. two_to[COUNT_BITS] - 1
                     /\ NotifiesAtRate
  <2>2. Same
    BY <2>1 DEF RtcInv, NotifiesAtRate
  <2> HIDE DEF Same
  <2>3. CASE rtc_open(p)
    BY <2>0, <2>2, <2>3 DEF rtc_open, RtcInv, NoRateWithoutDescriptor, Same
  <2>4. ASSUME NEW rate \in 0 .. MAXIMUM_RTC_RATE + 1, rtc_write(p, rate)
        PROVE  RtcInv'
    <3>1. rate \in Nat
      BY RtcAssumption, TwoTo DEF MAXIMUM_RTC_RATE
    <3> QED
      BY <2>0, <2>2, <2>4, <3>1
         DEF rtc_write, RtcInv, NoRateWithoutDescriptor, Same
  <2>5. CASE close(p)
    BY <2>0, <2>2, <2>5
       DEF close, RtcInv, NoRateWithoutDescriptor, Places, Same
  <2>6. CASE rtc_close(p)
    BY <2>0, <2>2, <2>6
       DEF rtc_close, RtcInv, NoRateWithoutDescriptor, Places, Same
  <2>7. CASE rtc_read(p)
    BY <2>0, <2>2, <2>7
       DEF rtc_read, RtcInv, NoRateWithoutDescriptor, Places, Same
  <2>8. CASE execute_rtc(p)
    BY <2>0, <2>2, <2>8
       DEF execute_rtc, RtcInv, NoRateWithoutDescriptor, Places, Same
  <2>9. CASE rtc_read_wait(p)
    BY <2>0, <2>2, <2>9
       DEF rtc_read_wait, RtcInv, NoRateWithoutDescriptor, Places, Same
  <2>10. CASE rtc_read_clear(p)
    BY <2>0, <2>2, <2>10
       DEF rtc_read_clear, RtcInv, NoRateWithoutDescriptor, Places, Same
  <2>11. CASE halt(p)
    BY <2>0, <2>2, <2>11
       DEF halt, rate_after_halt, RtcInv, NoRateWithoutDescriptor, Places, Same
  <2> QED
    BY <1>2, <2>2, <2>3, <2>4, <2>5, <2>6, <2>7, <2>8, <2>9, <2>10, <2>11
       DEF Same
<1> QED
  BY <1>1, <1>2 DEF Next

(* What the two theorems below rest on.                                    *)
THEOREM RtcInvariant == Spec => []RtcInv /\ [][NotifiesAtRate]_vars
<1>1. Init => RtcInv
  BY RtcAssumption, TwoTo, TwoToPositive
     DEF Init, rtc_init, RtcInv, NoRateWithoutDescriptor, valid_rate, Places
<1>2. RtcInv /\ [Next]_vars => RtcInv' /\ [NotifiesAtRate]_vars
  <2>1. ASSUME RtcInv, UNCHANGED vars
        PROVE  RtcInv'
    BY <2>1 DEF vars, RtcInv, NoRateWithoutDescriptor
  <2> QED
    BY <2>1, RtcStep
<1> QED
  BY <1>1, <1>2, PTL DEF Spec

(* rtcHandler notifies every process at exactly the rate it set with       *)
(* rtc_write, for ever.                                                    *)
THEOREM RatesCorrect == Spec => NotifiedAtRate
BY RtcInvariant, PTL DEF NotifiedAtRate

(* close and halt leave no rate behind in a slot without descriptors,      *)
(* except where halt comes between close's two halves.                     *)
THEOREM RatesEnd == Spec => []NoRateWithoutDescriptor
BY RtcInvariant, PTL DEF RtcInv

-----------------------------------------------------------------------------
Lengths == 0 .. two_to[WIDTH] - 1

Structures ==
  [location : {0} \cup 1 .. SCREEN - 1, on_length : Lengths,
   off_length : Lengths, countdown : Lengths, status : {0, 1},
   next : Structs \cup {NULL}]

Characters == [by : Structs \cup {NULL}, status : {0, 1}]

BlinkTypes ==
  /\ blink_array \in [Structs -> Structures]
  /\ screen \in [1 .. SCREEN - 1 -> Characters]
  /\ shown_for \in [Structs -> Nat]

(* c is the list, the first structure last.                                *)
IsList(c) ==
  /\ IsLine(Structs, links, c, mp1_list_head)
  /\ Elements(c) = Allocated

(* Structure b has counted k ticks down from the length of its status.     *)
Counts(b, k) ==
  /\ b.countdown = (length(b) - k) % two_to[WIDTH]
  /\ k > 0 => k < length(b) /\ length(b) <= two_to[WIDTH - 1]

Counting == \A s \in Allocated : Counts(blink_array[s], shown_for[s])

(* The invariant: there is a list of all the structures in use that ends,  *)
(* which no operation that follows links could do without.                 *)
BlinkInv ==
  /\ BlinkTypes
  /\ \E c : IsList(c)
  /\ Counting
  /\ ShowsStatus

(* The values an unsigned short has, and those that look negative.         *)
LEMMA WidthFacts ==
  /\ two_to[WIDTH] \in Nat /\ two_to[WIDTH - 1] \in Nat
  /\ two_to[WIDTH - 1] >= 1 /\ two_to[WIDTH] = 2 * two_to[WIDTH - 1]
<1>1. WIDTH - 1 \in Nat /\ (WIDTH - 1) + 1 = WIDTH /\ WIDTH \in Nat
  BY BlinkAssumption
<1>2. two_to[(WIDTH - 1) + 1] = 2 * two_to[WIDTH - 1]
  BY <1>1, TwoTo, Zenon
<1>3. two_to[WIDTH] \in Nat /\ two_to[WIDTH - 1] \in Nat
  BY <1>1, TwoTo
<1>4. two_to[WIDTH - 1] >= 1
  BY <1>1, TwoToPositive, Zenon
<1> QED
  BY <1>1, <1>2, <1>3, <1>4, Zenon

(* A length is its own remainder.                                          *)
LEMMA LengthRemains ==
  ASSUME NEW x \in Lengths
  PROVE  (x - 0) % two_to[WIDTH] = x
<1> DEFINE W == two_to[WIDTH]
<1>1. W \in Nat /\ x \in Nat /\ x < W
  BY WidthFacts DEF Lengths
<1> HIDE DEF W
<1>2. (0 * W + x) % W = x
  BY <1>1, DivMod
<1>3. 0 * W + x = x - 0
  BY <1>1
<1> QED
  BY <1>2, <1>3 DEF W

(* A structure that a tick does not change has counted it.                 *)
LEMMA TickCounted ==
  ASSUME NEW len \in Lengths, NEW k \in Nat, NEW d, NEW e,
         k > 0 => k < len /\ len <= two_to[WIDTH - 1],
         d = (len - k) % two_to[WIDTH], e = (d - 1) % two_to[WIDTH],
         ~expired(e)
  PROVE  /\ e = (len - (k + 1)) % two_to[WIDTH]
         /\ k + 1 < len /\ len <= two_to[WIDTH - 1]
<1> DEFINE W == two_to[WIDTH]
           H == two_to[WIDTH - 1]
<1>1. W \in Nat /\ H \in Nat /\ H >= 1 /\ W = 2 * H
  BY WidthFacts
<1>2. len \in Nat /\ len < W
  BY <1>1 DEF Lengths
<1>3. \A x \in Nat : x < W => x % W = x
  <2> SUFFICES ASSUME NEW x \in Nat, x < W PROVE x % W = x
    OBVIOUS
  <2> HIDE DEF W
  <2>1. (0 * W + x) % W = x
    BY <1>1, DivMod
  <2>2. 0 * W + x = x
    BY <1>1
  <2> QED
    BY <2>1, <2>2
<1>4. e # 0 /\ ~(e >= H)
  BY DEF expired
<1>5. (0 - 1) % W = W - 1
  <2> HIDE DEF W, H
  <2> QED
    BY <1>1
<1>6. d = (len - k) % W /\ e = (d - 1) % W
  OBVIOUS
<1>7. k < W /\ len - k \in Int
  BY <1>1, <1>2
<1> HIDE DEF W, H
<1>8. CASE k = 0
  <2>1. d = len
    BY <1>2, <1>3, <1>6, <1>8
  <2>2. len # 0
    BY <1>1, <1>4, <1>5, <1>6, <2>1
  <2>3. len - 1 \in Nat /\ len - 1 < W
    BY <1>1, <1>2, <2>2
  <2>4. e = len - 1 /\ (len - 1) % W = len - 1
    BY <1>3, <1>6, <2>1, <2>3
  <2> QED
    BY <1>1, <1>2, <1>4, <1>8, <2>4 DEF W, H
<1>9. CASE k # 0
  <2>1. k < len /\ len <= H
    BY <1>9 DEF H
  <2>2. len - k \in Nat /\ len - k < W /\ len - k # 0
    BY <1>1, <1>2, <1>9, <2>1
  <2>3. d = len - k
    BY <1>3, <1>6, <2>2
  <2>4. /\ len - k - 1 \in Nat /\ len - k - 1 < W
        /\ len - k - 1 = len - (k + 1)
    BY <1>1, <1>2, <2>2
  <2>5. e = len - k - 1 /\ (len - k - 1) % W = len - k - 1
    BY <1>3, <1>6, <2>3, <2>4
  <2> QED
    BY <1>1, <1>2, <1>4, <2>1, <2>4, <2>5 DEF W, H
<1> QED
  BY <1>8, <1>9

(* A structure that a tick changes had one tick left.                      *)
LEMMA TickExpires ==
  ASSUME NEW len \in Lengths, NEW k \in Nat, NEW d, NEW e,
         k > 0 => k < len /\ len <= two_to[WIDTH - 1],
         d = (len - k) % two_to[WIDTH], e = (d - 1) % two_to[WIDTH],
         expired(e)
  PROVE  k + 1 = IF len \in 1 .. two_to[WIDTH - 1] THEN len ELSE 1
<1> DEFINE W == two_to[WIDTH]
           H == two_to[WIDTH - 1]
<1>1. W \in Nat /\ H \in Nat /\ H >= 1 /\ W = 2 * H
  BY WidthFacts
<1>2. len \in Nat /\ len < W
  BY <1>1 DEF Lengths
<1>3. \A x \in Nat : x < W => x % W = x
  <2> SUFFICES ASSUME NEW x \in Nat, x < W PROVE x % W = x
    OBVIOUS
  <2> HIDE DEF W
  <2>1. (0 * W + x) % W = x
    BY <1>1, DivMod
  <2>2. 0 * W + x = x
    BY <1>1
  <2> QED
    BY <2>1, <2>2
<1>4. e = 0 \/ e >= H
  BY DEF expired
<1>5. d = (len - k) % W /\ e = (d - 1) % W
  OBVIOUS
<1>6. k > 0 => k < len /\ len <= H
  OBVIOUS
<1> HIDE DEF W, H
<1>7. CASE len \in 1 .. H
  <2>1. len - k \in Nat /\ len - k < W /\ len - k # 0
    BY <1>1, <1>2, <1>6, <1>7
  <2>2. d = len - k
    BY <1>3, <1>5, <2>1
  <2>3. len - k - 1 \in Nat /\ len - k - 1 < W /\ len - k - 1 < H
    BY <1>1, <1>2, <1>7, <2>1
  <2>4. e = len - k - 1
    BY <1>3, <1>5, <2>2, <2>3
  <2>5. k + 1 = len
    BY <1>1, <1>2, <1>4, <2>3, <2>4
  <2> QED
    BY <1>7, <2>5 DEF H
<1>8. CASE len \notin 1 .. H
  <2>1. k = 0
    BY <1>1, <1>2, <1>6, <1>8
  <2> QED
    BY <1>8, <2>1 DEF H
<1> QED
  BY <1>7, <1>8

(* The links, before a step and after it.                                  *)
LEMMA LinksAre ==
  \A s \in Structs : links[s] = blink_array[s].next /\
                     links'[s] = blink_array'[s].next
<1>1. \A s \in Structs : s # NULL /\ s \in Structs \cup {NULL}
  BY DEF Structs, NULL
<1> QED
  BY <1>1, Zenon DEF links

(* They name structures.                                                   *)
LEMMA LinkTypes ==
  ASSUME BlinkTypes
  PROVE  links \in [Structs \cup {0} -> Structs \cup {0}]
<1>1. \A s \in Structs : s # NULL /\ blink_array[s].next \in Structs \cup {NULL}
  BY DEF BlinkTypes, Structures, Structs, NULL
<1> QED
  BY <1>1 DEF links, NULL

(* What the operations that walk the list find is the list.                *)
LEMMA ListFound ==
  ASSUME BlinkTypes, NEW c, IsList(c)
  PROVE  list = c
<1>1. IsLine(Structs, links, c, mp1_list_head)
  BY DEF IsList
<1>2. /\ MAX_BLINKS \in Nat /\ MAX_BLINKS + 1 \in Nat
      /\ MAX_BLINKS <= MAX_BLINKS + 1
  BY BlinkAssumption
<1>3. links \in [Structs \cup {0} -> Structs \cup {0}]
  BY LinkTypes
<1>4. Structs = 1 .. MAX_BLINKS
  BY DEF Structs
<1>5. ParentsAmong(MAX_BLINKS, Structs, links)
  BY <1>3, <1>4, Zenon DEF ParentsAmong
<1>6. LeadsTo(links, MAX_BLINKS + 1, mp1_list_head, c)
  BY <1>1, <1>2, <1>5, FollowLine, Zenon
<1> QED
  BY <1>6, Zenon DEF list, LeadsTo

(* The list is as long as it is, and its head is a structure or none.      *)
LEMMA ListFacts ==
  ASSUME NEW c, IsList(c)
  PROVE  /\ c \in Seq(Structs) /\ Len(c) \in Nat
         /\ mp1_list_head \in Structs \cup {NULL}
         /\ mp1_list_head = NULL <=> c = <<>>
         /\ \A s \in Allocated : s \in Structs
         /\ \A s : s \in Allocated <=> \E i \in 1 .. Len(c) : s = c[i]
<1>1. /\ c \in Seq(Structs) /\ Len(c) \in Nat
      /\ mp1_list_head = IF c = <<>> THEN 0 ELSE c[Len(c)]
      /\ Elements(c) = Allocated
  BY DEF IsList, IsLine
<1>2. mp1_list_head \in Structs \cup {NULL} /\ (mp1_list_head = NULL <=> c = <<>>)
  <2>1. CASE c = <<>>
    BY <1>1, <2>1, Zenon DEF NULL
  <2>2. CASE c # <<>>
    <3>1. Len(c) \in 1 .. Len(c)
      BY <1>1, <2>2
    <3>2. c[Len(c)] \in Structs
      BY <1>1, <3>1
    <3>3. c[Len(c)] # 0
      BY <3>2 DEF Structs
    <3> QED
      BY <1>1, <2>2, <3>2, <3>3, Zenon DEF NULL
  <2> QED
    BY <2>1, <2>2, Zenon
<1>3. \A s : s \in Allocated <=> \E i \in 1 .. Len(c) : s = c[i]
  BY <1>1, Zenon DEF Elements
<1>4. \A s \in Allocated : s \in Structs
  BY DEF Allocated
<1> QED
  BY <1>1, <1>2, <1>3, <1>4, Zenon

(* A walk comes to a first and to a last structure of any kind that the    *)
(* list holds.                                                             *)
LEMMA WalkFinds ==
  ASSUME NEW S, NEW c \in Seq(S), NEW D, D # {}, D \subseteq Elements(c)
  PROVE  first_of(c, D) \in D /\ last_of(c, D) \in D
<1> DEFINE I == {i \in 1 .. Len(c) : c[i] \in D}
           J == {Len(c) - i : i \in I}
           First(i) == c[i] \in D /\ \A j \in i + 1 .. Len(c) : c[j] \notin D
           Last(i) == c[i] \in D /\ \A j \in 1 .. i - 1 : c[j] \notin D
<1>1. Len(c) \in Nat
  OBVIOUS
<1>2. PICK i0 : i0 \in I
  <2>1. PICK x : x \in D
    OBVIOUS
  <2>2. \E i \in 1 .. Len(c) : x = c[i]
    BY <2>1 DEF Elements
  <2> QED
    BY <2>1, <2>2
<1>3. I \in SUBSET Nat /\ I # {}
  BY <1>2
<1>4. J \in SUBSET Nat /\ J # {}
  BY <1>1, <1>2
<1>5. PICK a \in I : \A y \in I : a <= y
  BY <1>3, NatMin, Zenon
<1>6. Last(a)
  BY <1>5
<1>7. PICK h \in J : \A y \in J : h <= y
  BY <1>4, NatMin, Zenon
<1>8. PICK b \in I : h = Len(c) - b
  BY <1>7
<1>9. First(b)
  <2> SUFFICES ASSUME NEW j \in b + 1 .. Len(c), c[j] \in D PROVE FALSE
    BY <1>8
  <2>1. b \in Nat /\ j \in 1 .. Len(c) /\ j > b
    BY <1>1, <1>8
  <2>2. Len(c) - j \in J
    BY <2>1
  <2>3. Len(c) - b <= Len(c) - j
    BY <1>7, <1>8, <2>2, Zenon
  <2> QED
    BY <1>1, <2>1, <2>3
<1>10. a \in 1 .. Len(c) /\ b \in 1 .. Len(c)
  BY <1>5, <1>8
<1> HIDE DEF First, Last
<1>11. /\ Last(CHOOSE i \in 1 .. Len(c) : Last(i))
       /\ First(CHOOSE i \in 1 .. Len(c) : First(i))
  BY <1>6, <1>9, <1>10, Zenon
<1>12. /\ c[CHOOSE i \in 1 .. Len(c) : Last(i)] \in D
       /\ c[CHOOSE i \in 1 .. Len(c) : First(i)] \in D
  BY <1>11, Zenon DEF First, Last
<1> QED
  BY <1>12, Zenon DEF First, Last, first_of, last_of

(* mp1_find_helper finds a structure in use at the location, or none.      *)
LEMMA HelperFinds ==
  ASSUME BlinkTypes, NEW c, IsList(c), NEW l, mp1_find_helper(l) # NULL
  PROVE  /\ mp1_find_helper(l) \in Allocated
         /\ blink_array[mp1_find_helper(l)].location = l
<1> DEFINE found == {s \in Elements(c) : blink_array[s].location = l}
<1>1. list = c
  BY ListFound
<1>2. /\ found # {}
      /\ mp1_find_helper(l) = first_of(c, found)
  BY <1>1, Zenon DEF mp1_find_helper
<1>3. found \subseteq Elements(c) /\ c \in Seq(Structs) /\ Elements(c) = Allocated
  BY ListFacts DEF IsList
<1>4. first_of(c, found) \in found
  <2> HIDE DEF found
  <2> QED
    BY <1>2, <1>3, WalkFinds
<1> QED
  BY <1>2, <1>3, <1>4, Zenon

(* A structure is taken out of a line, and the one that led to it leads to *)
(* the next.                                                               *)
IsCut(s, k, parent, p, parent2, p2) ==
  /\ p2 = IF p = s[k] THEN parent[s[k]] ELSE p
  /\ \A i \in 1 .. Len(s) : s[i] # s[k] =>
       parent2[s[i]] = IF parent[s[i]] = s[k] THEN parent[s[k]]
                       ELSE parent[s[i]]

(* The line d is made up of the structures in D.                           *)
IsLineOf(slots, parent, d, p, D) ==
  IsLine(slots, parent, d, p) /\ Elements(d) = D

(* What is left is a line still.                                           *)
LEMMA CutLine ==
  ASSUME NEW slots, 0 \notin slots, NEW parent, NEW parent2, NEW s, NEW p,
         NEW p2, IsLine(slots, parent, s, p), NEW k \in 1 .. Len(s),
         IsCut(s, k, parent, p, parent2, p2)
  PROVE  \E d : IsLineOf(slots, parent2, d, p2, Elements(s) \ {s[k]})
<1> DEFINE n == Len(s)
           at(i) == IF i < k THEN i ELSE i + 1
           d == [i \in 1 .. n - 1 |-> s[at(i)]]
<1>0. /\ p2 = IF p = s[k] THEN parent[s[k]] ELSE p
      /\ \A i \in 1 .. n : s[i] # s[k] =>
           parent2[s[i]] = IF parent[s[i]] = s[k] THEN parent[s[k]]
                           ELSE parent[s[i]]
  BY Zenon DEF IsCut
<1>1. /\ s \in Seq(slots) /\ n \in Nat /\ n >= 1 /\ k \in Nat
      /\ p = s[n]
      /\ \A i \in 1 .. n : parent[s[i]] = IF i = 1 THEN 0 ELSE s[i - 1]
      /\ \A i, j \in 1 .. n : s[i] = s[j] => i = j
      /\ \A i \in 1 .. n : s[i] \in slots
  <2>1. s \in Seq(slots) /\ n \in Nat
    BY DEF IsLine
  <2>2. n >= 1 /\ k \in Nat /\ s # <<>>
    BY <2>1
  <2> QED
    BY <2>1, <2>2 DEF IsLine
<1>2. \A i \in 1 .. n - 1 : at(i) \in 1 .. n /\ at(i) # k
  BY <1>1
<1>3. d \in Seq(slots) /\ Len(d) = n - 1 /\ \A i \in 1 .. n - 1 : d[i] = s[at(i)]
  <2> HIDE DEF at
  <2>1. \A i \in 1 .. n - 1 : s[at(i)] \in slots
    BY <1>1, <1>2, Zenon
  <2>2. n - 1 \in Nat
    BY <1>1
  <2> HIDE DEF n
  <2> QED
    BY <2>1, <2>2
<1>4. \A i \in 1 .. n : parent2[s[i]] =
        IF i # k /\ i # 1 /\ s[i - 1] = s[k] THEN parent[s[k]]
        ELSE IF i # k THEN parent[s[i]] ELSE parent2[s[k]]
  <2> SUFFICES ASSUME NEW i \in 1 .. n, i # k
               PROVE  parent2[s[i]] =
                        IF i # 1 /\ s[i - 1] = s[k] THEN parent[s[k]]
                        ELSE parent[s[i]]
    OBVIOUS
  <2>1. s[i] # s[k] /\ s[k] # 0
    BY <1>1
  <2>2. parent2[s[i]] = IF parent[s[i]] = s[k] THEN parent[s[k]]
                        ELSE parent[s[i]]
    BY <1>0, <2>1
  <2>3. parent[s[i]] = IF i = 1 THEN 0 ELSE s[i - 1]
    BY <1>1
  <2> QED
    BY <2>1, <2>2, <2>3
<1> HIDE DEF d, n
<1>5. p2 = IF d = <<>> THEN 0 ELSE d[Len(d)]
  <2>0. d = <<>> <=> n = 1
    BY <1>1, <1>3
  <2>1. CASE k = n
    <3>1. p2 = IF n = 1 THEN 0 ELSE s[n - 1]
      BY <1>0, <1>1, <2>1
    <3>2. n # 1 => d[n - 1] = s[n - 1]
      BY <1>1, <1>3, <2>1
    <3> QED
      BY <1>3, <2>0, <3>1, <3>2
  <2>2. CASE k # n
    <3>1. k < n /\ n - 1 \in 1 .. n - 1 /\ n # 1 /\ n \in 1 .. n
      BY <1>1, <2>2 DEF n
    <3>2. p2 = s[n]
      BY <1>0, <1>1, <2>2, <3>1 DEF n
    <3>3. d[n - 1] = s[n]
      BY <1>1, <1>3, <3>1
    <3> QED
      BY <1>3, <2>0, <3>1, <3>2, <3>3
  <2> QED
    BY <2>1, <2>2
<1>6. ASSUME NEW i \in 1 .. n - 1
      PROVE  parent2[d[i]] = IF i = 1 THEN 0 ELSE d[i - 1]
  <2>0. i \in 1 .. n /\ i + 1 \in 1 .. n /\ k \in 1 .. n /\ i \in Nat
        /\ (i # 1 => i - 1 \in 1 .. n - 1 /\ i - 1 \in 1 .. n)
    BY <1>1 DEF n
  <2>1. CASE i < k
    <3>1. d[i] = s[i] /\ (i # 1 => d[i - 1] = s[i - 1])
      BY <1>3, <2>0, <2>1
    <3>2. i # 1 => s[i - 1] # s[k]
      BY <1>1, <2>0, <2>1
    <3>3. parent2[s[i]] = parent[s[i]]
      BY <1>4, <2>0, <2>1, <3>2
    <3> QED
      BY <1>1, <2>0, <3>1, <3>3
  <2>2. CASE i = k
    <3>1. d[i] = s[i + 1] /\ (i # 1 => d[i - 1] = s[i - 1])
      BY <1>3, <2>0, <2>2
    <3>2. (i + 1) - 1 = i /\ i + 1 # k /\ i + 1 # 1
      BY <2>0, <2>2
    <3>3. parent2[s[i + 1]] = parent[s[k]]
      BY <1>4, <2>0, <2>2, <3>2
    <3> QED
      BY <1>1, <2>0, <2>2, <3>1, <3>3
  <2>3. CASE i > k
    <3>0. /\ i # 1 /\ at(i) = i + 1 /\ at(i - 1) = i
          /\ i - 1 \in 1 .. n - 1
      BY <1>1, <2>0, <2>3
    <3>1. d[i] = s[i + 1] /\ i # 1 /\ d[i - 1] = s[i]
      BY <1>3, <3>0, Zenon
    <3>2. (i + 1) - 1 = i /\ i + 1 # k /\ i + 1 # 1 /\ s[i] # s[k]
      BY <1>1, <2>0, <2>3
    <3>3. parent2[s[i + 1]] = parent[s[i + 1]]
      <4>1. parent2[s[i + 1]] =
              IF i + 1 # k /\ i + 1 # 1 /\ s[(i + 1) - 1] = s[k]
                THEN parent[s[k]]
              ELSE IF i + 1 # k THEN parent[s[i + 1]] ELSE parent2[s[k]]
        BY <1>4, <2>0, Zenon
      <4> QED
        BY <3>2, <4>1
    <3>4. parent[s[i + 1]] = s[(i + 1) - 1]
      BY <1>1, <2>0, <3>2
    <3> QED
      BY <3>1, <3>2, <3>3, <3>4
  <2> QED
    BY <1>1, <2>0, <2>1, <2>2, <2>3
<1>7. ASSUME NEW i \in 1 .. n - 1, NEW j \in 1 .. n - 1, d[i] = d[j]
      PROVE  i = j
  <2>1. at(i) = at(j)
    <3> HIDE DEF at
    <3>1. s[at(i)] = s[at(j)] /\ at(i) \in 1 .. n /\ at(j) \in 1 .. n
      BY <1>2, <1>3, <1>7, Zenon
    <3> QED
      BY <1>1, <3>1, Zenon
  <2> QED
    BY <1>1, <2>1
<1>8. IsLine(slots, parent2, d, p2)
  BY <1>3, <1>5, <1>6, <1>7 DEF IsLine
<1>9. Elements(d) = Elements(s) \ {s[k]}
  <2>1. ASSUME NEW i \in 1 .. n - 1
        PROVE  d[i] \in Elements(s) \ {s[k]}
    <3>1. d[i] = s[at(i)] /\ at(i) \in 1 .. n /\ at(i) # k /\ k \in 1 .. n
      BY <1>2, <1>3, Zenon DEF n
    <3>2. s[at(i)] # s[k]
      BY <1>1, <3>1
    <3> QED
      BY <3>1, <3>2, Zenon DEF Elements, n
  <2>2. ASSUME NEW j \in 1 .. n, s[j] # s[k]
        PROVE  \E i \in 1 .. n - 1 : s[j] = d[i]
    <3>1. j # k
      BY <2>2
    <3>2. CASE j < k
      <4>1. j \in 1 .. n - 1 /\ at(j) = j
        BY <1>1, <3>2 DEF n
      <4> QED
        BY <1>3, <4>1, Zenon
    <3>3. CASE j > k
      <4>1. j - 1 \in 1 .. n - 1 /\ at(j - 1) = j
        BY <1>1, <3>3
      <4> QED
        BY <1>3, <4>1, Zenon
    <3> QED
      BY <1>1, <3>1, <3>2, <3>3
  <2>3. Elements(d) = {d[i] : i \in 1 .. n - 1}
    BY <1>3, Zenon DEF Elements
  <2>4. Elements(s) = {s[j] : j \in 1 .. n}
    BY Zenon DEF Elements, n
  <2>5. Elements(d) \subseteq Elements(s) \ {s[k]}
    BY <2>1, <2>3
  <2>6. Elements(s) \ {s[k]} \subseteq Elements(d)
    BY <2>2, <2>3, <2>4
  <2> QED
    BY <2>5, <2>6, Zenon
<1> QED
  BY <1>8, <1>9, Zenon DEF IsLineOf

(* What ShowsStatus says of one structure.                                 *)
Shows(s, b, sc) == sc[b.location].by = s => sc[b.location].status = b.status

(* The invariant holds after a step if it holds of a list, and of every    *)
(* structure in use.                                                       *)
LEMMA BlinkInvNext ==
  ASSUME BlinkTypes', NEW c, IsList(c)',
         \A s \in Allocated' : Counts(blink_array'[s], shown_for'[s]),
         \A s \in Allocated' : s \notin synced' =>
           Shows(s, blink_array'[s], screen')
  PROVE  BlinkInv'
<1>1. Counting'
  BY Zenon DEF Counting
<1>2. ShowsStatus'
  BY Zenon DEF ShowsStatus, Shows
<1> QED
  BY <1>1, <1>2, Zenon DEF BlinkInv

(* mp1_ioctl_add puts the new structure at the head of the list.           *)
LEMMA AddStep ==
  ASSUME BlinkInv, NEW l \in Locations, NEW on \in OnLengths,
         NEW off \in OffLengths, mp1_ioctl_add(l, on, off)
  PROVE  BlinkInv' /\ NeverEarly
<1>0. PICK c : BlinkTypes /\ IsList(c) /\ Counting /\ ShowsStatus
  BY Zenon DEF BlinkInv
<1>1. PICK s \in Structs :
        /\ blink_array[s].location = 0
        /\ blink_array' = [blink_array EXCEPT ![s] = added(l, on, off)]
        /\ mp1_list_head' = s
        /\ screen' = mp1_poke(screen, s, l, 1)
        /\ shown_for' = [shown_for EXCEPT ![s] = 0]
        /\ synced' = synced \ {s}
  BY Zenon DEF mp1_ioctl_add, mp1_malloc
<1> DEFINE b == added(l, on, off)
<1>2. /\ mp1_list_head \in Structs \cup {NULL} /\ c \in Seq(Structs)
      /\ \A t \in Allocated : t \in Structs
  BY <1>0, ListFacts
<1>3. /\ l \in 1 .. SCREEN - 1 /\ on \in Lengths /\ off \in Lengths
      /\ l # 0 /\ SCREEN \in Nat
  <2>1. l < SCREEN
    BY Zenon DEF mp1_ioctl_add
  <2> QED
    BY <2>1, BlinkAssumption DEF Lengths
<1>4. b \in Structures
  BY <1>2, <1>3 DEF added, Structures
<1>5. /\ b.location = l /\ b.countdown = on /\ length(b) = on
      /\ b.status = 1 /\ b.next = mp1_list_head
  BY DEF added, length
<1> HIDE DEF b
<1>6. /\ blink_array'[s] = b /\ shown_for'[s] = 0
      /\ \A t \in Structs : t # s =>
           blink_array'[t] = blink_array[t] /\ shown_for'[t] = shown_for[t]
  BY <1>0, <1>1 DEF BlinkTypes, b
<1>7. /\ screen'[l] = [by |-> s, status |-> 1]
      /\ \A m \in 1 .. SCREEN - 1 : m # l => screen'[m] = screen[m]
  BY <1>0, <1>1, <1>3 DEF BlinkTypes, mp1_poke
<1>8. BlinkTypes'
  <2>1. blink_array' \in [Structs -> Structures]
    BY <1>0, <1>1, <1>4 DEF BlinkTypes, b
  <2>2. [by |-> s, status |-> 1] \in Characters
    BY DEF Characters
  <2>3. screen' \in [1 .. SCREEN - 1 -> Characters]
    BY <1>0, <1>1, <2>2, Zenon DEF BlinkTypes, mp1_poke
  <2>4. shown_for' \in [Structs -> Nat]
    BY <1>0, <1>1 DEF BlinkTypes
  <2> QED
    BY <2>1, <2>3, <2>4 DEF BlinkTypes
<1>9. s \notin Allocated /\ Allocated' = Allocated \cup {s}
  BY <1>1, <1>3, <1>5, <1>6 DEF Allocated
<1>10. IsList(Append(c, s))'
  <2>1. links'[s] = mp1_list_head
    BY <1>5, <1>6, LinksAre, Zenon
  <2>2. \A i \in 1 .. Len(c) : c[i] # s /\ links'[c[i]] = links[c[i]]
    <3>1. \A i \in 1 .. Len(c) : c[i] \in Allocated
      BY <1>0, ListFacts, Zenon
    <3>2. \A t \in Allocated : t # s /\ links'[t] = links[t]
      BY <1>2, <1>6, <1>9, LinksAre
    <3> QED
      BY <3>1, <3>2, Zenon
  <2>3. IsLine(Structs, links, c, mp1_list_head)
    BY <1>0 DEF IsList
  <2>4. IsLine(Structs, links', Append(c, s), s)
    BY <2>1, <2>2, <2>3, PushLine, Zenon
  <2>5. Elements(Append(c, s)) = Elements(c) \cup {s}
    BY <1>2, Appended DEF Elements
  <2>6. Elements(c) = Allocated
    BY <1>0 DEF IsList
  <2> QED
    BY <1>1, <1>9, <2>4, <2>5, <2>6 DEF IsList
<1>11. ASSUME NEW t \in Allocated'
       PROVE  /\ Counts(blink_array'[t], shown_for'[t])
              /\ t \notin synced' => Shows(t, blink_array'[t], screen')
  <2>1. CASE t = s
    <3>1. Counts(b, 0)
      BY <1>3, <1>5, LengthRemains DEF Counts
    <3>2. Shows(s, b, screen')
      BY <1>5, <1>7 DEF Shows
    <3> QED
      BY <1>6, <2>1, <3>1, <3>2
  <2>2. CASE t # s
    <3>1. /\ t \in Allocated /\ t \in Structs
          /\ blink_array'[t] = blink_array[t] /\ shown_for'[t] = shown_for[t]
      BY <1>2, <1>6, <1>9, <2>2
    <3>2. Counts(blink_array[t], shown_for[t])
      BY <1>0, <3>1, Zenon DEF Counting
    <3>3. t \notin synced => Shows(t, blink_array[t], screen)
      BY <1>0, <3>1, Zenon DEF ShowsStatus, Shows
    <3>4. blink_array[t].location \in 1 .. SCREEN - 1
      BY <1>0, <3>1 DEF BlinkTypes, Structures, Allocated
    <3>5. CASE blink_array[t].location = l
      <4>1. screen'[blink_array[t].location].by # t
        BY <1>7, <2>2, <3>5
      <4> QED
        BY <3>1, <3>2, <4>1, Zenon DEF Shows
    <3>6. CASE blink_array[t].location # l
      <4>1. screen'[blink_array[t].location] = screen[blink_array[t].location]
        BY <1>7, <3>4, <3>6, Zenon
      <4>2. t \notin synced' => t \notin synced
        BY <1>1, <2>2, Zenon
      <4>3. t \notin synced' => Shows(t, blink_array[t], screen')
        BY <3>3, <4>1, <4>2, Zenon DEF Shows
      <4> QED
        BY <3>1, <3>2, <4>3, Zenon
    <3> QED
      BY <3>5, <3>6, Zenon
  <2> QED
    BY <2>1, <2>2
<1>12. NeverEarly
  <2>1. \A t \in Allocated : t \in Structs /\ t # s
    BY <1>2, <1>9
  <2> QED
    BY <1>6, <2>1, Zenon DEF NeverEarly
<1> QED
  BY <1>8, <1>10, <1>11, <1>12, BlinkInvNext

(* mp1_ioctl_remove takes a structure out of the list, wherever it is.     *)
LEMMA RemoveStep ==
  ASSUME BlinkInv, NEW l \in Locations, mp1_ioctl_remove(l)
  PROVE  BlinkInv' /\ NeverEarly
<1>0. PICK c : BlinkTypes /\ IsList(c) /\ Counting /\ ShowsStatus
  BY Zenon DEF BlinkInv
<1>1. PICK s :
        /\ s = mp1_find_helper(l) /\ s # NULL
        /\ mp1_list_head' = IF mp1_list_head = s THEN blink_array[s].next
                            ELSE mp1_list_head
        /\ blink_array' = mp1_free(unlinked(s), s)
        /\ shown_for' = [shown_for EXCEPT ![s] = 0]
        /\ synced' = synced \ {s}
        /\ screen' = screen
  BY Zenon DEF mp1_ioctl_remove
<1>2. s \in Allocated /\ s \in Structs
  BY <1>0, <1>1, HelperFinds, ListFacts
<1>3. PICK k \in 1 .. Len(c) : s = c[k]
  BY <1>0, <1>2, ListFacts
<1> DEFINE next(t) == IF blink_array[t].next = s THEN blink_array[s].next
                      ELSE blink_array[t].next
<1>4. free \in Structures /\ free.location = 0
  <2>1. 0 \in Lengths
    BY WidthFacts DEF Lengths
  <2> QED
    BY <2>1 DEF free, Structures, NULL
<1>5. blink_array' = [t \in Structs |-> IF t = s THEN free ELSE unlinked(s)[t]]
  <2>1. DOMAIN unlinked(s) = Structs
    BY DEF unlinked
  <2> HIDE DEF unlinked
  <2> QED
    BY <1>1, <2>1, Zenon DEF mp1_free, unlinked
<1>6. \A t \in Structs : unlinked(s)[t] = [blink_array[t] EXCEPT !.next = next(t)]
  <2> SUFFICES ASSUME NEW t \in Structs
               PROVE  unlinked(s)[t] = [blink_array[t] EXCEPT !.next = next(t)]
    OBVIOUS
  <2>1. blink_array[t] \in Structures
    BY <1>0 DEF BlinkTypes
  <2>2. [blink_array[t] EXCEPT !.next = blink_array[t].next] = blink_array[t]
    BY <2>1 DEF Structures
  <2> QED
    BY <2>2 DEF unlinked
<1>7. ASSUME NEW t \in Structs, t # s
      PROVE  /\ blink_array'[t] = [blink_array[t] EXCEPT !.next = next(t)]
             /\ blink_array'[t] \in Structures
             /\ blink_array'[t].next = next(t)
             /\ blink_array'[t].location = blink_array[t].location
             /\ blink_array'[t].countdown = blink_array[t].countdown
             /\ blink_array'[t].status = blink_array[t].status
             /\ length(blink_array'[t]) = length(blink_array[t])
  <2>1. blink_array'[t] = [blink_array[t] EXCEPT !.next = next(t)]
    BY <1>5, <1>6, <1>7, Zenon
  <2>2. blink_array[t] \in Structures /\ blink_array[s] \in Structures
    BY <1>0, <1>2 DEF BlinkTypes
  <2>3. next(t) \in Structs \cup {NULL}
    BY <2>2 DEF Structures
  <2> HIDE DEF next
  <2> QED
    BY <2>1, <2>2, <2>3 DEF Structures, length
<1>8. blink_array'[s] = free
  BY <1>2, <1>5
<1>9. BlinkTypes'
  <2>1. blink_array' \in [Structs -> Structures]
    <3>1. \A t \in Structs : blink_array'[t] \in Structures
      BY <1>4, <1>7, <1>8, Zenon
    <3>2. blink_array' = [t \in Structs |-> blink_array'[t]]
      BY <1>5
    <3> QED
      BY <3>1, <3>2, Zenon
  <2>2. shown_for' \in [Structs -> Nat]
    BY <1>0, <1>1, Zenon DEF BlinkTypes
  <2> QED
    BY <1>0, <1>1, <2>1, <2>2, Zenon DEF BlinkTypes
<1>10. Allocated' = Allocated \ {s}
  BY <1>4, <1>7, <1>8, Zenon DEF Allocated
<1>11. PICK d : IsList(d)'
  <2>1. IsLine(Structs, links, c, mp1_list_head) /\ Elements(c) = Allocated
    BY <1>0 DEF IsList
  <2>2. mp1_list_head' = IF mp1_list_head = c[k] THEN links[c[k]]
                         ELSE mp1_list_head
    BY <1>1, <1>2, <1>3, LinksAre
  <2>3. ASSUME NEW i \in 1 .. Len(c), c[i] # c[k]
        PROVE  links'[c[i]] = IF links[c[i]] = c[k] THEN links[c[k]]
                              ELSE links[c[i]]
    <3>1. c[i] \in Structs /\ c[i] # s
      BY <1>0, <1>3, <2>3, ListFacts
    <3>2. blink_array'[c[i]].next = next(c[i])
      BY <1>7, <3>1, Zenon
    <3> QED
      BY <1>2, <1>3, <3>1, <3>2, LinksAre
  <2>4. 0 \notin Structs
    BY DEF Structs
  <2>5. \E d : IsLineOf(Structs, links', d, mp1_list_head', Elements(c) \ {c[k]})
    <3>1. IsCut(c, k, links, mp1_list_head, links', mp1_list_head')
      BY <2>2, <2>3, Zenon DEF IsCut
    <3> QED
      BY <2>1, <2>4, <3>1, CutLine, Zenon
  <2> QED
    BY <1>3, <1>10, <2>1, <2>5, Zenon DEF IsList, IsLineOf
<1>12. ASSUME NEW t \in Allocated'
       PROVE  /\ Counts(blink_array'[t], shown_for'[t])
              /\ t \notin synced' => Shows(t, blink_array'[t], screen')
  <2>1. t \in Allocated /\ t \in Structs /\ t # s
    BY <1>10 DEF Allocated
  <2>2. shown_for'[t] = shown_for[t]
    BY <1>0, <1>1, <2>1 DEF BlinkTypes
  <2>3. Counts(blink_array[t], shown_for[t])
    BY <1>0, <2>1, Zenon DEF Counting
  <2>4. t \notin synced => Shows(t, blink_array[t], screen)
    BY <1>0, <2>1, Zenon DEF ShowsStatus, Shows
  <2>5. Counts(blink_array'[t], shown_for'[t])
    BY <1>7, <2>1, <2>2, <2>3, Zenon DEF Counts
  <2>6. t \notin synced' => Shows(t, blink_array'[t], screen')
    BY <1>1, <1>7, <2>1, <2>4, Zenon DEF Shows
  <2> QED
    BY <2>5, <2>6
<1>13. NeverEarly
  <2>1. \A t \in Allocated' : t \in Structs /\ t # s
    BY <1>10 DEF Allocated
  <2> QED
    BY <1>7, <2>1, Zenon DEF NeverEarly
<1> QED
  BY <1>9, <1>11, <1>12, <1>13, BlinkInvNext

(* mp1_ioctl_sync puts a structure in step with another.                   *)
LEMMA SyncStep ==
  ASSUME BlinkInv, NEW l1 \in Locations, NEW l2 \in Locations,
         mp1_ioctl_sync(l1, l2)
  PROVE  BlinkInv' /\ NeverEarly
<1>0. PICK c : BlinkTypes /\ IsList(c) /\ Counting /\ ShowsStatus
  BY Zenon DEF BlinkInv
<1>1. PICK s1, s2 :
        /\ s1 = mp1_find_helper(l1) /\ s1 # NULL
        /\ s2 = mp1_find_helper(l2) /\ s2 # NULL
        /\ blink_array' = [blink_array EXCEPT
                             ![s2] = in_step(blink_array[s1], blink_array[s2])]
        /\ screen' = mp1_poke(screen, s2, l2, 0)
        /\ shown_for' = [shown_for EXCEPT ![s2] = shown_for[s1]]
        /\ synced' = synced \cup {s2}
        /\ mp1_list_head' = mp1_list_head
  BY Zenon DEF mp1_ioctl_sync
<1> DEFINE a == blink_array[s1]
           b == in_step(a, blink_array[s2])
<1>2. /\ s1 \in Allocated /\ s1 \in Structs
      /\ s2 \in Allocated /\ s2 \in Structs
      /\ blink_array[s2].location = l2
  BY <1>0, <1>1, HelperFinds, ListFacts
<1>3. a \in Structures /\ blink_array[s2] \in Structures
  BY <1>0, <1>2 DEF BlinkTypes
<1>4. /\ b \in Structures
      /\ b.location = l2 /\ b.next = blink_array[s2].next
      /\ b.countdown = a.countdown /\ length(b) = length(a)
  <2> HIDE DEF a
  <2> QED
    BY <1>2, <1>3, Zenon DEF in_step, Structures, length
<1> HIDE DEF b
<1>5. /\ blink_array'[s2] = b /\ shown_for'[s2] = shown_for[s1]
      /\ \A t \in Structs : t # s2 =>
           blink_array'[t] = blink_array[t] /\ shown_for'[t] = shown_for[t]
  BY <1>0, <1>1, <1>2 DEF BlinkTypes, b
<1>6. l2 \in 1 .. SCREEN - 1
  BY <1>2, <1>3 DEF Allocated, Structures
<1>7. /\ screen'[l2] = [by |-> s2, status |-> 0]
      /\ \A m \in 1 .. SCREEN - 1 : m # l2 => screen'[m] = screen[m]
  BY <1>0, <1>1, <1>6 DEF BlinkTypes, mp1_poke
<1>8. BlinkTypes'
  <2>1. blink_array' \in [Structs -> Structures]
    BY <1>0, <1>1, <1>4, Zenon DEF BlinkTypes, b
  <2>2. [by |-> s2, status |-> 0] \in Characters
    BY <1>2 DEF Characters
  <2>3. screen' \in [1 .. SCREEN - 1 -> Characters]
    BY <1>0, <1>1, <2>2, Zenon DEF BlinkTypes, mp1_poke
  <2>4. shown_for' \in [Structs -> Nat]
    BY <1>0, <1>1, <1>2 DEF BlinkTypes
  <2> QED
    BY <2>1, <2>3, <2>4, Zenon DEF BlinkTypes
<1>9. IsList(c)' /\ Allocated' = Allocated
  <2>1. \A t \in Structs : /\ blink_array'[t].location = blink_array[t].location
                           /\ blink_array'[t].next = blink_array[t].next
    BY <1>2, <1>4, <1>5
  <2>2. Allocated' = Allocated
    BY <2>1 DEF Allocated
  <2>3. links' = links
    BY <2>1 DEF links, NULL
  <2> QED
    BY <1>0, <1>1, <2>2, <2>3, Zenon DEF IsList
<1>10. ASSUME NEW t \in Allocated'
       PROVE  /\ Counts(blink_array'[t], shown_for'[t])
              /\ t \notin synced' => Shows(t, blink_array'[t], screen')
  <2>1. CASE t = s2
    <3>1. Counts(a, shown_for[s1])
      BY <1>0, <1>2, Zenon DEF Counting
    <3>2. Counts(b, shown_for[s1])
      BY <1>4, <3>1, Zenon DEF Counts
    <3> QED
      BY <1>1, <1>5, <2>1, <3>2
  <2>2. CASE t # s2
    <3>1. /\ t \in Allocated /\ t \in Structs
          /\ blink_array'[t] = blink_array[t] /\ shown_for'[t] = shown_for[t]
      BY <1>5, <1>9, <2>2 DEF Allocated
    <3>2. Counts(blink_array[t], shown_for[t])
      BY <1>0, <3>1, Zenon DEF Counting
    <3>3. t \notin synced => Shows(t, blink_array[t], screen)
      BY <1>0, <3>1, Zenon DEF ShowsStatus, Shows
    <3>4. blink_array[t].location \in 1 .. SCREEN - 1
      BY <1>0, <3>1 DEF BlinkTypes, Structures, Allocated
    <3>5. CASE blink_array[t].location = l2
      <4>1. screen'[blink_array[t].location].by # t
        BY <1>7, <2>2, <3>5
      <4> QED
        BY <3>1, <3>2, <4>1, Zenon DEF Shows
    <3>6. CASE blink_array[t].location # l2
      <4>1. screen'[blink_array[t].location] = screen[blink_array[t].location]
        BY <1>7, <3>4, <3>6, Zenon
      <4>2. t \notin synced' => t \notin synced
        BY <1>1, <2>2, Zenon
      <4>3. t \notin synced' => Shows(t, blink_array[t], screen')
        BY <3>3, <4>1, <4>2, Zenon DEF Shows
      <4> QED
        BY <3>1, <3>2, <4>3, Zenon
    <3> QED
      BY <3>5, <3>6, Zenon
  <2> QED
    BY <2>1, <2>2
<1>11. NeverEarly
  <2>1. \A t \in Allocated \ synced' : t \in Structs /\ t # s2
    BY <1>1 DEF Allocated
  <2> QED
    BY <1>5, <2>1, Zenon DEF NeverEarly
<1> QED
  BY <1>8, <1>9, <1>10, <1>11, BlinkInvNext

(* A tick counts the structures on the list down, and shows the other      *)
(* character of those that come to their end.                              *)
LEMMA TickStep ==
  ASSUME BlinkInv, mp1_rtc_tasklet
  PROVE  BlinkInv' /\ NeverEarly
<1>0. PICK c : BlinkTypes /\ IsList(c) /\ Counting /\ ShowsStatus
  BY Zenon DEF BlinkInv
<1>1. PICK D :
        /\ D = {s \in Allocated : expired(counted(s).countdown)}
        /\ blink_array' = [s \in Structs |->
                             CASE s \in D             -> toggled(counted(s))
                               [] s \in Allocated \ D -> counted(s)
                               [] OTHER               -> blink_array[s]]
        /\ screen' = screen_after(c, D)
        /\ shown_for' = [s \in Structs |->
                           IF s \in Allocated \ D THEN shown_for[s] + 1 ELSE 0]
        /\ synced' = synced \ D
        /\ mp1_list_head' = mp1_list_head
  <2>1. list = c /\ Elements(c) = Allocated
    BY <1>0, ListFound, Zenon DEF IsList
  <2>2. due = {s \in Allocated : expired(counted(s).countdown)}
    BY <2>1, Zenon DEF due
  <2>3. /\ blink_array' = [s \in Structs |->
                             CASE s \in due -> toggled(counted(s))
                               [] s \in Elements(list) \ due -> counted(s)
                               [] OTHER -> blink_array[s]]
        /\ screen' = screen_after(list, due)
        /\ shown_for' = [s \in Structs |->
                           IF s \in Elements(list) \ due THEN shown_for[s] + 1
                           ELSE 0]
        /\ synced' = synced \ due
        /\ mp1_list_head' = mp1_list_head
    BY Zenon DEF mp1_rtc_tasklet
  <2> QED
    BY <2>1, <2>2, <2>3, Zenon
<1>2. \A s \in Structs :
        /\ s \in D => blink_array'[s] = toggled(counted(s))
        /\ s \in Allocated /\ s \notin D => blink_array'[s] = counted(s)
        /\ s \notin Allocated => blink_array'[s] = blink_array[s]
        /\ shown_for'[s] = IF s \in Allocated \ D THEN shown_for[s] + 1 ELSE 0
  BY <1>1
<1>3. ASSUME NEW s \in Structs
      PROVE  LET b == blink_array[s]
                 e == counted(s)
                 f == toggled(e)
             IN /\ b \in Structures /\ e \in Structures /\ f \in Structures
                /\ length(b) \in Lengths
                /\ e.countdown = (b.countdown - 1) % two_to[WIDTH]
                /\ e.location = b.location /\ e.next = b.next
                /\ e.status = b.status /\ length(e) = length(b)
                /\ f.location = b.location /\ f.next = b.next
                /\ f.status = char_shown(e) /\ length(f) = f.countdown
                /\ f.countdown \in Lengths
  <2> DEFINE b == blink_array[s]
             e == counted(s)
             f == toggled(e)
  <2>1. b \in Structures
    BY <1>0 DEF BlinkTypes
  <2>2. (b.countdown - 1) % two_to[WIDTH] \in Lengths
    <3>1. b.countdown - 1 \in Int /\ two_to[WIDTH] \in Nat /\ two_to[WIDTH] > 0
      BY <2>1, WidthFacts DEF Structures, Lengths
    <3> HIDE DEF b
    <3> QED
      BY <3>1 DEF Lengths
  <2>3. e = [b EXCEPT !.countdown = (b.countdown - 1) % two_to[WIDTH]]
    BY Zenon DEF counted, decremented
  <2> HIDE DEF b, e, f
  <2>4. /\ e \in Structures
        /\ e.countdown = (b.countdown - 1) % two_to[WIDTH]
        /\ e.location = b.location /\ e.next = b.next
        /\ e.status = b.status /\ e.on_length = b.on_length
        /\ e.off_length = b.off_length
    BY <2>1, <2>2, <2>3 DEF Structures
  <2>5. length(e) = length(b) /\ length(b) \in Lengths
    BY <2>1, <2>4 DEF length, Structures
  <2>6. f = [e EXCEPT !.countdown = IF e.status = 1 THEN e.off_length
                                    ELSE e.on_length,
                      !.status = 1 - e.status]
    BY Zenon DEF f, toggled
  <2>7. /\ e.status \in {0, 1} /\ e.on_length \in Lengths
        /\ e.off_length \in Lengths
    BY <2>4 DEF Structures
  <2>8. /\ f \in Structures
        /\ f.location = e.location /\ f.next = e.next
        /\ f.on_length = e.on_length /\ f.off_length = e.off_length
        /\ f.status = 1 - e.status
        /\ f.countdown = IF e.status = 1 THEN e.off_length ELSE e.on_length
    <3>1. PICK v, w : /\ v = IF e.status = 1 THEN e.off_length ELSE e.on_length
                      /\ w = 1 - e.status
      BY Zenon
    <3>2. v \in Lengths /\ w \in {0, 1}
      BY <2>7, <3>1
    <3>3. f = [e EXCEPT !.countdown = v, !.status = w]
      BY <2>6, <3>1, Zenon
    <3> HIDE DEF Lengths
    <3>4. /\ f \in Structures
          /\ f.location = e.location /\ f.next = e.next
          /\ f.on_length = e.on_length /\ f.off_length = e.off_length
          /\ f.status = w /\ f.countdown = v
      BY <2>4, <3>2, <3>3, Zenon DEF Structures
    <3> QED
      BY <3>1, <3>4, Zenon
  <2>9. length(f) = f.countdown /\ f.countdown \in Lengths
    BY <2>7, <2>8 DEF length
  <2> QED
    BY <2>1, <2>4, <2>5, <2>8, <2>9, Zenon DEF char_shown, b, e, f
<1>4. ASSUME NEW s \in Structs
      PROVE  /\ blink_array'[s] \in Structures
             /\ blink_array'[s].location = blink_array[s].location
             /\ blink_array'[s].next = blink_array[s].next
  <2>1. CASE s \in D
    BY <1>2, <1>3, <2>1, Zenon
  <2>2. CASE s \in Allocated /\ s \notin D
    BY <1>2, <1>3, <2>2, Zenon
  <2>3. CASE s \notin Allocated
    BY <1>2, <1>3, <2>3, Zenon
  <2> QED
    BY <1>1, <2>1, <2>2, <2>3, Zenon
<1>5. IsList(c)' /\ Allocated' = Allocated
  <2>1. Allocated' = Allocated
    BY <1>4, Zenon DEF Allocated
  <2>2. links' = links
    BY <1>4 DEF links, NULL
  <2> QED
    BY <1>0, <1>1, <2>1, <2>2, Zenon DEF IsList
<1>6. ASSUME NEW m \in 1 .. SCREEN - 1
      PROVE  \/ /\ screen'[m] = screen[m]
                /\ \A s \in D : blink_array[s].location # m
             \/ \E s \in D : screen'[m] = [by |-> s, status |-> char_shown(counted(s))]
  <2> DEFINE at == {s \in D : blink_array[s].location = m}
             u == last_of(c, at)
  <2>1. screen'[m] = IF at = {} THEN screen[m]
                     ELSE [by |-> u, status |-> char_shown(counted(u))]
    <3>1. m \in DOMAIN screen
      BY <1>0 DEF BlinkTypes
    <3> QED
      BY <1>1, <3>1, Zenon DEF screen_after
  <2>2. CASE at = {}
    BY <2>1, <2>2, Zenon
  <2>3. CASE at # {}
    <3>1. at \subseteq Elements(c) /\ at \subseteq D /\ c \in Seq(Structs)
      BY <1>0, <1>1, ListFacts DEF IsList
    <3> HIDE DEF at
    <3>2. u \in at
      BY <2>3, <3>1, WalkFinds
    <3> QED
      BY <2>1, <2>3, <3>1, <3>2
  <2> QED
    BY <2>2, <2>3
<1>7. BlinkTypes'
  <2>1. blink_array' \in [Structs -> Structures]
    <3>1. blink_array' = [s \in Structs |-> blink_array'[s]]
      BY <1>1, Zenon
    <3> QED
      BY <1>4, <3>1, Zenon
  <2>2. screen' \in [1 .. SCREEN - 1 -> Characters]
    <3>1. screen' = [m \in 1 .. SCREEN - 1 |-> screen'[m]]
      BY <1>0, <1>1 DEF BlinkTypes, screen_after
    <3>2. \A m \in 1 .. SCREEN - 1 : screen[m] \in Characters
      BY <1>0 DEF BlinkTypes
    <3>3. ASSUME NEW s \in D
          PROVE  [by |-> s, status |-> char_shown(counted(s))] \in Characters
      <4>1. s \in Structs
        BY <1>1 DEF Allocated
      <4>2. toggled(counted(s)).status \in {0, 1}
        BY <1>3, <4>1 DEF Structures
      <4>3. char_shown(counted(s)) \in {0, 1}
        BY <1>3, <4>1, <4>2, Zenon
      <4> QED
        BY <4>1, <4>3 DEF Characters
    <3> QED
      BY <1>6, <3>1, <3>2, <3>3, Zenon
  <2>3. shown_for' \in [Structs -> Nat]
    BY <1>0, <1>1 DEF BlinkTypes
  <2> QED
    BY <2>1, <2>2, <2>3, Zenon DEF BlinkTypes
<1>8. ASSUME NEW s \in Allocated'
      PROVE  Counts(blink_array'[s], shown_for'[s])
  <2>1. s \in Allocated /\ s \in Structs
    BY <1>5 DEF Allocated
  <2>2. CASE s \in D
    <3> DEFINE f == toggled(counted(s))
    <3>1. blink_array'[s] = f /\ shown_for'[s] = 0
      BY <1>2, <2>1, <2>2, Zenon
    <3>2. length(f) = f.countdown /\ f.countdown \in Lengths
      BY <1>3, <2>1, Zenon
    <3> HIDE DEF f
    <3>3. f.countdown = (length(f) - 0) % two_to[WIDTH]
      BY <3>2, LengthRemains
    <3> QED
      BY <3>1, <3>3 DEF Counts
  <2>3. CASE s \notin D
    <3> DEFINE b == blink_array[s]
               e == counted(s)
               k == shown_for[s]
    <3>1. blink_array'[s] = e /\ shown_for'[s] = k + 1
      BY <1>2, <2>1, <2>3
    <3>2. /\ ~expired(e.countdown) /\ k \in Nat
          /\ length(b) \in Lengths /\ length(e) = length(b)
          /\ e.countdown = (b.countdown - 1) % two_to[WIDTH]
      <4>1. k \in Nat
        BY <1>0, <2>1 DEF BlinkTypes
      <4>2. ~expired(e.countdown)
        BY <1>1, <2>1, <2>3, Zenon
      <4> QED
        BY <1>3, <2>1, <4>1, <4>2, Zenon
    <3>3. /\ b.countdown = (length(b) - k) % two_to[WIDTH]
          /\ k > 0 => k < length(b) /\ length(b) <= two_to[WIDTH - 1]
      BY <1>0, <2>1, Zenon DEF Counting, Counts
    <3> HIDE DEF b, e, k
    <3>4. /\ e.countdown = (length(b) - (k + 1)) % two_to[WIDTH]
          /\ k + 1 < length(b) /\ length(b) <= two_to[WIDTH - 1]
      BY <3>2, <3>3, TickCounted
    <3> QED
      BY <3>1, <3>2, <3>4 DEF Counts
  <2> QED
    BY <2>2, <2>3
<1>9. ASSUME NEW s \in Allocated', s \notin synced'
      PROVE  Shows(s, blink_array'[s], screen')
  <2>1. s \in Allocated /\ s \in Structs
    BY <1>5 DEF Allocated
  <2> DEFINE m == blink_array[s].location
  <2>2. m \in 1 .. SCREEN - 1 /\ blink_array'[s].location = m
    BY <1>3, <1>4, <2>1 DEF Allocated, Structures
  <2>3. SUFFICES ASSUME screen'[m].by = s
                 PROVE  screen'[m].status = blink_array'[s].status
    BY <2>2, Zenon DEF Shows
  <2>4. CASE \E t \in D : screen'[m] = [by |-> t, status |-> char_shown(counted(t))]
    <3>1. PICK t \in D : screen'[m] = [by |-> t, status |-> char_shown(counted(t))]
      BY <2>4
    <3>2. t = s /\ screen'[m].status = char_shown(counted(s))
      BY <2>3, <3>1
    <3> QED
      BY <1>2, <1>3, <2>1, <3>1, <3>2, Zenon
  <2>5. CASE screen'[m] = screen[m] /\ \A t \in D : blink_array[t].location # m
    <3>1. s \notin D /\ s \notin synced
      BY <1>1, <1>9, <2>5
    <3>2. screen[m].status = blink_array[s].status
      BY <1>0, <2>1, <2>3, <2>5, <3>1, Zenon DEF ShowsStatus
    <3>3. blink_array'[s].status = blink_array[s].status
      BY <1>2, <1>3, <2>1, <3>1, Zenon
    <3> QED
      BY <2>5, <3>2, <3>3, Zenon
  <2> QED
    BY <1>6, <2>2, <2>4, <2>5, Zenon
<1>10. NeverEarly
  <2> SUFFICES ASSUME NEW s \in Allocated,
                      blink_array'[s].status # blink_array[s].status
               PROVE  shown_for[s] + 1 = lasts(blink_array[s])
    BY Zenon DEF NeverEarly
  <2>1. s \in Structs
    BY DEF Allocated
  <2>2. s \in D
    BY <1>2, <1>3, <2>1, Zenon
  <2>3. expired(counted(s).countdown) /\ shown_for[s] \in Nat
    BY <1>0, <1>1, <2>1, <2>2 DEF BlinkTypes
  <2>4. Counts(blink_array[s], shown_for[s])
    BY <1>0, Zenon DEF Counting
  <2> QED
    BY <1>3, <2>1, <2>3, <2>4, TickExpires, Zenon DEF Counts, lasts
<1> QED
  BY <1>5, <1>7, <1>8, <1>9, <1>10, BlinkInvNext, Zenon

(* Every request and every tick keep the invariant.                        *)
THEOREM BlinkInvariant ==
  BlinkSpec => []BlinkInv /\ [][NeverEarly]_blink_vars
<1>1. BlinkInit => BlinkInv
  <2> SUFFICES ASSUME BlinkInit PROVE BlinkInv
    OBVIOUS
  <2>1. /\ blink_array = [s \in Structs |-> free]
        /\ mp1_list_head = 0
        /\ screen = [l \in 1 .. SCREEN - 1 |-> Nothing]
        /\ shown_for = [s \in Structs |-> 0]
    BY Zenon DEF BlinkInit, NULL
  <2>2. free \in Structures /\ free.location = 0
    <3>1. 0 \in Lengths
      BY WidthFacts DEF Lengths
    <3> QED
      BY <3>1 DEF free, Structures, NULL
  <2>3. Nothing \in Characters
    BY DEF Nothing, Characters
  <2>4. BlinkTypes
    BY <2>1, <2>2, <2>3 DEF BlinkTypes
  <2>5. Allocated = {}
    BY <2>1, <2>2 DEF Allocated
  <2>6. IsList(<<>>)
    BY <2>1, <2>5 DEF IsList, IsLine, Elements
  <2>7. Counting /\ ShowsStatus
    BY <2>5, Zenon DEF Counting, ShowsStatus
  <2> QED
    BY <2>4, <2>6, <2>7, Zenon DEF BlinkInv
<1>2. BlinkInv /\ [BlinkNext]_blink_vars => BlinkInv' /\ [NeverEarly]_blink_vars
  <2> SUFFICES ASSUME BlinkInv, [BlinkNext]_blink_vars
               PROVE  BlinkInv' /\ [NeverEarly]_blink_vars
    OBVIOUS
  <2>1. CASE mp1_ioctl
    BY <2>1, AddStep, RemoveStep, SyncStep, Zenon DEF mp1_ioctl
  <2>2. CASE mp1_rtc_tasklet
    BY <2>2, TickStep, Zenon
  <2>3. CASE UNCHANGED blink_vars
    BY <2>3
       DEF blink_vars, BlinkInv, BlinkTypes, IsList, links, Allocated,
           Counting, Counts, ShowsStatus
  <2> QED
    BY <2>1, <2>2, <2>3, Zenon DEF BlinkNext
<1> QED
  BY <1>1, <1>2, PTL DEF BlinkSpec

(* The list of structures ends, and holds exactly those in use, whatever   *)
(* the order of additions and removals.                                    *)
THEOREM BlinkListCorrect == BlinkSpec => []ListHoldsAllocated
<1>1. BlinkInv => ListHoldsAllocated
  <2> SUFFICES ASSUME BlinkInv PROVE ListHoldsAllocated
    OBVIOUS
  <2>1. PICK c : BlinkTypes /\ IsList(c)
    BY Zenon DEF BlinkInv
  <2>2. list = c
    BY <2>1, ListFound, Zenon
  <2>3. /\ \A i, j \in 1 .. Len(c) : c[i] = c[j] => i = j
        /\ Elements(c) = Allocated
    BY <2>1, Zenon DEF IsList, IsLine
  <2> QED
    BY <2>2, <2>3, Zenon DEF ListHoldsAllocated
<1> QED
  BY <1>1, BlinkInvariant, PTL

(* A character blinks after exactly as many ticks as its length says, or   *)
(* at every tick when the length is zero or looks negative.                *)
THEOREM BlinkTicksCorrect == BlinkSpec => CountsTicks
<1>1. BlinkInv => NeverLate
  <2> SUFFICES ASSUME BlinkInv, NEW s \in Allocated
               PROVE  shown_for[s] < lasts(blink_array[s])
    BY Zenon DEF NeverLate
  <2> DEFINE b == blink_array[s]
             k == shown_for[s]
  <2>1. s \in Structs /\ BlinkTypes
    BY Zenon DEF BlinkInv, Allocated
  <2>2. b \in Structures /\ k \in Nat
    BY <2>1 DEF BlinkTypes
  <2>3. Counts(b, k)
    BY Zenon DEF BlinkInv, Counting
  <2> HIDE DEF b, k
  <2>4. length(b) \in Lengths
    BY <2>2 DEF Structures, length
  <2>5. k < lasts(b)
    BY <2>2, <2>3, <2>4, WidthFacts DEF Counts, Lengths, lasts
  <2> QED
    BY <2>5 DEF b, k
<1> QED
  BY <1>1, BlinkInvariant, PTL DEF CountsTicks

(* A location shows the character that the status of its last writer       *)
(* names, synchronised ones apart.                                         *)
THEOREM BlinkScreenCorrect == BlinkSpec => []ShowsStatus
<1>1. BlinkInv => ShowsStatus
  BY Zenon DEF BlinkInv
<1> QED
  BY <1>1, BlinkInvariant, PTL
=============================================================================
