------------------------------- MODULE Basics -------------------------------
(***************************************************************************)
(* Facts that the proofs rest on: induction, definition by recursion, the  *)
(* uniqueness of quotient and remainder, the powers of two, sequences, and *)
(* stacks of processes that lead from each one to its parent.              *)
(***************************************************************************)
EXTENDS PowersOfTwo, Chains, WellFoundedInduction, TLAPS

(* A nonempty set of natural numbers has a least element.                  *)
LEMMA NatMin ==
  ASSUME NEW T \in SUBSET Nat, T # {}
  PROVE  \E x \in T : \A y \in T : x <= y
<1> DEFINE R == {ij \in Nat \X Nat : ij[1] < ij[2]}
<1>1. IsWellFoundedOn(R, Nat)
  BY NatLessThanWellFounded DEF OpToRel
<1>2. \E x \in T : \A y \in T : ~ (<<y, x>> \in R)
  BY <1>1, WFMin, Zenon
<1>3. ASSUME NEW x \in Nat, NEW y \in Nat, ~(<<y, x>> \in R)
      PROVE  x <= y
  <2>1. <<y, x>> \in Nat \X Nat /\ <<y, x>>[1] = y /\ <<y, x>>[2] = x
    OBVIOUS
  <2>2. ~(y < x)
    BY <1>3, <2>1
  <2> QED
    BY <2>2
<1> QED
  BY <1>2, <1>3, Zenon

(* Induction: a set with 0 and the successors of its members is Nat.       *)
LEMMA Induction ==
  ASSUME NEW T \in SUBSET Nat, 0 \in T, \A n \in T : n + 1 \in T
  PROVE  T = Nat
<1> SUFFICES ASSUME Nat \ T # {} PROVE FALSE
  BY Zenon
<1>1. PICK x \in Nat \ T : \A y \in Nat \ T : x <= y
  BY NatMin, Zenon
<1>2. x # 0 /\ x - 1 \in Nat
  BY <1>1
<1>3. x - 1 \in T
  BY <1>1, <1>2
<1> QED
  BY <1>1, <1>2, <1>3

(* Quotient and remainder are the only numbers that could be them.         *)
LEMMA DivMod ==
  ASSUME NEW q \in Nat, NEW m \in Nat, NEW r \in Nat, r < m
  PROVE  (q * m + r) \div m = q /\ (q * m + r) % m = r
BY SMTT(60)

(* There are a quotient and a remainder.                                   *)
LEMMA DivModExists ==
  ASSUME NEW a \in Nat, NEW m \in Nat \ {0}
  PROVE  /\ a \div m \in Nat
         /\ a % m \in 0 .. m - 1
         /\ a = (a \div m) * m + (a % m)
OBVIOUS

-----------------------------------------------------------------------------
(* A function applied again and again: its first n values exist, are       *)
(* unique, and so make up a function on all natural numbers.  This is what *)
(* a recursive definition over the natural numbers rests on.               *)
Iterates(S, a, F, n) ==
  {g \in [0 .. n -> S] : g[0] = a /\ \A i \in 0 .. n - 1 : g[i + 1] = F[g[i]]}

(* The first n values exist.                                               *)
LEMMA IteratesExist ==
  ASSUME NEW S, NEW a \in S, NEW F \in [S -> S]
  PROVE  \A n \in Nat : Iterates(S, a, F, n) # {}
<1> DEFINE T == {n \in Nat : Iterates(S, a, F, n) # {}}
<1>1. 0 \in T
  <2>1. [i \in 0 .. 0 |-> a] \in Iterates(S, a, F, 0)
    BY DEF Iterates
  <2> QED
    BY <2>1
<1>2. ASSUME NEW n \in T PROVE n + 1 \in T
  <2>1. PICK g \in [0 .. n -> S] :
          g[0] = a /\ \A i \in 0 .. n - 1 : g[i + 1] = F[g[i]]
    BY DEF Iterates
  <2> DEFINE h == [i \in 0 .. n + 1 |-> IF i = n + 1 THEN F[g[n]] ELSE g[i]]
  <2>2. h \in [0 .. n + 1 -> S] /\ h[0] = a
    BY <2>1
  <2>3. \A i \in 0 .. n : h[i + 1] = F[h[i]]
    BY <2>1
  <2>4. h \in Iterates(S, a, F, n + 1)
    <3> HIDE DEF h
    <3>1. n + 1 - 1 = n
      OBVIOUS
    <3> QED
      BY <2>2, <2>3, <3>1 DEF Iterates
  <2> QED
    BY <2>4
<1>3. T = Nat
  <2> HIDE DEF T
  <2> QED
    BY <1>1, <1>2, Induction, Zenon DEF T
<1> QED
  BY <1>3

(* They are unique.                                                        *)
LEMMA IteratesAgree ==
  ASSUME NEW S, NEW a \in S, NEW F \in [S -> S],
         NEW n \in Nat, NEW m \in Nat, m <= n,
         NEW g \in Iterates(S, a, F, n), NEW h \in Iterates(S, a, F, m)
  PROVE  g[m] = h[m]
<1> DEFINE T == {i \in Nat : i <= m => g[i] = h[i]}
<1>1. 0 \in T
  BY DEF Iterates
<1>2. ASSUME NEW i \in T PROVE i + 1 \in T
  BY DEF Iterates
<1>3. T = Nat
  <2> HIDE DEF T
  <2> QED
    BY <1>1, <1>2, Induction, Zenon DEF T
<1> QED
  BY <1>3

(* The function they make up.                                              *)
IsIteration(f, S, a, F) ==
  f \in [Nat -> S] /\ f[0] = a /\ \A k \in Nat : f[k + 1] = F[f[k]]

(* There is one.                                                           *)
LEMMA Iteration ==
  ASSUME NEW S, NEW a \in S, NEW F \in [S -> S]
  PROVE  \E f : IsIteration(f, S, a, F)
<1> DEFINE I(n) == Iterates(S, a, F, n)
           g(n) == CHOOSE h : h \in I(n)
           f0 == [k \in Nat |-> g(k)[k]]
<1>1. \A n \in Nat : g(n) \in I(n)
  BY IteratesExist
<1>2. f0 \in [Nat -> S] /\ f0[0] = a
  <2>1. \A n \in Nat : g(n)[n] \in S
    <3> SUFFICES ASSUME NEW n \in Nat PROVE g(n)[n] \in S
      OBVIOUS
    <3>1. g(n) \in [0 .. n -> S]
      BY <1>1, Zenon DEF Iterates
    <3> HIDE DEF g
    <3> QED
      BY <3>1
  <2>2. g(0)[0] = a
    BY <1>1, Zenon DEF Iterates
  <2> HIDE DEF g
  <2> QED
    BY <2>1, <2>2
<1>3. ASSUME NEW k \in Nat PROVE f0[k + 1] = F[f0[k]]
  <2>1. g(k) \in I(k) /\ g(k + 1) \in I(k + 1)
    BY <1>1
  <2>2. g(k + 1)[k] = g(k)[k]
    BY <2>1, IteratesAgree
  <2>3. g(k + 1)[k + 1] = F[g(k + 1)[k]]
    <3> HIDE DEF g
    <3> QED
      BY <2>1 DEF Iterates
  <2> QED
    BY <2>2, <2>3
<1> HIDE DEF f0
<1> QED
  BY <1>2, <1>3 DEF IsIteration

-----------------------------------------------------------------------------
(* two_to is the function its recursive definition describes.              *)
LEMMA TwoTo ==
  /\ two_to \in [Nat -> Nat]
  /\ two_to[0] = 1
  /\ \A k \in Nat : two_to[k + 1] = 2 * two_to[k]
<1> DEFINE F(f) == f = [k \in Nat |-> IF k = 0 THEN 1 ELSE 2 * f[k - 1]]
           double == [x \in Nat |-> 2 * x]
<1>1. PICK f0 \in [Nat -> Nat] :
        f0[0] = 1 /\ \A k \in Nat : f0[k + 1] = double[f0[k]]
  <2>1. double \in [Nat -> Nat]
    OBVIOUS
  <2>2. 1 \in Nat
    OBVIOUS
  <2> HIDE DEF double
  <2>3. \E f : IsIteration(f, Nat, 1, double)
    BY <2>1, <2>2, Iteration
  <2> QED
    BY <2>3 DEF IsIteration
<1>2. f0 \in [Nat -> Nat] /\ f0[0] = 1
  BY <1>1
<1>3. ASSUME NEW k \in Nat PROVE f0[k + 1] = 2 * f0[k]
  BY <1>1, Zenon
<1>4. F(f0)
  <2>1. f0 = [k \in Nat |-> f0[k]]
    BY <1>2
  <2>2. \A k \in Nat : f0[k] = IF k = 0 THEN 1 ELSE 2 * f0[k - 1]
    BY <1>2, <1>3
  <2> QED
    BY <2>1, <2>2
<1>5. F(two_to)
  BY <1>4 DEF two_to
<1>a. /\ DOMAIN two_to = Nat /\ two_to = [k \in Nat |-> two_to[k]]
      /\ \A k \in Nat : two_to[k] = IF k = 0 THEN 1 ELSE 2 * two_to[k - 1]
  <2>1. DOMAIN two_to = Nat
    BY <1>5
  <2>2. \A k \in Nat : two_to[k] = IF k = 0 THEN 1 ELSE 2 * two_to[k - 1]
    BY <1>5, Zenon
  <2>3. two_to = [k \in Nat |-> two_to[k]]
    BY <1>5, <2>1
  <2> QED
    BY <2>1, <2>2, <2>3
<1>6. /\ two_to[0] = 1
      /\ \A k \in Nat : two_to[k + 1] = 2 * two_to[k]
  <2>1. \A k \in Nat : k + 1 \in Nat /\ k + 1 # 0 /\ (k + 1) - 1 = k
    OBVIOUS
  <2> HIDE DEF two_to
  <2> QED
    BY <1>a, <2>1
<1>7. \A k \in Nat : two_to[k] \in Nat
  <2> DEFINE T == {k \in Nat : two_to[k] \in Nat}
  <2>1. 0 \in T /\ \A k \in T : k + 1 \in T
    <3> HIDE DEF two_to
    <3> QED
      BY <1>6
  <2>2. T = Nat
    <3> HIDE DEF T
    <3> QED
      BY <2>1, Induction, Zenon DEF T
  <2> QED
    BY <2>2
<1> QED
  <2> HIDE DEF two_to
  <2> QED
    BY <1>a, <1>6, <1>7

(* A power of two is positive.                                             *)
LEMMA TwoToPositive == \A k \in Nat : two_to[k] >= 1
<1> DEFINE T == {k \in Nat : two_to[k] >= 1}
<1>1. 0 \in T /\ \A k \in T : k + 1 \in T
  BY TwoTo
<1>2. T = Nat
  <2> HIDE DEF T
  <2> QED
    BY <1>1, Induction, Zenon DEF T
<1> QED
  BY <1>2

(* Exponents add.                                                          *)
LEMMA TwoToSum ==
  ASSUME NEW a \in Nat, NEW b \in Nat
  PROVE  two_to[a + b] = two_to[a] * two_to[b]
<1> DEFINE T == {n \in Nat : two_to[a + n] = two_to[a] * two_to[n]}
<1>1. 0 \in T
  BY TwoTo
<1>2. ASSUME NEW n \in T PROVE n + 1 \in T
  <2>1. two_to[a + (n + 1)] = 2 * two_to[a + n] /\ two_to[n + 1] = 2 * two_to[n]
    BY TwoTo
  <2>2. two_to[a] \in Nat /\ two_to[n] \in Nat
    BY TwoTo
  <2> QED
    BY <2>1, <2>2
<1>3. T = Nat
  <2> HIDE DEF T
  <2> QED
    BY <1>1, <1>2, Induction, Zenon DEF T
<1> QED
  BY <1>3

(* Different exponents, different powers.                                  *)
LEMMA TwoToInjective ==
  ASSUME NEW a \in Nat, NEW b \in Nat, a < b
  PROVE  two_to[a] < two_to[b]
<1>1. b - a - 1 \in Nat
  OBVIOUS
<1>2. \A d \in Nat : two_to[d + 1] >= 2
  <2> SUFFICES ASSUME NEW d \in Nat PROVE two_to[d + 1] >= 2
    OBVIOUS
  <2>1. two_to[d] \in Nat /\ two_to[d] >= 1 /\ two_to[d + 1] = 2 * two_to[d]
    BY TwoTo, TwoToPositive
  <2> QED
    BY <2>1
<1>3. two_to[b] = two_to[a] * two_to[b - a]
  <2>1. b - a \in Nat /\ a + (b - a) = b
    OBVIOUS
  <2> QED
    BY <2>1, TwoToSum
<1>4. two_to[b - a] >= 2 /\ two_to[b - a] \in Nat
  <2>1. (b - a - 1) + 1 = b - a /\ b - a \in Nat
    OBVIOUS
  <2> QED
    BY <1>1, <1>2, <2>1, TwoTo, Zenon
<1>5. \A x, y \in Nat : x >= 1 /\ y >= 2 => x < x * y
  OBVIOUS
<1> QED
  <2>1. two_to[a] \in Nat
    BY TwoTo
  <2>2. two_to[a] >= 1
    BY TwoToPositive
  <2> QED
    BY <1>3, <1>4, <1>5, <2>1, <2>2, Zenon

(* A power divided by a smaller one.                                       *)
LEMMA TwoToDiv ==
  ASSUME NEW n \in Nat, NEW k \in 0 .. n
  PROVE  two_to[n] \div two_to[k] = two_to[n - k]
<1>1. n - k \in Nat /\ (n - k) + k = n /\ k \in Nat
  OBVIOUS
<1>2. two_to[n] = two_to[n - k] * two_to[k]
  BY <1>1, TwoToSum
<1>3. /\ two_to[k] \in Nat /\ 0 < two_to[k] /\ two_to[n - k] \in Nat
  BY <1>1, TwoTo, TwoToPositive
<1>4. (two_to[n - k] * two_to[k] + 0) \div two_to[k] = two_to[n - k]
  BY <1>3, DivMod
<1>5. two_to[n - k] * two_to[k] + 0 = two_to[n - k] * two_to[k]
  BY <1>3
<1> QED
  BY <1>2, <1>4, <1>5

-----------------------------------------------------------------------------
(* A sequence without its last element.                                    *)
LEMMA AllButLast ==
  ASSUME NEW S, NEW c \in Seq(S), c # <<>>
  PROVE  /\ SubSeq(c, 1, Len(c) - 1) \in Seq(S)
         /\ Len(SubSeq(c, 1, Len(c) - 1)) = Len(c) - 1
         /\ \A k \in 1 .. Len(c) - 1 : SubSeq(c, 1, Len(c) - 1)[k] = c[k]
         /\ c[Len(c)] \in S /\ Len(c) \in Nat /\ Len(c) > 0
<1>1. PICK n \in Nat : n + 1 = Len(c)
  <2>1. Len(c) \in Nat /\ Len(c) # 0
    OBVIOUS
  <2>2. \A m \in Nat : m # 0 => m - 1 \in Nat /\ (m - 1) + 1 = m
    OBVIOUS
  <2> QED
    BY <2>1, <2>2
<1>2. Len(c) - 1 = n /\ n <= Len(c) /\ Len(c) \in Nat /\ Len(c) > 0
  BY <1>1
<1>3. /\ SubSeq(c, 1, n) \in Seq(S)
      /\ Len(SubSeq(c, 1, n)) = n
      /\ \A k \in 1 .. n : SubSeq(c, 1, n)[k] = c[k]
  BY <1>2
<1>4. c[Len(c)] \in S
  BY <1>2
<1> QED
  BY <1>2, <1>3, <1>4

(* Pigeonholes: n of them hold no more than n things, one in each.         *)
LEMMA Pigeonholes ==
  ASSUME NEW n \in Nat, NEW m \in Nat, NEW f \in [1 .. m -> 1 .. n],
         \A i, j \in 1 .. m : f[i] = f[j] => i = j
  PROVE  m <= n
<1> DEFINE OneEach(g, k) == \A i, j \in 1 .. k : g[i] = g[j] => i = j
           T == {h \in Nat : \A k \in Nat : \A g \in [1 .. k -> 1 .. h] :
                               OneEach(g, k) => k <= h}
<1>1. 0 \in T
  <2>1. ASSUME NEW k \in Nat, NEW g \in [1 .. k -> 1 .. 0] PROVE k <= 0
    <3>1. 1 \notin 1 .. k
      <4>1. \A i \in 1 .. k : g[i] \in 1 .. 0
        OBVIOUS
      <4>2. 1 .. 0 = {}
        OBVIOUS
      <4> QED
        BY <4>1, <4>2, Zenon
    <3> QED
      BY <3>1
  <2> QED
    BY <2>1
<1>2. ASSUME NEW h \in T PROVE h + 1 \in T
  <2>a. h \in Nat /\ h + 1 \in Nat
    BY <1>2
  <2> SUFFICES ASSUME NEW k \in Nat, NEW g \in [1 .. k -> 1 .. h + 1],
                      OneEach(g, k)
               PROVE  k <= h + 1
    <3> HIDE DEF OneEach
    <3> QED
      BY <2>a, Zenon
  <2>0. CASE k = 0
    BY <2>0, <2>a
  <2>b. SUFFICES ASSUME k # 0 PROVE k <= h + 1
    BY <2>0, Zenon
  <2> DEFINE d == [i \in 1 .. k - 1 |-> IF g[i] = h + 1 THEN g[k] ELSE g[i]]
  <2>1. /\ h \in Nat /\ k - 1 \in Nat
        /\ \A g2 \in [1 .. k - 1 -> 1 .. h] : OneEach(g2, k - 1) => k - 1 <= h
    <3> HIDE DEF OneEach
    <3>1. h \in Nat /\ k - 1 \in Nat
      BY <2>a, <2>b
    <3> QED
      BY <1>2, <3>1, Zenon
  <2>2. ASSUME NEW i \in 1 .. k - 1
        PROVE  i \in 1 .. k /\ i # k /\ k \in 1 .. k
    OBVIOUS
  <2>3. \A i \in 1 .. k : g[i] \in 1 .. h + 1
    OBVIOUS
  <2>4. ASSUME NEW i \in 1 .. k - 1 PROVE d[i] \in 1 .. h
    <3>1. g[i] # g[k]
      BY <2>2
    <3>2. CASE g[i] = h + 1
      BY <2>1, <2>2, <2>3, <3>1, <3>2
    <3>3. CASE g[i] # h + 1
      BY <2>1, <2>2, <2>3, <3>3
    <3> QED
      BY <3>2, <3>3
  <2>5. ASSUME NEW i \in 1 .. k - 1, NEW j \in 1 .. k - 1, d[i] = d[j]
        PROVE  i = j
    BY <2>2, <2>5
  <2>6. d \in [1 .. k - 1 -> 1 .. h]
    BY <2>4
  <2> HIDE DEF d
  <2>7. k - 1 <= h
    BY <2>1, <2>5, <2>6, Zenon
  <2> QED
    BY <2>1, <2>7
<1>3. T = Nat
  <2> HIDE DEF OneEach
  <2>1. T \in SUBSET Nat
    OBVIOUS
  <2> HIDE DEF T
  <2> QED
    BY <1>1, <1>2, <2>1, Induction, Zenon
<1> QED
  BY <1>3, Zenon

-----------------------------------------------------------------------------
(* Stacks of processes.  The sequence s leads from a base shell by way of  *)
(* parents to p; slots are the numbers that a process can have, and 0,     *)
(* which is not one of them, stands for none.                              *)
IsLine(slots, parent, s, p) ==
  /\ s \in Seq(slots)
  /\ p = IF s = <<>> THEN 0 ELSE s[Len(s)]
  /\ \A i \in 1 .. Len(s) : parent[s[i]] = IF i = 1 THEN 0 ELSE s[i - 1]
  /\ \A i, j \in 1 .. Len(s) : s[i] = s[j] => i = j

(* st holds the stack of each terminal, given the processes alive, their   *)
(* parents and terminals, and the active processes.                        *)
StacksOf(slots, terms, st, live, parent, term, act) ==
  /\ st \in [terms -> Seq(slots)]
  /\ \A t \in terms :
       /\ IsLine(slots, parent, st[t], act[t])
       /\ \A i \in 1 .. Len(st[t]) : st[t][i] \in live /\ term[st[t][i]] = t
  /\ \A p \in live : \E i \in 1 .. Len(st[term[p]]) : st[term[p]][i] = p

(* The types of those.                                                     *)
StackTyped(slots, terms, live, parent, term, act) ==
  LET ids == slots \cup {0} IN
  /\ 0 \notin slots
  /\ live \in SUBSET slots
  /\ parent \in [ids -> ids]
  /\ term \in [ids -> terms]
  /\ act \in [terms -> ids]

(* What chain returns, given its recursive definition.                     *)
IsChain(ids, parent, anc) ==
  /\ \A q \in ids : anc[0][q] = <<>>
  /\ \A n \in Nat : anc[n][0] = <<>>
  /\ \A n \in Nat : \A q \in ids \ {0} :
       anc[n + 1][q] = Append(anc[n][parent[q]], q)

(* It does.                                                                *)
LEMMA ChainDefined ==
  ASSUME NEW ids, 0 \in ids, NEW parent \in [ids -> ids]
  PROVE  IsChain(ids, parent, chain(parent))
<1> DEFINE S == [ids -> Seq(ids)]
           a == [q \in ids |-> <<>>]
           F == [u \in S |-> [q \in ids |-> IF q = 0 THEN <<>>
                                             ELSE Append(u[parent[q]], q)]]
           D(d, f) == f = [n \in Nat |->
                        [q \in d |-> IF n = 0 \/ q = 0 THEN <<>>
                                     ELSE Append(f[n - 1][parent[q]], q)]]
<1>1. a \in S
  OBVIOUS
<1>2. F \in [S -> S]
  OBVIOUS
<1>3. PICK f : IsIteration(f, S, a, F)
  <2> HIDE DEF S, a, F
  <2> QED
    BY <1>1, <1>2, Iteration
<1>4. /\ f \in [Nat -> S] /\ f[0] = a
      /\ \A n \in Nat : f[n + 1] = F[f[n]]
  BY <1>3, Zenon DEF IsIteration
<1>5. ASSUME NEW n \in Nat
      PROVE  f[n] = [q \in ids |-> IF n = 0 \/ q = 0 THEN <<>>
                                    ELSE Append(f[n - 1][parent[q]], q)]
  <2>1. CASE n = 0
    BY <1>4, <2>1
  <2>2. CASE n # 0
    <3>1. n - 1 \in Nat /\ (n - 1) + 1 = n
      BY <2>2
    <3>2. f[n] = F[f[n - 1]] /\ f[n - 1] \in S
      BY <1>4, <3>1, Zenon
    <3>3. f[n] = [q \in ids |-> IF q = 0 THEN <<>>
                                 ELSE Append(f[n - 1][parent[q]], q)]
      <4> HIDE DEF S
      <4> QED
        BY <3>2, Zenon
    <3> QED
      BY <2>2, <3>3
  <2> QED
    BY <2>1, <2>2
<1>6. D(ids, f)
  <2>1. f = [n \in Nat |-> f[n]]
    BY <1>4
  <2> QED
    BY <1>5, <2>1, Zenon
<1>7. D(ids, chain(parent))
  <2>1. PICK d : d = DOMAIN parent
    OBVIOUS
  <2>2. d = ids
    BY <2>1
  <2>3. D(d, f)
    BY <1>6, <2>2, Zenon
  <2>4. chain(parent) = CHOOSE u : D(d, u)
    BY <2>1, Zenon DEF chain
  <2>5. D(d, chain(parent))
    <3> HIDE DEF D
    <3> QED
      BY <2>3, <2>4, Zenon
  <2> QED
    BY <2>2, <2>5, Zenon
<1>8. PICK g : g = chain(parent)
  OBVIOUS
<1>9. D(ids, g)
  BY <1>7, <1>8, Zenon
<1>10. \A n \in Nat : g[n] = [q \in ids |-> IF n = 0 \/ q = 0 THEN <<>>
                                    ELSE Append(g[n - 1][parent[q]], q)]
  BY <1>9, Zenon
<1> HIDE DEF D
<1>11. /\ \A q \in ids : g[0][q] = <<>>
       /\ \A n \in Nat : g[n][0] = <<>>
  <2>1. 0 \in Nat
    OBVIOUS
  <2> QED
    BY <1>10, <2>1, Zenon
<1>12. \A n \in Nat : \A q \in ids \ {0} :
         g[n + 1][q] = Append(g[n][parent[q]], q)
  <2> SUFFICES ASSUME NEW n \in Nat, NEW q \in ids \ {0}
               PROVE  g[n + 1][q] = Append(g[n][parent[q]], q)
    OBVIOUS
  <2>1. n + 1 \in Nat /\ n + 1 # 0 /\ (n + 1) - 1 = n /\ q \in ids /\ q # 0
    OBVIOUS
  <2>2. g[n + 1] = [r \in ids |-> IF n + 1 = 0 \/ r = 0 THEN <<>>
                                    ELSE Append(g[(n + 1) - 1][parent[r]], r)]
    BY <1>10, <2>1, Zenon
  <2> QED
    BY <2>1, <2>2
<1> QED
  BY <1>8, <1>11, <1>12, Zenon DEF IsChain

(* A line has no more processes than there are slots.                      *)
LEMMA LineLength ==
  ASSUME NEW N \in Nat, NEW slots, slots = 1 .. N,
         NEW parent, NEW s, NEW p, IsLine(slots, parent, s, p)
  PROVE  Len(s) \in Nat /\ Len(s) <= N
<1>1. s \in Seq(slots) /\ Len(s) \in Nat
  BY DEF IsLine
<1>3. s \in [1 .. Len(s) -> 1 .. N]
  BY <1>1
<1>4. \A i, j \in 1 .. Len(s) : s[i] = s[j] => i = j
  BY DEF IsLine
<1> QED
  BY <1>1, <1>3, <1>4, Pigeonholes, Zenon

(* The slots are numbered up to N, and parents are slots or 0.             *)
ParentsAmong(N, slots, parent) ==
  slots = 1 .. N /\ parent \in [slots \cup {0} -> slots \cup {0}]

(* Following M parents from p finds s.                                     *)
LeadsTo(parent, M, p, s) == chain(parent)[M][p] = s

(* Following the parents finds the line.                                   *)
LEMMA FollowLine ==
  ASSUME NEW N \in Nat, NEW slots, NEW parent, ParentsAmong(N, slots, parent),
         NEW s, NEW p, IsLine(slots, parent, s, p), NEW M \in Nat, N <= M
  PROVE  LeadsTo(parent, M, p, s)
<1>0. PICK ids : /\ ids = slots \cup {0} /\ parent \in [ids -> ids]
                 /\ slots = 1 .. N
  BY Zenon DEF ParentsAmong
<1> DEFINE anc == chain(parent)
           prefix(i) == [k \in 1 .. i |-> s[k]]
           T == {i \in Nat : i \in 1 .. Len(s) =>
                   \A n \in Nat : n >= i => anc[n][s[i]] = prefix(i)}
<1>1. /\ s \in Seq(slots) /\ Len(s) \in Nat
      /\ \A i \in 1 .. Len(s) : parent[s[i]] = IF i = 1 THEN 0 ELSE s[i - 1]
      /\ p = IF s = <<>> THEN 0 ELSE s[Len(s)]
  BY DEF IsLine
<1>2. Len(s) <= M
  <2>1. Len(s) <= N
    BY <1>0, LineLength
  <2> QED
    BY <1>1, <2>1
<1>a. /\ \A n \in Nat : anc[n][0] = <<>>
      /\ \A n \in Nat : \A q \in slots :
           anc[n + 1][q] = Append(anc[n][parent[q]], q)
  <2>1. 0 \in ids /\ slots = ids \ {0}
    BY <1>0
  <2>2. IsChain(ids, parent, anc)
    BY <1>0, <2>1, ChainDefined
  <2> QED
    BY <2>1, <2>2, Zenon DEF IsChain
<1> HIDE DEF anc
<1>3. 0 \in T
  OBVIOUS
<1>4. ASSUME NEW i \in T PROVE i + 1 \in T
  <2> SUFFICES ASSUME i + 1 \in 1 .. Len(s), NEW n \in Nat, n >= i + 1
               PROVE  anc[n][s[i + 1]] = prefix(i + 1)
    OBVIOUS
  <2>1. PICK m \in Nat : n = m + 1 /\ m >= i
    <3>1. n - 1 \in Nat /\ n = (n - 1) + 1 /\ n - 1 >= i
      OBVIOUS
    <3> QED
      BY <3>1
  <2>2. s[i + 1] \in slots
    BY <1>1
  <2>3. anc[n][s[i + 1]] = Append(anc[m][parent[s[i + 1]]], s[i + 1])
    BY <1>a, <2>1, <2>2, Zenon
  <2>4. anc[m][parent[s[i + 1]]] = prefix(i)
    <3>1. CASE i = 0
      <4>1. parent[s[i + 1]] = 0
        BY <1>1, <3>1
      <4>2. prefix(i) = <<>>
        BY <3>1
      <4> QED
        BY <1>a, <2>1, <4>1, <4>2, Zenon
    <3>2. CASE i # 0
      <4>1. parent[s[i + 1]] = s[(i + 1) - 1] /\ (i + 1) - 1 = i
        BY <1>1, <3>2
      <4>2. i \in 1 .. Len(s)
        BY <1>1, <3>2
      <4> QED
        BY <2>1, <4>1, <4>2
    <3> QED
      BY <3>1, <3>2
  <2>5. prefix(i) \in Seq(slots) /\ Len(prefix(i)) = i
    <3>0. i \in Nat /\ \A k \in 1 .. i : k \in 1 .. Len(s)
      BY <1>1, <1>4
    <3>1. i \in Nat /\ \A k \in 1 .. i : s[k] \in slots
      <4>1. \A k \in 1 .. Len(s) : s[k] \in slots
        BY <1>1
      <4> QED
        BY <3>0, <4>1, Zenon
    <3> QED
      BY <3>1
  <2>6. Append(prefix(i), s[i + 1]) = prefix(i + 1)
    <3> DEFINE e == Append(prefix(i), s[i + 1])
    <3>1. e \in Seq(slots) /\ Len(e) = i + 1 /\ e[i + 1] = s[i + 1]
          /\ \A k \in 1 .. i : e[k] = s[k]
      BY <1>1, <2>2, <2>5
    <3> HIDE DEF e
    <3>2. e = [k \in 1 .. i + 1 |-> e[k]]
      BY <3>1
    <3>3. \A k \in 1 .. i + 1 : e[k] = s[k]
      <4>1. \A k \in 1 .. i + 1 : k = i + 1 \/ k \in 1 .. i
        BY <1>4
      <4> QED
        BY <3>1, <4>1, Zenon
    <3>4. e = prefix(i + 1)
      BY <3>2, <3>3
    <3> QED
      BY <3>4 DEF e
  <2> QED
    BY <2>3, <2>4, <2>6
<1>5. T = Nat
  <2> HIDE DEF T
  <2> QED
    BY <1>3, <1>4, Induction, Zenon DEF T
<1>6. CASE s = <<>>
  BY <1>1, <1>2, <1>6, <1>a DEF anc, LeadsTo
<1>7. CASE s # <<>>
  <2>1. Len(s) \in 1 .. Len(s) /\ Len(s) \in T
    BY <1>1, <1>5, <1>7
  <2>2. anc[M][s[Len(s)]] = prefix(Len(s))
    BY <1>2, <2>1
  <2>3. prefix(Len(s)) = s
    BY <1>1
  <2> QED
    BY <1>1, <1>7, <2>2, <2>3, Zenon DEF anc, LeadsTo
<1> QED
  BY <1>6, <1>7

(* A sequence with one more element.                                       *)
LEMMA Appended ==
  ASSUME NEW S, NEW s \in Seq(S), NEW q \in S
  PROVE  /\ Append(s, q) \in Seq(S) /\ Append(s, q) # <<>>
         /\ Len(s) \in Nat /\ Len(Append(s, q)) = Len(s) + 1
         /\ \A i \in 1 .. Len(s) : Append(s, q)[i] = s[i]
         /\ Append(s, q)[Len(s) + 1] = q
OBVIOUS

(* A line grows by one at its end.                                         *)
LEMMA PushLine ==
  ASSUME NEW slots, NEW parent, NEW parent2, NEW s, NEW p,
         IsLine(slots, parent, s, p), NEW q \in slots, parent2[q] = p,
         \A i \in 1 .. Len(s) : s[i] # q /\ parent2[s[i]] = parent[s[i]]
  PROVE  IsLine(slots, parent2, Append(s, q), q)
<1> DEFINE e == Append(s, q)
<1>1. /\ s \in Seq(slots) /\ Len(s) \in Nat
      /\ p = IF s = <<>> THEN 0 ELSE s[Len(s)]
      /\ \A i \in 1 .. Len(s) : parent[s[i]] = IF i = 1 THEN 0 ELSE s[i - 1]
      /\ \A i, j \in 1 .. Len(s) : s[i] = s[j] => i = j
      /\ s = <<>> <=> Len(s) = 0
  BY DEF IsLine
<1>2. /\ e \in Seq(slots) /\ Len(e) = Len(s) + 1 /\ e # <<>>
      /\ \A i \in 1 .. Len(s) : e[i] = s[i]
      /\ e[Len(s) + 1] = q
  BY <1>1, Appended
<1> HIDE DEF e
<1>3. q = IF e = <<>> THEN 0 ELSE e[Len(e)]
  BY <1>2
<1>4. ASSUME NEW i \in 1 .. Len(e)
      PROVE  parent2[e[i]] = IF i = 1 THEN 0 ELSE e[i - 1]
  <2>1. CASE i = Len(s) + 1
    <3>1. parent2[e[i]] = p
      BY <1>2, <2>1
    <3>2. CASE Len(s) = 0
      BY <1>1, <2>1, <3>1, <3>2
    <3>3. CASE Len(s) # 0
      <4>1. /\ p = s[Len(s)] /\ i # 1 /\ i - 1 = Len(s)
            /\ e[Len(s)] = s[Len(s)]
        BY <1>1, <1>2, <2>1, <3>3
      <4> QED
        BY <3>1, <4>1
    <3> QED
      BY <3>2, <3>3
  <2>2. CASE i # Len(s) + 1
    <3>1. i \in 1 .. Len(s) /\ (i # 1 => i - 1 \in 1 .. Len(s))
      BY <1>1, <1>2, <2>2
    <3>2. e[i] = s[i] /\ (i # 1 => e[i - 1] = s[i - 1])
      BY <1>2, <3>1
    <3>3. parent2[s[i]] = parent[s[i]]
      BY <3>1
    <3> QED
      BY <1>1, <3>1, <3>2, <3>3
  <2> QED
    BY <2>1, <2>2
<1>5. ASSUME NEW i \in 1 .. Len(e), NEW j \in 1 .. Len(e), e[i] = e[j]
      PROVE  i = j
  <2>1. CASE i # Len(s) + 1 /\ j # Len(s) + 1
    <3>1. i \in 1 .. Len(s) /\ j \in 1 .. Len(s)
      BY <1>1, <1>2, <2>1
    <3> QED
      BY <1>1, <1>2, <1>5, <3>1
  <2>2. ASSUME NEW k \in 1 .. Len(e), e[k] = q PROVE k = Len(s) + 1
    <3>1. k # Len(s) + 1 => k \in 1 .. Len(s)
      BY <1>1, <1>2
    <3> QED
      BY <1>2, <2>2, <3>1
  <2> QED
    BY <1>2, <1>5, <2>1, <2>2
<1> QED
  BY <1>2, <1>3, <1>4, <1>5 DEF IsLine, e

(* The stacks of the refinement mapping are the only ones there can be.    *)
LEMMA StacksFound ==
  ASSUME NEW N \in Nat, NEW slots, slots = 1 .. N, NEW terms,
         NEW st, NEW live, NEW parent, NEW term, NEW act,
         StackTyped(slots, terms, live, parent, term, act),
         StacksOf(slots, terms, st, live, parent, term, act)
  PROVE  [t \in terms |-> chain(parent)[N][act[t]]] = st
<1>1. \A t \in terms : chain(parent)[N][act[t]] = st[t]
  <2>1. \A t \in terms : IsLine(slots, parent, st[t], act[t])
    BY Zenon DEF StacksOf
  <2>2. ASSUME NEW t \in terms
        PROVE  chain(parent)[N][act[t]] = st[t]
    <3>1. IsLine(slots, parent, st[t], act[t])
      BY <2>1
    <3>2. ParentsAmong(N, slots, parent)
      BY Zenon DEF StackTyped, ParentsAmong
    <3>3. N <= N
      OBVIOUS
    <3>4. LeadsTo(parent, N, act[t], st[t])
      BY <3>1, <3>2, <3>3, FollowLine, Zenon
    <3> QED
      BY <3>4, Zenon DEF LeadsTo
  <2> QED
    BY <2>2
<1>2. st = [t \in terms |-> st[t]]
  BY DEF StacksOf
<1> QED
  BY <1>1, <1>2

(* A process is put on top of terminal t's stack.                          *)
LEMMA PushStacks ==
  ASSUME NEW slots, NEW ids, ids = slots \cup {0}, 0 \notin slots,
         NEW terms,
         NEW live \in SUBSET slots, NEW parent \in [ids -> ids],
         NEW term \in [ids -> terms], NEW act \in [terms -> ids],
         NEW st, StacksOf(slots, terms, st, live, parent, term, act),
         NEW t \in terms, NEW p \in slots, p \notin live
  PROVE  StacksOf(slots, terms, [st EXCEPT ![t] = Append(@, p)], live \cup {p},
                  [parent EXCEPT ![p] = act[t]], [term EXCEPT ![p] = t],
                  [act EXCEPT ![t] = p])
<1> DEFINE s == st[t]
           e == Append(s, p)
           st2 == [st EXCEPT ![t] = e]
           live2 == live \cup {p}
           parent2 == [parent EXCEPT ![p] = act[t]]
           term2 == [term EXCEPT ![p] = t]
           act2 == [act EXCEPT ![t] = p]
<1>0. p \in ids
  OBVIOUS
<1>a. st \in [terms -> Seq(slots)]
  BY DEF StacksOf
<1>b. s \in Seq(slots) /\ Len(s) \in Nat
  <2>1. s \in Seq(slots)
    BY <1>a
  <2> QED
    BY <2>1
<1>1. /\ \A u \in terms : IsLine(slots, parent, st[u], act[u])
      /\ \A u \in terms : \A i \in 1 .. Len(st[u]) :
           st[u][i] \in live /\ term[st[u][i]] = u
      /\ \A q \in live : \E i \in 1 .. Len(st[term[q]]) : st[term[q]][i] = q
  BY Zenon DEF StacksOf
<1>2. /\ e \in Seq(slots) /\ Len(e) = Len(s) + 1 /\ e # <<>>
      /\ \A i \in 1 .. Len(s) : e[i] = s[i]
      /\ e[Len(s) + 1] = p
  <2> HIDE DEF s
  <2> QED
    BY <1>b
<1>3. /\ parent2[p] = act[t] /\ term2[p] = t /\ act2[t] = p
      /\ \A q \in live : parent2[q] = parent[q] /\ term2[q] = term[q]
      /\ \A u \in terms \ {t} : act2[u] = act[u] /\ st2[u] = st[u]
      /\ st2[t] = e
      /\ live \subseteq ids
  <2> HIDE DEF e
  <2> QED
    BY <1>0, <1>a
<1>4. st2 \in [terms -> Seq(slots)]
  <2> HIDE DEF e
  <2> QED
    BY <1>a, <1>2
<1>5. /\ \A i \in 1 .. Len(s) : s[i] \in live /\ term[s[i]] = t
      /\ act[t] = IF s = <<>> THEN 0 ELSE s[Len(s)]
      /\ \A i \in 1 .. Len(s) : parent[s[i]] = IF i = 1 THEN 0 ELSE s[i - 1]
      /\ \A i, j \in 1 .. Len(s) : s[i] = s[j] => i = j
      /\ s = <<>> <=> Len(s) = 0
  BY <1>1 DEF IsLine
<1> HIDE DEF s, e, parent2, term2, act2, st2
<1>6. IsLine(slots, parent2, e, p)
  <2>1. IsLine(slots, parent, s, act[t])
    BY <1>1 DEF s
  <2>2. \A i \in 1 .. Len(s) : s[i] # p /\ parent2[s[i]] = parent[s[i]]
    BY <1>3, <1>5
  <2>3. parent2[p] = act[t]
    BY <1>3
  <2> QED
    BY <2>1, <2>2, <2>3, PushLine DEF e
<1>7. ASSUME NEW u \in terms
      PROVE  /\ IsLine(slots, parent2, st2[u], act2[u])
             /\ \A i \in 1 .. Len(st2[u]) :
                  st2[u][i] \in live2 /\ term2[st2[u][i]] = u
  <2>1. CASE u = t
    <3>1. ASSUME NEW i \in 1 .. Len(e) PROVE e[i] \in live2 /\ term2[e[i]] = t
      <4>1. CASE i = Len(s) + 1
        BY <1>2, <1>3, <4>1
      <4>2. CASE i # Len(s) + 1
        <5>1. i \in 1 .. Len(s)
          BY <1>b, <1>2, <4>2
        <5> QED
          BY <1>2, <1>3, <1>5, <5>1
      <4> QED
        BY <4>1, <4>2
    <3> QED
      BY <1>3, <1>6, <2>1, <3>1
  <2>2. CASE u # t
    <3>1. st2[u] = st[u] /\ act2[u] = act[u]
      BY <1>3, <2>2
    <3>2. \A i \in 1 .. Len(st[u]) : st[u][i] \in live /\ term[st[u][i]] = u
      BY <1>1
    <3>3. IsLine(slots, parent2, st[u], act[u])
      <4>1. IsLine(slots, parent, st[u], act[u])
        BY <1>1
      <4> QED
        BY <1>3, <3>2, <4>1 DEF IsLine
    <3> QED
      BY <1>3, <3>1, <3>2, <3>3
  <2> QED
    BY <2>1, <2>2
<1>8. ASSUME NEW q \in live2
      PROVE  \E i \in 1 .. Len(st2[term2[q]]) : st2[term2[q]][i] = q
  <2>1. CASE q = p
    <3>1. Len(s) + 1 \in 1 .. Len(e)
      BY <1>b, <1>2
    <3> QED
      BY <1>2, <1>3, <2>1, <3>1
  <2>2. CASE q # p
    <3>1. q \in live /\ term2[q] = term[q] /\ term[q] \in terms
      BY <1>3, <2>2
    <3>2. PICK i \in 1 .. Len(st[term[q]]) : st[term[q]][i] = q
      BY <1>1, <3>1
    <3>3. CASE term[q] = t
      <4>1. i \in 1 .. Len(s) /\ s[i] = q
        BY <3>2, <3>3 DEF s
      <4>2. i \in 1 .. Len(e) /\ e[i] = q
        BY <1>b, <1>2, <4>1
      <4> QED
        BY <1>3, <3>1, <3>3, <4>2
    <3>4. CASE term[q] # t
      BY <1>3, <3>1, <3>2, <3>4
    <3> QED
      BY <3>3, <3>4
  <2> QED
    BY <2>1, <2>2
<1> HIDE DEF live2
<1>9. StacksOf(slots, terms, st2, live2, parent2, term2, act2)
  BY <1>4, <1>7, <1>8, Zenon DEF StacksOf
<1> QED
  BY <1>9 DEF st2, live2, parent2, term2, act2, e, s

(* The same as a relation between what was before and what is after.       *)
IsPush(st, live, parent, term, act, t, p, st2, live2, parent2, term2, act2) ==
  /\ p \notin live
  /\ st2 = [st EXCEPT ![t] = Append(@, p)]
  /\ live2 = live \cup {p}
  /\ parent2 = [parent EXCEPT ![p] = act[t]]
  /\ term2 = [term EXCEPT ![p] = t]
  /\ act2 = [act EXCEPT ![t] = p]

(* PushStacks, for that relation.                                          *)
LEMMA Pushed ==
  ASSUME NEW slots, NEW terms,
         NEW live, NEW parent, NEW term, NEW act, NEW st,
         StackTyped(slots, terms, live, parent, term, act),
         StacksOf(slots, terms, st, live, parent, term, act),
         NEW t \in terms, NEW p \in slots,
         NEW st2, NEW live2, NEW parent2, NEW term2, NEW act2,
         IsPush(st, live, parent, term, act, t, p,
                st2, live2, parent2, term2, act2)
  PROVE  StacksOf(slots, terms, st2, live2, parent2, term2, act2)
<1>1. StacksOf(slots, terms, [st EXCEPT ![t] = Append(@, p)], live \cup {p},
               [parent EXCEPT ![p] = act[t]], [term EXCEPT ![p] = t],
               [act EXCEPT ![t] = p])
  <2>1. p \notin live
    BY Zenon DEF IsPush
  <2> DEFINE ids == slots \cup {0}
  <2>2. /\ 0 \notin slots
        /\ live \in SUBSET slots /\ parent \in [ids -> ids]
        /\ term \in [ids -> terms] /\ act \in [terms -> ids]
    BY Zenon DEF StackTyped
  <2> QED
    BY <2>1, <2>2, PushStacks, Zenon
<1> QED
  BY <1>1, Zenon DEF IsPush

(* The process on top of terminal t's stack is taken away.                 *)
LEMMA PopStacks ==
  ASSUME NEW slots, NEW ids, ids = slots \cup {0}, 0 \notin slots,
         NEW terms,
         NEW live \in SUBSET slots, NEW parent \in [ids -> ids],
         NEW term \in [ids -> terms], NEW act \in [terms -> ids],
         NEW st, StacksOf(slots, terms, st, live, parent, term, act),
         NEW t \in terms, st[t] # <<>>
  PROVE  StacksOf(slots, terms, [st EXCEPT ![t] = SubSeq(@, 1, Len(@) - 1)],
                  live \ {act[t]}, parent, term,
                  [act EXCEPT ![t] = parent[act[t]]])
<1> DEFINE s == st[t]
           c == act[t]
           d == SubSeq(s, 1, Len(s) - 1)
           st2 == [st EXCEPT ![t] = d]
           act2 == [act EXCEPT ![t] = parent[c]]
<1>a. st \in [terms -> Seq(slots)]
  BY DEF StacksOf
<1>b. s \in Seq(slots) /\ s # <<>>
  BY <1>a
<1>1. /\ \A u \in terms : IsLine(slots, parent, st[u], act[u])
      /\ \A u \in terms : \A i \in 1 .. Len(st[u]) :
           st[u][i] \in live /\ term[st[u][i]] = u
      /\ \A q \in live : \E i \in 1 .. Len(st[term[q]]) : st[term[q]][i] = q
  BY Zenon DEF StacksOf
<1>2. /\ d \in Seq(slots) /\ Len(d) = Len(s) - 1
      /\ \A i \in 1 .. Len(s) - 1 : d[i] = s[i]
      /\ Len(s) \in Nat /\ Len(s) > 0
  <2> HIDE DEF s
  <2> QED
    BY <1>b, AllButLast
<1>3. /\ act2[t] = parent[c] /\ st2[t] = d
      /\ \A u \in terms \ {t} : act2[u] = act[u] /\ st2[u] = st[u]
      /\ st2 \in [terms -> Seq(slots)]
  <2> HIDE DEF d, c
  <2> QED
    BY <1>a, <1>2
<1>5. /\ \A i \in 1 .. Len(s) : s[i] \in live /\ term[s[i]] = t
      /\ c = s[Len(s)]
      /\ \A i \in 1 .. Len(s) : parent[s[i]] = IF i = 1 THEN 0 ELSE s[i - 1]
      /\ \A i, j \in 1 .. Len(s) : s[i] = s[j] => i = j
  BY <1>1, <1>b DEF IsLine
<1> HIDE DEF s, c, d, st2, act2
<1>c. d = <<>> <=> Len(s) = 1
  BY <1>2
<1>d. ASSUME NEW i \in 1 .. Len(s) - 1 PROVE i \in 1 .. Len(s) /\ s[i] # c
  <2>1. i \in 1 .. Len(s) /\ Len(s) \in 1 .. Len(s) /\ i # Len(s)
    BY <1>2
  <2> QED
    BY <1>5, <2>1
<1>6. IsLine(slots, parent, d, parent[c])
  <2>0. Len(s) \in 1 .. Len(s)
    BY <1>2
  <2>1. parent[c] = IF d = <<>> THEN 0 ELSE d[Len(d)]
    <3>1. CASE Len(s) = 1
      BY <1>5, <1>c, <2>0, <3>1
    <3>2. CASE Len(s) # 1
      <4>1. parent[c] = s[Len(s) - 1]
        BY <1>5, <2>0, <3>2, Zenon
      <4>2. Len(s) - 1 \in 1 .. Len(s) - 1
        BY <1>2, <3>2
      <4> QED
        BY <1>2, <1>c, <3>2, <4>1, <4>2
    <3> QED
      BY <3>1, <3>2
  <2>2. ASSUME NEW i \in 1 .. Len(d)
        PROVE  parent[d[i]] = IF i = 1 THEN 0 ELSE d[i - 1]
    <3>1. i \in 1 .. Len(s) - 1 /\ (i # 1 => i - 1 \in 1 .. Len(s) - 1)
      BY <1>2
    <3>2. d[i] = s[i] /\ (i # 1 => d[i - 1] = s[i - 1]) /\ i \in 1 .. Len(s)
      BY <1>2, <1>d, <3>1
    <3> QED
      BY <1>5, <3>2
  <2>3. ASSUME NEW i \in 1 .. Len(d), NEW j \in 1 .. Len(d), d[i] = d[j]
        PROVE  i = j
    <3>1. i \in 1 .. Len(s) - 1 /\ j \in 1 .. Len(s) - 1
      BY <1>2
    <3>2. s[i] = s[j] /\ i \in 1 .. Len(s) /\ j \in 1 .. Len(s)
      BY <1>2, <1>d, <2>3, <3>1
    <3> QED
      BY <1>5, <3>2
  <2> QED
    BY <1>2, <2>1, <2>2, <2>3 DEF IsLine
<1>7. ASSUME NEW u \in terms
      PROVE  /\ IsLine(slots, parent, st2[u], act2[u])
             /\ \A i \in 1 .. Len(st2[u]) :
                  st2[u][i] \in live \ {c} /\ term[st2[u][i]] = u
  <2>1. CASE u = t
    <3>1. ASSUME NEW i \in 1 .. Len(d)
          PROVE  d[i] \in live \ {c} /\ term[d[i]] = t
      <4>1. i \in 1 .. Len(s) - 1
        BY <1>2
      <4>2. i \in 1 .. Len(s) /\ s[i] # c /\ d[i] = s[i]
        BY <1>2, <1>d, <4>1
      <4> QED
        BY <1>5, <4>2
    <3> QED
      BY <1>3, <1>6, <2>1, <3>1
  <2>2. CASE u # t
    <3>1. st2[u] = st[u] /\ act2[u] = act[u]
      BY <1>3, <2>2
    <3>2. term[c] = t
      <4>1. Len(s) \in 1 .. Len(s)
        BY <1>2
      <4> QED
        BY <1>5, <4>1
    <3> QED
      BY <1>1, <2>2, <3>1, <3>2
  <2> QED
    BY <2>1, <2>2
<1>8. ASSUME NEW q \in live \ {c}
      PROVE  \E i \in 1 .. Len(st2[term[q]]) : st2[term[q]][i] = q
  <2>1. PICK i \in 1 .. Len(st[term[q]]) : st[term[q]][i] = q
    BY <1>1
  <2>0. term[q] \in terms
    OBVIOUS
  <2>2. CASE term[q] = t
    <3>1. i \in 1 .. Len(s) /\ s[i] = q
      BY <2>1, <2>2 DEF s
    <3>2. i \in 1 .. Len(s) - 1
      BY <1>2, <1>5, <3>1
    <3>3. i \in 1 .. Len(d) /\ d[i] = q
      BY <1>2, <3>1, <3>2
    <3> QED
      BY <1>3, <2>2, <3>3
  <2>3. CASE term[q] # t
    BY <1>3, <2>0, <2>1, <2>3
  <2> QED
    BY <2>2, <2>3
<1>9. StacksOf(slots, terms, st2, live \ {c}, parent, term, act2)
  BY <1>3, <1>7, <1>8, Zenon DEF StacksOf
<1> QED
  BY <1>9 DEF st2, act2, c, d, s

(* The same as a relation between what was before and what is after.       *)
IsPop(st, live, parent, act, t, st2, live2, act2) ==
  /\ st[t] # <<>>
  /\ st2 = [st EXCEPT ![t] = SubSeq(@, 1, Len(@) - 1)]
  /\ live2 = live \ {act[t]}
  /\ act2 = [act EXCEPT ![t] = parent[act[t]]]

(* PopStacks, for that relation.                                           *)
LEMMA Popped ==
  ASSUME NEW slots, NEW terms,
         NEW live, NEW parent, NEW term, NEW act, NEW st,
         StackTyped(slots, terms, live, parent, term, act),
         StacksOf(slots, terms, st, live, parent, term, act),
         NEW t \in terms, NEW st2, NEW live2, NEW act2,
         IsPop(st, live, parent, act, t, st2, live2, act2)
  PROVE  StacksOf(slots, terms, st2, live2, parent, term, act2)
<1>1. StacksOf(slots, terms, [st EXCEPT ![t] = SubSeq(@, 1, Len(@) - 1)],
               live \ {act[t]}, parent, term,
               [act EXCEPT ![t] = parent[act[t]]])
  <2>1. st[t] # <<>>
    BY Zenon DEF IsPop
  <2> DEFINE ids == slots \cup {0}
  <2>2. /\ 0 \notin slots
        /\ live \in SUBSET slots /\ parent \in [ids -> ids]
        /\ term \in [ids -> terms] /\ act \in [terms -> ids]
    BY Zenon DEF StackTyped
  <2> QED
    BY <2>1, <2>2, PopStacks, Zenon
<1> QED
  BY <1>1, Zenon DEF IsPop
=============================================================================
