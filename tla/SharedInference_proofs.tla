------------------------ MODULE SharedInference_proofs ------------------------
(***************************************************************************)
(* Proofs about SharedInference, for any cameras, calls and limits.        *)
(*                                                                         *)
(* The parts, in order: that the recursive functions of the module exist,  *)
(* the invariant, how a call ends, the loop that takes a batch, the        *)
(* requests, the halving of a batch and its budget of attempts, the faults *)
(* and the circuit, and the theorems.                                      *)
(***************************************************************************)
EXTENDS SharedInference, FiniteSetTheorems, SequenceTheorems, WellFoundedInduction, TLAPS

(* Recursive functions.  Each value is made from one for a smaller number.   *)
Partial(n, g, D, first, h, step) ==
    /\ g \in [0..n -> D]
    /\ g[0] = first
    /\ \A i \in 1..n : g[i] = step[<<i, g[h[i]]>>]

Total(f, D, first, h, step) ==
    /\ f \in [Nat -> D]
    /\ f[0] = first
    /\ \A n \in Nat \ {0} : f[n] = step[<<n, f[h[n]]>>]

Succession(f, D, first, step) ==
    /\ f \in [Nat -> D]
    /\ f[0] = first
    /\ \A n \in Nat \ {0} : f[n] = step[<<n, f[n - 1]>>]

(* A set of numbers has a least one.                                         *)
LeftOf == {p \in Nat \X Nat : p[1] < p[2]}

LEMMA LeastOf ==
    ASSUME NEW T \in SUBSET Nat, T # {}
    PROVE  \E x \in T : \A y \in T : x <= y
<1>1. IsWellFoundedOn(LeftOf, Nat)
  BY NatLessThanWellFounded DEF OpToRel, LeftOf
<1>2. PICK x \in T : \A y \in T : ~(<<y, x>> \in LeftOf)
  BY <1>1, WFMin
<1>3. \A y \in T : <<y, x>> \in Nat \X Nat
  OBVIOUS
<1>4. \A y \in T : ~(y < x)
  BY <1>2, <1>3 DEF LeftOf
<1>5. \A y \in T : x <= y
  BY <1>4
<1> QED
  BY <1>5

LEMMA PartialExists ==
    ASSUME NEW D, NEW first \in D, NEW h \in [Nat -> Nat], \A n \in Nat \ {0} : h[n] < n,
           NEW step \in [Nat \X D -> D]
    PROVE  \A n \in Nat : \E g : Partial(n, g, D, first, h, step)
<1> DEFINE T == {n \in Nat : ~\E g : Partial(n, g, D, first, h, step)}
<1> SUFFICES ASSUME T # {} PROVE FALSE
  OBVIOUS
<1>1. PICK n \in T : \A m \in T : n <= m
  <2>1. T \in SUBSET Nat
    OBVIOUS
  <2> HIDE DEF T
  <2> QED
    BY <2>1, LeastOf
<1>2. n \in Nat /\ ~\E g : Partial(n, g, D, first, h, step)
  OBVIOUS
<1>3. n # 0
  <2>1. Partial(0, [i \in 0..0 |-> first], D, first, h, step)
    BY DEF Partial
  <2> QED
    BY <1>2, <2>1
<1>4. PICK g : Partial(n - 1, g, D, first, h, step)
  <2>1. n - 1 \in Nat /\ ~(n <= n - 1)
    BY <1>2, <1>3
  <2>2. n - 1 \notin T
    BY <1>1, <2>1
  <2> QED
    BY <2>1, <2>2
<1> DEFINE e == [i \in 0..n |-> IF i = n THEN step[<<n, g[h[n]]>>] ELSE g[i]]
<1>5. h[n] \in 0..(n - 1) /\ g[h[n]] \in D
  BY <1>2, <1>3, <1>4 DEF Partial
<1>6. step[<<n, g[h[n]]>>] \in D
  BY <1>2, <1>5
<1>7. \A i \in 0..(n - 1) : g[i] \in D
  BY <1>4 DEF Partial
<1>a. \A i \in 0..n : i # n => i \in 0..(n - 1)
  BY <1>2
<1>b. \A i \in 0..(n - 1) : i \in 0..n /\ i # n
  BY <1>2
<1>8. e \in [0..n -> D] /\ \A i \in 0..(n - 1) : e[i] = g[i]
  BY <1>6, <1>7, <1>a, <1>b
<1>9. e[n] = step[<<n, e[h[n]]>>]
  <2>1. n \in 0..n
    BY <1>2
  <2>2. e[n] = step[<<n, g[h[n]]>>]
    BY <2>1
  <2> HIDE DEF e
  <2> QED
    BY <1>5, <1>8, <2>2
<1>10. ASSUME NEW i \in 1..(n - 1) PROVE e[i] = step[<<i, e[h[i]]>>]
  <2>1. h[i] \in 0..(n - 1) /\ i \in 0..(n - 1)
    BY <1>2
  <2>2. g[i] = step[<<i, g[h[i]]>>]
    BY <1>4 DEF Partial
  <2> QED
    BY <1>8, <2>1, <2>2
<1> HIDE DEF e
<1>11. ASSUME NEW i \in 1..n PROVE e[i] = step[<<i, e[h[i]]>>]
  BY <1>2, <1>9, <1>10
<1>12. Partial(n, e, D, first, h, step)
  BY <1>2, <1>3, <1>4, <1>8, <1>11 DEF Partial
<1> QED
  BY <1>2, <1>12

LEMMA PartialsAgree ==
    ASSUME NEW D, NEW first \in D, NEW h \in [Nat -> Nat], \A n \in Nat \ {0} : h[n] < n,
           NEW step, NEW m \in Nat, NEW n \in Nat, NEW f, NEW g,
           Partial(m, f, D, first, h, step), Partial(n, g, D, first, h, step),
           NEW i \in Nat, i <= m, i <= n
    PROVE  f[i] = g[i]
<1> DEFINE T == {j \in Nat : j <= m /\ j <= n /\ f[j] # g[j]}
<1> SUFFICES ASSUME T # {} PROVE FALSE
  OBVIOUS
<1>1. PICK j \in T : \A l \in T : j <= l
  <2>1. T \in SUBSET Nat
    OBVIOUS
  <2> HIDE DEF T
  <2> QED
    BY <2>1, LeastOf
<1>2. j \in Nat /\ j <= m /\ j <= n /\ f[j] # g[j]
  OBVIOUS
<1>3. j # 0
  BY <1>2 DEF Partial
<1>4. h[j] \in Nat /\ h[j] < j
  BY <1>2, <1>3
<1>5. f[h[j]] = g[h[j]]
  BY <1>1, <1>2, <1>4
<1>6. j \in 1..m /\ j \in 1..n
  BY <1>2, <1>3
<1>7. f[j] = step[<<j, f[h[j]]>>] /\ g[j] = step[<<j, g[h[j]]>>]
  BY <1>6 DEF Partial
<1> QED
  BY <1>2, <1>5, <1>7

LEMMA RecursionExists ==
    ASSUME NEW D, NEW first \in D, NEW h \in [Nat -> Nat], \A n \in Nat \ {0} : h[n] < n,
           NEW step \in [Nat \X D -> D]
    PROVE  \E f : Total(f, D, first, h, step)
<1> DEFINE G(n) == CHOOSE g : Partial(n, g, D, first, h, step)
           f == [n \in Nat |-> G(n)[n]]
<1>1. ASSUME NEW n \in Nat PROVE Partial(n, G(n), D, first, h, step)
  <2>1. \E g : Partial(n, g, D, first, h, step)
    BY PartialExists
  <2> QED
    BY <2>1, Zenon
<1> HIDE DEF G
<1>2. ASSUME NEW n \in Nat PROVE G(n)[n] \in D
  BY <1>1 DEF Partial
<1>3. f \in [Nat -> D]
  BY <1>2
<1>4. f[0] = first
  BY <1>1 DEF Partial
<1>5. ASSUME NEW n \in Nat \ {0} PROVE f[n] = step[<<n, f[h[n]]>>]
  <2>1. h[n] \in Nat /\ h[n] <= n
    OBVIOUS
  <2>2. G(n)[h[n]] = G(h[n])[h[n]]
    <3>1. Partial(n, G(n), D, first, h, step) /\ Partial(h[n], G(h[n]), D, first, h, step)
      BY <1>1, <2>1
    <3> DEFINE a == G(n)
               b == G(h[n])
               l == h[n]
    <3>2. Partial(n, a, D, first, h, step) /\ Partial(l, b, D, first, h, step)
          /\ l \in Nat /\ l <= n /\ l <= l
      BY <2>1, <3>1
    <3> HIDE DEF a, b, l
    <3>3. a[l] = b[l]
      BY <3>2, PartialsAgree
    <3> QED
      BY <3>3 DEF a, b, l
  <2>3. n \in 1..n /\ Partial(n, G(n), D, first, h, step)
    BY <1>1
  <2>4. G(n)[n] = step[<<n, G(n)[h[n]]>>]
    BY <2>3 DEF Partial
  <2> QED
    BY <2>1, <2>2, <2>4
<1> HIDE DEF f
<1> QED
  BY <1>3, <1>4, <1>5 DEF Total

LEMMA SuccessionExists ==
    ASSUME NEW D, NEW first \in D, NEW step \in [Nat \X D -> D]
    PROVE  \E f : Succession(f, D, first, step)
<1> DEFINE h == [n \in Nat |-> IF n = 0 THEN 0 ELSE n - 1]
<1>1. h \in [Nat -> Nat]
  OBVIOUS
<1>2. \A n \in Nat \ {0} : h[n] < n
  OBVIOUS
<1>3. \A n \in Nat \ {0} : h[n] = n - 1
  OBVIOUS
<1> HIDE DEF h
<1>4. PICK f : Total(f, D, first, h, step)
  BY <1>1, <1>2, RecursionExists
<1> QED
  BY <1>3, <1>4 DEF Total, Succession

(* What holds of the first value and of each one made from one it holds of.  *)
LEMMA RecursionKeeps ==
    ASSUME NEW D, NEW f, f[0] \in D, \A n \in Nat : f[n] \in D => f[n + 1] \in D
    PROVE  \A n \in Nat : f[n] \in D
<1> DEFINE T == {n \in Nat : f[n] \notin D}
<1> SUFFICES ASSUME T # {} PROVE FALSE
  OBVIOUS
<1>1. PICK n \in T : \A m \in T : n <= m
  <2>1. T \in SUBSET Nat
    OBVIOUS
  <2> HIDE DEF T
  <2> QED
    BY <2>1, LeastOf
<1>2. n # 0
  OBVIOUS
<1>3. n - 1 \in Nat /\ f[n - 1] \in D
  BY <1>1, <1>2
<1>4. f[(n - 1) + 1] \in D
  BY <1>3
<1> QED
  BY <1>4
------------------------------------------------------------------------------
(* r is what is left of s: its elements in their order, none of them in S.   *)
LeftOver(r, s, n, S) ==
    \E place \in [1..Len(r) -> 1..n] :
       /\ \A i \in 1..Len(r) : r[i] = s[place[i]] /\ r[i] \notin S
       /\ \A i, j \in 1..Len(r) : i < j => place[i] < place[j]

LEMMA LeftOverSame ==
    ASSUME NEW A, NEW r \in Seq(A), NEW s, NEW n \in Nat, NEW S, LeftOver(r, s, n, S)
    PROVE  LeftOver(r, s, n + 1, S)
<1>1. PICK place \in [1..Len(r) -> 1..n] :
            /\ \A i \in 1..Len(r) : r[i] = s[place[i]] /\ r[i] \notin S
            /\ \A i, j \in 1..Len(r) : i < j => place[i] < place[j]
  BY DEF LeftOver
<1>2. \A x \in 1..n : x \in 1..(n + 1)
  OBVIOUS
<1>3. place \in [1..Len(r) -> 1..(n + 1)]
  BY <1>2
<1> QED
  BY <1>1, <1>3 DEF LeftOver

LEMMA LeftOverMore ==
    ASSUME NEW A, NEW r \in Seq(A), NEW s, NEW n \in Nat, NEW S, LeftOver(r, s, n, S),
           s[n + 1] \in A, s[n + 1] \notin S
    PROVE  LeftOver(Append(r, s[n + 1]), s, n + 1, S)
<1> DEFINE l == Len(r)
           t == Append(r, s[n + 1])
<1>1. PICK place \in [1..Len(r) -> 1..n] :
            /\ \A i \in 1..Len(r) : r[i] = s[place[i]] /\ r[i] \notin S
            /\ \A i, j \in 1..Len(r) : i < j => place[i] < place[j]
  BY DEF LeftOver
<1> DEFINE further == [i \in 1..(l + 1) |-> IF i = l + 1 THEN n + 1 ELSE place[i]]
<1>2. Len(t) = l + 1 /\ l \in Nat /\ t[l + 1] = s[n + 1] /\ \A i \in 1..l : t[i] = r[i]
  OBVIOUS
<1>3. \A i \in 1..l : place[i] \in 1..n
  BY <1>1
<1> HIDE DEF l, t
<1>4. \A i \in 1..l : i \in 1..(l + 1) /\ i # l + 1
  BY <1>2
<1>5. \A i \in 1..(l + 1) : i = l + 1 \/ i \in 1..l
  BY <1>2
<1>6. further[l + 1] = n + 1 /\ \A i \in 1..l : further[i] = place[i]
  BY <1>2, <1>4
<1>7. further \in [1..(l + 1) -> 1..(n + 1)]
  <2>1. n + 1 \in 1..(n + 1) /\ \A x \in 1..n : x \in 1..(n + 1)
    OBVIOUS
  <2> QED
    BY <1>3, <1>5, <2>1
<1> HIDE DEF further
<1>8. \A i \in 1..(l + 1) : t[i] = s[further[i]] /\ t[i] \notin S
  BY <1>1, <1>2, <1>5, <1>6 DEF l
<1>9. ASSUME NEW i \in 1..(l + 1), NEW j \in 1..(l + 1), i < j PROVE further[i] < further[j]
  <2>1. i \in 1..l
    BY <1>2, <1>9
  <2>2. CASE j = l + 1
    BY <1>3, <1>6, <2>1, <2>2
  <2>3. CASE j \in 1..l
    BY <1>1, <1>6, <1>9, <2>1, <2>3 DEF l
  <2> QED
    BY <1>5, <2>2, <2>3
<1>10. LeftOver(t, s, n + 1, S)
  BY <1>2, <1>7, <1>8, <1>9 DEF LeftOver
<1> QED
  BY <1>10 DEF t

(* What deque(item for item in s if item is not in S) leaves.                *)
LEMMA WithoutLeaves ==
    ASSUME NEW A, NEW s \in Seq(A), NEW S
    PROVE  Without(s, S) \in Seq(A) /\ LeftOver(Without(s, S), s, Len(s), S)
<1> DEFINE Keeps(f) == f = [n \in Nat |-> IF n = 0 THEN <<>>
                                          ELSE IF s[n] \in S THEN f[n - 1]
                                          ELSE Append(f[n - 1], s[n])]
           kept == CHOOSE f : Keeps(f)
           B == A \cup {s[n] : n \in Nat}
           step == [p \in Nat \X Seq(B) |-> IF s[p[1]] \in S THEN p[2] ELSE Append(p[2], s[p[1]])]
<1>1. \E f : Keeps(f)
  <2>2. step \in [Nat \X Seq(B) -> Seq(B)]
    <3>1. ASSUME NEW p \in Nat \X Seq(B) PROVE Append(p[2], s[p[1]]) \in Seq(B) /\ p[2] \in Seq(B)
      <4>1. s[p[1]] \in B /\ p[2] \in Seq(B)
        OBVIOUS
      <4> HIDE DEF B
      <4> QED
        BY <4>1
    <3> HIDE DEF B
    <3> QED
      BY <3>1
  <2>3. <<>> \in Seq(B)
    OBVIOUS
  <2>4. \A n \in Nat, r \in Seq(B) :
           step[<<n, r>>] = IF s[n] \in S THEN r ELSE Append(r, s[n])
    OBVIOUS
  <2> HIDE DEF step, B
  <2>5. PICK f : Succession(f, Seq(B), <<>>, step)
    BY <2>2, <2>3, SuccessionExists
  <2>6. \A n \in Nat \ {0} : f[n] = IF s[n] \in S THEN f[n - 1] ELSE Append(f[n - 1], s[n])
    <3>1. \A n \in Nat \ {0} : n \in Nat /\ n - 1 \in Nat
      OBVIOUS
    <3> QED
      BY <2>4, <2>5, <3>1 DEF Succession
  <2>7. \A n \in Nat : f[n] = IF n = 0 THEN <<>>
                              ELSE IF s[n] \in S THEN f[n - 1] ELSE Append(f[n - 1], s[n])
    BY <2>5, <2>6 DEF Succession
  <2>8. f = [n \in Nat |-> f[n]]
    BY <2>5 DEF Succession
  <2> QED
    BY <2>7, <2>8
<1>2. Keeps(kept)
  <2> HIDE DEF Keeps
  <2> QED
    BY <1>1, Zenon
<1>3. Without(s, S) = kept[Len(s)]
  BY DEF Without
<1>4. kept[0] = <<>> /\ \A n \in Nat : kept[n + 1] = IF s[n + 1] \in S THEN kept[n]
                                                     ELSE Append(kept[n], s[n + 1])
  <2> HIDE DEF kept
  <2>1. \A n \in Nat : n + 1 \in Nat /\ n + 1 # 0 /\ (n + 1) - 1 = n
    OBVIOUS
  <2> QED
    BY <1>2, <2>1
<1> HIDE DEF kept, Keeps
<1> DEFINE Fine(n) == kept[n] \in Seq(A) /\ LeftOver(kept[n], s, n, S)
           T == {n \in Nat : n <= Len(s) /\ ~Fine(n)}
<1>5. Fine(0)
  <2>1. LeftOver(<<>>, s, 0, S)
    <3>1. Len(<<>>) = 0 /\ 1..0 = {}
      OBVIOUS
    <3>2. [i \in {} |-> 0] \in [{} -> {}]
      OBVIOUS
    <3> QED
      BY <3>1, <3>2 DEF LeftOver
  <2> QED
    BY <1>4, <2>1
<1>6. ASSUME NEW n \in Nat, n + 1 <= Len(s), Fine(n) PROVE Fine(n + 1)
  <2>1. s[n + 1] \in A
    <3>1. n + 1 \in 1..Len(s)
      BY <1>6
    <3> QED
      BY <3>1, ElementOfSeq
  <2>2. CASE s[n + 1] \in S
    BY <1>4, <1>6, <2>2, LeftOverSame
  <2>3. CASE s[n + 1] \notin S
    <3>1. kept[n + 1] = Append(kept[n], s[n + 1])
      BY <1>4, <2>3
    <3>2. Append(kept[n], s[n + 1]) \in Seq(A)
      BY <1>6, <2>1
    <3> QED
      BY <1>6, <2>1, <2>3, <3>1, <3>2, LeftOverMore
  <2> QED
    BY <2>2, <2>3
<1> HIDE DEF Fine
<1>7. T = {}
  <2> SUFFICES ASSUME T # {} PROVE FALSE
    OBVIOUS
  <2>1. T \in SUBSET Nat
    OBVIOUS
  <2>2. PICK n \in T : \A m \in T : n <= m
    <3> HIDE DEF T
    <3> QED
      BY <2>1, LeastOf
  <2>3. n \in Nat /\ n <= Len(s) /\ ~Fine(n) /\ n # 0
    BY <1>5
  <2>4. n - 1 \in Nat /\ (n - 1) + 1 = n /\ n - 1 <= Len(s) /\ ~(n <= n - 1)
    BY <2>3, LenProperties
  <2>5. Fine(n - 1)
    BY <2>2, <2>4
  <2> HIDE DEF T
  <2> QED
    BY <1>6, <2>3, <2>4, <2>5
<1>8. Fine(Len(s))
  BY <1>7, LenProperties
<1> QED
  BY <1>3, <1>8 DEF Fine

(* The same, element by element.                                             *)
IsOnce(s) == \A i, j \in 1..Len(s) : s[i] = s[j] => i = j

Thinned(r, s, S) == \A i \in 1..Len(r) : r[i] \notin S /\ \E j \in 1..Len(s) : s[j] = r[i]

LEMMA WithoutFacts ==
    ASSUME NEW A, NEW s \in Seq(A), NEW S
    PROVE  /\ Without(s, S) \in Seq(A)
           /\ Thinned(Without(s, S), s, S)
           /\ IsOnce(s) => IsOnce(Without(s, S))
<1> DEFINE r == Without(s, S)
<1>1. PICK place \in [1..Len(r) -> 1..Len(s)] :
            /\ \A i \in 1..Len(r) : r[i] = s[place[i]] /\ r[i] \notin S
            /\ \A i, j \in 1..Len(r) : i < j => place[i] < place[j]
  <2>1. LeftOver(r, s, Len(s), S)
    BY WithoutLeaves
  <2> QED
    BY <2>1 DEF LeftOver
<1>2. r \in Seq(A) /\ Len(s) \in Nat
  BY WithoutLeaves
<1> HIDE DEF r
<1>3. ASSUME IsOnce(s),
             NEW i \in 1..Len(r), NEW j \in 1..Len(r), r[i] = r[j]
      PROVE  i = j
  <2>1. place[i] \in 1..Len(s) /\ place[j] \in 1..Len(s) /\ s[place[i]] = s[place[j]]
    BY <1>1, <1>3
  <2>2. place[i] = place[j]
    BY <1>3, <2>1 DEF IsOnce
  <2>3. Len(r) \in Nat
    BY <1>2
  <2>4. i \in Int /\ j \in Int /\ place[i] \in Int /\ place[j] \in Int
    BY <1>2, <2>1, <2>3
  <2>5. ~(i < j) /\ ~(j < i)
    BY <1>1, <2>2, <2>4
  <2> QED
    BY <2>4, <2>5
<1>4. Thinned(r, s, S)
  BY <1>1 DEF Thinned
<1>5. IsOnce(s) => IsOnce(r)
  BY <1>3 DEF IsOnce
<1> QED
  BY <1>2, <1>4, <1>5 DEF r
------------------------------------------------------------------------------
(* Halving: BitLength[m - 1] levels are enough to come to one image of m.    *)
LEMMA BitLengthFacts ==
    /\ BitLength \in [Nat -> Nat]
    /\ BitLength[0] = 0
    /\ \A n \in Nat \ {0} : BitLength[n] = 1 + BitLength[n \div 2]
<1> DEFINE Bits(f) == f = [n \in Nat |-> IF n = 0 THEN 0 ELSE 1 + f[n \div 2]]
           h == [n \in Nat |-> n \div 2]
           step == [p \in Nat \X Nat |-> 1 + p[2]]
           bits == CHOOSE f : Bits(f)
<1>0. \A n \in Nat : n \div 2 \in Nat /\ (n # 0 => n \div 2 < n)
  OBVIOUS
<1>1. \E f : Bits(f)
  <2>1. h \in [Nat -> Nat] /\ step \in [Nat \X Nat -> Nat] /\ 0 \in Nat
    OBVIOUS
  <2>2. \A n \in Nat \ {0} : h[n] < n
    BY <1>0
  <2>3. \A n \in Nat : h[n] = n \div 2
    OBVIOUS
  <2>4. \A n \in Nat, v \in Nat : step[<<n, v>>] = 1 + v
    OBVIOUS
  <2> HIDE DEF h, step
  <2>5. PICK f : Total(f, Nat, 0, h, step)
    BY <2>1, <2>2, RecursionExists
  <2>6. ASSUME NEW n \in Nat \ {0} PROVE f[n] = 1 + f[n \div 2]
    <3> DEFINE l == n \div 2
    <3>1. l \in Nat /\ h[n] = l
      BY <1>0, <2>3
    <3> HIDE DEF l
    <3>2. f[l] \in Nat /\ f[n] = step[<<n, f[l]>>]
      BY <2>5, <3>1 DEF Total
    <3> QED
      BY <2>4, <3>2 DEF l
  <2>7. \A n \in Nat : f[n] = IF n = 0 THEN 0 ELSE 1 + f[n \div 2]
    BY <2>5, <2>6 DEF Total
  <2>8. f = [n \in Nat |-> f[n]]
    BY <2>5 DEF Total
  <2> QED
    BY <2>7, <2>8
<1>2. Bits(bits)
  <2> HIDE DEF Bits
  <2> QED
    BY <1>1, Zenon
<1>3. BitLength = bits
  BY DEF BitLength
<1>4. BitLength = [n \in Nat |-> IF n = 0 THEN 0 ELSE 1 + BitLength[n \div 2]]
  BY <1>2, <1>3
<1>5. BitLength[0] = 0 /\ \A n \in Nat \ {0} : BitLength[n] = 1 + BitLength[n \div 2]
  BY <1>4
<1> DEFINE T == {n \in Nat : BitLength[n] \notin Nat}
<1>6. T = {}
  <2> SUFFICES ASSUME T # {} PROVE FALSE
    OBVIOUS
  <2>1. PICK n \in T : \A m \in T : n <= m
    <3>1. T \in SUBSET Nat
      OBVIOUS
    <3> HIDE DEF T
    <3> QED
      BY <3>1, LeastOf
  <2>2. n \in Nat /\ n # 0 /\ BitLength[n] \notin Nat
    BY <1>5
  <2>3. n \div 2 \in Nat /\ ~(n <= n \div 2)
    BY <1>0, <2>2
  <2>4. BitLength[n \div 2] \in Nat
    BY <2>1, <2>3
  <2> QED
    BY <1>5, <2>2, <2>4
<1>7. BitLength \in [Nat -> Nat]
  BY <1>4, <1>6
<1> QED
  BY <1>5, <1>7

LEMMA BitLengthGrows ==
    ASSUME NEW a \in Nat, NEW b \in Nat, a <= b
    PROVE  BitLength[a] <= BitLength[b]
<1> DEFINE T == {n \in Nat : \E m \in Nat : m <= n /\ ~(BitLength[m] <= BitLength[n])}
<1>1. T = {}
  <2> SUFFICES ASSUME T # {} PROVE FALSE
    OBVIOUS
  <2>1. PICK n \in T : \A m \in T : n <= m
    <3>1. T \in SUBSET Nat
      OBVIOUS
    <3> HIDE DEF T
    <3> QED
      BY <3>1, LeastOf
  <2>2. n \in Nat
    OBVIOUS
  <2>3. PICK m \in Nat : m <= n /\ ~(BitLength[m] <= BitLength[n])
    OBVIOUS
  <2>4. m # 0 /\ n # 0
    BY <2>2, <2>3, BitLengthFacts
  <2>5. m \div 2 \in Nat /\ n \div 2 \in Nat /\ m \div 2 <= n \div 2 /\ ~(n <= n \div 2)
    BY <2>2, <2>3, <2>4
  <2>6. BitLength[m \div 2] <= BitLength[n \div 2]
    BY <2>1, <2>5
  <2>7. BitLength[m] = 1 + BitLength[m \div 2] /\ BitLength[n] = 1 + BitLength[n \div 2]
    BY <2>2, <2>3, <2>4, BitLengthFacts
  <2>8. BitLength[m \div 2] \in Nat /\ BitLength[n \div 2] \in Nat
    BY <2>5, BitLengthFacts
  <2> QED
    BY <2>3, <2>6, <2>7, <2>8
<1> QED
  BY <1>1

(* What it takes to come to one image of m.                                  *)
Levels(m) == BitLength[m - 1]

LEMMA LevelsFacts ==
    ASSUME NEW m \in Nat \ {0}
    PROVE  /\ Levels(m) \in Nat
           /\ m > 1 => Levels(m) >= 1
           /\ \A n \in m..BatchSize : Levels(m) <= Levels(n)
<1>1. m - 1 \in Nat
  OBVIOUS
<1>2. Levels(m) \in Nat
  BY <1>1, BitLengthFacts DEF Levels
<1>3. ASSUME m > 1 PROVE Levels(m) >= 1
  <2>1. m - 1 \in Nat \ {0} /\ (m - 1) \div 2 \in Nat
    BY <1>3
  <2>2. BitLength[m - 1] = 1 + BitLength[(m - 1) \div 2] /\ BitLength[(m - 1) \div 2] \in Nat
    BY <2>1, BitLengthFacts
  <2> QED
    BY <2>2 DEF Levels
<1>4. ASSUME NEW n \in m..BatchSize PROVE Levels(m) <= Levels(n)
  <2>1. n - 1 \in Nat /\ m - 1 <= n - 1
    BY LimitsAssumption
  <2> QED
    BY <1>1, <2>1, BitLengthGrows DEF Levels
<1> QED
  BY <1>2, <1>3, <1>4

LEMMA HalvesAreShorter ==
    ASSUME NEW m \in Nat, m > 1
    PROVE  LET l == m \div 2
           IN  /\ l \in 1..(m - 1) /\ m - l \in 1..(m - 1)
               /\ Levels(l) + 1 <= Levels(m) /\ Levels(m - l) + 1 <= Levels(m)
<1> DEFINE l == m \div 2
<1>1. /\ l \in 1..(m - 1) /\ m - l \in 1..(m - 1)
      /\ l - 1 \in Nat /\ (m - l) - 1 \in Nat /\ l - 1 <= (m - l) - 1
      /\ m - 1 \in Nat \ {0} /\ (m - 1) \div 2 = (m - l) - 1
  OBVIOUS
<1> HIDE DEF l
<1>2. BitLength[m - 1] = 1 + BitLength[(m - l) - 1]
  BY <1>1, BitLengthFacts
<1>3. BitLength[l - 1] <= BitLength[(m - l) - 1]
  BY <1>1, BitLengthGrows
<1>4. BitLength[l - 1] \in Nat /\ BitLength[(m - l) - 1] \in Nat
  BY <1>1, BitLengthFacts
<1>5. Levels(l) + 1 <= Levels(m) /\ Levels(m - l) + 1 <= Levels(m)
  BY <1>2, <1>3, <1>4 DEF Levels
<1> QED
  BY <1>1, <1>5 DEF l
------------------------------------------------------------------------------
CallState == [status : {"free", "admitted", "queued", "finished"},
              images : 0..MaxImages, next : 0..MaxImages,
              completed : 0..MaxImages, age : 0..(FrameAge + 1),
              results : Seq(Image \cup {None}), answer : {"none", "results", "error"}]

QueueState == [calls : [Calls -> CallState], waiting : [Cameras -> Seq(Calls)],
               ready : Seq(Cameras), counts : [Cameras -> 0..PerCamera]]

(* A result that is there was found in its own image, none is there of an    *)
(* image that was not taken yet, and completed counts them.                  *)
Recognized(call) == {n \in 1..call.images : call.results[n] # None}

CallIsSound(k, call) ==
    /\ call.answer = "results" =>
          /\ call.status # "queued" /\ call.results # <<>>
          /\ \A n \in 1..Len(call.results) : call.results[n] = <<k, n>>
    /\ call.status = "queued" =>
          /\ call.images # 0 /\ call.next <= call.images /\ Len(call.results) = call.images
          /\ \A n \in 1..call.images : call.results[n] \in {None, <<k, n>>}
          /\ \A n \in 1..call.images : n > call.next => call.results[n] = None
          /\ call.completed = Cardinality(Recognized(call))

(* Who waits is a call under way of that camera, once, with images left.     *)
WaitersAreSound(q) ==
    \A c \in Cameras :
       /\ \A i \in 1..Len(q.waiting[c]) :
             /\ CameraOf[q.waiting[c][i]] = c
             /\ q.calls[q.waiting[c][i]].status = "queued"
             /\ q.calls[q.waiting[c][i]].next < q.calls[q.waiting[c][i]].images
       /\ IsOnce(q.waiting[c])

(* A camera has one turn at a time, and a call for it.                       *)
TurnsAreSound(q) ==
    /\ \A i \in 1..Len(q.ready) : q.waiting[q.ready[i]] # <<>>
    /\ IsOnce(q.ready)

QueuedOf(q, c) == {k \in Of(c) : q.calls[k].status = "queued"}

CountsAreTrue(q) == \A c \in Cameras : q.counts[c] = Cardinality(QueuedOf(q, c))

QueueInv(q) ==
    /\ q \in QueueState
    /\ \A k \in Calls : CallIsSound(k, q.calls[k])
    /\ WaitersAreSound(q)
    /\ TurnsAreSound(q)
    /\ CountsAreTrue(q)

(* An image on the device is not there twice, its call was not replaced by   *)
(* a new one, and its result is still missing.                               *)
InFlight(q, b) ==
    /\ \A i \in 1..Len(b) :
          /\ q.calls[b[i][1]].status # "admitted"
          /\ q.calls[b[i][1]].status = "queued" =>
                b[i][2] <= q.calls[b[i][1]].next /\ q.calls[b[i][1]].results[b[i][2]] = None
    /\ IsOnce(b)

(* If several cameras are in a batch, its first two images are of two.       *)
TakesTurns(b) ==
    \A i \in 1..Len(b) : CameraOf[b[i][1]] # CameraOf[b[1][1]] => CameraOf[b[2][1]] # CameraOf[b[1][1]]

(* The connections are within the limits.                                    *)
Admission ==
    /\ \A c \in Cameras : Cardinality(Busy(c)) <= PerCamera
    /\ Cardinality({c \in Cameras : Busy(c) # {}}) <= MaxCameras

(* What is left to try lies in the batch; what was found was found there;    *)
(* who is blamed was there.                                                  *)
RunState == [todo : Seq((1..BatchSize) \X (1..BatchSize)), attempts : 0..MaxAttempts,
             found : Seq(Image \cup {None}), failed : SUBSET (1..BatchSize),
             confirmed : SUBSET (1..BatchSize), blamed : SUBSET Cameras, tripped : BOOLEAN]

InBatch(todo) ==
    \A i \in 1..Len(todo) : todo[i][1] <= todo[i][2] /\ todo[i][2] <= Len(batch)

FoundThere(found) ==
    Len(found) = Len(batch) /\ \A i \in 1..Len(batch) : found[i] \in {None, batch[i]}

Sensible(r) ==
    /\ r \in RunState
    /\ InBatch(r.todo) /\ FoundThere(r.found)
    /\ r.blamed \subseteq {CameraAt(i) : i \in DOMAIN batch}

RunIsSound ==
    /\ run \in RunState
    /\ pc \in {"locking", "running"} => batch # <<>>
    /\ pc = "running" => Sensible(run) /\ run.todo # <<>> /\ run.attempts < MaxAttempts
    /\ pc \in {"failing", "completing"} => FoundThere(run.found)
    /\ pc = "aborting" => fatal
    /\ faults = 0 => ~down

(* An image that will be recognized is about to be tried, within the number  *)
(* of attempts that is left.                                                 *)
Approaches(r) ==
    \E good \in 1..2 :
       /\ good <= Len(batch) /\ CameraAt(good) \notin Poison
       /\ \/ /\ r.todo[1][1] <= good /\ good <= r.todo[1][2]
             /\ r.attempts + Levels(r.todo[1][2] - r.todo[1][1] + 1) <=
                   Levels(BatchSize) + r.todo[1][1] - 1
          \/ /\ good = 2 /\ Len(r.todo) >= 2
             /\ r.todo[1] = <<1, 1>> /\ r.todo[2][1] = 2
             /\ r.attempts + Levels(r.todo[2][2] - 1) <= Levels(BatchSize)

Served(r) == \E i \in 1..Len(batch) : r.found[i] # None

OnlyPoison == \A i \in 1..Len(batch) : CameraAt(i) \in Poison

Calm == faults = 0 /\ Cardinality(Poison) <= 1 /\ MinCameras > 1

PoisonInv ==
    Calm =>
       /\ ~fatal
       /\ \A c \in Cameras \ Poison : failures[c] = 0 /\ quarantine[c] = NotQuarantined
       /\ breaker.cameras \subseteq Poison
       /\ pc = "running" =>
             /\ \A i \in run.confirmed : CameraAt(i) \in Poison
             /\ Served(run) \/ OnlyPoison \/ Approaches(run)

(* The types of what a dispatch counts.                                      *)
HealthTypes ==
    /\ failures \in [Cameras -> 0..(CameraThreshold - 1)]
    /\ quarantine \in [Cameras -> NotQuarantined..QuarantineTime]
    /\ breaker \in [failed : 0..ProviderThreshold, cameras : SUBSET Cameras]

ServiceTypes ==
    /\ pc \in {"waiting", "locking", "running", "failing", "completing", "aborting", "dead"}
    /\ batch \in Seq(Image) /\ Len(batch) <= BatchSize
    /\ HealthTypes
    /\ down \in BOOLEAN /\ fatal \in BOOLEAN /\ closed \in BOOLEAN
    /\ faults \in 0..MaxFaults

SharedInv ==
    /\ ServiceTypes
    /\ QueueInv(queue)
    /\ InFlight(queue, batch) /\ TakesTurns(batch)
    /\ Admission
    /\ RunIsSound
    /\ PoisonInv
------------------------------------------------------------------------------
USE CallsAssumption, LimitsAssumption

LEMMA Bounds ==
    /\ MaxImages \in Nat \ {0} /\ MaxCameras \in Nat \ {0}
    /\ PerCamera \in Nat \ {0} /\ BatchSize \in Nat \ {0}
    /\ CameraThreshold \in Nat \ {0} /\ QuarantineTime \in Nat \ {0}
    /\ ProviderThreshold \in Nat \ {0} /\ MinCameras \in Nat \ {0}
    /\ FrameAge \in Nat /\ MaxFaults \in Nat /\ BatchSize <= MaxImages
OBVIOUS

(* The line w of camera c: every waiter is a queued call of c, once.         *)
InLine(q, w, c) ==
    /\ IsOnce(w)
    /\ \A i \in 1..Len(w) : /\ CameraOf[w[i]] = c /\ q.calls[w[i]].status = "queued"
                            /\ q.calls[w[i]].next < q.calls[w[i]].images

LEMMA WaitersOf ==
    ASSUME NEW q, WaitersAreSound(q), NEW c \in Cameras
    PROVE  InLine(q, q.waiting[c], c)
BY DEF WaitersAreSound, InLine

LEMMA QueuedIsFinite ==
    ASSUME NEW q, NEW c \in Cameras
    PROVE  IsFiniteSet(Of(c)) /\ IsFiniteSet(QueuedOf(q, c))
<1>1. Of(c) \subseteq Calls /\ QueuedOf(q, c) \subseteq Calls
  BY DEF Of, QueuedOf
<1> QED
  BY <1>1, FS_Subset

(* _finish_call_locked for the calls of S.                                   *)
OnlyChanged(q, p, S, call) ==
    \A k \in Calls : p.calls[k] = IF k \in S THEN call[k] ELSE q.calls[k]

LEMMA FinishKeeps ==
    ASSUME NEW q, QueueInv(q), NEW S \in SUBSET Having(q, "queued"), NEW call,
           \A k \in S : call[k] \in CallState /\ call[k].status = "finished"
                        /\ CallIsSound(k, call[k]),
           NEW p, p = Finish(q, S, call)
    PROVE  QueueInv(p) /\ OnlyChanged(q, p, S, call)
<1> DEFINE left == [c \in Cameras |-> Without(q.waiting[c], S)]
           emptied == {c \in Cameras : q.waiting[c] # <<>> /\ left[c] = <<>>}
<1>1. /\ q.calls \in [Calls -> CallState] /\ q.waiting \in [Cameras -> Seq(Calls)]
      /\ q.ready \in Seq(Cameras) /\ q.counts \in [Cameras -> 0..PerCamera]
  BY DEF QueueInv, QueueState
<1>2. S \subseteq Calls /\ \A k \in S : q.calls[k].status = "queued"
  BY DEF Having
<1>3. p = [calls |-> [k \in Calls |-> IF k \in S THEN call[k] ELSE q.calls[k]],
           waiting |-> left, ready |-> Without(q.ready, emptied),
           counts |-> [c \in Cameras |-> q.counts[c] -
                                            Lesser(q.counts[c], Cardinality(S \cap Of(c)))]]
  BY DEF Finish
<1>4. /\ p.waiting = left /\ p.ready = Without(q.ready, emptied)
      /\ p.calls = [k \in Calls |-> IF k \in S THEN call[k] ELSE q.calls[k]]
      /\ p.counts = [c \in Cameras |-> q.counts[c] -
                                         Lesser(q.counts[c], Cardinality(S \cap Of(c)))]
      /\ p = [calls |-> p.calls, waiting |-> p.waiting, ready |-> p.ready, counts |-> p.counts]
  BY <1>3
<1>5. /\ p.calls \in [Calls -> CallState]
      /\ \A k \in Calls \ S : p.calls[k] = q.calls[k]
      /\ \A k \in S : p.calls[k] = call[k]
  BY <1>1, <1>2, <1>4
<1>6. ASSUME NEW c \in Cameras
      PROVE  /\ p.waiting[c] \in Seq(Calls)
             /\ Thinned(p.waiting[c], q.waiting[c], S)
             /\ IsOnce(p.waiting[c])
  <2>1. q.waiting[c] \in Seq(Calls)
    BY <1>1
  <2>2. p.waiting[c] = Without(q.waiting[c], S)
    BY <1>4
  <2>3. IsOnce(q.waiting[c])
    BY DEF QueueInv, WaitersAreSound
  <2> QED
    BY <2>1, <2>2, <2>3, WithoutFacts
<1>7. p.ready \in Seq(Cameras) /\ Thinned(p.ready, q.ready, emptied) /\ IsOnce(p.ready)
  <2>1. IsOnce(q.ready)
    BY DEF QueueInv, TurnsAreSound
  <2> HIDE DEF emptied
  <2> QED
    BY <1>1, <1>4, <2>1, WithoutFacts
<1>8. ASSUME NEW c \in Cameras
      PROVE  p.counts[c] \in 0..PerCamera /\ p.counts[c] = Cardinality(QueuedOf(p, c))
  <2>1. QueuedOf(p, c) = QueuedOf(q, c) \ (S \cap Of(c)) /\ S \cap Of(c) \subseteq QueuedOf(q, c)
    BY <1>2, <1>5 DEF QueuedOf, Of
  <2>2. QueuedOf(q, c) \cap (S \cap Of(c)) = S \cap Of(c)
    BY <2>1
  <2>3. Cardinality(QueuedOf(p, c)) = Cardinality(QueuedOf(q, c)) - Cardinality(S \cap Of(c))
    BY <2>1, <2>2, QueuedIsFinite, FS_Difference, Zenon
  <2>4. Cardinality(S \cap Of(c)) <= Cardinality(QueuedOf(q, c)) /\ Cardinality(S \cap Of(c)) \in Nat
    BY <2>1, QueuedIsFinite, FS_Subset, FS_CardinalityType
  <2>5. q.counts[c] = Cardinality(QueuedOf(q, c)) /\ q.counts[c] \in 0..PerCamera
    BY <1>1 DEF QueueInv, CountsAreTrue
  <2>6. p.counts[c] = q.counts[c] - Lesser(q.counts[c], Cardinality(S \cap Of(c)))
    BY <1>4
  <2>7. Lesser(q.counts[c], Cardinality(S \cap Of(c))) = Cardinality(S \cap Of(c))
    BY <2>4, <2>5 DEF Lesser
  <2> QED
    BY <2>3, <2>4, <2>5, <2>6, <2>7, Bounds
<1>9. p \in QueueState
  <2>1. p.waiting \in [Cameras -> Seq(Calls)]
    BY <1>4, <1>6
  <2>2. p.counts \in [Cameras -> 0..PerCamera]
    BY <1>4, <1>8
  <2> QED
    BY <1>4, <1>5, <1>7, <2>1, <2>2 DEF QueueState
<1>10. \A k \in Calls : CallIsSound(k, p.calls[k])
  BY <1>5 DEF QueueInv
<1>11. WaitersAreSound(p)
  <2>1. ASSUME NEW c \in Cameras, NEW i \in 1..Len(p.waiting[c])
        PROVE  /\ CameraOf[p.waiting[c][i]] = c
               /\ p.calls[p.waiting[c][i]].status = "queued"
               /\ p.calls[p.waiting[c][i]].next < p.calls[p.waiting[c][i]].images
    <3>1. PICK j \in 1..Len(q.waiting[c]) : q.waiting[c][j] = p.waiting[c][i]
      BY <1>6 DEF Thinned
    <3>2. p.waiting[c][i] \in Calls \ S
      <4>1. p.waiting[c] \in Seq(Calls) /\ p.waiting[c][i] \notin S
        BY <1>6 DEF Thinned
      <4> QED
        BY <4>1, ElementOfSeq
    <3>3. p.calls[p.waiting[c][i]] = q.calls[q.waiting[c][j]]
      BY <1>5, <3>1, <3>2
    <3>4. /\ CameraOf[q.waiting[c][j]] = c
          /\ q.calls[q.waiting[c][j]].status = "queued"
          /\ q.calls[q.waiting[c][j]].next < q.calls[q.waiting[c][j]].images
      BY DEF QueueInv, WaitersAreSound
    <3> QED
      BY <3>1, <3>3, <3>4
  <2> QED
    BY <1>6, <2>1 DEF WaitersAreSound
<1>12. TurnsAreSound(p)
  <2>1. ASSUME NEW i \in 1..Len(p.ready) PROVE p.waiting[p.ready[i]] # <<>>
    <3>1. PICK j \in 1..Len(q.ready) : q.ready[j] = p.ready[i]
      BY <1>7 DEF Thinned
    <3>2. q.waiting[p.ready[i]] # <<>>
      BY <3>1 DEF QueueInv, TurnsAreSound
    <3>3. p.ready[i] \in Cameras /\ p.ready[i] \notin emptied
      BY <1>7, ElementOfSeq DEF Thinned
    <3> QED
      BY <1>4, <3>2, <3>3
  <2> QED
    BY <1>7, <2>1 DEF TurnsAreSound
<1>13. CountsAreTrue(p)
  BY <1>8 DEF CountsAreTrue
<1>14. OnlyChanged(q, p, S, call)
  BY <1>5 DEF OnlyChanged
<1> QED
  BY <1>9, <1>10, <1>11, <1>12, <1>13, <1>14 DEF QueueInv
------------------------------------------------------------------------------
(* The loop of _pop_batch_locked.                                            *)
LEMMA TailFacts ==
    ASSUME NEW A, NEW s \in Seq(A), s # <<>>
    PROVE  /\ Tail(s) \in Seq(A) /\ Len(Tail(s)) = Len(s) - 1 /\ Len(s) \in Nat \ {0}
           /\ Head(s) = s[1] /\ s[1] \in A
           /\ \A i \in 1..(Len(s) - 1) : Tail(s)[i] = s[i + 1]
           /\ IsOnce(s) => IsOnce(Tail(s)) /\ \A i \in 1..(Len(s) - 1) : Tail(s)[i] # s[1]
<1>1. Len(s) \in Nat \ {0}
  BY EmptySeq, LenProperties
<1>2. /\ Tail(s) \in Seq(A) /\ Len(Tail(s)) = Len(s) - 1
      /\ \A i \in 1..(Len(s) - 1) : Tail(s)[i] = s[i + 1]
  BY <1>1, HeadTailProperties
<1>3. Head(s) = s[1] /\ s[1] \in A
  BY <1>1, ElementOfSeq
<1>4. ASSUME IsOnce(s), NEW i \in 1..(Len(s) - 1)
      PROVE  /\ Tail(s)[i] # s[1]
             /\ \A j \in 1..(Len(s) - 1) : Tail(s)[i] = Tail(s)[j] => i = j
  <2> DEFINE l == Len(s)
  <2>1. i + 1 \in 1..l /\ 1 \in 1..l /\ i + 1 # 1
    BY <1>1
  <2>2. s[i + 1] # s[1]
    BY <1>4, <2>1 DEF IsOnce
  <2>3. ASSUME NEW j \in 1..(l - 1), s[i + 1] = s[j + 1] PROVE i = j
    <3>1. j + 1 \in 1..l
      BY <1>1
    <3>2. i + 1 = j + 1
      BY <1>4, <2>1, <2>3, <3>1 DEF IsOnce
    <3> QED
      BY <3>2
  <2> QED
    BY <1>2, <2>2, <2>3
<1>5. IsOnce(s) => IsOnce(Tail(s))
  BY <1>2, <1>4 DEF IsOnce
<1> QED
  BY <1>1, <1>2, <1>3, <1>4, <1>5

LEMMA AppendOnce ==
    ASSUME NEW A, NEW s \in Seq(A), NEW x \in A, IsOnce(s), \A i \in 1..Len(s) : s[i] # x
    PROVE  /\ Append(s, x) \in Seq(A) /\ Len(Append(s, x)) = Len(s) + 1 /\ Len(s) \in Nat
           /\ Append(s, x)[Len(s) + 1] = x
           /\ \A i \in 1..Len(s) : Append(s, x)[i] = s[i]
           /\ IsOnce(Append(s, x))
<1> DEFINE l == Len(s)
           t == Append(s, x)
<1>1. t \in Seq(A) /\ Len(t) = l + 1 /\ l \in Nat /\ t[l + 1] = x /\ \A i \in 1..l : t[i] = s[i]
  OBVIOUS
<1> HIDE DEF t, l
<1>2. \A i \in 1..(l + 1) : i = l + 1 \/ i \in 1..l
  BY <1>1
<1>3. IsOnce(t)
  <2> SUFFICES ASSUME NEW i \in 1..(l + 1), NEW j \in 1..(l + 1), t[i] = t[j] PROVE i = j
    BY <1>1 DEF IsOnce
  <2>1. CASE i \in 1..l /\ j \in 1..l
    BY <1>1, <2>1 DEF IsOnce, l
  <2>2. CASE i = l + 1 /\ j \in 1..l
    BY <1>1, <2>2 DEF l
  <2>3. CASE j = l + 1 /\ i \in 1..l
    BY <1>1, <2>3 DEF l
  <2> QED
    BY <1>2, <2>1, <2>2, <2>3
<1> QED
  BY <1>1, <1>3 DEF l, t

Alternates(b, ready) ==
    /\ Len(b) = 1 => \A i \in 1..Len(ready) : ready[i] = CameraOf[b[1][1]] => i = Len(ready)
    /\ Len(b) >= 2 => \/ CameraOf[b[2][1]] # CameraOf[b[1][1]]
                      \/ /\ \A i \in 1..Len(b) : CameraOf[b[i][1]] = CameraOf[b[1][1]]
                         /\ \A i \in 1..Len(ready) : ready[i] = CameraOf[b[1][1]]

(* The line in which the cameras of R take their turns.  Nobody is served    *)
(* twice before all of R have been served, and who was not served yet stands *)
(* before those who were.                                                    *)
Took(b, n, c) == \E h \in 1..n : CameraOf[b[h][1]] = c

Line(q) == {q.ready[i] : i \in 1..Len(q.ready)}

InOrder(R, b, ready) ==
    /\ \A i \in 1..Len(ready) : ready[i] \in R
    /\ \A i \in 1..Len(b) : CameraOf[b[i][1]] \in R
    /\ \A c \in R : Took(b, Len(b), c) \/ \E i \in 1..Len(ready) : ready[i] = c
    /\ \A i \in 1..Len(b) : Took(b, i - 1, CameraOf[b[i][1]]) => \A c \in R : Took(b, i - 1, c)
    /\ \A i, j \in 1..Len(ready) :
          i < j /\ Took(b, Len(b), ready[i]) => Took(b, Len(b), ready[j])

PopInv(q, s) ==
    /\ QueueInv(s.queue) /\ s.batch \in Seq(Image) /\ Len(s.batch) <= BatchSize
    /\ s = [queue |-> s.queue, batch |-> s.batch]
    /\ InFlight(s.queue, s.batch)
    /\ Alternates(s.batch, s.queue.ready)
    /\ InOrder(Line(q), s.batch, s.queue.ready)
    /\ \A k \in Calls : s.queue.calls[k].status = q.calls[k].status

(* One turn: what changes, for the camera and the call whose turn it is.     *)
Turn(s, p, c, k, n, ready) ==
    /\ p.queue.calls = [s.queue.calls EXCEPT ![k] = [s.queue.calls[k] EXCEPT !.next = n, !.age = 0]]
    /\ p.queue.waiting = [s.queue.waiting EXCEPT ![c] = IF n = s.queue.calls[k].images
                                                        THEN Tail(s.queue.waiting[c])
                                                        ELSE s.queue.waiting[c]]
    /\ p.queue.ready = ready
    /\ p.queue.counts = s.queue.counts
    /\ p.queue = [calls |-> p.queue.calls, waiting |-> p.queue.waiting, ready |-> p.queue.ready,
                  counts |-> p.queue.counts]
    /\ p.batch = Append(s.batch, <<k, n>>)
    /\ p = [queue |-> p.queue, batch |-> p.batch]

(* Whose turn it is, and what the line of the cameras is afterwards.         *)
NextTurn(s, c, k, n, ready) ==
    /\ c \in Cameras /\ k \in Calls /\ n \in 1..MaxImages
    /\ ready \in Seq(Cameras) /\ IsOnce(ready)
    /\ c = s.queue.ready[1]
    /\ s.queue.waiting[c] # <<>> /\ k = s.queue.waiting[c][1] /\ CameraOf[k] = c
    /\ s.queue.calls[k].status = "queued"
    /\ n = s.queue.calls[k].next + 1 /\ n <= s.queue.calls[k].images
    /\ \/ ready = Tail(s.queue.ready)
       \/ /\ ready = Append(Tail(s.queue.ready), c)
          /\ ~(n = s.queue.calls[k].images /\ Tail(s.queue.waiting[c]) = <<>>)

LEMMA PopIsTurn ==
    ASSUME NEW s, QueueInv(s.queue), s = [queue |-> s.queue, batch |-> s.batch],
           s.queue.ready # <<>>
    PROVE  \E c, k, n, ready : NextTurn(s, c, k, n, ready) /\ Turn(s, Pop(s), c, k, n, ready)
<1> DEFINE q == s.queue
           c == Head(q.ready)
           w == q.waiting[c]
           k == Head(w)
           n == q.calls[k].next + 1
           left == IF n = q.calls[k].images THEN Tail(w) ELSE w
           rest == Tail(q.ready)
           ready == IF left = <<>> THEN rest ELSE MarkReady(rest, c)
<1>p. w # <<>> => Turn(s, Pop(s), c, k, n, ready)
  <2> SUFFICES ASSUME w # <<>> PROVE Turn(s, Pop(s), c, k, n, ready)
    BY Zenon
  <2> DEFINE calls == [q.calls EXCEPT ![k] = [q.calls[k] EXCEPT !.next = n, !.age = 0]]
             waiting == [q.waiting EXCEPT ![c] = left]
             b == Append(s.batch, <<k, n>>)
  <2>1. Pop(s) = [queue |-> [calls |-> calls, waiting |-> waiting, ready |-> ready,
                             counts |-> q.counts], batch |-> b]
    BY Zenon DEF Pop
  <2> HIDE DEF calls, waiting, b, ready, n, k, c, left, w, rest
  <2>2. /\ Pop(s).queue.calls = calls /\ Pop(s).queue.waiting = waiting
        /\ Pop(s).queue.ready = ready /\ Pop(s).queue.counts = q.counts
        /\ Pop(s).batch = b
        /\ Pop(s).queue = [calls |-> Pop(s).queue.calls, waiting |-> Pop(s).queue.waiting,
                           ready |-> Pop(s).queue.ready, counts |-> Pop(s).queue.counts]
        /\ Pop(s) = [queue |-> Pop(s).queue, batch |-> Pop(s).batch]
    BY <2>1
  <2>3. calls = [s.queue.calls EXCEPT ![k] = [s.queue.calls[k] EXCEPT !.next = n, !.age = 0]]
    BY DEF calls
  <2>4. waiting = [s.queue.waiting EXCEPT ![c] = IF n = s.queue.calls[k].images
                                                 THEN Tail(s.queue.waiting[c])
                                                 ELSE s.queue.waiting[c]]
    BY DEF waiting, left, w
  <2>5. b = Append(s.batch, <<k, n>>)
    BY DEF b
  <2> QED
    BY <2>2, <2>3, <2>4, <2>5 DEF Turn
<1>q. left # <<>> => ~(n = q.calls[k].images /\ Tail(w) = <<>>)
  BY Zenon
<1>r. ready = rest \/ (left # <<>> /\ ready = MarkReady(rest, c))
  BY Zenon
<1> HIDE DEF ready, left, q
<1>1. /\ q.calls \in [Calls -> CallState] /\ q.waiting \in [Cameras -> Seq(Calls)]
      /\ q.ready \in Seq(Cameras)
  BY DEF QueueInv, QueueState, q
<1>2. IsOnce(q.ready) /\ q.ready # <<>> /\ WaitersAreSound(q)
  BY DEF QueueInv, TurnsAreSound, q
<1>3. /\ c \in Cameras /\ c = q.ready[1] /\ Len(q.ready) \in Nat \ {0}
      /\ rest \in Seq(Cameras) /\ IsOnce(rest)
      /\ Len(rest) = Len(q.ready) - 1
      /\ \A i \in 1..(Len(q.ready) - 1) : rest[i] # c
  <2> HIDE DEF c, rest
  <2>1. Tail(q.ready) = rest /\ Head(q.ready) = c
    BY DEF c, rest
  <2>2. q.ready \in Seq(Cameras) /\ q.ready # <<>> /\ IsOnce(q.ready)
    BY <1>1, <1>2
  <2> DEFINE t == q.ready
  <2> HIDE DEF t
  <2>3. t \in Seq(Cameras) /\ t # <<>> /\ IsOnce(t) /\ Tail(t) = rest /\ Head(t) = c
    BY <2>1, <2>2 DEF t
  <2>4. /\ rest \in Seq(Cameras) /\ Len(rest) = Len(t) - 1 /\ Len(t) \in Nat \ {0}
        /\ c = t[1] /\ t[1] \in Cameras
    BY <2>3, TailFacts
  <2>5. IsOnce(rest) /\ \A i \in 1..(Len(t) - 1) : rest[i] # t[1]
    BY <2>3, TailFacts
  <2> QED
    BY <2>4, <2>5 DEF t
<1> HIDE DEF c, rest
<1>4. w # <<>> /\ w \in Seq(Calls)
  <2>1. 1 \in 1..Len(q.ready)
    BY <1>3
  <2>2. q.waiting[q.ready[1]] # <<>>
    BY <2>1 DEF QueueInv, TurnsAreSound, q
  <2> QED
    BY <1>1, <1>3, <2>2
<1>5. k = w[1] /\ k \in Calls /\ Len(w) \in Nat \ {0}
  <2> HIDE DEF w
  <2> QED
    BY <1>4, TailFacts
<1>6. CameraOf[k] = c /\ q.calls[k].status = "queued" /\ q.calls[k].next < q.calls[k].images
  <2> HIDE DEF k
  <2>1. 1 \in 1..Len(q.waiting[c]) /\ q.waiting[c][1] = k
    BY <1>5
  <2> HIDE DEF w
  <2>2. \A i \in 1..Len(q.waiting[c]) :
           /\ CameraOf[q.waiting[c][i]] = c
           /\ q.calls[q.waiting[c][i]].status = "queued"
           /\ q.calls[q.waiting[c][i]].next < q.calls[q.waiting[c][i]].images
    <3>1. InLine(q, q.waiting[c], c)
      BY <1>2, <1>3, WaitersOf
    <3> QED
      BY <3>1 DEF InLine
  <2> QED
    BY <2>1, <2>2
<1> HIDE DEF k
<1>7. q.calls[k] \in CallState
  BY <1>1, <1>5
<1>8. q.calls[k].next \in 0..MaxImages /\ q.calls[k].images \in 0..MaxImages
  BY <1>7 DEF CallState
<1>9. n \in 1..MaxImages /\ n <= q.calls[k].images /\ n = q.calls[k].next + 1
  <2> DEFINE x == q.calls[k].next
             y == q.calls[k].images
  <2>1. x \in 0..MaxImages /\ y \in 0..MaxImages /\ x < y /\ n = x + 1
    BY <1>6, <1>8
  <2> HIDE DEF x, y, n
  <2>2. n \in 1..MaxImages /\ n <= y
    BY <2>1, Bounds
  <2> QED
    BY <2>1, <2>2 DEF x, y
<1> HIDE DEF n
<1>11. /\ ready \in Seq(Cameras) /\ IsOnce(ready)
       /\ \/ ready = rest
          \/ ready = Append(rest, c) /\ left # <<>>
  <2>1. ~Contains(rest, c)
    BY <1>3 DEF Contains
  <2>2. Append(rest, c) \in Seq(Cameras) /\ IsOnce(Append(rest, c))
    <3>1. \A i \in 1..Len(rest) : rest[i] # c
      BY <1>3
    <3> QED
      BY <1>3, <3>1, AppendOnce
  <2> QED
    BY <1>3, <1>r, <2>1, <2>2 DEF MarkReady
<1>13. PICK rr \in Seq(Cameras) :
          /\ Turn(s, Pop(s), c, k, n, rr)
          /\ IsOnce(rr)
          /\ \/ rr = rest
             \/ /\ rr = Append(rest, c)
                /\ ~(n = q.calls[k].images /\ Tail(w) = <<>>)
  BY <1>p, <1>q, <1>4, <1>11
<1>14. NextTurn(s, c, k, n, rr)
  BY <1>3, <1>4, <1>5, <1>6, <1>9, <1>13, Zenon DEF NextTurn, q, rest, w
<1> QED
  BY <1>13, <1>14

LEMMA TurnKeepsQueue ==
    ASSUME NEW s, NEW p, NEW c, NEW k, NEW n, NEW ready,
           QueueInv(s.queue), s.queue.ready # <<>>,
           NextTurn(s, c, k, n, ready), Turn(s, p, c, k, n, ready)
    PROVE  QueueInv(p.queue)
<1> DEFINE q == s.queue
           w == q.waiting[c]
           left == IF n = q.calls[k].images THEN Tail(w) ELSE w
           call == [q.calls[k] EXCEPT !.next = n, !.age = 0]
           o == p.queue
           rest == Tail(q.ready)
<1>1. /\ q.calls \in [Calls -> CallState] /\ q.waiting \in [Cameras -> Seq(Calls)]
      /\ q.ready \in Seq(Cameras) /\ q.counts \in [Cameras -> 0..PerCamera]
  BY DEF QueueInv, QueueState
<1>2. /\ \A j \in Calls : CallIsSound(j, q.calls[j])
      /\ WaitersAreSound(q) /\ TurnsAreSound(q) /\ CountsAreTrue(q)
  BY DEF QueueInv
<1>3. /\ c \in Cameras /\ k \in Calls /\ n \in 1..MaxImages
      /\ ready \in Seq(Cameras) /\ IsOnce(ready)
      /\ c = q.ready[1] /\ w # <<>> /\ k = w[1] /\ CameraOf[k] = c
      /\ q.calls[k].status = "queued"
      /\ n = q.calls[k].next + 1 /\ n <= q.calls[k].images
      /\ \/ ready = rest
         \/ ready = Append(rest, c) /\ left # <<>>
  BY Zenon DEF NextTurn
<1>4. /\ o.calls = [q.calls EXCEPT ![k] = call] /\ o.waiting = [q.waiting EXCEPT ![c] = left]
      /\ o.ready = ready /\ o.counts = q.counts
      /\ o = [calls |-> o.calls, waiting |-> o.waiting, ready |-> o.ready, counts |-> o.counts]
  BY DEF Turn
<1>5. q.calls[k] \in CallState /\ CallIsSound(k, q.calls[k])
  BY <1>1, <1>2, <1>3, Zenon
<1>6. /\ call \in CallState
      /\ call.status = q.calls[k].status /\ call.images = q.calls[k].images
      /\ call.completed = q.calls[k].completed /\ call.results = q.calls[k].results
      /\ call.answer = q.calls[k].answer /\ call.next = n
  <2> DEFINE x == q.calls[k]
  <2>1. x \in CallState
    BY <1>5
  <2>2. n \in 1..MaxImages
    BY <1>3, Zenon
  <2> HIDE DEF x
  <2>3. n \in 0..MaxImages /\ 0 \in 0..(FrameAge + 1)
    BY <2>2, Bounds
  <2> QED
    BY <2>1, <2>3 DEF CallState, x
<1>7. \A j \in Calls : j # k => o.calls[j] = q.calls[j]
  BY <1>1, <1>4
<1>8. o.calls[k] = call
  BY <1>1, <1>3, <1>4, Zenon
<1> HIDE DEF call, left, rest, o, q
<1>9. CallIsSound(k, call)
  <2>1. Recognized(call) = Recognized(q.calls[k])
    BY <1>6 DEF Recognized
  <2> DEFINE x == q.calls[k]
             y == call
             i == x.images
             r == x.results
  <2>2. /\ CallIsSound(k, x) /\ y.status = x.status /\ y.images = i /\ y.results = r
        /\ y.answer = x.answer /\ y.completed = x.completed /\ Recognized(y) = Recognized(x)
        /\ y.next = n /\ n = x.next + 1 /\ n <= i /\ x.status = "queued"
    BY <1>3, <1>5, <1>6, <2>1, Zenon
  <2>3. x.next \in Nat /\ i \in Nat
    BY <1>5, Bounds DEF CallState
  <2> HIDE DEF x, y
  <2>4. \A m \in 1..i : m > n => r[m] = None
    BY <2>2, <2>3 DEF CallIsSound
  <2> HIDE DEF i, r
  <2> QED
    BY <2>2, <2>4 DEF CallIsSound, y, i, r
<1>10. \A j \in Calls : o.calls[j] \in CallState /\ CallIsSound(j, o.calls[j])
  BY <1>1, <1>2, <1>6, <1>7, <1>8, <1>9
<1>11. /\ w \in Seq(Calls) /\ IsOnce(w)
       /\ \A i \in 1..Len(w) : /\ CameraOf[w[i]] = c /\ q.calls[w[i]].status = "queued"
                               /\ q.calls[w[i]].next < q.calls[w[i]].images
  <2>1. q.waiting[c] \in Seq(Calls)
    BY <1>1, <1>3, Zenon
  <2> QED
    <3>1. InLine(q, q.waiting[c], c)
      BY <1>2, <1>3, WaitersOf, Zenon
    <3> QED
      BY <2>1, <3>1, Zenon DEF InLine, w
<1>12. /\ left \in Seq(Calls) /\ IsOnce(left)
       /\ \A i \in 1..Len(left) : /\ CameraOf[left[i]] = c /\ o.calls[left[i]].status = "queued"
                                  /\ o.calls[left[i]].next < o.calls[left[i]].images
  <2> HIDE DEF w
  <2>a. o.calls[k].status = "queued" /\ o.calls[k].next = n /\ o.calls[k].images = q.calls[k].images
    BY <1>3, <1>6, <1>8
  <2>b. \A i \in 1..Len(w) : w[i] \in Calls
    BY <1>11, ElementOfSeq
  <2>1. CASE n = q.calls[k].images
    <3>1. left = Tail(w)
      BY <2>1 DEF left, w
    <3>2. /\ Tail(w) \in Seq(Calls) /\ Len(Tail(w)) = Len(w) - 1 /\ Len(w) \in Nat \ {0}
          /\ \A i \in 1..(Len(w) - 1) : Tail(w)[i] = w[i + 1]
      BY <1>3, <1>11, TailFacts
    <3>3. IsOnce(Tail(w)) /\ \A i \in 1..(Len(w) - 1) : Tail(w)[i] # w[1]
      BY <1>3, <1>11, TailFacts
    <3>4. ASSUME NEW i \in 1..Len(left)
          PROVE  /\ CameraOf[left[i]] = c /\ o.calls[left[i]].status = "queued"
                 /\ o.calls[left[i]].next < o.calls[left[i]].images
      <4>1. i \in 1..(Len(w) - 1) /\ i + 1 \in 1..Len(w)
        BY <3>1, <3>2
      <4>2. left[i] = w[i + 1] /\ left[i] # k /\ left[i] \in Calls
        BY <1>3, <2>b, <3>1, <3>2, <3>3, <4>1
      <4>3. o.calls[left[i]] = q.calls[w[i + 1]]
        BY <1>7, <4>2
      <4> QED
        BY <1>11, <4>1, <4>2, <4>3
    <3> QED
      BY <3>1, <3>2, <3>3, <3>4
  <2>2. CASE n # q.calls[k].images
    <3>1. left = w
      BY <2>2 DEF left, w
    <3>2. n < q.calls[k].images
      <4> DEFINE y == q.calls[k].images
      <4>1. y \in Nat
        BY <1>5, Bounds DEF CallState
      <4>2. n \in 1..MaxImages /\ n <= y /\ n # y
        BY <1>3, <2>2
      <4> HIDE DEF y
      <4>3. n < y
        BY <4>1, <4>2, Bounds
      <4> QED
        BY <4>3 DEF y
    <3>3. ASSUME NEW i \in 1..Len(w)
          PROVE  /\ CameraOf[w[i]] = c /\ o.calls[w[i]].status = "queued"
                 /\ o.calls[w[i]].next < o.calls[w[i]].images
      <4>1. CASE w[i] = k
        BY <1>3, <2>a, <3>2, <4>1
      <4>2. CASE w[i] # k
        BY <1>7, <1>11, <2>b, <4>2
      <4> QED
        BY <4>1, <4>2
    <3> QED
      BY <1>11, <3>1, <3>3
  <2> QED
    BY <2>1, <2>2
<1>13. o.waiting[c] = left /\ \A d \in Cameras : d # c => o.waiting[d] = q.waiting[d]
  BY <1>1, <1>3, <1>4, Zenon
<1>14. \A d \in Cameras : o.waiting[d] \in Seq(Calls)
  BY <1>1, <1>12, <1>13
<1>15. WaitersAreSound(o)
  <2>1. ASSUME NEW d \in Cameras, d # c
        PROVE  /\ \A i \in 1..Len(o.waiting[d]) :
                     /\ CameraOf[o.waiting[d][i]] = d
                     /\ o.calls[o.waiting[d][i]].status = "queued"
                     /\ o.calls[o.waiting[d][i]].next < o.calls[o.waiting[d][i]].images
               /\ IsOnce(o.waiting[d])
    <3> DEFINE v == q.waiting[d]
    <3>1. o.waiting[d] = v /\ v \in Seq(Calls)
      BY <1>1, <1>13, <2>1
    <3>2. /\ IsOnce(v)
          /\ \A i \in 1..Len(v) : /\ CameraOf[v[i]] = d /\ q.calls[v[i]].status = "queued"
                                  /\ q.calls[v[i]].next < q.calls[v[i]].images
      BY <1>2 DEF WaitersAreSound
    <3> HIDE DEF v
    <3>3. \A i \in 1..Len(v) : v[i] \in Calls
      BY <3>1, ElementOfSeq
    <3>4. \A i \in 1..Len(v) : v[i] # k
      BY <1>3, <2>1, <3>2, Zenon
    <3>5. \A i \in 1..Len(v) : o.calls[v[i]] = q.calls[v[i]]
      BY <1>7, <3>3, <3>4
    <3> QED
      BY <3>1, <3>2, <3>5
  <2>2. /\ IsOnce(o.waiting[c])
        /\ \A i \in 1..Len(o.waiting[c]) :
              /\ CameraOf[o.waiting[c][i]] = c
              /\ o.calls[o.waiting[c][i]].status = "queued"
              /\ o.calls[o.waiting[c][i]].next < o.calls[o.waiting[c][i]].images
    BY <1>12, <1>13
  <2> QED
    BY <2>1, <2>2 DEF WaitersAreSound
<1>16. /\ rest \in Seq(Cameras) /\ Len(rest) \in Nat
       /\ \A i \in 1..Len(rest) : rest[i] \in Cameras /\ rest[i] # c /\ q.waiting[rest[i]] # <<>>
  <2> DEFINE t == q.ready
  <2>1. t \in Seq(Cameras) /\ t # <<>> /\ IsOnce(t) /\ t[1] = c
        /\ \A i \in 1..Len(t) : q.waiting[t[i]] # <<>>
    BY <1>1, <1>2, <1>3, Zenon DEF TurnsAreSound, q
  <2>2. rest = Tail(t)
    BY DEF rest
  <2> HIDE DEF t
  <2>3. /\ Tail(t) \in Seq(Cameras) /\ Len(Tail(t)) = Len(t) - 1 /\ Len(t) \in Nat \ {0}
        /\ \A i \in 1..(Len(t) - 1) : Tail(t)[i] = t[i + 1]
    BY <2>1, TailFacts
  <2>4. IsOnce(Tail(t)) /\ \A i \in 1..(Len(t) - 1) : Tail(t)[i] # t[1]
    BY <2>1, TailFacts
  <2>5. \A i \in 1..(Len(t) - 1) : i + 1 \in 1..Len(t)
    BY <2>3
  <2>6. \A i \in 1..Len(t) : t[i] \in Cameras
    BY <2>1, ElementOfSeq
  <2> QED
    BY <2>1, <2>2, <2>3, <2>4, <2>5, <2>6
<1>17. TurnsAreSound(o)
  <2>1. \A i \in 1..Len(rest) : o.waiting[rest[i]] # <<>>
    BY <1>13, <1>16
  <2>2. \A i \in 1..Len(ready) : o.waiting[ready[i]] # <<>>
    <3>1. CASE ready = rest
      BY <2>1, <3>1
    <3>2. CASE ready = Append(rest, c) /\ left # <<>>
      <4>1. /\ Len(Append(rest, c)) = Len(rest) + 1 /\ Append(rest, c)[Len(rest) + 1] = c
            /\ \A i \in 1..Len(rest) : Append(rest, c)[i] = rest[i]
        <5>1. rest \in Seq(Cameras) /\ c \in Cameras
          BY <1>3, <1>16, Zenon
        <5> QED
          BY <5>1
      <4>2. \A i \in 1..(Len(rest) + 1) : i = Len(rest) + 1 \/ i \in 1..Len(rest)
        BY <1>16
      <4> QED
        BY <1>13, <2>1, <3>2, <4>1, <4>2
    <3> QED
      BY <1>3, <3>1, <3>2, Zenon
  <2> QED
    BY <1>3, <1>4, <2>2, Zenon DEF TurnsAreSound
<1>18. CountsAreTrue(o)
  <2>1. ASSUME NEW d \in Cameras PROVE o.counts[d] = Cardinality(QueuedOf(o, d))
    <3>1. \A j \in Calls : o.calls[j].status = q.calls[j].status
      BY <1>6, <1>7, <1>8
    <3>2. QueuedOf(o, d) = QueuedOf(q, d)
      BY <3>1 DEF QueuedOf, Of
    <3> QED
      BY <1>2, <1>4, <3>2 DEF CountsAreTrue
  <2> QED
    BY <2>1 DEF CountsAreTrue
<1>19. o \in QueueState
  <2>1. o.calls \in [Calls -> CallState]
    BY <1>1, <1>4, <1>10
  <2>2. o.waiting \in [Cameras -> Seq(Calls)]
    BY <1>1, <1>4, <1>14
  <2> QED
    BY <1>1, <1>3, <1>4, <2>1, <2>2, Zenon DEF QueueState
<1>20. QueueInv(o)
  BY <1>10, <1>15, <1>17, <1>18, <1>19 DEF QueueInv
<1> QED
  BY <1>20 DEF o

LEMMA ImageFacts ==
    ASSUME NEW b \in Seq(Image), NEW i \in 1..Len(b)
    PROVE  b[i] \in Image /\ b[i][1] \in Calls /\ b[i][2] \in 1..MaxImages /\ b[i] = <<b[i][1], b[i][2]>>
<1> DEFINE x == b[i]
<1>1. x \in Image
  BY ElementOfSeq
<1> HIDE DEF x
<1>2. x[1] \in Calls /\ x[2] \in 1..MaxImages /\ x = <<x[1], x[2]>>
  BY <1>1 DEF Image
<1> QED
  BY <1>1, <1>2 DEF x

LEMMA TurnKeepsFlight ==
    ASSUME NEW q, NEW s, NEW p, NEW c, NEW k, NEW n, NEW ready,
           PopInv(q, s), More(s),
           NextTurn(s, c, k, n, ready), Turn(s, p, c, k, n, ready)
    PROVE  /\ p.batch \in Seq(Image) /\ Len(p.batch) <= BatchSize /\ p.batch # <<>>
           /\ InFlight(p.queue, p.batch)
           /\ \A j \in Calls : p.queue.calls[j].status = q.calls[j].status
<1> DEFINE o == s.queue
           b == s.batch
           t == p.batch
           l == Len(b)
           call == [o.calls[k] EXCEPT !.next = n, !.age = 0]
<1>1. /\ o.calls \in [Calls -> CallState] /\ \A j \in Calls : CallIsSound(j, o.calls[j])
  BY DEF PopInv, QueueInv, QueueState
<1>2. /\ c \in Cameras /\ k \in Calls /\ n \in 1..MaxImages
      /\ o.calls[k].status = "queued"
      /\ n = o.calls[k].next + 1 /\ n <= o.calls[k].images
  BY Zenon DEF NextTurn
<1>3. /\ p.queue.calls = [o.calls EXCEPT ![k] = call] /\ t = Append(b, <<k, n>>)
  BY DEF Turn
<1>4. /\ b \in Seq(Image) /\ Len(b) < BatchSize /\ l \in Nat
      /\ \A j \in Calls : o.calls[j].status = q.calls[j].status
      /\ InFlight(o, b)
  BY DEF PopInv, More
<1>5. o.calls[k] \in CallState /\ CallIsSound(k, o.calls[k])
  BY <1>1, <1>2
<1>6. call.status = o.calls[k].status /\ call.results = o.calls[k].results /\ call.next = n
  <2> DEFINE x == o.calls[k]
  <2>1. x \in CallState
    BY <1>5
  <2> HIDE DEF x
  <2> QED
    BY <2>1 DEF CallState, x
<1>7. /\ p.queue.calls[k] = call
      /\ \A j \in Calls : j # k => p.queue.calls[j] = o.calls[j]
  BY <1>1, <1>2, <1>3
<1>8. o.calls[k].next \in Nat /\ o.calls[k].images \in Nat
  BY <1>5, Bounds DEF CallState
<1>9. o.calls[k].results[n] = None
  <2> DEFINE x == o.calls[k]
  <2>1. n \in 1..x.images /\ n > x.next
    BY <1>2, <1>8
  <2> QED
    BY <1>2, <1>5, <2>1 DEF CallIsSound
<1> HIDE DEF call, o, b, t, l
<1>10. /\ t \in Seq(Image) /\ Len(t) = l + 1 /\ t[l + 1] = <<k, n>>
       /\ \A i \in 1..l : t[i] = b[i]
  <2>1. <<k, n>> \in Image
    BY <1>2 DEF Image
  <2> DEFINE x == <<k, n>>
  <2> HIDE DEF x
  <2>2. x \in Image /\ b \in Seq(Image) /\ t = Append(b, x)
    BY <1>3, <1>4, <2>1 DEF x
  <2>3. t \in Seq(Image) /\ Len(t) = Len(b) + 1 /\ t[Len(b) + 1] = x /\ \A i \in 1..Len(b) : t[i] = b[i]
    BY <2>2
  <2> QED
    BY <2>3 DEF l, x
<1>11. \A i \in 1..(l + 1) : i = l + 1 \/ i \in 1..l
  BY <1>4
<1>12. ASSUME NEW i \in 1..l
       PROVE  /\ b[i][1] \in Calls /\ b[i][2] \in 1..MaxImages /\ b[i] = <<b[i][1], b[i][2]>>
              /\ o.calls[b[i][1]].status # "admitted"
              /\ o.calls[b[i][1]].status = "queued" =>
                    b[i][2] <= o.calls[b[i][1]].next /\ o.calls[b[i][1]].results[b[i][2]] = None
  <2>1. i \in 1..Len(b)
    BY DEF l
  <2> QED
    BY <1>4, <2>1, ImageFacts DEF InFlight
<1>13. ASSUME NEW i \in 1..l PROVE b[i] # <<k, n>>
  <2> SUFFICES ASSUME b[i] = <<k, n>> PROVE FALSE
    OBVIOUS
  <2>1. n <= o.calls[k].next
    BY <1>2, <1>12
  <2> QED
    BY <1>2, <1>8, <2>1
<1>14. IsOnce(t)
  <2>1. IsOnce(b)
    BY <1>4 DEF InFlight
  <2>2. <<k, n>> \in Image
    BY <1>2 DEF Image
  <2> DEFINE x == <<k, n>>
  <2>3. x \in Image /\ b \in Seq(Image) /\ IsOnce(b) /\ \A i \in 1..Len(b) : b[i] # x
    BY <1>4, <1>13, <2>1, <2>2 DEF l
  <2> HIDE DEF x
  <2>4. IsOnce(Append(b, x))
    BY <2>3, AppendOnce
  <2> QED
    BY <1>3, <2>4 DEF x
<1>15. ASSUME NEW i \in 1..l
       PROVE  /\ p.queue.calls[b[i][1]].status # "admitted"
              /\ p.queue.calls[b[i][1]].status = "queued" =>
                    /\ b[i][2] <= p.queue.calls[b[i][1]].next
                    /\ p.queue.calls[b[i][1]].results[b[i][2]] = None
  <2>1. CASE b[i][1] = k
    <3>1. b[i][2] <= o.calls[k].next /\ b[i][2] \in Int /\ o.calls[k].results[b[i][2]] = None
      BY <1>2, <1>12, <2>1
    <3>2. b[i][2] <= n
      BY <1>2, <1>8, <3>1
    <3> QED
      BY <1>2, <1>6, <1>7, <2>1, <3>1, <3>2
  <2>2. CASE b[i][1] # k
    BY <1>7, <1>12, <2>2
  <2> QED
    BY <2>1, <2>2
<1>16. InFlight(p.queue, t)
  <2>1. ASSUME NEW i \in 1..(l + 1)
        PROVE  /\ p.queue.calls[t[i][1]].status # "admitted"
               /\ p.queue.calls[t[i][1]].status = "queued" =>
                     /\ t[i][2] <= p.queue.calls[t[i][1]].next
                     /\ p.queue.calls[t[i][1]].results[t[i][2]] = None
    <3>1. CASE i \in 1..l
      BY <1>10, <1>15, <3>1
    <3>2. CASE i = l + 1
      <4>1. t[i][1] = k /\ t[i][2] = n /\ n <= n
        BY <1>2, <1>10, <3>2
      <4> QED
        BY <1>2, <1>6, <1>7, <1>9, <4>1
    <3> QED
      BY <1>11, <3>1, <3>2
  <2> QED
    BY <1>10, <1>14, <2>1 DEF InFlight
<1>17. \A j \in Calls : p.queue.calls[j].status = q.calls[j].status
  BY <1>4, <1>6, <1>7
<1>18. Len(t) <= BatchSize /\ t # <<>>
  <2>1. Len(t) <= BatchSize
    BY <1>4, <1>10, Bounds DEF l
  <2>2. Len(t) # 0
    BY <1>4, <1>10
  <2> QED
    BY <2>1, <2>2
<1> QED
  BY <1>10, <1>16, <1>17, <1>18 DEF t

TookToo(b, t, l, c) ==
    /\ \A n \in 0..l : \A d : Took(t, n, d) <=> Took(b, n, d)
    /\ \A d : Took(t, l + 1, d) <=> Took(b, l, d) \/ d = c

LEMMA TookMore ==
    ASSUME NEW b, NEW t, NEW l \in Nat, NEW c, Len(b) = l, Len(t) = l + 1,
           \A i \in 1..l : t[i] = b[i], CameraOf[t[l + 1][1]] = c
    PROVE  TookToo(b, t, l, c)
<1>1. \A n \in 0..l : \A h \in 1..n : h \in 1..l
  OBVIOUS
<1>2. \A n \in 0..l : \A d : Took(t, n, d) <=> Took(b, n, d)
  BY <1>1, Zenon DEF Took
<1>3. \A h \in 1..(l + 1) : h = l + 1 \/ h \in 1..l
  OBVIOUS
<1>4. l + 1 \in 1..(l + 1) /\ \A h \in 1..l : h \in 1..(l + 1)
  OBVIOUS
<1>5. \A d : Took(t, l + 1, d) <=> Took(b, l, d) \/ d = c
  BY <1>3, <1>4, Zenon DEF Took
<1> QED
  BY <1>2, <1>5 DEF TookToo

(* The first camera of the line is served and leaves it, or goes to its end. *)
Served1(b, t, l, c) ==
    /\ l \in Nat /\ Len(b) = l /\ Len(t) = l + 1
    /\ \A i \in 1..l : t[i] = b[i]
    /\ CameraOf[t[l + 1][1]] = c

Moved(old, rest, ready, c) ==
    /\ Len(old) \in Nat \ {0} /\ Len(rest) = Len(old) - 1 /\ c = old[1]
    /\ \A i \in 1..Len(rest) : rest[i] = old[i + 1] /\ rest[i] # c
    /\ ready = rest \/ (Len(ready) = Len(rest) + 1 /\ ready[Len(ready)] = c)
    /\ \A i \in 1..Len(rest) : i \in 1..Len(ready) /\ ready[i] = rest[i]
    /\ Len(ready) \in Nat

LEMMA TurnInOrder ==
    ASSUME NEW R, NEW b, NEW t, NEW l, NEW c, NEW old, NEW rest, NEW ready,
           Served1(b, t, l, c), Moved(old, rest, ready, c), InOrder(R, b, old)
    PROVE  InOrder(R, t, ready)
<1> DEFINE m == Len(rest)
           r == Len(ready)
<1>1. /\ l \in Nat /\ Len(b) = l /\ Len(t) = l + 1
      /\ \A i \in 1..l : t[i] = b[i]
      /\ CameraOf[t[l + 1][1]] = c
  BY DEF Served1
<1>2. /\ m \in Nat /\ Len(old) = m + 1 /\ c = old[1] /\ r \in Nat
      /\ \A i \in 1..m : rest[i] = old[i + 1] /\ rest[i] # c
      /\ r = m \/ (r = m + 1 /\ ready[r] = c)
      /\ \A i \in 1..m : i \in 1..r /\ ready[i] = rest[i]
  BY DEF Moved
<1>3. /\ \A n \in 0..l : \A d : Took(t, n, d) <=> Took(b, n, d)
      /\ \A d : Took(t, l + 1, d) <=> Took(b, l, d) \/ d = c
  <2>1. TookToo(b, t, l, c)
    BY <1>1, TookMore
  <2> QED
    BY <2>1 DEF TookToo
<1> HIDE DEF m, r
<1>4. /\ \A i \in 1..(m + 1) : old[i] \in R
      /\ \A i \in 1..l : CameraOf[b[i][1]] \in R
      /\ \A d \in R : Took(b, l, d) \/ \E i \in 1..(m + 1) : old[i] = d
      /\ \A i \in 1..l : Took(b, i - 1, CameraOf[b[i][1]]) => \A d \in R : Took(b, i - 1, d)
      /\ \A i, j \in 1..(m + 1) : i < j /\ Took(b, l, old[i]) => Took(b, l, old[j])
  BY <1>1, <1>2 DEF InOrder
<1>5. /\ 1 \in 1..(m + 1) /\ \A i \in 1..m : i + 1 \in 1..(m + 1) /\ 1 < i + 1
      /\ \A i \in 1..(m + 1) : i = 1 \/ (i - 1 \in 1..m /\ (i - 1) + 1 = i)
      /\ \A i \in 1..(l + 1) : i = l + 1 \/ (i \in 1..l /\ i - 1 \in 0..l)
      /\ (l + 1) - 1 = l /\ l \in 0..l
  BY <1>1, <1>2
<1>6. \A i \in 1..r : \/ i \in 1..m /\ ready[i] = old[i + 1] /\ ready[i] # c
                      \/ i = r /\ r = m + 1 /\ ready[i] = c
  <2>1. \A i \in 1..r : i \in 1..m \/ (i = r /\ r = m + 1)
    BY <1>2
  <2> QED
    BY <1>2, <2>1
<1>7. \A i \in 1..r : ready[i] \in R
  BY <1>2, <1>4, <1>5, <1>6, Zenon
<1>8. \A i \in 1..(l + 1) : CameraOf[t[i][1]] \in R
  BY <1>1, <1>2, <1>4, <1>5, Zenon
<1>9. \A d \in R : Took(t, l + 1, d) \/ \E i \in 1..r : ready[i] = d
  <2> SUFFICES ASSUME NEW d \in R, d # c, ~Took(b, l, d) PROVE \E i \in 1..r : ready[i] = d
    BY <1>3, Zenon
  <2>1. PICK i \in 1..(m + 1) : old[i] = d
    BY <1>4
  <2>2. i - 1 \in 1..m /\ (i - 1) + 1 = i
    BY <1>2, <1>5, <2>1
  <2>3. i - 1 \in 1..r /\ ready[i - 1] = d
    BY <1>2, <2>1, <2>2
  <2> QED
    BY <2>3
<1>10. ASSUME NEW i \in 1..(l + 1), Took(t, i - 1, CameraOf[t[i][1]]), NEW d \in R
       PROVE  Took(t, i - 1, d)
  <2>1. CASE i \in 1..l /\ i - 1 \in 0..l
    BY <1>1, <1>3, <1>4, <1>10, <2>1, Zenon
  <2>2. CASE i = l + 1
    <3>1. Took(b, l, c)
      BY <1>1, <1>3, <1>5, <1>10, <2>2, Zenon
    <3>2. \A j \in 1..(m + 1) : Took(b, l, old[j])
      <4>1. \A j \in 1..(m + 1) : j = 1 \/ 1 < j
        BY <1>2
      <4> QED
        BY <1>2, <1>4, <1>5, <3>1, <4>1, Zenon
    <3>3. Took(b, l, d)
      BY <1>4, <3>2, Zenon
    <3> QED
      BY <1>3, <1>5, <2>2, <3>3, Zenon
  <2> QED
    BY <1>5, <2>1, <2>2
<1>11. ASSUME NEW i \in 1..r, NEW j \in 1..r, i < j, Took(t, l + 1, ready[i])
       PROVE  Took(t, l + 1, ready[j])
  <2>1. i \in 1..m /\ ready[i] = old[i + 1] /\ ready[i] # c
    <3>1. ~(i = r)
      BY <1>2, <1>11
    <3> QED
      BY <1>6, <3>1
  <2>2. Took(b, l, old[i + 1])
    BY <1>3, <1>11, <2>1, Zenon
  <2>3. CASE j \in 1..m /\ ready[j] = old[j + 1]
    <3>1. i + 1 \in 1..(m + 1) /\ j + 1 \in 1..(m + 1) /\ i + 1 < j + 1
      BY <1>2, <1>11, <2>1, <2>3
    <3> QED
      BY <1>3, <1>4, <2>2, <2>3, <3>1, Zenon
  <2>4. CASE ready[j] = c
    BY <1>3, <2>4, Zenon
  <2> QED
    BY <1>6, <2>3, <2>4
<1> QED
  BY <1>1, <1>7, <1>8, <1>9, <1>10, <1>11 DEF InOrder, r

LEMMA TurnAlternates ==
    ASSUME NEW q, NEW s, NEW p, NEW c, NEW k, NEW n, NEW ready,
           PopInv(q, s), More(s),
           NextTurn(s, c, k, n, ready), Turn(s, p, c, k, n, ready)
    PROVE  Alternates(p.batch, p.queue.ready) /\ InOrder(Line(q), p.batch, p.queue.ready)
<1> DEFINE b == s.batch
           t == p.batch
           l == Len(b)
           old == s.queue.ready
           rest == Tail(old)
           x == <<k, n>>
<1>1. /\ b \in Seq(Image) /\ Alternates(b, old) /\ old \in Seq(Cameras) /\ old # <<>> /\ IsOnce(old)
  BY DEF PopInv, QueueInv, QueueState, TurnsAreSound, More
<1>2. /\ c \in Cameras /\ k \in Calls /\ n \in 1..MaxImages /\ CameraOf[k] = c /\ c = old[1]
      /\ ready \in Seq(Cameras)
      /\ ready = rest \/ ready = Append(rest, c)
  BY Zenon DEF NextTurn
<1>3. t = Append(b, x) /\ p.queue.ready = ready /\ x[1] = k
  BY DEF Turn
<1>4. x \in Image
  BY <1>2 DEF Image
<1> HIDE DEF b, t, l, old, rest, x
<1>5. t \in Seq(Image) /\ Len(t) = l + 1 /\ l \in Nat /\ t[l + 1] = x /\ \A i \in 1..l : t[i] = b[i]
  <2>1. b \in Seq(Image) /\ x \in Image /\ t = Append(b, x)
    BY <1>1, <1>3, <1>4
  <2>2. t \in Seq(Image) /\ Len(t) = Len(b) + 1 /\ Len(b) \in Nat /\ t[Len(b) + 1] = x
        /\ \A i \in 1..Len(b) : t[i] = b[i]
    BY <2>1
  <2> QED
    BY <2>2 DEF l
<1>6. /\ rest \in Seq(Cameras) /\ Len(rest) = Len(old) - 1 /\ Len(old) \in Nat \ {0}
      /\ \A i \in 1..Len(rest) : rest[i] = old[i + 1] /\ rest[i] # c
  <2>1. Tail(old) \in Seq(Cameras) /\ Len(Tail(old)) = Len(old) - 1 /\ Len(old) \in Nat \ {0}
        /\ \A i \in 1..(Len(old) - 1) : Tail(old)[i] = old[i + 1]
    BY <1>1, TailFacts
  <2>2. \A i \in 1..(Len(old) - 1) : Tail(old)[i] # old[1]
    BY <1>1, TailFacts
  <2> QED
    BY <1>2, <2>1, <2>2 DEF rest
<1>7. /\ Len(ready) \in Nat
      /\ \A i \in 1..Len(ready) : \/ i \in 1..Len(rest) /\ ready[i] = rest[i]
                                  \/ i = Len(ready) /\ ready[i] = c
  <2>1. CASE ready = rest
    <3>1. Len(rest) \in Nat
      BY <1>6
    <3>2. \A i \in 1..Len(rest) : i \in 1..Len(rest) /\ rest[i] = rest[i]
      OBVIOUS
    <3> QED
      BY <2>1, <3>1, <3>2
  <2>2. CASE ready = Append(rest, c)
    <3> DEFINE m == Len(rest)
    <3>1. rest \in Seq(Cameras) /\ c \in Cameras
      BY <1>2, <1>6
    <3>2. Len(ready) = Len(rest) + 1 /\ Len(rest) \in Nat /\ ready[Len(rest) + 1] = c
          /\ \A i \in 1..Len(rest) : ready[i] = rest[i]
      BY <2>2, <3>1
    <3>3. Len(ready) = m + 1 /\ m \in Nat /\ ready[m + 1] = c /\ \A i \in 1..m : ready[i] = rest[i]
      BY <3>2
    <3> HIDE DEF m
    <3>4. \A i \in 1..(m + 1) : i = m + 1 \/ i \in 1..m
      BY <3>3
    <3>5. \A i \in 1..(m + 1) : \/ i \in 1..m /\ ready[i] = rest[i]
                                \/ i = m + 1 /\ ready[i] = c
      BY <3>3, <3>4
    <3> QED
      BY <3>3, <3>5 DEF m
  <2> QED
    BY <1>2, <2>1, <2>2
<1>moved. /\ ready = rest \/ (Len(ready) = Len(rest) + 1 /\ ready[Len(ready)] = c)
          /\ \A i \in 1..Len(rest) : i \in 1..Len(ready) /\ ready[i] = rest[i]
          /\ Len(ready) \in Nat
  <2>1. CASE ready = rest
    BY <1>6, <2>1
  <2>2. CASE ready = Append(rest, c)
    <3>1. rest \in Seq(Cameras) /\ c \in Cameras
      BY <1>2, <1>6
    <3>2. Len(ready) = Len(rest) + 1 /\ Len(rest) \in Nat /\ ready[Len(rest) + 1] = c
          /\ \A i \in 1..Len(rest) : ready[i] = rest[i]
      BY <2>2, <3>1
    <3>3. \A i \in 1..Len(rest) : i \in 1..Len(ready)
      BY <3>2
    <3> QED
      BY <3>2, <3>3
  <2> QED
    BY <1>2, <2>1, <2>2
<1>8. \A i \in 1..(l + 1) : i = l + 1 \/ i \in 1..l
  BY <1>5
<1>order. InOrder(Line(q), t, ready)
  <2>1. InOrder(Line(q), b, old)
    BY DEF PopInv, b, old
  <2> QED
    <3>1. Served1(b, t, l, c)
      BY <1>2, <1>3, <1>5 DEF Served1, l
    <3>2. Moved(old, rest, ready, c)
      BY <1>2, <1>6, <1>moved DEF Moved
    <3> QED
      BY <2>1, <3>1, <3>2, TurnInOrder
<1> SUFFICES Alternates(t, ready)
  BY <1>3, <1>order DEF t
<1>9. CASE l = 0
  <2>1. t[1][1] = k /\ Len(t) = 1
    BY <1>3, <1>5, <1>9
  <2>2. \A i \in 1..Len(ready) : ready[i] = c => i = Len(ready)
    BY <1>6, <1>7
  <2> QED
    BY <1>2, <1>3, <2>1, <2>2 DEF Alternates
<1>10. CASE l = 1
  <2>1. Len(t) = 2 /\ t[1] = b[1] /\ t[2][1] = k
    BY <1>3, <1>5, <1>10
  <2>2. CASE CameraOf[b[1][1]] = c
    <3>1. Len(old) = 1
      <4>1. 1 \in 1..Len(old) /\ old[1] = CameraOf[b[1][1]]
        BY <1>2, <1>6, <2>2
      <4>2. 1 = Len(old)
        BY <1>1, <1>10, <4>1 DEF Alternates, l
      <4> QED
        BY <4>2
    <3>2. \A i \in 1..Len(ready) : ready[i] = c
      BY <1>6, <1>7, <3>1
    <3>3. \A i \in 1..Len(t) : CameraOf[t[i][1]] = c
      <4>1. \A i \in 1..2 : i = 1 \/ i = 2
        OBVIOUS
      <4> QED
        BY <1>2, <2>1, <2>2, <4>1
    <3>4. CameraOf[t[1][1]] = c
      BY <2>1, <2>2
    <3> QED
      BY <1>3, <2>1, <3>2, <3>3, <3>4 DEF Alternates
  <2>3. CASE CameraOf[b[1][1]] # c
    BY <1>2, <1>3, <2>1, <2>3 DEF Alternates
  <2> QED
    BY <2>2, <2>3
<1>11. CASE l >= 2
  <2>1. Len(t) = l + 1 /\ t[1] = b[1] /\ t[2] = b[2] /\ Len(t) >= 2 /\ Len(t) # 1
    BY <1>5, <1>11
  <2>2. CASE CameraOf[b[2][1]] # CameraOf[b[1][1]]
    BY <1>3, <2>1, <2>2 DEF Alternates
  <2>3. CASE /\ \A i \in 1..Len(b) : CameraOf[b[i][1]] = CameraOf[b[1][1]]
             /\ \A i \in 1..Len(old) : old[i] = CameraOf[b[1][1]]
    <3>1. c = CameraOf[b[1][1]]
      BY <1>2, <1>6, <2>3
    <3>2. \A i \in 1..Len(t) : CameraOf[t[i][1]] = c
      <4>1. CameraOf[t[l + 1][1]] = c
        BY <1>2, <1>3, <1>5
      <4>2. \A i \in 1..l : CameraOf[t[i][1]] = c
        BY <1>5, <2>3, <3>1 DEF l
      <4> QED
        BY <1>5, <1>8, <4>1, <4>2
    <3>3. \A i \in 1..Len(ready) : ready[i] = c
      <4>1. \A i \in 1..Len(rest) : i + 1 \in 1..Len(old)
        BY <1>6
      <4>2. \A i \in 1..Len(rest) : rest[i] = c
        BY <1>6, <2>3, <3>1, <4>1
      <4> QED
        BY <1>7, <4>2
    <3> QED
      BY <1>3, <2>1, <3>1, <3>2, <3>3 DEF Alternates
  <2> QED
    BY <1>1, <1>11, <2>2, <2>3 DEF Alternates, l
<1>12. l = 0 \/ l = 1 \/ l >= 2
  BY <1>5
<1> QED
  BY <1>9, <1>10, <1>11, <1>12

LEMMA PopKeeps ==
    ASSUME NEW q, NEW s, PopInv(q, s), More(s)
    PROVE  PopInv(q, Pop(s)) /\ Pop(s).batch # <<>>
<1>1. QueueInv(s.queue) /\ s = [queue |-> s.queue, batch |-> s.batch] /\ s.queue.ready # <<>>
  BY DEF PopInv, More
<1> DEFINE p == Pop(s)
<1>2. PICK c, k, n, ready : NextTurn(s, c, k, n, ready) /\ Turn(s, p, c, k, n, ready)
  BY <1>1, PopIsTurn
<1> HIDE DEF p
<1>3. QueueInv(p.queue)
  BY <1>1, <1>2, TurnKeepsQueue
<1>4. /\ p.batch \in Seq(Image) /\ Len(p.batch) <= BatchSize /\ p.batch # <<>>
      /\ InFlight(p.queue, p.batch)
      /\ \A j \in Calls : p.queue.calls[j].status = q.calls[j].status
  BY <1>2, TurnKeepsFlight
<1>5. Alternates(p.batch, p.queue.ready) /\ InOrder(Line(q), p.batch, p.queue.ready)
  BY <1>2, TurnAlternates
<1>6. p = [queue |-> p.queue, batch |-> p.batch]
  BY <1>2 DEF Turn
<1>7. PopInv(q, p) /\ p.batch # <<>>
  BY <1>3, <1>4, <1>5, <1>6 DEF PopInv
<1> QED
  BY <1>7 DEF p

LEMMA PopStarts ==
    ASSUME NEW q, QueueInv(q)
    PROVE  PopInv(q, [queue |-> q, batch |-> <<>>])
<1> DEFINE s == [queue |-> q, batch |-> <<>>]
<1>1. s.queue = q /\ s.batch = <<>> /\ s = [queue |-> s.queue, batch |-> s.batch]
  OBVIOUS
<1> HIDE DEF s
<1>2. Len(s.batch) = 0 /\ s.batch \in Seq(Image) /\ 1..0 = {}
  BY <1>1
<1>3. IsOnce(s.batch)
  BY <1>2 DEF IsOnce
<1>4. InFlight(q, s.batch)
  BY <1>2, <1>3 DEF InFlight
<1>5. Alternates(s.batch, q.ready)
  BY <1>2 DEF Alternates
<1>o. InOrder(Line(q), s.batch, q.ready)
  <2>1. \A i \in 1..Len(q.ready) : q.ready[i] \in Line(q)
    BY DEF Line
  <2>2. \A c \in Line(q) : \E i \in 1..Len(q.ready) : q.ready[i] = c
    BY DEF Line
  <2>3. \A c : ~Took(s.batch, 0, c)
    BY <1>2 DEF Took
  <2> QED
    BY <1>2, <2>1, <2>2, <2>3 DEF InOrder
<1>6. PopInv(q, s)
  BY <1>1, <1>2, <1>4, <1>5, <1>o, Bounds DEF PopInv
<1> QED
  BY <1>6 DEF s

Turns(X) == {IF More(s) THEN Pop(s) ELSE s : s \in X}

LEMMA PopBatchKeeps ==
    ASSUME NEW q, QueueInv(q), q.ready # <<>>, NEW s, s \in PopBatch(q)
    PROVE  PopInv(q, s) /\ s.batch # <<>>
<1> DEFINE Pops(f) == f = [n \in Nat |-> IF n = 0 THEN {[queue |-> q, batch |-> <<>>]}
                                         ELSE {IF More(x) THEN Pop(x) ELSE x : x \in f[n - 1]}]
           popped == CHOOSE f : Pops(f)
           start == [queue |-> q, batch |-> <<>>]
           Good == {x \in [queue : QueueState, batch : Seq(Image)] : PopInv(q, x)}
           D == SUBSET Good
           step == [p \in Nat \X D |-> Turns(p[2])]
           Full == {x \in Good : x.batch # <<>>}
           E == SUBSET Full
<1>1. s \in popped[BatchSize + Cardinality(Cameras)]
  BY DEF PopBatch
<1>2. start \in Good /\ start.queue = q /\ start.batch = <<>>
  <2>1. PopInv(q, start)
    BY PopStarts
  <2>2. q \in QueueState
    BY DEF QueueInv
  <2> QED
    BY <2>1, <2>2
<1>3. \A x : PopInv(q, x) => x \in Good
  <2> SUFFICES ASSUME NEW x, PopInv(q, x) PROVE x \in Good
    OBVIOUS
  <2>1. x = [queue |-> x.queue, batch |-> x.batch] /\ x.queue \in QueueState /\ x.batch \in Seq(Image)
    BY DEF PopInv, QueueInv
  <2> QED
    BY <2>1
<1>4. \A x \in Good : PopInv(q, x)
  OBVIOUS
<1> HIDE DEF Good, start
<1>5. \A x \in Good : More(x) => Pop(x) \in Full
  <2> SUFFICES ASSUME NEW x \in Good, More(x) PROVE Pop(x) \in Full
    OBVIOUS
  <2>1. PopInv(q, Pop(x)) /\ Pop(x).batch # <<>>
    BY <1>4, PopKeeps
  <2> QED
    BY <1>3, <2>1
<1>6. \A X \in D : Turns(X) \in D
  BY <1>5 DEF Turns
<1>7. \A X \in E : Turns(X) \in E
  BY <1>5 DEF Turns
<1>8. \E f : Pops(f)
  <2>1. step \in [Nat \X D -> D]
    BY <1>6
  <2>2. \A n \in Nat, X \in D : step[<<n, X>>] = Turns(X)
    OBVIOUS
  <2>3. {start} \in D
    BY <1>2
  <2> HIDE DEF step, D
  <2>4. PICK f : Succession(f, D, {start}, step)
    BY <2>1, <2>3, SuccessionExists
  <2>5. \A n \in Nat \ {0} : f[n] = Turns(f[n - 1])
    <3>1. \A n \in Nat \ {0} : n \in Nat /\ n - 1 \in Nat
      OBVIOUS
    <3> QED
      BY <2>2, <2>4, <3>1 DEF Succession
  <2>6. \A n \in Nat : f[n] = IF n = 0 THEN {start} ELSE Turns(f[n - 1])
    BY <2>4, <2>5 DEF Succession
  <2>7. f = [n \in Nat |-> f[n]]
    BY <2>4 DEF Succession
  <2>8. f = [n \in Nat |-> IF n = 0 THEN {start} ELSE Turns(f[n - 1])]
    BY <2>6, <2>7
  <2>9. Pops(f)
    BY <2>8 DEF Turns, start
  <2> HIDE DEF Pops
  <2> QED
    BY <2>9
<1>9. Pops(popped)
  <2> HIDE DEF Pops
  <2> QED
    BY <1>8, Zenon
<1>10. popped[0] = {start} /\ \A n \in Nat : popped[n + 1] = Turns(popped[n])
  <2> HIDE DEF popped
  <2>1. \A n \in Nat : n + 1 \in Nat /\ n + 1 # 0 /\ (n + 1) - 1 = n
    OBVIOUS
  <2> QED
    BY <1>9, <2>1 DEF Turns, start
<1> HIDE DEF popped, Pops, D, E
<1>11. popped[1] \in E
  <2>1. More(start)
    BY <1>2, Bounds DEF More
  <2>2. popped[1] = Turns({start})
    <3>1. 0 \in Nat /\ 0 + 1 = 1
      OBVIOUS
    <3> QED
      BY <1>10, <3>1
  <2>3. Turns({start}) = {Pop(start)}
    BY <2>1 DEF Turns
  <2> QED
    BY <1>2, <1>5, <2>1, <2>2, <2>3 DEF E
<1> DEFINE g == [n \in Nat |-> popped[n + 1]]
<1>12. g[0] \in E /\ \A n \in Nat : g[n] \in E => g[n + 1] \in E
  <2>1. g[0] = popped[1] /\ \A n \in Nat : n + 1 \in Nat /\ g[n] = popped[n + 1] /\ g[n + 1] = popped[(n + 1) + 1]
    OBVIOUS
  <2> HIDE DEF g
  <2>2. g[0] \in E
    BY <1>11, <2>1
  <2>3. ASSUME NEW n \in Nat, g[n] \in E PROVE g[n + 1] \in E
    <3>1. g[n + 1] = Turns(g[n])
      BY <1>10, <2>1, Zenon
    <3> QED
      BY <1>7, <2>3, <3>1, Zenon
  <2> QED
    BY <2>2, <2>3, Zenon
<1>13. \A n \in Nat : g[n] \in E
  <2> HIDE DEF g
  <2> QED
    BY <1>12, RecursionKeeps
<1>14. popped[BatchSize + Cardinality(Cameras)] \in E
  <2> DEFINE m == BatchSize + Cardinality(Cameras) - 1
  <2>1. Cardinality(Cameras) \in Nat
    BY FS_CardinalityType
  <2>2. m \in Nat /\ m + 1 = BatchSize + Cardinality(Cameras)
    BY <2>1, Bounds
  <2>3. g[m] = popped[m + 1]
    BY <2>2
  <2> HIDE DEF m, g
  <2> QED
    BY <1>13, <2>2, <2>3
<1>15. s \in Full
  BY <1>1, <1>14 DEF E
<1> QED
  BY <1>4, <1>15
------------------------------------------------------------------------------
(* The steps of the queue.                                                   *)
LEMMA NewCalls ==
    /\ NoCall \in CallState /\ NoCall.status = "free" /\ NoCall.answer = "none"
    /\ \A k, a : a \in {"none", "error"} =>
          /\ Answered(a) \in CallState /\ Answered(a).status = "finished"
          /\ CallIsSound(k, Answered(a))
    /\ \A k : CallIsSound(k, NoCall)
<1>1. 0 \in 0..MaxImages /\ 0 \in 0..(FrameAge + 1) /\ <<>> \in Seq(Image \cup {None})
  BY Bounds
<1>2. NoCall \in CallState /\ NoCall.status = "free" /\ NoCall.answer = "none"
  BY <1>1 DEF NoCall, CallState
<1>3. ASSUME NEW a \in {"none", "error"}
      PROVE  /\ Answered(a) \in CallState /\ Answered(a).status = "finished"
             /\ Answered(a).answer = a
  BY <1>1 DEF Answered, NoCall, CallState
<1>4. \A k, a : a \in {"none", "error"} => CallIsSound(k, Answered(a))
  BY <1>3 DEF CallIsSound
<1>5. \A k : CallIsSound(k, NoCall)
  BY <1>2 DEF CallIsSound
<1> QED
  BY <1>2, <1>3, <1>4, <1>5

(* Calls change, but none of them joins or leaves those that are under way.  *)
SameQueued(q, calls) ==
    \A k \in Calls :
       /\ CallIsSound(k, calls[k])
       /\ calls[k].status = "queued" <=> q.calls[k].status = "queued"
       /\ calls[k].status = "queued" =>
             calls[k].next = q.calls[k].next /\ calls[k].images = q.calls[k].images

LEMMA CallsChange ==
    ASSUME NEW q, QueueInv(q), NEW calls \in [Calls -> CallState],
           NEW p, p = [q EXCEPT !.calls = calls], SameQueued(q, calls)
    PROVE  QueueInv(p) /\ p.calls = calls
<1>0. \A k \in Calls :
         /\ CallIsSound(k, calls[k])
         /\ calls[k].status = "queued" <=> q.calls[k].status = "queued"
         /\ calls[k].status = "queued" =>
               calls[k].next = q.calls[k].next /\ calls[k].images = q.calls[k].images
  BY DEF SameQueued
<1>1. q \in QueueState
  BY DEF QueueInv
<1>2. /\ p.calls = calls
      /\ p = [calls |-> calls, waiting |-> q.waiting, ready |-> q.ready, counts |-> q.counts]
  BY <1>1 DEF QueueState
<1>3. p.waiting = q.waiting /\ p.ready = q.ready /\ p.counts = q.counts
  BY <1>2
<1>4. p \in QueueState
  BY <1>1, <1>2 DEF QueueState
<1>5. WaitersAreSound(p)
  <2>1. ASSUME NEW c \in Cameras, NEW i \in 1..Len(p.waiting[c])
        PROVE  /\ CameraOf[p.waiting[c][i]] = c
               /\ p.calls[p.waiting[c][i]].status = "queued"
               /\ p.calls[p.waiting[c][i]].next < p.calls[p.waiting[c][i]].images
    <3>1. q.waiting[c] \in Seq(Calls) /\ i \in 1..Len(q.waiting[c])
      BY <1>1, <1>3 DEF QueueState
    <3>2. q.waiting[c][i] \in Calls
      BY <3>1, ElementOfSeq
    <3>3. /\ CameraOf[q.waiting[c][i]] = c
          /\ q.calls[q.waiting[c][i]].status = "queued"
          /\ q.calls[q.waiting[c][i]].next < q.calls[q.waiting[c][i]].images
      BY <3>1 DEF QueueInv, WaitersAreSound
    <3> QED
      BY <1>0, <1>2, <1>3, <3>2, <3>3
  <2>2. \A c \in Cameras : IsOnce(p.waiting[c])
    BY <1>3 DEF QueueInv, WaitersAreSound
  <2> QED
    BY <2>1, <2>2 DEF WaitersAreSound
<1>6. TurnsAreSound(p)
  BY <1>3 DEF QueueInv, TurnsAreSound
<1>7. CountsAreTrue(p)
  <2>1. \A c \in Cameras : QueuedOf(p, c) = QueuedOf(q, c)
    BY <1>0, <1>2 DEF QueuedOf, Of
  <2> QED
    BY <1>3, <2>1 DEF QueueInv, CountsAreTrue
<1> QED
  BY <1>0, <1>2, <1>4, <1>5, <1>6, <1>7 DEF QueueInv

(* The calls that have images in b are over, or as they were.                *)
Undisturbed(q, p, b) ==
    \A k \in Calls :
       \/ p.calls[k].status \in {"free", "finished"}
       \/ /\ p.calls[k].status = q.calls[k].status
          /\ p.calls[k].next = q.calls[k].next
          /\ p.calls[k].results = q.calls[k].results
       \/ \A i \in 1..Len(b) : b[i][1] # k

LEMMA FlightKeeps ==
    ASSUME NEW q, NEW p, NEW b \in Seq(Image), InFlight(q, b), Undisturbed(q, p, b)
    PROVE  InFlight(p, b)
<1>1. ASSUME NEW i \in 1..Len(b)
      PROVE  /\ p.calls[b[i][1]].status # "admitted"
             /\ p.calls[b[i][1]].status = "queued" =>
                   b[i][2] <= p.calls[b[i][1]].next /\ p.calls[b[i][1]].results[b[i][2]] = None
  <2>1. b[i][1] \in Calls
    BY ImageFacts
  <2>2. /\ q.calls[b[i][1]].status # "admitted"
        /\ q.calls[b[i][1]].status = "queued" =>
              b[i][2] <= q.calls[b[i][1]].next /\ q.calls[b[i][1]].results[b[i][2]] = None
    BY DEF InFlight
  <2> QED
    BY <2>1, <2>2 DEF Undisturbed
<1> QED
  BY <1>1 DEF InFlight

(* Failed: the calls of S that are under way are answered with an error.     *)
LEMMA FailedKeeps ==
    ASSUME NEW q, QueueInv(q), NEW S, NEW p, p = Failed(q, S)
    PROVE  /\ QueueInv(p)
           /\ \A k \in Calls : p.calls[k] = IF k \in S /\ q.calls[k].status = "queued"
                                            THEN Answered("error") ELSE q.calls[k]
<1> DEFINE R == S \cap Having(q, "queued")
           call == [k \in Calls |-> Answered("error")]
<1>1. R \in SUBSET Having(q, "queued") /\ R \subseteq Calls
  BY DEF Having
<1>2. \A k \in R : call[k] \in CallState /\ call[k].status = "finished" /\ CallIsSound(k, call[k])
  BY <1>1, NewCalls
<1>3. p = Finish(q, R, call)
  BY DEF Failed
<1>4. \A k \in R : call[k] = Answered("error")
  BY <1>1
<1>5. \A k \in Calls : k \in R <=> k \in S /\ q.calls[k].status = "queued"
  BY DEF Having
<1> HIDE DEF R, call
<1>6. QueueInv(p) /\ OnlyChanged(q, p, R, call)
  BY <1>1, <1>2, <1>3, FinishKeeps
<1> QED
  BY <1>1, <1>4, <1>5, <1>6 DEF OnlyChanged

LEMMA FailedInFlight ==
    ASSUME NEW q, QueueInv(q), NEW S, NEW b \in Seq(Image), InFlight(q, b)
    PROVE  InFlight(Failed(q, S), b)
<1> DEFINE p == Failed(q, S)
<1>1. \A k \in Calls : p.calls[k] = IF k \in S /\ q.calls[k].status = "queued"
                                    THEN Answered("error") ELSE q.calls[k]
  BY FailedKeeps
<1> HIDE DEF p
<1>2. Undisturbed(q, p, b)
  BY <1>1, NewCalls DEF Undisturbed
<1>3. InFlight(p, b)
  BY <1>2, FlightKeeps
<1> QED
  BY <1>3 DEF p
------------------------------------------------------------------------------
(* The requests.                                                             *)
Sound(q, b) == QueueInv(q) /\ b \in Seq(Image) /\ InFlight(q, b)

NoNewRequest(q, p) ==
    \A k \in Calls : q.calls[k].status = "free" => p.calls[k].status = "free"

OtherCalls(q, p, k) == \A j \in Calls : j # k => p.calls[j] = q.calls[j]

LEMMA ReserveKeeps ==
    ASSUME Sound(queue, batch), NEW k \in Calls, Reserve(k)
    PROVE  Sound(queue', batch) /\ OtherCalls(queue, queue', k)
<1> DEFINE q == queue
           p == queue'
           calls == [q.calls EXCEPT ![k].status = "admitted"]
           call == [q.calls[k] EXCEPT !.status = "admitted"]
<1>1. q.calls \in [Calls -> CallState] /\ QueueInv(q) /\ CallIsSound(k, q.calls[k])
      /\ batch \in Seq(Image) /\ InFlight(q, batch)
  BY DEF QueueInv, QueueState, Sound
<1>2. /\ p = [q EXCEPT !.calls = calls] /\ q.calls[k].status = "free"
      /\ \A i \in DOMAIN batch : batch[i][1] # k
  <2>1. p = [q EXCEPT !.calls = calls]
    <3>1. p = [q EXCEPT !.calls[k].status = "admitted"]
      BY DEF Reserve
    <3> QED
      BY <3>1
  <2> QED
    BY <2>1 DEF Reserve
<1>3. /\ call \in CallState /\ call.status = "admitted" /\ call.answer = q.calls[k].answer
      /\ call.results = q.calls[k].results
  <2> DEFINE x == q.calls[k]
  <2>1. x \in CallState
    BY <1>1
  <2> HIDE DEF x
  <2>2. LET y == [x EXCEPT !.status = "admitted"]
        IN  y \in CallState /\ y.status = "admitted" /\ y.answer = x.answer /\ y.results = x.results
    BY <2>1 DEF CallState
  <2> QED
    BY <2>2 DEF x
<1>4. calls = [q.calls EXCEPT ![k] = call]
  BY <1>1
<1> HIDE DEF call, calls, p, q
<1>5. calls \in [Calls -> CallState] /\ calls[k] = call /\ \A j \in Calls : j # k => calls[j] = q.calls[j]
  BY <1>1, <1>3, <1>4
<1>6. CallIsSound(k, call)
  BY <1>1, <1>2, <1>3 DEF CallIsSound
<1>7. SameQueued(q, calls)
  BY <1>1, <1>2, <1>3, <1>5, <1>6 DEF QueueInv, SameQueued
<1>8. QueueInv(p) /\ p.calls = calls
  BY <1>1, <1>2, <1>5, <1>7, CallsChange
<1>9. Undisturbed(q, p, batch)
  BY <1>1, <1>2, <1>5, <1>8 DEF Undisturbed
<1>10. InFlight(p, batch)
  BY <1>1, <1>9, FlightKeeps
<1> QED
  BY <1>1, <1>5, <1>8, <1>10 DEF Sound, OtherCalls, p, q

(* A call that is not under way is set to one that is not either.            *)
Replaced(q, p, k, call) == p = [q EXCEPT !.calls[k] = call]

LEMMA CallReplaced ==
    ASSUME NEW q, NEW b, Sound(q, b), NEW k \in Calls, q.calls[k].status # "queued",
           NEW call, call \in {NoCall, Answered("error")},
           NEW p, Replaced(q, p, k, call)
    PROVE  Sound(p, b) /\ p.calls[k] = call /\ OtherCalls(q, p, k)
<1> DEFINE calls == [q.calls EXCEPT ![k] = call]
<1>1. q.calls \in [Calls -> CallState] /\ QueueInv(q) /\ b \in Seq(Image) /\ InFlight(q, b)
  BY DEF QueueInv, QueueState, Sound
<1>2. p = [q EXCEPT !.calls = calls]
  BY DEF Replaced
<1>3. call \in CallState /\ call.status \in {"free", "finished"} /\ CallIsSound(k, call)
  BY NewCalls
<1> HIDE DEF calls
<1>4. calls \in [Calls -> CallState] /\ calls[k] = call /\ \A j \in Calls : j # k => calls[j] = q.calls[j]
  BY <1>1, <1>3 DEF calls
<1>5. SameQueued(q, calls)
  BY <1>1, <1>3, <1>4 DEF QueueInv, SameQueued
<1>6. QueueInv(p) /\ p.calls = calls
  BY <1>1, <1>2, <1>4, <1>5, CallsChange
<1>7. Undisturbed(q, p, b)
  BY <1>3, <1>4, <1>6 DEF Undisturbed
<1>8. InFlight(p, b)
  BY <1>1, <1>7, FlightKeeps
<1> QED
  BY <1>1, <1>4, <1>6, <1>8 DEF Sound, OtherCalls

(* A call that was admitted is put in the line of its camera.                *)
NewCall(k) == [NoCall EXCEPT !.status = "queued", !.images = ImagesOf[k],
                             !.results = [i \in 1..ImagesOf[k] |-> None]]

LEMMA NewCallIsSound ==
    ASSUME NEW k \in Calls
    PROVE  /\ NewCall(k) \in CallState /\ CallIsSound(k, NewCall(k))
           /\ NewCall(k).status = "queued" /\ NewCall(k).next = 0
           /\ NewCall(k).next < NewCall(k).images
<1> DEFINE m == ImagesOf[k]
           r == [i \in 1..m |-> None]
           call == NewCall(k)
<1>1. m \in 1..MaxImages /\ m \in Nat
  <2>1. m \in 1..MaxImages
    BY CallsAssumption
  <2> HIDE DEF m
  <2> QED
    BY <2>1, Bounds
<1> HIDE DEF m
<1>2. r \in Seq(Image \cup {None}) /\ Len(r) = m /\ \A i \in 1..m : r[i] = None
  <2>1. r \in [1..m -> Image \cup {None}]
    OBVIOUS
  <2>2. r \in Seq(Image \cup {None})
    BY <1>1, <2>1, SeqDef
  <2>3. DOMAIN r = 1..m
    OBVIOUS
  <2> HIDE DEF r
  <2>4. Len(r) = m
    BY <1>1, <2>2, <2>3, LenProperties
  <2> QED
    BY <2>2, <2>4 DEF r
<1>3. call = [status |-> "queued", images |-> m, next |-> 0, completed |-> 0, age |-> 0,
              results |-> r, answer |-> "none"]
  <2>1. call = [NoCall EXCEPT !.status = "queued", !.images = m, !.results = r]
    BY DEF NewCall, m
  <2> HIDE DEF r, call
  <2> QED
    BY <2>1 DEF NoCall
<1> HIDE DEF r, call
<1>4. /\ call.status = "queued" /\ call.images = m /\ call.next = 0 /\ call.completed = 0
      /\ call.results = r /\ call.answer = "none"
  BY <1>3
<1>5. call \in CallState
  <2>1. 0 \in 0..MaxImages /\ 0 \in 0..(FrameAge + 1) /\ m \in 0..MaxImages
    BY <1>1, Bounds
  <2> QED
    BY <1>2, <1>3, <2>1 DEF CallState
<1>6. Recognized(call) = {}
  BY <1>2, <1>4 DEF Recognized
<1>7. call.completed = Cardinality(Recognized(call))
  BY <1>4, <1>6, FS_EmptySet
<1>8. m # 0 /\ 0 <= m /\ 0 < m
  BY <1>1, Bounds
<1>9. CallIsSound(k, call)
  BY <1>2, <1>4, <1>7, <1>8 DEF CallIsSound
<1> QED
  BY <1>4, <1>5, <1>8, <1>9 DEF call

Joined(q, p, k, c) ==
    p = [q EXCEPT !.calls[k] = NewCall(k), !.counts[c] = @ + 1,
                  !.waiting[c] = Append(@, k), !.ready = MarkReady(@, c)]

LEMMA JoinKeeps ==
    ASSUME NEW q, NEW b, Sound(q, b), NEW k \in Calls, q.calls[k].status = "admitted",
           NEW c, c = CameraOf[k], q.counts[c] < PerCamera,
           NEW p, Joined(q, p, k, c)
    PROVE  Sound(p, b) /\ p.calls[k].status = "queued" /\ OtherCalls(q, p, k)
<1> DEFINE call == NewCall(k)
           w == q.waiting[c]
           longer == Append(w, k)
           ready == MarkReady(q.ready, c)
<1>1. /\ q.calls \in [Calls -> CallState] /\ q.waiting \in [Cameras -> Seq(Calls)]
      /\ q.ready \in Seq(Cameras) /\ q.counts \in [Cameras -> 0..PerCamera]
      /\ q \in QueueState
      /\ \A j \in Calls : CallIsSound(j, q.calls[j])
      /\ WaitersAreSound(q) /\ TurnsAreSound(q) /\ CountsAreTrue(q)
      /\ b \in Seq(Image) /\ InFlight(q, b)
  BY DEF QueueInv, QueueState, Sound
<1>2. c \in Cameras
  BY CallsAssumption
<1>3. /\ p.calls = [q.calls EXCEPT ![k] = call] /\ p.waiting = [q.waiting EXCEPT ![c] = longer]
      /\ p.ready = ready /\ p.counts = [q.counts EXCEPT ![c] = q.counts[c] + 1]
      /\ p = [calls |-> p.calls, waiting |-> p.waiting, ready |-> p.ready, counts |-> p.counts]
  <2> HIDE DEF call, ready
  <2> QED
    BY <1>1 DEF QueueState, Joined, call, ready
<1>4. /\ call \in CallState /\ CallIsSound(k, call) /\ call.status = "queued"
      /\ call.next = 0 /\ call.next < call.images
  BY NewCallIsSound
<1> HIDE DEF call, ready, longer, w
<1>5. /\ p.calls[k] = call /\ \A j \in Calls : j # k => p.calls[j] = q.calls[j]
      /\ p.calls \in [Calls -> CallState]
  BY <1>1, <1>3, <1>4
<1>6. \A j \in Calls : CallIsSound(j, p.calls[j])
  BY <1>1, <1>4, <1>5
<1>7. /\ w \in Seq(Calls) /\ IsOnce(w)
      /\ \A i \in 1..Len(w) : /\ CameraOf[w[i]] = c /\ q.calls[w[i]].status = "queued"
                              /\ q.calls[w[i]].next < q.calls[w[i]].images
  <2>1. q.waiting[c] \in Seq(Calls)
    BY <1>1, <1>2
  <2> QED
    <3>1. InLine(q, q.waiting[c], c)
      BY <1>1, <1>2, WaitersOf
    <3> QED
      BY <2>1, <3>1, Zenon DEF InLine, w
<1>8. \A i \in 1..Len(w) : w[i] \in Calls /\ w[i] # k
  <2>1. \A i \in 1..Len(w) : w[i] \in Calls
    BY <1>7, ElementOfSeq
  <2> QED
    BY <1>7, <2>1
<1>9. /\ longer \in Seq(Calls) /\ Len(longer) = Len(w) + 1 /\ Len(w) \in Nat
      /\ longer[Len(w) + 1] = k /\ IsOnce(longer)
      /\ \A i \in 1..Len(w) : longer[i] = w[i]
  <2>1. w \in Seq(Calls) /\ longer = Append(w, k)
    BY <1>7 DEF longer
  <2>2. IsOnce(longer)
    BY <1>7, <1>8, <2>1, AppendOnce
  <2> QED
    BY <2>1, <2>2
<1>10. \A i \in 1..(Len(w) + 1) : i = Len(w) + 1 \/ i \in 1..Len(w)
  BY <1>9
<1>11. \A i \in 1..Len(longer) :
          /\ CameraOf[longer[i]] = c /\ p.calls[longer[i]].status = "queued"
          /\ p.calls[longer[i]].next < p.calls[longer[i]].images
  <2>1. \A i \in 1..Len(w) : p.calls[w[i]] = q.calls[w[i]]
    BY <1>5, <1>8
  <2>2. \A i \in 1..Len(w) :
           /\ CameraOf[w[i]] = c /\ p.calls[w[i]].status = "queued"
           /\ p.calls[w[i]].next < p.calls[w[i]].images
    BY <1>7, <2>1
  <2>3. /\ CameraOf[k] = c /\ p.calls[k].status = "queued"
        /\ p.calls[k].next < p.calls[k].images
    BY <1>4, <1>5
  <2>4. \A i \in 1..Len(longer) : longer[i] = k \/ \E j \in 1..Len(w) : longer[i] = w[j]
    BY <1>9, <1>10
  <2> QED
    BY <2>2, <2>3, <2>4
<1>12. p.waiting[c] = longer /\ \A d \in Cameras : d # c => p.waiting[d] = q.waiting[d]
  BY <1>1, <1>2, <1>3
<1>13. WaitersAreSound(p)
  <2>1. ASSUME NEW d \in Cameras, d # c
        PROVE  InLine(p, p.waiting[d], d)
    <3> DEFINE v == q.waiting[d]
    <3>1. p.waiting[d] = v /\ v \in Seq(Calls)
      BY <1>1, <1>12, <2>1
    <3>a. InLine(q, v, d)
      BY <1>1, WaitersOf
    <3>2. /\ IsOnce(v)
          /\ \A i \in 1..Len(v) : /\ CameraOf[v[i]] = d /\ q.calls[v[i]].status = "queued"
                                  /\ q.calls[v[i]].next < q.calls[v[i]].images
      BY <3>a, Zenon DEF InLine
    <3> HIDE DEF v
    <3>3. \A i \in 1..Len(v) : v[i] \in Calls
      BY <3>1, ElementOfSeq
    <3>4. \A i \in 1..Len(v) : v[i] # k
      BY <2>1, <3>2
    <3>5. \A i \in 1..Len(v) : p.calls[v[i]] = q.calls[v[i]]
      BY <1>5, <3>3, <3>4
    <3>6. InLine(p, v, d)
      BY <3>2, <3>5, Zenon DEF InLine
    <3> QED
      BY <3>1, <3>6
  <2>2. InLine(p, longer, c)
    BY <1>9, <1>11, Zenon DEF InLine
  <2>3. \A d \in Cameras : InLine(p, p.waiting[d], d)
    BY <1>12, <2>1, <2>2
  <2> QED
    BY <2>3, Zenon DEF WaitersAreSound, InLine
<1>14. p.waiting \in [Cameras -> Seq(Calls)]
  <2>1. \A d \in Cameras : p.waiting[d] \in Seq(Calls)
    BY <1>1, <1>9, <1>12
  <2>2. p.waiting = [d \in Cameras |-> p.waiting[d]]
    BY <1>1, <1>3
  <2> QED
    BY <2>1, <2>2
<1>15. longer # <<>>
  <2>1. Len(longer) # 0
    BY <1>9
  <2> QED
    BY <2>1
<1>16. \A d \in Cameras : q.waiting[d] # <<>> => p.waiting[d] # <<>>
  BY <1>12, <1>15
<1>17. /\ ready \in Seq(Cameras) /\ TurnsAreSound(p)
  <2> DEFINE r == q.ready
  <2>1. /\ r \in Seq(Cameras) /\ IsOnce(r) /\ \A i \in 1..Len(r) : q.waiting[r[i]] # <<>>
    BY <1>1 DEF TurnsAreSound
  <2>2. \A i \in 1..Len(r) : r[i] \in Cameras
    BY <2>1, ElementOfSeq
  <2>3. ready = IF Contains(r, c) THEN r ELSE Append(r, c)
    BY DEF ready, MarkReady
  <2> HIDE DEF r
  <2>4. \A i \in 1..Len(r) : p.waiting[r[i]] # <<>>
    BY <1>16, <2>1, <2>2
  <2>5. CASE Contains(r, c)
    BY <1>3, <2>1, <2>3, <2>4, <2>5 DEF TurnsAreSound
  <2>6. CASE ~Contains(r, c)
    <3>1. \A i \in 1..Len(r) : r[i] # c
      BY <2>6 DEF Contains
    <3>2. /\ Append(r, c) \in Seq(Cameras) /\ Len(Append(r, c)) = Len(r) + 1 /\ Len(r) \in Nat
          /\ Append(r, c)[Len(r) + 1] = c /\ IsOnce(Append(r, c))
          /\ \A i \in 1..Len(r) : Append(r, c)[i] = r[i]
      <4>1. IsOnce(Append(r, c))
        BY <1>2, <2>1, <3>1, AppendOnce
      <4> QED
        BY <1>2, <2>1, <4>1
    <3>3. ready = Append(r, c)
      BY <2>3, <2>6
    <3>4. \A i \in 1..(Len(r) + 1) : i = Len(r) + 1 \/ i \in 1..Len(r)
      BY <3>2
    <3>5. \A i \in 1..Len(ready) : p.waiting[ready[i]] # <<>>
      BY <1>12, <1>15, <2>4, <3>2, <3>3, <3>4
    <3> QED
      BY <1>3, <3>2, <3>3, <3>5 DEF TurnsAreSound
  <2> QED
    BY <2>5, <2>6
<1>18. CountsAreTrue(p) /\ p.counts \in [Cameras -> 0..PerCamera]
  <2>1. QueuedOf(p, c) = QueuedOf(q, c) \cup {k} /\ k \notin QueuedOf(q, c)
    BY <1>4, <1>5 DEF QueuedOf, Of
  <2>2. Cardinality(QueuedOf(p, c)) = Cardinality(QueuedOf(q, c)) + 1
    BY <1>2, <2>1, QueuedIsFinite, FS_AddElement
  <2>3. q.counts[c] = Cardinality(QueuedOf(q, c)) /\ q.counts[c] \in 0..PerCamera
    BY <1>1, <1>2 DEF CountsAreTrue
  <2>4. p.counts[c] = q.counts[c] + 1 /\ \A d \in Cameras : d # c => p.counts[d] = q.counts[d]
    BY <1>1, <1>2, <1>3
  <2>5. q.counts[c] + 1 \in 0..PerCamera
    BY <2>3, Bounds
  <2>6. \A d \in Cameras : d # c => QueuedOf(p, d) = QueuedOf(q, d)
    BY <1>5 DEF QueuedOf, Of
  <2>7. CountsAreTrue(p)
    BY <1>1, <2>2, <2>3, <2>4, <2>6 DEF CountsAreTrue
  <2>8. p.counts \in [Cameras -> 0..PerCamera]
    BY <1>1, <1>3, <2>5
  <2> QED
    BY <2>7, <2>8
<1>19. QueueInv(p)
  <2>1. p \in QueueState
    BY <1>3, <1>5, <1>14, <1>17, <1>18 DEF QueueState
  <2> QED
    BY <1>6, <1>13, <1>17, <1>18, <2>1 DEF QueueInv
<1>20. InFlight(p, b)
  <2>1. \A i \in 1..Len(b) : b[i][1] # k
    BY <1>1 DEF InFlight
  <2>2. Undisturbed(q, p, b)
    BY <1>5, <2>1 DEF Undisturbed
  <2> QED
    BY <1>1, <2>2, FlightKeeps
<1> QED
  BY <1>1, <1>4, <1>5, <1>19, <1>20 DEF Sound, OtherCalls

(* What a step does to the calls and to the limits of the connections.       *)
LEMMA RequestKeeps ==
    ASSUME Sound(queue, batch), NEW k \in Calls, Submit(k) \/ Cancel(k) \/ Release(k)
    PROVE  Sound(queue', batch) /\ NoNewRequest(queue, queue')
<1>1. CASE Submit(k)
  <2> DEFINE c == CameraOf[k]
  <2>1. queue.calls[k].status = "admitted"
    BY <1>1 DEF Submit
  <2>2. CASE closed \/ ~HasRoom(queue, c)
    <3>1. queue' = [queue EXCEPT !.calls[k] = Answered("error")]
      BY <1>1, <2>2 DEF Submit
    <3>2. Sound(queue', batch) /\ OtherCalls(queue, queue', k)
      BY <2>1, <3>1, CallReplaced DEF Replaced
    <3> QED
      BY <2>1, <3>2 DEF NoNewRequest, OtherCalls
  <2>3. CASE ~(closed \/ ~HasRoom(queue, c))
    <3>1. queue' = [queue EXCEPT !.calls[k] = NewCall(k), !.counts[c] = @ + 1,
                                 !.waiting[c] = Append(@, k), !.ready = MarkReady(@, c)]
      BY <1>1, <2>3 DEF Submit, NewCall
    <3>a. Joined(queue, queue', k, c)
      BY <3>1 DEF Joined
    <3>2. queue.counts[c] < PerCamera
      BY <2>3 DEF HasRoom
    <3> HIDE DEF c
    <3>b. c = CameraOf[k]
      BY DEF c
    <3>3. Sound(queue', batch) /\ OtherCalls(queue, queue', k)
      BY <2>1, <3>a, <3>b, <3>2, JoinKeeps
    <3> QED
      BY <2>1, <3>3 DEF NoNewRequest, OtherCalls
  <2> QED
    BY <2>2, <2>3
<1>2. CASE Cancel(k)
  <2>1. queue' = Failed(queue, {k})
    BY <1>2 DEF Cancel
  <2>2. /\ QueueInv(queue')
        /\ \A j \in Calls : queue'.calls[j] = IF j \in {k} /\ queue.calls[j].status = "queued"
                                              THEN Answered("error") ELSE queue.calls[j]
    BY <2>1, FailedKeeps DEF Sound
  <2>3. InFlight(queue', batch)
    BY <2>1, FailedInFlight DEF Sound
  <2> QED
    BY <2>2, <2>3, NewCalls DEF Sound, NoNewRequest
<1>3. CASE Release(k)
  <2>1. queue' = [queue EXCEPT !.calls[k] = NoCall] /\ queue.calls[k].status # "queued"
    BY <1>3 DEF Release
  <2>2. Sound(queue', batch) /\ queue'.calls[k] = NoCall /\ OtherCalls(queue, queue', k)
    BY <2>1, CallReplaced DEF Replaced
  <2> QED
    BY <2>2, NewCalls DEF NoNewRequest, OtherCalls
<1> QED
  BY <1>1, <1>2, <1>3
------------------------------------------------------------------------------
(* The results of a batch.                                                   *)
Recognizes(k, call) ==
    /\ call \in CallState /\ CallIsSound(k, call) /\ call.status = "queued"
    /\ call.next = queue.calls[k].next /\ call.images = queue.calls[k].images

LEMMA CountFrom1 ==
    ASSUME NEW m \in Nat
    PROVE  IsFiniteSet(1..m) /\ Cardinality(1..m) = m
<1>1. m \in Int /\ 1 \in Int
  OBVIOUS
<1>2. IsFiniteSet(1..m) /\ Cardinality(1..m) = IF 1 > m THEN 0 ELSE m - 1 + 1
  BY <1>1, FS_Interval
<1>3. (IF 1 > m THEN 0 ELSE m - 1 + 1) = m
  OBVIOUS
<1> QED
  BY <1>2, <1>3

LEMMA ItemsFacts ==
    ASSUME Sound(queue, batch), FoundThere(run.found), NEW k \in Calls, NEW i \in ItemsOf(k)
    PROVE  /\ i \in 1..Len(batch) /\ batch[i] = <<k, batch[i][2]>>
           /\ run.found[i] = batch[i] /\ queue.calls[k].status = "queued"
           /\ batch[i][2] \in 1..queue.calls[k].images /\ batch[i][2] <= queue.calls[k].next
           /\ queue.calls[k].results[batch[i][2]] = None
<1>1. /\ i \in DOMAIN batch /\ run.found[i] # None
      /\ batch[i][1] = k /\ queue.calls[k].status = "queued"
  BY DEF ItemsOf, Successful
<1>2. batch \in Seq(Image) /\ InFlight(queue, batch) /\ QueueInv(queue)
  BY DEF Sound
<1>3. i \in 1..Len(batch)
  BY <1>1, <1>2, LenProperties
<1>4. batch[i][2] \in 1..MaxImages /\ batch[i] = <<batch[i][1], batch[i][2]>>
  BY <1>2, <1>3, ImageFacts
<1>5. run.found[i] = batch[i]
  BY <1>1, <1>3 DEF FoundThere
<1>6. batch[i][2] <= queue.calls[k].next /\ queue.calls[k].results[batch[i][2]] = None
  BY <1>1, <1>2, <1>3 DEF InFlight
<1>7. batch[i][2] \in 1..queue.calls[k].images
  <2> DEFINE x == queue.calls[k]
  <2>1. x \in CallState /\ CallIsSound(k, x) /\ x.status = "queued"
    BY <1>1, <1>2 DEF QueueInv, QueueState
  <2> HIDE DEF x
  <2>2. x.next <= x.images /\ x.next \in 0..MaxImages /\ x.images \in 0..MaxImages
    BY <2>1 DEF CallIsSound, CallState
  <2>3. batch[i][2] <= x.next
    BY <1>6 DEF x
  <2>4. batch[i][2] \in 1..x.images
    BY <1>4, <2>2, <2>3, Bounds
  <2> QED
    BY <2>4 DEF x
<1> QED
  BY <1>1, <1>3, <1>4, <1>5, <1>6, <1>7

LEMMA CompletedKeeps ==
    ASSUME Sound(queue, batch), FoundThere(run.found), NEW k \in Calls, ItemsOf(k) # {}
    PROVE  Recognizes(k, Completed(k))
<1> DEFINE call == queue.calls[k]
           items == ItemsOf(k)
           m == call.images
           old == call.results
           N == {batch[i][2] : i \in items}
           new == [n \in DOMAIN old |-> IF \E i \in items : batch[i][2] = n
                                        THEN run.found[Found(k, n)] ELSE old[n]]
           sum == call.completed + Cardinality(items)
           done == Completed(k)
<1>1. call \in CallState /\ CallIsSound(k, call) /\ batch \in Seq(Image) /\ IsOnce(batch)
  BY DEF Sound, QueueInv, QueueState, InFlight
<1>2. ASSUME NEW i \in items
      PROVE  /\ i \in 1..Len(batch) /\ batch[i] = <<k, batch[i][2]>>
             /\ run.found[i] = batch[i] /\ call.status = "queued"
             /\ batch[i][2] \in 1..m /\ batch[i][2] <= call.next
             /\ old[batch[i][2]] = None
  BY ItemsFacts
<1>3. call.status = "queued"
  BY <1>2
<1>4. done = [call EXCEPT !.completed = sum, !.results = new]
  BY DEF Completed
<1>5. ASSUME NEW n \in N PROVE Found(k, n) \in items /\ batch[Found(k, n)][2] = n
  <2>1. \E i \in items : batch[i][2] = n
    OBVIOUS
  <2> DEFINE P(i) == i \in ItemsOf(k) /\ batch[i][2] = n
  <2>2. \E i : P(i)
    BY <2>1
  <2>3. Found(k, n) = CHOOSE i : P(i)
    BY DEF Found
  <2> HIDE DEF P
  <2>4. P(Found(k, n))
    BY <2>2, <2>3, Zenon
  <2> QED
    BY <2>4 DEF P
<1>6. ASSUME NEW n \in N PROVE run.found[Found(k, n)] = <<k, n>>
  BY <1>2, <1>5
<1>7. /\ m # 0 /\ call.next <= m /\ Len(old) = m
      /\ \A n \in 1..m : old[n] \in {None, <<k, n>>}
      /\ \A n \in 1..m : n > call.next => old[n] = None
      /\ call.completed = Cardinality(Recognized(call))
      /\ call.answer # "results"
  BY <1>1, <1>3 DEF CallIsSound
<1>8. /\ m \in 0..MaxImages /\ call.next \in 0..MaxImages /\ call.completed \in 0..MaxImages
      /\ old \in Seq(Image \cup {None}) /\ m \in Nat
  <2> DEFINE x == queue.calls[k]
  <2>1. x \in CallState
    BY <1>1
  <2> HIDE DEF x
  <2>2. /\ x.images \in 0..MaxImages /\ x.next \in 0..MaxImages /\ x.completed \in 0..MaxImages
        /\ x.results \in Seq(Image \cup {None})
    BY <2>1 DEF CallState
  <2>3. x.images \in Nat
    BY <2>2, Bounds
  <2> QED
    BY <2>2, <2>3 DEF x
<1>9. DOMAIN old = 1..m
  BY <1>7, <1>8, LenProperties
<1>10. N \subseteq 1..m /\ \A n \in N : old[n] = None /\ n <= call.next
  BY <1>2
<1>11. \A n \in 1..m : (\E i \in items : batch[i][2] = n) <=> n \in N
  OBVIOUS
<1>12. /\ DOMAIN new = 1..m
       /\ \A n \in 1..m : new[n] = IF n \in N THEN <<k, n>> ELSE old[n]
  BY <1>6, <1>9, <1>11
<1>f. /\ items \subseteq 1..Len(batch) /\ Len(batch) \in Nat
  BY <1>1, <1>2, LenProperties
<1>13. IsFiniteSet(items) /\ Cardinality(items) \in Nat /\ IsFiniteSet(N)
       /\ Cardinality(N) = Cardinality(items)
  <2>1. IsFiniteSet(1..Len(batch))
    BY <1>f, CountFrom1
  <2>2. IsFiniteSet(items)
    BY <1>f, <2>1, FS_Subset
  <2> DEFINE f == [i \in items |-> batch[i][2]]
  <2>3. f \in [items -> N] /\ \A n \in N : \E i \in items : f[i] = n
    OBVIOUS
  <2>4. \A i, j \in items : f[i] = f[j] => i = j
    <3>1. \A i \in items : f[i] = batch[i][2]
      OBVIOUS
    <3>2. \A i \in items : batch[i] = <<k, batch[i][2]>>
      BY <1>2
    <3> HIDE DEF f, items
    <3>3. \A i, j \in items : f[i] = f[j] => batch[i] = batch[j]
      BY <3>1, <3>2
    <3> QED
      BY <1>1, <1>f, <3>3 DEF IsOnce
  <2> HIDE DEF f, items, N
  <2>5. f \in Bijection(items, N)
    BY <2>3, <2>4 DEF Bijection, Injection, Surjection, IsInjective
  <2>6. ExistsBijection(items, N)
    BY <2>5 DEF ExistsBijection
  <2> QED
    BY <2>2, <2>6, FS_Bijection, FS_CardinalityType
<1> HIDE DEF done, call, items, m, old, N, new, sum
<1>14. \A n \in 1..m : <<k, n>> \in Image
  <2>1. \A n \in 1..m : n \in 1..MaxImages
    BY <1>8, Bounds
  <2> QED
    BY <2>1 DEF Image
<1>15. new \in Seq(Image \cup {None}) /\ Len(new) = m
  <2>1. \A n \in 1..m : old[n] \in Image \cup {None}
    BY <1>7, <1>14
  <2>2. \A n \in 1..m : new[n] \in Image \cup {None}
    BY <1>12, <1>14, <2>1
  <2>3. new = [n \in 1..m |-> new[n]]
    BY <1>9, <1>12 DEF new
  <2>4. new \in [1..m -> Image \cup {None}]
    BY <2>2, <2>3
  <2>5. new \in Seq(Image \cup {None})
    BY <1>8, <2>4, SeqDef
  <2> QED
    BY <1>8, <1>12, <2>5, LenProperties
<1>16. /\ done.status = "queued" /\ done.images = m /\ done.next = call.next
       /\ done.completed = sum /\ done.results = new /\ done.answer = call.answer
       /\ \A x \in 0..MaxImages : sum = x => done \in CallState
  BY <1>1, <1>3, <1>4, <1>15 DEF CallState, m
<1>n. \A n \in 1..m : <<k, n>> # None
  <2>1. \A n \in 1..m : <<k, n>> \in Calls \X Nat
    OBVIOUS
  <2> QED
    BY <2>1, CallsAssumption
<1>17. Recognized(done) = Recognized(call) \cup N /\ Recognized(call) \cap N = {}
       /\ Recognized(call) \subseteq 1..m /\ Recognized(done) \subseteq 1..m
  <2>1. Recognized(call) = {n \in 1..m : old[n] # None}
    BY DEF Recognized, m, old
  <2>2. Recognized(done) = {n \in 1..m : new[n] # None}
    BY <1>16 DEF Recognized
  <2> QED
    BY <1>10, <1>12, <1>n, <2>1, <2>2
<1>18. IsFiniteSet(1..m) /\ Cardinality(1..m) = m
  BY <1>8, CountFrom1
<1>19. /\ IsFiniteSet(Recognized(call)) /\ IsFiniteSet(Recognized(done))
       /\ Cardinality(Recognized(done)) <= m /\ Cardinality(Recognized(done)) \in Nat
       /\ Cardinality(Recognized(call)) \in Nat
  <2> DEFINE S == Recognized(call)
             T == Recognized(done)
             M == 1..m
  <2>1. IsFiniteSet(M) /\ Cardinality(M) = m /\ S \in SUBSET M /\ T \in SUBSET M
    BY <1>17, <1>18
  <2> HIDE DEF S, T, M
  <2>2. IsFiniteSet(S) /\ IsFiniteSet(T) /\ Cardinality(T) <= m
    BY <2>1, FS_Subset
  <2>3. Cardinality(S) \in Nat /\ Cardinality(T) \in Nat
    BY <2>2, FS_CardinalityType
  <2> QED
    BY <2>2, <2>3 DEF S, T
<1>20. Cardinality(Recognized(done)) = sum
  <2>1. Cardinality(Recognized(call) \cup N) =
           Cardinality(Recognized(call)) + Cardinality(N) - Cardinality(Recognized(call) \cap N)
    BY <1>13, <1>19, FS_Union
  <2>2. Cardinality(Recognized(call) \cap N) = 0
    BY <1>17, FS_EmptySet
  <2> QED
    BY <1>7, <1>13, <1>17, <1>19, <2>1, <2>2 DEF sum
<1>21. done \in CallState
  <2>1. sum \in 0..MaxImages
    BY <1>8, <1>19, <1>20, Bounds
  <2> QED
    BY <1>16, <2>1
<1>22. CallIsSound(k, done)
  <2>1. \A n \in 1..m : new[n] \in {None, <<k, n>>}
    BY <1>7, <1>12
  <2>2. \A n \in 1..m : n > call.next => new[n] = None
    <3>1. \A n \in N : ~(n > call.next)
      <4> DEFINE x == call.next
      <4>1. \A n \in 1..m : n \in Int
        OBVIOUS
      <4>2. x \in Int /\ \A n \in N : n \in Int /\ n <= x
        BY <1>8, <1>10, <4>1
      <4> HIDE DEF x
      <4>3. \A n \in N : ~(n > x)
        BY <4>2
      <4> QED
        BY <4>3 DEF x
    <3> QED
      BY <1>7, <1>12, <3>1
  <2> QED
    BY <1>7, <1>15, <1>16, <1>20, <2>1, <2>2 DEF CallIsSound
<1>23. Recognizes(k, done)
  BY <1>16, <1>21, <1>22 DEF Recognizes, call, m
<1> QED
  BY <1>23 DEF done

(* A call all of whose images were recognized has its answer.                *)
LEMMA AnswerIsSound ==
    ASSUME NEW k \in Calls, NEW call, Recognizes(k, call), call.completed = call.images,
           NEW answer, answer = [Answered("results") EXCEPT !.results = call.results]
    PROVE  answer \in CallState /\ answer.status = "finished" /\ CallIsSound(k, answer)
<1> DEFINE m == call.images
           r == call.results
<1>1. /\ call \in CallState /\ CallIsSound(k, call) /\ call.status = "queued"
  BY DEF Recognizes
<1>2. /\ m # 0 /\ Len(r) = m /\ \A n \in 1..m : r[n] \in {None, <<k, n>>}
      /\ m = Cardinality(Recognized(call))
  BY <1>1 DEF CallIsSound
<1>3. m \in Nat /\ r \in Seq(Image \cup {None})
  BY <1>1, Bounds DEF CallState
<1>5. Recognized(call) = {n \in 1..m : r[n] # None}
  BY DEF Recognized
<1> HIDE DEF m, r
<1>4. IsFiniteSet(1..m) /\ Cardinality(1..m) = m
  BY <1>3, CountFrom1
<1>6. Recognized(call) = 1..m
  BY <1>2, <1>4, <1>5, FS_Subset, Zenon
<1>7. \A n \in 1..m : r[n] = <<k, n>>
  BY <1>2, <1>5, <1>6, Zenon
<1>8. r # <<>>
  <2>1. r = <<>> => Len(r) = 0
    OBVIOUS
  <2> QED
    BY <1>2, <2>1
<1>9. /\ answer = [status |-> "finished", images |-> 0, next |-> 0, completed |-> 0, age |-> 0,
                   results |-> r, answer |-> "results"]
  BY DEF Answered, NoCall, r
<1>10. /\ answer.status = "finished" /\ answer.answer = "results" /\ answer.results = r
  BY <1>9
<1>11. answer \in CallState
  <2> DEFINE a == [status |-> "finished", images |-> 0, next |-> 0, completed |-> 0, age |-> 0,
                   results |-> r, answer |-> "results"]
             R == Seq(Image \cup {None})
  <2>1. 0 \in 0..MaxImages /\ 0 \in 0..(FrameAge + 1)
    BY Bounds
  <2>2. r \in R
    BY <1>3
  <2> HIDE DEF R
  <2>3. a \in [status : {"free", "admitted", "queued", "finished"},
              images : 0..MaxImages, next : 0..MaxImages,
              completed : 0..MaxImages, age : 0..(FrameAge + 1),
              results : R, answer : {"none", "results", "error"}]
    BY <2>1, <2>2
  <2>4. a = answer
    BY <1>9
  <2> HIDE DEF a
  <2> QED
    BY <2>3, <2>4 DEF CallState, R
<1>12. CallIsSound(k, answer)
  BY <1>2, <1>7, <1>8, <1>10 DEF CallIsSound
<1> QED
  BY <1>10, <1>11, <1>12

LEMMA CompleteKeeps ==
    ASSUME Sound(queue, batch), FoundThere(run.found), CompleteItems
    PROVE  Sound(queue', <<>>) /\ NoNewRequest(queue, queue')
<1> DEFINE q == queue
           calls == [k \in Calls |-> IF ItemsOf(k) = {} THEN queue.calls[k] ELSE Completed(k)]
           done == {k \in Calls : ItemsOf(k) # {} /\ calls[k].completed = calls[k].images}
           answer == [k \in Calls |-> [Answered("results") EXCEPT !.results = calls[k].results]]
           mid == [q EXCEPT !.calls = calls]
           p == queue'
<1>1. p = Finish(mid, done, answer)
  BY DEF CompleteItems
<1>2. QueueInv(q) /\ q.calls \in [Calls -> CallState]
  BY DEF Sound, QueueInv, QueueState
<1>3. \A k \in Calls : ItemsOf(k) # {} => Recognizes(k, Completed(k))
  BY CompletedKeeps
<1>4. \A k \in Calls : ItemsOf(k) # {} => q.calls[k].status = "queued"
  BY DEF ItemsOf
<1>5. /\ calls \in [Calls -> CallState]
      /\ \A k \in Calls : ItemsOf(k) # {} => Recognizes(k, calls[k]) /\ q.calls[k].status = "queued"
      /\ \A k \in Calls : ItemsOf(k) = {} => calls[k] = q.calls[k]
  <2>1. \A k \in Calls : calls[k] = IF ItemsOf(k) = {} THEN q.calls[k] ELSE Completed(k)
    OBVIOUS
  <2>2. calls = [k \in Calls |-> calls[k]]
    OBVIOUS
  <2> HIDE DEF calls, q
  <2>3. \A k \in Calls : calls[k] \in CallState
    BY <1>2, <1>3, <2>1 DEF Recognizes
  <2> QED
    BY <1>3, <1>4, <2>1, <2>2, <2>3
<1>6. \A k \in done : k \in Calls /\ ItemsOf(k) # {} /\ calls[k].completed = calls[k].images
  OBVIOUS
<1>7. \A k \in Calls : answer[k] = [Answered("results") EXCEPT !.results = calls[k].results]
  OBVIOUS
<1> HIDE DEF calls, done, answer, q, p
<1>8. SameQueued(q, calls)
  <2>1. ASSUME NEW k \in Calls
        PROVE  /\ CallIsSound(k, calls[k])
               /\ calls[k].status = "queued" <=> q.calls[k].status = "queued"
               /\ calls[k].status = "queued" =>
                     calls[k].next = q.calls[k].next /\ calls[k].images = q.calls[k].images
    <3>1. CASE ItemsOf(k) = {}
      <4>1. CallIsSound(k, q.calls[k])
        BY <1>2 DEF QueueInv
      <4> QED
        BY <1>5, <3>1, <4>1
    <3>2. CASE ItemsOf(k) # {}
      <4>1. Recognizes(k, calls[k]) /\ q.calls[k].status = "queued"
        BY <1>5, <3>2
      <4> QED
        BY <4>1 DEF Recognizes, q
    <3> QED
      BY <3>1, <3>2
  <2> QED
    BY <2>1 DEF SameQueued
<1>9. QueueInv(mid) /\ mid.calls = calls
  BY <1>2, <1>5, <1>8, CallsChange
<1> HIDE DEF mid
<1>10. done \in SUBSET Having(mid, "queued")
  BY <1>5, <1>6, <1>9 DEF Having, Recognizes
<1>11. \A k \in done : answer[k] \in CallState /\ answer[k].status = "finished"
                         /\ CallIsSound(k, answer[k])
  <2> SUFFICES ASSUME NEW k \in done
               PROVE  answer[k] \in CallState /\ answer[k].status = "finished"
                      /\ CallIsSound(k, answer[k])
    OBVIOUS
  <2>1. k \in Calls /\ Recognizes(k, calls[k]) /\ calls[k].completed = calls[k].images
    BY <1>5, <1>6
  <2>2. answer[k] = [Answered("results") EXCEPT !.results = calls[k].results]
    BY <1>7, <2>1
  <2> QED
    BY <2>1, <2>2, AnswerIsSound
<1>12. QueueInv(p) /\ OnlyChanged(mid, p, done, answer)
  BY <1>1, <1>9, <1>10, <1>11, FinishKeeps
<1>13. ASSUME NEW k \in Calls, q.calls[k].status = "free" PROVE p.calls[k].status = "free"
  <2>1. ItemsOf(k) = {}
    BY <1>5, <1>13
  <2>2. k \notin done
    BY <1>6, <2>1
  <2> QED
    BY <1>5, <1>9, <1>12, <1>13, <2>1, <2>2 DEF OnlyChanged
<1>14. InFlight(p, <<>>) /\ <<>> \in Seq(Image)
  <2>1. Len(<<>>) = 0 /\ 1..0 = {} /\ <<>> \in Seq(Image)
    OBVIOUS
  <2> QED
    BY <2>1 DEF InFlight, IsOnce
<1> QED
  BY <1>12, <1>13, <1>14 DEF Sound, NoNewRequest, p, q
------------------------------------------------------------------------------
(* The other steps of the dispatcher, the closing and the clock.             *)
LEMMA NothingInFlight ==
    ASSUME NEW q, QueueInv(q)
    PROVE  Sound(q, <<>>)
<1>1. Len(<<>>) = 0 /\ 1..0 = {} /\ <<>> \in Seq(Image)
  OBVIOUS
<1> QED
  BY <1>1 DEF Sound, InFlight, IsOnce

LEMMA FailedIsSound ==
    ASSUME NEW q, NEW b, Sound(q, b), NEW S
    PROVE  Sound(Failed(q, S), b) /\ NoNewRequest(q, Failed(q, S))
<1> DEFINE p == Failed(q, S)
<1>1. /\ QueueInv(p)
      /\ \A k \in Calls : p.calls[k] = IF k \in S /\ q.calls[k].status = "queued"
                                       THEN Answered("error") ELSE q.calls[k]
  BY FailedKeeps DEF Sound
<1>2. InFlight(p, b) /\ b \in Seq(Image)
  BY FailedInFlight DEF Sound
<1> HIDE DEF p
<1>3. Sound(p, b) /\ NoNewRequest(q, p)
  BY <1>1, <1>2 DEF Sound, NoNewRequest
<1> QED
  BY <1>3 DEF p

LEMMA NextBatchKeeps ==
    ASSUME Sound(queue, batch), fatal \in BOOLEAN, NextBatch
    PROVE  /\ Sound(queue', batch') /\ NoNewRequest(queue, queue')
           /\ Len(batch') <= BatchSize /\ batch' # <<>> /\ TakesTurns(batch')
           /\ pc' = "locking" /\ fatal' = fatal
<1> DEFINE q == Fresh(queue)
<1>1. Sound(q, batch) /\ NoNewRequest(queue, q)
  BY FailedIsSound DEF Fresh
<1>2. q.ready # <<>>
  BY DEF NextBatch
<1>3. PICK s \in PopBatch(q) :
          /\ queue' = s.queue /\ batch' = s.batch
          /\ pc' = IF s.batch = <<>> THEN "dead" ELSE "locking"
          /\ fatal' = (fatal \/ s.batch = <<>>)
  BY DEF NextBatch
<1> HIDE DEF q
<1>4. QueueInv(q)
  BY <1>1 DEF Sound
<1>5. PopInv(q, s) /\ s.batch # <<>>
  BY <1>2, <1>4, PopBatchKeeps
<1>6. /\ Sound(s.queue, s.batch) /\ Len(s.batch) <= BatchSize
      /\ Alternates(s.batch, s.queue.ready)
      /\ \A k \in Calls : s.queue.calls[k].status = q.calls[k].status
  BY <1>5 DEF PopInv, Sound
<1>7. NoNewRequest(queue, s.queue)
  BY <1>1, <1>6 DEF NoNewRequest
<1>8. TakesTurns(s.batch)
  <2> DEFINE b == s.batch
  <2>1. Alternates(b, s.queue.ready) /\ Len(b) \in Nat
    BY <1>6, LenProperties DEF Sound
  <2> SUFFICES TakesTurns(b)
    OBVIOUS
  <2> HIDE DEF b
  <2>2. CASE Len(b) >= 2
    BY <2>1, <2>2 DEF Alternates, TakesTurns
  <2>3. CASE Len(b) < 2
    <3>1. \A i \in 1..Len(b) : i = 1
      BY <2>1, <2>3
    <3> QED
      BY <3>1 DEF TakesTurns
  <2> QED
    BY <2>1, <2>2, <2>3
<1> QED
  BY <1>3, <1>5, <1>6, <1>7, <1>8

(* The batch that is taken, and the line that it leaves.                     *)
TurnsAreFair(b, ready, old) ==
    LET served == {CameraOf[item[1]] : item \in ToSet(b)}
        kept == ToSet(old) \cap (ToSet(ready) \cup served)
        Before(i) == {CameraOf[b[h][1]] : h \in 1..(i - 1)}
        Place(c) == CHOOSE n \in DOMAIN ready : ready[n] = c
    IN /\ \A i \in DOMAIN b : CameraOf[b[i][1]] \in Before(i) => kept \subseteq Before(i)
       /\ \A c \in kept \ served, d \in served \cap ToSet(ready) : Place(c) < Place(d)

LEMMA InOrderIsFair ==
    ASSUME NEW R, NEW b, NEW ready, NEW old, b \in Seq(Image), ready \in Seq(Cameras),
           IsOnce(ready), InOrder(R, b, ready)
    PROVE  TurnsAreFair(b, ready, old)
<1> DEFINE served == {CameraOf[item[1]] : item \in ToSet(b)}
           kept == ToSet(old) \cap (ToSet(ready) \cup served)
           Before(i) == {CameraOf[b[h][1]] : h \in 1..(i - 1)}
           Place(c) == CHOOSE n \in DOMAIN ready : ready[n] = c
           l == Len(b)
           r == Len(ready)
<1>1. DOMAIN b = 1..l /\ DOMAIN ready = 1..r /\ l \in Nat /\ r \in Nat
  BY LenProperties
<1>2. \A c : c \in served <=> Took(b, l, c)
  BY <1>1 DEF ToSet, Took
<1>3. \A c : c \in ToSet(ready) <=> \E i \in 1..r : ready[i] = c
  BY <1>1 DEF ToSet
<1>4. \A i : \A c : c \in Before(i) <=> Took(b, i - 1, c)
  BY DEF Took
<1>5. /\ \A i \in 1..r : ready[i] \in R
      /\ \A i \in 1..l : CameraOf[b[i][1]] \in R
      /\ \A c \in R : Took(b, l, c) \/ \E i \in 1..r : ready[i] = c
      /\ \A i \in 1..l : Took(b, i - 1, CameraOf[b[i][1]]) => \A c \in R : Took(b, i - 1, c)
      /\ \A i, j \in 1..r : i < j /\ Took(b, l, ready[i]) => Took(b, l, ready[j])
  BY DEF InOrder
<1>6. \A c : c \in kept => c \in R
  <2>1. \A c : Took(b, l, c) => c \in R
    BY <1>5 DEF Took
  <2> HIDE DEF served, l, r
  <2> QED
    BY <1>2, <1>3, <1>5, <2>1
<1>7. \A i \in 1..r : Place(ready[i]) = i
  <2> SUFFICES ASSUME NEW i \in 1..r PROVE Place(ready[i]) = i
    OBVIOUS
  <2>1. \E n \in DOMAIN ready : ready[n] = ready[i]
    BY <1>1
  <2>2. Place(ready[i]) \in DOMAIN ready /\ ready[Place(ready[i])] = ready[i]
    BY <2>1
  <2> HIDE DEF Place
  <2> QED
    BY <1>1, <2>2 DEF IsOnce
<1> HIDE DEF served, kept, Before, Place, l, r
<1>8. \A i \in DOMAIN b : CameraOf[b[i][1]] \in Before(i) => kept \subseteq Before(i)
  <2> SUFFICES ASSUME NEW i \in 1..l, CameraOf[b[i][1]] \in Before(i), NEW c \in kept
               PROVE  c \in Before(i)
    BY <1>1
  <2>1. \A d \in R : Took(b, i - 1, d)
    BY <1>4, <1>5
  <2> QED
    BY <1>4, <1>6, <2>1
<1>9. ASSUME NEW c \in kept \ served, NEW d \in served \cap ToSet(ready)
      PROVE  Place(c) < Place(d)
  <2>1. ~Took(b, l, c) /\ Took(b, l, d) /\ c \in R
    BY <1>2, <1>6
  <2>2. PICK i \in 1..r : ready[i] = c
    BY <1>5, <2>1
  <2>3. PICK j \in 1..r : ready[j] = d
    BY <1>3
  <2>4. ~(j < i)
    BY <1>5, <2>1, <2>2, <2>3
  <2>5. i # j
    BY <2>1, <2>2, <2>3
  <2>6. Place(c) = i /\ Place(d) = j
    BY <1>7, <2>2, <2>3
  <2> QED
    BY <1>1, <2>4, <2>5, <2>6
<1> QED
  BY <1>8, <1>9 DEF TurnsAreFair, served, kept, Before, Place

LEMMA NextBatchIsFair ==
    ASSUME Sound(queue, batch), NextBatch
    PROVE  TurnsAreFair(batch', queue'.ready, queue.ready)
<1> DEFINE q == Fresh(queue)
<1>1. Sound(q, batch)
  BY FailedIsSound DEF Fresh
<1>2. q.ready # <<>>
  BY DEF NextBatch
<1>3. PICK s \in PopBatch(q) : queue' = s.queue /\ batch' = s.batch
  BY DEF NextBatch
<1> HIDE DEF q
<1>4. PopInv(q, s)
  BY <1>1, <1>2, PopBatchKeeps DEF Sound
<1>5. /\ InOrder(Line(q), s.batch, s.queue.ready) /\ s.batch \in Seq(Image)
      /\ s.queue.ready \in Seq(Cameras) /\ IsOnce(s.queue.ready)
  BY <1>4 DEF PopInv, QueueInv, QueueState, TurnsAreSound
<1> QED
  BY <1>3, <1>5, InOrderIsFair

LEMMA CloseKeeps ==
    ASSUME Sound(queue, batch), Close
    PROVE  Sound(queue', batch) /\ NoNewRequest(queue, queue')
<1> DEFINE q == Failed(queue, Calls)
           p == queue'
<1>1. Sound(q, batch) /\ NoNewRequest(queue, q)
  BY FailedIsSound
<1>2. p = [calls |-> q.calls, waiting |-> [c \in Cameras |-> <<>>],
           ready |-> <<>>, counts |-> [c \in Cameras |-> 0]]
  BY DEF Close
<1>3. \A k \in Calls : q.calls[k].status # "queued"
  <2>1. \A k \in Calls : q.calls[k] = IF k \in Calls /\ queue.calls[k].status = "queued"
                                     THEN Answered("error") ELSE queue.calls[k]
    BY FailedKeeps DEF Sound
  <2> HIDE DEF q
  <2> QED
    BY <2>1, NewCalls
<1> HIDE DEF q, p
<1>4. /\ p.calls = q.calls /\ p.ready = <<>>
      /\ \A c \in Cameras : p.waiting[c] = <<>> /\ p.counts[c] = 0
  BY <1>2
<1>5. /\ q.calls \in [Calls -> CallState] /\ \A k \in Calls : CallIsSound(k, q.calls[k])
      /\ InFlight(q, batch) /\ batch \in Seq(Image)
  BY <1>1 DEF Sound, QueueInv, QueueState
<1>6. p \in QueueState
  <2>1. /\ [c \in Cameras |-> <<>>] \in [Cameras -> Seq(Calls)] /\ <<>> \in Seq(Cameras)
        /\ [c \in Cameras |-> 0] \in [Cameras -> 0..PerCamera]
    BY Bounds
  <2> QED
    BY <1>2, <1>5, <2>1 DEF QueueState
<1>7. Len(<<>>) = 0 /\ 1..0 = {}
  OBVIOUS
<1>8. WaitersAreSound(p) /\ TurnsAreSound(p)
  BY <1>4, <1>7 DEF WaitersAreSound, TurnsAreSound, IsOnce
<1>9. CountsAreTrue(p)
  <2>1. \A c \in Cameras : QueuedOf(p, c) = {}
    BY <1>3, <1>4 DEF QueuedOf, Of
  <2> QED
    BY <1>4, <2>1, FS_EmptySet DEF CountsAreTrue
<1>10. QueueInv(p)
  BY <1>4, <1>5, <1>6, <1>8, <1>9 DEF QueueInv
<1>11. InFlight(p, batch)
  BY <1>4, <1>5 DEF InFlight
<1> QED
  BY <1>1, <1>4, <1>5, <1>10, <1>11 DEF Sound, NoNewRequest, p

LEMMA TickKeeps ==
    ASSUME Sound(queue, batch), Tick
    PROVE  Sound(queue', batch) /\ NoNewRequest(queue, queue')
<1> DEFINE q == queue
           p == queue'
           calls == [k \in Calls |-> Aged(q.calls[k])]
<1>1. q.calls \in [Calls -> CallState] /\ QueueInv(q) /\ batch \in Seq(Image) /\ InFlight(q, batch)
  BY DEF QueueInv, QueueState, Sound
<1>2. p = [q EXCEPT !.calls = calls]
  BY DEF Tick
<1>3. ASSUME NEW x \in CallState
      PROVE  LET y == Aged(x)
             IN  /\ y \in CallState /\ y.status = x.status /\ y.next = x.next /\ y.images = x.images
                 /\ y.results = x.results /\ y.completed = x.completed /\ y.answer = x.answer
  <2> DEFINE a == Lesser(x.age + 1, FrameAge + 1)
  <2>1. a \in 0..(FrameAge + 1)
    <3>1. x.age \in 0..(FrameAge + 1)
      BY DEF CallState
    <3> QED
      BY <3>1, Bounds DEF Lesser
  <2>2. Aged(x) = IF x.status = "queued" /\ x.next = 0 THEN [x EXCEPT !.age = a] ELSE x
    BY DEF Aged
  <2> HIDE DEF a
  <2>3. LET y == [x EXCEPT !.age = a]
        IN  /\ y \in CallState /\ y.status = x.status /\ y.next = x.next /\ y.images = x.images
            /\ y.results = x.results /\ y.completed = x.completed /\ y.answer = x.answer
    BY <2>1 DEF CallState
  <2> QED
    BY <2>2, <2>3
<1>4. \A k \in Calls : calls[k] = Aged(q.calls[k])
  OBVIOUS
<1>5. calls = [k \in Calls |-> calls[k]]
  OBVIOUS
<1> HIDE DEF calls, p, q
<1>6. \A k \in Calls :
         LET x == q.calls[k]
             y == calls[k]
         IN  /\ y \in CallState /\ y.status = x.status /\ y.next = x.next /\ y.images = x.images
             /\ y.results = x.results /\ y.completed = x.completed /\ y.answer = x.answer
  BY <1>1, <1>3, <1>4
<1>7. calls \in [Calls -> CallState]
  BY <1>5, <1>6
<1>8. ASSUME NEW k \in Calls PROVE CallIsSound(k, calls[k])
  <2> DEFINE x == q.calls[k]
             y == calls[k]
  <2>1. /\ y.status = x.status /\ y.next = x.next /\ y.images = x.images
        /\ y.results = x.results /\ y.completed = x.completed /\ y.answer = x.answer
    BY <1>6
  <2>2. CallIsSound(k, x)
    BY <1>1 DEF QueueInv
  <2> HIDE DEF x, y
  <2>3. Recognized(y) = Recognized(x)
    BY <2>1 DEF Recognized
  <2>4. CallIsSound(k, y)
    BY <2>1, <2>2, <2>3 DEF CallIsSound
  <2> QED
    BY <2>4 DEF y
<1>9. SameQueued(q, calls)
  BY <1>6, <1>8 DEF SameQueued
<1>10. QueueInv(p) /\ p.calls = calls
  BY <1>1, <1>2, <1>7, <1>9, CallsChange
<1>11. Undisturbed(q, p, batch)
  BY <1>6, <1>10 DEF Undisturbed
<1>12. InFlight(p, batch)
  BY <1>1, <1>11, FlightKeeps
<1> QED
  BY <1>1, <1>6, <1>10, <1>12 DEF Sound, NoNewRequest, p, q
------------------------------------------------------------------------------
(* The isolation of bad images.                                              *)
Pieces == (1..BatchSize) \X (1..BatchSize)

LEMMA AttemptsFacts == MaxAttempts \in Nat /\ MaxAttempts >= 2 * Levels(BatchSize) + 1
BY AttemptsAssumption DEF Levels

LEMMA RunFields ==
    ASSUME NEW r \in RunState
    PROVE  /\ r.todo \in Seq(Pieces) /\ r.attempts \in 0..MaxAttempts /\ r.attempts \in Nat
           /\ r.found \in Seq(Image \cup {None}) /\ r.failed \subseteq 1..BatchSize
           /\ r.confirmed \subseteq 1..BatchSize /\ r.blamed \subseteq Cameras
           /\ r.tripped \in BOOLEAN
BY AttemptsFacts DEF RunState, Pieces

LEMMA FirstPiece ==
    ASSUME NEW todo \in Seq(Pieces), todo # <<>>, InBatch(todo), batch \in Seq(Image),
           Len(batch) <= BatchSize
    PROVE  /\ Head(todo) = todo[1] /\ todo[1] \in Pieces
           /\ todo[1][1] \in 1..todo[1][2] /\ todo[1][2] \in 1..Len(batch)
           /\ todo[1] = <<todo[1][1], todo[1][2]>>
           /\ Tail(todo) \in Seq(Pieces) /\ InBatch(Tail(todo))
<1> DEFINE x == todo[1]
           t == Tail(todo)
<1>1. /\ Tail(todo) \in Seq(Pieces) /\ Len(Tail(todo)) = Len(todo) - 1 /\ Len(todo) \in Nat \ {0}
      /\ Head(todo) = todo[1] /\ todo[1] \in Pieces
      /\ \A i \in 1..(Len(todo) - 1) : Tail(todo)[i] = todo[i + 1]
  BY TailFacts
<1>2. x \in Pieces /\ x[1] <= x[2] /\ x[2] <= Len(batch)
  <2>1. 1 \in 1..Len(todo)
    BY <1>1
  <2> QED
    BY <1>1, <2>1 DEF InBatch
<1>3. InBatch(t)
  <2>1. \A i \in 1..(Len(todo) - 1) : i + 1 \in 1..Len(todo)
    BY <1>1
  <2> QED
    BY <1>1, <2>1 DEF InBatch
<1> HIDE DEF x, t
<1>4. x[1] \in 1..x[2] /\ x[2] \in 1..Len(batch) /\ x = <<x[1], x[2]>>
  <2> DEFINE l == Len(batch)
  <2>1. l \in Nat
    BY LenProperties
  <2>2. x[2] <= l
    BY <1>2
  <2> HIDE DEF l
  <2>3. x[1] \in 1..x[2] /\ x[2] \in 1..l /\ x = <<x[1], x[2]>>
    BY <1>2, <2>1, <2>2, Bounds DEF Pieces
  <2> QED
    BY <2>3 DEF l
<1> QED
  BY <1>1, <1>3, <1>4 DEF x, t

Follows(t, a, b, S) ==
    /\ t \in Seq(S) /\ Len(t) = Len(a) + Len(b)
    /\ \A i \in 1..(Len(a) + Len(b)) : t[i] = IF i <= Len(a) THEN a[i] ELSE b[i - Len(a)]

LEMMA ConcatFollows ==
    ASSUME NEW S, NEW a \in Seq(S), NEW b \in Seq(S), NEW t, t = a \o b
    PROVE  Follows(t, a, b, S)
BY ConcatProperties DEF Follows

(* A piece is replaced by its two halves.                                    *)
LEMMA HalvesFirst ==
    ASSUME NEW rest \in Seq(Pieces), InBatch(rest), NEW x \in Pieces, NEW y \in Pieces,
           x[1] <= x[2], x[2] <= Len(batch), y[1] <= y[2], y[2] <= Len(batch),
           NEW todo, todo = <<x, y>> \o rest
    PROVE  /\ todo \in Seq(Pieces) /\ InBatch(todo) /\ todo # <<>>
           /\ Len(todo) >= 2 /\ todo[1] = x /\ todo[2] = y
<1> DEFINE two == <<x, y>>
           l == Len(rest)
<1>1. two \in Seq(Pieces) /\ Len(two) = 2 /\ two[1] = x /\ two[2] = y
  OBVIOUS
<1>2. l \in Nat
  BY LenProperties
<1> HIDE DEF two, l
<1>3. /\ todo \in Seq(Pieces) /\ Len(todo) = 2 + l
      /\ \A i \in 1..(2 + l) : todo[i] = IF i <= 2 THEN two[i] ELSE rest[i - 2]
  <2>1. todo = two \o rest
    BY DEF two
  <2>2. Follows(todo, two, rest, Pieces)
    BY <1>1, <2>1, ConcatFollows
  <2> QED
    BY <1>1, <2>2 DEF l, Follows
<1>4. todo[1] = x /\ todo[2] = y /\ Len(todo) >= 2
  <2>1. 1 \in 1..(2 + l) /\ 2 \in 1..(2 + l) /\ 1 <= 2
    BY <1>2
  <2> QED
    BY <1>1, <1>2, <1>3, <2>1
<1>5. ASSUME NEW i \in 1..(2 + l) PROVE todo[i][1] <= todo[i][2] /\ todo[i][2] <= Len(batch)
  <2>1. CASE i = 1
    BY <1>4, <2>1
  <2>2. CASE i = 2
    BY <1>4, <2>2
  <2>3. CASE i > 2
    <3>1. i - 2 \in 1..l /\ ~(i <= 2)
      BY <1>2, <2>3
    <3>2. todo[i] = rest[i - 2]
      BY <1>3, <3>1
    <3> QED
      BY <3>1, <3>2 DEF InBatch, l
  <2>4. i = 1 \/ i = 2 \/ i > 2
    BY <1>2
  <2> QED
    BY <2>1, <2>2, <2>3, <2>4
<1>6. todo # <<>>
  <2>1. todo = <<>> => Len(todo) = 0
    OBVIOUS
  <2> QED
    BY <1>4, <2>1
<1> QED
  BY <1>3, <1>4, <1>5, <1>6 DEF InBatch

(* The three outcomes of a call of the provider.                             *)
Tried(r) ==
    /\ r = [todo |-> r.todo, attempts |-> r.attempts, found |-> r.found, failed |-> r.failed,
            confirmed |-> r.confirmed, blamed |-> r.blamed, tripped |-> r.tripped]
    /\ r.attempts = run.attempts + 1 /\ r.tripped = run.tripped

Accepted(r, i, j) ==
    /\ Tried(r) /\ Healthy(i, j)
    /\ r.todo = Tail(run.todo)
    /\ r.found = [n \in DOMAIN run.found |-> IF n \in i..j THEN batch[n] ELSE run.found[n]]
    /\ r.failed = run.failed /\ r.confirmed = run.confirmed /\ r.blamed = run.blamed

Rejected(r, i) ==
    /\ Tried(r) /\ ~Healthy(i, i)
    /\ r.todo = Tail(run.todo) /\ r.found = run.found
    /\ r.failed = run.failed \cup {i} /\ r.confirmed = run.confirmed \cup {i}
    /\ r.blamed = run.blamed \cup {CameraAt(i)}

Halved(r, i, j) ==
    /\ Tried(r) /\ ~Healthy(i, j) /\ i # j
    /\ LET middle == i + (j - i + 1) \div 2
       IN  r.todo = <<<<i, middle - 1>>, <<middle, j>>>> \o Tail(run.todo)
    /\ r.found = run.found /\ r.failed = run.failed /\ r.confirmed = run.confirmed
    /\ r.blamed = run.blamed \cup {CameraAt(n) : n \in i..j}

LEMMA InvokedCases ==
    ASSUME run \in RunState, NEW i \in Nat, NEW j \in Nat, NEW r, r = Invoked(i, j)
    PROVE  Accepted(r, i, j) \/ (i = j /\ Rejected(r, i)) \/ Halved(r, i, j)
<1> DEFINE rest == Tail(run.todo)
           found == [n \in DOMAIN run.found |-> IF n \in i..j THEN batch[n] ELSE run.found[n]]
           cameras == {CameraAt(n) : n \in i..j}
           middle == i + (j - i + 1) \div 2
           halves == <<<<i, middle - 1>>, <<middle, j>>>> \o rest
           more == run.attempts + 1
           o == run
<1>1. o = [todo |-> o.todo, attempts |-> o.attempts, found |-> o.found, failed |-> o.failed,
           confirmed |-> o.confirmed, blamed |-> o.blamed, tripped |-> o.tripped]
  BY DEF RunState
<1>2. CASE Healthy(i, j)
  <2>1. r = [[o EXCEPT !.attempts = more] EXCEPT !.todo = rest, !.found = found]
    BY <1>2 DEF Invoked
  <2> HIDE DEF o, rest, found, cameras, halves, more
  <2>2. /\ r = [todo |-> r.todo, attempts |-> r.attempts, found |-> r.found, failed |-> r.failed,
                confirmed |-> r.confirmed, blamed |-> r.blamed, tripped |-> r.tripped]
        /\ r.attempts = more /\ r.tripped = o.tripped /\ r.todo = rest /\ r.found = found
        /\ r.failed = o.failed /\ r.confirmed = o.confirmed /\ r.blamed = o.blamed
    BY <1>1, <2>1
  <2>3. Tried(r)
    BY <2>2 DEF Tried, o, more
  <2>4. Accepted(r, i, j)
    BY <1>2, <2>2, <2>3 DEF Accepted, o, rest, found
  <2> QED
    BY <2>4
<1>3. CASE ~Healthy(i, j) /\ i = j
  <2> DEFINE failed == run.failed \cup {i}
             confirmed == run.confirmed \cup {i}
             blamed == run.blamed \cup cameras
  <2>1. r = [[[o EXCEPT !.attempts = more] EXCEPT !.blamed = blamed]
                EXCEPT !.todo = rest, !.failed = failed, !.confirmed = confirmed]
    BY <1>1, <1>3 DEF Invoked
  <2>c. cameras = {CameraAt(i)}
    BY <1>3 DEF CameraAt
  <2> HIDE DEF o, rest, found, cameras, halves, more
  <2>d. failed = o.failed \cup {i} /\ confirmed = o.confirmed \cup {i}
        /\ blamed = o.blamed \cup {CameraAt(i)}
    BY <2>c DEF o
  <2> HIDE DEF failed, confirmed, blamed
  <2>2. /\ r = [todo |-> r.todo, attempts |-> r.attempts, found |-> r.found, failed |-> r.failed,
                confirmed |-> r.confirmed, blamed |-> r.blamed, tripped |-> r.tripped]
        /\ r.attempts = more /\ r.tripped = o.tripped /\ r.todo = rest /\ r.found = o.found
        /\ r.failed = failed /\ r.confirmed = confirmed /\ r.blamed = blamed
    BY <1>1, <2>1
  <2>3. Tried(r)
    BY <2>2 DEF Tried, o, more
  <2>4. Rejected(r, i)
    BY <1>3, <2>2, <2>3, <2>d DEF Rejected, o, rest
  <2> QED
    BY <1>3, <2>4
<1>4. CASE ~Healthy(i, j) /\ i # j
  <2> DEFINE blamed == run.blamed \cup cameras
  <2>1. r = [[[o EXCEPT !.attempts = more] EXCEPT !.blamed = blamed] EXCEPT !.todo = halves]
    BY <1>1, <1>4 DEF Invoked
  <2>d. blamed = o.blamed \cup cameras
    BY DEF o
  <2> HIDE DEF o, rest, found, cameras, halves, more, blamed
  <2>2. /\ r = [todo |-> r.todo, attempts |-> r.attempts, found |-> r.found, failed |-> r.failed,
                confirmed |-> r.confirmed, blamed |-> r.blamed, tripped |-> r.tripped]
        /\ r.attempts = more /\ r.tripped = o.tripped /\ r.todo = halves /\ r.found = o.found
        /\ r.failed = o.failed /\ r.confirmed = o.confirmed /\ r.blamed = blamed
    BY <1>1, <2>1
  <2>3. Tried(r)
    BY <2>2 DEF Tried, o, more
  <2>4. Halved(r, i, j)
    BY <1>4, <2>2, <2>3, <2>d DEF Halved, o, halves, rest, cameras
  <2> QED
    BY <2>4
<1> QED
  BY <1>2, <1>3, <1>4

(* The two halves of a piece.                                                *)
LEMMA HalfFacts ==
    ASSUME NEW j \in 1..BatchSize, NEW i \in 1..j, i # j, NEW middle, middle = i + (j - i + 1) \div 2
    PROVE  /\ middle \in (i + 1)..j /\ <<i, middle - 1>> \in Pieces /\ <<middle, j>> \in Pieces
           /\ i <= middle - 1 /\ middle - 1 <= j
           /\ Levels((middle - 1) - i + 1) + 1 <= Levels(j - i + 1)
           /\ Levels(j - middle + 1) + 1 <= Levels(j - i + 1)
           /\ Levels(j - i + 1) <= Levels(BatchSize) /\ Levels(BatchSize) >= 1
<1> DEFINE m == j - i + 1
           l == m \div 2
<1>1. m \in Nat /\ m > 1 /\ m <= BatchSize
  BY Bounds
<1>2. /\ l \in 1..(m - 1) /\ m - l \in 1..(m - 1)
      /\ Levels(l) + 1 <= Levels(m) /\ Levels(m - l) + 1 <= Levels(m)
  <2> HIDE DEF m
  <2> QED
    BY <1>1, HalvesAreShorter
<1>3. middle = i + l
  OBVIOUS
<1>4. l = (middle - 1) - i + 1 /\ m - l = j - middle + 1
  <2>1. l \in Int
    BY <1>2
  <2>2. m = j - i + 1
    OBVIOUS
  <2> HIDE DEF l, m
  <2> QED
    BY <1>3, <2>1, <2>2
<1>5. m = j - i + 1
  OBVIOUS
<1>6. Levels(m) <= Levels(BatchSize) /\ Levels(BatchSize) >= 1
  <2> HIDE DEF m
  <2>1. m \in Nat \ {0} /\ BatchSize \in m..BatchSize /\ BatchSize \in Nat \ {0} /\ BatchSize > 1
    BY <1>1, Bounds
  <2> QED
    BY <2>1, LevelsFacts
<1> HIDE DEF l, m
<1>7. middle \in (i + 1)..j /\ i <= middle - 1 /\ middle - 1 <= j /\ middle - 1 \in 1..BatchSize
      /\ middle \in 1..BatchSize
  BY <1>1, <1>2, <1>3, <1>5, Bounds
<1>8. i \in 1..BatchSize
  BY Bounds
<1>9. <<i, middle - 1>> \in Pieces /\ <<middle, j>> \in Pieces
  BY <1>7, <1>8 DEF Pieces
<1> QED
  BY <1>2, <1>4, <1>5, <1>6, <1>7, <1>9

(* The next call of the provider.                                            *)
Tries(r) == r = Invoked(Head(run.todo)[1], Head(run.todo)[2])

Running ==
    /\ batch \in Seq(Image) /\ Len(batch) <= BatchSize
    /\ Sensible(run) /\ run.todo # <<>> /\ run.attempts < MaxAttempts

LEMMA RunningFacts ==
    ASSUME Running
    PROVE  /\ run \in RunState /\ run.todo \in Seq(Pieces) /\ InBatch(run.todo) /\ FoundThere(run.found)
           /\ run.found \in Seq(Image \cup {None})
           /\ run.blamed \subseteq {CameraAt(i) : i \in DOMAIN batch}
           /\ run.attempts \in Nat /\ run.attempts < MaxAttempts /\ run.todo # <<>>
           /\ batch \in Seq(Image) /\ Len(batch) \in Nat /\ Len(batch) <= BatchSize
           /\ DOMAIN batch = 1..Len(batch) /\ DOMAIN run.found = 1..Len(batch)
<1>1. run \in RunState /\ batch \in Seq(Image) /\ FoundThere(run.found)
  BY DEF Running, Sensible
<1>2. Len(batch) \in Nat /\ DOMAIN batch = 1..Len(batch)
  BY <1>1, LenProperties
<1>3. run.found \in Seq(Image \cup {None})
  BY <1>1, RunFields
<1>4. DOMAIN run.found = 1..Len(run.found) /\ Len(run.found) = Len(batch)
  BY <1>1, <1>3, LenProperties DEF FoundThere
<1>5. run.todo \in Seq(Pieces) /\ run.attempts \in Nat
  BY <1>1, RunFields
<1> QED
  BY <1>1, <1>2, <1>3, <1>4, <1>5 DEF Running, Sensible

LEMMA NotNone ==
    ASSUME batch \in Seq(Image), NEW i \in 1..Len(batch)
    PROVE  batch[i] # None
<1>1. batch[i] \in Image
  BY ElementOfSeq
<1>2. Image \subseteq Calls \X Nat
  BY Bounds DEF Image
<1> QED
  BY <1>1, <1>2, CallsAssumption

LEMMA FirstFacts ==
    ASSUME Running
    PROVE  LET i == Head(run.todo)[1]
               j == Head(run.todo)[2]
           IN  /\ i \in 1..j /\ j \in 1..Len(batch) /\ i \in Nat /\ j \in Nat /\ j \in 1..BatchSize
               /\ run.todo[1] = <<i, j>>
               /\ Tail(run.todo) \in Seq(Pieces) /\ InBatch(Tail(run.todo))
<1> DEFINE i == Head(run.todo)[1]
           j == Head(run.todo)[2]
<1>1. /\ run.todo \in Seq(Pieces) /\ InBatch(run.todo) /\ run.todo # <<>>
      /\ batch \in Seq(Image) /\ Len(batch) <= BatchSize /\ Len(batch) \in Nat
  BY RunningFacts
<1>2. /\ Head(run.todo) = run.todo[1]
      /\ run.todo[1][1] \in 1..run.todo[1][2] /\ run.todo[1][2] \in 1..Len(batch)
      /\ run.todo[1] = <<run.todo[1][1], run.todo[1][2]>>
      /\ Tail(run.todo) \in Seq(Pieces) /\ InBatch(Tail(run.todo))
  BY <1>1, FirstPiece
<1>3. i \in 1..j /\ j \in 1..Len(batch) /\ run.todo[1] = <<i, j>>
  BY <1>2
<1> DEFINE l == Len(batch)
<1> HIDE DEF i, j, l
<1>4. i \in Nat /\ j \in Nat /\ j \in 1..BatchSize
  <2>1. i \in 1..j /\ j \in 1..l /\ l \in Nat /\ l <= BatchSize
    BY <1>1, <1>3 DEF l
  <2> QED
    BY <2>1, Bounds
<1> QED
  BY <1>2, <1>3, <1>4 DEF i, j

(* Where things are found, after a call that the provider answers.           *)
LEMMA AcceptedFound ==
    ASSUME Running, NEW j \in 1..Len(batch), NEW i \in 1..j, NEW r, Accepted(r, i, j)
    PROVE  /\ r.found \in Seq(Image \cup {None}) /\ FoundThere(r.found)
           /\ Served(r)
<1> DEFINE l == Len(batch)
           F == r.found
           o == run.found
<1>1. /\ l \in Nat /\ DOMAIN o = 1..l /\ batch \in Seq(Image)
      /\ \A n \in 1..l : o[n] \in {None, batch[n]}
  BY RunningFacts DEF FoundThere
<1>2. F = [n \in DOMAIN o |-> IF n \in i..j THEN batch[n] ELSE o[n]]
  BY DEF Accepted
<1>3. \A n \in 1..l : batch[n] \in Image /\ batch[n] # None
  BY <1>1, ElementOfSeq, NotNone
<1>4. j \in 1..l
  OBVIOUS
<1> HIDE DEF F, o, l
<1>5. DOMAIN F = 1..l /\ F = [n \in 1..l |-> F[n]]
      /\ \A n \in 1..l : F[n] = IF n \in i..j THEN batch[n] ELSE o[n]
  BY <1>1, <1>2
<1>6. \A n \in 1..l : F[n] \in {None, batch[n]}
  BY <1>1, <1>5
<1>7. F \in [1..l -> Image \cup {None}]
  BY <1>3, <1>5, <1>6
<1>8. F \in Seq(Image \cup {None})
  BY <1>1, <1>7, SeqDef
<1>9. Len(F) = l
  BY <1>1, <1>5, <1>8, LenProperties
<1>10. i \in 1..l /\ F[i] = batch[i]
  <2>1. i \in 1..l /\ i \in i..j
    BY <1>1, <1>4
  <2> QED
    BY <1>5, <2>1
<1> QED
  BY <1>3, <1>6, <1>8, <1>9, <1>10 DEF FoundThere, Served, F, l

LEMMA InvokedIsSensible ==
    ASSUME Running, NEW r, Tries(r)
    PROVE  Sensible(r) /\ r.attempts = run.attempts + 1
<1> DEFINE i == Head(run.todo)[1]
           j == Head(run.todo)[2]
           middle == i + (j - i + 1) \div 2
           rest == Tail(run.todo)
           B == {CameraAt(n) : n \in DOMAIN batch}
<1>1. /\ i \in 1..j /\ j \in 1..Len(batch) /\ i \in Nat /\ j \in Nat /\ j \in 1..BatchSize
      /\ rest \in Seq(Pieces) /\ InBatch(rest)
  BY FirstFacts
<1>2. /\ run \in RunState /\ batch \in Seq(Image) /\ DOMAIN batch = 1..Len(batch)
      /\ FoundThere(run.found) /\ run.blamed \subseteq B /\ Len(batch) \in Nat
      /\ run.attempts \in Nat /\ run.attempts < MaxAttempts
  BY RunningFacts
<1>3. /\ run.found \in Seq(Image \cup {None}) /\ run.failed \subseteq 1..BatchSize
      /\ run.confirmed \subseteq 1..BatchSize /\ run.blamed \subseteq Cameras
      /\ run.tripped \in BOOLEAN
  BY <1>2, RunFields
<1>4. run.attempts + 1 \in 0..MaxAttempts
  BY <1>2, AttemptsFacts
<1>5. r = Invoked(i, j)
  BY DEF Tries
<1>6. Head(run.todo)[1] = i /\ Head(run.todo)[2] = j
  OBVIOUS
<1> HIDE DEF i, j, rest, B
<1>7. Accepted(r, i, j) \/ (i = j /\ Rejected(r, i)) \/ Halved(r, i, j)
  BY <1>1, <1>2, <1>5, InvokedCases
<1>8. Tried(r)
  BY <1>7, Zenon DEF Accepted, Rejected, Halved
<1>9. B \subseteq Cameras /\ \A n \in i..j : CameraAt(n) \in B
  <2>1. \A n \in DOMAIN batch : CameraAt(n) \in Cameras
    BY <1>2, ImageFacts, CallsAssumption DEF CameraAt
  <2>2. \A n \in i..j : n \in 1..Len(batch)
    <3> DEFINE l == Len(batch)
    <3>1. j \in 1..l /\ l \in Nat
      BY <1>1, <1>2
    <3> HIDE DEF l
    <3>2. \A n \in i..j : n \in 1..l
      BY <1>1, <3>1
    <3> QED
      BY <3>2 DEF l
  <2> QED
    BY <1>2, <2>1, <2>2 DEF B
<1>10. /\ r.todo \in Seq(Pieces) /\ InBatch(r.todo)
       /\ r.found \in Seq(Image \cup {None}) /\ FoundThere(r.found)
       /\ r.failed \subseteq 1..BatchSize /\ r.confirmed \subseteq 1..BatchSize
       /\ r.blamed \subseteq B
  <2>1. CASE Accepted(r, i, j)
    <3>1. r.found \in Seq(Image \cup {None}) /\ FoundThere(r.found)
      BY <1>1, <2>1, AcceptedFound
    <3>2. /\ r.todo = rest /\ r.failed = run.failed /\ r.confirmed = run.confirmed
          /\ r.blamed = run.blamed
      BY <2>1 DEF Accepted, rest
    <3> QED
      BY <1>1, <1>2, <1>3, <3>1, <3>2
  <2>2. CASE i = j /\ Rejected(r, i)
    <3>1. /\ r.todo = rest /\ r.found = run.found /\ r.failed = run.failed \cup {i}
          /\ r.confirmed = run.confirmed \cup {i} /\ r.blamed = run.blamed \cup {CameraAt(i)}
      BY <2>2 DEF Rejected, rest
    <3>2. i \in 1..BatchSize /\ CameraAt(i) \in B
      BY <1>1, <1>9, <2>2
    <3> QED
      BY <1>1, <1>2, <1>3, <3>1, <3>2
  <2>3. CASE Halved(r, i, j)
    <3>1. /\ r.todo = <<<<i, middle - 1>>, <<middle, j>>>> \o rest
          /\ r.found = run.found /\ r.failed = run.failed /\ r.confirmed = run.confirmed
          /\ r.blamed = run.blamed \cup {CameraAt(n) : n \in i..j} /\ i # j
      BY <2>3, Zenon DEF Halved, rest
    <3> DEFINE x == <<i, middle - 1>>
               y == <<middle, j>>
    <3>2. /\ middle \in (i + 1)..j /\ x \in Pieces /\ y \in Pieces
          /\ i <= middle - 1 /\ middle - 1 <= j
      BY <1>1, <3>1, HalfFacts
    <3>a. x[1] = i /\ x[2] = middle - 1 /\ y[1] = middle /\ y[2] = j /\ r.todo = <<x, y>> \o rest
      BY <3>1, Zenon
    <3>b. i <= middle - 1 /\ middle - 1 <= Len(batch) /\ middle <= j /\ j <= Len(batch)
      <4> DEFINE l == Len(batch)
      <4>1. j \in 1..l /\ l \in Nat
        BY <1>1, <1>2
      <4> HIDE DEF l, middle
      <4>2. i <= middle - 1 /\ middle - 1 <= l /\ middle <= j /\ j <= l
        BY <1>1, <3>2, <4>1
      <4> QED
        BY <4>2 DEF l
    <3>3. r.todo \in Seq(Pieces) /\ InBatch(r.todo)
      <4> HIDE DEF x, y, middle
      <4>1. x \in Pieces /\ y \in Pieces /\ r.todo = <<x, y>> \o rest
            /\ x[1] <= x[2] /\ x[2] <= Len(batch) /\ y[1] <= y[2] /\ y[2] <= Len(batch)
        BY <3>2, <3>a, <3>b
      <4> QED
        BY <1>1, <4>1, HalvesFirst
    <3>4. r.blamed \subseteq B
      BY <1>2, <1>9, <3>1
    <3> QED
      BY <1>2, <1>3, <3>1, <3>3, <3>4, Zenon
  <2> QED
    BY <1>7, <2>1, <2>2, <2>3
<1>11. r \in RunState
  <2>1. r.attempts \in 0..MaxAttempts /\ r.tripped \in BOOLEAN /\ r.blamed \subseteq Cameras
    BY <1>3, <1>4, <1>8, <1>9, <1>10 DEF Tried
  <2>2. r = [todo |-> r.todo, attempts |-> r.attempts, found |-> r.found, failed |-> r.failed,
             confirmed |-> r.confirmed, blamed |-> r.blamed, tripped |-> r.tripped]
    BY <1>8 DEF Tried
  <2> QED
    BY <1>10, <2>1, <2>2 DEF RunState, Pieces
<1> QED
  BY <1>8, <1>10, <1>11 DEF Sensible, Tried, B
------------------------------------------------------------------------------
(* The bad images of one camera, while the provider works.                   *)
LEMMA InvokedServes ==
    ASSUME Running, NEW r, Tries(r), Served(run)
    PROVE  Served(r)
<1> DEFINE i == Head(run.todo)[1]
           j == Head(run.todo)[2]
<1>1. i \in 1..j /\ j \in 1..Len(batch) /\ i \in Nat /\ j \in Nat
  BY FirstFacts
<1>2. run \in RunState
  BY RunningFacts
<1>3. r = Invoked(i, j)
  BY DEF Tries
<1> HIDE DEF i, j
<1>4. Accepted(r, i, j) \/ (i = j /\ Rejected(r, i)) \/ Halved(r, i, j)
  BY <1>1, <1>2, <1>3, InvokedCases
<1>5. CASE Accepted(r, i, j)
  BY <1>1, <1>5, AcceptedFound
<1>6. CASE r.found = run.found
  BY <1>6 DEF Served
<1> QED
  BY <1>4, <1>5, <1>6, Zenon DEF Rejected, Halved

OnlyPoisonIn(S) == \A n \in S : CameraAt(n) \in Poison

LEMMA ConfirmedArePoison ==
    ASSUME Running, ~down, NEW r, Tries(r),
           OnlyPoisonIn(run.confirmed)
    PROVE  OnlyPoisonIn(r.confirmed)
<1> DEFINE i == Head(run.todo)[1]
           j == Head(run.todo)[2]
<1>1. i \in 1..j /\ j \in 1..Len(batch) /\ i \in Nat /\ j \in Nat
  BY FirstFacts
<1>2. run \in RunState
  BY RunningFacts
<1>3. r = Invoked(i, j)
  BY DEF Tries
<1> HIDE DEF i, j
<1>4. Accepted(r, i, j) \/ (i = j /\ Rejected(r, i)) \/ Halved(r, i, j)
  BY <1>1, <1>2, <1>3, InvokedCases
<1>5. CASE r.confirmed = run.confirmed
  BY <1>5
<1>6. CASE Rejected(r, i)
  <2>1. ~Healthy(i, i) /\ r.confirmed = run.confirmed \cup {i}
    BY <1>6 DEF Rejected
  <2>2. CameraAt(i) \in Poison
    <3>1. \A n \in i..i : n = i
      BY <1>1
    <3>2. ~\A n \in i..i : CameraAt(n) \notin Poison
      BY <2>1 DEF Healthy
    <3> QED
      BY <3>1, <3>2
  <2> QED
    BY <2>1, <2>2 DEF OnlyPoisonIn
<1> QED
  BY <1>4, <1>5, <1>6, Zenon DEF Accepted, Halved

(* The piece with the good image is tried, or comes next.                    *)
Near(todo, attempts, good) ==
    /\ todo[1][1] <= good /\ good <= todo[1][2]
    /\ attempts + Levels(todo[1][2] - todo[1][1] + 1) <= Levels(BatchSize) + todo[1][1] - 1

After(todo, attempts, good) ==
    /\ good = 2 /\ Len(todo) >= 2 /\ todo[1] = <<1, 1>> /\ todo[2][1] = 2
    /\ attempts + Levels(todo[2][2] - 1) <= Levels(BatchSize)

LEMMA ApproachesForms ==
    ASSUME NEW r, NEW good \in 1..2, good <= Len(batch), CameraAt(good) \notin Poison,
           Near(r.todo, r.attempts, good) \/ After(r.todo, r.attempts, good)
    PROVE  Approaches(r)
BY DEF Approaches, Near, After

LEMMA ServedOrNear ==
    ASSUME Running, ~down, NEW r, Tries(r),
           Approaches(run)
    PROVE  Served(r) \/ (Approaches(r) /\ r.todo # <<>> /\ r.attempts < MaxAttempts)
<1> DEFINE i == Head(run.todo)[1]
           j == Head(run.todo)[2]
           middle == i + (j - i + 1) \div 2
           rest == Tail(run.todo)
           a == run.attempts
           top == Levels(BatchSize)
<1>1. /\ i \in 1..j /\ j \in 1..Len(batch) /\ i \in Nat /\ j \in Nat /\ j \in 1..BatchSize
      /\ rest \in Seq(Pieces) /\ InBatch(rest) /\ run.todo[1] = <<i, j>>
  BY FirstFacts
<1>2. /\ run \in RunState /\ a \in Nat /\ run.todo \in Seq(Pieces) /\ run.todo # <<>>
      /\ InBatch(run.todo) /\ Len(batch) \in Nat /\ Len(batch) <= BatchSize
  BY RunningFacts
<1>3. r = Invoked(i, j)
  BY DEF Tries
<1>4. PICK good \in 1..2 :
         /\ good <= Len(batch) /\ CameraAt(good) \notin Poison
         /\ Near(run.todo, a, good) \/ After(run.todo, a, good)
  <2> HIDE DEF i, j, rest
  <2> QED
    BY DEF Approaches, Near, After
<1>b. top \in Nat /\ MaxAttempts \in Nat /\ MaxAttempts >= 2 * top + 1
  <2>1. BatchSize \in Nat \ {0}
    BY Bounds
  <2> QED
    BY <2>1, LevelsFacts, AttemptsFacts
<1> HIDE DEF i, j, rest, a, top
<1>5. Accepted(r, i, j) \/ (i = j /\ Rejected(r, i)) \/ Halved(r, i, j)
  BY <1>1, <1>2, <1>3, InvokedCases
<1>6. CASE Accepted(r, i, j)
  BY <1>1, <1>6, AcceptedFound
<1>7. CASE i = j /\ Rejected(r, i)
  <2>1. ~Healthy(i, i) /\ r.todo = rest /\ r.attempts = a + 1
    BY <1>7 DEF Rejected, Tried, rest, a
  <2>2. CameraAt(i) \in Poison
    <3>1. \A n \in i..i : n = i
      BY <1>1
    <3>2. ~\A n \in i..i : CameraAt(n) \notin Poison
      BY <2>1 DEF Healthy
    <3> QED
      BY <3>1, <3>2
  <2>3. ~Near(run.todo, a, good)
    <3> SUFFICES ASSUME Near(run.todo, a, good) PROVE FALSE
      OBVIOUS
    <3>1. i <= good /\ good <= j
      BY <1>1 DEF Near
    <3>2. good = i
      BY <1>1, <1>7, <3>1
    <3> QED
      BY <1>4, <2>2, <3>2
  <2>4. After(run.todo, a, good)
    BY <1>4, <2>3
  <2>5. /\ good = 2 /\ Len(run.todo) >= 2 /\ run.todo[2][1] = 2
        /\ a + Levels(run.todo[2][2] - 1) <= top
    BY <2>4 DEF After, top
  <2>6. /\ Tail(run.todo) \in Seq(Pieces) /\ Len(Tail(run.todo)) = Len(run.todo) - 1
        /\ Len(run.todo) \in Nat \ {0}
        /\ \A n \in 1..(Len(run.todo) - 1) : Tail(run.todo)[n] = run.todo[n + 1]
    BY <1>2, TailFacts
  <2>7. rest[1] = run.todo[2] /\ Len(rest) # 0
    <3>1. 1 \in 1..(Len(run.todo) - 1) /\ 1 + 1 = 2
      BY <2>5, <2>6
    <3> QED
      BY <2>5, <2>6, <3>1 DEF rest
  <2>8. 2 \in 1..Len(run.todo) /\ run.todo[2] \in Pieces
    <3>1. 2 \in 1..Len(run.todo)
      BY <2>5, <2>6
    <3> QED
      BY <1>2, <3>1, ElementOfSeq
  <2> DEFINE y == run.todo[2][2]
  <2>9. 2 <= y /\ y \in 1..BatchSize /\ y - 2 + 1 = y - 1 /\ y - 1 \in Nat \ {0}
    <3>1. y \in 1..BatchSize
      BY <2>8 DEF Pieces
    <3>2. 2 <= y
      BY <1>2, <2>5, <2>8 DEF InBatch
    <3> HIDE DEF y
    <3> QED
      BY <3>1, <3>2, Bounds
  <2> HIDE DEF y
  <2>10. top >= 1
    <3>1. BatchSize \in Nat \ {0} /\ BatchSize > 1
      BY <2>9, Bounds
    <3> QED
      BY <3>1, LevelsFacts DEF top
  <2>11. Levels(y - 1) \in Nat
    BY <2>9, LevelsFacts
  <2>12. a + Levels(y - 1) <= top
    BY <2>5 DEF y
  <2>13. (a + 1) + Levels(y - 1) <= top + 2 - 1 /\ a + 1 < MaxAttempts
    BY <1>2, <1>b, <2>10, <2>11, <2>12
  <2>14. rest[1][1] = 2 /\ rest[1][2] = y
    BY <2>5, <2>7 DEF y
  <2>15. Near(rest, a + 1, good)
    BY <2>5, <2>9, <2>13, <2>14 DEF Near, top
  <2>16. Approaches(r)
    BY <1>4, <2>1, <2>15, ApproachesForms
  <2>17. rest # <<>>
    <3>1. rest = <<>> => Len(rest) = 0
      OBVIOUS
    <3> QED
      BY <2>7, <3>1
  <2> QED
    BY <2>1, <2>13, <2>16, <2>17
<1>8. CASE Halved(r, i, j)
  <2>1. /\ ~Healthy(i, j) /\ r.attempts = a + 1 /\ i # j
        /\ r.todo = <<<<i, middle - 1>>, <<middle, j>>>> \o rest
    BY <1>8, Zenon DEF Halved, Tried, rest, a
  <2> DEFINE x == <<i, middle - 1>>
             y == <<middle, j>>
             whole == Levels(j - i + 1)
             first == Levels((middle - 1) - i + 1)
             second == Levels(j - middle + 1)
  <2>2. /\ middle \in (i + 1)..j /\ x \in Pieces /\ y \in Pieces
        /\ i <= middle - 1 /\ middle - 1 <= j
        /\ first + 1 <= whole /\ second + 1 <= whole /\ whole <= top /\ top >= 1
    BY <1>1, <2>1, HalfFacts DEF top
  <2>a. x[1] = i /\ x[2] = middle - 1 /\ y[1] = middle /\ y[2] = j /\ r.todo = <<x, y>> \o rest
    BY <2>1
  <2>b. middle = i + (j - i + 1) \div 2
    OBVIOUS
  <2> HIDE DEF middle
  <2>c. first \in Nat /\ second \in Nat /\ whole \in Nat
    <3>1. /\ (middle - 1) - i + 1 \in Nat \ {0} /\ j - middle + 1 \in Nat \ {0}
          /\ j - i + 1 \in Nat \ {0}
      BY <1>1, <2>2
    <3> QED
      BY <3>1, LevelsFacts
  <2> HIDE DEF x, y, whole, first, second
  <2>3. i <= middle - 1 /\ middle - 1 <= Len(batch) /\ middle <= j /\ j <= Len(batch)
    BY <1>1, <1>2, <2>2
  <2>4. r.todo \in Seq(Pieces) /\ r.todo # <<>> /\ Len(r.todo) >= 2 /\ r.todo[1] = x /\ r.todo[2] = y
    <3>1. /\ x \in Pieces /\ y \in Pieces /\ r.todo = <<x, y>> \o rest
          /\ x[1] <= x[2] /\ x[2] <= Len(batch) /\ y[1] <= y[2] /\ y[2] <= Len(batch)
      BY <2>2, <2>3, <2>a
    <3>2. rest \in Seq(Pieces) /\ InBatch(rest)
      BY <1>1
    <3> DEFINE t == r.todo
    <3>3. t = <<x, y>> \o rest
      BY <3>1
    <3> HIDE DEF t
    <3>4. t \in Seq(Pieces) /\ t # <<>> /\ Len(t) >= 2 /\ t[1] = x /\ t[2] = y
      BY <3>1, <3>2, <3>3, HalvesFirst
    <3> QED
      BY <3>4 DEF t
  <2>5. Near(run.todo, a, good)
    <3> SUFFICES ASSUME After(run.todo, a, good) PROVE FALSE
      BY <1>4
    <3>1. i = 1 /\ j = 1
      BY <1>1 DEF After
    <3> QED
      BY <2>1, <3>1
  <2>6. i <= good /\ good <= j /\ a + whole <= top + i - 1
    BY <1>1, <2>5 DEF Near, whole, top
  <2>7. a + 1 < MaxAttempts
    BY <1>1, <1>2, <1>4, <1>b, <2>2, <2>6, <2>c
  <2>8. CASE good <= middle - 1
    <3>1. (a + 1) + first <= top + i - 1
      BY <1>1, <1>2, <1>b, <2>2, <2>6, <2>c
    <3>2. Near(r.todo, a + 1, good)
      BY <2>4, <2>6, <2>8, <2>a, <3>1 DEF Near, first, top
    <3> QED
      BY <1>4, <2>1, <2>4, <2>7, <3>2, ApproachesForms
  <2>9. CASE ~(good <= middle - 1)
    <3>1. good = 2 /\ middle = 2 /\ i = 1
      BY <1>1, <1>4, <2>2, <2>9
    <3>2. second = Levels(j - 1)
      BY <1>1, <3>1 DEF second
    <3>3. (a + 1) + second <= top
      BY <1>2, <1>b, <2>2, <2>6, <2>c, <3>1
    <3>4. x = <<1, 1>> /\ y[1] = 2 /\ y[2] = j
      BY <3>1 DEF x, y
    <3>5. After(r.todo, a + 1, good)
      BY <2>4, <3>1, <3>2, <3>3, <3>4 DEF After, top
    <3> QED
      BY <1>4, <2>1, <2>4, <2>7, <3>5, ApproachesForms
  <2> QED
    BY <2>8, <2>9
<1> QED
  BY <1>5, <1>6, <1>7, <1>8
------------------------------------------------------------------------------
(* What is given up, and what a dispatch ends with.                          *)
LEMMA GivenUpFacts ==
    ASSUME batch \in Seq(Image), Len(batch) <= BatchSize, NEW r, Sensible(r),
           NEW g, g = GivenUp(r)
    PROVE  /\ Sensible(g) /\ g.todo = <<>> /\ g.found = r.found /\ g.blamed = r.blamed
           /\ g.confirmed = r.confirmed
<1> DEFINE failed == r.failed \cup UNION {t[1]..t[2] : t \in ToSet(r.todo)}
<1>1. /\ r \in RunState /\ r.todo \in Seq(Pieces) /\ InBatch(r.todo) /\ FoundThere(r.found)
      /\ r.failed \subseteq 1..BatchSize /\ r.blamed \subseteq {CameraAt(i) : i \in DOMAIN batch}
  BY RunFields DEF Sensible
<1>2. failed \subseteq 1..BatchSize
  <2>1. ASSUME NEW t \in ToSet(r.todo) PROVE t[1]..t[2] \subseteq 1..BatchSize
    <3>1. PICK i \in DOMAIN r.todo : t = r.todo[i]
      BY DEF ToSet
    <3>2. i \in 1..Len(r.todo)
      BY <1>1, LenProperties
    <3>3. t \in Pieces
      BY <1>1, <3>1, <3>2, ElementOfSeq
    <3>4. t[1] \in 1..BatchSize /\ t[2] \in 1..BatchSize
      BY <3>3 DEF Pieces
    <3> DEFINE x == t[1]
               y == t[2]
    <3> HIDE DEF x, y
    <3>5. x..y \subseteq 1..BatchSize
      <4>1. x \in 1..BatchSize /\ y \in 1..BatchSize
        BY <3>4 DEF x, y
      <4> QED
        BY <4>1, Bounds
    <3> QED
      BY <3>5 DEF x, y
  <2> QED
    BY <1>1, <2>1
<1>3. g = [r EXCEPT !.failed = failed, !.todo = <<>>]
  BY DEF GivenUp
<1> HIDE DEF failed
<1>4. /\ g = [todo |-> <<>>, attempts |-> r.attempts, found |-> r.found, failed |-> failed,
              confirmed |-> r.confirmed, blamed |-> r.blamed, tripped |-> r.tripped]
  BY <1>1, <1>3 DEF RunState
<1>5. /\ g.todo = <<>> /\ g.found = r.found /\ g.blamed = r.blamed /\ g.confirmed = r.confirmed
      /\ g.failed = failed /\ g.attempts = r.attempts /\ g.tripped = r.tripped
  BY <1>4
<1>6. g \in RunState
  <2>1. /\ r.attempts \in 0..MaxAttempts /\ r.found \in Seq(Image \cup {None})
        /\ r.confirmed \subseteq 1..BatchSize /\ r.blamed \subseteq Cameras /\ r.tripped \in BOOLEAN
    BY <1>1, RunFields
  <2>2. <<>> \in Seq((1..BatchSize) \X (1..BatchSize))
    OBVIOUS
  <2> QED
    BY <1>2, <1>4, <2>1, <2>2 DEF RunState
<1>7. InBatch(g.todo)
  <2>1. Len(<<>>) = 0 /\ 1..0 = {}
    OBVIOUS
  <2> QED
    BY <1>5, <2>1 DEF InBatch
<1> QED
  BY <1>1, <1>5, <1>6, <1>7 DEF Sensible

LEMMA WithinFacts ==
    ASSUME batch \in Seq(Image), Len(batch) <= BatchSize, NEW r, Sensible(r),
           NEW w, w = WithinBudget(r)
    PROVE  /\ Sensible(w) /\ w.found = r.found /\ w.confirmed = r.confirmed
           /\ w.todo # <<>> => w = r /\ w.attempts < MaxAttempts
           /\ r.attempts < MaxAttempts => w = r
<1>1. r.attempts \in Nat /\ MaxAttempts \in Nat
  BY AttemptsFacts, RunFields DEF Sensible
<1>2. CASE r.attempts >= MaxAttempts
  <2>1. w = GivenUp(r)
    BY <1>2 DEF WithinBudget
  <2>2. Sensible(w) /\ w.todo = <<>> /\ w.found = r.found /\ w.confirmed = r.confirmed
    BY <2>1, GivenUpFacts
  <2> QED
    BY <1>1, <1>2, <2>2
<1>3. CASE ~(r.attempts >= MaxAttempts)
  BY <1>1, <1>3 DEF WithinBudget
<1> QED
  BY <1>2, <1>3

LEMMA ConcludeTypes ==
    ASSUME HealthTypes, fatal \in BOOLEAN, NEW r \in RunState, Conclude(r)
    PROVE  /\ HealthTypes' /\ fatal' \in BOOLEAN /\ pc' \in {"completing", "failing"}
           /\ run' \in RunState /\ run'.found = r.found
<1>1. failures' \in [Cameras -> 0..(CameraThreshold - 1)]
  <2>1. \A c \in Cameras : failures[c] \in 0..(CameraThreshold - 1)
    BY DEF HealthTypes
  <2>2. failures' = CameraFailures(r)
    BY DEF Conclude
  <2>3. ASSUME NEW c \in Cameras PROVE CameraFailures(r)[c] \in 0..(CameraThreshold - 1)
    <3>1. failures[c] \in 0..(CameraThreshold - 1) /\ 0 \in 0..(CameraThreshold - 1)
      BY <2>1, Bounds
    <3>2. CASE Faulty(r, c)
      BY <3>1, <3>2 DEF CameraFailures
    <3>3. CASE ~Faulty(r, c) /\ c \in FailedCameras(r)
      <4>1. ~(failures[c] + 1 >= CameraThreshold)
        BY <3>3 DEF Faulty
      <4>2. failures[c] + 1 \in 0..(CameraThreshold - 1)
        BY <3>1, <4>1, Bounds
      <4> QED
        BY <3>3, <4>2 DEF CameraFailures
    <3>4. CASE ~Faulty(r, c) /\ c \notin FailedCameras(r)
      BY <3>1, <3>4 DEF CameraFailures
    <3> QED
      BY <3>2, <3>3, <3>4
  <2>4. CameraFailures(r) = [c \in Cameras |-> CameraFailures(r)[c]]
    BY DEF CameraFailures
  <2> QED
    BY <2>2, <2>3, <2>4
<1>2. quarantine' \in [Cameras -> NotQuarantined..QuarantineTime]
  <2>1. quarantine' = [c \in Cameras |-> IF Faulty(r, c) THEN QuarantineTime ELSE quarantine[c]]
    BY DEF Conclude
  <2>2. QuarantineTime \in NotQuarantined..QuarantineTime
    BY Bounds DEF NotQuarantined
  <2>3. \A c \in Cameras : quarantine[c] \in NotQuarantined..QuarantineTime
    BY DEF HealthTypes
  <2> QED
    BY <2>1, <2>2, <2>3
<1>3. breaker' \in [failed : 0..ProviderThreshold, cameras : SUBSET Cameras]
  <2>1. breaker' = ProviderFailures(r)
    BY DEF Conclude
  <2>2. /\ breaker.failed \in 0..ProviderThreshold /\ breaker.cameras \subseteq Cameras
        /\ breaker \in [failed : 0..ProviderThreshold, cameras : SUBSET Cameras]
    BY DEF HealthTypes
  <2>3. r.blamed \subseteq Cameras
    BY RunFields
  <2>4. Lesser(breaker.failed + 1, ProviderThreshold) \in 0..ProviderThreshold
    BY <2>2, Bounds DEF Lesser
  <2>5. 0 \in 0..ProviderThreshold
    BY Bounds
  <2> QED
    BY <2>1, <2>2, <2>3, <2>4, <2>5 DEF ProviderFailures
<1>4. run' \in RunState /\ run'.found = r.found
  <2> DEFINE t == Trips(r)
  <2>1. t \in BOOLEAN /\ run' = [r EXCEPT !.tripped = t]
    BY DEF Conclude, Trips
  <2> HIDE DEF t
  <2> QED
    BY <2>1 DEF RunState
<1>5. fatal' \in BOOLEAN /\ pc' \in {"completing", "failing"}
  BY DEF Conclude, Trips
<1> QED
  BY <1>1, <1>2, <1>3, <1>4, <1>5 DEF HealthTypes

(* What it counts of the other cameras while the provider works.             *)
OthersAreWell ==
    /\ ~fatal
    /\ \A c \in Cameras \ Poison : failures[c] = 0 /\ quarantine[c] = NotQuarantined
    /\ breaker.cameras \subseteq Poison

LEMMA ConcludeContains ==
    ASSUME OthersAreWell, HealthTypes, batch \in Seq(Image), Cardinality(Poison) <= 1, MinCameras > 1,
           NEW r, Sensible(r), OnlyPoisonIn(r.confirmed), Served(r) \/ OnlyPoison, Conclude(r)
    PROVE  OthersAreWell'
<1>1. FailedCameras(r) \subseteq Poison
  BY DEF FailedCameras, OnlyPoisonIn
<1>2. \A c \in Cameras \ Poison : ~Faulty(r, c) /\ c \notin FailedCameras(r)
  BY <1>1 DEF Faulty
<1>3. \A c \in Cameras \ Poison : failures'[c] = 0 /\ quarantine'[c] = NotQuarantined
  <2>1. failures' = CameraFailures(r)
        /\ quarantine' = [c \in Cameras |-> IF Faulty(r, c) THEN QuarantineTime ELSE quarantine[c]]
    BY DEF Conclude
  <2> QED
    BY <1>2, <2>1 DEF OthersAreWell, CameraFailures
<1>4. DOMAIN batch = 1..Len(batch)
  BY LenProperties
<1>5. Served(r) => ServedCameras(r) # {}
  BY <1>4 DEF Served, ServedCameras
<1>6. OnlyPoison => r.blamed \subseteq Poison
  BY <1>4 DEF OnlyPoison, Sensible
<1>7. ProviderFailures(r).cameras \subseteq Poison
  <2>1. CASE ServedCameras(r) # {}
    BY <2>1 DEF ProviderFailures
  <2>2. CASE ServedCameras(r) = {}
    <3>1. r.blamed \subseteq Poison
      BY <1>5, <1>6, <2>2
    <3>2. CASE r.blamed = {}
      BY <2>2, <3>2 DEF ProviderFailures, OthersAreWell
    <3>3. CASE r.blamed # {}
      <4>1. ProviderFailures(r).cameras = breaker.cameras \cup r.blamed
        BY <2>2, <3>3 DEF ProviderFailures
      <4> QED
        BY <3>1, <4>1 DEF OthersAreWell
    <3> QED
      BY <3>2, <3>3
  <2> QED
    BY <2>1, <2>2
<1>8. ~Trips(r)
  <2> DEFINE S == ProviderFailures(r).cameras
  <2>1. IsFiniteSet(Poison)
    BY CallsAssumption, FS_Subset
  <2>2. S \subseteq Poison
    BY <1>7
  <2> HIDE DEF S
  <2>3. Cardinality(S) <= Cardinality(Poison) /\ IsFiniteSet(S)
    BY <2>1, <2>2, FS_Subset
  <2>4. Cardinality(S) \in Nat /\ Cardinality(Poison) \in Nat
    BY <2>1, <2>3, FS_CardinalityType
  <2>5. ~(Cardinality(S) >= MinCameras)
    BY <2>3, <2>4, Bounds
  <2> QED
    BY <2>5 DEF Trips, S
<1>9. fatal' = (fatal \/ Trips(r)) /\ breaker' = ProviderFailures(r)
  BY DEF Conclude
<1> QED
  BY <1>3, <1>7, <1>8, <1>9 DEF OthersAreWell
------------------------------------------------------------------------------
(* A batch comes to the device.                                              *)
LEMMA TwoBad ==
    ASSUME Cardinality(Poison) <= 1, NEW c \in Poison, NEW d \in Poison
    PROVE  c = d
<1>1. IsFiniteSet(Poison)
  BY CallsAssumption, FS_Subset
<1>2. Poison # {} /\ Cardinality(Poison) # 0 /\ Cardinality(Poison) \in Nat
  BY <1>1, FS_EmptySet, FS_CardinalityType
<1>3. Cardinality(Poison) = 1
  BY <1>2
<1>4. PICK x : Poison = {x}
  BY <1>1, <1>3, FS_Singleton
<1> QED
  BY <1>4

Starts(r) ==
    r = [Idle EXCEPT !.todo = <<<<1, Len(batch)>>>>, !.found = [i \in DOMAIN batch |-> None]]

LEMMA StartIsSensible ==
    ASSUME batch \in Seq(Image), Len(batch) <= BatchSize, batch # <<>>, NEW r, Starts(r)
    PROVE  /\ Sensible(r) /\ r.todo # <<>> /\ r.attempts = 0 /\ r.attempts < MaxAttempts
           /\ r.todo[1] = <<1, Len(batch)>> /\ r.confirmed = {}
<1> DEFINE l == Len(batch)
           found == [i \in DOMAIN batch |-> None]
           todo == <<<<1, Len(batch)>>>>
<1>1. l \in Nat /\ DOMAIN batch = 1..l /\ l # 0 /\ l <= BatchSize
  BY EmptySeq, LenProperties
<1>2. found \in Seq(Image \cup {None}) /\ Len(found) = l /\ \A i \in 1..l : found[i] = None
  <2>1. found \in [1..l -> Image \cup {None}] /\ DOMAIN found = 1..l
    BY <1>1
  <2>2. \A i \in 1..l : found[i] = None
    BY <1>1
  <2> HIDE DEF found, l
  <2>3. found \in Seq(Image \cup {None})
    BY <1>1, <2>1, SeqDef
  <2>4. Len(found) = l
    BY <1>1, <2>1, <2>3, LenProperties
  <2> QED
    BY <2>2, <2>3, <2>4
<1>3. 1 \in 1..l /\ l \in 1..BatchSize /\ 1 \in 1..BatchSize
  <2> HIDE DEF l, found, todo
  <2> QED
    BY <1>1, Bounds
<1>4. /\ todo \in Seq((1..BatchSize) \X (1..BatchSize)) /\ Len(todo) = 1 /\ todo # <<>>
      /\ todo[1] = <<1, l>>
  <2>1. <<1, l>> \in (1..BatchSize) \X (1..BatchSize)
    BY <1>3
  <2> DEFINE x == <<1, l>>
  <2>2. todo = <<x>>
    OBVIOUS
  <2> HIDE DEF x, todo
  <2>3. todo \in Seq((1..BatchSize) \X (1..BatchSize)) /\ Len(todo) = 1 /\ todo # <<>> /\ todo[1] = x
    BY <2>1, <2>2 DEF x
  <2> QED
    BY <2>3 DEF x
<1>5. r = [Idle EXCEPT !.todo = todo, !.found = found]
  BY DEF Starts
<1> HIDE DEF todo, found
<1>6. /\ r = [todo |-> todo, attempts |-> 0, found |-> found, failed |-> {}, confirmed |-> {},
              blamed |-> {}, tripped |-> FALSE]
  BY <1>5 DEF Idle
<1>7. /\ r.todo = todo /\ r.attempts = 0 /\ r.found = found /\ r.confirmed = {} /\ r.blamed = {}
  BY <1>6
<1>8. 0 \in 0..MaxAttempts /\ 0 < MaxAttempts
  <2>1. BatchSize \in Nat \ {0}
    BY Bounds
  <2>2. Levels(BatchSize) \in Nat
    BY <2>1, LevelsFacts
  <2> QED
    BY <2>2, AttemptsFacts
<1>9. r \in RunState
  BY <1>2, <1>4, <1>6, <1>8 DEF RunState
<1>10. InBatch(r.todo)
  <2>1. ASSUME NEW i \in 1..Len(todo) PROVE todo[i][1] <= todo[i][2] /\ todo[i][2] <= l
    <3>1. i = 1
      BY <1>4
    <3>2. todo[i][1] = 1 /\ todo[i][2] = l
      BY <1>4, <3>1
    <3> HIDE DEF l
    <3> QED
      BY <1>1, <3>2
  <2> QED
    BY <1>7, <2>1 DEF InBatch
<1>11. FoundThere(r.found)
  BY <1>2, <1>7 DEF FoundThere
<1> QED
  BY <1>4, <1>7, <1>8, <1>9, <1>10, <1>11 DEF Sensible

LEMMA StartApproaches ==
    ASSUME batch \in Seq(Image), Len(batch) <= BatchSize, batch # <<>>, TakesTurns(batch),
           Cardinality(Poison) <= 1,
           NEW r, r.todo[1] = <<1, Len(batch)>>, r.attempts = 0
    PROVE  OnlyPoison \/ Approaches(r)
<1> DEFINE l == Len(batch)
<1> SUFFICES ASSUME NEW i \in 1..l, CameraAt(i) \notin Poison PROVE Approaches(r)
  BY DEF OnlyPoison
<1>1. l \in Nat /\ l # 0 /\ l <= BatchSize
  BY EmptySeq, LenProperties
<1>2. PICK good \in 1..2 : good <= l /\ CameraAt(good) \notin Poison
  <2>1. CASE CameraAt(1) \notin Poison
    <3>1. 1 \in 1..2 /\ 1 <= l
      BY <1>1
    <3> QED
      BY <2>1, <3>1
  <2>2. CASE CameraAt(1) \in Poison
    <3>1. CameraAt(i) # CameraAt(1)
      BY <2>2
    <3>2. CameraAt(2) # CameraAt(1)
      BY <3>1 DEF TakesTurns, CameraAt
    <3>3. CameraAt(2) \notin Poison
      BY <2>2, <3>2, TwoBad
    <3>4. i # 1
      BY <3>1
    <3>5. 2 \in 1..2 /\ 2 <= l
      BY <1>1, <3>4
    <3> QED
      BY <3>3, <3>5
  <2> QED
    BY <2>1, <2>2
<1> HIDE DEF l
<1>3. l \in Nat \ {0} /\ BatchSize \in l..BatchSize /\ l - 1 + 1 = l /\ Levels(l) <= Levels(BatchSize)
  <2>1. l \in Nat \ {0} /\ BatchSize \in l..BatchSize /\ l - 1 + 1 = l
    BY <1>1, Bounds
  <2> QED
    BY <2>1, LevelsFacts
<1>4. Levels(l) \in Nat /\ Levels(BatchSize) \in Nat
  <2>1. BatchSize \in Nat \ {0}
    BY Bounds
  <2> QED
    BY <1>3, <2>1, LevelsFacts
<1>5. r.todo[1][1] = 1 /\ r.todo[1][2] = l
  BY DEF l
<1>6. 0 + Levels(l) <= Levels(BatchSize) + 1 - 1 /\ 1 <= good
  BY <1>3, <1>4
<1>7. Near(r.todo, r.attempts, good)
  BY <1>2, <1>3, <1>5, <1>6 DEF Near
<1>8. good <= Len(batch)
  BY <1>2 DEF l
<1> QED
  BY <1>2, <1>7, <1>8, ApproachesForms
------------------------------------------------------------------------------
(* Each step, part by part.                                                  *)
LEMMA QueueStep ==
    ASSUME SharedInv, Next
    PROVE  /\ Sound(queue', batch')
           /\ NoNewRequest(queue, queue') \/ \E k \in Calls : Reserve(k)
<1>1. Sound(queue, batch) /\ fatal \in BOOLEAN
  BY DEF SharedInv, ServiceTypes, Sound
<1>2. ASSUME NEW k \in Calls, Reserve(k)
      PROVE  Sound(queue', batch') /\ \E j \in Calls : Reserve(j)
  <2>1. batch' = batch
    BY <1>2 DEF Reserve, device
  <2> QED
    BY <1>1, <1>2, <2>1, ReserveKeeps
<1>3. ASSUME NEW k \in Calls, Submit(k) \/ Cancel(k) \/ Release(k)
      PROVE  Sound(queue', batch') /\ NoNewRequest(queue, queue')
  <2>1. batch' = batch
    BY <1>3 DEF Submit, Cancel, Release, device
  <2> QED
    BY <1>1, <1>3, <2>1, RequestKeeps
<1>4. CASE queue' = queue /\ batch' = batch
  BY <1>1, <1>4 DEF NoNewRequest
<1>5. CASE DropStale
  <2>1. queue' = Failed(queue, Stale(queue)) /\ batch' = batch
    BY <1>5 DEF DropStale, Fresh, device
  <2> QED
    BY <1>1, <2>1, FailedIsSound
<1>6. CASE NextBatch
  BY <1>1, <1>6, NextBatchKeeps
<1>7. CASE FailAll
  <2>1. queue' = Failed(queue, {batch[i][1] : i \in DOMAIN batch}) /\ batch' = <<>>
    BY <1>7 DEF FailAll
  <2>2. Sound(queue', batch) /\ NoNewRequest(queue, queue')
    BY <1>1, <2>1, FailedIsSound
  <2>3. Sound(queue', <<>>)
    <3>1. QueueInv(queue')
      BY <2>2 DEF Sound
    <3> QED
      BY <3>1, NothingInFlight
  <2> QED
    BY <2>1, <2>2, <2>3
<1>8. CASE FailItems
  <2>1. queue' = Failed(queue, FailedCalls) /\ batch' = batch
    BY <1>8 DEF FailItems, device
  <2> QED
    BY <1>1, <2>1, FailedIsSound
<1>9. CASE CompleteItems
  <2>1. pc = "completing" /\ batch' = <<>>
    BY <1>9 DEF CompleteItems
  <2>2. FoundThere(run.found)
    BY <2>1 DEF SharedInv, RunIsSound
  <2> QED
    BY <1>1, <1>9, <2>1, <2>2, CompleteKeeps
<1>10. CASE StopDispatcher
  <2>1. queue' = queue /\ batch' = <<>>
    BY <1>10 DEF StopDispatcher
  <2>2. QueueInv(queue)
    BY <1>1 DEF Sound
  <2> QED
    BY <2>1, <2>2, NothingInFlight DEF NoNewRequest
<1>11. CASE Close
  <2>1. batch' = batch
    BY <1>11 DEF Close, device
  <2> QED
    BY <1>1, <1>11, <2>1, CloseKeeps
<1>12. CASE Tick
  <2>1. batch' = batch
    BY <1>12 DEF Tick, device
  <2> QED
    BY <1>1, <1>12, <2>1, TickKeeps
<1>13. ASSUME NEW c \in Cameras, ReserveRefused(c) PROVE queue' = queue /\ batch' = batch
  BY <1>13 DEF ReserveRefused, device
<1>14. AcquireDevice \/ Invoke \/ OutOfTime \/ Abort => queue' = queue /\ batch' = batch
  BY DEF AcquireDevice, Invoke, OutOfTime, Abort, device
<1>15. PeerAborts \/ ProviderFails \/ ProviderRecovers => queue' = queue /\ batch' = batch
  BY DEF PeerAborts, ProviderFails, ProviderRecovers, device
<1> QED
  BY <1>2, <1>3, <1>4, <1>5, <1>6, <1>7, <1>8, <1>9, <1>10, <1>11, <1>12, <1>13, <1>14, <1>15
     DEF Next, Request, Dispatch, Serve

(* The connections stay within their limits.                                 *)
BusyIn(q, c) == {k \in Of(c) : q.calls[k].status # "free"}

Within(q) ==
    /\ \A c \in Cameras : Cardinality(BusyIn(q, c)) <= PerCamera
    /\ Cardinality({c \in Cameras : BusyIn(q, c) # {}}) <= MaxCameras

LEMMA BusyIsFinite ==
    ASSUME NEW q, NEW c
    PROVE  /\ IsFiniteSet(BusyIn(q, c)) /\ Cardinality(BusyIn(q, c)) \in Nat
           /\ IsFiniteSet({d \in Cameras : BusyIn(q, d) # {}})
           /\ Cardinality({d \in Cameras : BusyIn(q, d) # {}}) \in Nat
<1>1. BusyIn(q, c) \subseteq Calls /\ {d \in Cameras : BusyIn(q, d) # {}} \subseteq Cameras
  BY DEF BusyIn, Of
<1>2. IsFiniteSet(BusyIn(q, c)) /\ IsFiniteSet({d \in Cameras : BusyIn(q, d) # {}})
  BY <1>1, CallsAssumption, FS_Subset
<1> QED
  BY <1>2, FS_CardinalityType

LEMMA AdmissionShrinks ==
    ASSUME NEW q, NEW p, Within(q), NoNewRequest(q, p)
    PROVE  Within(p)
<1>1. \A c \in Cameras : BusyIn(p, c) \subseteq BusyIn(q, c)
  BY DEF BusyIn, NoNewRequest, Of
<1>2. ASSUME NEW c \in Cameras PROVE Cardinality(BusyIn(p, c)) <= PerCamera
  <2> DEFINE B == BusyIn(q, c)
             C == BusyIn(p, c)
  <2>1. C \in SUBSET B /\ IsFiniteSet(B) /\ Cardinality(B) \in Nat /\ Cardinality(C) \in Nat
        /\ Cardinality(B) <= PerCamera
    BY <1>1, BusyIsFinite DEF Within
  <2> HIDE DEF B, C
  <2>2. Cardinality(C) <= Cardinality(B)
    BY <2>1, FS_Subset
  <2>3. Cardinality(C) <= PerCamera
    BY <2>1, <2>2, Bounds
  <2> QED
    BY <2>3 DEF C
<1>3. Cardinality({c \in Cameras : BusyIn(p, c) # {}}) <= MaxCameras
  <2> DEFINE B == {c \in Cameras : BusyIn(q, c) # {}}
             C == {c \in Cameras : BusyIn(p, c) # {}}
  <2>1. C \in SUBSET B
    BY <1>1
  <2>2. IsFiniteSet(B) /\ Cardinality(B) \in Nat /\ Cardinality(C) \in Nat /\ Cardinality(B) <= MaxCameras
    BY BusyIsFinite DEF Within
  <2> HIDE DEF B, C
  <2>3. Cardinality(C) <= Cardinality(B)
    BY <2>1, <2>2, FS_Subset
  <2>4. Cardinality(C) <= MaxCameras
    BY <2>2, <2>3, Bounds
  <2> QED
    BY <2>4 DEF C
<1> QED
  BY <1>2, <1>3 DEF Within

LEMMA AdmissionGrows ==
    ASSUME NEW q, NEW p, Within(q), NEW k \in Calls, OtherCalls(q, p, k),
           q.calls[k].status = "free", p.calls[k].status # "free",
           NEW c, c = CameraOf[k],
           BusyIn(q, c) = {} => Cardinality({d \in Cameras : BusyIn(q, d) # {}}) < MaxCameras,
           Cardinality(BusyIn(q, c)) < PerCamera
    PROVE  Within(p)
<1>1. c \in Cameras
  BY CallsAssumption
<1>2. BusyIn(p, c) = BusyIn(q, c) \cup {k} /\ k \notin BusyIn(q, c)
  BY DEF BusyIn, OtherCalls, Of
<1>3. \A d \in Cameras : d # c => BusyIn(p, d) = BusyIn(q, d)
  BY DEF BusyIn, OtherCalls, Of
<1>4. ASSUME NEW d \in Cameras PROVE Cardinality(BusyIn(p, d)) <= PerCamera
  <2>1. CASE d = c
    <3> DEFINE B == BusyIn(q, c)
               C == BusyIn(p, c)
    <3>1. IsFiniteSet(B) /\ Cardinality(B) \in Nat /\ Cardinality(B) < PerCamera /\ C = B \cup {k}
          /\ k \notin B
      BY <1>2, BusyIsFinite
    <3> HIDE DEF B, C
    <3>2. Cardinality(C) = Cardinality(B) + 1
      BY <3>1, FS_AddElement
    <3>3. Cardinality(C) <= PerCamera
      BY <3>1, <3>2, Bounds
    <3> QED
      BY <2>1, <3>3 DEF C
  <2>2. CASE d # c
    BY <1>3, <2>2 DEF Within
  <2> QED
    BY <2>1, <2>2
<1>5. Cardinality({d \in Cameras : BusyIn(p, d) # {}}) <= MaxCameras
  <2> DEFINE B == {d \in Cameras : BusyIn(q, d) # {}}
             C == {d \in Cameras : BusyIn(p, d) # {}}
  <2>1. C = B \cup {c}
    BY <1>1, <1>2, <1>3
  <2>2. /\ IsFiniteSet(B) /\ Cardinality(B) \in Nat /\ Cardinality(B) <= MaxCameras
        /\ c \notin B => Cardinality(B) < MaxCameras
    BY <1>1, BusyIsFinite DEF Within
  <2> HIDE DEF B, C
  <2>3. Cardinality(C) = IF c \in B THEN Cardinality(B) ELSE Cardinality(B) + 1
    BY <2>1, <2>2, FS_AddElement
  <2>4. Cardinality(C) <= MaxCameras
    BY <2>2, <2>3, Bounds
  <2> QED
    BY <2>4 DEF C
<1> QED
  BY <1>4, <1>5 DEF Within

LEMMA AdmissionIsWithin == (Admission <=> Within(queue)) /\ \A c : Busy(c) = BusyIn(queue, c)
BY DEF Admission, Within, Busy, BusyIn

LEMMA AdmissionStep ==
    ASSUME SharedInv, Next
    PROVE  Admission'
<1>1. Within(queue)
  BY AdmissionIsWithin DEF SharedInv
<1>2. CASE NoNewRequest(queue, queue')
  BY <1>1, <1>2, AdmissionShrinks DEF Admission, Within, Busy, BusyIn, Of
<1>3. ASSUME NEW k \in Calls, Reserve(k) PROVE Admission'
  <2>1. /\ queue.calls[k].status = "free" /\ Admissible(CameraOf[k])
        /\ queue' = [queue EXCEPT !.calls[k].status = "admitted"]
    BY <1>3 DEF Reserve
  <2>2. OtherCalls(queue, queue', k)
    BY <1>3, ReserveKeeps DEF SharedInv, ServiceTypes, Sound
  <2>3. queue'.calls[k].status # "free"
    <3>1. queue \in QueueState
      BY DEF SharedInv, QueueInv
    <3>2. queue.calls \in [Calls -> CallState]
      BY <3>1 DEF QueueState
    <3>3. queue'.calls[k] = [queue.calls[k] EXCEPT !.status = "admitted"]
      BY <2>1, <3>1, <3>2 DEF QueueState
    <3>4. queue.calls[k] \in CallState
      BY <3>2
    <3> DEFINE x == queue.calls[k]
    <3> HIDE DEF x
    <3>5. [x EXCEPT !.status = "admitted"].status = "admitted"
      BY <3>4 DEF CallState, x
    <3> QED
      BY <3>3, <3>5 DEF x
  <2>4. Within(queue')
    BY <1>1, <2>1, <2>2, <2>3, AdmissionIsWithin, AdmissionGrows DEF Admissible
  <2> QED
    BY <2>4 DEF Admission, Within, Busy, BusyIn, Of
<1> QED
  BY <1>2, <1>3, QueueStep

(* What the dispatch of images has to do with.                               *)
Unmoved == pc' = pc /\ batch' = batch /\ run' = run

LEMMA UnmovedSteps ==
    ASSUME \/ \E k \in Calls : Request(k)
           \/ \E c \in Cameras : ReserveRefused(c)
           \/ DropStale \/ PeerAborts \/ ProviderFails \/ ProviderRecovers \/ Close \/ Tick
    PROVE  Unmoved /\ closed' \in {closed, TRUE} /\ breaker' = breaker
<1>1. ASSUME NEW k \in Calls, Request(k)
      PROVE  Unmoved /\ closed' = closed /\ breaker' = breaker
  BY <1>1, Zenon DEF Request, Reserve, Submit, Cancel, Release, Unmoved, device, service, health
<1>2. ASSUME NEW c \in Cameras, ReserveRefused(c)
      PROVE  Unmoved /\ closed' = closed /\ breaker' = breaker
  BY <1>2 DEF ReserveRefused, Unmoved, device, service
<1>3. DropStale => Unmoved /\ closed' = closed /\ breaker' = breaker
  BY DEF DropStale, Unmoved, device, service, health
<1>4. PeerAborts => Unmoved /\ closed' = closed /\ breaker' = breaker
  BY DEF PeerAborts, Unmoved, device, health
<1>5. ProviderFails \/ ProviderRecovers => Unmoved /\ closed' = closed /\ breaker' = breaker
  BY DEF ProviderFails, ProviderRecovers, Unmoved, device, service, health
<1>6. Close => Unmoved /\ closed' = TRUE /\ breaker' = breaker
  BY DEF Close, Unmoved, device, health
<1>7. Tick => Unmoved /\ closed' = closed /\ breaker' = breaker
  BY DEF Tick, Unmoved, device, service
<1> QED
  BY <1>1, <1>2, <1>3, <1>4, <1>5, <1>6, <1>7

(* Cameras are forgiven, or time passes, or nothing happens to their health. *)
Recovers == \E c \in Cameras : Forgiven(c)

Passes ==
    /\ quarantine' = [c \in Cameras |-> IF quarantine[c] > 0 THEN quarantine[c] - 1 ELSE quarantine[c]]
    /\ failures' = failures

SameHealth == failures' = failures /\ quarantine' = quarantine

LEMMA HealthSteps ==
    ASSUME \/ \E k \in Calls : Request(k)
           \/ \E c \in Cameras : ReserveRefused(c)
           \/ DropStale \/ PeerAborts \/ ProviderFails \/ ProviderRecovers \/ Close \/ Tick
    PROVE  Recovers \/ Passes \/ SameHealth
<1>1. ASSUME NEW k \in Calls, Reserve(k) PROVE Recovers
  <2>1. CameraOf[k] \in Cameras /\ Forgiven(CameraOf[k])
    BY <1>1, CallsAssumption DEF Reserve
  <2> QED
    BY <2>1 DEF Recovers
<1>2. ASSUME NEW k \in Calls, Submit(k) \/ Cancel(k) \/ Release(k) PROVE SameHealth
  BY <1>2 DEF Submit, Cancel, Release, SameHealth, health
<1>3. ASSUME NEW c \in Cameras, ReserveRefused(c) PROVE Recovers
  BY <1>3 DEF ReserveRefused, Recovers
<1>4. DropStale \/ PeerAborts \/ ProviderFails \/ ProviderRecovers \/ Close => SameHealth
  BY DEF DropStale, PeerAborts, ProviderFails, ProviderRecovers, Close, SameHealth, health
<1>5. Tick => Passes
  BY DEF Tick, Passes
<1> QED
  BY <1>1, <1>2, <1>3, <1>4, <1>5 DEF Request

LEMMA HealthIsTyped ==
    ASSUME HealthTypes, breaker' = breaker, Recovers \/ Passes \/ SameHealth
    PROVE  HealthTypes'
<1>1. CASE Recovers
  <2>1. PICK c \in Cameras : Forgiven(c)
    BY <1>1 DEF Recovers
  <2>2. NotQuarantined \in NotQuarantined..QuarantineTime /\ 0 \in 0..(CameraThreshold - 1)
    BY Bounds DEF NotQuarantined
  <2>3. quarantine' \in [Cameras -> NotQuarantined..QuarantineTime]
    BY <2>1, <2>2 DEF Forgiven, HealthTypes
  <2>4. failures' \in [Cameras -> 0..(CameraThreshold - 1)]
    BY <2>1, <2>2 DEF Forgiven, HealthTypes
  <2> QED
    BY <2>3, <2>4 DEF HealthTypes
<1>2. CASE Passes
  <2>1. ASSUME NEW c \in Cameras
        PROVE  (IF quarantine[c] > 0 THEN quarantine[c] - 1 ELSE quarantine[c])
                  \in NotQuarantined..QuarantineTime
    <3>1. quarantine[c] \in NotQuarantined..QuarantineTime
      BY DEF HealthTypes
    <3> QED
      BY <3>1, Bounds DEF NotQuarantined
  <2>2. quarantine' \in [Cameras -> NotQuarantined..QuarantineTime]
    BY <1>2, <2>1 DEF Passes
  <2> QED
    BY <1>2, <2>2 DEF HealthTypes, Passes
<1>3. CASE SameHealth
  BY <1>3 DEF HealthTypes, SameHealth
<1> QED
  BY <1>1, <1>2, <1>3

LEMMA OthersStayWell ==
    ASSUME HealthTypes, OthersAreWell, breaker' = breaker, ~fatal', Recovers \/ Passes \/ SameHealth
    PROVE  OthersAreWell'
<1>1. CASE Recovers
  <2>1. PICK c \in Cameras : Forgiven(c)
    BY <1>1 DEF Recovers
  <2>2. \A d \in Cameras \ Poison : quarantine'[d] = NotQuarantined
    BY <2>1 DEF Forgiven, HealthTypes, OthersAreWell
  <2>3. \A d \in Cameras \ Poison : failures'[d] = 0
    BY <2>1 DEF Forgiven, HealthTypes, OthersAreWell
  <2> QED
    BY <2>2, <2>3 DEF OthersAreWell
<1>2. CASE Passes
  <2>1. ASSUME NEW c \in Cameras \ Poison PROVE quarantine'[c] = NotQuarantined
    <3>1. quarantine[c] = NotQuarantined /\ ~(NotQuarantined > 0)
      BY DEF OthersAreWell, NotQuarantined
    <3> QED
      BY <1>2, <3>1 DEF Passes
  <2> QED
    BY <1>2, <2>1 DEF OthersAreWell, Passes
<1>3. CASE SameHealth
  BY <1>3 DEF OthersAreWell, SameHealth
<1> QED
  BY <1>1, <1>2, <1>3

(* The failures of the device, and the errors they leave.                    *)
Quiet == faults' = faults /\ down' \in {down, FALSE}

LEMMA QuietOrFault ==
    ASSUME Next
    PROVE  Quiet \/ ProviderFails \/ OutOfTime \/ Abort \/ PeerAborts
<1>1. ASSUME NEW k \in Calls, Request(k) PROVE Quiet
  BY <1>1 DEF Request, Reserve, Submit, Cancel, Release, Quiet
<1>2. ASSUME NEW c \in Cameras, ReserveRefused(c) PROVE Quiet
  BY <1>2 DEF ReserveRefused, Quiet
<1>3. DropStale \/ AcquireDevice \/ FailAll \/ FailItems \/ CompleteItems \/ StopDispatcher
         \/ ProviderRecovers \/ Close \/ Tick \/ NextBatch \/ Invoke => Quiet
  BY DEF DropStale, AcquireDevice, FailAll, FailItems, CompleteItems, StopDispatcher,
         ProviderRecovers, Close, Tick, NextBatch, Invoke, Quiet
<1> QED
  BY <1>1, <1>2, <1>3 DEF Next, Request, Dispatch, Serve

LEMMA FaultSteps ==
    ASSUME Next
    PROVE  /\ \/ Quiet /\ (fatal' = fatal \/ NextBatch \/ Invoke)
              \/ Fault
           /\ fatal => fatal'
<1>1. ASSUME NEW k \in Calls, Request(k) PROVE Quiet /\ fatal' = fatal
  BY <1>1 DEF Request, Reserve, Submit, Cancel, Release, Quiet, service
<1>2. ASSUME NEW c \in Cameras, ReserveRefused(c) PROVE Quiet /\ fatal' = fatal
  BY <1>2 DEF ReserveRefused, Quiet, service
<1>3. DropStale \/ AcquireDevice \/ FailAll \/ FailItems \/ CompleteItems \/ StopDispatcher
         \/ ProviderRecovers \/ Close \/ Tick => Quiet /\ fatal' = fatal
  BY DEF DropStale, AcquireDevice, FailAll, FailItems, CompleteItems, StopDispatcher,
         ProviderRecovers, Close, Tick, Quiet, service
<1>4. NextBatch => Quiet /\ (fatal => fatal')
  BY DEF NextBatch, Quiet
<1>5. Invoke => Quiet /\ (fatal => fatal')
  <2> SUFFICES ASSUME Invoke PROVE Quiet /\ (fatal => fatal')
    OBVIOUS
  <2>1. PICK r : UNCHANGED <<pc, health, fatal>> \/ Conclude(r)
    BY DEF Invoke
  <2>2. fatal' = fatal \/ fatal' = (fatal \/ Trips(r))
    BY <2>1 DEF Conclude
  <2>3. fatal => fatal'
    BY <2>2, Zenon
  <2>4. Quiet
    BY DEF Invoke, Quiet
  <2> QED
    BY <2>3, <2>4
<1>6. OutOfTime => Fault /\ (fatal => fatal')
  BY DEF OutOfTime, Conclude
<1>7. Abort \/ PeerAborts => Fault /\ fatal'
  BY DEF Abort, PeerAborts
<1>8. ProviderFails => Fault /\ fatal' = fatal
  BY DEF ProviderFails, service
<1> QED
  BY <1>1, <1>2, <1>3, <1>4, <1>5, <1>6, <1>7, <1>8 DEF Next, Request, Dispatch, Serve

(* The steps that move a batch.                                              *)
Moves == NextBatch \/ Serve \/ StopDispatcher

Remains ==
    \/ \E k \in Calls : Request(k)
    \/ \E c \in Cameras : ReserveRefused(c)
    \/ DropStale \/ PeerAborts \/ ProviderFails \/ ProviderRecovers \/ Close \/ Tick

LEMMA MovesOrRemains == Next => Moves \/ Remains
BY DEF Next, Dispatch, Moves, Remains

Concludes == \E r \in RunState :
    /\ pc = "running" /\ batch' = batch
    /\ Conclude(r)
    /\ r.todo = <<>>
    /\ Sensible(r)
    /\ \/ /\ Fault /\ OutOfTime
       \/ r = WithinBudget(Invoked(Head(run.todo)[1], Head(run.todo)[2]))

Continues == \E r \in RunState :
    /\ pc = "running" /\ UNCHANGED <<pc, batch, health, fatal>>
    /\ r.todo # <<>> /\ run' = r
    /\ r = WithinBudget(Invoked(Head(run.todo)[1], Head(run.todo)[2]))

LEMMA SharedIsRunning ==
    ASSUME SharedInv, pc = "running"
    PROVE  Running
BY DEF SharedInv, ServiceTypes, RunIsSound, Running

LEMMA DeviceSteps ==
    ASSUME SharedInv, Invoke \/ OutOfTime
    PROVE  Concludes \/ (Continues /\ Quiet)
<1>1. pc = "running" /\ batch' = batch
  BY DEF Invoke, OutOfTime
<1>2. Running
  BY <1>1, SharedIsRunning
<1>3. batch \in Seq(Image) /\ Len(batch) <= BatchSize /\ Sensible(run)
  BY <1>2 DEF Running
<1>4. CASE Invoke
  <2> DEFINE x == Invoked(Head(run.todo)[1], Head(run.todo)[2])
  <2>1. PICK r \in {WithinBudget(x)} :
          \/ r.todo # <<>> /\ run' = r /\ UNCHANGED <<pc, health, fatal>>
          \/ r.todo = <<>> /\ Conclude(r)
    BY <1>4 DEF Invoke
  <2>2. Sensible(x)
    BY <1>2, InvokedIsSensible DEF Tries
  <2>3. x = Invoked(Head(run.todo)[1], Head(run.todo)[2])
    OBVIOUS
  <2> HIDE DEF x
  <2>4. r = WithinBudget(x)
    BY <2>1
  <2>5. Sensible(r)
    BY <1>3, <2>2, <2>4, WithinFacts
  <2>6. r \in RunState
    BY <2>5 DEF Sensible
  <2>7. Quiet
    BY <1>4 DEF Invoke, Quiet
  <2>8. r.todo # <<>> => Continues
    BY <1>1, <2>1, <2>3, <2>4, <2>6 DEF Continues
  <2>9. r.todo = <<>> => Concludes
    BY <1>1, <2>1, <2>3, <2>4, <2>5, <2>6 DEF Concludes
  <2> QED
    BY <2>7, <2>8, <2>9
<1>5. CASE OutOfTime
  <2> DEFINE r == GivenUp(run)
  <2>1. Conclude(r) /\ Fault
    BY <1>5 DEF OutOfTime
  <2> HIDE DEF r
  <2>2. Sensible(r) /\ r.todo = <<>>
    BY <1>3, GivenUpFacts DEF r
  <2>3. r \in RunState
    BY <2>2 DEF Sensible
  <2> QED
    BY <1>1, <1>5, <2>1, <2>2, <2>3 DEF Concludes
<1> QED
  BY <1>4, <1>5

LEMMA TypesStep ==
    ASSUME SharedInv, Next
    PROVE  ServiceTypes'
<1>1. /\ ServiceTypes /\ HealthTypes /\ fatal \in BOOLEAN /\ Sound(queue, batch)
      /\ batch \in Seq(Image) /\ Len(batch) <= BatchSize
  BY DEF SharedInv, ServiceTypes, Sound
<1>2. batch' \in Seq(Image)
  BY QueueStep DEF Sound
<1>3. Len(<<>>) <= BatchSize
  <2>1. Len(<<>>) = 0
    OBVIOUS
  <2> QED
    BY <2>1, Bounds
<1> DEFINE PC == {"waiting", "locking", "running", "failing", "completing", "aborting", "dead"}
<1>4. /\ pc' \in PC /\ Len(batch') <= BatchSize /\ HealthTypes' /\ fatal' \in BOOLEAN
      /\ closed' \in {closed, TRUE}
  <2>1. CASE Remains
    <3>1. Unmoved /\ closed' \in {closed, TRUE} /\ breaker' = breaker /\ (Recovers \/ Passes \/ SameHealth)
      BY <2>1, UnmovedSteps, HealthSteps DEF Remains
    <3>2. HealthTypes'
      BY <1>1, <3>1, HealthIsTyped
    <3>3. fatal' \in BOOLEAN
      <4>1. ASSUME NEW k \in Calls, Request(k) PROVE fatal' = fatal
        BY <4>1 DEF Request, Reserve, Submit, Cancel, Release, service
      <4>2. ASSUME NEW c \in Cameras, ReserveRefused(c) PROVE fatal' = fatal
        BY <4>2 DEF ReserveRefused, service
      <4>3. DropStale \/ ProviderFails \/ ProviderRecovers \/ Close \/ Tick => fatal' = fatal
        BY DEF DropStale, ProviderFails, ProviderRecovers, Close, Tick, service
      <4>4. PeerAborts => fatal' = TRUE
        BY DEF PeerAborts
      <4> QED
        BY <1>1, <2>1, <4>1, <4>2, <4>3, <4>4 DEF Remains
    <3> QED
      BY <1>1, <3>1, <3>2, <3>3 DEF Unmoved, ServiceTypes
  <2>2. CASE NextBatch
    <3>1. /\ Len(batch') <= BatchSize /\ pc' = "locking" /\ fatal' = fatal
      BY <1>1, <2>2, NextBatchKeeps
    <3>2. UNCHANGED <<health, closed>>
      BY <2>2 DEF NextBatch
    <3>3. HealthTypes'
      BY <1>1, <3>2 DEF HealthTypes, health
    <3> QED
      BY <1>1, <3>1, <3>2, <3>3
  <2>3. CASE Invoke \/ OutOfTime
    <3>1. closed' = closed /\ batch' = batch
      BY <2>3 DEF Invoke, OutOfTime
    <3>2. CASE Concludes
      <4>1. PICK r \in RunState : Conclude(r)
        BY <3>2 DEF Concludes
      <4>2. HealthTypes' /\ fatal' \in BOOLEAN /\ pc' \in {"completing", "failing"}
        BY <1>1, <4>1, ConcludeTypes
      <4> QED
        BY <1>1, <3>1, <4>2
    <3>3. CASE Continues
      <4>1. UNCHANGED <<pc, batch, health, fatal>> /\ pc = "running"
        BY <3>3 DEF Continues
      <4>2. HealthTypes'
        BY <1>1, <4>1 DEF HealthTypes, health
      <4> QED
        BY <1>1, <3>1, <4>1, <4>2
    <3> QED
      BY <2>3, <3>2, <3>3, DeviceSteps
  <2>4. CASE AcquireDevice \/ Abort \/ FailAll \/ FailItems \/ CompleteItems \/ StopDispatcher
    <3>1. /\ pc' \in PC /\ batch' \in {batch, <<>>} /\ UNCHANGED <<health, closed>>
          /\ fatal' \in {fatal, TRUE}
      BY <2>4 DEF AcquireDevice, Abort, FailAll, FailItems, CompleteItems, StopDispatcher, device, service
    <3>2. HealthTypes'
      BY <1>1, <3>1 DEF HealthTypes, health
    <3> QED
      BY <1>1, <1>3, <3>1, <3>2
  <2> QED
    BY <2>1, <2>2, <2>3, <2>4, MovesOrRemains DEF Moves, Serve
<1>5. down' \in BOOLEAN /\ faults' \in 0..MaxFaults
  <2>1. down \in BOOLEAN /\ faults \in 0..MaxFaults
    BY <1>1 DEF ServiceTypes
  <2>2. Quiet => down' \in BOOLEAN /\ faults' \in 0..MaxFaults
    BY <2>1 DEF Quiet
  <2>3. Fault => faults' \in 0..MaxFaults
    BY <2>1, Bounds DEF Fault
  <2>4. ProviderFails \/ OutOfTime \/ Abort \/ PeerAborts => down' \in {down, TRUE}
    BY DEF ProviderFails, OutOfTime, Abort, PeerAborts
  <2>5. Quiet \/ ProviderFails \/ OutOfTime \/ Abort \/ PeerAborts
    BY QuietOrFault
  <2>6. faults' \in 0..MaxFaults
    BY <2>2, <2>3, FaultSteps
  <2> QED
    BY <2>1, <2>2, <2>4, <2>5, <2>6
<1> QED
  BY <1>1, <1>2, <1>4, <1>5 DEF ServiceTypes

LEMMA TurnsStep ==
    ASSUME SharedInv, Next
    PROVE  TakesTurns(batch')
<1>1. TakesTurns(batch) /\ Sound(queue, batch) /\ fatal \in BOOLEAN
  BY DEF SharedInv, ServiceTypes, Sound
<1>2. TakesTurns(<<>>)
  <2>1. Len(<<>>) = 0 /\ 1..0 = {}
    OBVIOUS
  <2> QED
    BY <2>1 DEF TakesTurns
<1>3. CASE Remains
  BY <1>1, <1>3, UnmovedSteps DEF Remains, Unmoved
<1>4. CASE NextBatch
  BY <1>1, <1>4, NextBatchKeeps
<1>5. AcquireDevice \/ Invoke \/ OutOfTime \/ Abort \/ FailAll \/ FailItems \/ CompleteItems
         \/ StopDispatcher => batch' \in {batch, <<>>}
  BY DEF AcquireDevice, Invoke, OutOfTime, Abort, FailAll, FailItems, CompleteItems,
         StopDispatcher, device
<1> QED
  BY <1>1, <1>2, <1>3, <1>4, <1>5, MovesOrRemains DEF Moves, Serve

(* The provider works as long as nothing failed.                             *)
LEMMA DownStep ==
    ASSUME SharedInv, Next
    PROVE  /\ faults' = 0 => ~down'
           /\ faults' = 0 => faults = 0 /\ ~Fault
<1>1. faults \in 0..MaxFaults /\ (faults = 0 => ~down) /\ down \in BOOLEAN
  BY DEF SharedInv, ServiceTypes, RunIsSound
<1>2. Fault => faults' # 0
  BY <1>1, Bounds DEF Fault
<1>3. ProviderFails \/ OutOfTime \/ Abort \/ PeerAborts => Fault
  BY DEF ProviderFails, OutOfTime, Abort, PeerAborts
<1>4. ASSUME Quiet PROVE faults' = faults /\ (down' => down)
  <2>1. faults' = faults /\ (down' = down \/ down' = FALSE)
    BY <1>4 DEF Quiet
  <2>2. down' => down
    BY <2>1, Zenon
  <2> QED
    BY <2>1, <2>2
<1> QED
  BY <1>1, <1>2, <1>3, <1>4, QuietOrFault

LEMMA IdleIsTyped == Idle \in RunState
<1>1. 0 \in 0..MaxAttempts /\ <<>> \in Seq((1..BatchSize) \X (1..BatchSize))
      /\ <<>> \in Seq(Image \cup {None})
  BY AttemptsFacts
<1> QED
  BY <1>1 DEF Idle, RunState

(* What the run is, wherever the batch goes.                                 *)
RunIsPlaced ==
    /\ run \in RunState
    /\ pc \in {"locking", "running"} => batch # <<>>
    /\ pc = "running" => Sensible(run) /\ run.todo # <<>> /\ run.attempts < MaxAttempts
    /\ pc \in {"failing", "completing"} => FoundThere(run.found)
    /\ pc = "aborting" => fatal

LEMMA RunStep ==
    ASSUME SharedInv, Next
    PROVE  RunIsSound'
<1> SUFFICES RunIsPlaced'
  BY DownStep DEF RunIsSound, RunIsPlaced
<1>1. RunIsPlaced /\ Sound(queue, batch) /\ fatal \in BOOLEAN
  BY DEF SharedInv, ServiceTypes, RunIsSound, RunIsPlaced, Sound
<1>2. CASE Remains
  <2>1. pc' = pc /\ batch' = batch /\ run' = run
    BY <1>2, UnmovedSteps DEF Remains, Unmoved
  <2>2. fatal => fatal'
    BY FaultSteps
  <2> QED
    BY <1>1, <2>1, <2>2 DEF RunIsPlaced, Sensible, FoundThere, InBatch, CameraAt
<1>3. CASE NextBatch
  <2>1. pc' = "locking" /\ batch' # <<>> /\ run' = run
    BY <1>1, <1>3, NextBatchKeeps DEF NextBatch
  <2> QED
    BY <1>1, <2>1 DEF RunIsPlaced
<1>4. CASE AcquireDevice
  <2>1. pc = "locking" /\ pc' = "running" /\ batch' = batch /\ Starts(run')
    BY <1>4 DEF AcquireDevice, Starts
  <2>2. batch \in Seq(Image) /\ Len(batch) <= BatchSize /\ batch # <<>>
    BY <1>1, <2>1 DEF SharedInv, ServiceTypes, RunIsPlaced
  <2>3. Sensible(run') /\ run'.todo # <<>> /\ run'.attempts < MaxAttempts
    BY <2>1, <2>2, StartIsSensible
  <2>4. run' \in RunState
    BY <2>3 DEF Sensible
  <2> QED
    BY <2>1, <2>2, <2>3, <2>4 DEF RunIsPlaced, Sensible, FoundThere, InBatch, CameraAt
<1>5. CASE Concludes
  <2>1. PICK r \in RunState : Conclude(r) /\ Sensible(r) /\ batch' = batch
    BY <1>5 DEF Concludes
  <2>2. run' \in RunState /\ run'.found = r.found /\ pc' \in {"completing", "failing"}
    BY <1>1, <2>1, ConcludeTypes DEF SharedInv, ServiceTypes
  <2> QED
    BY <2>1, <2>2 DEF RunIsPlaced, Sensible, FoundThere
<1>6. CASE Continues
  <2>1. PICK r \in RunState :
          /\ pc = "running" /\ UNCHANGED <<pc, batch, health, fatal>>
          /\ r.todo # <<>> /\ run' = r
          /\ r = WithinBudget(Invoked(Head(run.todo)[1], Head(run.todo)[2]))
    BY <1>6 DEF Continues
  <2> DEFINE x == Invoked(Head(run.todo)[1], Head(run.todo)[2])
  <2>2. Running /\ batch \in Seq(Image) /\ Len(batch) <= BatchSize
    BY <2>1, SharedIsRunning DEF Running
  <2>3. Sensible(x)
    BY <2>2, InvokedIsSensible DEF Tries
  <2>4. r = WithinBudget(x)
    BY <2>1
  <2> HIDE DEF x
  <2>5. Sensible(r) /\ r.attempts < MaxAttempts
    BY <2>1, <2>2, <2>3, <2>4, WithinFacts
  <2>6. pc' = pc /\ batch' = batch /\ run' = r /\ run'.todo # <<>> /\ batch # <<>>
    BY <1>1, <2>1 DEF RunIsPlaced
  <2>7. pc' = "running" /\ Sensible(run') /\ run'.attempts < MaxAttempts
    BY <2>1, <2>5, <2>6
  <2>8. run' \in RunState
    BY <2>7 DEF Sensible
  <2> QED
    BY <2>6, <2>7, <2>8 DEF RunIsPlaced, Sensible, FoundThere, InBatch, CameraAt
<1>7. CASE Abort
  <2>1. pc' = "aborting" /\ fatal' = TRUE /\ run' = run
    BY <1>7 DEF Abort, device
  <2> QED
    BY <1>1, <2>1 DEF RunIsPlaced
<1>8. CASE FailItems
  <2>1. pc = "failing" /\ pc' = "completing" /\ run' = run /\ batch' = batch
    BY <1>8 DEF FailItems, device
  <2> QED
    BY <1>1, <2>1 DEF RunIsPlaced, FoundThere
<1>9. CASE FailAll \/ CompleteItems \/ StopDispatcher
  <2>1. pc' \in {"dead", "waiting"} /\ run' = Idle
    BY <1>9 DEF FailAll, CompleteItems, StopDispatcher
  <2> QED
    BY <2>1, IdleIsTyped DEF RunIsPlaced
<1> QED
  BY <1>2, <1>3, <1>4, <1>5, <1>6, <1>7, <1>8, <1>9, MovesOrRemains, DeviceSteps DEF Moves, Serve

(* The images of one bad camera stay its problem.                            *)
Isolates ==
    pc = "running" =>
       /\ OnlyPoisonIn(run.confirmed)
       /\ Served(run) \/ OnlyPoison \/ Approaches(run)

LEMMA PoisonParts == PoisonInv <=> (Calm => OthersAreWell /\ Isolates)
BY DEF PoisonInv, OthersAreWell, Isolates, OnlyPoisonIn

LEMMA TriedWell ==
    ASSUME Running, ~down, Isolates, pc = "running", NEW r,
           r = WithinBudget(Invoked(Head(run.todo)[1], Head(run.todo)[2]))
    PROVE  /\ OnlyPoisonIn(r.confirmed)
           /\ \/ Served(r) \/ OnlyPoison
              \/ Approaches(r) /\ r.todo # <<>>
<1> DEFINE x == Invoked(Head(run.todo)[1], Head(run.todo)[2])
<1>1. batch \in Seq(Image) /\ Len(batch) <= BatchSize /\ Sensible(x)
  BY InvokedIsSensible DEF Running, Tries
<1>2. OnlyPoisonIn(x.confirmed)
  BY ConfirmedArePoison DEF Isolates, Tries
<1>3. Served(run) => Served(x)
  BY InvokedServes DEF Tries
<1>4. Approaches(run) => Served(x) \/ (Approaches(x) /\ x.todo # <<>> /\ x.attempts < MaxAttempts)
  BY ServedOrNear DEF Tries
<1>5. r = WithinBudget(x)
  OBVIOUS
<1> HIDE DEF x
<1>6. r.found = x.found /\ r.confirmed = x.confirmed /\ (x.attempts < MaxAttempts => r = x)
  BY <1>1, <1>5, WithinFacts
<1>7. Served(x) => Served(r)
  BY <1>6 DEF Served
<1> QED
  BY <1>2, <1>3, <1>4, <1>6, <1>7 DEF Isolates, OnlyPoisonIn

LEMMA PoisonStep ==
    ASSUME SharedInv, Next
    PROVE  PoisonInv'
<1> SUFFICES ASSUME Calm' PROVE OthersAreWell' /\ Isolates'
  <2>1. (Calm => OthersAreWell /\ Isolates)' => PoisonInv'
    BY DEF PoisonInv, OthersAreWell, Isolates, OnlyPoisonIn
  <2> QED
    BY <2>1
<1>1. faults' = 0 /\ Cardinality(Poison) <= 1 /\ MinCameras > 1
  BY DEF Calm
<1>2. faults = 0 /\ ~Fault /\ Quiet
  BY <1>1, DownStep, FaultSteps
<1>3. Calm /\ OthersAreWell /\ Isolates /\ ~down
  BY <1>1, <1>2, PoisonParts DEF Calm, SharedInv, RunIsSound
<1>4. /\ HealthTypes /\ batch \in Seq(Image) /\ Len(batch) <= BatchSize /\ Sound(queue, batch)
      /\ fatal \in BOOLEAN
  BY DEF SharedInv, ServiceTypes, Sound
<1>5. CASE Remains
  <2>1. /\ pc' = pc /\ batch' = batch /\ run' = run /\ breaker' = breaker
        /\ Recovers \/ Passes \/ SameHealth
    BY <1>5, UnmovedSteps, HealthSteps DEF Remains, Unmoved
  <2>2. ~fatal'
    <3>1. ASSUME NEW k \in Calls, Request(k) PROVE fatal' = fatal
      BY <3>1 DEF Request, Reserve, Submit, Cancel, Release, service
    <3>2. ASSUME NEW c \in Cameras, ReserveRefused(c) PROVE fatal' = fatal
      BY <3>2 DEF ReserveRefused, service
    <3>3. DropStale \/ ProviderFails \/ ProviderRecovers \/ Close \/ Tick => fatal' = fatal
      BY DEF DropStale, ProviderFails, ProviderRecovers, Close, Tick, service
    <3>4. ~PeerAborts
      BY <1>2 DEF PeerAborts
    <3> QED
      BY <1>3, <1>5, <3>1, <3>2, <3>3, <3>4 DEF Remains, OthersAreWell
  <2>3. OthersAreWell'
    BY <1>3, <1>4, <2>1, <2>2, OthersStayWell
  <2>4. Isolates'
    BY <1>3, <2>1 DEF Isolates, Served, OnlyPoison, Approaches, CameraAt, OnlyPoisonIn
  <2> QED
    BY <2>3, <2>4
<1>6. CASE NextBatch
  <2>1. pc' = "locking" /\ fatal' = fatal /\ UNCHANGED health
    BY <1>4, <1>6, NextBatchKeeps DEF NextBatch
  <2> QED
    BY <1>3, <2>1 DEF Isolates, OthersAreWell, health
<1>7. CASE AcquireDevice
  <2>1. /\ pc = "locking" /\ pc' = "running" /\ batch' = batch /\ Starts(run')
        /\ UNCHANGED <<health, fatal>>
    BY <1>7 DEF AcquireDevice, Starts, service
  <2>2. batch # <<>> /\ TakesTurns(batch)
    BY <2>1 DEF SharedInv, RunIsSound
  <2>3. run'.attempts = 0 /\ run'.todo[1] = <<1, Len(batch)>> /\ run'.confirmed = {}
    BY <1>4, <2>1, <2>2, StartIsSensible
  <2>4. OnlyPoison \/ Approaches(run')
    BY <1>1, <1>4, <2>2, <2>3, StartApproaches
  <2>5. Isolates'
    BY <2>1, <2>3, <2>4 DEF Isolates, OnlyPoison, Approaches, CameraAt, OnlyPoisonIn
  <2> QED
    BY <1>3, <2>1, <2>5 DEF OthersAreWell, health
<1>8. CASE Concludes
  <2>1. PICK r \in RunState :
          /\ pc = "running" /\ batch' = batch /\ Conclude(r) /\ r.todo = <<>> /\ Sensible(r)
          /\ \/ Fault
             \/ r = WithinBudget(Invoked(Head(run.todo)[1], Head(run.todo)[2]))
    BY <1>8 DEF Concludes
  <2>2. Running
    BY <2>1, SharedIsRunning
  <2>3. OnlyPoisonIn(r.confirmed) /\ (Served(r) \/ OnlyPoison)
    BY <1>2, <1>3, <2>1, <2>2, TriedWell
  <2>4. OthersAreWell'
    BY <1>1, <1>3, <1>4, <2>1, <2>3, ConcludeContains
  <2>5. pc' # "running"
    BY <2>1 DEF Conclude
  <2> QED
    BY <2>4, <2>5 DEF Isolates
<1>9. CASE Continues
  <2>1. PICK r \in RunState :
          /\ pc = "running" /\ UNCHANGED <<pc, batch, health, fatal>>
          /\ r.todo # <<>> /\ run' = r
          /\ r = WithinBudget(Invoked(Head(run.todo)[1], Head(run.todo)[2]))
    BY <1>9 DEF Continues
  <2>2. Running
    BY <2>1, SharedIsRunning
  <2>3. OnlyPoisonIn(r.confirmed) /\ (Served(r) \/ OnlyPoison \/ Approaches(r))
    BY <1>3, <2>1, <2>2, TriedWell
  <2>4. batch' = batch /\ run' = r
    BY <2>1
  <2>5. Isolates'
    BY <2>3, <2>4 DEF Isolates, Served, OnlyPoison, Approaches, CameraAt, OnlyPoisonIn
  <2> QED
    BY <1>3, <2>1, <2>5 DEF OthersAreWell, health
<1>10. CASE FailAll \/ FailItems \/ CompleteItems \/ StopDispatcher
  <2>1. pc' # "running" /\ UNCHANGED <<health, fatal>>
    BY <1>10 DEF FailAll, FailItems, CompleteItems, StopDispatcher, service
  <2> QED
    BY <1>3, <2>1 DEF Isolates, OthersAreWell, health
<1>11. ~Abort
  BY <1>2 DEF Abort
<1> QED
  BY <1>5, <1>6, <1>7, <1>8, <1>9, <1>10, <1>11, MovesOrRemains, DeviceSteps DEF Moves, Serve
------------------------------------------------------------------------------
LEMMA SharedInit == Init => SharedInv
<1> SUFFICES ASSUME Init PROVE SharedInv
  OBVIOUS
<1> DEFINE q == [calls |-> [k \in Calls |-> NoCall], waiting |-> [c \in Cameras |-> <<>>],
                 ready |-> <<>>, counts |-> [c \in Cameras |-> 0]]
<1>1. /\ queue = q /\ pc = "waiting" /\ batch = <<>> /\ run = Idle
      /\ failures = [c \in Cameras |-> 0] /\ quarantine = [c \in Cameras |-> NotQuarantined]
      /\ breaker = [failed |-> 0, cameras |-> {}]
      /\ down = FALSE /\ fatal = FALSE /\ closed = FALSE /\ faults = 0
  BY DEF Init
<1>2. /\ q.calls = [k \in Calls |-> NoCall] /\ q.waiting = [c \in Cameras |-> <<>>]
      /\ q.ready = <<>> /\ q.counts = [c \in Cameras |-> 0]
  OBVIOUS
<1>3. Len(<<>>) = 0 /\ 1..0 = {}
  OBVIOUS
<1>4. QueueInv(q)
  <2>1. q \in QueueState
    <3>1. q.calls \in [Calls -> CallState]
      BY <1>2, NewCalls
    <3>2. q.waiting \in [Cameras -> Seq(Calls)] /\ q.ready \in Seq(Cameras)
      BY <1>2
    <3>3. q.counts \in [Cameras -> 0..PerCamera]
      BY <1>2, Bounds
    <3>4. q = [calls |-> q.calls, waiting |-> q.waiting, ready |-> q.ready, counts |-> q.counts]
      BY <1>2
    <3> HIDE DEF q
    <3> QED
      BY <3>1, <3>2, <3>3, <3>4 DEF QueueState
  <2> HIDE DEF q
  <2>2. \A k \in Calls : CallIsSound(k, q.calls[k]) /\ q.calls[k].status = "free"
    BY <1>2, NewCalls
  <2>3. WaitersAreSound(q)
    BY <1>2, <1>3 DEF WaitersAreSound, IsOnce
  <2>4. TurnsAreSound(q)
    BY <1>2, <1>3 DEF TurnsAreSound, IsOnce
  <2>5. CountsAreTrue(q)
    <3>1. \A c \in Cameras : QueuedOf(q, c) = {}
      BY <2>2 DEF QueuedOf, Of
    <3>2. Cardinality({}) = 0
      BY FS_EmptySet
    <3> QED
      BY <1>2, <3>1, <3>2 DEF CountsAreTrue
  <2> QED
    BY <2>1, <2>2, <2>3, <2>4, <2>5 DEF QueueInv
<1> HIDE DEF q
<1>5. Sound(q, <<>>)
  BY <1>4, NothingInFlight
<1>6. Within(q)
  <2>1. \A c \in Cameras : BusyIn(q, c) = {}
    BY <1>2, NewCalls DEF BusyIn, Of
  <2>2. {c \in Cameras : BusyIn(q, c) # {}} = {}
    BY <2>1
  <2>3. Cardinality({}) = 0 /\ 0 <= PerCamera /\ 0 <= MaxCameras
    BY FS_EmptySet, Bounds
  <2> QED
    BY <2>1, <2>2, <2>3 DEF Within
<1>7. Admission
  BY <1>1, <1>6, AdmissionIsWithin
<1>8. ServiceTypes
  <2>1. HealthTypes
    <3>1. /\ 0 \in 0..(CameraThreshold - 1) /\ NotQuarantined \in NotQuarantined..QuarantineTime
          /\ 0 \in 0..ProviderThreshold
      BY Bounds DEF NotQuarantined
    <3> QED
      BY <1>1, <3>1 DEF HealthTypes
  <2>2. Len(batch) <= BatchSize /\ batch \in Seq(Image) /\ faults \in 0..MaxFaults
    BY <1>1, <1>3, Bounds
  <2> QED
    BY <1>1, <2>1, <2>2 DEF ServiceTypes
<1>9. TakesTurns(batch)
  BY <1>1, <1>3 DEF TakesTurns
<1>10. RunIsSound
  BY <1>1, IdleIsTyped DEF RunIsSound
<1>11. PoisonInv
  BY <1>1 DEF PoisonInv
<1> QED
  BY <1>1, <1>4, <1>5, <1>7, <1>8, <1>9, <1>10, <1>11 DEF SharedInv, Sound

LEMMA SharedStep == SharedInv /\ [Next]_vars => SharedInv'
<1> SUFFICES ASSUME SharedInv, [Next]_vars PROVE SharedInv'
  OBVIOUS
<1>1. CASE Next
  <2>1. QueueInv(queue') /\ InFlight(queue', batch')
    BY <1>1, QueueStep DEF Sound
  <2>2. (QueueInv(queue) /\ InFlight(queue, batch) /\ TakesTurns(batch))'
    BY <1>1, <2>1, TurnsStep
  <2> QED
    BY <1>1, <2>2, TypesStep, AdmissionStep, RunStep, PoisonStep DEF SharedInv
<1>2. CASE UNCHANGED vars
  <2>1. /\ queue' = queue /\ pc' = pc /\ batch' = batch /\ run' = run /\ failures' = failures
        /\ quarantine' = quarantine /\ breaker' = breaker /\ down' = down /\ fatal' = fatal
        /\ closed' = closed /\ faults' = faults
    BY <1>2 DEF vars, device, health, service
  <2>2. ServiceTypes'
    BY <2>1 DEF SharedInv, ServiceTypes, HealthTypes
  <2>3. (QueueInv(queue) /\ InFlight(queue, batch) /\ TakesTurns(batch))'
    BY <2>1 DEF SharedInv
  <2>4. Admission'
    BY <2>1 DEF SharedInv, Admission, Busy
  <2>5. RunIsSound'
    BY <2>1 DEF SharedInv, RunIsSound, Sensible, FoundThere, InBatch, CameraAt
  <2>6. PoisonInv'
    BY <2>1 DEF SharedInv, PoisonInv, Calm, Served, OnlyPoison, Approaches, CameraAt
  <2> QED
    BY <2>2, <2>3, <2>4, <2>5, <2>6 DEF SharedInv
<1> QED
  BY <1>1, <1>2

LEMMA SharedTypes == SharedInv => TypeOK
<1> SUFFICES ASSUME SharedInv PROVE TypeOK
  OBVIOUS
<1>1. queue \in QueueState /\ run \in RunState /\ ServiceTypes
  BY DEF SharedInv, QueueInv, RunIsSound
<1>2. /\ queue.calls \in [Calls -> [status : {"free", "admitted", "queued", "finished"},
                                    images : 0..MaxImages, next : 0..MaxImages,
                                    completed : 0..MaxImages, age : 0..(FrameAge + 1),
                                    results : Seq(Image \cup {None}),
                                    answer : {"none", "results", "error"}]]
      /\ queue.waiting \in [Cameras -> Seq(Calls)]
      /\ queue.ready \in Seq(Cameras)
      /\ queue.counts \in [Cameras -> 0..PerCamera]
  BY <1>1 DEF QueueState, CallState
<1>3. /\ run.todo \in Seq((1..BatchSize) \X (1..BatchSize)) /\ run.attempts \in 0..MaxAttempts
      /\ run.found \in Seq(Image \cup {None})
      /\ run.failed \subseteq 1..BatchSize /\ run.confirmed \subseteq 1..BatchSize
      /\ run.blamed \subseteq Cameras /\ run.tripped \in BOOLEAN
  BY <1>1, RunFields DEF Pieces
<1> QED
  BY <1>1, <1>2, <1>3 DEF TypeOK, ServiceTypes, HealthTypes

LEMMA SharedAnswers == SharedInv => AnswersAreOwn
<1> SUFFICES ASSUME SharedInv, NEW k \in Calls, queue.calls[k].answer = "results"
             PROVE  /\ queue.calls[k].results # <<>>
                    /\ \A i \in DOMAIN queue.calls[k].results : queue.calls[k].results[i] = <<k, i>>
  BY DEF AnswersAreOwn
<1> DEFINE r == queue.calls[k].results
<1>1. r # <<>> /\ \A n \in 1..Len(r) : r[n] = <<k, n>>
  BY DEF SharedInv, QueueInv, CallIsSound
<1>2. r \in Seq(Image \cup {None})
  <2>1. queue.calls[k] \in CallState
    BY DEF SharedInv, QueueInv, QueueState
  <2> QED
    BY <2>1 DEF CallState
<1>3. DOMAIN r = 1..Len(r)
  BY <1>2, LenProperties
<1> QED
  BY <1>1, <1>3

LEMMA SharedRoom == SharedInv => AdmittedIsQueued
<1> SUFFICES ASSUME SharedInv, NEW k \in Having(queue, "admitted") PROVE HasRoom(queue, CameraOf[k])
  BY DEF AdmittedIsQueued
<1> DEFINE c == CameraOf[k]
           Counted == {d \in Cameras : queue.counts[d] > 0}
           Open == {d \in Cameras : Busy(d) # {}}
<1>1. k \in Calls /\ queue.calls[k].status = "admitted" /\ c \in Cameras
  BY CallsAssumption DEF Having
<1>2. /\ \A d \in Cameras : queue.counts[d] = Cardinality(QueuedOf(queue, d))
      /\ \A d \in Cameras : Cardinality(Busy(d)) <= PerCamera
      /\ Cardinality(Open) <= MaxCameras
  BY DEF SharedInv, QueueInv, CountsAreTrue, Admission
<1>3. \A d : QueuedOf(queue, d) \subseteq Busy(d)
  BY DEF QueuedOf, Busy
<1>4. k \in Busy(c) /\ k \notin QueuedOf(queue, c)
  BY <1>1 DEF QueuedOf, Busy, Of
<1>5. queue.counts[c] < PerCamera
  <2> DEFINE Q == QueuedOf(queue, c)
             B == Busy(c)
  <2>1. IsFiniteSet(B) /\ Cardinality(B) \in Nat /\ Cardinality(B) <= PerCamera
    BY <1>1, <1>2, BusyIsFinite, AdmissionIsWithin
  <2>2. Q \in SUBSET B /\ k \in B /\ k \notin Q /\ queue.counts[c] = Cardinality(Q)
    BY <1>1, <1>2, <1>3, <1>4
  <2> HIDE DEF B, Q
  <2>3. IsFiniteSet(Q) /\ Cardinality(Q) <= Cardinality(B) /\ Cardinality(Q) # Cardinality(B)
    BY <2>1, <2>2, FS_Subset
  <2>4. Cardinality(Q) \in Nat
    BY <2>3, FS_CardinalityType
  <2> HIDE DEF c
  <2> QED
    BY <2>1, <2>2, <2>3, <2>4, Bounds
<1>6. ASSUME queue.counts[c] = 0 PROVE Cardinality(Counted) < MaxCameras
  <2>1. IsFiniteSet(Open) /\ Cardinality(Open) \in Nat
    BY BusyIsFinite, AdmissionIsWithin
  <2>2. Counted \in SUBSET Open
    <3>1. ASSUME NEW d \in Cameras, queue.counts[d] > 0 PROVE Busy(d) # {}
      <4> DEFINE Q == QueuedOf(queue, d)
      <4>a. queue.counts[d] = Cardinality(Q) /\ Cardinality(Q) # 0
        BY <1>2, <3>1
      <4> HIDE DEF Q
      <4>b. Q # {}
        BY <4>a, FS_EmptySet
      <4>1. QueuedOf(queue, d) # {}
        BY <4>b DEF Q
      <4> QED
        BY <1>3, <4>1
    <3> QED
      BY <3>1
  <2>3. c \in Open /\ c \notin Counted
    BY <1>1, <1>4, <1>6
  <2> HIDE DEF Open, Counted, c
  <2>4. IsFiniteSet(Counted) /\ Cardinality(Counted) <= Cardinality(Open)
        /\ Cardinality(Counted) # Cardinality(Open)
    BY <2>1, <2>2, <2>3, FS_Subset
  <2>5. Cardinality(Counted) \in Nat /\ Cardinality(Open) <= MaxCameras
    BY <1>2, <2>4, FS_CardinalityType DEF Open
  <2> QED
    BY <2>1, <2>4, <2>5, Bounds
<1> QED
  BY <1>5, <1>6 DEF HasRoom

LEMMA SharedContains == SharedInv => PoisonIsContained
BY DEF SharedInv, PoisonInv, Calm, PoisonIsContained
------------------------------------------------------------------------------
LEMMA SharedInvariant == Spec => []SharedInv
<1> QED
  BY SharedInit, SharedStep, PTL DEF Spec

(* The queue, the batch, the isolation and the health of the cameras keep    *)
(* their types (_FairInferenceQueue, _dispatch, _infer_with_isolation).      *)
THEOREM SharedInferenceTypes == Spec => []TypeOK
<1> QED
  BY SharedInvariant, SharedTypes, PTL

(* A request is answered with results only if each of its images was         *)
(* recognized, and with what was found in that very image (complete,         *)
(* _finish_call_locked), whatever shared its batches.                        *)
THEOREM AnswersAreOwnHolds == Spec => []AnswersAreOwn
<1> QED
  BY SharedInvariant, SharedAnswers, PTL

(* A payload that _reserve_payload let in finds room in the queue when it is *)
(* submitted: the connections and the counts of the queue agree.             *)
THEOREM AdmittedIsQueuedHolds == Spec => []AdmittedIsQueued
<1> QED
  BY SharedInvariant, SharedRoom, PTL

(* While the device works, one camera's bad images never count against       *)
(* another and never open the circuit: validate_batch_capacity leaves enough *)
(* attempts to recognize an image of another camera in each batch that has   *)
(* one (_infer_with_isolation, _record_fault_outcome).                       *)
THEOREM PoisonIsContainedHolds == Spec => []PoisonIsContained
<1> QED
  BY SharedInvariant, SharedContains, PTL

(* When a batch is taken, nobody is served twice before all who kept their   *)
(* place were served, and who was not served stays ahead of those who were   *)
(* (_pop_batch_locked, _mark_ready).                                         *)
THEOREM TurnsStayFair == Spec => FairTurns
<1>1. ASSUME SharedInv, Next, pc = "waiting", pc' = "locking"
      PROVE  TurnsAreFair(batch', queue'.ready, queue.ready)
  <2>1. ASSUME NEW k \in Calls, Request(k) PROVE FALSE
    BY <1>1, <2>1 DEF Request, Reserve, Submit, Cancel, Release
  <2>2. ASSUME NEW c \in Cameras, ReserveRefused(c) PROVE FALSE
    BY <1>1, <2>2 DEF ReserveRefused
  <2>3. ~(DropStale \/ FailAll \/ FailItems \/ CompleteItems \/ StopDispatcher
             \/ AcquireDevice \/ Invoke \/ OutOfTime \/ Abort)
    BY <1>1 DEF DropStale, FailAll, FailItems, CompleteItems, StopDispatcher,
                AcquireDevice, Invoke, OutOfTime, Abort
  <2>4. ~(ProviderFails \/ ProviderRecovers \/ PeerAborts \/ Close \/ Tick)
    BY <1>1 DEF ProviderFails, ProviderRecovers, PeerAborts, Close, Tick
  <2>5. NextBatch
    BY <1>1, <2>1, <2>2, <2>3, <2>4 DEF Next, Dispatch, Serve
  <2>6. Sound(queue, batch)
    BY <1>1 DEF SharedInv, ServiceTypes, Sound
  <2> QED
    BY <2>5, <2>6, NextBatchIsFair
<1>2. ASSUME UNCHANGED vars, pc = "waiting" PROVE pc' # "locking"
  BY <1>2 DEF vars
<1>3. SharedInv /\ [Next]_vars =>
         [pc = "waiting" /\ pc' = "locking" => TurnsAreFair(batch', queue'.ready, queue.ready)]_vars
  BY <1>1, <1>2
<1> QED
  BY <1>3, SharedInvariant, PTL DEF Spec, FairTurns, TurnsAreFair

===============================================================================
