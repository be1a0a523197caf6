----------------------------- MODULE Induction -----------------------------
(***************************************************************************)
(* Induction over the numbers, and what it says of the library's folds:    *)
(* the lemmas of the proofs about sums, counters and logs (append_logs and *)
(* fit_events add up sizes, accept_result adds up bytes).  A fold is       *)
(* never unfolded elsewhere: FoldIs turns it into its values after each    *)
(* number.                                                                 *)
(***************************************************************************)
EXTENDS Integers, FiniteSetsExt, WellFoundedInduction, TLAPS

(* A nonempty set of numbers has a least one. *)
LEMMA Least ==
  ASSUME NEW T \in SUBSET Nat, T # {}
  PROVE  \E m \in T : \A n \in T : m <= n
<1> DEFINE R == {ss \in Nat \X Nat : ss[1] < ss[2]}
<1>1. IsWellFoundedOn(R, Nat)
  BY NatLessThanWellFounded DEF OpToRel
<1>2. \E m \in T : \A n \in T : ~ (<<n, m>> \in R)
  <2> HIDE DEF R
  <2> QED
    BY <1>1, WFMin
<1>3. PICK m \in T : \A n \in T : ~ (<<n, m>> \in R)
  BY <1>2
<1>4. \A n \in T : ~ (n < m) /\ n \in Nat /\ m \in Nat
  BY <1>3
<1> QED
  BY <1>4

(* Induction, with a set of numbers for a predicate. *)
LEMMA Inductively ==
  ASSUME NEW T \in SUBSET Nat, 0 \in T, \A n \in T : n + 1 \in T
  PROVE  T = Nat
<1> SUFFICES ASSUME Nat \ T # {} PROVE FALSE
  OBVIOUS
<1>1. PICK m \in Nat \ T : \A n \in Nat \ T : m <= n
  BY Least
<1>2. m # 0 /\ m - 1 \in Nat /\ m = (m - 1) + 1
  BY <1>1
<1>3. m - 1 \in T
  BY <1>1, <1>2
<1> QED
  BY <1>1, <1>2, <1>3

(* The greatest of a set, once it is known. *)
LEMMA MaxIs ==
  ASSUME NEW S \in SUBSET Int, NEW m \in S, \A n \in S : n <= m
  PROVE  Max(S) = m
<1>1. m \in S /\ \A n \in S : m >= n
  OBVIOUS
<1>2. Max(S) \in S /\ \A n \in S : Max(S) >= n
  BY <1>1 DEF Max
<1>3. PICK x : x = Max(S)
  OBVIOUS
<1>4. x \in Int /\ m \in Int /\ x >= m /\ x <= m
  BY <1>2, <1>3
<1> QED
  BY <1>3, <1>4

(* What MapThenFoldSet chooses exists: a fold over the numbers up to n, from the
   greatest of a set downwards. *)
Folds(iter, S, base, step) ==
  \A s \in SUBSET S :
    iter[s] = IF s = {} THEN base ELSE step[<<iter[s \ {Max(s)}], Max(s)>>]

(* A fold over the numbers up to n, one step for each, exists as a function of
   the sets of numbers folded so far. *)
LEMMA FoldExists ==
  ASSUME NEW n \in Nat, NEW V, NEW base \in V, NEW step \in [V \X (1..n) -> V]
  PROVE  \E iter \in [SUBSET (1..n) -> V] : Folds(iter, 1..n, base, step)
<1> DEFINE T == {m \in Nat : m <= n => \E iter \in [SUBSET (1..m) -> V] : Folds(iter, 1..m, base, step)}
<1>1. 0 \in T
  <2>1. PICK iter : iter = [s \in SUBSET (1..0) |-> base]
    OBVIOUS
  <2>e. 1..0 = {}
    OBVIOUS
  <2>2. \A s \in SUBSET (1..0) : s = {}
    BY <2>e
  <2>2a. iter \in [SUBSET (1..0) -> V] /\ \A s \in SUBSET (1..0) : iter[s] = base
    BY <2>1
  <2>3. Folds(iter, 1..0, base, step)
    BY <2>2, <2>2a DEF Folds
  <2> QED
    BY <2>2a, <2>3
<1>2. ASSUME NEW m \in T PROVE m + 1 \in T
  <2> SUFFICES ASSUME m + 1 <= n
               PROVE  \E iter \in [SUBSET (1..(m + 1)) -> V] : Folds(iter, 1..(m + 1), base, step)
    <3>1. m + 1 \in Nat
      OBVIOUS
    <3> QED
      BY <3>1
  <2>0. m \in Nat /\ m <= n /\ m + 1 \in 1..n
    OBVIOUS
  <2>1. PICK shorter \in [SUBSET (1..m) -> V] : Folds(shorter, 1..m, base, step)
    BY <2>0
  <2>2. PICK iter : iter = [s \in SUBSET (1..(m + 1)) |->
                              IF m + 1 \in s THEN step[<<shorter[s \ {m + 1}], m + 1>>] ELSE shorter[s]]
    OBVIOUS
  <2>3. ASSUME NEW s \in SUBSET (1..(m + 1))
        PROVE  /\ iter[s] \in V
               /\ iter[s] = IF s = {} THEN base ELSE step[<<iter[s \ {Max(s)}], Max(s)>>]
    <3>1. CASE m + 1 \in s
      <4>1. Max(s) = m + 1
        BY <2>0, <3>1, MaxIs
      <4>2. PICK rest : rest = s \ {m + 1}
        OBVIOUS
      <4>3. rest \in SUBSET (1..m) /\ rest \in SUBSET (1..(m + 1)) /\ m + 1 \notin rest
        BY <2>0, <4>2
      <4>4. iter[rest] = shorter[rest] /\ iter[s] = step[<<shorter[rest], m + 1>>]
        BY <2>2, <3>1, <4>2, <4>3
      <4>5. shorter[rest] \in V
        BY <2>1, <4>3
      <4>6. iter[s] \in V
        BY <2>0, <4>4, <4>5
      <4> QED
        BY <3>1, <4>1, <4>2, <4>4, <4>6
    <3>2. CASE m + 1 \notin s
      <4>1. s \in SUBSET (1..m)
        BY <2>0, <3>2
      <4>2. iter[s] = shorter[s] /\ iter[s] \in V
        BY <2>1, <2>2, <3>2, <4>1
      <4>3. shorter[s] = IF s = {} THEN base ELSE step[<<shorter[s \ {Max(s)}], Max(s)>>]
        BY <2>1, <4>1 DEF Folds
      <4>4. PICK rest : rest = s \ {Max(s)}
        OBVIOUS
      <4>p. 1..m \subseteq 1..(m + 1) /\ m + 1 \notin 1..m
        BY <2>0
      <4>q. rest \in SUBSET (1..m)
        BY <4>1, <4>4
      <4>5. rest \in SUBSET (1..(m + 1)) /\ m + 1 \notin rest
        BY <4>p, <4>q
      <4>6. iter[rest] = shorter[rest]
        BY <2>2, <4>5
      <4> QED
        BY <4>2, <4>3, <4>4, <4>6
    <3> QED
      BY <3>1, <3>2
  <2>4. iter \in [SUBSET (1..(m + 1)) -> V]
    BY <2>2, <2>3
  <2>5. Folds(iter, 1..(m + 1), base, step)
    BY <2>3 DEF Folds
  <2> QED
    BY <2>4, <2>5
<1>3. T = Nat
  <2>1. T \in SUBSET Nat
    OBVIOUS
  <2> HIDE DEF T
  <2> QED
    BY <1>1, <1>2, <2>1, Inductively
<1>4. n <= n => \E iter \in [SUBSET (1..n) -> V] : Folds(iter, 1..n, base, step)
  BY <1>3
<1>5. n <= n
  OBVIOUS
<1> QED
  BY <1>4, <1>5

(* A nonempty set of numbers with a bound has a greatest one. *)
LEMMA MaxIn ==
  ASSUME NEW bound \in Nat, NEW S \in SUBSET Nat, S # {}, \A n \in S : n <= bound
  PROVE  Max(S) \in S /\ \A n \in S : n <= Max(S)
<1> DEFINE T == {bound - n : n \in S}
<1>0. \A n \in S : bound - n \in Nat
  OBVIOUS
<1>1. T \in SUBSET Nat /\ T # {}
  BY <1>0
<1>2. PICK least \in T : \A t \in T : least <= t
  <2> HIDE DEF T
  <2> QED
    BY <1>1, Least
<1>3. PICK m \in S : least = bound - m
  OBVIOUS
<1>4. \A n \in S : n <= m
  <2> TAKE n \in S
  <2>1. bound - n \in T /\ n \in Nat /\ m \in Nat
    OBVIOUS
  <2> QED
    BY <1>2, <1>3, <2>1
<1>5. S \in SUBSET Int /\ m \in S /\ \A n \in S : n <= m
  BY <1>4
<1>6. Max(S) = m
  <2> HIDE DEF T
  <2> QED
    BY <1>5, MaxIs
<1> QED
  BY <1>5, <1>6

(* Some of the first numbers have their greatest among them. *)
LEMMA MaxAmong ==
  ASSUME NEW n \in Nat, NEW s \in SUBSET (1..n), s # {}
  PROVE  Max(s) \in 1..n
<1>1. s \in SUBSET Nat /\ \A m \in s : m <= n
  OBVIOUS
<1>2. Max(s) \in s
  BY <1>1, MaxIn
<1> QED
  BY <1>2

(* The first numbers, without the last of them. *)
LEMMA Firsts ==
  ASSUME NEW n \in Nat, NEW k \in 0..(n - 1)
  PROVE  /\ Max(1..(k + 1)) = k + 1
         /\ (1..(k + 1)) \ {k + 1} = 1..k /\ 1..(k + 1) # {} /\ 1..(k + 1) \in SUBSET (1..n)
<1>0. k \in Nat
  OBVIOUS
<1>1. 1..(k + 1) \in SUBSET Int /\ k + 1 \in 1..(k + 1) /\ \A i \in 1..(k + 1) : i <= k + 1
  BY <1>0
<1>2. PICK first : first = 1..(k + 1)
  OBVIOUS
<1>3. Max(first) = k + 1
  BY <1>1, <1>2, MaxIs
<1>4. (1..(k + 1)) \ {k + 1} = 1..k
  BY <1>0
<1>5. 1..(k + 1) \in SUBSET (1..n)
  OBVIOUS
<1> QED
  BY <1>1, <1>2, <1>3, <1>4, <1>5

(* What holds of the first of some steps, and after each one that it held
   before, holds of all of them. *)
LEMMA Stepwise ==
  ASSUME NEW n \in Nat, NEW T \in SUBSET (0..n), 0 \in T, \A k \in 0..(n - 1) : k \in T => k + 1 \in T
  PROVE  T = 0..n
<1> DEFINE U == T \cup {m \in Nat : m > n}
<1>1. U \in SUBSET Nat /\ 0 \in U
  <2>1. \A k \in T : k \in Nat
    OBVIOUS
  <2> QED
    BY <2>1
<1>3. ASSUME NEW k \in U PROVE k + 1 \in U
  <2>1. CASE k \in T /\ k < n
    <3>1. k \in 0..(n - 1)
      BY <2>1
    <3> QED
      BY <2>1, <3>1
  <2>2. CASE k >= n
    BY <2>2
  <2> QED
    BY <2>1, <2>2
<1>2. U = Nat
  <2> HIDE DEF U
  <2> QED
    BY <1>1, <1>3, Inductively
<1>4. ASSUME NEW k \in 0..n PROVE k \in T
  <2>1. k \in U /\ ~ (k > n)
    BY <1>2
  <2> QED
    BY <2>1
<1> QED
  BY <1>4

(* Whatever folds as `step` does on the values of V goes through the numbers
   one by one, and stays in V. *)
FoldsWithin(V, z, n, base, step) ==
  /\ z[{}] = base
  /\ \A s \in SUBSET (1..n) :
       s # {} /\ z[s \ {Max(s)}] \in V => z[s] = step[<<z[s \ {Max(s)}], Max(s)>>]

Walks(h, n, base, step, end) ==
  /\ h[0] = base /\ end = h[n]
  /\ \A k \in 0..(n - 1) : h[k + 1] = step[<<h[k], k + 1>>]

(* Such a fold is the last of its values after each number. *)
LEMMA FoldIs ==
  ASSUME NEW n \in Nat, NEW V, NEW base \in V, NEW step \in [V \X (1..n) -> V],
         NEW z, FoldsWithin(V, z, n, base, step)
  PROVE  \E h \in [0..n -> V] : Walks(h, n, base, step, z[1..n])
<1> USE DEF FoldsWithin, Walks
<1>1. PICK h : h = [k \in 0..n |-> z[1..k]]
  OBVIOUS
<1>2. h[0] = base
  <2>1. 0 \in 0..n /\ 1..0 = {}
    OBVIOUS
  <2> QED
    BY <1>1, <2>1
<1>3. ASSUME NEW k \in 0..(n - 1), h[k] \in V
      PROVE  h[k + 1] = step[<<h[k], k + 1>>] /\ h[k + 1] \in V
  <2>1. h[k + 1] = z[1..(k + 1)] /\ h[k] = z[1..k] /\ k + 1 \in 1..n
    BY <1>1
  <2>2. PICK first \in SUBSET (1..n) :
          first = 1..(k + 1) /\ Max(first) = k + 1 /\ first # {} /\ first \ {k + 1} = 1..k
    BY Firsts
  <2>3. z[first] = step[<<z[1..k], k + 1>>]
    BY <1>3, <2>1, <2>2
  <2> QED
    BY <1>3, <2>1, <2>2, <2>3
<1>4. ASSUME NEW k \in 0..n PROVE h[k] \in V
  <2> DEFINE T == {m \in 0..n : h[m] \in V}
  <2>1. 0 \in T /\ T \in SUBSET (0..n)
    BY <1>2
  <2>2. ASSUME NEW m \in 0..(n - 1), m \in T PROVE m + 1 \in T
    <3>1. m + 1 \in 0..n
      OBVIOUS
    <3> QED
      BY <1>3, <2>2, <3>1
  <2> HIDE DEF T
  <2>3. T = 0..n
    BY <2>1, <2>2, Stepwise
  <2> QED
    BY <2>3 DEF T
<1>5. h \in [0..n -> V] /\ n \in 0..n /\ 0..(n - 1) \subseteq 0..n
  BY <1>1, <1>4
<1> QED
  BY <1>1, <1>2, <1>3, <1>5
=============================================================================
