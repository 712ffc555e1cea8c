------------------------- MODULE InputFormat_proofs -------------------------
(***************************************************************************)
(* What sortInts, uniqueInts and the loop over the button instances        *)
(* compute, for enumerations of any length and in any order.               *)
(*                                                                         *)
(* The loops are recursive functions over the indices of a list.  Their    *)
(* proofs are inductions; each is an instance of one principle about sets  *)
(* of numbers, which rests on the naturals being well-founded.             *)
(***************************************************************************)
EXTENDS InputFormat, FiniteSetTheorems, SequenceTheorems, WellFoundedInduction, TLAPS

-----------------------------------------------------------------------------
(* Induction *)

\* A set of naturals with a least element and the successors of its elements up
\* to n holds everything up to n.
LEMMA IntervalInduction ==
  ASSUME NEW n \in Nat, NEW P \in SUBSET (0 .. n), 0 \in P,
         \A i \in 1 .. n : i - 1 \in P => i \in P
  PROVE  P = 0 .. n
<1> DEFINE T == (0 .. n) \ P
           R == OpToRel(<, Nat)
<1>1. \A x, y \in Nat : <<x, y>> \in R <=> x < y
  BY Zenon DEF OpToRel
<1>2. IsWellFoundedOn(R, Nat)
  BY Zenon, NatLessThanWellFounded
<1> HIDE DEF R
<1> SUFFICES ASSUME T # {} PROVE FALSE
  OBVIOUS
<1>0. T \subseteq Nat
  OBVIOUS
<1>3. PICK x \in T : \A y \in T : ~ (<<y, x>> \in R)
  BY Zenon, <1>0, <1>2, WFMin
<1>4. \A y \in T : ~ (y < x)
  BY <1>0, <1>1, <1>3
<1>5. x \in 1 .. n /\ x - 1 \in 0 .. n /\ x - 1 < x
  BY <1>4
<1>6. x - 1 \in P
  BY <1>4, <1>5
<1> QED
  BY <1>4, <1>5, <1>6

\* f is the run of n steps from base.
Runs(n, base, step, f) == f[0] = base /\ \A i \in 1 .. n : f[i] = step[<<i, f[i - 1]>>]

\* A loop that steps n times from state to state has a run.
LEMMA LoopRuns ==
  ASSUME NEW S, NEW n \in Nat, NEW base \in S, NEW step \in [(1 .. n) \X S -> S]
  PROVE  \E f : f \in [0 .. n -> S] /\ Runs(n, base, step, f)
<1> DEFINE P == {k \in 0 .. n : \E f \in [0 .. k -> S] : Runs(k, base, step, f)}
<1>1. 0 \in P
  <2> DEFINE g == [i \in 0 .. 0 |-> base]
  <2>1. g \in [0 .. 0 -> S] /\ g[0] = base
    OBVIOUS
  <2> HIDE DEF g
  <2>2. Runs(0, base, step, g)
    BY <2>1 DEF Runs
  <2> QED
    BY <2>1, <2>2
<1>2. ASSUME NEW k \in 1 .. n, k - 1 \in P PROVE k \in P
  <2>1. PICK f \in [0 .. k - 1 -> S] : Runs(k - 1, base, step, f)
    BY <1>2
  <2> DEFINE g == [i \in 0 .. k |-> IF i < k THEN f[i] ELSE step[<<k, f[k - 1]>>]]
  <2>2. f[k - 1] \in S /\ step[<<k, f[k - 1]>>] \in S
    OBVIOUS
  <2>3. g \in [0 .. k -> S]
    BY <2>2
  <2>4. /\ \A i \in 0 .. k - 1 : g[i] = f[i]
        /\ g[k] = step[<<k, f[k - 1]>>]
    OBVIOUS
  <2> HIDE DEF g
  <2>5. ASSUME NEW i \in 1 .. k PROVE g[i] = step[<<i, g[i - 1]>>]
    <3>1. CASE i = k
      BY <2>4, <3>1
    <3>2. CASE i # k
      <4>1. i \in 1 .. k - 1 /\ i \in 0 .. k - 1 /\ i - 1 \in 0 .. k - 1
        BY <3>2
      <4> QED
        BY <2>1, <2>4, <4>1 DEF Runs
    <3> QED
      BY <3>1, <3>2
  <2>6. g[0] = base
    BY <2>1, <2>4 DEF Runs
  <2>7. Runs(k, base, step, g)
    BY <2>5, <2>6 DEF Runs
  <2> QED
    BY <2>3, <2>7
<1>3. P = 0 .. n
  <2> HIDE DEF P
  <2>1. P \subseteq 0 .. n
    BY DEF P
  <2> QED
    BY <1>1, <1>2, <2>1, IntervalInduction
<1>4. n \in P
  BY <1>3
<1> QED
  BY <1>4

\* Two loops that go on alike from the same state end in the same one.
LEMMA SameRun ==
  ASSUME NEW n \in Nat, NEW F, NEW f, F[0] = f[0],
         \A k \in 1 .. n : F[k - 1] = f[k - 1] => F[k] = f[k]
  PROVE  F[n] = f[n]
<1> DEFINE P == {k \in 0 .. n : F[k] = f[k]}
<1>1. /\ 0 \in 0 .. n /\ n \in 0 .. n
      /\ \A k \in 1 .. n : k \in 0 .. n /\ k - 1 \in 0 .. n
  OBVIOUS
<1>2. 0 \in P
  BY Zenon, <1>1
<1>3. ASSUME NEW k \in 1 .. n, k - 1 \in P PROVE k \in P
  BY Zenon, <1>1, <1>3
<1>4. P \subseteq 0 .. n
  OBVIOUS
<1>5. P = 0 .. n
  <2> HIDE DEF P
  <2> QED
    BY <1>2, <1>3, <1>4, IntervalInduction
<1> QED
  BY Zenon, <1>1, <1>5

-----------------------------------------------------------------------------
(* sortInts *)

\* The first k elements of a list: in order, without repetition, as a set.
Ordered(k, s) == \A i, j \in 1 .. k : i < j => s[i] <= s[j]
Ascends(k, s) == \A i, j \in 1 .. k : i < j => s[i] < s[j]
First(k, s)   == {s[i] : i \in 1 .. k}

\* Where x belongs among the n values of s, and what t is with x put there.
Belongs(n, s, x, p) == (p > 0 => s[p] <= x) /\ \A i \in p + 1 .. n : s[i] > x
Inserted(n, s, x, p, t) ==
    \A i \in 1 .. n + 1 : t[i] = IF i <= p THEN s[i] ELSE IF i = p + 1 THEN x ELSE s[i - 1]

\* The inner loop of sortInts stops somewhere.
LEMMA PlaceExists ==
  ASSUME NEW s \in Seq(Nat), NEW x \in Nat
  PROVE  \E p \in 0 .. Len(s) : Belongs(Len(s), s, x, p)
<1> DEFINE n == Len(s)
           Stops(k, p) == (p > 0 => s[p] <= x) /\ \A i \in p + 1 .. k : s[i] > x
           P == {k \in 0 .. n : \E p \in 0 .. k : Stops(k, p)}
<1>1. n \in Nat /\ \A i \in 1 .. n : s[i] \in Nat
  OBVIOUS
<1> HIDE DEF n
<1>2. 0 \in P
  <2>1. Stops(0, 0) /\ 0 \in 0 .. 0
    OBVIOUS
  <2> QED
    BY <1>1, <2>1
<1>3. ASSUME NEW k \in 1 .. n, k - 1 \in P PROVE k \in P
  <2>1. CASE s[k] <= x
    <3>1. Stops(k, k) /\ k \in 0 .. k
      BY <1>1, <2>1
    <3> QED
      BY <3>1, <1>1
  <2>2. CASE s[k] > x
    <3>1. PICK p \in 0 .. k - 1 : Stops(k - 1, p)
      BY <1>3
    <3>2. Stops(k, p) /\ p \in 0 .. k
      BY <2>2, <3>1, <1>1
    <3> QED
      BY <3>2, <1>1
  <2> QED
    BY <1>1, <2>1, <2>2
<1>4. P \subseteq 0 .. n
  OBVIOUS
<1>5. n \in P
  <2> HIDE DEF P
  <2> QED
    BY <1>1, <1>2, <1>3, <1>4, IntervalInduction
<1> QED
  BY <1>5 DEF n, Belongs

\* Moving the greater values up by one leaves room for x in the order.
LEMMA MovingUpSorts ==
  ASSUME NEW s \in Seq(Nat), NEW x \in Nat, NEW p \in 0 .. Len(s), Belongs(Len(s), s, x, p),
         NEW t \in Seq(Nat), Inserted(Len(s), s, x, p, t)
  PROVE  /\ Ordered(Len(s), s) => Ordered(Len(s) + 1, t)
         /\ First(Len(s) + 1, t) = First(Len(s), s) \cup {x}
<1> DEFINE n == Len(s)
<1>n. n \in Nat /\ p \in 0 .. n /\ \A i \in 1 .. n : s[i] \in Nat
  OBVIOUS
<1>0. (p > 0 => s[p] <= x) /\ \A i \in p + 1 .. n : s[i] > x
  BY DEF Belongs
<1>r. \A i \in 1 .. n + 1 : t[i] = IF i <= p THEN s[i] ELSE IF i = p + 1 THEN x ELSE s[i - 1]
  BY DEF Inserted
<1> HIDE DEF n
<1>1. /\ \A i \in 1 .. p : t[i] = s[i]
      /\ t[p + 1] = x
      /\ \A i \in p + 2 .. n + 1 : t[i] = s[i - 1]
  <2>1. /\ \A i \in 1 .. p : i \in 1 .. n + 1 /\ i <= p
        /\ p + 1 \in 1 .. n + 1 /\ ~ (p + 1 <= p)
        /\ \A i \in p + 2 .. n + 1 : i \in 1 .. n + 1 /\ ~ (i <= p) /\ i # p + 1
    BY <1>n
  <2> QED
    BY Zenon, <1>r, <2>1
<1>2. ASSUME Ordered(n, s) PROVE Ordered(n + 1, t)
  <2> SUFFICES ASSUME NEW i \in 1 .. n + 1, NEW j \in 1 .. n + 1, i < j PROVE t[i] <= t[j]
    BY DEF Ordered
  <2>1. \A k \in 1 .. p : s[k] <= x
    BY <1>n, <1>0, <1>2 DEF Ordered
  <2>2. CASE j <= p
    <3>1. i \in 1 .. p /\ j \in 1 .. p /\ i \in 1 .. n /\ j \in 1 .. n
      BY <1>n, <2>2
    <3>2. t[i] = s[i] /\ t[j] = s[j]
      BY Zenon, <1>1, <3>1
    <3> QED
      BY <1>2, <3>1, <3>2 DEF Ordered
  <2>3. CASE j = p + 1
    <3>1. i \in 1 .. p
      BY <1>n, <2>3
    <3>2. t[i] = s[i] /\ t[j] = x
      BY Zenon, <1>1, <2>3, <3>1
    <3> QED
      BY <2>1, <3>1, <3>2
  <2>4. CASE j > p + 1 /\ i <= p
    <3>1. j - 1 \in 1 .. n /\ i \in 1 .. n /\ i < j - 1 /\ t[i] = s[i] /\ t[j] = s[j - 1]
      BY <1>n, <1>1, <2>4
    <3> QED
      BY <1>n, <1>2, <3>1 DEF Ordered
  <2>5. CASE j > p + 1 /\ i = p + 1
    <3>1. j - 1 \in p + 1 .. n /\ t[j] = s[j - 1] /\ t[i] = x
      BY <1>n, <1>1, <2>5
    <3> QED
      BY <1>n, <1>0, <3>1
  <2>6. CASE j > p + 1 /\ i > p + 1
    <3>1. i - 1 \in 1 .. n /\ j - 1 \in 1 .. n /\ i - 1 < j - 1 /\ t[i] = s[i - 1] /\ t[j] = s[j - 1]
      BY <1>n, <1>1, <2>6
    <3> QED
      BY <1>n, <1>2, <3>1 DEF Ordered
  <2> QED
    BY <1>n, <2>2, <2>3, <2>4, <2>5, <2>6
<1>3. First(n + 1, t) = First(n, s) \cup {x}
  <2>1. ASSUME NEW i \in 1 .. n + 1 PROVE t[i] \in First(n, s) \cup {x}
    <3>1. i \in 1 .. p \/ i = p + 1 \/ (i \in p + 2 .. n + 1 /\ i - 1 \in 1 .. n)
      BY <1>n
    <3>2. CASE i \in 1 .. p
      <4>1. i \in 1 .. n /\ t[i] = s[i]
        BY <1>n, <1>1, <3>2
      <4> QED
        BY Zenon, <4>1 DEF First
    <3>3. CASE i = p + 1
      BY <1>n, <1>1, <3>3
    <3>4. CASE i \in p + 2 .. n + 1 /\ i - 1 \in 1 .. n
      <4>1. t[i] = s[i - 1]
        BY <1>n, <1>1, <3>4
      <4> QED
        BY Zenon, <3>4, <4>1 DEF First
    <3> QED
      BY <1>n, <3>1, <3>2, <3>3, <3>4
  <2>2. ASSUME NEW i \in 1 .. n PROVE s[i] \in First(n + 1, t)
    <3>1. CASE i <= p
      <4>1. i \in 1 .. n + 1 /\ t[i] = s[i]
        BY <1>n, <1>1, <3>1
      <4> QED
        BY <1>n, <4>1 DEF First
    <3>2. CASE i > p
      <4>1. i + 1 \in 1 .. n + 1 /\ t[i + 1] = s[(i + 1) - 1] /\ (i + 1) - 1 = i
        BY <1>n, <1>1, <3>2
      <4> QED
        BY <1>n, <4>1 DEF First
    <3> QED
      BY <1>n, <3>1, <3>2
  <2>3. x \in First(n + 1, t)
    <3>1. p + 1 \in 1 .. n + 1
      BY <1>n
    <3> QED
      BY <1>n, <1>1, <3>1 DEF First
  <2> QED
    BY <1>n, <2>1, <2>2, <2>3 DEF First
<1> QED
  BY Zenon, <1>2, <1>3 DEF n

\* InsertAt, element by element.
LEMMA InsertAtIs ==
  ASSUME NEW s \in Seq(Nat), NEW x \in Nat, NEW p \in 0 .. Len(s)
  PROVE  /\ InsertAt(s, p + 1, x) \in Seq(Nat)
         /\ Len(InsertAt(s, p + 1, x)) = Len(s) + 1
         /\ Inserted(Len(s), s, x, p, InsertAt(s, p + 1, x))
<1> DEFINE n == Len(s)
           t == InsertAt(s, p + 1, x)
<1>0. n \in Nat /\ p \in 0 .. n
  OBVIOUS
<1> DEFINE a == SubSeq(s, 1, p)
           b == a \o <<x>>
           c == SubSeq(s, p + 1, Len(s))
<1>1. a \in Seq(Nat) /\ Len(a) = p /\ \A i \in 1 .. p : a[i] = s[i]
  OBVIOUS
<1>2. c \in Seq(Nat) /\ Len(c) = n - p /\ \A i \in 1 .. n - p : c[i] = s[p + i]
  <2>1. p + 1 \in 1 .. n + 1 /\ \A i \in p + 1 .. n : s[i] \in Nat
    OBVIOUS
  <2>2. c \in Seq(Nat)
    BY <2>1
  <2>3. Len(c) = n - p
    BY <1>0, <2>1
  <2>4. ASSUME NEW i \in 1 .. n - p PROVE c[i] = s[p + i]
    BY <1>0, <2>1
  <2> QED
    BY Zenon, <2>2, <2>3, <2>4
<1>3. t = b \o c
  <2>1. (p + 1) - 1 = p
    OBVIOUS
  <2>2. t = (SubSeq(s, 1, (p + 1) - 1) \o <<x>>) \o SubSeq(s, p + 1, Len(s))
    BY Zenon DEF InsertAt
  <2> QED
    BY Zenon, <2>1, <2>2
<1> HIDE DEF a, c, t, n
<1>4. b \in Seq(Nat) /\ Len(b) = p + 1 /\ \A i \in 1 .. p + 1 : b[i] = IF i <= p THEN s[i] ELSE x
  BY <1>0, <1>1
<1> HIDE DEF b
<1>5. /\ t \in Seq(Nat) /\ Len(t) = Len(b) + Len(c)
      /\ \A i \in 1 .. Len(b) + Len(c) : t[i] = IF i <= Len(b) THEN b[i] ELSE c[i - Len(b)]
  <2>1. b \in Seq(Nat) /\ c \in Seq(Nat)
    BY <1>2, <1>4
  <2> QED
    BY Zenon, <1>3, <2>1, ConcatProperties
<1>6. t \in Seq(Nat) /\ Len(t) = n + 1
  BY <1>0, <1>2, <1>4, <1>5
<1>7. \A i \in 1 .. n + 1 : t[i] = IF i <= p + 1 THEN b[i] ELSE c[i - (p + 1)]
  BY <1>0, <1>2, <1>4, <1>5
<1>8. ASSUME NEW i \in p + 2 .. n + 1 PROVE t[i] = s[i - 1]
  <2>1. i - (p + 1) \in 1 .. n - p /\ i \in 1 .. n + 1 /\ ~ (i <= p + 1) /\ p + (i - (p + 1)) = i - 1
    BY <1>0
  <2>2. t[i] = c[i - (p + 1)]
    BY <1>7, <2>1
  <2> QED
    BY <1>2, <2>1, <2>2
<1>9. ASSUME NEW i \in 1 .. n + 1
      PROVE  t[i] = IF i <= p THEN s[i] ELSE IF i = p + 1 THEN x ELSE s[i - 1]
  <2>1. i \in 1 .. p + 1 \/ i \in p + 2 .. n + 1
    BY <1>0
  <2> QED
    BY <1>0, <1>4, <1>7, <1>8, <2>1
<1>10. Inserted(n, s, x, p, t)
  BY <1>9 DEF Inserted
<1> QED
  BY Zenon, <1>6, <1>10 DEF t, n

\* One pass of the outer loop puts one more value where it belongs.
LEMMA InsertSorts ==
  ASSUME NEW s \in Seq(Nat), NEW x \in Nat
  PROVE  /\ Insert(s, x) \in Seq(Nat) /\ Len(Insert(s, x)) = Len(s) + 1
         /\ Ordered(Len(s), s) => Ordered(Len(s) + 1, Insert(s, x))
         /\ First(Len(s) + 1, Insert(s, x)) = First(Len(s), s) \cup {x}
<1> DEFINE n == Len(s)
<1>1. \E p \in 0 .. n : Belongs(n, s, x, p) /\ Insert(s, x) = InsertAt(s, p + 1, x)
  <2> DEFINE p == CHOOSE q \in 0 .. Len(s) : (q > 0 => s[q] <= x) /\ \A i \in q + 1 .. Len(s) : s[i] > x
  <2>1. p = CHOOSE q \in 0 .. Len(s) : Belongs(Len(s), s, x, q)
    BY Zenon DEF Belongs
  <2>2. Insert(s, x) = InsertAt(s, p + 1, x)
    BY Zenon DEF Insert
  <2> HIDE DEF p
  <2>3. \E q \in 0 .. Len(s) : Belongs(Len(s), s, x, q)
    BY PlaceExists
  <2>4. p \in 0 .. Len(s) /\ Belongs(Len(s), s, x, p)
    BY Zenon, <2>1, <2>3
  <2> QED
    BY <2>2, <2>4
<1>2. PICK p \in 0 .. n : Belongs(n, s, x, p) /\ Insert(s, x) = InsertAt(s, p + 1, x)
  BY <1>1
<1> DEFINE t == Insert(s, x)
<1>3. /\ t \in Seq(Nat) /\ Len(t) = n + 1
      /\ Inserted(n, s, x, p, t)
  BY Zenon, <1>2, InsertAtIs
<1> HIDE DEF t
<1>4. (Ordered(n, s) => Ordered(n + 1, t)) /\ First(n + 1, t) = First(n, s) \cup {x}
  BY Zenon, <1>2, <1>3, MovingUpSorts
<1> QED
  BY Zenon, <1>3, <1>4 DEF t

\* The outer loop, pass by pass.
LEMMA SortIntsRuns ==
  ASSUME NEW v \in Seq(Nat)
  PROVE  \E f \in [0 .. Len(v) -> Seq(Nat)] :
             /\ f[0] = << >> /\ \A k \in 1 .. Len(v) : f[k] = Insert(f[k - 1], v[k])
             /\ SortInts(v) = f[Len(v)]
<1> DEFINE step == [q \in (1 .. Len(v)) \X Seq(Nat) |-> Insert(q[2], v[q[1]])]
<1>1. step \in [(1 .. Len(v)) \X Seq(Nat) -> Seq(Nat)]
  <2> SUFFICES ASSUME NEW q \in (1 .. Len(v)) \X Seq(Nat) PROVE Insert(q[2], v[q[1]]) \in Seq(Nat)
    OBVIOUS
  <2>1. q[2] \in Seq(Nat) /\ v[q[1]] \in Nat /\ Len(q[2]) \in Nat
    OBVIOUS
  <2> QED
    BY Zenon, <2>1, InsertSorts
<1>2. Len(v) \in Nat /\ << >> \in Seq(Nat)
  OBVIOUS
<1>3. PICK f : f \in [0 .. Len(v) -> Seq(Nat)] /\ Runs(Len(v), << >>, step, f)
  <2> HIDE DEF step
  <2> QED
    BY Zenon, <1>1, <1>2, LoopRuns
<1>4. ASSUME NEW k \in 1 .. Len(v) PROVE f[k] = Insert(f[k - 1], v[k])
  <2>0. k - 1 \in 0 .. Len(v)
    OBVIOUS
  <2>1. f[k - 1] \in Seq(Nat)
    BY Zenon, <1>3, <2>0
  <2>2. <<k, f[k - 1]>> \in (1 .. Len(v)) \X Seq(Nat)
    BY <2>1
  <2>3. step[<<k, f[k - 1]>>] = Insert(f[k - 1], v[k])
    BY <2>2
  <2> HIDE DEF step
  <2> QED
    BY Zenon, <1>3, <2>3 DEF Runs
<1>5. f[0] = << >>
  BY Zenon, <1>3 DEF Runs
<1>6. /\ \A n \in 0 .. Len(v) : n = 0 \/ n \in 1 .. Len(v)
      /\ ~ (0 \in 1 .. Len(v)) /\ 0 \in 0 .. Len(v) /\ Len(v) \in 0 .. Len(v)
      /\ \A n \in 1 .. Len(v) : n \in 0 .. Len(v) /\ n - 1 \in 0 .. Len(v)
  OBVIOUS
<1>7. f = [n \in 0 .. Len(v) |-> IF n = 0 THEN << >> ELSE Insert(f[n - 1], v[n])]
  <2>1. ASSUME NEW n \in 0 .. Len(v) PROVE f[n] = IF n = 0 THEN << >> ELSE Insert(f[n - 1], v[n])
    BY Zenon, <1>4, <1>5, <1>6
  <2> QED
    BY Zenon, <1>3, <2>1
<1>8. \E F : /\ F = [n \in 0 .. Len(v) |-> IF n = 0 THEN << >> ELSE Insert(F[n - 1], v[n])]
            /\ SortInts(v) = F[Len(v)]
  BY Zenon, <1>7 DEF SortInts
<1>9. PICK F : /\ F = [n \in 0 .. Len(v) |-> IF n = 0 THEN << >> ELSE Insert(F[n - 1], v[n])]
               /\ SortInts(v) = F[Len(v)]
  BY Zenon, <1>8
<1>10. \A k \in 0 .. Len(v) : F[k] = IF k = 0 THEN << >> ELSE Insert(F[k - 1], v[k])
  BY Zenon, <1>9
<1>11. F[0] = << >> /\ \A k \in 1 .. Len(v) : F[k] = Insert(F[k - 1], v[k])
  BY Zenon, <1>6, <1>10
<1>12. F[0] = f[0]
  BY Zenon, <1>5, <1>11
<1>13. ASSUME NEW k \in 1 .. Len(v), F[k - 1] = f[k - 1] PROVE F[k] = f[k]
  BY Zenon, <1>4, <1>11, <1>13
<1>14. F[Len(v)] = f[Len(v)]
  BY Zenon, <1>2, <1>12, <1>13, SameRun
<1> QED
  BY Zenon, <1>3, <1>4, <1>5, <1>9, <1>14

-----------------------------------------------------------------------------
(* uniqueInts and the button instances *)

\* What one turn of the loop of uniqueInts keeps, and of the one over buttons.
Keep(kept, x) == IF kept # << >> /\ kept[Len(kept)] = x THEN kept ELSE Append(kept, x)
Name(named, x) == IF x < MaxButtons THEN Append(named, x) ELSE named

\* What is appended to an ascending list must exceed what it holds.
LEMMA AppendAscends ==
  ASSUME NEW s \in Seq(Nat), NEW x \in Nat
  PROVE  /\ Append(s, x) \in Seq(Nat) /\ Len(Append(s, x)) = Len(s) + 1
         /\ Append(s, x)[Len(s) + 1] = x
         /\ First(Len(s) + 1, Append(s, x)) = First(Len(s), s) \cup {x}
         /\ (Ascends(Len(s), s) /\ \A y \in First(Len(s), s) : y < x)
                => Ascends(Len(s) + 1, Append(s, x))
<1> DEFINE n == Len(s)
           t == Append(s, x)
<1>1. /\ n \in Nat /\ t \in Seq(Nat) /\ Len(t) = n + 1 /\ t[n + 1] = x
      /\ \A i \in 1 .. n : t[i] = s[i] /\ s[i] \in Nat
  OBVIOUS
<1> HIDE DEF n, t
<1>2. First(n + 1, t) = First(n, s) \cup {x}
  <2>1. /\ \A i \in 1 .. n + 1 : i \in 1 .. n \/ i = n + 1
        /\ \A i \in 1 .. n : i \in 1 .. n + 1
        /\ n + 1 \in 1 .. n + 1
    BY <1>1
  <2> QED
    BY Zenon, <1>1, <2>1 DEF First
<1>3. ASSUME Ascends(n, s), \A y \in First(n, s) : y < x PROVE Ascends(n + 1, t)
  <2> SUFFICES ASSUME NEW i \in 1 .. n + 1, NEW j \in 1 .. n + 1, i < j PROVE t[i] < t[j]
    BY DEF Ascends
  <2>1. CASE j = n + 1
    <3>1. i \in 1 .. n
      BY <1>1, <2>1
    <3>2. s[i] < x
      BY Zenon, <1>3, <3>1 DEF First
    <3> QED
      BY Zenon, <1>1, <2>1, <3>1, <3>2
  <2>2. CASE j # n + 1
    <3>1. i \in 1 .. n /\ j \in 1 .. n
      BY <1>1, <2>2
    <3>2. s[i] < s[j]
      BY Zenon, <1>3, <3>1 DEF Ascends
    <3> QED
      BY Zenon, <1>1, <3>1, <3>2
  <2> QED
    BY <2>1, <2>2
<1> QED
  BY Zenon, <1>1, <1>2, <1>3 DEF n, t

LEMMA KeepType == ASSUME NEW s \in Seq(Nat), NEW x \in Nat PROVE Keep(s, x) \in Seq(Nat)
BY Zenon, AppendAscends DEF Keep

LEMMA NameType == ASSUME NEW s \in Seq(Nat), NEW x \in Nat PROVE Name(s, x) \in Seq(Nat)
BY Zenon, AppendAscends DEF Name

\* The loop of uniqueInts, value by value.
LEMMA UniqueIntsRuns ==
  ASSUME NEW v \in Seq(Nat)
  PROVE  \E f \in [0 .. Len(v) -> Seq(Nat)] :
             /\ f[0] = << >> /\ \A k \in 1 .. Len(v) : f[k] = Keep(f[k - 1], v[k])
             /\ UniqueInts(v) = f[Len(v)]
<1> DEFINE step == [q \in (1 .. Len(v)) \X Seq(Nat) |-> Keep(q[2], v[q[1]])]
<1>1. step \in [(1 .. Len(v)) \X Seq(Nat) -> Seq(Nat)]
  <2> SUFFICES ASSUME NEW q \in (1 .. Len(v)) \X Seq(Nat) PROVE Keep(q[2], v[q[1]]) \in Seq(Nat)
    OBVIOUS
  <2>1. q[2] \in Seq(Nat) /\ v[q[1]] \in Nat /\ Len(q[2]) \in Nat
    OBVIOUS
  <2> QED
    BY Zenon, <2>1, KeepType
<1>2. Len(v) \in Nat /\ << >> \in Seq(Nat)
  OBVIOUS
<1>3. PICK f : f \in [0 .. Len(v) -> Seq(Nat)] /\ Runs(Len(v), << >>, step, f)
  <2> HIDE DEF step
  <2> QED
    BY Zenon, <1>1, <1>2, LoopRuns
<1>4. ASSUME NEW k \in 1 .. Len(v) PROVE f[k] = Keep(f[k - 1], v[k])
  <2>0. k - 1 \in 0 .. Len(v)
    OBVIOUS
  <2>1. f[k - 1] \in Seq(Nat)
    BY Zenon, <1>3, <2>0
  <2>2. <<k, f[k - 1]>> \in (1 .. Len(v)) \X Seq(Nat)
    BY <2>1
  <2>3. step[<<k, f[k - 1]>>] = Keep(f[k - 1], v[k])
    BY <2>2
  <2> HIDE DEF step
  <2> QED
    BY Zenon, <1>3, <2>3 DEF Runs
<1>5. f[0] = << >>
  BY Zenon, <1>3 DEF Runs
<1>6. /\ \A n \in 0 .. Len(v) : n = 0 \/ n \in 1 .. Len(v)
      /\ ~ (0 \in 1 .. Len(v)) /\ 0 \in 0 .. Len(v) /\ Len(v) \in 0 .. Len(v)
      /\ \A n \in 1 .. Len(v) : n \in 0 .. Len(v) /\ n - 1 \in 0 .. Len(v)
  OBVIOUS
<1>7. f = [n \in 0 .. Len(v) |-> IF n = 0 THEN << >> ELSE Keep(f[n - 1], v[n])]
  <2>1. ASSUME NEW n \in 0 .. Len(v) PROVE f[n] = IF n = 0 THEN << >> ELSE Keep(f[n - 1], v[n])
    BY Zenon, <1>4, <1>5, <1>6
  <2> QED
    BY Zenon, <1>3, <2>1
<1>8. \E F : /\ F = [n \in 0 .. Len(v) |-> IF n = 0 THEN << >> ELSE Keep(F[n - 1], v[n])]
            /\ UniqueInts(v) = F[Len(v)]
  BY Zenon, <1>7 DEF UniqueInts, Keep
<1>9. PICK F : /\ F = [n \in 0 .. Len(v) |-> IF n = 0 THEN << >> ELSE Keep(F[n - 1], v[n])]
               /\ UniqueInts(v) = F[Len(v)]
  BY Zenon, <1>8
<1>10. \A k \in 0 .. Len(v) : F[k] = IF k = 0 THEN << >> ELSE Keep(F[k - 1], v[k])
  BY Zenon, <1>9
<1>11. F[0] = << >> /\ \A k \in 1 .. Len(v) : F[k] = Keep(F[k - 1], v[k])
  BY Zenon, <1>6, <1>10
<1>12. F[0] = f[0]
  BY Zenon, <1>5, <1>11
<1>13. ASSUME NEW k \in 1 .. Len(v), F[k - 1] = f[k - 1] PROVE F[k] = f[k]
  BY Zenon, <1>4, <1>11, <1>13
<1>14. F[Len(v)] = f[Len(v)]
  BY Zenon, <1>2, <1>12, <1>13, SameRun
<1> QED
  BY Zenon, <1>3, <1>4, <1>5, <1>9, <1>14

\* The loop over the button instances.
LEMMA ButtonsOfRuns ==
  ASSUME NEW v \in Seq(Nat)
  PROVE  \E f \in [0 .. Len(v) -> Seq(Nat)] :
             /\ f[0] = << >> /\ \A k \in 1 .. Len(v) : f[k] = Name(f[k - 1], v[k])
             /\ ButtonsOf(v) = f[Len(v)]
<1> DEFINE step == [q \in (1 .. Len(v)) \X Seq(Nat) |-> Name(q[2], v[q[1]])]
<1>1. step \in [(1 .. Len(v)) \X Seq(Nat) -> Seq(Nat)]
  <2> SUFFICES ASSUME NEW q \in (1 .. Len(v)) \X Seq(Nat) PROVE Name(q[2], v[q[1]]) \in Seq(Nat)
    OBVIOUS
  <2>1. q[2] \in Seq(Nat) /\ v[q[1]] \in Nat /\ Len(q[2]) \in Nat
    OBVIOUS
  <2> QED
    BY Zenon, <2>1, NameType
<1>2. Len(v) \in Nat /\ << >> \in Seq(Nat)
  OBVIOUS
<1>3. PICK f : f \in [0 .. Len(v) -> Seq(Nat)] /\ Runs(Len(v), << >>, step, f)
  <2> HIDE DEF step
  <2> QED
    BY Zenon, <1>1, <1>2, LoopRuns
<1>4. ASSUME NEW k \in 1 .. Len(v) PROVE f[k] = Name(f[k - 1], v[k])
  <2>0. k - 1 \in 0 .. Len(v)
    OBVIOUS
  <2>1. f[k - 1] \in Seq(Nat)
    BY Zenon, <1>3, <2>0
  <2>2. <<k, f[k - 1]>> \in (1 .. Len(v)) \X Seq(Nat)
    BY <2>1
  <2>3. step[<<k, f[k - 1]>>] = Name(f[k - 1], v[k])
    BY <2>2
  <2> HIDE DEF step
  <2> QED
    BY Zenon, <1>3, <2>3 DEF Runs
<1>5. f[0] = << >>
  BY Zenon, <1>3 DEF Runs
<1>6. /\ \A n \in 0 .. Len(v) : n = 0 \/ n \in 1 .. Len(v)
      /\ ~ (0 \in 1 .. Len(v)) /\ 0 \in 0 .. Len(v) /\ Len(v) \in 0 .. Len(v)
      /\ \A n \in 1 .. Len(v) : n \in 0 .. Len(v) /\ n - 1 \in 0 .. Len(v)
  OBVIOUS
<1>7. f = [n \in 0 .. Len(v) |-> IF n = 0 THEN << >> ELSE Name(f[n - 1], v[n])]
  <2>1. ASSUME NEW n \in 0 .. Len(v) PROVE f[n] = IF n = 0 THEN << >> ELSE Name(f[n - 1], v[n])
    BY Zenon, <1>4, <1>5, <1>6
  <2> QED
    BY Zenon, <1>3, <2>1
<1>8. \E F : /\ F = [n \in 0 .. Len(v) |-> IF n = 0 THEN << >> ELSE Name(F[n - 1], v[n])]
            /\ ButtonsOf(v) = F[Len(v)]
  BY Zenon, <1>7 DEF ButtonsOf, Name
<1>9. PICK F : /\ F = [n \in 0 .. Len(v) |-> IF n = 0 THEN << >> ELSE Name(F[n - 1], v[n])]
               /\ ButtonsOf(v) = F[Len(v)]
  BY Zenon, <1>8
<1>10. \A k \in 0 .. Len(v) : F[k] = IF k = 0 THEN << >> ELSE Name(F[k - 1], v[k])
  BY Zenon, <1>9
<1>11. F[0] = << >> /\ \A k \in 1 .. Len(v) : F[k] = Name(F[k - 1], v[k])
  BY Zenon, <1>6, <1>10
<1>12. F[0] = f[0]
  BY Zenon, <1>5, <1>11
<1>13. ASSUME NEW k \in 1 .. Len(v), F[k - 1] = f[k - 1] PROVE F[k] = f[k]
  BY Zenon, <1>4, <1>11, <1>13
<1>14. F[Len(v)] = f[Len(v)]
  BY Zenon, <1>2, <1>12, <1>13, SameRun
<1> QED
  BY Zenon, <1>3, <1>4, <1>5, <1>9, <1>14

-----------------------------------------------------------------------------
(* What the loops compute *)

\* One more value of a list.
LEMMA FirstGrows ==
  ASSUME NEW v, NEW k \in Nat \ {0}
  PROVE  First(k, v) = First(k - 1, v) \cup {v[k]}
<1>1. /\ \A i \in 1 .. k : i \in 1 .. k - 1 \/ i = k
      /\ \A i \in 1 .. k - 1 : i \in 1 .. k
      /\ k \in 1 .. k
  OBVIOUS
<1> QED
  BY Zenon, <1>1 DEF First

LEMMA FirstNone == ASSUME NEW v PROVE First(0, v) = {}
<1>1. 1 .. 0 = {}
  OBVIOUS
<1> QED
  BY Zenon, <1>1 DEF First

\* sortInts puts the values of a list in order, none lost and none added.
THEOREM SortIntsSorts ==
  ASSUME NEW v \in Seq(Nat)
  PROVE  /\ SortInts(v) \in Seq(Nat) /\ Len(SortInts(v)) = Len(v)
         /\ Ordered(Len(v), SortInts(v))
         /\ First(Len(v), SortInts(v)) = First(Len(v), v)
<1> DEFINE n == Len(v)
<1>1. n \in Nat /\ \A i \in 1 .. n : v[i] \in Nat
  OBVIOUS
<1>2. PICK f \in [0 .. n -> Seq(Nat)] :
          /\ f[0] = << >> /\ \A k \in 1 .. n : f[k] = Insert(f[k - 1], v[k])
          /\ SortInts(v) = f[n]
  BY Zenon, SortIntsRuns
<1> DEFINE Sorted(k) == Len(f[k]) = k /\ Ordered(k, f[k]) /\ First(k, f[k]) = First(k, v)
           P == {k \in 0 .. n : Sorted(k)}
<1>3. 0 \in P
  <2>1. Len(f[0]) = 0 /\ 0 \in 0 .. n
    BY <1>1, <1>2
  <2>2. Ordered(0, f[0])
    BY DEF Ordered
  <2> QED
    BY Zenon, <2>1, <2>2, FirstNone
<1>4. ASSUME NEW k \in 1 .. n, k - 1 \in P PROVE k \in P
  <2>1. k \in 0 .. n /\ k \in Nat \ {0} /\ k - 1 \in 0 .. n /\ k - 1 \in Nat /\ (k - 1) + 1 = k
    BY <1>1
  <2>2. f[k - 1] \in Seq(Nat) /\ v[k] \in Nat
    BY Zenon, <1>1, <2>1
  <2>3. /\ Len(f[k - 1]) = k - 1 /\ Ordered(k - 1, f[k - 1])
        /\ First(k - 1, f[k - 1]) = First(k - 1, v)
    BY Zenon, <1>4
  <2>4. f[k] = Insert(f[k - 1], v[k])
    BY Zenon, <1>2
  <2> HIDE DEF n
  <2>5. /\ Len(f[k]) = (k - 1) + 1 /\ Ordered((k - 1) + 1, f[k])
        /\ First((k - 1) + 1, f[k]) = First(k - 1, f[k - 1]) \cup {v[k]}
    BY Zenon, <2>1, <2>2, <2>3, <2>4, InsertSorts
  <2>6. First(k, v) = First(k - 1, v) \cup {v[k]}
    BY Zenon, <2>1, FirstGrows
  <2> QED
    BY Zenon, <2>1, <2>3, <2>5, <2>6
<1>5. P = 0 .. n
  <2>1. P \subseteq 0 .. n
    OBVIOUS
  <2> HIDE DEF P, n
  <2> QED
    BY <1>1, <1>3, <1>4, <2>1, IntervalInduction
<1>6. n \in 0 .. n
  BY <1>1
<1>7. Sorted(n) /\ f[n] \in Seq(Nat)
  BY Zenon, <1>2, <1>5, <1>6
<1> QED
  BY Zenon, <1>2, <1>7

\* uniqueInts of a list in order keeps each of its values once.
LEMMA UniqueIntsOfOrdered ==
  ASSUME NEW v \in Seq(Nat), Ordered(Len(v), v)
  PROVE  /\ UniqueInts(v) \in Seq(Nat)
         /\ Ascends(Len(UniqueInts(v)), UniqueInts(v))
         /\ First(Len(UniqueInts(v)), UniqueInts(v)) = First(Len(v), v)
<1> DEFINE n == Len(v)
<1>1. n \in Nat /\ \A i \in 1 .. n : v[i] \in Nat
  OBVIOUS
<1>2. PICK f \in [0 .. n -> Seq(Nat)] :
          /\ f[0] = << >> /\ \A k \in 1 .. n : f[k] = Keep(f[k - 1], v[k])
          /\ UniqueInts(v) = f[n]
  BY Zenon, UniqueIntsRuns
<1> DEFINE Kept(k, s) == /\ Ascends(Len(s), s) /\ First(Len(s), s) = First(k, v)
                         /\ k > 0 => Len(s) > 0 /\ s[Len(s)] = v[k]
           P == {k \in 0 .. n : Kept(k, f[k])}
<1>3. 0 \in P
  <2>1. Len(f[0]) = 0 /\ 0 \in 0 .. n
    BY <1>1, <1>2
  <2>2. Ascends(0, f[0]) /\ ~ (0 > 0)
    BY DEF Ascends
  <2> QED
    BY Zenon, <2>1, <2>2, FirstNone
<1>4. ASSUME NEW k \in 1 .. n, k - 1 \in P PROVE k \in P
  <2>1. k \in 0 .. n /\ k \in Nat \ {0} /\ k - 1 \in 0 .. n
    BY <1>1
  <2> DEFINE s == f[k - 1]
             x == v[k]
  <2>2. s \in Seq(Nat) /\ x \in Nat
    BY Zenon, <1>1, <2>1
  <2>3. Kept(k - 1, s)
    BY Zenon, <1>4
  <2>4. f[k] = Keep(s, x)
    BY Zenon, <1>2
  <2>5. First(k, v) = First(k - 1, v) \cup {x}
    BY Zenon, <2>1, FirstGrows
  <2>6. \A y \in First(k - 1, v) : y <= x /\ (k - 1 > 0 /\ v[k - 1] # x => y < x)
    <3> SUFFICES ASSUME NEW i \in 1 .. k - 1
                 PROVE  v[i] <= x /\ (k - 1 > 0 /\ v[k - 1] # x => v[i] < x)
      BY Zenon DEF First
    <3>1. i \in 1 .. n /\ k - 1 \in 1 .. n /\ k \in 1 .. n /\ i < k /\ k - 1 < k /\ (i = k - 1 \/ i < k - 1)
      BY <1>1
    <3>2. v[i] <= v[k] /\ v[k - 1] <= v[k] /\ (v[i] <= v[k - 1])
      BY <1>1, <3>1 DEF Ordered
    <3> QED
      BY <1>1, <3>1, <3>2
  <2> HIDE DEF s, x, n
  <2>7. CASE s # << >> /\ s[Len(s)] = x
    <3>1. f[k] = s /\ Len(s) \in Nat /\ Len(s) > 0
      BY <2>2, <2>4, <2>7 DEF Keep
    <3>2. x \in First(k - 1, v)
      <4>1. Len(s) \in 1 .. Len(s)
        BY <3>1
      <4> QED
        BY Zenon, <2>3, <2>7, <4>1 DEF First
    <3>3. First(Len(s), s) = First(k, v)
      BY Zenon, <2>3, <2>5, <3>2
    <3> QED
      BY Zenon, <2>1, <2>3, <2>7, <3>1, <3>3 DEF x
  <2>8. CASE ~ (s # << >> /\ s[Len(s)] = x)
    <3>1. f[k] = Append(s, x)
      BY Zenon, <2>4, <2>8 DEF Keep
    <3>2. \A y \in First(k - 1, v) : y < x
      <4>1. CASE k - 1 > 0
        <5>1. s # << >> /\ s[Len(s)] = v[k - 1]
          <6>1. Len(s) > 0 /\ s[Len(s)] = v[k - 1]
            BY Zenon, <2>3, <4>1
          <6> QED
            BY <2>2, <6>1
        <5> QED
          BY Zenon, <2>6, <2>8, <4>1, <5>1
      <4>2. CASE ~ (k - 1 > 0)
        <5>1. k - 1 = 0
          BY <2>1, <4>2
        <5> QED
          BY Zenon, <5>1, FirstNone
      <4> QED
        BY <4>1, <4>2
    <3>3. /\ Len(f[k]) = Len(s) + 1 /\ Ascends(Len(s) + 1, f[k]) /\ f[k][Len(s) + 1] = x
          /\ First(Len(s) + 1, f[k]) = First(Len(s), s) \cup {x}
      BY Zenon, <2>2, <2>3, <3>1, <3>2, AppendAscends
    <3>4. Len(s) + 1 > 0
      BY <2>2
    <3> QED
      BY Zenon, <2>1, <2>3, <2>5, <3>3, <3>4 DEF x
  <2> QED
    BY Zenon, <2>7, <2>8
<1>5. P = 0 .. n
  <2>1. P \subseteq 0 .. n
    OBVIOUS
  <2> HIDE DEF P, n
  <2> QED
    BY <1>1, <1>3, <1>4, <2>1, IntervalInduction
<1>6. n \in 0 .. n
  BY <1>1
<1>7. Kept(n, f[n]) /\ f[n] \in Seq(Nat)
  BY Zenon, <1>2, <1>5, <1>6
<1> QED
  BY Zenon, <1>2, <1>7

\* The values of a list are those of all its positions.
LEMMA AllOfIt == ASSUME NEW s \in Seq(Nat) PROVE ToSet(s) = First(Len(s), s)
<1>1. DOMAIN s = 1 .. Len(s)
  OBVIOUS
<1> QED
  BY Zenon, <1>1 DEF ToSet, First

\* The loop over the button instances finds all that can be named.
LEMMA ButtonsOfNames ==
  ASSUME NEW v \in Seq(Nat)
  PROVE  ButtonsOf(v) \in Seq(Nat) /\ ToSet(ButtonsOf(v)) = {b \in ToSet(v) : b < MaxButtons}
<1> DEFINE n == Len(v)
<1>1. n \in Nat /\ \A i \in 1 .. n : v[i] \in Nat
  OBVIOUS
<1>2. PICK f \in [0 .. n -> Seq(Nat)] :
          /\ f[0] = << >> /\ \A k \in 1 .. n : f[k] = Name(f[k - 1], v[k])
          /\ ButtonsOf(v) = f[n]
  BY Zenon, ButtonsOfRuns
<1> DEFINE Named(k, s) == First(Len(s), s) = {b \in First(k, v) : b < MaxButtons}
           P == {k \in 0 .. n : Named(k, f[k])}
<1>3. 0 \in P
  <2>1. Len(f[0]) = 0 /\ 0 \in 0 .. n
    BY <1>1, <1>2
  <2> QED
    BY Zenon, <2>1, FirstNone
<1>4. ASSUME NEW k \in 1 .. n, k - 1 \in P PROVE k \in P
  <2>1. k \in 0 .. n /\ k \in Nat \ {0} /\ k - 1 \in 0 .. n
    BY <1>1
  <2> DEFINE s == f[k - 1]
             x == v[k]
  <2>2. s \in Seq(Nat) /\ x \in Nat
    BY Zenon, <1>1, <2>1
  <2>3. Named(k - 1, s)
    BY Zenon, <1>4
  <2>4. f[k] = Name(s, x)
    BY Zenon, <1>2
  <2>5. First(k, v) = First(k - 1, v) \cup {x}
    BY Zenon, <2>1, FirstGrows
  <2> HIDE DEF s, x, n
  <2>6. CASE x < MaxButtons
    <3>1. f[k] = Append(s, x)
      BY Zenon, <2>4, <2>6 DEF Name
    <3>2. Len(f[k]) = Len(s) + 1 /\ First(Len(s) + 1, f[k]) = First(Len(s), s) \cup {x}
      BY Zenon, <2>2, <3>1, AppendAscends
    <3> QED
      BY Zenon, <2>1, <2>3, <2>5, <2>6, <3>2
  <2>7. CASE ~ (x < MaxButtons)
    <3>1. f[k] = s
      BY Zenon, <2>4, <2>7 DEF Name
    <3> QED
      BY Zenon, <2>1, <2>3, <2>5, <2>7, <3>1
  <2> QED
    BY Zenon, <2>6, <2>7
<1>5. P = 0 .. n
  <2>1. P \subseteq 0 .. n
    OBVIOUS
  <2> HIDE DEF P, n
  <2> QED
    BY <1>1, <1>3, <1>4, <2>1, IntervalInduction
<1>6. n \in 0 .. n
  BY <1>1
<1>7. Named(n, f[n]) /\ f[n] \in Seq(Nat)
  BY Zenon, <1>2, <1>5, <1>6
<1>8. First(Len(f[n]), f[n]) = ToSet(f[n]) /\ First(n, v) = ToSet(v)
  BY Zenon, <1>7, AllOfIt
<1> QED
  BY Zenon, <1>2, <1>7, <1>8

\* The button instances that can be named, of a list without repetition.
LEMMA ButtonsOfAscending ==
  ASSUME NEW v \in Seq(Nat), Ascends(Len(v), v)
  PROVE  /\ ButtonsOf(v) \in Seq(Nat)
         /\ Ascends(Len(ButtonsOf(v)), ButtonsOf(v))
         /\ First(Len(ButtonsOf(v)), ButtonsOf(v)) = {b \in First(Len(v), v) : b < MaxButtons}
<1> DEFINE n == Len(v)
<1>1. n \in Nat /\ \A i \in 1 .. n : v[i] \in Nat
  OBVIOUS
<1>2. PICK f \in [0 .. n -> Seq(Nat)] :
          /\ f[0] = << >> /\ \A k \in 1 .. n : f[k] = Name(f[k - 1], v[k])
          /\ ButtonsOf(v) = f[n]
  BY Zenon, ButtonsOfRuns
<1> DEFINE Named(k, s) == /\ Ascends(Len(s), s)
                          /\ First(Len(s), s) = {b \in First(k, v) : b < MaxButtons}
           P == {k \in 0 .. n : Named(k, f[k])}
<1>3. 0 \in P
  <2>1. Len(f[0]) = 0 /\ 0 \in 0 .. n
    BY <1>1, <1>2
  <2>2. Ascends(0, f[0])
    BY DEF Ascends
  <2> QED
    BY Zenon, <2>1, <2>2, FirstNone
<1>4. ASSUME NEW k \in 1 .. n, k - 1 \in P PROVE k \in P
  <2>1. k \in 0 .. n /\ k \in Nat \ {0} /\ k - 1 \in 0 .. n
    BY <1>1
  <2> DEFINE s == f[k - 1]
             x == v[k]
  <2>2. s \in Seq(Nat) /\ x \in Nat
    BY Zenon, <1>1, <2>1
  <2>3. Named(k - 1, s)
    BY Zenon, <1>4
  <2>4. f[k] = Name(s, x)
    BY Zenon, <1>2
  <2>5. First(k, v) = First(k - 1, v) \cup {x}
    BY Zenon, <2>1, FirstGrows
  <2>6. \A y \in First(k - 1, v) : y < x
    <3> SUFFICES ASSUME NEW i \in 1 .. k - 1 PROVE v[i] < x
      BY Zenon DEF First
    <3>1. i \in 1 .. n /\ k \in 1 .. n /\ i < k
      BY <1>1
    <3> QED
      BY Zenon, <3>1 DEF Ascends
  <2> HIDE DEF s, x, n
  <2>7. CASE x < MaxButtons
    <3>1. f[k] = Append(s, x)
      BY Zenon, <2>4, <2>7 DEF Name
    <3>2. /\ Len(f[k]) = Len(s) + 1 /\ Ascends(Len(s) + 1, f[k])
          /\ First(Len(s) + 1, f[k]) = First(Len(s), s) \cup {x}
      BY Zenon, <2>2, <2>3, <2>6, <3>1, AppendAscends
    <3> QED
      BY Zenon, <2>1, <2>3, <2>5, <2>7, <3>2
  <2>8. CASE ~ (x < MaxButtons)
    <3>1. f[k] = s
      BY Zenon, <2>4, <2>8 DEF Name
    <3> QED
      BY Zenon, <2>1, <2>3, <2>5, <2>8, <3>1
  <2> QED
    BY Zenon, <2>7, <2>8
<1>5. P = 0 .. n
  <2>1. P \subseteq 0 .. n
    OBVIOUS
  <2> HIDE DEF P, n
  <2> QED
    BY <1>1, <1>3, <1>4, <2>1, IntervalInduction
<1>6. n \in 0 .. n
  BY <1>1
<1>7. Named(n, f[n]) /\ f[n] \in Seq(Nat)
  BY Zenon, <1>2, <1>5, <1>6
<1> QED
  BY Zenon, <1>2, <1>7

-----------------------------------------------------------------------------
(* The lists of a device *)

\* AtMost keeps the front of a list.
LEMMA AtMostIs ==
  ASSUME NEW s \in Seq(Nat), NEW n \in Nat
  PROVE  /\ AtMost(n, s) \in Seq(Nat)
         /\ Len(AtMost(n, s)) = IF Len(s) <= n THEN Len(s) ELSE n
         /\ \A i \in 1 .. Len(AtMost(n, s)) : AtMost(n, s)[i] = s[i]
<1>1. CASE Len(s) <= n
  BY <1>1 DEF AtMost
<1>2. CASE ~ (Len(s) <= n)
  <2>1. /\ SubSeq(s, 1, n) \in Seq(Nat) /\ Len(SubSeq(s, 1, n)) = n
        /\ \A i \in 1 .. n : SubSeq(s, 1, n)[i] = s[i]
    BY <1>2
  <2>2. AtMost(n, s) = SubSeq(s, 1, n)
    BY Zenon, <1>2 DEF AtMost
  <2> QED
    BY Zenon, <1>2, <2>1, <2>2
<1> QED
  BY Zenon, <1>1, <1>2

\* The i-th of increasing naturals is at least i - 1.
LEMMA AscendingAtLeast ==
  ASSUME NEW s \in Seq(Nat), Ascends(Len(s), s), NEW i \in 1 .. Len(s)
  PROVE  s[i] >= i - 1
<1> DEFINE n == Len(s)
           P == {k \in 0 .. n : k > 0 => s[k] >= k - 1}
<1>1. n \in Nat /\ i \in 1 .. n /\ \A k \in 1 .. n : s[k] \in Nat
  OBVIOUS
<1>2. \A k, j \in 1 .. n : k < j => s[k] < s[j]
  BY Zenon DEF Ascends
<1> HIDE DEF n
<1>3. 0 \in P
  BY <1>1
<1>4. ASSUME NEW k \in 1 .. n, k - 1 \in P PROVE k \in P
  <2>1. CASE k = 1
    BY <1>1, <2>1
  <2>2. CASE k # 1
    <3>1. k - 1 \in 1 .. n /\ k - 1 > 0 /\ k - 1 < k /\ k \in 0 .. n
      BY <1>1, <2>2
    <3>2. s[k - 1] >= (k - 1) - 1 /\ s[k - 1] < s[k] /\ s[k - 1] \in Nat /\ s[k] \in Nat
      BY <1>1, <1>2, <1>4, <3>1
    <3>3. s[k] >= k - 1
      BY <3>2
    <3> QED
      BY <3>1, <3>3
  <2> QED
    BY <2>1, <2>2
<1>5. P = 0 .. n
  <2>1. P \subseteq 0 .. n
    OBVIOUS
  <2> HIDE DEF P
  <2> QED
    BY <1>1, <1>3, <1>4, <2>1, IntervalInduction
<1>6. i \in 0 .. n /\ i > 0
  BY <1>1
<1> QED
  BY Zenon, <1>5, <1>6

\* A list without repetition is as long as its values are many.
LEMMA AscendingLength ==
  ASSUME NEW s \in Seq(Nat), Ascends(Len(s), s)
  PROVE  Cardinality(First(Len(s), s)) = Len(s)
<1> DEFINE n == Len(s)
           S == First(n, s)
           f == [i \in 1 .. n |-> s[i]]
<1>1. n \in Nat /\ \A i \in 1 .. n : s[i] \in Nat
  OBVIOUS
<1>2. f \in [1 .. n -> S] /\ \A y \in S : \E i \in 1 .. n : f[i] = y
  BY Zenon DEF First
<1>3. ASSUME NEW i \in 1 .. n, NEW j \in 1 .. n, f[i] = f[j] PROVE i = j
  <2>1. s[i] = s[j] /\ s[i] \in Nat
    BY Zenon, <1>1, <1>3
  <2>2. /\ \A k, l \in 1 .. n : k < l => s[k] < s[l]
    BY Zenon DEF Ascends
  <2> HIDE DEF n
  <2>3. ~ (i < j) /\ ~ (j < i)
    BY <1>1, <2>1, <2>2
  <2> QED
    BY <1>1, <2>3
<1>4. ExistsBijection(1 .. n, S)
  <2> HIDE DEF f, S, n
  <2>1. f \in Bijection(1 .. n, S)
    BY Zenon, <1>2, <1>3 DEF Bijection, Injection, Surjection, IsInjective
  <2> QED
    BY Zenon, <2>1 DEF ExistsBijection
<1> HIDE DEF n, S
<1>5. Cardinality(S) = n
  BY Zenon, <1>1, <1>4, FS_CountingElements
<1> QED
  BY Zenon, <1>5 DEF n, S

\* The instances of one kind, in order and without repetition.
LEMMA ListIs ==
  ASSUME NEW v \in Seq(Nat), NEW s, s = UniqueInts(SortInts(v))
  PROVE  s \in Seq(Nat) /\ Ascends(Len(s), s) /\ First(Len(s), s) = ToSet(v)
<1> DEFINE t == SortInts(v)
<1>1. t \in Seq(Nat) /\ Ordered(Len(t), t) /\ First(Len(t), t) = ToSet(v)
  BY Zenon, SortIntsSorts, AllOfIt
<1>2. s = UniqueInts(t)
  OBVIOUS
<1> HIDE DEF t
<1> QED
  BY Zenon, <1>1, <1>2, UniqueIntsOfOrdered

\* The front of a list without repetition is one itself.
LEMMA FrontAscends ==
  ASSUME NEW s \in Seq(Nat), Ascends(Len(s), s), NEW n \in Nat
  PROVE  Ascends(Len(AtMost(n, s)), AtMost(n, s))
<1> DEFINE t == AtMost(n, s)
<1>1. /\ Len(s) \in Nat /\ Len(t) = IF Len(s) <= n THEN Len(s) ELSE n
      /\ \A i \in 1 .. Len(t) : t[i] = s[i]
  BY AtMostIs
<1> HIDE DEF t
<1>2. \A i \in 1 .. Len(t) : i \in 1 .. Len(s)
  BY <1>1
<1> QED
  BY Zenon, <1>1, <1>2 DEF Ascends, t

\* The buttons of a device are those of its button instances that can be named:
\* neither cutting the list at MaxButtons nor looking twice loses one of them.
THEOREM ButtonListIs ==
  ASSUME NEW e \in Enumeration, NEW bs, bs = ButtonList(e)
  PROVE  /\ bs \in Seq(0 .. MaxButtons - 1) /\ Len(bs) <= MaxButtons
         /\ Ascends(Len(bs), bs) /\ ToSet(bs) = {b \in ToSet(e.buttons) : b < MaxButtons}
<1> DEFINE listed == EnumButtons(e)
           s == UniqueInts(SortInts(listed))
           t == AtMost(MaxButtons, s)
           n == Len(s)
<1>0. MaxButtons \in Nat /\ e.buttons \in Seq(Nat)
  BY FormatAssumption DEF Enumeration
<1>13. listed \in Seq(Nat) /\ ToSet(listed) = {b \in ToSet(e.buttons) : b < MaxButtons}
  BY Zenon, <1>0, ButtonsOfNames DEF EnumButtons
<1>1. s \in Seq(Nat) /\ Ascends(n, s) /\ First(n, s) = ToSet(listed)
  BY Zenon, <1>13, ListIs
<1>2. bs = ButtonsOf(t)
  BY Zenon DEF ButtonList
<1> HIDE DEF s, listed
<1>3. /\ t \in Seq(Nat) /\ Len(t) = IF n <= MaxButtons THEN n ELSE MaxButtons
      /\ \A i \in 1 .. Len(t) : t[i] = s[i]
  BY Zenon, <1>0, <1>1, AtMostIs
<1>4. Ascends(Len(t), t)
  BY Zenon, <1>0, <1>1, FrontAscends
<1> HIDE DEF t
<1>5. /\ bs \in Seq(Nat) /\ Ascends(Len(bs), bs)
      /\ First(Len(bs), bs) = {b \in First(Len(t), t) : b < MaxButtons}
  BY Zenon, <1>2, <1>3, <1>4, ButtonsOfAscending
<1>6. n \in Nat /\ \A i \in 1 .. n : s[i] \in Nat
  BY <1>1
<1>7. \A i \in 1 .. n : s[i] >= i - 1
  BY Zenon, <1>1, AscendingAtLeast
<1> HIDE DEF n
<1>8. {b \in First(Len(t), t) : b < MaxButtons} = {b \in First(n, s) : b < MaxButtons}
  <2>1. ASSUME NEW i \in 1 .. n, s[i] < MaxButtons PROVE i \in 1 .. Len(t) /\ t[i] = s[i]
    <3>1. i <= MaxButtons
      BY <1>0, <1>6, <1>7, <2>1
    <3>2. i \in 1 .. Len(t)
      BY <1>0, <1>3, <1>6, <3>1
    <3> QED
      BY Zenon, <1>3, <3>2
  <2>2. ASSUME NEW i \in 1 .. Len(t) PROVE i \in 1 .. n /\ t[i] = s[i]
    <3>1. i \in 1 .. n
      BY <1>0, <1>3, <1>6
    <3> QED
      BY Zenon, <1>3, <3>1
  <2> QED
    BY Zenon, <2>1, <2>2 DEF First
<1>9. ToSet(bs) = {b \in ToSet(e.buttons) : b < MaxButtons}
  BY Zenon, <1>1, <1>5, <1>8, <1>13, AllOfIt
<1>10. ASSUME NEW i \in 1 .. Len(bs) PROVE bs[i] \in Nat /\ bs[i] < MaxButtons /\ i <= MaxButtons
  <2>1. bs[i] \in Nat
    BY <1>5
  <2>2. bs[i] < MaxButtons
    BY Zenon, <1>5 DEF First
  <2>3. bs[i] >= i - 1
    BY Zenon, <1>5, AscendingAtLeast
  <2>4. i \in Int
    OBVIOUS
  <2> QED
    BY <1>0, <2>1, <2>2, <2>3, <2>4
<1>11. Len(bs) <= MaxButtons
  <2>1. Len(bs) \in Nat
    BY <1>5
  <2>2. CASE Len(bs) = 0
    BY <1>0, <2>2
  <2>3. CASE Len(bs) # 0
    <3>1. Len(bs) \in 1 .. Len(bs)
      BY <2>1, <2>3
    <3> QED
      BY Zenon, <1>10, <3>1
  <2> QED
    BY <2>2, <2>3
<1>12. bs \in Seq(0 .. MaxButtons - 1)
  <2>1. \A i \in 1 .. Len(bs) : bs[i] \in 0 .. MaxButtons - 1
    BY <1>0, <1>10
  <2>2. Len(bs) \in Nat /\ bs = [i \in 1 .. Len(bs) |-> bs[i]]
    BY <1>5
  <2>3. bs \in [1 .. Len(bs) -> 0 .. MaxButtons - 1]
    BY Zenon, <2>1, <2>2
  <2>4. \E k \in Nat : bs \in [1 .. k -> 0 .. MaxButtons - 1]
    BY Zenon, <2>2, <2>3
  <2> QED
    BY Zenon, <2>4, SeqDef
<1> QED
  BY Zenon, <1>5, <1>9, <1>11, <1>12

\* The axes of a device are its lowest axis instances, as many as are used.
THEOREM AxesAre ==
  ASSUME NEW e \in Enumeration, NEW xs, xs = AtMost(MaxAxes, AxisList(e))
  PROVE  /\ xs \in Seq(Nat) /\ Len(xs) <= MaxAxes /\ Ascends(Len(xs), xs)
         /\ ToSet(xs) \subseteq ToSet(e.axes)
         /\ Len(xs) = IF Cardinality(ToSet(e.axes)) < MaxAxes
                      THEN Cardinality(ToSet(e.axes)) ELSE MaxAxes
         /\ \A a \in ToSet(xs), x \in ToSet(e.axes) \ ToSet(xs) : a < x
<1> DEFINE s == UniqueInts(SortInts(e.axes))
           n == Len(s)
<1>0. MaxAxes \in Nat /\ e.axes \in Seq(Nat)
  BY FormatAssumption DEF Enumeration
<1>1. s \in Seq(Nat) /\ Ascends(n, s) /\ First(n, s) = ToSet(e.axes)
  BY Zenon, <1>0, ListIs
<1>2. xs = AtMost(MaxAxes, s)
  BY Zenon DEF AxisList
<1> HIDE DEF s
<1>3. /\ xs \in Seq(Nat) /\ Len(xs) = IF n <= MaxAxes THEN n ELSE MaxAxes
      /\ \A i \in 1 .. Len(xs) : xs[i] = s[i]
  <2> DEFINE t == AtMost(MaxAxes, s)
  <2>1. /\ t \in Seq(Nat) /\ Len(t) = IF n <= MaxAxes THEN n ELSE MaxAxes
        /\ \A i \in 1 .. Len(t) : t[i] = s[i]
    BY Zenon, <1>0, <1>1, AtMostIs
  <2>2. xs = t
    BY <1>2
  <2> HIDE DEF t
  <2> QED
    BY Zenon, <2>1, <2>2
<1>4. Ascends(Len(xs), xs)
  BY Zenon, <1>0, <1>1, <1>2, FrontAscends
<1>5. n \in Nat /\ Cardinality(ToSet(e.axes)) = n
  <2>1. Cardinality(First(n, s)) = n
    BY Zenon, <1>1, AscendingLength
  <2>2. n \in Nat
    BY <1>1
  <2> QED
    BY Zenon, <1>1, <2>1, <2>2
<1> HIDE DEF n
<1>6. \A i \in 1 .. Len(xs) : i \in 1 .. n /\ xs[i] = s[i]
  <2>1. \A i \in 1 .. Len(xs) : i \in 1 .. n
    BY <1>0, <1>3, <1>5
  <2> QED
    BY Zenon, <1>3, <2>1
<1>7. ToSet(xs) = First(Len(xs), xs)
  BY Zenon, <1>3, AllOfIt
<1>8. ToSet(xs) \subseteq ToSet(e.axes)
  BY Zenon, <1>1, <1>6, <1>7 DEF First
<1>9. ASSUME NEW a \in ToSet(xs), NEW x \in ToSet(e.axes) \ ToSet(xs) PROVE a < x
  <2>1. PICK i \in 1 .. Len(xs) : a = xs[i]
    BY Zenon, <1>7 DEF First
  <2>2. PICK j \in 1 .. n : x = s[j]
    BY Zenon, <1>1 DEF First
  <2>3. ~ (j \in 1 .. Len(xs))
    <3> SUFFICES ASSUME j \in 1 .. Len(xs) PROVE FALSE
      OBVIOUS
    <3>1. x = xs[j]
      BY Zenon, <1>6, <2>2
    <3> QED
      BY Zenon, <1>7, <3>1 DEF First
  <2>4. i < j
    BY <1>0, <1>3, <1>5, <2>3
  <2>5. i \in 1 .. n /\ a = s[i]
    BY Zenon, <1>6, <2>1
  <2> QED
    BY Zenon, <1>1, <2>2, <2>4, <2>5 DEF Ascends
<1>10. Len(xs) <= MaxAxes
  BY <1>0, <1>3, <1>5
<1>11. Len(xs) = IF n < MaxAxes THEN n ELSE MaxAxes
  BY <1>0, <1>3, <1>5
<1> QED
  BY Zenon, <1>3, <1>4, <1>5, <1>8, <1>9, <1>10, <1>11

=============================================================================
