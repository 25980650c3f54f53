---------------------------- MODULE InputsProofs ----------------------------
(***************************************************************************)
(* Theorems about module Inputs, for any sizes of buffers, counters, ints  *)
(* and texts: messages of the cloud are handled once, in order, and none   *)
(* is lost because of its neighbours; the statistics are those of the      *)
(* kernel; ids come back; the report says how it stands with the cloud.    *)
(*                                                                         *)
(* Loops and recursive conversions are functions on Nat.  That there are   *)
(* such functions, and what they compute, is proved by induction, which is *)
(* drawn from the fact that every set of naturals has a least element.     *)
(***************************************************************************)
EXTENDS Inputs, TLAPS, WellFoundedInduction, SequenceTheorems

(***************************************************************************)
(* Induction and recursion, with sets and functions for the predicates and *)
(* operators of the library's theorems.                                    *)
(***************************************************************************)
LEMMA Least ==
    ASSUME NEW S \in SUBSET Nat, S # {}
    PROVE  \E m \in S : \A k \in S : m <= k
  <1>1. \E m \in S : \A k \in S : ~ (<<k, m>> \in OpToRel(<, Nat))
    BY WFMin, NatLessThanWellFounded, Zenon
  <1>2. PICK m \in S : \A k \in S : ~ (<<k, m>> \in OpToRel(<, Nat))
    BY <1>1
  <1>3. ASSUME NEW k \in S PROVE m <= k
    <2>1. k \in Nat /\ m \in Nat
      OBVIOUS
    <2>2. ~ (k < m)
      BY <1>2, <2>1, Zenon DEF OpToRel
    <2> QED
      BY <2>1, <2>2
  <1> QED
    BY <1>3

LEMMA MinIsLeast ==
    ASSUME NEW S \in SUBSET Nat, S # {}
    PROVE  Min(S) \in S /\ \A k \in S : Min(S) <= k
  BY Least DEF Min

LEMMA Induction ==
    ASSUME NEW S, 0 \in S, \A n \in Nat : n \in S => n + 1 \in S
    PROVE  Nat \subseteq S
  <1> SUFFICES ASSUME Nat \ S # {} PROVE FALSE
    OBVIOUS
  <1>1. PICK m \in Nat \ S : \A k \in Nat \ S : m <= k
    BY Least
  <1>2. m - 1 \in Nat /\ m - 1 \in S
    BY <1>1
  <1> QED
    BY <1>1, <1>2

\* The first n + 1 values of the function that starts with a and goes on by F.
Begin(V, a, F, n) ==
    {g \in [0..n -> V] : g[0] = a /\ \A i \in 0..n - 1 : g[i + 1] = F[i][g[i]]}

Goes(f, V, a, F) == f \in [Nat -> V] /\ f[0] = a /\ \A n \in Nat : f[n + 1] = F[n][f[n]]

LEMMA Recursion ==
    \A V, a, F : a \in V /\ F \in [Nat -> [V -> V]] => \E f : Goes(f, V, a, F)
  <1> SUFFICES ASSUME NEW V, NEW a \in V, NEW F \in [Nat -> [V -> V]]
               PROVE  \E f : Goes(f, V, a, F)
    OBVIOUS
  <1>1. \A n \in Nat : Begin(V, a, F, n) # {}
    <2> DEFINE S == {n \in Nat : Begin(V, a, F, n) # {}}
    <2>1. 0 \in S
      <3>1. [i \in 0..0 |-> a] \in Begin(V, a, F, 0)
        BY DEF Begin
      <3> QED
        BY <3>1
    <2>2. ASSUME NEW n \in Nat, n \in S PROVE n + 1 \in S
      <3>1. PICK g \in Begin(V, a, F, n) : TRUE
        BY <2>2
      <3>2. g \in [0..n -> V] /\ g[0] = a /\ \A i \in 0..n - 1 : g[i + 1] = F[i][g[i]]
        BY <3>1 DEF Begin
      <3>3. PICK h : h = [i \in 0..n + 1 |-> IF i = n + 1 THEN F[n][g[n]] ELSE g[i]]
        OBVIOUS
      <3>4. h \in [0..n + 1 -> V] /\ h[0] = a
        BY <3>2, <3>3
      <3>5. ASSUME NEW i \in 0..n PROVE h[i + 1] = F[i][h[i]]
        BY <3>2, <3>3
      <3>6. h \in Begin(V, a, F, n + 1)
        BY <3>4, <3>5 DEF Begin
      <3> QED
        BY <3>6
    <2> HIDE DEF S
    <2>3. Nat \subseteq S
      BY <2>1, <2>2, Induction
    <2> QED
      BY <2>3 DEF S
  <1>2. \A n, m \in Nat : \A g \in Begin(V, a, F, n), h \in Begin(V, a, F, m) :
           \A i \in Nat : i <= n /\ i <= m => g[i] = h[i]
    <2> SUFFICES ASSUME NEW n \in Nat, NEW m \in Nat,
                        NEW g \in Begin(V, a, F, n), NEW h \in Begin(V, a, F, m)
                 PROVE  \A i \in Nat : i <= n /\ i <= m => g[i] = h[i]
      OBVIOUS
    <2> DEFINE S == {i \in Nat : i <= n /\ i <= m => g[i] = h[i]}
    <2>1. 0 \in S
      BY DEF Begin
    <2>2. ASSUME NEW i \in Nat, i \in S PROVE i + 1 \in S
      BY <2>2 DEF Begin
    <2> HIDE DEF S
    <2>3. Nat \subseteq S
      BY <2>1, <2>2, Induction
    <2> QED
      BY <2>3 DEF S
  <1> DEFINE G(n) == CHOOSE g \in Begin(V, a, F, n) : TRUE
             f == [n \in Nat |-> G(n)[n]]
  <1>3. \A n \in Nat : G(n) \in Begin(V, a, F, n)
    BY <1>1
  <1> HIDE DEF G
  <1>4. f \in [Nat -> V] /\ f[0] = a
    BY <1>3 DEF Begin
  <1>5. ASSUME NEW n \in Nat PROVE f[n + 1] = F[n][f[n]]
    <2>1. G(n + 1)[n] = G(n)[n]
      BY <1>2, <1>3
    <2>2. G(n + 1)[n + 1] = F[n][G(n + 1)[n]]
      BY <1>3 DEF Begin
    <2> QED
      BY <2>1, <2>2
  <1> QED
    BY <1>4, <1>5 DEF Goes
-----------------------------------------------------------------------------
(***************************************************************************)
(* Ids: what Atoi and FormatInt compute.                                   *)
(***************************************************************************)
Figures == 0..9

LEMMA WrappedInts ==
    \A n \in Int : Wrapped(n) \in Int /\ (n \in 0..MaxInt => Wrapped(n) = n)
  <1> SUFFICES ASSUME NEW n \in Int
               PROVE  Wrapped(n) \in Int /\ (n \in 0..MaxInt => Wrapped(n) = n)
    OBVIOUS
  <1>1. MaxInt \in Nat /\ Ints \in Nat \ {0} /\ MaxInt + 1 <= Ints
    BY IdsAssumption DEF Ints
  <1>2. (n + MaxInt + 1) % Ints \in Int
    BY <1>1
  <1>3. ASSUME n \in 0..MaxInt PROVE (n + MaxInt + 1) % Ints = n + MaxInt + 1
    <2>1. n + MaxInt + 1 \in Nat /\ n + MaxInt + 1 < Ints
      BY <1>1, <1>3 DEF Ints
    <2> QED
      BY <1>1, <2>1
  <1> QED
    BY <1>1, <1>2, <1>3 DEF Wrapped

\* The loop of Atoi (message.go:53-60) computes what it says.
LEMMA ReadIs ==
    ASSUME NEW b \in Seq(Nat)
    PROVE  /\ Read(b) \in [0..Len(b) -> Int] /\ Read(b)[0] = 0
           /\ \A k \in 0..Len(b) - 1 : Read(b)[k + 1] = Wrapped(Wrapped(Read(b)[k] * 10) + b[k + 1])
  <1>1. PICK step : step = [k \in Nat |-> [v \in Int |->
                       IF k < Len(b) THEN Wrapped(Wrapped(v * 10) + b[k + 1]) ELSE 0]]
    OBVIOUS
  <1>2. ASSUME NEW k \in Nat, NEW v \in Int, k < Len(b)
        PROVE  Wrapped(Wrapped(v * 10) + b[k + 1]) \in Int
    <2>1. b[k + 1] \in Nat
      BY <1>2
    <2>2. v * 10 \in Int
      OBVIOUS
    <2>3. Wrapped(v * 10) \in Int
      BY <2>2, WrappedInts
    <2>4. Wrapped(v * 10) + b[k + 1] \in Int
      BY <2>1, <2>3
    <2> QED
      BY <2>4, WrappedInts
  <1>3. step \in [Nat -> [Int -> Int]]
    BY <1>1, <1>2
  <1>4. PICK f : Goes(f, Int, 0, step)
    BY <1>3, 0 \in Int, Recursion, Zenon
  <1>5. ASSUME NEW k \in 0..Len(b), k # 0
        PROVE  f[k] = Wrapped(Wrapped(f[k - 1] * 10) + b[k])
    <2>1. k - 1 \in Nat /\ (k - 1) + 1 = k /\ k - 1 < Len(b)
      BY <1>5
    <2>2. f[k] = step[k - 1][f[k - 1]] /\ f[k - 1] \in Int
      BY <1>4, <2>1 DEF Goes
    <2> QED
      BY <1>1, <2>1, <2>2
  <1> DEFINE Right(i) == i = [k \in 0..Len(b) |-> IF k = 0 THEN 0 ELSE Wrapped(Wrapped(i[k - 1] * 10) + b[k])]
  <1>6. PICK g : g = [k \in 0..Len(b) |-> f[k]]
    OBVIOUS
  <1>7. Right(g)
    <2>1. ASSUME NEW k \in 0..Len(b)
          PROVE  g[k] = IF k = 0 THEN 0 ELSE Wrapped(Wrapped(g[k - 1] * 10) + b[k])
      <3>1. CASE k = 0
        BY <1>4, <1>6, <3>1 DEF Goes
      <3>2. CASE k # 0
        <4>1. k - 1 \in 0..Len(b)
          BY <3>2
        <4> QED
          BY <1>5, <1>6, <3>2, <4>1
      <3> QED
        BY <3>1, <3>2
    <2> QED
      BY <1>6, <2>1
  <1>8. Right(Read(b))
    BY <1>7, Zenon DEF Read
  <1>9. Read(b)[0] = 0 /\ DOMAIN Read(b) = 0..Len(b)
    BY <1>8
  <1>10. \A k \in 0..Len(b) - 1 : Read(b)[k + 1] = Wrapped(Wrapped(Read(b)[k] * 10) + b[k + 1])
    BY <1>8
  <1>11. Read(b) \in [0..Len(b) -> Int]
    <2> DEFINE S == {k \in Nat : k <= Len(b) => Read(b)[k] \in Int}
    <2>1. 0 \in S
      BY <1>9
    <2>2. ASSUME NEW k \in Nat, k \in S PROVE k + 1 \in S
      BY <1>2, <1>10, <2>2
    <2> HIDE DEF S
    <2>3. Nat \subseteq S
      BY <2>1, <2>2, Induction
    <2>4. \A k \in 0..Len(b) : Read(b)[k] \in Int
      BY <2>3 DEF S
    <2> QED
      BY <1>8, <2>4
  <1> QED
    BY <1>9, <1>10, <1>11

\* And so does the sum of Value.
LEMMA ValuesIs ==
    ASSUME NEW b \in Seq(Nat)
    PROVE  /\ Values(b) \in [0..Len(b) -> Nat] /\ Values(b)[0] = 0
           /\ \A k \in 0..Len(b) - 1 : Values(b)[k + 1] = 10 * Values(b)[k] + b[k + 1]
  <1>1. PICK step : step = [k \in Nat |-> [v \in Nat |->
                       IF k < Len(b) THEN 10 * v + b[k + 1] ELSE 0]]
    OBVIOUS
  <1>2. ASSUME NEW k \in Nat, NEW v \in Nat, k < Len(b)
        PROVE  10 * v + b[k + 1] \in Nat
    <2>1. b[k + 1] \in Nat
      BY <1>2
    <2> QED
      BY <2>1
  <1>3. step \in [Nat -> [Nat -> Nat]]
    BY <1>1, <1>2
  <1>4. PICK f : Goes(f, Nat, 0, step)
    BY <1>3, 0 \in Nat, Recursion, Zenon
  <1>5. ASSUME NEW k \in 0..Len(b), k # 0
        PROVE  f[k] = 10 * f[k - 1] + b[k]
    <2>1. k - 1 \in Nat /\ (k - 1) + 1 = k /\ k - 1 < Len(b)
      BY <1>5
    <2>2. f[k] = step[k - 1][f[k - 1]] /\ f[k - 1] \in Nat
      BY <1>4, <2>1 DEF Goes
    <2> QED
      BY <1>1, <2>1, <2>2
  <1> DEFINE Right(i) == i = [k \in 0..Len(b) |-> IF k = 0 THEN 0 ELSE 10 * i[k - 1] + b[k]]
  <1>6. PICK g : g = [k \in 0..Len(b) |-> f[k]]
    OBVIOUS
  <1>7. Right(g)
    <2>1. ASSUME NEW k \in 0..Len(b)
          PROVE  g[k] = IF k = 0 THEN 0 ELSE 10 * g[k - 1] + b[k]
      <3>1. CASE k = 0
        BY <1>4, <1>6, <3>1 DEF Goes
      <3>2. CASE k # 0
        <4>1. k - 1 \in 0..Len(b)
          BY <3>2
        <4> QED
          BY <1>5, <1>6, <3>2, <4>1
      <3> QED
        BY <3>1, <3>2
    <2> QED
      BY <1>6, <2>1
  <1>8. Right(Values(b))
    BY <1>7, Zenon DEF Values
  <1>9. Values(b)[0] = 0 /\ DOMAIN Values(b) = 0..Len(b)
    BY <1>8
  <1>10. \A k \in 0..Len(b) - 1 : Values(b)[k + 1] = 10 * Values(b)[k] + b[k + 1]
    BY <1>8
  <1>11. Values(b) \in [0..Len(b) -> Nat]
    <2> DEFINE S == {k \in Nat : k <= Len(b) => Values(b)[k] \in Nat}
    <2>1. 0 \in S
      BY <1>9
    <2>2. ASSUME NEW k \in Nat, k \in S PROVE k + 1 \in S
      BY <1>2, <1>10, <2>2
    <2> HIDE DEF S
    <2>3. Nat \subseteq S
      BY <2>1, <2>2, Induction
    <2>4. \A k \in 0..Len(b) : Values(b)[k] \in Nat
      BY <2>3 DEF S
    <2> QED
      BY <1>8, <2>4
  <1> QED
    BY <1>9, <1>10, <1>11

LEMMA Tenfold ==
    \A x, d, y, m \in Nat :
        y = 10 * x + d /\ y <= m => x <= m /\ x * 10 <= m /\ x * 10 + d = y /\ x * 10 \in Nat
  OBVIOUS

\* As long as the number is an int, Atoi computes that sum.
LEMMA ReadValues ==
    ASSUME NEW b \in Seq(Nat), Value(b) <= MaxInt
    PROVE  Read(b)[Len(b)] = Value(b) /\ Value(b) \in 0..MaxInt
  <1>1. MaxInt \in Nat
    BY IdsAssumption
  <1>2. PICK v : v = Values(b)
    OBVIOUS
  <1>3. /\ v \in [0..Len(b) -> Nat] /\ v[0] = 0
        /\ \A k \in 0..Len(b) - 1 : v[k + 1] = 10 * v[k] + b[k + 1]
        /\ v[Len(b)] <= MaxInt
    BY <1>2, ValuesIs DEF Value
  <1>4. \A k \in 0..Len(b) : v[k] <= MaxInt
    <2> DEFINE S == {j \in Nat : j <= Len(b) => v[Len(b) - j] <= MaxInt}
    <2>1. 0 \in S
      BY <1>3
    <2>2. ASSUME NEW j \in Nat, j \in S PROVE j + 1 \in S
      <3> SUFFICES ASSUME j + 1 <= Len(b) PROVE v[Len(b) - (j + 1)] <= MaxInt
        OBVIOUS
      <3>1. PICK k \in 0..Len(b) - 1 : k = Len(b) - (j + 1)
        OBVIOUS
      <3>2. v[k + 1] <= MaxInt
        BY <2>2, <3>1
      <3>3. v[k] \in Nat /\ b[k + 1] \in Nat /\ v[k + 1] = 10 * v[k] + b[k + 1]
        BY <1>3, SMTT(40)
      <3>4. v[k] <= MaxInt
        BY <1>1, <3>2, <3>3, Tenfold
      <3> QED
        BY <3>1, <3>4
    <2> HIDE DEF S
    <2>3. Nat \subseteq S
      BY <2>1, <2>2, Induction
    <2>4. ASSUME NEW k \in 0..Len(b) PROVE v[k] <= MaxInt
      <3>1. Len(b) - k \in S
        BY <2>3
      <3> QED
        BY <3>1 DEF S
    <2> QED
      BY <2>4
  <1>5. \A k \in 0..Len(b) : Read(b)[k] = v[k]
    <2> DEFINE S == {k \in Nat : k <= Len(b) => Read(b)[k] = v[k]}
    <2>1. 0 \in S
      BY <1>3, ReadIs
    <2>2. ASSUME NEW k \in Nat, k \in S PROVE k + 1 \in S
      <3> SUFFICES ASSUME k + 1 <= Len(b) PROVE Read(b)[k + 1] = v[k + 1]
        OBVIOUS
      <3>1. Read(b)[k + 1] = Wrapped(Wrapped(v[k] * 10) + b[k + 1])
        BY <2>2, ReadIs
      <3>2. v[k] \in Nat /\ b[k + 1] \in Nat /\ v[k + 1] = 10 * v[k] + b[k + 1] /\ v[k + 1] <= MaxInt
        BY <1>3, <1>4, SMTT(40)
      <3>3. v[k] * 10 \in 0..MaxInt /\ v[k] * 10 \in Int
        BY <1>1, <3>2, Tenfold
      <3>4. Wrapped(v[k] * 10) = v[k] * 10
        BY <3>3, WrappedInts
      <3>5. v[k] * 10 + b[k + 1] = v[k + 1] /\ v[k + 1] \in 0..MaxInt /\ v[k + 1] \in Int
        BY <1>1, <3>2, Tenfold, SMTT(40)
      <3> QED
        BY <3>1, <3>4, <3>5, WrappedInts
    <2> HIDE DEF S
    <2>3. Nat \subseteq S
      BY <2>1, <2>2, Induction
    <2> QED
      BY <2>3 DEF S
  <1> QED
    BY <1>1, <1>2, <1>3, <1>5 DEF Value

LEMMA Division ==
    \A n \in Nat : /\ n \div 10 \in Nat /\ n % 10 \in Figures /\ n = 10 * (n \div 10) + (n % 10)
                   /\ n >= 10 => n \div 10 < n
  BY DEF Figures

\* One more call of FormatInt with those of h below it.
FormatDigit(h, n) == (IF n < 10 THEN <<>> ELSE h[n \div 10]) \o <<n % 10>>

LEMMA FormatDigitType ==
    ASSUME NEW h \in [Nat -> Seq(Figures)], NEW n \in Nat
    PROVE  FormatDigit(h, n) \in Seq(Figures)
  <1>1. n \div 10 \in Nat /\ n % 10 \in Figures
    BY Division
  <1>2. (IF n < 10 THEN <<>> ELSE h[n \div 10]) \in Seq(Figures)
    BY <1>1
  <1>3. <<n % 10>> \in Seq(Figures)
    BY <1>1
  <1> QED
    BY <1>2, <1>3 DEF FormatDigit

\* The recursion of strconv.FormatInt ends, and computes what it says.
LEMMA DigitsIs ==
    /\ Digits \in [Nat -> Seq(Figures)]
    /\ \A n \in Nat : Digits[n] = FormatDigit(Digits, n)
  <1> DEFINE V == [Nat -> Seq(Figures)]
  <1>1. PICK step : step = [k \in Nat |-> [h \in V |-> [n \in Nat |-> FormatDigit(h, n)]]]
    OBVIOUS
  <1>2. PICK none : none = [n \in Nat |-> <<>>]
    OBVIOUS
  <1>3. step \in [Nat -> [V -> V]] /\ none \in V
    <2>1. ASSUME NEW h \in V PROVE [n \in Nat |-> FormatDigit(h, n)] \in V
      <3>1. \A n \in Nat : FormatDigit(h, n) \in Seq(Figures)
        BY FormatDigitType
      <3> QED
        BY <3>1
    <2>2. none \in V
      BY <1>2
    <2> HIDE DEF V
    <2> QED
      BY <1>1, <2>1, <2>2
  <1>4. PICK H : Goes(H, V, none, step)
    <2> HIDE DEF V
    <2> QED
      BY <1>3, Recursion, Zenon
  <1>5. /\ \A k \in Nat : H[k] \in V
        /\ \A k, n \in Nat : H[k + 1][n] = FormatDigit(H[k], n)
    BY <1>1, <1>4, ZenonT(40) DEF Goes
  \* k calls are enough for what is less than k.
  <1>6. \A k, n \in Nat : n < k => H[k + 1][n] = H[k][n]
    <2> DEFINE S == {k \in Nat : \A n \in Nat : n < k => H[k + 1][n] = H[k][n]}
    <2>1. 0 \in S
      OBVIOUS
    <2>2. ASSUME NEW k \in Nat, k \in S PROVE k + 1 \in S
      <3> SUFFICES ASSUME NEW n \in Nat, n < k + 1 PROVE H[k + 1 + 1][n] = H[k + 1][n]
        OBVIOUS
      <3>1. H[k + 1 + 1][n] = FormatDigit(H[k + 1], n) /\ H[k + 1][n] = FormatDigit(H[k], n)
        BY <1>5
      <3>2. CASE n < 10
        BY <3>1, <3>2 DEF FormatDigit
      <3>3. CASE n >= 10
        <4>1. n \div 10 \in Nat /\ n \div 10 < k
          BY <3>3, Division
        <4> QED
          BY <2>2, <3>1, <4>1 DEF FormatDigit
      <3> QED
        BY <3>2, <3>3
    <2> HIDE DEF S
    <2>3. Nat \subseteq S
      BY <2>1, <2>2, Induction
    <2> QED
      BY <2>3 DEF S
  <1>7. \A k, n \in Nat : n < k => H[k][n] = H[n + 1][n]
    <2> DEFINE S == {k \in Nat : \A n \in Nat : n < k => H[k][n] = H[n + 1][n]}
    <2>1. 0 \in S
      OBVIOUS
    <2>2. ASSUME NEW k \in Nat, k \in S PROVE k + 1 \in S
      <3> SUFFICES ASSUME NEW n \in Nat, n < k + 1 PROVE H[k + 1][n] = H[n + 1][n]
        OBVIOUS
      <3>1. CASE n = k
        BY <3>1
      <3>2. CASE n < k
        BY <1>6, <2>2, <3>2
      <3> QED
        BY <3>1, <3>2
    <2> HIDE DEF S
    <2>3. Nat \subseteq S
      BY <2>1, <2>2, Induction
    <2> QED
      BY <2>3 DEF S
  <1>8. PICK f : f = [n \in Nat |-> H[n + 1][n]]
    OBVIOUS
  <1>9. f \in V
    BY <1>5, <1>8
  <1>10. ASSUME NEW n \in Nat PROVE f[n] = FormatDigit(f, n)
    <2>1. f[n] = FormatDigit(H[n], n)
      BY <1>5, <1>8
    <2>2. CASE n < 10
      BY <2>1, <2>2 DEF FormatDigit
    <2>3. CASE n >= 10
      <3>1. n \div 10 \in Nat /\ n \div 10 < n
        BY <2>3, Division
      <3>2. H[n][n \div 10] = f[n \div 10]
        BY <1>7, <1>8, <3>1
      <3> QED
        BY <2>1, <3>2 DEF FormatDigit
    <2> QED
      BY <2>2, <2>3
  <1> DEFINE Right(g) == g = [n \in Nat |-> (IF n < 10 THEN <<>> ELSE g[n \div 10]) \o <<n % 10>>]
  <1>11. Right(f)
    BY <1>8, <1>10 DEF FormatDigit
  <1>12. Right(Digits)
    BY <1>11, Zenon DEF Digits
  <1>13. \A n \in Nat : Digits[n] = FormatDigit(Digits, n)
    BY <1>12 DEF FormatDigit
  <1>14. DOMAIN Digits = Nat
    BY <1>12
  <1>15. \A k \in Nat : \A n \in Nat : n < k => Digits[n] = f[n]
    <2> DEFINE S == {k \in Nat : \A n \in Nat : n < k => Digits[n] = f[n]}
    <2>1. 0 \in S
      OBVIOUS
    <2>2. ASSUME NEW k \in Nat, k \in S PROVE k + 1 \in S
      <3> SUFFICES ASSUME NEW n \in Nat, n < k + 1 PROVE Digits[n] = f[n]
        OBVIOUS
      <3>1. Digits[n] = FormatDigit(Digits, n) /\ f[n] = FormatDigit(f, n)
        BY <1>10, <1>13
      <3>2. CASE n < 10
        BY <3>1, <3>2 DEF FormatDigit
      <3>3. CASE n >= 10
        <4>1. n \div 10 \in Nat /\ n \div 10 < k
          BY <3>3, Division
        <4> QED
          BY <2>2, <3>1, <4>1 DEF FormatDigit
      <3> QED
        BY <3>2, <3>3
    <2> HIDE DEF S
    <2>3. Nat \subseteq S
      BY <2>1, <2>2, Induction
    <2> QED
      BY <2>3 DEF S
  <1>16. \A n \in Nat : Digits[n] \in Seq(Figures)
    <2> TAKE n \in Nat
    <2>1. n + 1 \in Nat /\ n < n + 1
      OBVIOUS
    <2>2. Digits[n] = f[n]
      BY <1>15, <2>1
    <2> QED
      BY <1>9, <2>2
  <1>17. Digits = [n \in Nat |-> Digits[n]]
    BY <1>12
  <1> QED
    BY <1>13, <1>16, <1>17

\* The sum of a text that is continued.
LEMMA ValueOfAppended ==
    ASSUME NEW s \in Seq(Nat), NEW d \in Nat
    PROVE  Value(s \o <<d>>) = 10 * Value(s) + d
  <1>1. PICK t : t = s \o <<d>>
    OBVIOUS
  <1>2. t \in Seq(Nat) /\ Len(t) = Len(s) + 1 /\ t[Len(s) + 1] = d /\ \A k \in 1..Len(s) : t[k] = s[k]
    BY <1>1
  <1>3. Len(s) \in Nat
    OBVIOUS
  <1>4. PICK v : v = Values(s)
    OBVIOUS
  <1>5. PICK w : w = Values(t)
    OBVIOUS
  <1>6. v[0] = 0 /\ \A k \in 0..Len(s) - 1 : v[k + 1] = 10 * v[k] + s[k + 1]
    BY <1>4, ValuesIs
  <1>7. w[0] = 0 /\ \A k \in 0..Len(s) : w[k + 1] = 10 * w[k] + t[k + 1]
    <2>1. w[0] = 0 /\ \A k \in 0..Len(t) - 1 : w[k + 1] = 10 * w[k] + t[k + 1]
      BY <1>2, <1>5, ValuesIs, Zenon
    <2> QED
      BY <1>2, <1>3, <2>1
  <1>8. w[Len(s)] = v[Len(s)]
    <2> DEFINE S == {k \in Nat : k <= Len(s) => w[k] = v[k]}
    <2>1. 0 \in S
      BY <1>6, <1>7
    <2>2. ASSUME NEW k \in Nat, k \in S PROVE k + 1 \in S
      <3> SUFFICES ASSUME k + 1 <= Len(s) PROVE w[k + 1] = v[k + 1]
        OBVIOUS
      <3>1. w[k] = v[k] /\ t[k + 1] = s[k + 1]
        BY <1>2, <1>3, <2>2
      <3>2. v[k + 1] = 10 * v[k] + s[k + 1] /\ w[k + 1] = 10 * w[k] + t[k + 1]
        BY <1>3, <1>6, <1>7
      <3> QED
        BY <3>1, <3>2
    <2> HIDE DEF S
    <2>3. Nat \subseteq S
      BY <2>1, <2>2, Induction
    <2> QED
      BY <1>3, <2>3 DEF S
  <1>9. w[Len(s) + 1] = 10 * v[Len(s)] + d
    BY <1>2, <1>3, <1>7, <1>8, SMTT(40)
  <1> QED
    BY <1>1, <1>2, <1>4, <1>5, <1>9 DEF Value

\* FormatInt writes a number whose sum of digits it is.
LEMMA ValueOfDigits ==
    \A n \in Nat : Digits[n] # <<>> /\ Value(Digits[n]) = n
  <1>1. ASSUME NEW n \in Nat
        PROVE  /\ Digits[n] # <<>>
               /\ n < 10 => Value(Digits[n]) = n
               /\ n >= 10 /\ Value(Digits[n \div 10]) = n \div 10 => Value(Digits[n]) = n
    <2>1. /\ n \div 10 \in Nat /\ n % 10 \in Figures /\ n % 10 \in Nat
          /\ n = 10 * (n \div 10) + (n % 10)
      BY Division DEF Figures
    <2>2. Digits[n] = (IF n < 10 THEN <<>> ELSE Digits[n \div 10]) \o <<n % 10>>
      BY DigitsIs DEF FormatDigit
    <2>3. Digits[n \div 10] \in Seq(Figures)
      BY <2>1, DigitsIs
    <2>4. Digits[n \div 10] \in Seq(Nat) /\ <<>> \in Seq(Nat)
      BY <2>3 DEF Figures
    <2>5. Digits[n] # <<>>
      BY <2>1, <2>2, <2>4
    <2>6. Value(<<>> \o <<n % 10>>) = 10 * 0 + (n % 10)
      <3>1. Value(<<>>) = 0
        BY <2>4, ValuesIs DEF Value
      <3> QED
        BY <2>1, <2>4, <3>1, ValueOfAppended
    <2>7. n < 10 => n % 10 = n
      OBVIOUS
    <2>8. Value(Digits[n \div 10] \o <<n % 10>>) = 10 * Value(Digits[n \div 10]) + (n % 10)
      BY <2>1, <2>4, ValueOfAppended
    <2>9. ASSUME n < 10 PROVE Value(Digits[n]) = n
      <3>1. Digits[n] = <<>> \o <<n % 10>>
        BY <2>2, <2>9, Zenon
      <3> QED
        BY <2>6, <2>7, <2>9, <3>1
    <2>10. ASSUME n >= 10, Value(Digits[n \div 10]) = n \div 10 PROVE Value(Digits[n]) = n
      <3>1. ~ (n < 10)
        BY <2>10
      <3>2. Digits[n] = Digits[n \div 10] \o <<n % 10>>
        BY <2>2, <3>1, Zenon
      <3>3. Value(Digits[n]) = 10 * (n \div 10) + (n % 10)
        BY <2>8, <2>10, <3>2, Zenon
      <3> QED
        BY <2>1, <3>3
    <2> QED
      BY <2>5, <2>9, <2>10
  <1> DEFINE S == {k \in Nat : \A n \in Nat : n < k => Value(Digits[n]) = n}
  <1>2. 0 \in S
    OBVIOUS
  <1>3. ASSUME NEW k \in Nat, k \in S PROVE k + 1 \in S
    <2> SUFFICES ASSUME NEW n \in Nat, n < k + 1 PROVE Value(Digits[n]) = n
      OBVIOUS
    <2>1. CASE n < 10
      BY <1>1, <2>1
    <2>2. CASE n >= 10
      <3>1. n \div 10 \in Nat /\ n \div 10 < k
        BY <2>2, Division
      <3> QED
        BY <1>1, <1>3, <2>2, <3>1
    <2> QED
      BY <2>1, <2>2
  <1> HIDE DEF S
  <1>4. Nat \subseteq S
    BY <1>2, <1>3, Induction
  <1>5. ASSUME NEW n \in Nat PROVE Value(Digits[n]) = n
    <2>1. n + 1 \in S /\ n < n + 1
      BY <1>4
    <2> QED
      BY <2>1 DEF S
  <1> QED
    BY <1>1, <1>5

\* The number of a mark is found again in the id of the response.
LEMMA AtoiFormatInt ==
    ASSUME NEW n \in 0..MaxInt
    PROVE  Atoi(FormatInt(n)) = n
  <1>1. n \in Nat /\ n <= MaxInt /\ MaxInt \in Nat
    BY IdsAssumption
  <1>2. Digits[n] \in Seq(Figures)
    BY <1>1, DigitsIs
  <1>3. Digits[n] \in Seq(Nat) /\ ~ \E k \in 1..Len(Digits[n]) : Digits[n][k] > 9
    BY <1>2 DEF Figures
  <1>4. Value(Digits[n]) = n
    BY <1>1, ValueOfDigits
  <1>5. Read(Digits[n])[Len(Digits[n])] = n
    BY <1>1, <1>3, <1>4, ReadValues
  <1> QED
    BY <1>1, <1>3, <1>5 DEF Atoi, FormatInt

\* A number that is kept as an int is written again as it was.
LEMMA FormatIntAtoi ==
    ASSUME NEW t \in Seq(Nat), Natural(t), Value(t) <= MaxInt
    PROVE  FormatInt(Atoi(t)) = t
  <1>1. /\ t # <<>> /\ Len(t) \in Nat \ {0}
        /\ \A i \in 1..Len(t) : t[i] \in Nat /\ t[i] <= 9
        /\ t[1] = 0 => Len(t) = 1
    BY DEF Natural
  <1>2. PICK v : v = Values(t)
    OBVIOUS
  <1>3. /\ v \in [0..Len(t) -> Nat] /\ v[0] = 0
        /\ \A k \in 0..Len(t) - 1 : v[k + 1] = 10 * v[k] + t[k + 1]
    BY <1>2, ValuesIs
  <1>4. \A k \in 1..Len(t) : (Len(t) > 1 => v[k] >= 1) /\ Digits[v[k]] = SubSeq(t, 1, k)
    <2> DEFINE S == {k \in Nat : k + 1 <= Len(t) =>
                        (Len(t) > 1 => v[k + 1] >= 1) /\ Digits[v[k + 1]] = SubSeq(t, 1, k + 1)}
    <2>1. 0 \in S
      <3>1. v[1] = 10 * v[0] + t[1]
        BY <1>1, <1>3
      <3>2. v[1] = t[1] /\ t[1] \in Nat /\ t[1] <= 9
        BY <1>1, <1>3, <3>1
      <3>3. Digits[v[1]] = <<>> \o <<t[1]>>
        <4>1. PICK d \in Nat : d = t[1] /\ d <= 9
          BY <3>2
        <4>2. d < 10 /\ d % 10 = d
          BY <4>1
        <4>3. FormatDigit(Digits, d) = <<>> \o <<d>>
          BY <4>2, Zenon DEF FormatDigit
        <4> QED
          BY <3>2, <4>1, <4>3, DigitsIs
      <3>4. SubSeq(t, 1, 1) = <<t[1]>> /\ <<>> \o <<t[1]>> = <<t[1]>>
        <4>1. Len(t) >= 1
          BY <1>1
        <4>2. SubSeq(t, 1, 1) = <<t[1]>>
          <5>1. PICK q : q = SubSeq(t, 1, 1)
            OBVIOUS
          <5>2. q \in Seq(Nat) /\ Len(q) = 1 /\ q[1] = t[1]
            BY <4>1, <5>1
          <5>3. PICK e : e = <<t[1]>>
            OBVIOUS
          <5>4. e \in Seq(Nat) /\ Len(e) = 1 /\ e[1] = t[1]
            BY <1>1, <4>1, <5>3
          <5>5. Len(q) = Len(e) /\ \A i \in 1..Len(q) : q[i] = e[i]
            BY <5>2, <5>4
          <5>6. q = e
            BY <5>2, <5>4, <5>5, SeqEqual, Zenon
          <5> QED
            BY <5>1, <5>3, <5>6
        <4> QED
          BY <4>2
      <3> QED
        BY <1>1, <3>2, <3>3, <3>4
    <2>2. ASSUME NEW k \in Nat, k \in S PROVE k + 1 \in S
      <3> SUFFICES ASSUME k + 1 + 1 <= Len(t)
                   PROVE  v[k + 1 + 1] >= 1 /\ Digits[v[k + 1 + 1]] = SubSeq(t, 1, k + 1 + 1)
        OBVIOUS
      <3>1. PICK x : x = v[k + 1]
        OBVIOUS
      <3>2. PICK d : d = t[k + 1 + 1]
        OBVIOUS
      <3>3. x \in Nat /\ d \in Nat /\ d <= 9 /\ v[k + 1 + 1] = 10 * x + d
        <4>1. k + 1 \in 0..Len(t) - 1 /\ k + 1 \in 0..Len(t) /\ k + 1 + 1 \in 1..Len(t)
          BY <1>1
        <4>2. x \in Nat
          BY <1>3, <3>1, <4>1
        <4>3. d \in Nat /\ d <= 9
          BY <1>1, <3>2, <4>1
        <4>4. v[k + 1 + 1] = 10 * v[k + 1] + t[k + 1 + 1]
          BY <1>3, <4>1
        <4> QED
          BY <3>1, <3>2, <4>2, <4>3, <4>4
      <3>4. x >= 1 /\ Digits[x] = SubSeq(t, 1, k + 1)
        BY <2>2, <3>1
      <3>5. PICK y \in Nat : y = 10 * x + d
        BY <3>3
      <3>6. y >= 10 /\ y \div 10 = x /\ y % 10 = d
        BY <3>3, <3>4, <3>5
      <3>7. Digits[y] = Digits[x] \o <<d>>
        <4>1. ~ (y < 10)
          BY <3>6
        <4>2. FormatDigit(Digits, y) = Digits[x] \o <<d>>
          BY <3>6, <4>1, Zenon DEF FormatDigit
        <4> QED
          BY <4>2, DigitsIs
      <3>8. SubSeq(t, 1, k + 1 + 1) = SubSeq(t, 1, k + 1) \o <<d>>
        BY <1>1, <3>2
      <3> QED
        BY <3>3, <3>4, <3>5, <3>6, <3>7, <3>8
    <2> HIDE DEF S
    <2>3. Nat \subseteq S
      BY <2>1, <2>2, Induction
    <2>4. ASSUME NEW k \in 1..Len(t)
          PROVE  (Len(t) > 1 => v[k] >= 1) /\ Digits[v[k]] = SubSeq(t, 1, k)
      <3>1. k - 1 \in S /\ (k - 1) + 1 = k
        BY <2>3
      <3> QED
        BY <3>1 DEF S
    <2> QED
      BY <2>4
  <1>5. Digits[v[Len(t)]] = SubSeq(t, 1, Len(t))
    BY <1>1, <1>4
  <1>6. SubSeq(t, 1, Len(t)) = t
    OBVIOUS
  <1>7. Atoi(t) = v[Len(t)] /\ v[Len(t)] \in Nat
    <2>1. ~ \E k \in 1..Len(t) : t[k] > 9
      BY <1>1
    <2> QED
      BY <1>1, <1>2, <1>3, <2>1, ReadValues DEF Atoi, Value
  <1>8. ~ (Atoi(t) < 0)
    BY <1>7
  <1> QED
    BY <1>5, <1>6, <1>7, <1>8, Zenon DEF FormatInt

\* What the id, the mark and the answer have to do with each other.
IdsInv ==
    /\ text \in Seq(Byte) /\ markID \in 0..MaxInt
    /\ at \in {"writes", "marked", "done"}
    /\ at = "writes" => markID < MaxInt
    /\ at # "writes" => kept = Atoi(text) /\ wire = FormatInt(markID)
    /\ at = "done" => back = IF Atoi(wire) = markID THEN FormatInt(kept) ELSE <<>>

LEMMA IdsInvInit == Init => IdsInv
  BY IdsAssumption DEF Init, IdsInit, IdsInv

LEMMA IdsInvNext == IdsInv /\ IdsNext => IdsInv'
  <1> SUFFICES ASSUME IdsInv, IdsNext PROVE IdsInv'
    OBVIOUS
  <1>1. ASSUME NEW ch \in Byte, Writes(ch) PROVE IdsInv'
    BY <1>1 DEF IdsInv, Writes
  <1>2. CASE MarkId
    <2>1. markID \in 0..MaxInt /\ markID < MaxInt /\ MaxInt \in Nat
      BY <1>2, IdsAssumption DEF IdsInv, MarkId
    <2>2. markID + 1 \in Int /\ markID + 1 \in 0..MaxInt
      BY <2>1
    <2>3. markID' = markID + 1
      BY <1>2, <2>2, WrappedInts DEF MarkId
    <2> QED
      BY <1>2, <2>2, <2>3 DEF IdsInv, MarkId
  <1>3. CASE FindId
    BY <1>3 DEF IdsInv, FindId
  <1> QED
    BY <1>1, <1>2, <1>3 DEF IdsNext

LEMMA IdsInvReturns == IdsInv => IdsReturn
  <1> SUFFICES ASSUME IdsInv, at = "done", Natural(text), Value(text) <= MaxInt PROVE back = text
    BY DEF IdsReturn
  <1>1. text \in Seq(Nat)
    BY DEF IdsInv, Byte, Other
  <1>2. kept = Atoi(text) /\ wire = FormatInt(markID) /\ markID \in 0..MaxInt
    BY DEF IdsInv
  <1>3. Atoi(wire) = markID
    BY <1>2, AtoiFormatInt
  <1>4. FormatInt(kept) = text
    BY <1>1, <1>2, FormatIntAtoi
  <1> QED
    BY <1>3, <1>4 DEF IdsInv

\* The id of every request comes back to its caller as it was, whatever its number,
\* up to the largest int, and whatever the number of the mark.
THEOREM IdsComeBack == Spec => []IdsReturn
  <1>1. IdsInv /\ [Next]_<<streamVars, serialVars, idVars, statusVars, what>> => IdsInv'
    <2> SUFFICES ASSUME IdsInv, [Next]_<<streamVars, serialVars, idVars, statusVars, what>>
                 PROVE  IdsInv'
      OBVIOUS
    <2>1. CASE UNCHANGED idVars
      BY <2>1 DEF IdsInv, idVars
    <2>2. CASE IdsNext
      BY <2>2, IdsInvNext
    <2> QED
      BY <2>1, <2>2 DEF Next
  <1> QED
    BY <1>1, IdsInvInit, IdsInvReturns, PTL DEF Spec
-----------------------------------------------------------------------------
(***************************************************************************)
(* Status: what the report says of the cloud.                              *)
(***************************************************************************)
LEMMA OnwardIs ==
    ASSUME NEW changed \in BOOLEAN
    PROVE  /\ hook = "lua" => Onward(changed) = IF changed THEN "none" ELSE "report"
           /\ hook = "report" => Onward(changed) = IF changed THEN "none" ELSE "cache"
           /\ hook = "cache" => Onward(changed) = "none"
  <1>1. /\ DOMAIN Responses = 1..3 /\ Len(Responses) = 3
        /\ Responses[1] = "lua" /\ Responses[2] = "report" /\ Responses[3] = "cache"
    BY DEF Responses
  <1>2. PICK i : i = CHOOSE n \in DOMAIN Responses : Responses[n] = hook
    OBVIOUS
  <1>3. /\ hook = "lua" => i = 1
        /\ hook = "report" => i = 2
        /\ hook = "cache" => i = 3
    <2>1. (\E n \in 1..3 : Responses[n] = hook) => i \in 1..3 /\ Responses[i] = hook
      BY <1>1, <1>2
    <2> QED
      BY <1>1, <2>1
  <1>4. Onward(changed) = IF changed \/ i = Len(Responses) THEN "none" ELSE Responses[i + 1]
    BY <1>2 DEF Onward
  <1> QED
    BY <1>1, <1>3, <1>4

\* What the report has not heard yet is what the script has just let pass.
Unheard == hook = "report"
StatusInv ==
    /\ hook \in {"none", "lua", "report", "cache"}
    /\ params \in Says /\ said \in Says /\ cloudState \in Says /\ turned \in Nat
    /\ report \in [state : Says, starts : Nat, uptime : BOOLEAN]
    /\ report.state = Connected <=> cloudState = Connected
    /\ said = IF Unheard THEN params ELSE cloudState
    /\ turned = IF Unheard /\ params = Connected /\ cloudState # Connected
                THEN report.starts + 1 ELSE report.starts

LEMMA StatusInvInit == Init => StatusInv
  <1> SUFFICES ASSUME Init PROVE StatusInv
    OBVIOUS
  <1>1. /\ hook = "none" /\ params = Absent /\ cloudState = Absent /\ said = Absent /\ turned = 0
        /\ report = [state |-> Absent, starts |-> 0, uptime |-> FALSE]
    BY DEF Init, StatusInit
  <1>2. Absent \in Says /\ Absent # Connected
    BY DEF Absent, Says, Connected
  <1>3. /\ report \in [state : Says, starts : Nat, uptime : BOOLEAN]
        /\ report.state = Absent /\ report.starts = 0
    BY <1>1, <1>2
  <1> QED
    BY <1>1, <1>2, <1>3 DEF StatusInv, Unheard

LEMMA StatusInvNext == StatusInv /\ StatusNext => StatusInv'
  <1> SUFFICES ASSUME StatusInv, StatusNext PROVE StatusInv'
    OBVIOUS
  <1>1. ASSUME NEW app \in App, NEW state \in Says, AnswerComes(app, state) PROVE StatusInv'
    BY <1>1 DEF StatusInv, AnswerComes, Responses, Unheard
  <1>2. CASE ScriptPasses
    <2>1. hook = "lua" /\ hook' = "report"
      BY <1>2, OnwardIs DEF ScriptPasses
    <2>2. said = cloudState /\ turned = report.starts /\ report.starts \in Nat
      BY <2>1 DEF StatusInv, Unheard
    <2>3. /\ said' = params /\ UNCHANGED <<params, cloudState, report>>
          /\ turned' = IF params = Connected /\ said # Connected THEN turned + 1 ELSE turned
      BY <1>2 DEF ScriptPasses
    <2>4. turned' \in Nat /\ turned' = IF params = Connected /\ cloudState # Connected
                                       THEN report.starts + 1 ELSE report.starts
      BY <2>2, <2>3
    <2> QED
      BY <2>1, <2>3, <2>4 DEF StatusInv, Unheard
  <1>3. CASE ScriptAnswers
    <2>1. hook = "lua" /\ hook' = "none"
      BY <1>3, OnwardIs DEF ScriptAnswers
    <2> QED
      BY <1>3, <2>1 DEF StatusInv, ScriptAnswers, Unheard
  <1>4. CASE miioReport
    <2>1. hook = "report" /\ hook' = "cache"
      BY <1>4, OnwardIs DEF miioReport
    <2> QED
      BY <1>4, <2>1 DEF StatusInv, miioReport, Unheard, Says, Connected, Absent
  <1>5. CASE miioResponse
    <2>1. Reassures \in BOOLEAN
      BY DEF Reassures
    <2>2. hook = "cache" /\ hook' = "none"
      BY <1>5, <2>1, OnwardIs DEF miioResponse
    <2> QED
      BY <1>5, <2>2 DEF StatusInv, miioResponse, Unheard, Says
  <1> QED
    BY <1>1, <1>2, <1>3, <1>4, <1>5 DEF StatusNext

\* The report says connected just when miio_client last said so, and counts how
\* often it turned to that, however many answers come and whoever asks.
THEOREM StatusIsReported == Spec => []StatusReported
  <1>1. StatusInv /\ [Next]_<<streamVars, serialVars, idVars, statusVars, what>> => StatusInv'
    <2> SUFFICES ASSUME StatusInv, [Next]_<<streamVars, serialVars, idVars, statusVars, what>>
                 PROVE  StatusInv'
      OBVIOUS
    <2>1. CASE UNCHANGED statusVars
      BY <2>1 DEF StatusInv, statusVars, Unheard
    <2>2. CASE StatusNext
      BY <2>2, StatusInvNext
    <2> QED
      BY <2>1, <2>2 DEF Next
  <1>2. StatusInv => StatusReported
    BY DEF StatusInv, StatusReported, Unheard
  <1> QED
    BY <1>1, <1>2, StatusInvInit, PTL DEF Spec
-----------------------------------------------------------------------------
(***************************************************************************)
(* Serial: what the parser finds in the table of the kernel.               *)
(***************************************************************************)
Token == {"serinfo", "uart", "blank", "tx:", "rx:", "oe:", "number", "RTS", "newline"} \X Int
Value32 == 0..2 * Half - 1
PortState == [tx : Value32, rx : Value32, oe : Value32, flags : {TRUE}]

LEMMA FindIs ==
    ASSUME NEW b \in Seq(Token), NEW word, NEW i \in 1..Len(b),
           b[i][1] = word, \A j \in 1..i - 1 : b[j][1] # word
    PROVE  Find(b, word) = i
  <1>1. i \in Places(b, word) /\ Places(b, word) \in SUBSET Nat /\ Places(b, word) # {}
    BY DEF Places
  <1>2. Min(Places(b, word)) \in Places(b, word) /\ Min(Places(b, word)) <= i
    BY <1>1, MinIsLeast
  <1>3. Min(Places(b, word)) = i
    BY <1>2 DEF Places
  <1> QED
    BY <1>1, <1>3 DEF Find

LEMMA FindNothing ==
    ASSUME NEW b \in Seq(Token), NEW word, \A j \in 1..Len(b) : b[j][1] # word
    PROVE  Find(b, word) = 0
  BY DEF Find, Places

LEMMA AfterIs ==
    ASSUME NEW b \in Seq(Token), NEW i \in 0..Len(b)
    PROVE  /\ After(b, i) \in Seq(Token) /\ Len(After(b, i)) = Len(b) - i
           /\ \A j \in 1..Len(b) - i : After(b, i)[j] = b[i + j]
           /\ \A k \in 0..Len(b) - i : After(After(b, i), k) = After(b, i + k)
  <1>1. ASSUME NEW k \in 0..Len(b)
        PROVE  /\ After(b, k) \in Seq(Token) /\ Len(After(b, k)) = Len(b) - k
               /\ \A j \in 1..Len(b) - k : After(b, k)[j] = b[k + j]
    BY DEF After
  <1>2. PICK a : a = After(b, i)
    OBVIOUS
  <1>3. a \in Seq(Token) /\ Len(a) = Len(b) - i /\ \A j \in 1..Len(b) - i : a[j] = b[i + j]
    BY <1>1, <1>2
  <1>4. ASSUME NEW k \in 0..Len(b) - i PROVE After(a, k) = After(b, i + k)
    <2>1. PICK c : c = After(a, k)
      OBVIOUS
    <2>2. PICK d : d = After(b, i + k)
      OBVIOUS
    <2>3. c \in Seq(Token) /\ Len(c) = Len(b) - i - k /\ \A j \in 1..Len(c) : c[j] = b[i + k + j]
      BY <1>3, <2>1 DEF After
    <2>4. d \in Seq(Token) /\ Len(d) = Len(b) - i - k /\ \A j \in 1..Len(d) : d[j] = b[i + k + j]
      <3>1. PICK m \in 0..Len(b) : m = i + k
        OBVIOUS
      <3>2. d = After(b, m)
        BY <2>2, <3>1
      <3>3. d \in Seq(Token) /\ Len(d) = Len(b) - m /\ \A j \in 1..Len(b) - m : d[j] = b[m + j]
        BY <1>1, <3>2
      <3> QED
        BY <3>1, <3>3
    <2>5. Len(c) = Len(d) /\ \A j \in 1..Len(c) : c[j] = d[j]
      BY <2>3, <2>4
    <2>6. c = d
      BY <2>3, <2>4, <2>5, SeqEqual, Zenon
    <2> QED
      BY <2>1, <2>2, <2>6
  <1> QED
    BY <1>2, <1>3, <1>4

\* A number and a blank.
LEMMA NumericIs ==
    ASSUME NEW b \in Seq(Token), Len(b) >= 2, b[1][1] = "number", b[2][1] = "blank"
    PROVE  Numeric(b)
  <1>1. 2 \in 1..Len(b) /\ \A j \in 1..2 - 1 : b[j][1] # "blank"
    OBVIOUS
  <1>2. Find(b, "blank") = 2
    BY <1>1, FindIs, Zenon
  <1> QED
    BY <1>2 DEF Numeric

\* The counter behind the sign.
LEMMA SignedIs ==
    ASSUME NEW n \in Value32
    PROVE  Signed(n) \in Int /\ Signed(n) % (2 * Half) = n
  <1>1. PICK m \in Nat \ {0} : m = 2 * Half
    BY SerialAssumption
  <1>2. n \in 0..m - 1
    BY <1>1 DEF Value32
  <1>3. n % m = n /\ (n - m) % m = n
    BY <1>2
  <1> QED
    BY <1>1, <1>2, <1>3, SerialAssumption DEF Signed

\* The line of a port stands in b, behind the first i tokens.
Wide(port) == IF port.oe > 0 THEN 13 ELSE 10
Number(n) == <<"number", Signed(n)>>
LineAt(b, i, port) ==
    /\ i + Wide(port) <= Len(b)
    /\ b[i + 1] = T("uart") /\ b[i + 2] = T("blank") /\ b[i + 3] = T("tx:")
    /\ b[i + 4] = Number(port.tx) /\ b[i + 5] = T("blank") /\ b[i + 6] = T("rx:")
    /\ b[i + 7] = Number(port.rx) /\ b[i + 8] = T("blank")
    /\ port.oe = 0 => b[i + 9] = T("RTS") /\ b[i + 10] = T("newline")
    /\ port.oe > 0 => /\ b[i + 9] = T("oe:") /\ b[i + 10] = Number(port.oe)
                      /\ b[i + 11] = T("blank") /\ b[i + 12] = T("RTS") /\ b[i + 13] = T("newline")

\* u is s and then t.
Joins(S, u, s, t) ==
    /\ u \in Seq(S) /\ Len(u) = Len(s) + Len(t)
    /\ Len(s) \in Nat /\ Len(t) \in Nat
    /\ \A j \in 1..Len(s) : u[j] = s[j]
    /\ \A j \in 1..Len(t) : u[Len(s) + j] = t[j]

LEMMA Joined == \A S : \A s, t \in Seq(S) : Joins(S, s \o t, s, t)
  BY DEF Joins

LEMMA LineIs ==
    ASSUME NEW port \in PortState
    PROVE  /\ Line(port) \in Seq(Token) /\ Len(Line(port)) = Wide(port)
           /\ LineAt(Line(port), 0, port)
  <1>1. port.oe \in Nat /\ port.flags = TRUE
    <2>1. Value32 \subseteq Nat
      BY SerialAssumption DEF Value32
    <2> QED
      BY <2>1 DEF PortState
  <1>2. PICK tx \in Token : tx = Number(port.tx)
    BY SignedIs DEF PortState, Token, Number
  <1>3. PICK rx \in Token : rx = Number(port.rx)
    BY SignedIs DEF PortState, Token, Number
  <1>4. PICK oe \in Token : oe = Number(port.oe)
    BY SignedIs DEF PortState, Token, Number
  <1>5. /\ T("uart") \in Token /\ T("blank") \in Token /\ T("tx:") \in Token /\ T("rx:") \in Token
        /\ T("oe:") \in Token /\ T("RTS") \in Token /\ T("newline") \in Token
    BY DEF Token, T
  <1>6. PICK a : a = <<T("uart"), T("blank"), T("tx:"), tx, T("blank"), T("rx:"), rx>>
    OBVIOUS
  <1>7. /\ a \in Seq(Token) /\ Len(a) = 7
        /\ a[1] = T("uart") /\ a[2] = T("blank") /\ a[3] = T("tx:") /\ a[4] = tx
        /\ a[5] = T("blank") /\ a[6] = T("rx:") /\ a[7] = rx
    BY <1>5, <1>6
  <1>8. PICK c : c = <<T("blank"), T("RTS")>>
    OBVIOUS
  <1>9. c \in Seq(Token) /\ Len(c) = 2 /\ c[1] = T("blank") /\ c[2] = T("RTS")
    BY <1>5, <1>8
  <1>10. PICK d : d = <<T("newline")>>
    OBVIOUS
  <1>11. d \in Seq(Token) /\ Len(d) = 1 /\ d[1] = T("newline")
    BY <1>5, <1>10
  <1>12. PICK e : e = IF port.oe > 0 THEN <<T("blank"), T("oe:"), oe>> ELSE <<>>
    OBVIOUS
  <1>13. /\ e \in Seq(Token) /\ Len(e) = (IF port.oe > 0 THEN 3 ELSE 0)
         /\ port.oe > 0 => e[1] = T("blank") /\ e[2] = T("oe:") /\ e[3] = oe
    BY <1>5, <1>12
  <1>14. Line(port) = ((a \o e) \o c) \o d
    BY <1>1, <1>2, <1>3, <1>4, <1>6, <1>8, <1>10, <1>12 DEF Line, Number
  <1>15. PICK ae : ae = a \o e
    OBVIOUS
  <1>16. PICK ac : ac = ae \o c
    OBVIOUS
  <1>17. PICK ad : ad = ac \o d
    OBVIOUS
  <1>18. Line(port) = ad
    BY <1>14, <1>15, <1>16, <1>17
  <1>19. Joins(Token, ae, a, e)
    BY <1>7, <1>13, <1>15, Joined, Zenon
  <1>20. Joins(Token, ac, ae, c)
    <2>1. ae \in Seq(Token)
      BY <1>19, Zenon DEF Joins
    <2> QED
      BY <1>9, <1>16, <2>1, Joined, Zenon
  <1>21. Joins(Token, ad, ac, d)
    <2>1. ac \in Seq(Token)
      BY <1>20, Zenon DEF Joins
    <2> QED
      BY <1>11, <1>17, <2>1, Joined, Zenon
  <1>22. ad \in Seq(Token)
    BY <1>21, Zenon DEF Joins
  <1>23. CASE port.oe = 0
    <2>1. Len(e) = 0
      BY <1>13, <1>23
    <2>2. Len(ae) = 7 /\ \A j \in 1..7 : ae[j] = a[j]
      BY <1>7, <1>19, <2>1 DEF Joins
    <2>3. /\ Len(ac) = 9 /\ \A j \in 1..7 : ac[j] = a[j]
          /\ ac[8] = T("blank") /\ ac[9] = T("RTS")
      BY <1>9, <1>20, <2>2 DEF Joins
    <2>4. /\ Len(ad) = 10 /\ \A j \in 1..9 : ad[j] = ac[j]
          /\ ad[10] = T("newline")
      BY <1>11, <1>21, <2>3 DEF Joins
    <2>5. /\ ad[1] = a[1] /\ ad[2] = a[2] /\ ad[3] = a[3] /\ ad[4] = a[4]
          /\ ad[5] = a[5] /\ ad[6] = a[6] /\ ad[7] = a[7]
          /\ ad[8] = T("blank") /\ ad[9] = T("RTS")
      BY <2>3, <2>4
    <2>6. LineAt(ad, 0, port) /\ Wide(port) = 10
      BY <1>2, <1>3, <1>7, <1>23, <2>4, <2>5 DEF LineAt, Wide
    <2> QED
      BY <1>18, <1>22, <2>4, <2>6
  <1>24. CASE port.oe > 0
    <2>1. Len(e) = 3 /\ e[1] = T("blank") /\ e[2] = T("oe:") /\ e[3] = oe
      BY <1>13, <1>24
    <2>2. /\ Len(ae) = 10 /\ \A j \in 1..7 : ae[j] = a[j]
          /\ ae[8] = T("blank") /\ ae[9] = T("oe:") /\ ae[10] = oe
      BY <1>7, <1>19, <2>1 DEF Joins
    <2>3. /\ Len(ac) = 12 /\ \A j \in 1..10 : ac[j] = ae[j]
          /\ ac[11] = T("blank") /\ ac[12] = T("RTS")
      BY <1>9, <1>20, <2>2 DEF Joins
    <2>4. /\ Len(ad) = 13 /\ \A j \in 1..12 : ad[j] = ac[j]
          /\ ad[13] = T("newline")
      BY <1>11, <1>21, <2>3 DEF Joins
    <2>5. /\ ad[1] = a[1] /\ ad[2] = a[2] /\ ad[3] = a[3] /\ ad[4] = a[4]
          /\ ad[5] = a[5] /\ ad[6] = a[6] /\ ad[7] = a[7]
          /\ ad[8] = T("blank") /\ ad[9] = T("oe:") /\ ad[10] = oe
          /\ ad[11] = T("blank") /\ ad[12] = T("RTS")
      BY <2>2, <2>3, <2>4
    <2>6. LineAt(ad, 0, port) /\ Wide(port) = 13
      BY <1>1, <1>2, <1>3, <1>4, <1>7, <1>24, <2>4, <2>5 DEF LineAt, Wide
    <2> QED
      BY <1>18, <1>22, <2>4, <2>6
  <1> QED
    BY <1>1, <1>23, <1>24

\* A line stands where it is moved.
Copied(s, i, b, k, n) == k + n <= Len(b) /\ \A j \in 1..n : b[k + j] = s[i + j]

LEMMA LineMoved ==
    \A port \in PortState, s, b \in Seq(Token), i, k \in Nat :
        LineAt(s, i, port) /\ Copied(s, i, b, k, Wide(port)) => LineAt(b, k, port)
  <1> SUFFICES ASSUME NEW port \in PortState, NEW s \in Seq(Token), NEW b \in Seq(Token),
                      NEW i \in Nat, NEW k \in Nat,
                      LineAt(s, i, port), Copied(s, i, b, k, Wide(port))
               PROVE  LineAt(b, k, port)
    OBVIOUS
  <1>0. k + Wide(port) <= Len(b) /\ \A j \in 1..Wide(port) : b[k + j] = s[i + j]
    BY DEF Copied
  <1>1. port.oe \in Nat
    <2>1. Value32 \subseteq Nat
      BY SerialAssumption DEF Value32
    <2> QED
      BY <2>1 DEF PortState
  <1>2. CASE port.oe = 0
    <2>1. \A j \in 1..10 : b[k + j] = s[i + j]
      <3>1. Wide(port) = 10
        BY <1>2 DEF Wide
      <3> QED
        BY <1>0, <3>1
    <2>2. /\ b[k + 1] = s[i + 1] /\ b[k + 2] = s[i + 2] /\ b[k + 3] = s[i + 3] /\ b[k + 4] = s[i + 4]
          /\ b[k + 5] = s[i + 5] /\ b[k + 6] = s[i + 6] /\ b[k + 7] = s[i + 7] /\ b[k + 8] = s[i + 8]
          /\ b[k + 9] = s[i + 9] /\ b[k + 10] = s[i + 10]
      BY <2>1
    <2> QED
      BY <1>0, <1>2, <2>2 DEF LineAt
  <1>3. CASE port.oe > 0
    <2>1. \A j \in 1..13 : b[k + j] = s[i + j]
      <3>1. Wide(port) = 13
        BY <1>3 DEF Wide
      <3> QED
        BY <1>0, <3>1
    <2>2. /\ b[k + 1] = s[i + 1] /\ b[k + 2] = s[i + 2] /\ b[k + 3] = s[i + 3] /\ b[k + 4] = s[i + 4]
          /\ b[k + 5] = s[i + 5] /\ b[k + 6] = s[i + 6] /\ b[k + 7] = s[i + 7] /\ b[k + 8] = s[i + 8]
          /\ b[k + 9] = s[i + 9] /\ b[k + 10] = s[i + 10] /\ b[k + 11] = s[i + 11]
          /\ b[k + 12] = s[i + 12] /\ b[k + 13] = s[i + 13]
      BY <2>1
    <2> QED
      BY <1>0, <1>1, <1>3, <2>2 DEF LineAt
  <1> QED
    BY <1>1, <1>2, <1>3

\* The table: two tokens and three lines.
LEMMA TextIs ==
    ASSUME NEW p1 \in PortState, NEW p2 \in PortState, NEW p3 \in PortState,
           p1 = ports[1], p2 = ports[2], p3 = ports[3]
    PROVE  /\ Text \in Seq(Token) /\ Len(Text) = 2 + Wide(p1) + Wide(p2) + Wide(p3)
           /\ Text[1] = T("serinfo") /\ Text[2] = T("newline")
           /\ LineAt(Text, 2, p1) /\ LineAt(Text, 2 + Wide(p1), p2)
           /\ LineAt(Text, 2 + Wide(p1) + Wide(p2), p3)
  <1>1. PICK h : h = <<T("serinfo"), T("newline")>>
    OBVIOUS
  <1>2. h \in Seq(Token) /\ Len(h) = 2 /\ h[1] = T("serinfo") /\ h[2] = T("newline")
    BY <1>1 DEF T, Token
  <1>3. PICK l1 \in Seq(Token) : l1 = Line(p1) /\ Len(l1) = Wide(p1) /\ LineAt(l1, 0, p1)
    BY LineIs
  <1>4. PICK l2 \in Seq(Token) : l2 = Line(p2) /\ Len(l2) = Wide(p2) /\ LineAt(l2, 0, p2)
    BY LineIs
  <1>5. PICK l3 \in Seq(Token) : l3 = Line(p3) /\ Len(l3) = Wide(p3) /\ LineAt(l3, 0, p3)
    BY LineIs
  <1>6. PICK t1 : t1 = h \o l1
    OBVIOUS
  <1>7. PICK t2 : t2 = t1 \o l2
    OBVIOUS
  <1>8. PICK t3 : t3 = t2 \o l3
    OBVIOUS
  <1>9. Text = t3
    BY <1>1, <1>3, <1>4, <1>5, <1>6, <1>7, <1>8 DEF Text
  <1>10. PICK w1 \in Nat : w1 = Wide(p1)
    BY DEF Wide
  <1>11. PICK w2 \in Nat : w2 = Wide(p2)
    BY DEF Wide
  <1>12. PICK w3 \in Nat : w3 = Wide(p3)
    BY DEF Wide
  <1>13. Joins(Token, t1, h, l1)
    BY <1>2, <1>6, Joined, Zenon
  <1>14. Joins(Token, t2, t1, l2)
    <2>1. t1 \in Seq(Token)
      BY <1>13, Zenon DEF Joins
    <2> QED
      BY <1>7, <2>1, Joined, Zenon
  <1>15. Joins(Token, t3, t2, l3)
    <2>1. t2 \in Seq(Token)
      BY <1>14, Zenon DEF Joins
    <2> QED
      BY <1>8, <2>1, Joined, Zenon
  <1>16. /\ t1 \in Seq(Token) /\ Len(t1) = 2 + w1
         /\ t1[1] = h[1] /\ t1[2] = h[2] /\ \A j \in 1..w1 : t1[2 + j] = l1[j]
    BY <1>2, <1>3, <1>10, <1>13 DEF Joins
  <1>17. /\ t2 \in Seq(Token) /\ Len(t2) = 2 + w1 + w2
         /\ \A j \in 1..2 + w1 : t2[j] = t1[j]
         /\ \A j \in 1..w2 : t2[2 + w1 + j] = l2[j]
    BY <1>4, <1>11, <1>14, <1>16 DEF Joins
  <1>18. /\ t3 \in Seq(Token) /\ Len(t3) = 2 + w1 + w2 + w3
         /\ \A j \in 1..2 + w1 + w2 : t3[j] = t2[j]
         /\ \A j \in 1..w3 : t3[2 + w1 + w2 + j] = l3[j]
    BY <1>5, <1>12, <1>15, <1>17 DEF Joins
  <1>19. t3[1] = h[1] /\ t3[2] = h[2]
    BY <1>16, <1>17, <1>18
  <1>20. \A j \in 1..w1 : t3[2 + j] = l1[0 + j]
    BY <1>16, <1>17, <1>18
  <1>21. \A j \in 1..w2 : t3[2 + w1 + j] = l2[0 + j]
    <2> TAKE j \in 1..w2
    <2>1. PICK k \in 1..2 + w1 + w2 : k = 2 + w1 + j
      OBVIOUS
    <2>2. t3[k] = t2[k] /\ t2[2 + w1 + j] = l2[j] /\ 0 + j = j
      BY <1>17, <1>18
    <2> QED
      BY <2>1, <2>2
  <1>22. \A j \in 1..w3 : t3[2 + w1 + w2 + j] = l3[0 + j]
    <2> TAKE j \in 1..w3
    <2>1. t3[2 + w1 + w2 + j] = l3[j] /\ 0 + j = j
      BY <1>18
    <2> QED
      BY <2>1
  <1>23. LineAt(t3, 2, p1)
    <2>1. Copied(l1, 0, t3, 2, Wide(p1))
      BY <1>10, <1>18, <1>20 DEF Copied
    <2> QED
      BY <1>3, <1>18, <2>1, LineMoved
  <1>24. LineAt(t3, 2 + w1, p2)
    <2>1. PICK k \in Nat : k = 2 + w1
      OBVIOUS
    <2>2. Copied(l2, 0, t3, k, Wide(p2))
      BY <1>11, <1>18, <1>21, <2>1 DEF Copied
    <2>3. LineAt(t3, k, p2)
      BY <1>4, <1>18, <2>2, LineMoved
    <2> QED
      BY <2>1, <2>3
  <1>25. LineAt(t3, 2 + w1 + w2, p3)
    <2>1. PICK k \in Nat : k = 2 + w1 + w2
      OBVIOUS
    <2>2. Copied(l3, 0, t3, k, Wide(p3))
      BY <1>12, <1>18, <1>22, <2>1 DEF Copied
    <2>3. LineAt(t3, k, p3)
      BY <1>5, <1>18, <2>2, LineMoved
    <2> QED
      BY <2>1, <2>3
  <1> QED
    BY <1>2, <1>9, <1>10, <1>11, <1>12, <1>18, <1>19, <1>23, <1>24, <1>25

LEMMA Words ==
    /\ \A word : T(word)[1] = word
    /\ \A n : Number(n)[1] = "number" /\ Number(n)[2] = Signed(n)
  BY DEF T, Number

\* What follows rx: on the line of a port.
RestOf(rx, port) ==
    /\ rx \in Seq(Token) /\ Len(rx) >= Wide(port) - 6
    /\ rx[1] = Number(port.rx) /\ rx[2] = T("blank")
    /\ port.oe = 0 => rx[3] = T("RTS") /\ rx[4] = T("newline")
    /\ port.oe > 0 => /\ rx[3] = T("oe:") /\ rx[4] = Number(port.oe)
                      /\ rx[5] = T("blank") /\ rx[6] = T("RTS") /\ rx[7] = T("newline")

LEMMA RestIs ==
    ASSUME NEW port \in PortState, NEW rx, RestOf(rx, port)
    PROVE  /\ Numeric(rx) /\ uint32(rx) = port.rx /\ Find(rx, "newline") # 0
           /\ port.oe = 0 => Errors(rx) = <<>>
           /\ port.oe > 0 => /\ Errors(rx) # <<>> /\ Numeric(Errors(rx))
                             /\ uint32(Errors(rx)) = port.oe
  <1>1. port.rx \in Value32 /\ port.oe \in Value32 /\ port.oe \in Nat
    <2>1. Value32 \subseteq Nat
      BY SerialAssumption DEF Value32
    <2> QED
      BY <2>1 DEF PortState
  <1>2. rx \in Seq(Token) /\ Len(rx) \in Nat /\ Len(rx) >= 4 /\ (port.oe > 0 => Len(rx) >= 7)
    BY <1>1 DEF RestOf, Wide
  <1>3. rx[1][1] = "number" /\ rx[1][2] = Signed(port.rx) /\ rx[2][1] = "blank"
    BY Words DEF RestOf
  <1>4. Numeric(rx)
    BY <1>2, <1>3, NumericIs
  <1>5. uint32(rx) = port.rx
    BY <1>1, <1>3, SignedIs DEF uint32
  <1>6. CASE port.oe = 0
    <2>1. rx[3][1] = "RTS" /\ rx[4][1] = "newline"
      BY <1>6, Words DEF RestOf
    <2>2. Find(rx, "newline") = 4
      <3>1. 4 \in 1..Len(rx)
        BY <1>2
      <3>2. \A j \in 1..4 - 1 : j = 1 \/ j = 2 \/ j = 3
        OBVIOUS
      <3>3. \A j \in 1..4 - 1 : rx[j][1] # "newline"
        BY <1>3, <2>1, <3>2
      <3> QED
        BY <1>2, <2>1, <3>1, <3>3, FindIs, Zenon
    <2>3. PICK q : q = SubSeq(rx, 1, 4)
      OBVIOUS
    <2>4. q \in Seq(Token) /\ Len(q) = 4 /\ \A j \in 1..4 : q[j] = rx[j]
      BY <1>2, <2>3
    <2>5. \A j \in 1..Len(q) : q[j][1] # "oe:"
      <3>1. \A j \in 1..4 : j = 1 \/ j = 2 \/ j = 3 \/ j = 4
        OBVIOUS
      <3> QED
        BY <1>3, <2>1, <2>4, <3>1
    <2>6. Find(q, "oe:") = 0
      BY <2>4, <2>5, FindNothing
    <2>7. Errors(rx) = <<>>
      BY <2>2, <2>3, <2>6, Zenon DEF Errors
    <2> QED
      BY <1>4, <1>5, <1>6, <2>2, <2>7
  <1>7. CASE port.oe > 0
    <2>1. /\ rx[3][1] = "oe:" /\ rx[4][1] = "number" /\ rx[4][2] = Signed(port.oe)
          /\ rx[5][1] = "blank" /\ rx[6][1] = "RTS" /\ rx[7][1] = "newline"
      BY <1>7, Words DEF RestOf
    <2>2. Find(rx, "newline") = 7
      <3>1. 7 \in 1..Len(rx)
        BY <1>2, <1>7
      <3>2. \A j \in 1..7 - 1 : j = 1 \/ j = 2 \/ j = 3 \/ j = 4 \/ j = 5 \/ j = 6
        OBVIOUS
      <3>3. \A j \in 1..7 - 1 : rx[j][1] # "newline"
        BY <1>3, <2>1, <3>2
      <3> QED
        BY <1>2, <2>1, <3>1, <3>3, FindIs, Zenon
    <2>3. PICK q : q = SubSeq(rx, 1, 7)
      OBVIOUS
    <2>4. q \in Seq(Token) /\ Len(q) = 7 /\ \A j \in 1..7 : q[j] = rx[j]
      BY <1>2, <1>7, <2>3
    <2>5. Find(q, "oe:") = 3
      <3>1. 3 \in 1..Len(q) /\ q[3][1] = "oe:"
        BY <2>1, <2>4
      <3>2. \A j \in 1..3 - 1 : j = 1 \/ j = 2
        OBVIOUS
      <3>3. \A j \in 1..3 - 1 : q[j][1] # "oe:"
        BY <1>3, <2>4, <3>2
      <3> QED
        BY <2>4, <3>1, <3>3, FindIs, Zenon
    <2>6. PICK oe : oe = After(rx, 3)
      OBVIOUS
    <2>7. Errors(rx) = oe
      <3>1. 3 # 0
        OBVIOUS
      <3> QED
        BY <2>2, <2>3, <2>5, <2>6, <3>1, Zenon DEF Errors
    <2>8. oe \in Seq(Token) /\ Len(oe) = Len(rx) - 3 /\ \A j \in 1..Len(rx) - 3 : oe[j] = rx[3 + j]
      <3>1. 3 \in 0..Len(rx)
        BY <1>2
      <3> QED
        BY <1>2, <2>6, <3>1, AfterIs, Zenon
    <2>9. Len(oe) >= 2 /\ oe[1] = rx[4] /\ oe[2] = rx[5]
      BY <1>2, <1>7, <2>8
    <2>10. Numeric(oe)
      BY <2>1, <2>8, <2>9, NumericIs
    <2>11. oe # <<>>
      BY <2>8, <2>9
    <2>12. uint32(oe) = port.oe
      BY <1>1, <2>1, <2>9, SignedIs DEF uint32
    <2> QED
      BY <1>4, <1>5, <1>7, <2>2, <2>7, <2>10, <2>11, <2>12
  <1> QED
    BY <1>1, <1>6, <1>7

Found(r, rest, port) ==
    [rest |-> rest, counters |-> r.counters \o <<port.tx, port.rx, port.oe>>]

\* A round of the loop finds the counters of the line that follows i.
FirstLine(r, b, i, port) ==
    /\ b \in Seq(Token) /\ r.rest = b /\ i \in Nat /\ port \in PortState
    /\ LineAt(b, i, port) /\ \A j \in 1..i : b[j][1] # "tx:"

LEMMA parseLineIs ==
    \A r, b, i, port : FirstLine(r, b, i, port) => parseLine(r) = Found(r, After(b, i + 6), port)
  <1> SUFFICES ASSUME NEW r, NEW b \in Seq(Token), r.rest = b, NEW i \in Nat, NEW port \in PortState,
                      LineAt(b, i, port), \A j \in 1..i : b[j][1] # "tx:"
               PROVE  parseLine(r) = Found(r, After(b, i + 6), port)
    BY DEF FirstLine
  <1>1. port.tx \in Value32 /\ port.oe \in Nat
    <2>1. Value32 \subseteq Nat
      BY SerialAssumption DEF Value32
    <2> QED
      BY <2>1 DEF PortState
  <1>2. PICK w \in Nat : w = Wide(port) /\ w >= 10 /\ (port.oe > 0 => w = 13) /\ i + w <= Len(b)
    <2>1. PICK w \in Nat : w = Wide(port) /\ w >= 10 /\ (port.oe > 0 => w = 13)
      BY DEF Wide
    <2>2. i + Wide(port) <= Len(b)
      BY DEF LineAt
    <2> QED
      BY <2>1, <2>2
  <1>3. PICK k \in Nat : k = i + 3
    OBVIOUS
  <1>4. PICK n \in Nat : n = i + 6
    OBVIOUS
  <1>5. Len(b) \in Nat /\ k \in 1..Len(b) /\ k \in 0..Len(b) /\ n \in 0..Len(b)
    BY <1>2, <1>3, <1>4
  <1>6. /\ b[i + 1] = T("uart") /\ b[i + 2] = T("blank") /\ b[k] = T("tx:")
        /\ b[k + 1] = Number(port.tx) /\ b[k + 2] = T("blank")
    BY <1>3 DEF LineAt
  <1>7. Find(b, "tx:") = k
    <2>1. b[i + 1][1] = "uart" /\ b[i + 2][1] = "blank" /\ b[k][1] = "tx:"
      BY <1>6, Words
    <2>2. \A j \in 1..k - 1 : j \in 1..i \/ j = i + 1 \/ j = i + 2
      BY <1>3
    <2>3. \A j \in 1..k - 1 : b[j][1] # "tx:"
      BY <2>1, <2>2
    <2> QED
      BY <1>5, <2>1, <2>3, FindIs, Zenon
  <1>8. PICK tx : tx = After(b, k)
    OBVIOUS
  <1>9. /\ tx \in Seq(Token) /\ Len(tx) = Len(b) - k
        /\ \A j \in 1..Len(b) - k : tx[j] = b[k + j]
        /\ \A j \in 0..Len(b) - k : After(tx, j) = After(b, k + j)
    BY <1>5, <1>8, AfterIs, Zenon
  <1>10. tx[1] = b[k + 1] /\ tx[2] = b[k + 2] /\ Len(tx) >= 2
    BY <1>2, <1>3, <1>5, <1>9, SMTT(40)
  <1>11. tx[1][1] = "number" /\ tx[1][2] = Signed(port.tx) /\ tx[2][1] = "blank"
    BY <1>6, <1>10, Words
  <1>12. Numeric(tx) /\ uint32(tx) = port.tx
    BY <1>1, <1>9, <1>10, <1>11, NumericIs, SignedIs DEF uint32
  <1>13. PICK rx : rx = After(b, n)
    OBVIOUS
  <1>14. After(tx, 3) = rx
    <2>1. 3 \in 0..Len(b) - k /\ k + 3 = n
      BY <1>2, <1>3, <1>4, <1>5
    <2> QED
      BY <1>9, <1>13, <2>1
  <1>15. /\ rx \in Seq(Token) /\ Len(rx) = Len(b) - n
         /\ \A j \in 1..Len(b) - n : rx[j] = b[n + j]
    BY <1>5, <1>13, AfterIs, Zenon
  <1>16. RestOf(rx, port)
    <2>1. \A j \in 1..w - 6 : rx[j] = b[i + (6 + j)]
      <3> TAKE j \in 1..w - 6
      <3>1. j \in 1..Len(b) - n /\ n + j = i + (6 + j)
        BY <1>2, <1>4, <1>5
      <3>2. rx[j] = b[n + j]
        BY <1>15, <3>1
      <3> QED
        BY <3>1, <3>2
    <2>2. rx[1] = b[i + 7] /\ rx[2] = b[i + 8] /\ rx[3] = b[i + 9] /\ rx[4] = b[i + 10]
      BY <1>2, <2>1
    <2>3. port.oe > 0 => rx[5] = b[i + 11] /\ rx[6] = b[i + 12] /\ rx[7] = b[i + 13]
      BY <1>2, <2>1
    <2>4. Len(rx) >= Wide(port) - 6
      BY <1>2, <1>4, <1>5, <1>15
    <2> QED
      BY <1>1, <1>15, <2>2, <2>3, <2>4 DEF RestOf, LineAt
  <1>17. /\ Numeric(rx) /\ uint32(rx) = port.rx /\ Find(rx, "newline") # 0
         /\ port.oe = 0 => Errors(rx) = <<>>
         /\ port.oe > 0 => Errors(rx) # <<>> /\ Numeric(Errors(rx)) /\ uint32(Errors(rx)) = port.oe
    BY <1>16, RestIs
  <1>18. PICK e : e = Errors(rx)
    OBVIOUS
  <1>19. /\ e = <<>> \/ Numeric(e)
         /\ (IF e = <<>> THEN 0 ELSE uint32(e)) = port.oe
    BY <1>1, <1>17, <1>18
  <1>20. k # 0
    BY <1>5
  <1>21. parseLine(r) = IF /\ k # 0 /\ Numeric(tx) /\ Numeric(rx) /\ Find(rx, "newline") # 0
                           /\ e = <<>> \/ Numeric(e)
                        THEN [rest |-> rx,
                              counters |-> r.counters \o <<uint32(tx), uint32(rx), IF e = <<>> THEN 0 ELSE uint32(e)>>]
                        ELSE r
    BY <1>7, <1>8, <1>14, <1>18, Zenon DEF parseLine
  <1>22. parseLine(r) = [rest |-> rx, counters |-> r.counters \o <<port.tx, port.rx, port.oe>>]
    BY <1>12, <1>17, <1>19, <1>20, <1>21
  <1> QED
    BY <1>4, <1>13, <1>22 DEF Found

LEMMA parseLineStops ==
    ASSUME NEW r, NEW b \in Seq(Token), r.rest = b, \A j \in 1..Len(b) : b[j][1] # "tx:"
    PROVE  parseLine(r) = r
  <1>1. Find(b, "tx:") = 0
    BY FindNothing
  <1> QED
    BY <1>1 DEF parseLine

\* Behind its tx: a line has no other.
LEMMA OneNumber ==
    ASSUME NEW b \in Seq(Token), NEW i \in Nat, NEW port \in PortState, LineAt(b, i, port)
    PROVE  \A j \in 7..Wide(port) : b[i + j][1] # "tx:"
  <1>1. port.oe \in Nat
    <2>1. Value32 \subseteq Nat
      BY SerialAssumption DEF Value32
    <2> QED
      BY <2>1 DEF PortState
  <1>2. b[i + 7][1] = "number" /\ b[i + 8][1] = "blank"
    BY Words DEF LineAt
  <1>3. CASE port.oe = 0
    <2>1. b[i + 9][1] = "RTS" /\ b[i + 10][1] = "newline"
      BY <1>3, Words DEF LineAt
    <2>2. \A j \in 7..Wide(port) : j = 7 \/ j = 8 \/ j = 9 \/ j = 10
      BY <1>3 DEF Wide
    <2> QED
      BY <1>2, <2>1, <2>2
  <1>4. CASE port.oe > 0
    <2>1. /\ b[i + 9][1] = "oe:" /\ b[i + 10][1] = "number"
          /\ b[i + 11][1] = "blank" /\ b[i + 12][1] = "RTS" /\ b[i + 13][1] = "newline"
      BY <1>4, Words DEF LineAt
    <2>2. \A j \in 7..Wide(port) : j = 7 \/ j = 8 \/ j = 9 \/ j = 10 \/ j = 11 \/ j = 12 \/ j = 13
      BY <1>4 DEF Wide
    <2> QED
      BY <1>2, <2>1, <2>2
  <1> QED
    BY <1>1, <1>3, <1>4

\* The table is read to its end in three rounds, whatever counters have errors.
LEMMA parseSerialIs ==
    ASSUME NEW p1 \in PortState, NEW p2 \in PortState, NEW p3 \in PortState,
           p1 = ports[1], p2 = ports[2], p3 = ports[3]
    PROVE  parseSerial(Text) =
              ((<<>> \o <<p1.tx, p1.rx, p1.oe>>) \o <<p2.tx, p2.rx, p2.oe>>) \o <<p3.tx, p3.rx, p3.oe>>
  <1>1. PICK b \in Seq(Token) : b = Text
    BY TextIs
  <1>2. PICK w1 \in Nat : w1 = Wide(p1) /\ w1 >= 10
    BY DEF Wide
  <1>3. PICK w2 \in Nat : w2 = Wide(p2) /\ w2 >= 10
    BY DEF Wide
  <1>4. PICK w3 \in Nat : w3 = Wide(p3) /\ w3 >= 10
    BY DEF Wide
  <1>5. PICK i2 \in Nat : i2 = 2 + w1
    OBVIOUS
  <1>6. PICK i3 \in Nat : i3 = 2 + w1 + w2
    OBVIOUS
  <1>7. /\ Len(b) = 2 + w1 + w2 + w3 /\ b[1] = T("serinfo") /\ b[2] = T("newline")
        /\ LineAt(b, 2, p1) /\ LineAt(b, i2, p2) /\ LineAt(b, i3, p3)
    BY <1>1, <1>2, <1>3, <1>4, <1>5, <1>6, TextIs
  <1>a. /\ w1 >= 10 /\ w2 >= 10 /\ w3 >= 10
        /\ Len(b) \in Nat /\ Len(b) = 2 + w1 + w2 + w3
    BY <1>2, <1>3, <1>4, <1>7
  \* No other tx: than those of the lines.
  <1>8. \A j \in 1..2 : b[j][1] # "tx:"
    <2>1. b[1][1] = "serinfo" /\ b[2][1] = "newline"
      BY <1>7, Words
    <2>2. \A j \in 1..2 : j = 1 \/ j = 2
      OBVIOUS
    <2> QED
      BY <2>1, <2>2
  <1>9. /\ \A j \in 7..w1 : b[2 + j][1] # "tx:"
        /\ \A j \in 7..w2 : b[i2 + j][1] # "tx:"
        /\ \A j \in 7..w3 : b[i3 + j][1] # "tx:"
    BY <1>2, <1>3, <1>4, <1>7, OneNumber
  <1> DEFINE r0 == [rest |-> b, counters |-> <<>>]
             r1 == Found(r0, After(b, 8), p1)
             r2 == Found(r1, After(b, i2 + 6), p2)
             r3 == Found(r2, After(b, i3 + 6), p3)
  <1>10. parseLine(r0) = r1
    <2>1. r0.rest = b /\ 2 + 6 = 8 /\ 2 \in Nat
      OBVIOUS
    <2> HIDE DEF r0
    <2>2. parseLine(r0) = Found(r0, After(b, 2 + 6), p1)
      <3>1. FirstLine(r0, b, 2, p1)
        BY <1>7, <1>8, <2>1 DEF FirstLine
      <3> QED
        BY <3>1, parseLineIs, Zenon
    <2> QED
      BY <2>1, <2>2
  <1>11. parseLine(r1) = r2
    <2>1. PICK k \in Nat : k = i2 - 8
      BY <1>a, <1>5, <1>6
    <2>2. PICK c : c = After(b, 8)
      OBVIOUS
    <2>3. /\ c \in Seq(Token) /\ Len(c) = Len(b) - 8
          /\ \A j \in 1..Len(b) - 8 : c[j] = b[8 + j]
          /\ \A j \in 0..Len(b) - 8 : After(c, j) = After(b, 8 + j)
      <3>1. 8 \in 0..Len(b)
        BY <1>a
      <3> QED
        BY <2>2, <3>1, AfterIs, Zenon
    <2>4. LineAt(c, k, p2)
      <3>1. \A j \in 1..w2 : c[k + j] = b[i2 + j]
        <4> TAKE j \in 1..w2
        <4>1. k + j \in 1..Len(b) - 8 /\ 8 + (k + j) = i2 + j
          BY <1>a, <1>5, <2>1
        <4>2. c[k + j] = b[8 + (k + j)]
          BY <2>3, <4>1
        <4> QED
          BY <4>1, <4>2
      <3>2. k + w2 <= Len(c)
        BY <1>a, <1>5, <2>1, <2>3
      <3>3. Copied(b, i2, c, k, Wide(p2))
        BY <1>3, <3>1, <3>2 DEF Copied
      <3> QED
        BY <1>7, <2>3, <3>3, LineMoved
    <2>5. \A j \in 1..k : c[j][1] # "tx:"
      <3> TAKE j \in 1..k
      <3>1. j \in 1..Len(b) - 8 /\ 6 + j \in 7..w1 /\ 2 + (6 + j) = 8 + j
        BY <1>a, <1>5, <2>1
      <3>2. c[j] = b[8 + j] /\ b[2 + (6 + j)][1] # "tx:"
        BY <1>9, <2>3, <3>1
      <3> QED
        BY <3>1, <3>2
    <2>6. After(c, k + 6) = After(b, i2 + 6)
      <3>1. k + 6 \in 0..Len(b) - 8 /\ 8 + (k + 6) = i2 + 6
        BY <1>a, <1>5, <2>1
      <3>2. After(c, k + 6) = After(b, 8 + (k + 6))
        BY <2>3, <3>1
      <3> QED
        BY <3>1, <3>2
    <2>7. PICK r : r = r1
      OBVIOUS
    <2>8. r.rest = c
      BY <2>2, <2>7 DEF Found
    <2>9. parseLine(r) = Found(r, After(c, k + 6), p2)
      <3>1. FirstLine(r, c, k, p2)
        BY <2>3, <2>4, <2>5, <2>8 DEF FirstLine
      <3> QED
        BY <3>1, parseLineIs, Zenon
    <2>10. parseLine(r) = Found(r, After(b, i2 + 6), p2)
      BY <2>6, <2>9, Zenon
    <2> QED
      BY <2>7, <2>10, Zenon
  <1>12. parseLine(r2) = r3
    <2>1. PICK k \in Nat : k = i3 - (i2 + 6)
      BY <1>a, <1>5, <1>6
    <2>2. PICK n \in Nat : n = i2 + 6
      OBVIOUS
    <2>3. PICK c : c = After(b, n)
      OBVIOUS
    <2>4. /\ c \in Seq(Token) /\ Len(c) = Len(b) - n
          /\ \A j \in 1..Len(b) - n : c[j] = b[n + j]
          /\ \A j \in 0..Len(b) - n : After(c, j) = After(b, n + j)
      <3>1. n \in 0..Len(b)
        BY <1>a, <1>5, <2>2
      <3> QED
        BY <2>3, <3>1, AfterIs, Zenon
    <2>5. LineAt(c, k, p3)
      <3>1. \A j \in 1..w3 : c[k + j] = b[i3 + j]
        <4> TAKE j \in 1..w3
        <4>1. k + j \in 1..Len(b) - n /\ n + (k + j) = i3 + j
          BY <1>a, <1>5, <1>6, <2>1, <2>2
        <4>2. c[k + j] = b[n + (k + j)]
          BY <2>4, <4>1
        <4> QED
          BY <4>1, <4>2
      <3>2. k + w3 <= Len(c)
        BY <1>a, <1>5, <1>6, <2>1, <2>2, <2>4
      <3>3. Copied(b, i3, c, k, Wide(p3))
        BY <1>4, <3>1, <3>2 DEF Copied
      <3> QED
        BY <1>7, <2>4, <3>3, LineMoved
    <2>6. \A j \in 1..k : c[j][1] # "tx:"
      <3> TAKE j \in 1..k
      <3>1. j \in 1..Len(b) - n /\ 6 + j \in 7..w2 /\ i2 + (6 + j) = n + j
        BY <1>a, <1>5, <1>6, <2>1, <2>2
      <3>2. c[j] = b[n + j] /\ b[i2 + (6 + j)][1] # "tx:"
        BY <1>9, <2>4, <3>1
      <3> QED
        BY <3>1, <3>2
    <2>7. After(c, k + 6) = After(b, i3 + 6)
      <3>1. k + 6 \in 0..Len(b) - n /\ n + (k + 6) = i3 + 6
        BY <1>a, <1>5, <1>6, <2>1, <2>2
      <3>2. After(c, k + 6) = After(b, n + (k + 6))
        BY <2>4, <3>1
      <3> QED
        BY <3>1, <3>2
    <2>8. PICK r : r = r2
      OBVIOUS
    <2>9. r.rest = c
      BY <2>2, <2>3, <2>8 DEF Found
    <2>10. parseLine(r) = Found(r, After(c, k + 6), p3)
      <3>1. FirstLine(r, c, k, p3)
        BY <2>4, <2>5, <2>6, <2>9 DEF FirstLine
      <3> QED
        BY <3>1, parseLineIs, Zenon
    <2>11. parseLine(r) = Found(r, After(b, i3 + 6), p3)
      BY <2>7, <2>10, Zenon
    <2> QED
      BY <2>8, <2>11, Zenon
  <1>13. parseLine(r3) = r3
    <2>1. PICK n \in Nat : n = i3 + 6
      OBVIOUS
    <2>2. PICK c : c = After(b, n)
      OBVIOUS
    <2>3. /\ c \in Seq(Token) /\ Len(c) = Len(b) - n
          /\ \A j \in 1..Len(b) - n : c[j] = b[n + j]
      <3>1. n \in 0..Len(b)
        BY <1>a, <1>6, <2>1
      <3> QED
        BY <2>2, <3>1, AfterIs, Zenon
    <2>4. \A j \in 1..Len(c) : c[j][1] # "tx:"
      <3> TAKE j \in 1..Len(c)
      <3>1. j \in 1..Len(b) - n /\ 6 + j \in 7..w3 /\ i3 + (6 + j) = n + j
        BY <1>a, <1>6, <2>1, <2>3
      <3>2. c[j] = b[n + j] /\ b[i3 + (6 + j)][1] # "tx:"
        BY <1>9, <2>3, <3>1
      <3> QED
        BY <3>1, <3>2
    <2>5. PICK r : r = r3
      OBVIOUS
    <2>6. r.rest = c
      BY <2>1, <2>2, <2>5 DEF Found
    <2>7. parseLine(r) = r
      BY <2>3, <2>4, <2>6, parseLineStops
    <2> QED
      BY <2>5, <2>7
  <1>14. r3.counters = ((<<>> \o <<p1.tx, p1.rx, p1.oe>>) \o <<p2.tx, p2.rx, p2.oe>>) \o <<p3.tx, p3.rx, p3.oe>>
    BY DEF Found
  <1> HIDE DEF r0, r1, r2, r3
  <1> DEFINE V == {r0, r1, r2, r3}
  <1>15. PICK step : step = [k \in Nat |-> [r \in V |-> parseLine(r)]]
    OBVIOUS
  <1>16. step \in [Nat -> [V -> V]] /\ r0 \in V
    BY <1>10, <1>11, <1>12, <1>13, <1>15
  <1>17. PICK f : Goes(f, V, r0, step)
    <2> HIDE DEF V
    <2> QED
      BY <1>16, Recursion, Zenon
  <1> DEFINE Right(l) == l = [k \in Nat |-> IF k = 0 THEN [rest |-> b, counters |-> <<>>] ELSE parseLine(l[k - 1])]
  <1>18. Right(f)
    <2>1. ASSUME NEW k \in Nat PROVE f[k] = IF k = 0 THEN r0 ELSE parseLine(f[k - 1])
      <3>1. CASE k = 0
        BY <1>17, <3>1 DEF Goes
      <3>2. CASE k # 0
        <4>1. k - 1 \in Nat /\ (k - 1) + 1 = k
          BY <3>2
        <4>2. f[k] = step[k - 1][f[k - 1]] /\ f[k - 1] \in V
          BY <1>17, <4>1 DEF Goes
        <4>3. step[k - 1][f[k - 1]] = parseLine(f[k - 1])
          BY <1>15, <4>1, <4>2
        <4> QED
          BY <3>2, <4>2, <4>3
      <3> QED
        BY <3>1, <3>2
    <2>2. f = [k \in Nat |-> IF k = 0 THEN r0 ELSE parseLine(f[k - 1])]
      BY <1>17, <2>1 DEF Goes
    <2> QED
      BY <2>2 DEF r0
  <1>19. Right(Lines(b))
    BY <1>18, Zenon DEF Lines
  <1>20. PICK l : l = Lines(b)
    OBVIOUS
  <1>21. l[0] = r0 /\ \A k \in Nat : l[k + 1] = parseLine(l[k])
    <2>1. l = [k \in Nat |-> IF k = 0 THEN r0 ELSE parseLine(l[k - 1])]
      BY <1>19, <1>20 DEF r0
    <2>2. ASSUME NEW k \in Nat PROVE l[k + 1] = parseLine(l[k])
      <3>1. k + 1 \in Nat /\ k + 1 # 0 /\ (k + 1) - 1 = k
        OBVIOUS
      <3> QED
        BY <2>1, <3>1
    <2> QED
      BY <2>1, <2>2
  <1>22. l[3] = r3
    <2>1. l[0 + 1] = parseLine(l[0]) /\ l[1 + 1] = parseLine(l[1]) /\ l[2 + 1] = parseLine(l[2])
      BY <1>21
    <2>2. l[1] = r1
      BY <1>10, <1>21, <2>1
    <2>3. l[2] = r2
      BY <1>11, <2>1, <2>2
    <2> QED
      BY <1>12, <2>1, <2>3
  <1>23. \A k \in Nat : l[k + 3] = r3
    <2> DEFINE S == {k \in Nat : l[k + 3] = r3}
    <2>1. 0 \in S
      BY <1>22
    <2>2. ASSUME NEW k \in Nat, k \in S PROVE k + 1 \in S
      <3>1. l[(k + 3) + 1] = parseLine(l[k + 3]) /\ (k + 3) + 1 = (k + 1) + 3
        BY <1>21
      <3> QED
        BY <1>13, <2>2, <3>1
    <2> HIDE DEF S
    <2>3. Nat \subseteq S
      BY <2>1, <2>2, Induction
    <2> QED
      BY <2>3 DEF S
  <1>24. l[Len(b)] = r3
    <2>1. PICK k \in Nat : k + 3 = Len(b)
      BY <1>a
    <2> QED
      BY <1>23, <2>1
  <1> QED
    BY <1>1, <1>14, <1>20, <1>24 DEF parseSerial

IsTriple(a, x, y, z) ==
    a \in Seq(Nat) /\ Len(a) = 3 /\ a[1] = x /\ a[2] = y /\ a[3] = z

LEMMA Three == \A x, y, z \in Nat : IsTriple(<<x, y, z>>, x, y, z)
  BY DEF IsTriple

Ends(d, b, c) ==
    /\ Len(d) = 9 /\ d[4] = b[1] /\ d[5] = b[2] /\ d[6] = b[3]
    /\ d[7] = c[1] /\ d[8] = c[2] /\ d[9] = c[3]

LEMMA Nine ==
    \A a, b, c \in Seq(Nat) :
        Len(a) = 3 /\ Len(b) = 3 /\ Len(c) = 3 => Ends(((<<>> \o a) \o b) \o c, b, c)
  <1> SUFFICES ASSUME NEW a \in Seq(Nat), NEW b \in Seq(Nat), NEW c \in Seq(Nat),
                      Len(a) = 3, Len(b) = 3, Len(c) = 3,
                      NEW d, d = ((<<>> \o a) \o b) \o c
               PROVE  Ends(d, b, c)
    OBVIOUS
  <1>1. <<>> \o a = a
    OBVIOUS
  <1>2. PICK ab : ab = a \o b
    OBVIOUS
  <1>3. Joins(Nat, ab, a, b)
    BY <1>2, Joined, Zenon
  <1>4. d = ab \o c
    BY <1>1, <1>2
  <1>5. Joins(Nat, d, ab, c)
    <2>1. ab \in Seq(Nat)
      BY <1>3, Zenon DEF Joins
    <2> QED
      BY <1>4, <2>1, Joined, Zenon
  <1>6. Len(ab) = 6 /\ ab[4] = b[1] /\ ab[5] = b[2] /\ ab[6] = b[3]
    BY <1>3 DEF Joins
  <1>7. /\ Len(d) = 9
        /\ \A j \in 1..6 : d[j] = ab[j]
        /\ \A j \in 1..3 : d[6 + j] = c[j]
    BY <1>5, <1>6 DEF Joins
  <1>8. d[6 + 1] = c[1] /\ d[6 + 2] = c[2] /\ d[6 + 3] = c[3]
    BY <1>7, SMTT(40)
  <1> QED
    BY <1>6, <1>7, <1>8 DEF Ends

\* What is reported are the counters of the last time.
SerialInv ==
    /\ model \in {"mgw", "e1", "mgw2"}
    /\ ports \in [Port -> PortState]
    /\ asof = <<>> => stat = [bluetooth |-> Zero, zigbee |-> Zero]
    /\ asof # <<>> => asof \in [Port -> PortState]
    /\ stat \in [bluetooth : {stat.bluetooth}, zigbee : {stat.zigbee}]
    /\ model = "e1" => stat.bluetooth = Zero
    /\ StatsTrue

LEMMA SerialInvInit == Flagged = TRUE /\ Init => SerialInv
  <1> SUFFICES ASSUME Flagged = TRUE, SerialInit PROVE SerialInv
    BY DEF Init
  <1>1. ports \in [Port -> PortState]
    <2>1. ports \in [Port -> [tx : {0}, rx : {2 * Half - 1}, oe : {0}, flags : {TRUE}]]
      BY DEF SerialInit
    <2>2. 0 \in Value32 /\ 2 * Half - 1 \in Value32
      BY SerialAssumption DEF Value32
    <2> QED
      BY <2>1, <2>2 DEF PortState
  <1>2. asof = <<>> /\ stat = [bluetooth |-> Zero, zigbee |-> Zero] /\ model \in {"mgw", "e1", "mgw2"}
    BY DEF SerialInit
  <1> QED
    BY <1>1, <1>2 DEF SerialInv, StatsTrue

LEMMA SerialInvNext == SerialInv /\ SerialNext => SerialInv'
  <1> SUFFICES ASSUME SerialInv, SerialNext PROVE SerialInv'
    OBVIOUS
  <1>1. ASSUME NEW p \in Port, Moves(p) PROVE SerialInv'
    <2>1. ASSUME NEW n \in Value32 PROVE (n + 1) % (2 * Half) \in Value32
      <3>1. PICK m \in Nat \ {0} : m = 2 * Half
        BY SerialAssumption
      <3>2. (n + 1) % m \in 0..m - 1
        BY <3>1 DEF Value32
      <3> QED
        BY <3>1, <3>2 DEF Value32
    <2>2. /\ ports[p] \in PortState
          /\ ports[p].tx \in Value32 /\ ports[p].rx \in Value32 /\ ports[p].oe \in Value32
      BY DEF SerialInv, PortState
    <2>3. PICK tx \in Value32 : tx = (ports[p].tx + 1) % (2 * Half)
      BY <2>1, <2>2
    <2>4. PICK rx \in Value32 : rx = (ports[p].rx + 1) % (2 * Half)
      BY <2>1, <2>2
    <2>5. PICK oe \in Value32 : oe = (ports[p].oe + 1) % (2 * Half)
      BY <2>1, <2>2
    <2>6. ports \in [Port -> [tx : Value32, rx : Value32, oe : Value32, flags : {TRUE}]]
      BY DEF SerialInv, PortState
    <2>7. \/ ports' = [ports EXCEPT ![p].tx = tx]
          \/ ports' = [ports EXCEPT ![p].rx = rx]
          \/ ports' = [ports EXCEPT ![p].rx = rx, ![p].oe = oe]
      BY <1>1, <2>3, <2>4, <2>5 DEF Moves
    <2>8. ports' \in [Port -> PortState]
      BY <2>6, <2>7, ZenonT(40) DEF PortState
    <2>9. UNCHANGED <<model, stat, asof>>
      BY <1>1 DEF Moves
    <2> QED
      BY <2>8, <2>9 DEF SerialInv, StatsTrue, True
  <1>2. CASE MarshalJSON
    <2>1. PICK p1 \in PortState : p1 = ports[1]
      BY DEF SerialInv, Port
    <2>2. PICK p2 \in PortState : p2 = ports[2]
      BY DEF SerialInv, Port
    <2>3. PICK p3 \in PortState : p3 = ports[3]
      BY DEF SerialInv, Port
    <2>4. PICK c : c = parseSerial(Text)
      OBVIOUS
    <2>5. c = ((<<>> \o <<p1.tx, p1.rx, p1.oe>>) \o <<p2.tx, p2.rx, p2.oe>>) \o <<p3.tx, p3.rx, p3.oe>>
      BY <2>1, <2>2, <2>3, <2>4, parseSerialIs, ZenonT(40)
    <2>6. /\ Len(c) = 9 /\ c[4] = p2.tx /\ c[5] = p2.rx /\ c[6] = p2.oe
          /\ c[7] = p3.tx /\ c[8] = p3.rx /\ c[9] = p3.oe
      <3>1. Value32 \subseteq Nat
        BY SerialAssumption DEF Value32
      <3>2. /\ p1.tx \in Nat /\ p1.rx \in Nat /\ p1.oe \in Nat
            /\ p2.tx \in Nat /\ p2.rx \in Nat /\ p2.oe \in Nat
            /\ p3.tx \in Nat /\ p3.rx \in Nat /\ p3.oe \in Nat
        BY <3>1 DEF PortState
      <3>3. PICK a, b, d : a = <<p1.tx, p1.rx, p1.oe>> /\ b = <<p2.tx, p2.rx, p2.oe>> /\ d = <<p3.tx, p3.rx, p3.oe>>
        OBVIOUS
      <3>4. IsTriple(a, p1.tx, p1.rx, p1.oe) /\ IsTriple(b, p2.tx, p2.rx, p2.oe) /\ IsTriple(d, p3.tx, p3.rx, p3.oe)
        BY <3>2, <3>3, Three, Zenon
      <3>5. c = ((<<>> \o a) \o b) \o d
        BY <2>5, <3>3
      <3>6. Ends(c, b, d)
        <4>1. /\ a \in Seq(Nat) /\ b \in Seq(Nat) /\ d \in Seq(Nat)
              /\ Len(a) = 3 /\ Len(b) = 3 /\ Len(d) = 3
          BY <3>4 DEF IsTriple
        <4> QED
          BY <3>5, <4>1, Nine, Zenon
      <3> QED
        BY <3>4, <3>6 DEF IsTriple, Ends
    <2>7. /\ Counters(c, 2) = [tx |-> p2.tx, rx |-> p2.rx, oe |-> p2.oe]
          /\ Counters(c, 3) = [tx |-> p3.tx, rx |-> p3.rx, oe |-> p3.oe]
      BY <2>6 DEF Counters
    <2>8. /\ stat' = CASE model = "mgw" /\ Len(c) >= 9 ->
                            [bluetooth |-> Counters(c, 2), zigbee |-> Counters(c, 3)]
                       [] model = "e1" /\ Len(c) >= 6 ->
                            [stat EXCEPT !.zigbee = Counters(c, 2)]
                       [] model = "mgw2" /\ Len(c) >= 9 ->
                            [bluetooth |-> Counters(c, 3), zigbee |-> Counters(c, 2)]
                       [] OTHER -> stat
          /\ asof' = ports /\ UNCHANGED <<model, ports, steps>>
      BY <1>2, <2>4 DEF MarshalJSON
    <2>9. Len(c) >= 9 /\ Len(c) >= 6
      BY <2>6
    <2>10. /\ asof' = ports /\ model' = model /\ ports' = ports
           /\ asof' \in [Port -> PortState] /\ asof' # <<>>
      <3>1. ports \in [Port -> PortState]
        BY DEF SerialInv
      <3>2. ports # <<>>
        BY <3>1 DEF Port
      <3> QED
        BY <2>8, <3>1, <3>2
    <2>11. True(2)' = Counters(c, 2) /\ True(3)' = Counters(c, 3)
      BY <2>2, <2>3, <2>7, <2>10 DEF True
    <2>12. CASE model = "mgw"
      <3>1. stat' = [bluetooth |-> Counters(c, 2), zigbee |-> Counters(c, 3)]
        BY <2>8, <2>9, <2>12
      <3> QED
        BY <2>10, <2>11, <2>12, <3>1 DEF SerialInv, StatsTrue
    <2>13. CASE model = "e1"
      <3>1. stat' = [stat EXCEPT !.zigbee = Counters(c, 2)]
        BY <2>8, <2>9, <2>13
      <3>2. stat' = [bluetooth |-> Zero, zigbee |-> Counters(c, 2)]
        BY <2>13, <3>1 DEF SerialInv
      <3> QED
        BY <2>10, <2>11, <2>13, <3>2 DEF SerialInv, StatsTrue
    <2>14. CASE model = "mgw2"
      <3>1. stat' = [bluetooth |-> Counters(c, 3), zigbee |-> Counters(c, 2)]
        BY <2>8, <2>9, <2>14
      <3> QED
        BY <2>10, <2>11, <2>14, <3>1 DEF SerialInv, StatsTrue
    <2> QED
      BY <2>12, <2>13, <2>14 DEF SerialInv
  <1> QED
    BY <1>1, <1>2 DEF SerialNext

\* If every line ends in the modem's flags, what is reported of a port are its own
\* counters of that moment, past the kernel's sign too, and no line lends its errors
\* to another.
THEOREM StatsAreTrue == Flagged = TRUE /\ Spec => []StatsTrue
  <1>1. SerialInv /\ [Next]_<<streamVars, serialVars, idVars, statusVars, what>> => SerialInv'
    <2> SUFFICES ASSUME SerialInv, [Next]_<<streamVars, serialVars, idVars, statusVars, what>>
                 PROVE  SerialInv'
      OBVIOUS
    <2>1. CASE UNCHANGED serialVars
      BY <2>1 DEF SerialInv, serialVars, StatsTrue, True
    <2>2. CASE SerialNext
      BY <2>2, SerialInvNext
    <2> QED
      BY <2>1, <2>2 DEF Next
  <1>2. SerialInv => StatsTrue
    BY DEF SerialInv
  <1> QED
    BY <1>1, <1>2, SerialInvInit, PTL DEF Spec
-----------------------------------------------------------------------------
(***************************************************************************)
(* CloudStream: where the messages lie in the stream.                      *)
(***************************************************************************)
Message == Plain \cup Quoting
Item == Nat \X Letters

LEMMA MessageIs ==
    /\ \A m \in Message : /\ m \in Seq(Letters) /\ Len(m) \in Nat /\ Len(m) > 1
                          /\ DOMAIN m = 1..Len(m) /\ m[1] = "open" /\ m[Len(m)] = "close"
    /\ \A m \in Plain : \A i \in 1..Len(m) - 1 : ~ (m[i] = "close" /\ m[i + 1] = "open")
  <1>1. \A m \in Message : m \in Seq(Letters) /\ Len(m) > 1 /\ m[1] = "open" /\ m[Len(m)] = "close"
    BY StreamAssumption DEF Message
  <1>2. \A m \in Message : Len(m) \in Nat /\ DOMAIN m = 1..Len(m)
    BY <1>1
  <1>3. \A m \in Plain : \A i \in 1..Len(m) - 1 : ~ (m[i] = "close" /\ m[i + 1] = "open")
    BY StreamAssumption
  <1> QED
    BY <1>1, <1>2, <1>3

\* Message n of s begins at pos[n]; the first byte that has not been read is at 1.
Offsets(pos, s) ==
    /\ pos \in [1..Len(s) + 1 -> Int]
    /\ \A n \in 1..Len(s) : pos[n + 1] = pos[n] + Len(s[n])

LEMMA OffsetsGrow ==
    ASSUME NEW s \in Seq(Message), NEW pos, Offsets(pos, s)
    PROVE  \A p, q \in 1..Len(s) + 1 : p < q => pos[p] < pos[q]
  <1>1. /\ pos \in [1..Len(s) + 1 -> Int] /\ Len(s) \in Nat
        /\ \A n \in 1..Len(s) : pos[n] < pos[n + 1]
    <2>1. Len(s) \in Nat /\ pos \in [1..Len(s) + 1 -> Int]
      BY DEF Offsets
    <2>2. ASSUME NEW n \in 1..Len(s) PROVE pos[n] < pos[n + 1]
      <3>1. s[n] \in Message
        OBVIOUS
      <3>2. Len(s[n]) \in Nat /\ Len(s[n]) > 1
        BY <3>1, MessageIs
      <3>3. pos[n + 1] = pos[n] + Len(s[n]) /\ pos[n] \in Int
        BY <2>1 DEF Offsets
      <3> QED
        BY <3>2, <3>3
    <2> QED
      BY <2>1, <2>2
  <1> DEFINE S == {d \in Nat : \A p \in 1..Len(s) : p + d <= Len(s) => pos[p] < pos[p + d + 1]}
  <1>2. 0 \in S
    BY <1>1
  <1>3. ASSUME NEW d \in Nat, d \in S PROVE d + 1 \in S
    <2> SUFFICES ASSUME NEW p \in 1..Len(s), p + (d + 1) <= Len(s)
                 PROVE  pos[p] < pos[p + (d + 1) + 1]
      OBVIOUS
    <2>1. PICK k \in 1..Len(s) : k = p + (d + 1)
      BY <1>1
    <2>2. p + d <= Len(s) /\ p + d + 1 = k
      BY <1>1, <2>1
    <2>3. pos[p] < pos[k] /\ pos[k] < pos[k + 1]
      BY <1>1, <1>3, <2>2
    <2>4. pos[p] \in Int /\ pos[k] \in Int /\ pos[k + 1] \in Int
      BY <1>1
    <2> QED
      BY <2>1, <2>3, <2>4
  <1> HIDE DEF S
  <1>4. Nat \subseteq S
    BY <1>2, <1>3, Induction
  <1>5. ASSUME NEW p \in 1..Len(s) + 1, NEW q \in 1..Len(s) + 1, p < q PROVE pos[p] < pos[q]
    <2>1. PICK d \in Nat : q = p + d + 1
      <3>1. q - p - 1 \in Nat /\ q = p + (q - p - 1) + 1
        BY <1>1, <1>5
      <3> QED
        BY <3>1
    <2>2. p \in 1..Len(s) /\ p + d <= Len(s)
      BY <1>1, <2>1
    <2> QED
      BY <1>4, <2>1, <2>2 DEF S
  <1> QED
    BY <1>5

\* The bytes of b are those of the messages that lie there.
Laid(b, pos, s) ==
    /\ b \in Seq(Item)
    /\ \A i \in 1..Len(b) : \E n \in 1..Len(s) :
          pos[n] <= i /\ i < pos[n + 1] /\ b[i] = <<n, s[n][i - pos[n] + 1]>>

LEMMA LaidNumber ==
    ASSUME NEW s, NEW pos, NEW b, Laid(b, pos, s), NEW i \in 1..Len(b)
    PROVE  b[i][1] \in 1..Len(s) /\ pos[b[i][1]] <= i /\ i < pos[b[i][1] + 1]
  <1>1. PICK n \in 1..Len(s) : pos[n] <= i /\ i < pos[n + 1] /\ b[i] = <<n, s[n][i - pos[n] + 1]>>
    BY DEF Laid
  <1>2. b[i][1] = n
    BY <1>1
  <1> QED
    BY <1>1, <1>2

LEMMA LaidIs ==
    ASSUME NEW s \in Seq(Message), NEW pos, Offsets(pos, s), NEW b, Laid(b, pos, s),
           NEW i \in 1..Len(b), NEW n \in 1..Len(s), pos[n] <= i, i < pos[n + 1]
    PROVE  b[i] = <<n, s[n][i - pos[n] + 1]>>
  <1>1. PICK m \in 1..Len(s) : pos[m] <= i /\ i < pos[m + 1] /\ b[i] = <<m, s[m][i - pos[m] + 1]>>
    BY DEF Laid
  <1>2. Len(s) \in Nat /\ pos \in [1..Len(s) + 1 -> Int]
    BY DEF Offsets
  <1>3. ASSUME NEW p \in 1..Len(s), NEW q \in 1..Len(s), p < q PROVE pos[p + 1] <= pos[q]
    <2>1. p + 1 \in 1..Len(s) + 1 /\ q \in 1..Len(s) + 1 /\ (p + 1 = q \/ p + 1 < q)
      BY <1>2, <1>3
    <2>2. pos[p + 1] \in Int /\ pos[q] \in Int
      BY <1>2, <2>1
    <2> QED
      BY <2>1, <2>2, OffsetsGrow, SMTT(40)
  <1>4. pos[m] \in Int /\ pos[m + 1] \in Int /\ pos[n] \in Int /\ pos[n + 1] \in Int /\ i \in Int
    BY <1>2
  <1>5. ~ (m < n) /\ ~ (n < m)
    <2>1. ~ (m < n)
      <3>1. m < n => pos[m + 1] <= pos[n]
        BY <1>3
      <3> QED
        BY <1>1, <1>4, <3>1
    <2>2. ~ (n < m)
      <3>1. n < m => pos[n + 1] <= pos[m]
        BY <1>3
      <3> QED
        BY <1>1, <1>4, <3>1
    <2> QED
      BY <2>1, <2>2
  <1>6. m = n
    BY <1>2, <1>5
  <1> QED
    BY <1>1, <1>6

\* p are the bytes of b from f on, up to t.
Part(p, b, f, t) ==
    /\ p \in Seq(Item) /\ Len(p) = t - f
    /\ \A i \in 1..t - f : p[i] = b[f + i - 1]

LEMMA PartIs ==
    \A b \in Seq(Item) : \A f \in 1..Len(b) + 1 : \A t \in f..Len(b) + 1 :
       Part(SubSeq(b, f, t - 1), b, f, t)
  <1> SUFFICES ASSUME NEW b \in Seq(Item), NEW f \in 1..Len(b) + 1, NEW t \in f..Len(b) + 1
               PROVE  Part(SubSeq(b, f, t - 1), b, f, t)
    OBVIOUS
  <1>1. Len(b) \in Nat /\ f \in Int /\ t \in Int /\ f <= t /\ t <= Len(b) + 1 /\ f >= 1
    OBVIOUS
  <1>2. PICK e \in Int : e = t - 1
    BY <1>1
  <1>3. \A i \in f..e : b[i] \in Item
    <2>1. \A i \in f..e : i \in 1..Len(b)
      BY <1>1, <1>2
    <2> QED
      BY <2>1
  <1>4. /\ SubSeq(b, f, e) \in Seq(Item)
        /\ Len(SubSeq(b, f, e)) = IF f <= e THEN e - f + 1 ELSE 0
        /\ \A i \in 1..e - f + 1 : SubSeq(b, f, e)[i] = b[f + i - 1]
    BY <1>1, <1>3, SubSeqProperties
  <1>5. e - f + 1 = t - f /\ (IF f <= e THEN e - f + 1 ELSE 0) = t - f
    BY <1>1, <1>2
  <1> QED
    BY <1>2, <1>4, <1>5 DEF Part

\* The bytes of message n.
IsBytes(p, n, m) ==
    /\ p \in Seq(Item) /\ Len(p) = Len(m)
    /\ \A i \in 1..Len(m) : p[i] = <<n, m[i]>>

LEMMA BytesAre ==
    \A n \in Nat : \A m \in Message : IsBytes(Bytes(n, m), n, m)
  <1> SUFFICES ASSUME NEW n \in Nat, NEW m \in Message PROVE IsBytes(Bytes(n, m), n, m)
    OBVIOUS
  <1>1. m \in Seq(Letters) /\ DOMAIN m = 1..Len(m) /\ Len(m) \in Nat
    BY MessageIs
  <1>2. \A i \in 1..Len(m) : m[i] \in Letters
    BY <1>1
  <1>3. Bytes(n, m) = [i \in 1..Len(m) |-> <<n, m[i]>>]
    BY <1>1 DEF Bytes
  <1>4. Bytes(n, m) \in Seq(Item) /\ Len(Bytes(n, m)) = Len(m)
    BY <1>1, <1>2, <1>3 DEF Item
  <1> QED
    BY <1>3, <1>4 DEF IsBytes

LEMMA SamePart ==
    \A p, q, n, m : IsBytes(p, n, m) /\ IsBytes(q, n, m) => p = q
  <1> SUFFICES ASSUME NEW p, NEW q, NEW n, NEW m, IsBytes(p, n, m), IsBytes(q, n, m)
               PROVE  p = q
    OBVIOUS
  <1>1. p \in Seq(Item) /\ q \in Seq(Item) /\ Len(p) = Len(q) /\ \A i \in 1..Len(p) : p[i] = q[i]
    BY DEF IsBytes
  <1> QED
    BY <1>1, SeqEqual

\* Where a message can be found whole, it lies.
LEMMA WholeAt ==
    ASSUME NEW s \in Seq(Message), NEW pos, Offsets(pos, s), NEW b, Laid(b, pos, s),
           NEW n \in 1..Len(s), NEW f \in Nat \ {0}, NEW t \in Nat, t <= Len(b) + 1,
           NEW p, Part(p, b, f, t), IsBytes(p, n, s[n])
    PROVE  pos[n] = f /\ pos[n + 1] = t
  <1>1. Len(s[n]) \in Nat /\ Len(s[n]) > 1
    <2>1. s[n] \in Message
      OBVIOUS
    <2> QED
      BY <2>1, MessageIs
  <1>2. t - f = Len(s[n]) /\ Len(b) \in Nat
    <2>1. Len(p) = t - f
      BY DEF Part
    <2>2. Len(p) = Len(s[n])
      BY DEF IsBytes
    <2>3. b \in Seq(Item)
      BY DEF Laid
    <2> QED
      BY <2>1, <2>2, <2>3
  <1>3. f \in 1..Len(b) /\ t - 1 \in 1..Len(b) /\ t - f \in Nat /\ t - f > 1
    BY <1>1, <1>2
  <1>4. p[1] = b[f] /\ p[t - f] = b[t - 1]
    <2>1. PICK l \in Nat : l = t - f
      BY <1>3
    <2>2. 1 \in 1..l /\ l \in 1..l /\ f + 1 - 1 = f /\ f + l - 1 = t - 1
      BY <1>3, <2>1
    <2>3. \A i \in 1..l : p[i] = b[f + i - 1]
      BY <2>1 DEF Part
    <2>4. p[1] = b[f + 1 - 1] /\ p[l] = b[f + l - 1]
      BY <2>2, <2>3
    <2> QED
      BY <2>1, <2>2, <2>4
  <1>5. p[1][1] = n /\ p[t - f][1] = n
    <2>1. 1 \in 1..Len(s[n]) /\ t - f \in 1..Len(s[n])
      BY <1>1, <1>2
    <2> QED
      BY <2>1 DEF IsBytes
  <1>6. pos[n] <= f /\ t - 1 < pos[n + 1]
    BY <1>3, <1>4, <1>5, LaidNumber
  <1>7. pos[n + 1] = pos[n] + Len(s[n]) /\ pos[n] \in Int
    <2>1. n \in 1..Len(s) + 1
      OBVIOUS
    <2> QED
      BY <2>1 DEF Offsets
  <1> QED
    BY <1>1, <1>2, <1>6, <1>7

\* And where it lies, it is whole.
LEMMA WholeFrom ==
    ASSUME NEW s \in Seq(Message), NEW pos, Offsets(pos, s), NEW b, Laid(b, pos, s),
           NEW n \in 1..Len(s), pos[n] >= 1, pos[n + 1] <= Len(b) + 1,
           NEW p, Part(p, b, pos[n], pos[n + 1])
    PROVE  IsBytes(p, n, s[n])
  <1>1. Len(s[n]) \in Nat /\ Len(b) \in Nat
    <2>1. s[n] \in Message
      OBVIOUS
    <2> QED
      BY <2>1, MessageIs DEF Laid
  <1>2. PICK f \in Int : f = pos[n]
    BY DEF Offsets
  <1>3. PICK l \in Nat : l = Len(s[n])
    BY <1>1
  <1>4. pos[n + 1] = f + l
    BY <1>2, <1>3 DEF Offsets
  <1>5. p \in Seq(Item) /\ Len(p) = l /\ \A i \in 1..l : p[i] = b[f + i - 1]
    <2>1. (f + l) - f = l
      OBVIOUS
    <2> QED
      BY <1>2, <1>4, <2>1 DEF Part
  <1>6. ASSUME NEW i \in 1..l PROVE p[i] = <<n, s[n][i]>>
    <2>1. PICK j \in Int : j = f + i - 1
      OBVIOUS
    <2>2. j \in 1..Len(b) /\ pos[n] <= j /\ j < pos[n + 1] /\ j - pos[n] + 1 = i
      <3>1. f >= 1 /\ f + l <= Len(b) + 1 /\ Len(b) \in Nat
        BY <1>1, <1>2, <1>4
      <3>2. i \in Int /\ 1 <= i /\ i <= l /\ l \in Nat /\ f \in Int
        OBVIOUS
      <3>3. j \in 1..Len(b) /\ f <= j /\ j < f + l /\ j - f + 1 = i
        BY <2>1, <3>1, <3>2
      <3> QED
        BY <1>2, <1>4, <3>3
    <2>3. b[j] = <<n, s[n][j - pos[n] + 1]>>
      BY <2>2, LaidIs
    <2> QED
      BY <1>5, <2>1, <2>2, <2>3
  <1> QED
    BY <1>3, <1>5, <1>6 DEF IsBytes

\* Where two messages meet there is a }{, and there is none inside a plain one.
LEMMA Boundary ==
    ASSUME NEW s \in Seq(Message), NEW pos, Offsets(pos, s), NEW b, Laid(b, pos, s),
           NEW n \in 1..Len(s) + 1, 1 < pos[n], pos[n] <= Len(b)
    PROVE  Sep(b, pos[n] - 1)
  <1>1. Len(s) \in Nat /\ Len(b) \in Nat /\ pos \in [1..Len(s) + 1 -> Int]
    BY DEF Offsets, Laid
  <1>2. PICK f \in Int : f = pos[n]
    BY <1>1
  <1>3. f \in 1..Len(b) /\ f - 1 \in 1..Len(b)
    BY <1>1, <1>2
  <1>4. PICK m \in 1..Len(s) : pos[m] <= f /\ f < pos[m + 1] /\ b[f] = <<m, s[m][f - pos[m] + 1]>>
    BY <1>3 DEF Laid
  <1>5. PICK k \in 1..Len(s) : pos[k] <= f - 1 /\ f - 1 < pos[k + 1] /\ b[f - 1] = <<k, s[k][(f - 1) - pos[k] + 1]>>
    BY <1>3 DEF Laid
  <1>6. /\ pos[m] \in Int /\ pos[m + 1] \in Int /\ pos[k] \in Int /\ pos[k + 1] \in Int
        /\ m \in 1..Len(s) + 1 /\ m + 1 \in 1..Len(s) + 1 /\ k \in 1..Len(s) + 1 /\ k + 1 \in 1..Len(s) + 1
    <2>1. m \in 1..Len(s) + 1 /\ m + 1 \in 1..Len(s) + 1 /\ k \in 1..Len(s) + 1 /\ k + 1 \in 1..Len(s) + 1
      BY <1>1
    <2> QED
      BY <1>1, <2>1
  <1>7. m = n
    <2>1. ~ (n < m)
      <3>1. n < m => pos[n] < pos[m]
        BY <1>6, OffsetsGrow
      <3> QED
        BY <1>2, <1>4, <1>6, <3>1, SMTT(40)
    <2>2. ~ (m + 1 < n) /\ m + 1 # n
      <3>1. m + 1 < n => pos[m + 1] < pos[n]
        BY <1>6, OffsetsGrow
      <3> QED
        BY <1>2, <1>4, <1>6, <3>1
    <2> QED
      BY <1>1, <2>1, <2>2
  <1>8. k + 1 = n
    <2>1. k < n
      <3>1. n < k => pos[n] < pos[k]
        BY <1>6, OffsetsGrow
      <3> QED
        BY <1>1, <1>2, <1>5, <1>6, <3>1, SMTT(40)
    <2>2. PICK j \in 1..Len(s) + 1 : j = k + 1
      BY <1>6
    <2>3. ~ (j < n)
      <3>1. j < n => pos[j] < pos[n]
        BY OffsetsGrow
      <3>2. f - 1 < pos[j] /\ pos[j] \in Int
        BY <1>5, <1>6, <2>2
      <3> QED
        BY <1>2, <3>1, <3>2
    <2>4. k \in Int /\ j \in Int /\ n \in Int
      OBVIOUS
    <2> QED
      BY <2>1, <2>2, <2>3, <2>4
  <1>9. b[f][2] = "open"
    <2>1. f - pos[m] + 1 = 1
      BY <1>2, <1>7
    <2>2. s[m] \in Message
      OBVIOUS
    <2>3. s[m][1] = "open"
      BY <2>2, MessageIs
    <2> QED
      BY <1>4, <2>1, <2>3
  <1>10. b[f - 1][2] = "close"
    <2>1. pos[k + 1] = pos[k] + Len(s[k])
      BY DEF Offsets
    <2>2. s[k] \in Message
      OBVIOUS
    <2>3. Len(s[k]) \in Nat /\ s[k][Len(s[k])] = "close"
      BY <2>2, MessageIs
    <2>4. (f - 1) - pos[k] + 1 = Len(s[k])
      <3>1. PICK x \in Int : x = pos[k]
        BY <1>6
      <3>2. PICK l \in Nat : l = Len(s[k])
        BY <2>3
      <3>3. f = x + l
        BY <1>2, <1>8, <2>1, <3>1, <3>2
      <3>4. (f - 1) - x + 1 = l
        BY <3>3
      <3> QED
        BY <3>1, <3>2, <3>4
    <2> QED
      BY <1>5, <2>3, <2>4
  <1>11. (f - 1) + 1 = f
    OBVIOUS
  <1> QED
    BY <1>2, <1>9, <1>10, <1>11 DEF Sep

LEMMA Inside ==
    ASSUME NEW s \in Seq(Message), NEW pos, Offsets(pos, s), NEW b, Laid(b, pos, s),
           NEW n \in 1..Len(s), s[n] \in Plain,
           NEW i \in 1..Len(b), i + 1 <= Len(b), pos[n] <= i, i + 1 < pos[n + 1]
    PROVE  ~ Sep(b, i)
  <1>1. Len(s[n]) \in Nat /\ \A j \in 1..Len(s[n]) - 1 : ~ (s[n][j] = "close" /\ s[n][j + 1] = "open")
    <2>1. s[n] \in Message
      OBVIOUS
    <2>2. Len(s[n]) \in Nat
      BY <2>1, MessageIs
    <2> QED
      BY <2>2, MessageIs
  <1>2. pos[n] \in Int /\ pos[n + 1] = pos[n] + Len(s[n])
    <2>1. n \in 1..Len(s) + 1
      OBVIOUS
    <2> QED
      BY <2>1 DEF Offsets
  <1>3. PICK j \in Int : j = i - pos[n] + 1
    BY <1>2
  <1>4. j \in 1..Len(s[n]) - 1 /\ (i + 1) - pos[n] + 1 = j + 1
    <2>1. PICK x \in Int : x = pos[n]
      BY <1>2
    <2>2. PICK l \in Nat : l = Len(s[n])
      BY <1>1
    <2>3. x <= i /\ i + 1 < x + l /\ j = i - x + 1
      BY <1>2, <1>3, <2>1, <2>2
    <2>4. j \in 1..l - 1 /\ (i + 1) - x + 1 = j + 1
      BY <2>3
    <2> QED
      BY <2>1, <2>2, <2>4
  <1>5. b[i] = <<n, s[n][j]>>
    <2>1. i < pos[n + 1]
      BY <1>1, <1>2
    <2> QED
      BY <1>3, <2>1, LaidIs
  <1>6. b[i + 1] = <<n, s[n][j + 1]>>
    <2>1. PICK k \in 1..Len(b) : k = i + 1
      OBVIOUS
    <2>2. pos[n] <= k /\ k < pos[n + 1] /\ k - pos[n] + 1 = j + 1
      BY <1>2, <1>3, <2>1, SMTT(40)
    <2>3. b[k] = <<n, s[n][k - pos[n] + 1]>>
      BY <2>2, LaidIs
    <2> QED
      BY <2>1, <2>2, <2>3
  <1> QED
    BY <1>1, <1>4, <1>5, <1>6 DEF Sep
-----------------------------------------------------------------------------
(***************************************************************************)
(* CloudStream: where a read is cut, and what a round does.                *)
(***************************************************************************)
LEMMA CutIs ==
    ASSUME NEW b \in Seq(Item), Len(b) > 0
    PROVE  /\ Cut(b) \in 1..Len(b)
           /\ Cut(b) < Len(b) => Sep(b, Cut(b))
           /\ Index(b) # 1 => \A i \in 1..Cut(b) - 1 : ~ Sep(b, i)
           /\ Index(b) = 1 => 1 < Len(b) /\ Sep(b, 1)
  <1>1. Len(b) \in Nat \ {0}
    OBVIOUS
  <1>2. Seps(b) \in SUBSET Nat /\ Seps(b) \subseteq 1..Len(b) - 1
    BY <1>1 DEF Seps
  <1>3. CASE Seps(b) = {}
    <2>1. Index(b) = 0 /\ Cut(b) = Len(b)
      BY <1>3 DEF Index, Cut
    <2>2. \A i \in 1..Len(b) - 1 : ~ Sep(b, i)
      BY <1>3 DEF Seps
    <2> QED
      BY <1>1, <2>1, <2>2
  <1>4. CASE Seps(b) # {}
    <2>1. PICK m \in Seps(b) : m = Index(b) /\ \A k \in Seps(b) : m <= k
      BY <1>2, <1>4, MinIsLeast DEF Index
    <2>2. m \in 1..Len(b) - 1 /\ Sep(b, m)
      BY <2>1 DEF Seps
    <2>3. ASSUME NEW i \in 1..m - 1 PROVE ~ Sep(b, i)
      <3>1. i \in 1..Len(b) - 1 /\ ~ (m <= i)
        BY <1>1, <2>2
      <3>2. i \notin Seps(b)
        BY <2>1, <3>1
      <3> QED
        BY <3>1, <3>2 DEF Seps
    <2>4. Cut(b) = IF m > 1 THEN m ELSE Len(b)
      BY <2>1 DEF Cut
    <2>5. CASE m > 1
      <3>1. Cut(b) = m
        BY <2>4, <2>5
      <3> QED
        BY <1>1, <2>1, <2>2, <2>3, <2>5, <3>1
    <2>6. CASE m = 1
      <3>1. Cut(b) = Len(b)
        BY <2>4, <2>6
      <3> QED
        BY <1>1, <2>1, <2>2, <2>6, <3>1
    <2> QED
      BY <1>1, <2>2, <2>5, <2>6
  <1> QED
    BY <1>3, <1>4

\* b is cut before f and t, and not between them, unless it begins with }{.
Edge(b, f) == f = 1 \/ f = Len(b) + 1 \/ Sep(b, f - 1)

Cuts(b, f, t) ==
    /\ t \in f + 1..Len(b) + 1
    /\ Edge(b, t)
    /\ Index(b) # 1 /\ Edge(b, f) => \A i \in f..t - 2 : ~ Sep(b, i)

LEMMA CutsAt ==
    ASSUME NEW b \in Seq(Item), NEW f \in 1..Len(b), NEW rest, Part(rest, b, f, Len(b) + 1)
    PROVE  Cut(rest) \in 1..Len(rest) /\ Cuts(b, f, f + Cut(rest))
  <1>1. rest \in Seq(Item) /\ Len(rest) = Len(b) + 1 - f /\ Len(b) \in Nat /\ Len(rest) > 0
    BY DEF Part
  <1>2. \A i \in 1..Len(rest) : rest[i] = b[f + i - 1]
    BY <1>1 DEF Part
  <1>3. ASSUME NEW i \in 1..Len(rest) - 1 PROVE Sep(rest, i) <=> Sep(b, f + i - 1)
    <2>1. rest[i] = b[f + i - 1] /\ rest[i + 1] = b[f + (i + 1) - 1]
      BY <1>1, <1>2
    <2>2. f + (i + 1) - 1 = (f + i - 1) + 1
      OBVIOUS
    <2> QED
      BY <2>1, <2>2 DEF Sep
  <1>4. PICK c \in 1..Len(rest) : c = Cut(rest)
    BY <1>1, CutIs
  <1>5. /\ c < Len(rest) => Sep(rest, c)
        /\ Index(rest) # 1 => \A i \in 1..c - 1 : ~ Sep(rest, i)
        /\ Index(rest) = 1 => 1 < Len(rest) /\ Sep(rest, 1)
    BY <1>1, <1>4, CutIs
  <1>6. f + c \in f + 1..Len(b) + 1
    BY <1>1
  <1>7. Edge(b, f + c)
    <2>1. CASE c = Len(rest)
      BY <1>1, <2>1 DEF Edge
    <2>2. CASE c < Len(rest)
      BY <1>1, <1>3, <1>5, <2>2 DEF Edge
    <2> QED
      BY <1>1, <2>1, <2>2
  <1>8. ASSUME Index(b) # 1, Edge(b, f), NEW i \in f..(f + c) - 2 PROVE ~ Sep(b, i)
    <2>1. PICK j \in 1..c - 1 : i = f + j - 1
      <3>1. i - f + 1 \in 1..c - 1 /\ i = f + (i - f + 1) - 1
        OBVIOUS
      <3> QED
        BY <3>1
    <2>2. Index(rest) # 1
      <3> SUFFICES ASSUME Index(rest) = 1 PROVE FALSE
        OBVIOUS
      <3>1. 1 < Len(rest) /\ Sep(rest, 1)
        BY <1>5
      <3>2. b[f][2] = "close"
        <4>1. rest[1] = b[f]
          BY <1>1, <1>2
        <4> QED
          BY <3>1, <4>1 DEF Sep
      <3>3. CASE f = 1
        <4>1. rest = b
          BY <1>1, <1>2, <3>3, SeqEqual
        <4> QED
          BY <1>8, <4>1
      <3>4. CASE Sep(b, f - 1)
        <4>1. (f - 1) + 1 = f
          OBVIOUS
        <4> QED
          BY <3>2, <3>4, <4>1 DEF Sep
      <3> QED
        BY <1>1, <1>8, <3>3, <3>4 DEF Edge
    <2>3. ~ Sep(rest, j) /\ j \in 1..Len(rest) - 1
      BY <1>1, <1>5, <2>2
    <2> QED
      BY <1>3, <2>1, <2>3
  <1> QED
    BY <1>4, <1>6, <1>7, <1>8 DEF Cuts

\* A round handles a piece and leaves what is behind it.
HandlesPiece(rest, done, b, f) ==
    \E t, piece, next :
       /\ Cuts(b, f, t) /\ Part(piece, b, f, t) /\ Part(next, b, t, Len(b) + 1)
       /\ Round([rest |-> rest, done |-> done]) = [rest |-> next, done |-> Handle(piece, done)]

LEMMA RoundIs ==
    ASSUME NEW b \in Seq(Item), NEW f \in 1..Len(b), NEW rest, Part(rest, b, f, Len(b) + 1), NEW done
    PROVE  HandlesPiece(rest, done, b, f)
  <1>1. rest \in Seq(Item) /\ Len(rest) = Len(b) + 1 - f /\ Len(b) \in Nat /\ Len(rest) > 0
    BY DEF Part
  <1>2. PICK l \in Nat : l = Len(rest)
    BY <1>1
  <1>3. \A i \in 1..l : rest[i] = b[f + i - 1]
    BY <1>1, <1>2 DEF Part
  <1>4. PICK c \in 1..l : c = Cut(rest)
    BY <1>2, CutsAt
  <1>5. PICK t \in Nat : t = f + c
    OBVIOUS
  <1>6. Cuts(b, f, t)
    BY <1>4, <1>5, CutsAt
  <1>7. PICK piece : piece = SubSeq(rest, 1, c)
    OBVIOUS
  <1>8. PICK next : next = SubSeq(rest, c + 1, l)
    OBVIOUS
  <1>9. Part(piece, b, f, t)
    <2>1. (c + 1) - 1 = c /\ 1 \in 1..Len(rest) + 1 /\ c + 1 \in 1..Len(rest) + 1
      BY <1>1, <1>2
    <2>2. Part(piece, rest, 1, c + 1)
      BY <1>1, <1>7, <2>1, PartIs
    <2>3. piece \in Seq(Item) /\ Len(piece) = c /\ \A i \in 1..c : piece[i] = rest[i]
      BY <2>1, <2>2 DEF Part
    <2>4. t - f = c
      BY <1>5
    <2>5. \A i \in 1..c : piece[i] = b[f + i - 1]
      BY <1>3, <2>3
    <2> QED
      BY <2>3, <2>4, <2>5 DEF Part
  <1>10. Part(next, b, t, Len(b) + 1)
    <2>1. (l + 1) - 1 = l /\ c + 1 \in 1..Len(rest) + 1 /\ l + 1 \in c + 1..Len(rest) + 1
      BY <1>2
    <2>2. Part(next, rest, c + 1, l + 1)
      BY <1>1, <1>8, <2>1, PartIs
    <2>3. (l + 1) - (c + 1) = l - c /\ Len(b) + 1 - t = l - c /\ l - c \in Nat
      BY <1>1, <1>2, <1>5
    <2>4. next \in Seq(Item) /\ Len(next) = l - c /\ \A i \in 1..l - c : next[i] = rest[(c + 1) + i - 1]
      BY <2>2, <2>3 DEF Part
    <2>5. ASSUME NEW i \in 1..l - c PROVE next[i] = b[t + i - 1]
      <3>1. PICK j \in 1..l : j = (c + 1) + i - 1
        OBVIOUS
      <3>2. f + j - 1 = t + i - 1
        BY <1>5, <3>1
      <3> QED
        BY <1>3, <2>4, <3>1, <3>2
    <2> QED
      BY <2>3, <2>4, <2>5 DEF Part
  <1>11. rest # <<>>
    BY <1>1
  <1>12. Round([rest |-> rest, done |-> done]) = [rest |-> next, done |-> Handle(piece, done)]
    BY <1>2, <1>4, <1>7, <1>8, <1>11 DEF Round
  <1> QED
    BY <1>6, <1>9, <1>10, <1>12 DEF HandlesPiece

\* A piece parses when it is cut where a message begins and ends.
LEMMA ParsesIs ==
    ASSUME sent \in Seq(Message), NEW pos, Offsets(pos, sent), NEW b, Laid(b, pos, sent),
           NEW f \in 1..Len(b), NEW t \in f + 1..Len(b) + 1, NEW piece, Part(piece, b, f, t)
    PROVE  /\ Parses(piece) => /\ piece[1][1] \in 1..Len(sent)
                               /\ pos[piece[1][1]] = f /\ pos[piece[1][1] + 1] = t
           /\ \A n \in 1..Len(sent) : pos[n] = f /\ pos[n + 1] = t => Parses(piece) /\ piece[1][1] = n
  <1>1. b \in Seq(Item) /\ Len(b) \in Nat /\ f \in Nat \ {0} /\ t \in Nat /\ t <= Len(b) + 1
    BY DEF Laid
  <1>2. piece[1] = b[f]
    <2>1. \A i \in 1..t - f : piece[i] = b[f + i - 1]
      BY DEF Part
    <2>2. 1 \in 1..t - f /\ f + 1 - 1 = f
      OBVIOUS
    <2>3. piece[1] = b[f + 1 - 1]
      BY <2>1, <2>2
    <2> QED
      BY <2>2, <2>3
  <1>3. PICK n \in 1..Len(sent) : n = piece[1][1]
    BY <1>2, LaidNumber
  <1>4. n \in Nat /\ sent[n] \in Message
    OBVIOUS
  <1>5. IsBytes(Bytes(n, sent[n]), n, sent[n])
    BY <1>4, BytesAre
  <1>6. Parses(piece) <=> piece = Bytes(n, sent[n])
    BY <1>3 DEF Parses
  <1>7. ASSUME Parses(piece) PROVE pos[n] = f /\ pos[n + 1] = t
    <2>1. IsBytes(piece, n, sent[n])
      BY <1>5, <1>6, <1>7
    <2> QED
      BY <1>1, <2>1, WholeAt
  <1>8. ASSUME NEW m \in 1..Len(sent), pos[m] = f, pos[m + 1] = t
        PROVE  Parses(piece) /\ m = n
    <2>1. IsBytes(piece, m, sent[m])
      <3>1. Part(piece, b, pos[m], pos[m + 1])
        BY <1>8
      <3>2. pos[m] >= 1 /\ pos[m + 1] <= Len(b) + 1
        BY <1>1, <1>8
      <3> QED
        BY <3>1, <3>2, WholeFrom
    <2>2. sent[m] \in Message /\ 1 \in 1..Len(sent[m])
      <3>1. sent[m] \in Message
        OBVIOUS
      <3> QED
        BY <3>1, MessageIs
    <2>3. piece[1][1] = m
      BY <2>1, <2>2 DEF IsBytes
    <2> QED
      BY <1>3, <1>5, <1>6, <2>1, <2>3, SamePart, Zenon
  <1> QED
    BY <1>3, <1>7, <1>8

\* A plain message that ends in a piece is all of the piece.
LEMMA AllOfPiece ==
    ASSUME sent \in Seq(Message), NEW pos, Offsets(pos, sent), NEW b, Laid(b, pos, sent),
           NEW f \in 1..Len(b), NEW t, Cuts(b, f, t), Edge(b, f), Index(b) # 1,
           NEW n \in 1..Len(sent), sent[n] \in Plain,
           pos[n] >= 1, f < pos[n + 1], pos[n + 1] <= t
    PROVE  pos[n] = f /\ pos[n + 1] = t
  <1>1. /\ b \in Seq(Item) /\ Len(b) \in Nat /\ Len(sent) \in Nat /\ f \in Int
        /\ t \in Int /\ t > f /\ t <= Len(b) + 1
        /\ \A i \in f..t - 2 : ~ Sep(b, i)
    BY DEF Laid, Cuts
  <1>2. n \in 1..Len(sent) + 1 /\ n + 1 \in 1..Len(sent) + 1
    BY <1>1
  <1>3. pos[n] \in Int /\ pos[n + 1] \in Int /\ pos[n + 1] = pos[n] + Len(sent[n])
    BY <1>2 DEF Offsets
  <1>4. Len(sent[n]) \in Nat /\ Len(sent[n]) > 1
    <2>1. sent[n] \in Message
      OBVIOUS
    <2> QED
      BY <2>1, MessageIs
  <1>5. PICK x \in Int : x = pos[n]
    BY <1>3
  <1>6. PICK y \in Int : y = pos[n + 1]
    BY <1>3
  <1>7. x >= 1 /\ f < y /\ y <= t /\ x + 1 < y
    BY <1>3, <1>4, <1>5, <1>6
  <1>8. ~ (x < f)
    <2> SUFFICES ASSUME x < f PROVE FALSE
      OBVIOUS
    <2>1. Sep(b, f - 1)
      BY <1>1, <1>7 DEF Edge
    <2>2. PICK i \in 1..Len(b) : i = f - 1
      BY <1>1, <1>7
    <2>3. i + 1 <= Len(b) /\ pos[n] <= i /\ i + 1 < pos[n + 1]
      BY <1>1, <1>5, <1>6, <1>7, <2>2
    <2>4. ~ Sep(b, i)
      BY <1>1, <2>3, Inside
    <2> QED
      BY <2>1, <2>2, <2>4
  <1>9. ~ (f < x)
    <2> SUFFICES ASSUME f < x PROVE FALSE
      OBVIOUS
    <2>1. 1 < x /\ x <= Len(b) /\ x - 1 \in f..t - 2
      BY <1>1, <1>7
    <2>2. Sep(b, pos[n] - 1)
      BY <1>2, <1>5, <2>1, Boundary
    <2> QED
      BY <1>1, <1>5, <2>1, <2>2
  <1>10. ~ (y < t)
    <2> SUFFICES ASSUME y < t PROVE FALSE
      OBVIOUS
    <2>1. 1 < y /\ y <= Len(b) /\ y - 1 \in f..t - 2
      BY <1>1, <1>7
    <2>2. Sep(b, pos[n + 1] - 1)
      BY <1>2, <1>6, <2>1, Boundary
    <2> QED
      BY <1>1, <1>6, <2>1, <2>2
  <1> QED
    BY <1>1, <1>5, <1>6, <1>7, <1>8, <1>9, <1>10

\* What has been handled of the bytes before f.
Taken(done, b, pos, f) ==
    /\ done \in Seq(1..Len(sent))
    /\ \A i \in 1..Len(done) : pos[done[i]] >= 1 /\ pos[done[i] + 1] <= f
    /\ \A i, j \in 1..Len(done) : i < j => done[i] < done[j]
    /\ Index(b) # 1 => \A n \in 1..Len(sent) :
          sent[n] \in Plain /\ pos[n] >= 1 /\ pos[n + 1] <= f => \E i \in 1..Len(done) : done[i] = n

LEMMA TakenOn ==
    ASSUME sent \in Seq(Message), NEW pos, Offsets(pos, sent), NEW b, Laid(b, pos, sent),
           NEW f \in 1..Len(b), NEW t, Cuts(b, f, t), Edge(b, f),
           NEW piece, Part(piece, b, f, t), NEW done, Taken(done, b, pos, f)
    PROVE  Taken(Handle(piece, done), b, pos, t)
  <1>1. /\ t \in f + 1..Len(b) + 1 /\ Len(b) \in Nat /\ f \in Int /\ t \in Int /\ f < t
        /\ Len(sent) \in Nat /\ \A m \in 1..Len(sent) + 1 : pos[m] \in Int
    <2>1. t \in f + 1..Len(b) + 1
      BY DEF Cuts
    <2>2. b \in Seq(Item)
      BY DEF Laid
    <2>3. pos \in [1..Len(sent) + 1 -> Int]
      BY DEF Offsets
    <2> QED
      BY <2>1, <2>2, <2>3
  <1>2. /\ done \in Seq(1..Len(sent)) /\ Len(done) \in Nat
        /\ \A i \in 1..Len(done) : pos[done[i]] >= 1 /\ pos[done[i] + 1] <= f
        /\ \A i, j \in 1..Len(done) : i < j => done[i] < done[j]
        /\ Index(b) # 1 => \A n \in 1..Len(sent) :
              sent[n] \in Plain /\ pos[n] >= 1 /\ pos[n + 1] <= f => \E i \in 1..Len(done) : done[i] = n
    BY DEF Taken
  <1>3. \A i \in 1..Len(done) : done[i] \in 1..Len(sent) /\ done[i] \in Int /\ pos[done[i] + 1] <= t
    <2> SUFFICES ASSUME NEW i \in 1..Len(done)
                 PROVE  done[i] \in 1..Len(sent) /\ done[i] \in Int /\ pos[done[i] + 1] <= t
      OBVIOUS
    <2>1. PICK d \in 1..Len(sent) : d = done[i]
      BY <1>2, SMTT(40)
    <2>2. d + 1 \in 1..Len(sent) + 1
      BY <1>1
    <2>3. pos[d + 1] \in Int /\ pos[d + 1] <= f
      BY <1>1, <1>2, <2>1, <2>2
    <2> QED
      BY <1>1, <2>1, <2>3
  <1>4. /\ Parses(piece) => /\ piece[1][1] \in 1..Len(sent)
                            /\ pos[piece[1][1]] = f /\ pos[piece[1][1] + 1] = t
        /\ \A n \in 1..Len(sent) : pos[n] = f /\ pos[n + 1] = t => Parses(piece) /\ piece[1][1] = n
    BY <1>1, ParsesIs
  <1>5. ASSUME Index(b) # 1, NEW n \in 1..Len(sent), sent[n] \in Plain, pos[n] >= 1, pos[n + 1] <= t,
               ~ \E i \in 1..Len(done) : done[i] = n
        PROVE  Parses(piece) /\ piece[1][1] = n
    <2>1. pos[n + 1] \in Int
      <3>1. n + 1 \in 1..Len(sent) + 1
        BY <1>1
      <3> QED
        BY <1>1, <3>1
    <2>2. f < pos[n + 1]
      BY <1>1, <1>2, <1>5, <2>1
    <2>3. pos[n] = f /\ pos[n + 1] = t
      BY <1>5, <2>2, AllOfPiece
    <2> QED
      BY <1>4, <2>3
  <1>6. CASE ~ Parses(piece)
    <2>1. Handle(piece, done) = done
      BY <1>6 DEF Handle
    <2>2. Index(b) # 1 => \A n \in 1..Len(sent) :
             sent[n] \in Plain /\ pos[n] >= 1 /\ pos[n + 1] <= t => \E i \in 1..Len(done) : done[i] = n
      BY <1>5, <1>6
    <2> QED
      BY <1>2, <1>3, <2>1, <2>2 DEF Taken
  <1>7. CASE Parses(piece)
    <2>1. PICK n \in 1..Len(sent) : n = piece[1][1] /\ pos[n] = f /\ pos[n + 1] = t
      BY <1>4, <1>7
    <2>2. PICK l \in Nat : l = Len(done)
      BY <1>2
    <2>3. PICK new : new = Append(done, n)
      OBVIOUS
    <2>4. Handle(piece, done) = new
      BY <1>7, <2>1, <2>3 DEF Handle
    <2>5. /\ new \in Seq(1..Len(sent)) /\ Len(new) = l + 1 /\ new[l + 1] = n
          /\ \A i \in 1..l : new[i] = done[i]
      BY <1>2, <2>2, <2>3
    <2>6. ASSUME NEW i \in 1..l PROVE done[i] < n
      <3>1. PICK d \in 1..Len(sent) : d = done[i]
        BY <1>3, <2>2
      <3>2. pos[d + 1] <= pos[n]
        BY <1>2, <2>1, <2>2, <3>1
      <3>3. ~ (n < d + 1)
        <4>1. n \in 1..Len(sent) + 1 /\ d + 1 \in 1..Len(sent) + 1
          BY <1>1
        <4>2. n < d + 1 => pos[n] < pos[d + 1]
          BY <4>1, OffsetsGrow
        <4>3. pos[n] \in Int /\ pos[d + 1] \in Int
          BY <1>1, <4>1
        <4> QED
          BY <3>2, <4>2, <4>3
      <3> QED
        BY <3>1, <3>3
    <2>7. \A i \in 1..l + 1 : i \in 1..l \/ i = l + 1
      OBVIOUS
    <2>8. \A i \in 1..l + 1 : pos[new[i]] >= 1 /\ pos[new[i] + 1] <= t
      <3>1. f >= 1 /\ t <= t
        BY <1>1
      <3>2. ASSUME NEW i \in 1..l PROVE pos[new[i]] >= 1 /\ pos[new[i] + 1] <= t
        BY <1>2, <1>3, <2>2, <2>5
      <3>3. pos[new[l + 1]] >= 1 /\ pos[new[l + 1] + 1] <= t
        BY <2>1, <2>5, <3>1
      <3> QED
        BY <2>7, <3>2, <3>3
    <2>9. ASSUME NEW i \in 1..l + 1, NEW j \in 1..l + 1, i < j PROVE new[i] < new[j]
      <3>1. i \in 1..l
        BY <2>9
      <3> QED
        BY <1>2, <2>2, <2>5, <2>6, <2>7, <2>9, <3>1
    <2>10. ASSUME Index(b) # 1, NEW m \in 1..Len(sent), sent[m] \in Plain, pos[m] >= 1, pos[m + 1] <= t
           PROVE  \E i \in 1..l + 1 : new[i] = m
      <3>1. CASE \E i \in 1..Len(done) : done[i] = m
        <4>1. PICK i \in 1..l : done[i] = m
          BY <2>2, <3>1
        <4>2. i \in 1..l + 1 /\ new[i] = m
          BY <2>5, <4>1
        <4> QED
          BY <4>2
      <3>2. CASE ~ \E i \in 1..Len(done) : done[i] = m
        <4>1. m = n
          BY <1>5, <2>1, <2>10, <3>2
        <4>2. l + 1 \in 1..l + 1
          OBVIOUS
        <4> QED
          BY <2>5, <4>1, <4>2
      <3> QED
        BY <3>1, <3>2
    <2>11. Taken(new, b, pos, t)
      BY <2>5, <2>8, <2>9, <2>10 DEF Taken
    <2> QED
      BY <2>4, <2>11
  <1> QED
    BY <1>6, <1>7

\* Where the loop can be: r.rest are the bytes from f on.
Reached(r, b, pos, f) ==
    /\ r \in [rest : Seq(Item), done : Seq(1..Len(sent))]
    /\ Part(r.rest, b, f, Len(b) + 1) /\ Edge(b, f)
    /\ Taken(r.done, b, pos, f)

LEMMA RoundReaches ==
    ASSUME sent \in Seq(Message), NEW pos, Offsets(pos, sent), NEW b, Laid(b, pos, sent),
           NEW f \in 1..Len(b) + 1, NEW r, Reached(r, b, pos, f)
    PROVE  \E t \in 1..Len(b) + 1 : Reached(Round(r), b, pos, t) /\ (f < t \/ t = Len(b) + 1)
  <1>1. b \in Seq(Item) /\ Len(b) \in Nat
    BY DEF Laid
  <1>2. r \in [rest : Seq(Item), done : Seq(1..Len(sent))]
    BY DEF Reached
  <1>3. PICK rest \in Seq(Item), done \in Seq(1..Len(sent)) : r = [rest |-> rest, done |-> done]
    BY <1>2
  <1>4. Part(rest, b, f, Len(b) + 1) /\ Edge(b, f) /\ Taken(done, b, pos, f)
    BY <1>3 DEF Reached
  <1>5. CASE f = Len(b) + 1
    <2>1. Len(rest) = 0
      BY <1>1, <1>4, <1>5 DEF Part
    <2>2. rest = <<>>
      BY <2>1
    <2>3. Round(r) = r
      BY <1>3, <2>2 DEF Round
    <2> QED
      BY <1>5, <2>3
  <1>6. CASE f # Len(b) + 1
    <2>1. f \in 1..Len(b)
      BY <1>1, <1>6
    <2>2. PICK t, piece, next :
             /\ Cuts(b, f, t) /\ Part(piece, b, f, t) /\ Part(next, b, t, Len(b) + 1)
             /\ Round([rest |-> rest, done |-> done]) = [rest |-> next, done |-> Handle(piece, done)]
      <3>1. HandlesPiece(rest, done, b, f)
        BY <1>1, <1>4, <2>1, RoundIs
      <3> QED
        BY <3>1 DEF HandlesPiece
    <2>3. PICK new : new = Handle(piece, done)
      OBVIOUS
    <2>4. Taken(new, b, pos, t)
      BY <1>4, <2>1, <2>2, <2>3, TakenOn
    <2>5. Edge(b, t) /\ t \in 1..Len(b) + 1 /\ f < t
      <3>1. Edge(b, t) /\ t \in f + 1..Len(b) + 1
        BY <2>2 DEF Cuts
      <3> QED
        BY <1>1, <2>1, <3>1
    <2>6. Round(r) = [rest |-> next, done |-> new]
      BY <1>3, <2>2, <2>3
    <2>7. next \in Seq(Item) /\ new \in Seq(1..Len(sent))
      BY <2>2, <2>4 DEF Part, Taken
    <2>8. Reached(Round(r), b, pos, t)
      BY <2>2, <2>4, <2>5, <2>6, <2>7 DEF Reached
    <2> QED
      BY <2>5, <2>8
  <1> QED
    BY <1>5, <1>6

LEMMA FromTheStart ==
    ASSUME sent \in Seq(Message), NEW pos, Offsets(pos, sent), NEW b, Laid(b, pos, sent)
    PROVE  Reached([rest |-> b, done |-> <<>>], b, pos, 1)
  <1>1. b \in Seq(Item) /\ Len(b) \in Nat /\ Len(sent) \in Nat
    BY DEF Laid
  <1>2. Part(b, b, 1, Len(b) + 1)
    BY <1>1 DEF Part
  <1>3. ASSUME NEW n \in 1..Len(sent), pos[n] >= 1, pos[n + 1] <= 1 PROVE FALSE
    <2>1. n \in 1..Len(sent) + 1 /\ n + 1 \in 1..Len(sent) + 1
      BY <1>1
    <2>2. pos[n] < pos[n + 1]
      BY <2>1, OffsetsGrow
    <2>3. pos[n] \in Int /\ pos[n + 1] \in Int
      BY <2>1 DEF Offsets
    <2> QED
      BY <1>3, <2>2, <2>3
  <1>4. Taken(<<>>, b, pos, 1)
    BY <1>3 DEF Taken
  <1> QED
    BY <1>1, <1>2, <1>4 DEF Reached, Edge

\* The loop goes to the end of the read.
LEMMA HandledIs ==
    ASSUME sent \in Seq(Message), NEW pos, Offsets(pos, sent), NEW b, Laid(b, pos, sent)
    PROVE  Taken(Handled(b), b, pos, Len(b) + 1)
  <1>1. b \in Seq(Item) /\ Len(b) \in Nat
    BY DEF Laid
  <1>2. PICK start : start = [rest |-> b, done |-> <<>>]
    OBVIOUS
  <1>3. Reached(start, b, pos, 1) /\ 1 \in 1..Len(b) + 1
    BY <1>1, <1>2, FromTheStart
  <1>4. PICK V : V = {r \in [rest : Seq(Item), done : Seq(1..Len(sent))] :
                         \E f \in 1..Len(b) + 1 : Reached(r, b, pos, f)}
    OBVIOUS
  <1>5. start \in V
    BY <1>3, <1>4 DEF Reached
  <1>6. ASSUME NEW r \in V PROVE Round(r) \in V
    <2>1. PICK f \in 1..Len(b) + 1 : Reached(r, b, pos, f)
      BY <1>4
    <2>2. PICK t \in 1..Len(b) + 1 : Reached(Round(r), b, pos, t)
      BY <2>1, RoundReaches
    <2> QED
      BY <1>4, <2>2 DEF Reached
  <1>7. PICK step : step = [k \in Nat |-> [r \in V |-> Round(r)]]
    OBVIOUS
  <1>8. step \in [Nat -> [V -> V]]
    BY <1>6, <1>7
  <1>9. PICK g : Goes(g, V, start, step)
    BY <1>5, <1>8, Recursion, Zenon
  <1>10. g \in [Nat -> V] /\ g[0] = start /\ \A k \in Nat : g[k + 1] = Round(g[k])
    BY <1>7, <1>9 DEF Goes
  <1> DEFINE Right(h) == h = [k \in Nat |-> IF k = 0 THEN [rest |-> b, done |-> <<>>] ELSE Round(h[k - 1])]
  <1>11. Right(g)
    <2>1. ASSUME NEW k \in Nat
          PROVE  g[k] = IF k = 0 THEN start ELSE Round(g[k - 1])
      <3>1. CASE k = 0
        BY <1>10, <3>1
      <3>2. CASE k # 0
        <4>1. k - 1 \in Nat /\ (k - 1) + 1 = k
          BY <3>2
        <4> QED
          BY <1>10, <3>2, <4>1
      <3> QED
        BY <3>1, <3>2
    <2> QED
      BY <1>2, <1>10, <2>1
  <1>12. Right(Rounds(b))
    BY <1>11, Zenon DEF Rounds
  <1>13. PICK h : h = Rounds(b)
    OBVIOUS
  <1>14. h[0] = start /\ \A k \in Nat : h[k + 1] = Round(h[k])
    <2>1. h = [k \in Nat |-> IF k = 0 THEN [rest |-> b, done |-> <<>>] ELSE Round(h[k - 1])]
      BY <1>12, <1>13
    <2>2. ASSUME NEW k \in Nat PROVE h[k + 1] = Round(h[k])
      <3>1. k + 1 \in Nat /\ k + 1 # 0 /\ (k + 1) - 1 = k
        OBVIOUS
      <3> QED
        BY <2>1, <3>1
    <2>3. h[0] = start
      BY <1>2, <2>1
    <2> QED
      BY <2>2, <2>3
  <1> DEFINE S == {k \in Nat : \E f \in 1..Len(b) + 1 : Reached(h[k], b, pos, f) /\ (k < f \/ f = Len(b) + 1)}
  <1>15. 0 \in S
    <2>1. 0 < 1
      OBVIOUS
    <2> QED
      BY <1>3, <1>14, <2>1
  <1>16. ASSUME NEW k \in Nat, k \in S PROVE k + 1 \in S
    <2>1. PICK f \in 1..Len(b) + 1 : Reached(h[k], b, pos, f) /\ (k < f \/ f = Len(b) + 1)
      BY <1>16
    <2>2. PICK t \in 1..Len(b) + 1 : Reached(Round(h[k]), b, pos, t) /\ (f < t \/ t = Len(b) + 1)
      BY <2>1, RoundReaches
    <2>3. k + 1 < t \/ t = Len(b) + 1
      BY <1>1, <2>1, <2>2
    <2>4. Reached(h[k + 1], b, pos, t)
      BY <1>14, <2>2
    <2> QED
      BY <2>3, <2>4
  <1> HIDE DEF S
  <1>17. Nat \subseteq S
    BY <1>15, <1>16, Induction
  <1>18. PICK f \in 1..Len(b) + 1 : Reached(h[Len(b)], b, pos, f) /\ (Len(b) < f \/ f = Len(b) + 1)
    BY <1>1, <1>17 DEF S
  <1>19. f = Len(b) + 1
    BY <1>1, <1>18
  <1>20. Handled(b) = h[Len(b)].done
    BY <1>13 DEF Handled
  <1> QED
    BY <1>18, <1>19, <1>20 DEF Reached
-----------------------------------------------------------------------------
(***************************************************************************)
(* CloudStream: the invariant.                                             *)
(***************************************************************************)

\* c is what remains of the messages s, and none of all is part of it.
Placed(pos, s, c, all) ==
    /\ Offsets(pos, s) /\ Laid(c, pos, s) /\ pos[Len(s) + 1] = Len(c) + 1
    /\ all \in Seq(1..Len(s))
    /\ \A i \in 1..Len(all) : pos[all[i] + 1] <= 1
    /\ \A i, j \in 1..Len(all) : i < j => all[i] < all[j]

StreamInv ==
    /\ sent \in Seq(Message)
    /\ last \in Seq(Item) /\ \A i \in 1..Len(last) : last[i][1] \in 1..Len(sent)
    /\ total \in Seq(1..Len(sent)) /\ handled \in Seq(1..Len(sent))
    /\ \E pos : Placed(pos, sent, coming, total \o handled)
    /\ WholeHandled

LEMMA NothingPlaced ==
    \E pos : Placed(pos, <<>>, <<>>, <<>> \o <<>>)
  <1>1. PICK pos : pos = [n \in 1..1 |-> 1]
    OBVIOUS
  <1>2. PICK none \in Seq(Message) : none = <<>>
    <2>1. <<>> \in Seq(Message)
      OBVIOUS
    <2> QED
      BY <2>1
  <1>3. Len(none) = 0 /\ 1..Len(none) = {}
    BY <1>2
  <1>4. 1..Len(none) + 1 = 1..1 /\ Len(none) + 1 = 1
    BY <1>3
  <1>5. Offsets(pos, none)
    BY <1>1, <1>3, <1>4 DEF Offsets
  <1>6. none \in Seq(Item) /\ none \in Seq(1..Len(none)) /\ none \o none = none
    BY <1>2
  <1>7. Laid(none, pos, none)
    BY <1>3, <1>6 DEF Laid
  <1>8. pos[Len(none) + 1] = Len(none) + 1
    BY <1>1, <1>4
  <1>9. Placed(pos, none, none, none)
    BY <1>3, <1>5, <1>6, <1>7, <1>8 DEF Placed
  <1> QED
    BY <1>2, <1>6, <1>9

\* Nothing has been read: WholeHandled has nothing to say.
LEMMA NothingWhole ==
    ASSUME sent = <<>> PROVE WholeHandled
  <1>1. DOMAIN sent = {}
    OBVIOUS
  <1> QED
    BY <1>1 DEF WholeHandled

LEMMA StreamInvInit == Init => StreamInv
  <1> SUFFICES ASSUME StreamInit PROVE StreamInv
    BY DEF Init
  <1>1. sent = <<>> /\ coming = <<>> /\ last = <<>> /\ handled = <<>> /\ total = <<>>
    BY DEF StreamInit
  <1>2. WholeHandled
    BY <1>1, NothingWhole
  <1>3. \E pos : Placed(pos, sent, coming, total \o handled)
    BY <1>1, NothingPlaced
  <1> QED
    BY <1>1, <1>2, <1>3 DEF StreamInv

\* What is read lies where it lay, and what is left moves to the front.
LEMMA LaidRead ==
    ASSUME NEW s \in Seq(Message), NEW pos, Offsets(pos, s), NEW c, Laid(c, pos, s),
           NEW n \in 1..Len(c), NEW b, Part(b, c, 1, n + 1)
    PROVE  Laid(b, pos, s)
  <1>1. (n + 1) - 1 = n /\ Len(c) \in Nat
    BY DEF Laid
  <1>2. b \in Seq(Item) /\ Len(b) = n
    BY <1>1 DEF Part
  <1>3. ASSUME NEW i \in 1..n
        PROVE  \E m \in 1..Len(s) : pos[m] <= i /\ i < pos[m + 1] /\ b[i] = <<m, s[m][i - pos[m] + 1]>>
    <2>1. b[i] = c[i]
      <3>1. 1 + i - 1 = i /\ i \in 1..(n + 1) - 1
        BY <1>1
      <3>2. b[i] = c[1 + i - 1]
        BY <3>1 DEF Part
      <3> QED
        BY <3>1, <3>2
    <2>2. i \in 1..Len(c)
      BY <1>1
    <2> QED
      BY <2>1, <2>2 DEF Laid
  <1> QED
    BY <1>2, <1>3 DEF Laid

LEMMA LaidLeft ==
    ASSUME NEW s \in Seq(Message), NEW pos, Offsets(pos, s), NEW c, Laid(c, pos, s),
           NEW n \in 1..Len(c), NEW left, Part(left, c, n + 1, Len(c) + 1),
           NEW shifted, shifted = [m \in 1..Len(s) + 1 |-> pos[m] - n]
    PROVE  Offsets(shifted, s) /\ Laid(left, shifted, s)
  <1>1. Len(c) \in Nat /\ Len(s) \in Nat /\ pos \in [1..Len(s) + 1 -> Int]
    BY DEF Laid, Offsets
  <1>2. shifted \in [1..Len(s) + 1 -> Int] /\ \A m \in 1..Len(s) + 1 : shifted[m] = pos[m] - n /\ pos[m] \in Int
    <2>1. \A m \in 1..Len(s) + 1 : pos[m] \in Int /\ pos[m] - n \in Int
      <3>1. n \in Int
        OBVIOUS
      <3> QED
        BY <1>1, <3>1
    <2> QED
      BY <2>1
  <1>3. \A m \in 1..Len(s) : m \in 1..Len(s) + 1 /\ m + 1 \in 1..Len(s) + 1
    BY <1>1
  <1>4. Offsets(shifted, s)
    <2>1. ASSUME NEW m \in 1..Len(s) PROVE shifted[m + 1] = shifted[m] + Len(s[m])
      <3>1. PICK x \in Int : x = pos[m]
        BY <1>1, <1>3
      <3>2. PICK l \in Nat : l = Len(s[m])
        <4>1. s[m] \in Message
          OBVIOUS
        <4> QED
          BY <4>1, MessageIs
      <3>3. pos[m + 1] = x + l
        BY <3>1, <3>2 DEF Offsets
      <3>4. shifted[m] = x - n /\ shifted[m + 1] = (x + l) - n
        BY <1>2, <1>3, <3>1, <3>3
      <3> QED
        BY <3>2, <3>4
    <2> QED
      BY <1>2, <2>1 DEF Offsets
  <1>5. PICK l \in Nat : l = Len(c) - n
    <2>1. Len(c) - n \in Nat
      BY <1>1
    <2> QED
      BY <2>1
  <1>6. (Len(c) + 1) - (n + 1) = l
    BY <1>1, <1>5
  <1>7. left \in Seq(Item) /\ Len(left) = l /\ \A i \in 1..l : left[i] = c[(n + 1) + i - 1]
    BY <1>6 DEF Part
  <1>8. ASSUME NEW i \in 1..l
        PROVE  \E m \in 1..Len(s) : shifted[m] <= i /\ i < shifted[m + 1] /\ left[i] = <<m, s[m][i - shifted[m] + 1]>>
    <2>1. PICK k \in 1..Len(c) : k = n + i
      BY <1>1, <1>5
    <2>2. left[i] = c[k]
      <3>1. (n + 1) + i - 1 = k
        BY <2>1
      <3> QED
        BY <1>7, <3>1
    <2>3. PICK m \in 1..Len(s) : pos[m] <= k /\ k < pos[m + 1] /\ c[k] = <<m, s[m][k - pos[m] + 1]>>
      BY DEF Laid
    <2>4. m \in 1..Len(s) + 1 /\ m + 1 \in 1..Len(s) + 1
      BY <1>3
    <2>5. PICK x \in Int, y \in Int : x = pos[m] /\ y = pos[m + 1]
      BY <1>2, <2>4
    <2>6. shifted[m] = x - n /\ shifted[m + 1] = y - n
      BY <1>2, <2>4, <2>5
    <2>7. x <= k /\ k < y /\ n \in Int
      BY <2>3, <2>5
    <2>8. x - n <= i /\ i < y - n /\ i - (x - n) + 1 = k - x + 1
      BY <2>1, <2>7
    <2>9. shifted[m] <= i /\ i < shifted[m + 1] /\ i - shifted[m] + 1 = k - pos[m] + 1
      BY <2>5, <2>6, <2>8
    <2> QED
      BY <2>2, <2>3, <2>9
  <1>9. Laid(left, shifted, s)
    BY <1>7, <1>8 DEF Laid
  <1> QED
    BY <1>4, <1>9

\* WholeHandled, of the messages s and a read b of which done is handled.
WholeOf(s, b, done) ==
    Index(b) # 1 =>
        \A n \in DOMAIN s :
           /\ s[n] \in Plain
           /\ \E i \in 0..Len(b) - Len(s[n]) : SubSeq(b, i + 1, i + Len(s[n])) = Bytes(n, s[n])
           => \E i \in DOMAIN done : done[i] = n

LEMMA WholeIsHandled ==
    ASSUME NEW pos, NEW s \in Seq(Message), Offsets(pos, s), NEW b, Laid(b, pos, s),
           NEW done \in Seq(1..Len(s)),
           Index(b) # 1 => \A n \in 1..Len(s) :
              s[n] \in Plain /\ pos[n] >= 1 /\ pos[n + 1] <= Len(b) + 1
              => \E i \in 1..Len(done) : done[i] = n
    PROVE  WholeOf(s, b, done)
  <1>1. b \in Seq(Item) /\ Len(b) \in Nat
    BY DEF Laid
  <1>2. DOMAIN s = 1..Len(s) /\ DOMAIN done = 1..Len(done)
    OBVIOUS
  <1>3. ASSUME Index(b) # 1, NEW n \in 1..Len(s), s[n] \in Plain,
               \E i \in 0..Len(b) - Len(s[n]) : SubSeq(b, i + 1, i + Len(s[n])) = Bytes(n, s[n])
        PROVE  \E i \in 1..Len(done) : done[i] = n
    <2>1. PICK m \in Message : m = s[n]
      OBVIOUS
    <2>2. PICK l \in Nat : l = Len(m) /\ l > 1
      BY MessageIs
    <2>3. PICK i \in 0..Len(b) - l : SubSeq(b, i + 1, i + l) = Bytes(n, m)
      BY <1>3, <2>1, <2>2
    <2>4. PICK f \in Nat \ {0} : f = i + 1
      OBVIOUS
    <2>5. PICK t \in Nat : t = i + l + 1
      OBVIOUS
    <2>6. t - 1 = i + l /\ f \in 1..Len(b) + 1 /\ t \in f..Len(b) + 1
      BY <1>1, <2>2, <2>4, <2>5
    <2>7. PICK p : p = SubSeq(b, f, t - 1)
      OBVIOUS
    <2>8. Part(p, b, f, t)
      BY <1>1, <2>6, <2>7, PartIs
    <2>9. p = Bytes(n, m)
      BY <2>3, <2>4, <2>6, <2>7
    <2>10. IsBytes(p, n, s[n])
      <3>1. n \in Nat
        OBVIOUS
      <3>2. IsBytes(Bytes(n, m), n, m)
        BY <3>1, BytesAre
      <3> QED
        BY <2>1, <2>9, <3>2
    <2>11. t <= Len(b) + 1
      BY <2>6
    <2>12. pos[n] = f /\ pos[n + 1] = t
      BY <2>8, <2>10, <2>11, WholeAt
    <2>13. pos[n] >= 1 /\ pos[n + 1] <= Len(b) + 1
      BY <2>11, <2>12
    <2> QED
      BY <1>3, <2>13
  <1> QED
    BY <1>2, <1>3 DEF WholeOf

LEMMA PlacedOn ==
    ASSUME NEW s \in Seq(Message), NEW pos, NEW c, NEW all, Placed(pos, s, c, all),
           NEW n \in 1..Len(c), NEW left, Part(left, c, n + 1, Len(c) + 1),
           NEW new \in Seq(1..Len(s)),
           \A i \in 1..Len(new) : pos[new[i]] >= 1 /\ pos[new[i] + 1] <= n + 1,
           \A i, j \in 1..Len(new) : i < j => new[i] < new[j]
    PROVE  \E shifted : Placed(shifted, s, left, all \o new)
  <1>1. /\ Offsets(pos, s) /\ Laid(c, pos, s) /\ pos[Len(s) + 1] = Len(c) + 1
        /\ all \in Seq(1..Len(s))
        /\ \A i \in 1..Len(all) : pos[all[i] + 1] <= 1
        /\ \A i, j \in 1..Len(all) : i < j => all[i] < all[j]
    BY DEF Placed
  <1>2. /\ Len(s) \in Nat /\ Len(c) \in Nat /\ pos \in [1..Len(s) + 1 -> Int]
        /\ \A d \in 1..Len(s) : d \in 1..Len(s) + 1 /\ d + 1 \in 1..Len(s) + 1
        /\ n \in Nat /\ n >= 1
    <2>1. Len(s) \in Nat /\ Len(c) \in Nat /\ pos \in [1..Len(s) + 1 -> Int]
      BY <1>1 DEF Offsets, Laid
    <2> QED
      BY <2>1
  <1>3. PICK shifted : shifted = [m \in 1..Len(s) + 1 |-> pos[m] - n]
    OBVIOUS
  <1>4. Offsets(shifted, s) /\ Laid(left, shifted, s)
    BY <1>1, <1>3, LaidLeft
  <1>5. \A d \in 1..Len(s) + 1 : shifted[d] = pos[d] - n /\ pos[d] \in Int
    BY <1>2, <1>3
  <1>6. shifted[Len(s) + 1] = Len(left) + 1
    <2>1. Len(left) = (Len(c) + 1) - (n + 1)
      BY DEF Part
    <2>2. Len(s) + 1 \in 1..Len(s) + 1
      BY <1>2
    <2>3. shifted[Len(s) + 1] = (Len(c) + 1) - n
      BY <1>1, <1>5, <2>2
    <2> QED
      BY <1>2, <2>1, <2>3
  <1>7. PICK u : u = all \o new
    OBVIOUS
  <1>8. Joins(1..Len(s), u, all, new)
    BY <1>1, <1>7, Joined, Zenon
  <1>9. PICK k \in Nat : k = Len(all)
    BY <1>1
  <1>10. PICK l \in Nat : l = Len(new)
    OBVIOUS
  <1>11. /\ u \in Seq(1..Len(s)) /\ Len(u) = k + l
         /\ \A i \in 1..k : u[i] = all[i]
         /\ \A j \in 1..l : u[k + j] = new[j]
    BY <1>8, <1>9, <1>10 DEF Joins
  <1>12. \A i \in 1..k + l : i \in 1..k \/ \E j \in 1..l : i = k + j
    <2>1. ASSUME NEW i \in 1..k + l, i \notin 1..k PROVE \E j \in 1..l : i = k + j
      <3>1. i - k \in 1..l /\ i = k + (i - k)
        BY <2>1
      <3> QED
        BY <3>1
    <2> QED
      BY <2>1
  <1>13. \A i \in 1..k : all[i] \in 1..Len(s) /\ pos[all[i] + 1] <= 1
    BY <1>1, <1>9
  <1>14. \A j \in 1..l : new[j] \in 1..Len(s) /\ pos[new[j]] >= 1 /\ pos[new[j] + 1] <= n + 1
    BY <1>10
  <1>15. ASSUME NEW i \in 1..k + l PROVE shifted[u[i] + 1] <= 1
    <2>1. CASE i \in 1..k
      <3>1. PICK d \in 1..Len(s) : d = all[i] /\ pos[d + 1] <= 1
        BY <1>13, <2>1
      <3>2. shifted[d + 1] = pos[d + 1] - n /\ pos[d + 1] \in Int
        BY <1>2, <1>5
      <3>3. shifted[d + 1] <= 1
        BY <1>2, <3>1, <3>2
      <3> QED
        BY <1>11, <2>1, <3>1, <3>3
    <2>2. CASE \E j \in 1..l : i = k + j
      <3>1. PICK j \in 1..l : i = k + j
        BY <2>2
      <3>2. PICK d \in 1..Len(s) : d = new[j] /\ pos[d + 1] <= n + 1
        BY <1>14
      <3>3. shifted[d + 1] = pos[d + 1] - n /\ pos[d + 1] \in Int
        BY <1>2, <1>5
      <3>4. shifted[d + 1] <= 1
        BY <1>2, <3>2, <3>3, SMTT(40)
      <3> QED
        BY <1>11, <3>1, <3>2, <3>4
    <2> QED
      BY <1>12, <2>1, <2>2
  <1>16. ASSUME NEW i \in 1..k, NEW j \in 1..l PROVE all[i] < new[j]
    <2>1. PICK d \in 1..Len(s) : d = all[i] /\ pos[d + 1] <= 1
      BY <1>13
    <2>2. PICK e \in 1..Len(s) : e = new[j] /\ pos[e] >= 1
      BY <1>14
    <2>3. e \in 1..Len(s) + 1 /\ d + 1 \in 1..Len(s) + 1
      BY <1>2
    <2>4. e < d + 1 => pos[e] < pos[d + 1]
      BY <1>1, <2>3, OffsetsGrow
    <2>5. pos[e] \in Int /\ pos[d + 1] \in Int
      BY <1>5, <2>3
    <2>6. ~ (e < d + 1)
      BY <2>1, <2>2, <2>4, <2>5
    <2> QED
      BY <2>1, <2>2, <2>6
  <1>17. ASSUME NEW i \in 1..k + l, NEW j \in 1..k + l, i < j PROVE u[i] < u[j]
    <2>1. CASE j \in 1..k
      <3>1. i \in 1..k
        BY <1>17, <2>1
      <3> QED
        BY <1>1, <1>9, <1>11, <1>17, <2>1, <3>1
    <2>2. CASE i \in 1..k /\ \E q \in 1..l : j = k + q
      BY <1>11, <1>16, <2>2
    <2>3. CASE (\E p \in 1..l : i = k + p) /\ (\E q \in 1..l : j = k + q)
      <3>1. PICK p \in 1..l, q \in 1..l : i = k + p /\ j = k + q
        BY <2>3
      <3>2. p < q
        BY <1>17, <3>1
      <3> QED
        BY <1>10, <1>11, <3>1, <3>2
    <2> QED
      BY <1>12, <2>1, <2>2, <2>3
  <1>18. Placed(shifted, s, left, u)
    BY <1>4, <1>6, <1>11, <1>15, <1>17 DEF Placed
  <1> QED
    BY <1>7, <1>18

LEMMA StreamInvReads ==
    ASSUME StreamInv, NEW n \in 1..Buf, CloudReads(n)
    PROVE  StreamInv'
  <1>1. PICK pos : Placed(pos, sent, coming, total \o handled)
    BY DEF StreamInv
  <1>2. sent \in Seq(Message) /\ Offsets(pos, sent) /\ Laid(coming, pos, sent)
    BY <1>1 DEF StreamInv, Placed
  <1>3. coming \in Seq(Item) /\ Len(coming) \in Nat /\ n \in 1..Len(coming)
    BY <1>2 DEF Laid, CloudReads
  <1>4. PICK b : b = SubSeq(coming, 1, n)
    OBVIOUS
  <1>5. PICK left : left = SubSeq(coming, n + 1, Len(coming))
    OBVIOUS
  <1>6. Part(b, coming, 1, n + 1)
    <2>1. (n + 1) - 1 = n /\ 1 \in 1..Len(coming) + 1 /\ n + 1 \in 1..Len(coming) + 1
      BY <1>3
    <2> QED
      BY <1>3, <1>4, <2>1, PartIs
  <1>7. Part(left, coming, n + 1, Len(coming) + 1)
    <2>1. /\ (Len(coming) + 1) - 1 = Len(coming) /\ n + 1 \in 1..Len(coming) + 1
          /\ Len(coming) + 1 \in n + 1..Len(coming) + 1
      BY <1>3
    <2> QED
      BY <1>3, <1>5, <2>1, PartIs
  <1>8. Laid(b, pos, sent)
    BY <1>2, <1>3, <1>6, LaidRead
  <1>9. Len(b) = n
    <2>1. (n + 1) - 1 = n
      OBVIOUS
    <2> QED
      BY <1>6, <2>1 DEF Part
  <1>10. PICK new : new = Handled(b)
    OBVIOUS
  <1>11. Taken(new, b, pos, Len(b) + 1)
    BY <1>2, <1>8, <1>10, HandledIs
  <1>12. /\ sent' = sent /\ last' = b /\ handled' = new /\ coming' = left
         /\ total' = total \o handled
    BY <1>4, <1>5, <1>10 DEF CloudReads
  <1>13. new \in Seq(1..Len(sent))
    BY <1>11 DEF Taken
  <1>14. \E shifted : Placed(shifted, sent, left, (total \o handled) \o new)
    <2>1. \A i \in 1..Len(new) : pos[new[i]] >= 1 /\ pos[new[i] + 1] <= n + 1
      BY <1>9, <1>11 DEF Taken
    <2>2. \A i, j \in 1..Len(new) : i < j => new[i] < new[j]
      BY <1>11 DEF Taken
    <2> QED
      BY <1>1, <1>2, <1>3, <1>7, <1>13, <2>1, <2>2, PlacedOn
  <1>15. (\E shifted : Placed(shifted, sent, coming, total \o handled))'
    BY <1>12, <1>14
  <1>16. total \o handled \in Seq(1..Len(sent))
    BY <1>1 DEF Placed
  <1>17. b \in Seq(Item) /\ \A i \in 1..Len(b) : b[i][1] \in 1..Len(sent)
    <2>1. b \in Seq(Item)
      BY <1>8 DEF Laid
    <2> QED
      BY <1>8, <2>1, LaidNumber
  <1>18. WholeHandled'
    <2>1. WholeOf(sent, b, new)
      <3>1. Index(b) # 1 => \A m \in 1..Len(sent) :
               sent[m] \in Plain /\ pos[m] >= 1 /\ pos[m + 1] <= Len(b) + 1
               => \E i \in 1..Len(new) : new[i] = m
        BY <1>11 DEF Taken
      <3> QED
        BY <1>2, <1>8, <1>13, <3>1, WholeIsHandled
    <2> QED
      BY <1>12, <2>1 DEF WholeHandled, Within, WholeOf
  <1> QED
    BY <1>2, <1>12, <1>13, <1>15, <1>16, <1>17, <1>18 DEF StreamInv

LEMMA Wider == \A a, b \in Nat : a <= b => \A q \in Seq(1..a) : q \in Seq(1..b)
  <1> SUFFICES ASSUME NEW a \in Nat, NEW b \in Nat, a <= b, NEW q \in Seq(1..a)
               PROVE  q \in Seq(1..b)
    OBVIOUS
  <1>1. 1..a \subseteq 1..b
    OBVIOUS
  <1> QED
    BY <1>1

LEMMA PlacedMore ==
    ASSUME NEW s \in Seq(Message), NEW pos, NEW c, NEW all, Placed(pos, s, c, all), NEW m \in Message
    PROVE  \E shifted : Placed(shifted, Append(s, m), c \o Bytes(Len(s) + 1, m), all)
  <1>1. /\ Offsets(pos, s) /\ Laid(c, pos, s) /\ pos[Len(s) + 1] = Len(c) + 1
        /\ all \in Seq(1..Len(s))
        /\ \A i \in 1..Len(all) : pos[all[i] + 1] <= 1
        /\ \A i, j \in 1..Len(all) : i < j => all[i] < all[j]
    BY DEF Placed
  <1>2. c \in Seq(Item) /\ pos \in [1..Len(s) + 1 -> Int]
    BY <1>1 DEF Offsets, Laid
  <1>3. PICK k \in Nat : k = Len(s)
    OBVIOUS
  <1>4. PICK d \in Nat : d = Len(c)
    BY <1>2
  <1>5. PICK l \in Nat : l = Len(m)
    BY MessageIs
  <1>6. PICK more : more = Append(s, m)
    OBVIOUS
  <1>7. /\ more \in Seq(Message) /\ Len(more) = k + 1 /\ more[k + 1] = m
        /\ \A n \in 1..k : more[n] = s[n]
    BY <1>3, <1>6
  <1>8. PICK p : p = Bytes(k + 1, m)
    OBVIOUS
  <1>9. p \in Seq(Item) /\ Len(p) = l /\ \A i \in 1..l : p[i] = <<k + 1, m[i]>>
    <2>1. IsBytes(p, k + 1, m)
      BY <1>8, BytesAre
    <2> QED
      BY <1>5, <2>1 DEF IsBytes
  <1>10. PICK u : u = c \o p
    OBVIOUS
  <1>11. /\ u \in Seq(Item) /\ Len(u) = d + l
         /\ \A i \in 1..d : u[i] = c[i]
         /\ \A i \in 1..l : u[d + i] = p[i]
    <2>1. Joins(Item, u, c, p)
      BY <1>2, <1>9, <1>10, Joined, Zenon
    <2> QED
      BY <1>4, <1>9, <2>1 DEF Joins
  <1>12. PICK shifted : shifted = [n \in 1..(k + 1) + 1 |-> IF n = (k + 1) + 1 THEN d + 1 + l ELSE pos[n]]
    OBVIOUS
  <1>13. \A n \in 1..k + 1 : n \in 1..(k + 1) + 1 /\ n # (k + 1) + 1 /\ pos[n] \in Int
    BY <1>2, <1>3
  <1>14. /\ shifted \in [1..(k + 1) + 1 -> Int] /\ shifted[(k + 1) + 1] = d + 1 + l
         /\ \A n \in 1..k + 1 : shifted[n] = pos[n]
    <2>1. \A n \in 1..(k + 1) + 1 : n \in 1..k + 1 \/ n = (k + 1) + 1
      OBVIOUS
    <2>2. (k + 1) + 1 \in 1..(k + 1) + 1
      OBVIOUS
    <2> QED
      BY <1>12, <1>13, <2>1, <2>2
  <1>15. shifted[k + 1] = d + 1
    <2>1. k + 1 \in 1..k + 1
      OBVIOUS
    <2> QED
      BY <1>1, <1>3, <1>4, <1>14, <2>1
  <1>16. \A n \in 1..k : n \in 1..k + 1 /\ n + 1 \in 1..k + 1
    OBVIOUS
  <1>17. \A n \in 1..k + 1 : n \in 1..k \/ n = k + 1
    OBVIOUS
  <1>18. Offsets(shifted, more)
    <2>1. ASSUME NEW n \in 1..k PROVE shifted[n + 1] = shifted[n] + Len(more[n])
      <3>1. pos[n + 1] = pos[n] + Len(s[n])
        BY <1>1, <1>3 DEF Offsets
      <3> QED
        BY <1>7, <1>14, <1>16, <3>1
    <2>2. shifted[(k + 1) + 1] = shifted[k + 1] + Len(more[k + 1])
      BY <1>5, <1>7, <1>14, <1>15
    <2> QED
      BY <1>7, <1>14, <1>17, <2>1, <2>2 DEF Offsets
  <1>19. ASSUME NEW i \in 1..d
         PROVE  \E n \in 1..k + 1 : shifted[n] <= i /\ i < shifted[n + 1] /\ u[i] = <<n, more[n][i - shifted[n] + 1]>>
    <2>1. PICK n \in 1..k : pos[n] <= i /\ i < pos[n + 1] /\ c[i] = <<n, s[n][i - pos[n] + 1]>>
      BY <1>1, <1>3, <1>4 DEF Laid
    <2>2. shifted[n] = pos[n] /\ shifted[n + 1] = pos[n + 1] /\ more[n] = s[n] /\ n \in 1..k + 1
      BY <1>7, <1>14, <1>16
    <2> QED
      BY <1>11, <2>1, <2>2
  <1>20. ASSUME NEW i \in 1..l
         PROVE  \E n \in 1..k + 1 : shifted[n] <= d + i /\ d + i < shifted[n + 1] /\ u[d + i] = <<n, more[n][(d + i) - shifted[n] + 1]>>
    <2>1. k + 1 \in 1..k + 1
      OBVIOUS
    <2>2. shifted[k + 1] <= d + i /\ d + i < shifted[(k + 1) + 1] /\ (d + i) - shifted[k + 1] + 1 = i
      BY <1>14, <1>15
    <2>3. u[d + i] = <<k + 1, more[k + 1][i]>>
      BY <1>7, <1>9, <1>11
    <2> QED
      BY <2>1, <2>2, <2>3
  <1>21. Laid(u, shifted, more)
    <2>1. ASSUME NEW i \in 1..d + l, i \notin 1..d PROVE \E j \in 1..l : i = d + j
      <3>1. i - d \in 1..l /\ i = d + (i - d)
        BY <2>1
      <3> QED
        BY <3>1
    <2>2. ASSUME NEW i \in 1..d + l
          PROVE  \E n \in 1..k + 1 : shifted[n] <= i /\ i < shifted[n + 1] /\ u[i] = <<n, more[n][i - shifted[n] + 1]>>
      <3>1. CASE i \in 1..d
        BY <1>19, <3>1
      <3>2. CASE i \notin 1..d
        <4>1. PICK j \in 1..l : i = d + j
          BY <2>1, <3>2
        <4>2. \E n \in 1..k + 1 : shifted[n] <= d + j /\ d + j < shifted[n + 1] /\ u[d + j] = <<n, more[n][(d + j) - shifted[n] + 1]>>
          BY <1>20
        <4> QED
          BY <4>1, <4>2
      <3> QED
        BY <3>1, <3>2
    <2> QED
      BY <1>7, <1>11, <2>2, SMTT(40) DEF Laid
  <1>22. shifted[Len(more) + 1] = Len(u) + 1
    BY <1>7, <1>11, <1>14
  <1>23. all \in Seq(1..Len(more))
    BY <1>1, <1>3, <1>7, Wider
  <1>24. \A i \in 1..Len(all) : shifted[all[i] + 1] <= 1
    <2>1. ASSUME NEW i \in 1..Len(all) PROVE shifted[all[i] + 1] <= 1
      <3>1. PICK n \in 1..k : n = all[i]
        BY <1>1, <1>3
      <3>2. shifted[n + 1] = pos[n + 1]
        BY <1>14, <1>16
      <3> QED
        BY <1>1, <3>1, <3>2
    <2> QED
      BY <2>1
  <1>25. Placed(shifted, more, u, all)
    BY <1>1, <1>18, <1>21, <1>22, <1>23, <1>24 DEF Placed
  <1> QED
    BY <1>3, <1>6, <1>8, <1>10, <1>25

LEMMA StreamInvSends ==
    ASSUME StreamInv, NEW m \in Message, CloudSends(m)
    PROVE  StreamInv'
  <1>1. sent \in Seq(Message) /\ Len(sent) \in Nat
    BY DEF StreamInv
  <1>2. PICK k \in Nat : k = Len(sent)
    BY <1>1
  <1>3. PICK more : more = Append(sent, m)
    OBVIOUS
  <1>4. /\ more \in Seq(Message) /\ Len(more) = k + 1 /\ \A n \in 1..k : more[n] = sent[n]
        /\ more[k + 1] = m
    BY <1>1, <1>2, <1>3
  <1>5. /\ sent' = more /\ coming' = coming \o Bytes(k + 1, m)
        /\ last' = last /\ handled' = handled /\ total' = total
    BY <1>2, <1>3 DEF CloudSends
  <1>6. PICK pos : Placed(pos, sent, coming, total \o handled)
    BY DEF StreamInv
  <1>7. \E shifted : Placed(shifted, more, coming \o Bytes(k + 1, m), total \o handled)
    BY <1>1, <1>2, <1>3, <1>6, PlacedMore
  <1>8. (\E shifted : Placed(shifted, sent, coming, total \o handled))'
    BY <1>5, <1>7
  <1>9. total \in Seq(1..Len(more)) /\ handled \in Seq(1..Len(more))
    BY <1>2, <1>4, Wider DEF StreamInv
  <1>10. /\ last \in Seq(Item) /\ Len(last) \in Nat
         /\ \A i \in 1..Len(last) : last[i][1] \in 1..k /\ last[i][1] \in 1..Len(more)
    <2>1. last \in Seq(Item) /\ \A i \in 1..Len(last) : last[i][1] \in 1..k
      BY <1>2 DEF StreamInv
    <2>2. \A n \in 1..k : n \in 1..k + 1
      OBVIOUS
    <2> QED
      BY <1>4, <2>1, <2>2
  <1>11. WholeOf(more, last, handled)
    <2>1. ASSUME Index(last) # 1, NEW n \in 1..k + 1, more[n] \in Plain,
                 NEW i \in 0..Len(last) - Len(more[n]),
                 SubSeq(last, i + 1, i + Len(more[n])) = Bytes(n, more[n])
          PROVE  \E j \in DOMAIN handled : handled[j] = n
      <3>1. n # k + 1
        <4> SUFFICES ASSUME n = k + 1 PROVE FALSE
          OBVIOUS
        <4>1. PICK l \in Nat : l = Len(m) /\ l > 1
          BY MessageIs
        <4>2. more[n] = m /\ i \in 0..Len(last) - l
          BY <1>4, <4>1
        <4>3. PICK f \in Nat \ {0} : f = i + 1
          OBVIOUS
        <4>4. PICK t \in Nat : t = i + l + 1
          OBVIOUS
        <4>5. t - 1 = i + l /\ f \in 1..Len(last) + 1 /\ t \in f..Len(last) + 1 /\ f \in 1..Len(last) /\ t - f = l
          BY <1>10, <4>1, <4>2, <4>3, <4>4
        <4>6. PICK p : p = SubSeq(last, f, t - 1)
          OBVIOUS
        <4>7. Part(p, last, f, t)
          BY <1>10, <4>5, <4>6, PartIs
        <4>8. p = Bytes(k + 1, m)
          BY <2>1, <4>1, <4>2, <4>3, <4>5, <4>6
        <4>9. IsBytes(p, k + 1, m)
          BY <4>8, BytesAre
        <4>10. 1 \in 1..l /\ f + 1 - 1 = f
          BY <4>1
        <4>11. p[1] = last[f]
          <5>1. \A j \in 1..l : p[j] = last[f + j - 1]
            BY <4>5, <4>7 DEF Part
          <5> QED
            BY <4>10, <5>1
        <4>12. p[1] = <<k + 1, m[1]>>
          BY <4>1, <4>9, <4>10 DEF IsBytes
        <4>13. last[f][1] = k + 1
          BY <4>11, <4>12
        <4>14. last[f][1] \in 1..k
          BY <1>10, <4>5
        <4> QED
          BY <4>13, <4>14
      <3>2. n \in 1..k
        BY <3>1
      <3>3. more[n] = sent[n] /\ n \in DOMAIN sent
        BY <1>1, <1>2, <1>4, <3>2
      <3>4. Within(n)
        BY <2>1, <3>3 DEF Within
      <3> QED
        BY <2>1, <3>3, <3>4 DEF StreamInv, WholeHandled
    <2>2. DOMAIN more = 1..k + 1
      BY <1>4
    <2> QED
      BY <2>1, <2>2 DEF WholeOf
  <1>12. WholeHandled'
    BY <1>5, <1>11 DEF WholeHandled, Within, WholeOf
  <1> QED
    BY <1>4, <1>5, <1>8, <1>9, <1>10, <1>12 DEF StreamInv

LEMMA StreamInvNext == StreamInv /\ StreamNext => StreamInv'
  <1> SUFFICES ASSUME StreamInv, StreamNext PROVE StreamInv'
    OBVIOUS
  <1>1. CASE \E m \in Message : CloudSends(m)
    BY <1>1, StreamInvSends
  <1>2. CASE \E n \in 1..Buf : CloudReads(n)
    BY <1>2, StreamInvReads
  <1>3. CASE CloudRedialled
    <2>1. sent' = <<>> /\ coming' = <<>> /\ last' = <<>> /\ handled' = <<>> /\ total' = <<>>
      BY <1>3 DEF CloudRedialled
    <2>2. WholeHandled'
      BY <2>1 DEF WholeHandled
    <2>3. (\E pos : Placed(pos, sent, coming, total \o handled))'
      BY <2>1, NothingPlaced
    <2> QED
      BY <2>1, <2>2, <2>3 DEF StreamInv
  <1> QED
    BY <1>1, <1>2, <1>3 DEF StreamNext, Message

LEMMA StreamInvAlways == Spec => []StreamInv
  <1>1. StreamInv /\ [Next]_<<streamVars, serialVars, idVars, statusVars, what>> => StreamInv'
    <2> SUFFICES ASSUME StreamInv, [Next]_<<streamVars, serialVars, idVars, statusVars, what>>
                 PROVE  StreamInv'
      OBVIOUS
    <2>1. CASE UNCHANGED streamVars
      BY <2>1 DEF StreamInv, streamVars, WholeHandled, Within
    <2>2. CASE StreamNext
      BY <2>2, StreamInvNext
    <2> QED
      BY <2>1, <2>2 DEF Next
  <1> QED
    BY <1>1, StreamInvInit, PTL DEF Spec

\* However TCP cuts the stream and whatever the size of the buffer, a message of the
\* cloud is handled at most once, and none before one that was sent earlier.
THEOREM CloudInOrder == Spec => []OnceInOrder
  <1>1. StreamInv => OnceInOrder
    <2> SUFFICES ASSUME StreamInv PROVE OnceInOrder
      OBVIOUS
    <2>1. PICK pos : Placed(pos, sent, coming, total \o handled)
      BY DEF StreamInv
    <2>2. PICK all \in Seq(1..Len(sent)) : all = total \o handled
      BY <2>1 DEF Placed
    <2>3. \A i, j \in 1..Len(all) : i < j => all[i] < all[j]
      BY <2>1, <2>2 DEF Placed
    <2>4. DOMAIN all = 1..Len(all)
      OBVIOUS
    <2> QED
      BY <2>2, <2>3, <2>4 DEF OnceInOrder
  <1> QED
    BY <1>1, StreamInvAlways, PTL

\* Every plain message that a read holds whole is handled in it, however many there
\* are and whatever lies around them, unless the read begins with }{.
THEOREM CloudSplitsReads == Spec => []WholeHandled
  <1>1. StreamInv => WholeHandled
    BY DEF StreamInv
  <1> QED
    BY <1>1, StreamInvAlways, PTL
=============================================================================
