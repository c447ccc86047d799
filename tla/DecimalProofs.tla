---------------------------- MODULE DecimalProofs ----------------------------
(***************************************************************************)
(* Decimals of any length: _cmp_decimal orders those without a sign as the *)
(* numbers they stand for, and is transitive on all of them.               *)
(*                                                                         *)
(* Induction is over a set of naturals that holds 0 and is closed under    *)
(* successor.                                                              *)
(***************************************************************************)
EXTENDS Decimals, SequenceTheorems, WellFoundedInduction, TLAPS

-----------------------------------------------------------------------------
(* Induction.                                                               *)

\* A set of naturals has a least element.
LEMMA NatLeast ==
  ASSUME NEW T, T \in SUBSET Nat, T # {}
  PROVE  \E n \in T : \A m \in T : n <= m
<1> DEFINE R == OpToRel(<, Nat)
<1>1. PICK x \in T : \A y \in T : <<y, x>> \notin R
  <2> HIDE DEF R
  <2> QED BY NatLessThanWellFounded, WFMin DEF R
<1>2. ASSUME NEW y \in T PROVE x <= y
  <2>1. x \in Nat /\ y \in Nat
    OBVIOUS
  <2>2. ~(y < x)
    <3>1. <<y, x>> \notin R
      BY <1>1
    <3> QED BY <2>1, <3>1 DEF OpToRel
  <2> QED BY <2>1, <2>2
<1> QED BY <1>2

\* So Min, which is defined by choice, is what its name says.
LEMMA NatMin ==
  ASSUME NEW T, T \in SUBSET Nat, T # {}
  PROVE  Min(T) \in T /\ \A m \in T : Min(T) <= m
BY NatLeast DEF Min

\* A set of naturals with 0 in it and closed under successor is Nat.
LEMMA Induction ==
  ASSUME NEW T, T \in SUBSET Nat, 0 \in T, \A n \in T : n + 1 \in T
  PROVE  \A n \in Nat : n \in T
<1> SUFFICES ASSUME Nat \ T # {} PROVE FALSE
  OBVIOUS
<1>1. PICK n \in Nat \ T : \A m \in Nat \ T : n <= m
  BY NatLeast
<1>2. n # 0 /\ n - 1 \in Nat
  OBVIOUS
<1>3. n - 1 \in T
  BY <1>1, <1>2
<1>4. (n - 1) + 1 \in T
  BY <1>3
<1> QED BY <1>4

-----------------------------------------------------------------------------
(* The number a string of digits stands for.                                *)

\* All but the last digit.
LEMMA BeforeLastType ==
  ASSUME NEW s \in Seq(Digits), s # <<>>
  PROVE  /\ BeforeLast(s) \in Seq(Digits) /\ Len(BeforeLast(s)) = Len(s) - 1
         /\ \A i \in 1 .. (Len(s) - 1) : BeforeLast(s)[i] = s[i]
         /\ Len(s) \in Nat \ {0} /\ s[Len(s)] \in Digits
<1>1. Len(s) \in Nat \ {0}
  BY EmptySeq
<1>2. \A i \in 1 .. Len(s) : s[i] \in Digits
  BY ElementOfSeq
<1>3. \A i \in 1 .. (Len(s) - 1) : s[i] \in Digits
  BY <1>1, <1>2
<1> DEFINE n == Len(s) - 1
<1>4. n \in Int /\ 1 \in Int /\ \A i \in 1 .. n : s[i] \in Digits
  BY <1>1, <1>3
<1>5. /\ SubSeq(s, 1, n) \in Seq(Digits)
      /\ Len(SubSeq(s, 1, n)) = IF 1 <= n THEN n - 1 + 1 ELSE 0
      /\ \A i \in 1 .. (n - 1 + 1) : SubSeq(s, 1, n)[i] = s[1 + i - 1]
  <2> HIDE DEF n
  <2> QED BY <1>4, SubSeqProperties
<1>6. /\ Len(SubSeq(s, 1, n)) = n
      /\ \A i \in 1 .. n : SubSeq(s, 1, n)[i] = s[i]
  <2>1. n \in Nat
    BY <1>1
  <2> HIDE DEF n
  <2> QED BY <1>5, <2>1
<1>7. s[Len(s)] \in Digits
  BY <1>1, <1>2
<1> QED BY <1>1, <1>5, <1>6, <1>7 DEF BeforeLast

\* One step of the recursion, with f for the recursive calls.
NumberStep(f, s) == IF s = <<>> THEN 0 ELSE 10 * f[BeforeLast(s)] + s[Len(s)]
UpTo(n) == {s \in Seq(Digits) : Len(s) <= n}
IsNumber(f, n) == f \in [UpTo(n) -> Nat] /\ \A s \in UpTo(n) : f[s] = NumberStep(f, s)

LEMMA NumberExists == \A n \in Nat : \E f : IsNumber(f, n)
<1> DEFINE T == {n \in Nat : \E f : IsNumber(f, n)}
<1>1. 0 \in T
  <2> DEFINE f == [s \in UpTo(0) |-> 0]
  <2>1. \A s \in UpTo(0) : s = <<>>
    BY EmptySeq DEF UpTo
  <2>2. IsNumber(f, 0)
    BY <2>1 DEF IsNumber, NumberStep
  <2> QED BY <2>2
<1>2. ASSUME NEW n \in T PROVE n + 1 \in T
  <2>1. PICK f : IsNumber(f, n)
    OBVIOUS
  <2> DEFINE g == [s \in UpTo(n + 1) |-> NumberStep(f, s)]
  <2>2. ASSUME NEW s \in UpTo(n + 1), s # <<>>
        PROVE  /\ BeforeLast(s) \in UpTo(n) /\ BeforeLast(s) \in UpTo(n + 1)
               /\ s[Len(s)] \in Digits
    BY <2>2, BeforeLastType DEF UpTo
  <2>3. \A s \in UpTo(n) : f[s] \in Nat /\ f[s] = NumberStep(f, s)
    BY <2>1 DEF IsNumber
  <2>4. ASSUME NEW s \in UpTo(n + 1) PROVE NumberStep(f, s) \in Nat
    <3>1. CASE s = <<>>
      BY <3>1 DEF NumberStep
    <3>2. CASE s # <<>>
      <4> DEFINE p == f[BeforeLast(s)]
                 c == s[Len(s)]
      <4>1. p \in Nat /\ c \in Nat
        BY <2>2, <2>3, <3>2 DEF Digits
      <4>2. NumberStep(f, s) = 10 * p + c
        BY <3>2 DEF NumberStep
      <4> HIDE DEF p, c
      <4> QED BY <4>1, <4>2
    <3> QED BY <3>1, <3>2
  <2>5. ASSUME NEW s \in UpTo(n + 1) PROVE g[s] = NumberStep(g, s)
    BY <2>2, <2>3, <2>5 DEF NumberStep
  <2>6. IsNumber(g, n + 1)
    BY <2>4, <2>5 DEF IsNumber
  <2> QED BY <2>6
<1> HIDE DEF T
<1>3. \A n \in Nat : n \in T
  <2>1. T \in SUBSET Nat
    BY DEF T
  <2> QED BY <1>1, <1>2, <2>1, Induction
<1> QED BY <1>3 DEF T

\* Two such functions agree where both are defined.
LEMMA NumberUnique ==
  ASSUME NEW m \in Nat, NEW n \in Nat, NEW f, NEW g, IsNumber(f, m), IsNumber(g, n)
  PROVE  \A s \in UpTo(m) \cap UpTo(n) : f[s] = g[s]
<1> DEFINE T == {k \in Nat : \A s \in UpTo(m) \cap UpTo(n) : Len(s) = k => f[s] = g[s]}
<1>1. 0 \in T
  <2>1. \A s \in UpTo(m) \cap UpTo(n) : Len(s) = 0 => s = <<>>
    BY EmptySeq DEF UpTo
  <2> QED BY <2>1 DEF IsNumber, NumberStep
<1>2. ASSUME NEW k \in T PROVE k + 1 \in T
  <2> SUFFICES ASSUME NEW s \in UpTo(m) \cap UpTo(n), Len(s) = k + 1 PROVE f[s] = g[s]
    OBVIOUS
  <2>1. s \in Seq(Digits) /\ s # <<>>
    BY EmptySeq DEF UpTo
  <2>2. BeforeLast(s) \in UpTo(m) \cap UpTo(n) /\ Len(BeforeLast(s)) = k
    BY <2>1, BeforeLastType DEF UpTo
  <2>3. f[BeforeLast(s)] = g[BeforeLast(s)]
    BY <2>2
  <2> QED BY <2>1, <2>3 DEF IsNumber, NumberStep
<1> HIDE DEF T
<1>3. \A k \in Nat : k \in T
  <2>1. T \in SUBSET Nat
    BY DEF T
  <2> QED BY <1>1, <1>2, <2>1, Induction
<1> QED BY <1>3 DEF T, UpTo

\* The recursive definition of Number defines what it says.
LEMMA NumberEquation ==
  ASSUME NEW s \in Seq(Digits)
  PROVE  Number[s] \in Nat /\ Number[s] = NumberStep(Number, s)
<1> DEFINE Piece(n) == CHOOSE f : IsNumber(f, n)
           F == [t \in Seq(Digits) |-> Piece(Len(t))[t]]
           Fix(f) == f = [t \in Seq(Digits) |->
                            IF t = <<>> THEN 0 ELSE 10 * f[BeforeLast(t)] + t[Len(t)]]
<1>1. \A n \in Nat : IsNumber(Piece(n), n)
  BY NumberExists
<1> HIDE DEF Piece
<1>2. \A t \in Seq(Digits) : Len(t) \in Nat /\ t \in UpTo(Len(t))
  BY LenProperties DEF UpTo
<1>3. ASSUME NEW t \in Seq(Digits) PROVE F[t] \in Nat
  BY <1>1, <1>2 DEF IsNumber
<1>4. ASSUME NEW t \in Seq(Digits)
      PROVE  F[t] = IF t = <<>> THEN 0 ELSE 10 * F[BeforeLast(t)] + t[Len(t)]
  <2>1. F[t] = NumberStep(Piece(Len(t)), t)
    BY <1>1, <1>2 DEF IsNumber
  <2>2. ASSUME t # <<>> PROVE Piece(Len(t))[BeforeLast(t)] = F[BeforeLast(t)]
    <3> DEFINE b == BeforeLast(t)
    <3>1. b \in Seq(Digits) /\ Len(b) \in Nat /\ b \in UpTo(Len(t)) \cap UpTo(Len(b))
      BY <1>2, <2>2, BeforeLastType DEF UpTo
    <3>2. F[b] = Piece(Len(b))[b]
      BY <3>1
    <3> HIDE DEF b, F
    <3>3. Piece(Len(t))[b] = Piece(Len(b))[b]
      BY <1>1, <1>2, <3>1, NumberUnique
    <3> QED BY <3>2, <3>3 DEF b
  <2> QED BY <2>1, <2>2 DEF NumberStep
<1>5. Fix(F)
  BY <1>4
<1>6. Number = CHOOSE f : Fix(f)
  BY DEF Number
<1> HIDE DEF Fix
<1>7. Fix(Number)
  BY <1>5, <1>6
<1>8. \A t \in Seq(Digits) : Number[t] = NumberStep(Number, t)
  BY <1>7 DEF Fix, NumberStep
<1>9. \A t \in Seq(Digits) : Number[t] \in Nat
  <2> DEFINE T == {k \in Nat : \A t \in Seq(Digits) : Len(t) = k => Number[t] \in Nat}
  <2>1. 0 \in T
    BY <1>8, EmptySeq DEF NumberStep
  <2>2. ASSUME NEW k \in T PROVE k + 1 \in T
    <3> SUFFICES ASSUME NEW t \in Seq(Digits), Len(t) = k + 1 PROVE Number[t] \in Nat
      OBVIOUS
    <3>1. t # <<>>
      BY EmptySeq
    <3>2. BeforeLast(t) \in Seq(Digits) /\ Len(BeforeLast(t)) = k /\ t[Len(t)] \in Digits
      BY <3>1, BeforeLastType
    <3>3. Number[BeforeLast(t)] \in Nat
      BY <3>2
    <3>4. Number[t] = 10 * Number[BeforeLast(t)] + t[Len(t)]
      BY <1>8, <3>1 DEF NumberStep
    <3>5. t[Len(t)] \in Nat
      BY <3>2 DEF Digits
    <3> HIDE DEF T, F
    <3> QED BY <3>3, <3>4, <3>5
  <2> HIDE DEF T
  <2>3. \A k \in Nat : k \in T
    <3>1. T \in SUBSET Nat
      BY DEF T
    <3> QED BY <2>1, <2>2, <3>1, Induction
  <2> QED BY <1>2, <2>3 DEF T
<1> QED BY <1>8, <1>9

\* A string of n + 1 digits, taken apart at the last of them.
LEMMA LastDigit ==
  ASSUME NEW n \in Nat, NEW s \in Seq(Digits), Len(s) = n + 1
  PROVE  /\ BeforeLast(s) \in Seq(Digits) /\ Len(BeforeLast(s)) = n
         /\ \A i \in 1 .. n : BeforeLast(s)[i] = s[i]
         /\ s[n + 1] \in 0 .. 9
         /\ Number[BeforeLast(s)] \in Nat
         /\ Number[s] = 10 * Number[BeforeLast(s)] + s[n + 1]
<1>1. s # <<>> /\ Len(s) - 1 = n
  BY EmptySeq
<1>2. /\ BeforeLast(s) \in Seq(Digits) /\ Len(BeforeLast(s)) = Len(s) - 1
      /\ \A i \in 1 .. (Len(s) - 1) : BeforeLast(s)[i] = s[i]
      /\ s[Len(s)] \in Digits
  BY <1>1, BeforeLastType
<1>3. Number[s] = 10 * Number[BeforeLast(s)] + s[Len(s)]
  BY <1>1, NumberEquation DEF NumberStep
<1>4. Number[BeforeLast(s)] \in Nat
  BY <1>2, NumberEquation
<1> QED BY <1>1, <1>2, <1>3, <1>4 DEF Digits

\* No digits are worth nothing.
LEMMA NoDigits == <<>> \in Seq(Digits) /\ Number[<<>>] = 0 /\ Len(<<>>) = 0
<1>1. <<>> \in Seq(Digits) /\ Len(<<>>) = 0
  BY EmptySeq
<1> QED BY <1>1, NumberEquation DEF NumberStep

\* The digits in front decide.
LEMMA FrontDecides ==
  ASSUME NEW m \in Nat, NEW n \in Nat, m < n, NEW d \in 0 .. 9, NEW e \in 0 .. 9
  PROVE  10 * m + d < 10 * n + e
OBVIOUS

\* Of two strings of one length, the one that comes first is the smaller number.
LEMMA LessIsSmaller ==
  ASSUME NEW s \in Seq(Digits), NEW t \in Seq(Digits), Len(s) = Len(t), Less(s, t)
  PROVE  Number[s] < Number[t]
<1> DEFINE T == {n \in Nat : \A u, v \in Seq(Digits) :
                   Len(u) = n /\ Len(v) = n /\ Less(u, v) => Number[u] < Number[v]}
<1>1. 0 \in T
  BY DEF Less
<1>2. ASSUME NEW n \in T PROVE n + 1 \in T
  <2> SUFFICES ASSUME NEW u \in Seq(Digits), NEW v \in Seq(Digits),
                      Len(u) = n + 1, Len(v) = n + 1, Less(u, v)
               PROVE  Number[u] < Number[v]
    OBVIOUS
  <2> DEFINE a == BeforeLast(u)
             b == BeforeLast(v)
             d == u[n + 1]
             e == v[n + 1]
  <2>1. n \in Nat
    OBVIOUS
  <2>2. /\ a \in Seq(Digits) /\ Len(a) = n /\ \A i \in 1 .. n : a[i] = u[i]
        /\ b \in Seq(Digits) /\ Len(b) = n /\ \A i \in 1 .. n : b[i] = v[i]
        /\ d \in 0 .. 9 /\ e \in 0 .. 9
    BY <2>1, LastDigit
  <2>3. Number[u] = 10 * Number[a] + d /\ Number[v] = 10 * Number[b] + e
    BY <2>1, LastDigit
  <2>4. PICK i \in 1 .. (n + 1) : u[i] < v[i] /\ \A j \in 1 .. (i - 1) : u[j] = v[j]
    BY DEF Less
  <2>5. n \in T
    OBVIOUS
  <2>6. Number[a] \in Nat /\ Number[b] \in Nat
    BY <2>2, NumberEquation
  <2>7. CASE i = n + 1
    <3>1. \A j \in 1 .. n : a[j] = b[j]
      BY <2>1, <2>2, <2>4, <2>7
    <3>2. a = b
      BY <2>2, <3>1, SeqEqual
    <3>3. d < e /\ d \in Nat /\ e \in Nat
      BY <2>2, <2>4, <2>7
    <3>4. Number[b] = Number[a]
      BY <3>2
    <3> HIDE DEF a, b, d, e
    <3> QED BY <2>3, <2>6, <3>3, <3>4
  <2>8. CASE i # n + 1
    <3>1. i \in 1 .. n /\ \A j \in 1 .. (i - 1) : j \in 1 .. n
      BY <2>1, <2>8
    <3>2. Less(a, b)
      BY <2>2, <2>4, <3>1 DEF Less
    <3>3. Number[a] < Number[b]
      BY <2>2, <2>5, <3>2
    <3>4. d \in 0 .. 9 /\ e \in 0 .. 9
      BY <2>2
    <3>5. 10 * Number[a] + d < 10 * Number[b] + e
      BY <2>6, <3>3, <3>4, FrontDecides
    <3> HIDE DEF a, b, d, e, T
    <3> QED BY <2>3, <3>5
  <2> QED BY <2>7, <2>8
<1> HIDE DEF T
<1>3. \A n \in Nat : n \in T
  <2>1. T \in SUBSET Nat
    BY DEF T
  <2> QED BY <1>1, <1>2, <2>1, Induction
<1> QED BY <1>3, LenProperties DEF T

\* n characters, the last of them those of s, the others zeros.
ZeroFill(s, n) ==
  [i \in 1 .. n |-> IF i <= n - Len(s) THEN 0 ELSE s[i - (n - Len(s))]]

LEMMA ZeroFillType ==
  ASSUME NEW s \in Seq(Digits), NEW n \in Nat, Len(s) <= n
  PROVE  ZeroFill(s, n) \in Seq(Digits) /\ Len(ZeroFill(s, n)) = n
<1>1. Len(s) \in Nat /\ \A i \in 1 .. Len(s) : s[i] \in Digits
  BY ElementOfSeq, LenProperties
<1>2. \A i \in 1 .. n : ~(i <= n - Len(s)) => i - (n - Len(s)) \in 1 .. Len(s)
  BY <1>1
<1>3. 0 \in Digits
  BY DEF Digits
<1>4. ZeroFill(s, n) \in [1 .. n -> Digits]
  BY <1>1, <1>2, <1>3 DEF ZeroFill
<1> QED BY <1>4

\* Zeros in front are worth nothing.
LEMMA ZerosInFront ==
  ASSUME NEW s \in Seq(Digits), NEW n \in Nat, Len(s) <= n
  PROVE  Number[ZeroFill(s, n)] = Number[s]
<1> DEFINE T == {k \in Nat : \A u \in Seq(Digits) :
                   Len(u) <= k => Number[ZeroFill(u, k)] = Number[u]}
<1>1. 0 \in T
  <2> SUFFICES ASSUME NEW u \in Seq(Digits), Len(u) <= 0 PROVE ZeroFill(u, 0) = u
    OBVIOUS
  <2>1. Len(u) = 0 /\ ZeroFill(u, 0) \in Seq(Digits) /\ Len(ZeroFill(u, 0)) = 0
    BY LenProperties, ZeroFillType
  <2> QED BY <2>1, SeqEqual
<1>2. ASSUME NEW k \in T PROVE k + 1 \in T
  <2> SUFFICES ASSUME NEW u \in Seq(Digits), Len(u) <= k + 1
               PROVE  Number[ZeroFill(u, k + 1)] = Number[u]
    OBVIOUS
  <2> DEFINE z == ZeroFill(u, k + 1)
             y == BeforeLast(z)
  <2>1. k \in Nat /\ Len(u) \in Nat
    BY LenProperties
  <2>2. z \in Seq(Digits) /\ Len(z) = k + 1
    BY <2>1, ZeroFillType
  <2>3. /\ y \in Seq(Digits) /\ Len(y) = k /\ \A i \in 1 .. k : y[i] = z[i]
        /\ Number[z] = 10 * Number[y] + z[k + 1]
    <3> HIDE DEF z
    <3> QED BY <2>1, <2>2, LastDigit
  <2>4. \A i \in 1 .. (k + 1) :
          z[i] = IF i <= k + 1 - Len(u) THEN 0 ELSE u[i - (k + 1 - Len(u))]
    BY DEF ZeroFill
  <2> HIDE DEF z
  <2>5. CASE u = <<>>
    <3>0. Len(u) = 0 /\ Len(u) <= k
      BY <2>1, <2>5, NoDigits
    <3>1. ZeroFill(u, k) \in Seq(Digits) /\ Len(ZeroFill(u, k)) = k
      BY <2>1, <3>0, ZeroFillType
    <3>2. \A i \in 1 .. k : y[i] = 0 /\ ZeroFill(u, k)[i] = 0
      BY <2>1, <2>3, <2>4, <3>0 DEF ZeroFill
    <3>3. y = ZeroFill(u, k)
      BY <2>3, <3>1, <3>2, SeqEqual
    <3>4. z[k + 1] = 0
      BY <2>1, <2>4, <3>0
    <3>5. Number[y] = Number[u]
      BY <3>0, <3>3
    <3>6. Number[u] = 0
      BY <2>5, NoDigits
    <3> QED BY <2>3, <3>4, <3>5, <3>6 DEF z
  <2>6. CASE u # <<>>
    <3> DEFINE b == BeforeLast(u)
    <3>1. /\ b \in Seq(Digits) /\ Len(b) = Len(u) - 1
          /\ \A i \in 1 .. (Len(u) - 1) : b[i] = u[i]
          /\ Len(u) \in Nat \ {0}
      BY <2>6, BeforeLastType
    <3>2. ZeroFill(b, k) \in Seq(Digits) /\ Len(ZeroFill(b, k)) = k
      BY <2>1, <3>1, ZeroFillType
    <3> DEFINE l == Len(b)
    <3>0. k \in Nat /\ l \in Nat /\ Len(u) - 1 = l /\ Len(u) = l + 1
      BY <2>1, <3>1
    <3>3. ASSUME NEW i \in 1 .. k PROVE y[i] = ZeroFill(b, k)[i]
      <4>1. y[i] = IF i <= k + 1 - Len(u) THEN 0 ELSE u[i - (k + 1 - Len(u))]
        <5> HIDE DEF y, b, l
        <5>1. y[i] = z[i] /\ i \in 1 .. (k + 1)
          BY <2>1, <2>3
        <5> QED BY <2>4, <5>1
      <4>2. ZeroFill(b, k)[i] = IF i <= k - l THEN 0 ELSE b[i - (k - l)]
        <5> HIDE DEF b
        <5> QED BY DEF ZeroFill
      <4>3. ASSUME i <= k - l PROVE y[i] = 0
        <5> HIDE DEF l
        <5>1. i <= k + 1 - (l + 1)
          BY <3>0, <4>3
        <5> QED BY <3>0, <4>1, <5>1
      <4>4. ASSUME ~(i <= k - l)
            PROVE  y[i] = u[i - (k - l)] /\ i - (k - l) \in 1 .. l
        <5> HIDE DEF l
        <5>1. /\ ~(i <= k + 1 - (l + 1)) /\ k + 1 - (l + 1) = k - l
              /\ i - (k - l) \in 1 .. l
          BY <3>0, <4>4
        <5> QED BY <3>0, <4>1, <5>1
      <4>5. \A j \in 1 .. l : b[j] = u[j]
        BY <3>0, <3>1
      <4> HIDE DEF l
      <4> QED BY <4>2, <4>3, <4>4, <4>5
    <3>4. y = ZeroFill(b, k)
      BY <2>3, <3>2, <3>3, SeqEqual
    <3>5. z[k + 1] = u[Len(u)]
      <4>1. ~(k + 1 <= k + 1 - Len(u)) /\ k + 1 - (k + 1 - Len(u)) = Len(u)
        <5> HIDE DEF l
        <5> QED BY <3>0
      <4> QED BY <2>1, <2>4, <4>1
    <3>6. Number[y] = Number[b]
      BY <2>1, <3>1, <3>4
    <3>7. Number[u] = 10 * Number[b] + u[Len(u)]
      BY <2>6, NumberEquation DEF NumberStep
    <3> QED BY <2>3, <3>5, <3>6, <3>7 DEF z
  <2> QED BY <2>5, <2>6
<1> HIDE DEF T
<1>3. \A k \in Nat : k \in T
  <2>1. T \in SUBSET Nat
    BY DEF T
  <2> QED BY <1>1, <1>2, <2>1, Induction
<1> QED BY <1>3 DEF T

-----------------------------------------------------------------------------
(* The comparison, of decimals with or without a sign.                      *)

\* A decimal is two strings of characters.
LEMMA DecimalType ==
  ASSUME NEW d, IsDecimal(d)
  PROVE  d.whole \in Seq(Int) /\ d.frac \in Seq(Int)
<1>1. Digits \subseteq Int /\ Digits \cup {Minus} \subseteq Int
  BY DEF Digits, Minus
<1>2. CASE Unsigned(d)
  BY <1>1, <1>2, SeqMonotonic DEF Unsigned
<1>3. CASE Negative(d)
  <2>1. d.whole \in Seq(Int)
    BY <1>1, <1>3, SeqMonotonic DEF Negative
  <2> QED BY <1>3, <2>1 DEF Negative
<1> QED BY <1>2, <1>3 DEF IsDecimal

\* Stripping zeros leaves a sequence of digits.
LEMMA StripType ==
  ASSUME NEW s \in Seq(Int)
  PROVE  LStrip(s) \in Seq(Int) /\ RStrip(s) \in Seq(Int)
<1> DEFINE L == {i \in 1 .. Len(s) : s[i] # 0} \cup {Len(s) + 1}
           Z == {n \in 0 .. Len(s) : \A i \in (n + 1) .. Len(s) : s[i] = 0}
<1>1. L \in SUBSET Nat /\ L # {} /\ \A i \in L : i >= 1
  OBVIOUS
<1>2. Z \in SUBSET Nat /\ Len(s) \in Z
  OBVIOUS
<1>3. Min(L) \in L /\ Min(Z) \in Z
  <2> HIDE DEF L, Z
  <2> QED BY <1>1, <1>2, NatMin
<1>4. Min(L) \in 1 .. (Len(s) + 1) /\ Min(Z) \in 0 .. Len(s)
  BY <1>1, <1>3
<1>5. SubSeq(s, Min(L), Len(s)) \in Seq(Int)
  <2> HIDE DEF L
  <2> QED BY <1>4, SubSeqProperties
<1>6. SubSeq(s, 1, Min(Z)) \in Seq(Int)
  <2> HIDE DEF Z
  <2> QED BY <1>4, SubSeqProperties
<1> QED BY <1>5, <1>6 DEF LStrip, RStrip

\* The normal form of a decimal is a decimal.
LEMMA NormType ==
  ASSUME NEW d, IsDecimal(d)
  PROVE  NormDecimal(d).whole \in Seq(Int) /\ NormDecimal(d).frac \in Seq(Int)
<1>1. LStrip(d.whole) \in Seq(Int) /\ RStrip(d.frac) \in Seq(Int)
  BY StripType, DecimalType
<1>2. <<0>> \in Seq(Int)
  OBVIOUS
<1> QED BY <1>1, <1>2 DEF NormDecimal

AtMost(s, t) == s = t \/ Less(s, t)

\* Order compares what it is given; 0 or less means at most.
LEMMA OrderMeaning == ASSUME NEW s, NEW t PROVE Order(s, t) <= 0 <=> AtMost(s, t)
BY DEF Order, AtMost

\* The order of integers is transitive.
LEMMA Between == ASSUME NEW i \in Int, NEW j \in Int, NEW k \in Int, i < j, j < k PROVE i < k
OBVIOUS

\* So is the lexicographic order of sequences of one length.
LEMMA LessTransitive ==
  ASSUME NEW s \in Seq(Int), NEW t \in Seq(Int), NEW u \in Seq(Int),
         Len(s) = Len(t), Len(t) = Len(u), Less(s, t), Less(t, u)
  PROVE  Less(s, u) /\ s # u
<1>1. PICK i \in 1 .. Len(s) : s[i] < t[i] /\ \A j \in 1 .. (i - 1) : s[j] = t[j]
  BY DEF Less
<1>2. PICK k \in 1 .. Len(t) : t[k] < u[k] /\ \A j \in 1 .. (k - 1) : t[j] = u[j]
  BY DEF Less
<1>3. i \in 1 .. Len(s) /\ k \in 1 .. Len(s)
  OBVIOUS
<1>4. \A j \in 1 .. Len(s) : s[j] \in Int /\ t[j] \in Int /\ u[j] \in Int
  BY ElementOfSeq
<1>5. ASSUME NEW m \in 1 .. Len(s), s[m] < u[m], \A j \in 1 .. (m - 1) : s[j] = u[j]
      PROVE  Less(s, u) /\ s # u
  <2>1. Less(s, u)
    BY <1>5 DEF Less
  <2>2. s[m] # u[m]
    BY <1>4, <1>5
  <2> QED BY <2>1, <2>2
<1>6. CASE i < k
  <2>1. i \in 1 .. (k - 1) /\ \A j \in 1 .. (i - 1) : j \in 1 .. (k - 1)
    BY <1>3, <1>6
  <2>2. s[i] < u[i]
    BY <1>1, <1>2, <2>1
  <2>3. \A j \in 1 .. (i - 1) : s[j] = u[j]
    BY <1>1, <1>2, <2>1
  <2> QED BY <1>3, <1>5, <2>2, <2>3
<1>7. CASE i = k
  <2>1. s[i] < u[i]
    <3>1. s[i] \in Int /\ t[i] \in Int /\ u[i] \in Int
      BY <1>4
    <3>2. s[i] < t[i] /\ t[i] < u[i]
      BY <1>1, <1>2, <1>7
    <3> QED BY <3>1, <3>2, Between
  <2>2. \A j \in 1 .. (i - 1) : s[j] = u[j]
    BY <1>1, <1>2, <1>7
  <2> QED BY <1>3, <1>5, <2>1, <2>2
<1>8. CASE k < i
  <2>1. k \in 1 .. (i - 1) /\ \A j \in 1 .. (k - 1) : j \in 1 .. (i - 1)
    BY <1>3, <1>8
  <2>2. s[k] < u[k]
    BY <1>1, <1>2, <2>1
  <2>3. \A j \in 1 .. (k - 1) : s[j] = u[j]
    BY <1>1, <1>2, <2>1
  <2> QED BY <1>3, <1>5, <2>2, <2>3
<1>9. i < k \/ i = k \/ k < i
  BY <1>3
<1> QED BY <1>6, <1>7, <1>8, <1>9

\* Digit i after the point, as far out as one likes.
Digit(f, i) == IF i <= Len(f) THEN f[i] ELSE 0
Same(f, g) == \A i \in Nat \ {0} : Digit(f, i) = Digit(g, i)
Below(f, g) == \E i \in Nat \ {0} :
  Digit(f, i) < Digit(g, i) /\ \A j \in 1 .. (i - 1) : Digit(f, j) = Digit(g, j)

\* Padding compares all the digits, however far it pads.
LEMMA PaddedOrder ==
  ASSUME NEW f \in Seq(Int), NEW g \in Seq(Int), NEW w \in Nat, Len(f) <= w, Len(g) <= w
  PROVE  /\ Pad(f, w) = Pad(g, w) <=> Same(f, g)
         /\ Less(Pad(f, w), Pad(g, w)) <=> Below(f, g)
<1> DEFINE p == Pad(f, w)
           q == Pad(g, w)
<1>1. Len(f) \in Nat /\ Len(g) \in Nat
  OBVIOUS
<1>2. /\ p \in Seq(Int) /\ q \in Seq(Int) /\ Len(p) = w /\ Len(q) = w
      /\ \A i \in 1 .. w : p[i] = Digit(f, i) /\ q[i] = Digit(g, i)
  BY <1>1 DEF Pad, Digit
<1>3. \A i \in Nat \ {0} : i \notin 1 .. w => Digit(f, i) = 0 /\ Digit(g, i) = 0
  BY <1>1 DEF Digit
<1> HIDE DEF p, q
<1>4. p = q <=> Same(f, g)
  <2>1. p = q => Same(f, g)
    BY <1>1, <1>2, <1>3 DEF Same
  <2>2. Same(f, g) => p = q
    <3> SUFFICES ASSUME Same(f, g) PROVE p = q
      OBVIOUS
    <3>1. \A i \in 1 .. w : p[i] = q[i]
      BY <1>1, <1>2 DEF Same
    <3> QED BY <1>2, <3>1
  <2> QED BY <2>1, <2>2
<1>5. Less(p, q) <=> Below(f, g)
  <2>1. ASSUME Less(p, q) PROVE Below(f, g)
    <3>1. PICK i \in 1 .. w : p[i] < q[i] /\ \A j \in 1 .. (i - 1) : p[j] = q[j]
      BY <1>2, <2>1 DEF Less
    <3>2. \A j \in 1 .. (i - 1) : j \in 1 .. w
      BY <1>1
    <3>3. Digit(f, i) < Digit(g, i) /\ \A j \in 1 .. (i - 1) : Digit(f, j) = Digit(g, j)
      BY <1>2, <3>1, <3>2
    <3> QED BY <1>1, <3>3 DEF Below
  <2>2. ASSUME Below(f, g) PROVE Less(p, q)
    <3>1. PICK i \in Nat \ {0} :
            Digit(f, i) < Digit(g, i) /\ \A j \in 1 .. (i - 1) : Digit(f, j) = Digit(g, j)
      BY <2>2 DEF Below
    <3>2. i \in 1 .. w
      BY <1>3, <3>1
    <3>3. \A j \in 1 .. (i - 1) : j \in 1 .. w
      BY <1>1, <3>2
    <3>4. p[i] < q[i] /\ \A j \in 1 .. (i - 1) : p[j] = q[j]
      BY <1>2, <3>1, <3>2, <3>3
    <3> QED BY <1>2, <3>2, <3>4 DEF Less
  <2> QED BY <2>1, <2>2
<1> QED BY <1>4, <1>5 DEF p, q

\* So the order of the digits after the point is transitive.
LEMMA FractionTransitive ==
  ASSUME NEW f \in Seq(Int), NEW g \in Seq(Int), NEW h \in Seq(Int),
         Same(f, g) \/ Below(f, g), Same(g, h) \/ Below(g, h)
  PROVE  Same(f, h) \/ Below(f, h)
<1>0. \A i \in Nat \ {0} : Digit(f, i) \in Int /\ Digit(g, i) \in Int /\ Digit(h, i) \in Int
  BY DEF Digit
<1>1. CASE Same(f, g)
  BY <1>1 DEF Same, Below
<1>2. CASE Same(g, h)
  BY <1>2 DEF Same, Below
<1>3. CASE Below(f, g) /\ Below(g, h)
  <2>1. PICK i \in Nat \ {0} :
          Digit(f, i) < Digit(g, i) /\ \A j \in 1 .. (i - 1) : Digit(f, j) = Digit(g, j)
    BY <1>3 DEF Below
  <2>2. PICK k \in Nat \ {0} :
          Digit(g, k) < Digit(h, k) /\ \A j \in 1 .. (k - 1) : Digit(g, j) = Digit(h, j)
    BY <1>3 DEF Below
  <2>3. PICK m \in Nat \ {0} : m = IF i < k THEN i ELSE k
    OBVIOUS
  <2>4. Digit(f, m) < Digit(h, m)
    <3>1. CASE i < k
      BY <1>0, <2>1, <2>2, <2>3, <3>1
    <3>2. CASE i = k
      BY <1>0, <2>1, <2>2, <2>3, <3>2
    <3>3. CASE i > k
      BY <1>0, <2>1, <2>2, <2>3, <3>3
    <3> QED BY <3>1, <3>2, <3>3
  <2>5. \A j \in 1 .. (m - 1) : Digit(f, j) = Digit(h, j)
    BY <2>1, <2>2, <2>3
  <2> QED BY <2>4, <2>5 DEF Below
<1> QED BY <1>1, <1>2, <1>3

\* What a comparison says when it says "at most".
Leq(x, y) ==
  \/ Len(x.whole) < Len(y.whole)
  \/ Len(x.whole) = Len(y.whole) /\ x.whole # y.whole /\ Less(x.whole, y.whole)
  \/ x.whole = y.whole /\ (Same(x.frac, y.frac) \/ Below(x.frac, y.frac))

LEMMA CmpMeaning ==
  ASSUME NEW a, NEW b, IsDecimal(a), IsDecimal(b)
  PROVE  CmpDecimal(a, b) <= 0 <=> Leq(NormDecimal(a), NormDecimal(b))
<1> DEFINE x == NormDecimal(a)
           y == NormDecimal(b)
<1>1. /\ x.whole \in Seq(Int) /\ y.whole \in Seq(Int)
      /\ x.frac \in Seq(Int) /\ y.frac \in Seq(Int)
  BY NormType
<1>2. LET w == Width(x.frac, y.frac) IN
      Order(Pad(x.frac, w), Pad(y.frac, w)) <= 0
        <=> Same(x.frac, y.frac) \/ Below(x.frac, y.frac)
  <2> HIDE DEF x, y
  <2> DEFINE w == Width(x.frac, y.frac)
  <2>1. w \in Nat /\ Len(x.frac) <= w /\ Len(y.frac) <= w
    BY <1>1 DEF Width
  <2> HIDE DEF w
  <2>2. Order(Pad(x.frac, w), Pad(y.frac, w)) <= 0
          <=> Same(x.frac, y.frac) \/ Below(x.frac, y.frac)
    BY <1>1, <2>1, PaddedOrder, OrderMeaning DEF AtMost
  <2> QED BY <2>2 DEF w
<1>3. CmpDecimal(a, b) =
        LET w == Width(x.frac, y.frac) IN
        IF Len(x.whole) # Len(y.whole)
          THEN IF Len(x.whole) < Len(y.whole) THEN -1 ELSE 1
        ELSE IF x.whole # y.whole THEN Order(x.whole, y.whole)
        ELSE Order(Pad(x.frac, w), Pad(y.frac, w))
  BY DEF CmpDecimal
<1>4. Order(x.whole, y.whole) <= 0 <=> AtMost(x.whole, y.whole)
  BY OrderMeaning
<1> HIDE DEF x, y
<1>5. CmpDecimal(a, b) <= 0 <=> Leq(x, y)
  <2>1. CASE Len(x.whole) # Len(y.whole)
    BY <1>1, <1>3, <2>1 DEF Leq
  <2>2. CASE Len(x.whole) = Len(y.whole) /\ x.whole # y.whole
    BY <1>1, <1>3, <1>4, <2>2 DEF Leq, AtMost
  <2>3. CASE x.whole = y.whole
    BY <1>1, <1>2, <1>3, <2>3 DEF Leq, Less
  <2> QED BY <2>1, <2>2, <2>3
<1> QED BY <1>5 DEF x, y

\* The comparison of amounts is transitive: a lower cap is a stronger one.
LEMMA CmpTransitive ==
  ASSUME NEW a, NEW b, NEW c, IsDecimal(a), IsDecimal(b), IsDecimal(c),
         CmpDecimal(a, b) <= 0, CmpDecimal(b, c) <= 0
  PROVE  CmpDecimal(a, c) <= 0
<1> DEFINE x == NormDecimal(a)
           y == NormDecimal(b)
           z == NormDecimal(c)
<1>1. /\ x.whole \in Seq(Int) /\ y.whole \in Seq(Int) /\ z.whole \in Seq(Int)
      /\ x.frac \in Seq(Int) /\ y.frac \in Seq(Int) /\ z.frac \in Seq(Int)
  BY NormType
<1>2. Leq(x, y) /\ Leq(y, z)
  BY CmpMeaning
<1>3. Leq(x, z)
  <2> HIDE DEF x, y, z
  <2>1. CASE Len(x.whole) < Len(y.whole) \/ Len(y.whole) < Len(z.whole)
    BY <1>1, <1>2, <2>1 DEF Leq
  <2>2. CASE x.whole = y.whole /\ y.whole = z.whole
    BY <1>1, <1>2, <2>2, FractionTransitive DEF Leq, Less
  <2>3. CASE /\ Len(x.whole) = Len(y.whole) /\ Len(y.whole) = Len(z.whole)
             /\ x.whole # y.whole \/ y.whole # z.whole
    BY <1>1, <1>2, <2>3, LessTransitive DEF Leq
  <2>4. Len(x.whole) <= Len(y.whole) /\ Len(y.whole) <= Len(z.whole)
    BY <1>1, <1>2 DEF Leq
  <2> QED BY <1>1, <2>1, <2>2, <2>3, <2>4
<1> QED BY <1>3, CmpMeaning

-----------------------------------------------------------------------------
(* Comparison and value.                                                    *)

\* What LStrip leaves, filled up with zeros, is what it was given.
LEMMA LStripMeaning ==
  ASSUME NEW s \in Seq(Digits)
  PROVE  LET u == LStrip(s) IN
         /\ u \in Seq(Digits) /\ Len(u) <= Len(s)
         /\ u # <<>> => u[1] # 0
         /\ \A i \in 1 .. Len(s) :
              s[i] = IF i <= Len(s) - Len(u) THEN 0 ELSE u[i - (Len(s) - Len(u))]
<1> DEFINE L == {i \in 1 .. Len(s) : s[i] # 0} \cup {Len(s) + 1}
           m == Min(L)
           u == SubSeq(s, m, Len(s))
<1>1. Len(s) \in Nat /\ \A i \in 1 .. Len(s) : s[i] \in Digits
  BY ElementOfSeq, LenProperties
<1>2. L \in SUBSET Nat /\ L # {} /\ Len(s) + 1 \in L /\ \A i \in L : i >= 1
  BY <1>1
<1>3. m \in L /\ \A i \in L : m <= i
  <2> HIDE DEF L
  <2> QED BY <1>2, NatMin
<1>4. m \in 1 .. (Len(s) + 1)
  BY <1>1, <1>2, <1>3
<1>5. \A i \in 1 .. Len(s) : i < m => s[i] = 0
  BY <1>1, <1>3, <1>4
<1>6. m <= Len(s) => s[m] # 0
  BY <1>1, <1>3, <1>4
<1> HIDE DEF m
<1>7. /\ u \in Seq(Digits)
      /\ Len(u) = Len(s) + 1 - m
      /\ \A i \in 1 .. (Len(s) + 1 - m) : u[i] = s[m + i - 1]
  <2>1. \A i \in m .. Len(s) : s[i] \in Digits
    BY <1>1, <1>4
  <2>2. m \in Int /\ Len(s) \in Int
    BY <1>1, <1>4
  <2>3. /\ u \in Seq(Digits)
        /\ Len(u) = IF m <= Len(s) THEN Len(s) - m + 1 ELSE 0
        /\ \A i \in 1 .. (Len(s) - m + 1) : u[i] = s[m + i - 1]
    BY <2>1, <2>2, SubSeqProperties
  <2> HIDE DEF u
  <2>4. Len(s) - m + 1 = Len(s) + 1 - m
    BY <1>1, <1>4
  <2> QED BY <1>1, <1>4, <2>3, <2>4
<1> HIDE DEF u
<1>8. ASSUME u # <<>> PROVE u[1] # 0
  <2>1. Len(u) # 0
    BY <1>7, <1>8, EmptySeq
  <2>2. m <= Len(s) /\ 1 \in 1 .. (Len(s) + 1 - m) /\ m + 1 - 1 = m
    BY <1>1, <1>4, <1>7, <2>1
  <2> QED BY <1>6, <1>7, <2>2
<1>9. ASSUME NEW i \in 1 .. Len(s)
      PROVE  s[i] = IF i <= Len(s) - Len(u) THEN 0 ELSE u[i - (Len(s) - Len(u))]
  <2>1. Len(s) - Len(u) = m - 1
    BY <1>1, <1>4, <1>7
  <2>2. CASE i < m
    BY <1>1, <1>4, <1>5, <2>1, <2>2
  <2>3. CASE m <= i
    <3>1. i - (m - 1) \in 1 .. (Len(s) + 1 - m) /\ m + (i - (m - 1)) - 1 = i
      BY <1>1, <1>4, <2>3
    <3>2. ~(i <= m - 1)
      BY <1>4, <2>3
    <3> QED BY <1>7, <2>1, <3>1, <3>2
  <2> QED BY <1>4, <2>2, <2>3
<1>10. LStrip(s) = u
  BY DEF LStrip, L, m, u
<1>11. Len(u) <= Len(s)
  BY <1>1, <1>4, <1>7
<1> QED BY <1>7, <1>8, <1>9, <1>10, <1>11

\* What RStrip drops are zeros at the end.
LEMMA RStripMeaning ==
  ASSUME NEW s \in Seq(Digits)
  PROVE  /\ RStrip(s) \in Seq(Digits) /\ Len(RStrip(s)) <= Len(s)
         /\ Same(RStrip(s), s)
<1> DEFINE Z == {n \in 0 .. Len(s) : \A i \in (n + 1) .. Len(s) : s[i] = 0}
           m == Min(Z)
           u == SubSeq(s, 1, m)
<1>1. Len(s) \in Nat /\ \A i \in 1 .. Len(s) : s[i] \in Digits
  BY ElementOfSeq, LenProperties
<1>2. Z \in SUBSET Nat /\ Len(s) \in Z
  BY <1>1
<1>3. m \in Z
  <2> HIDE DEF Z
  <2> QED BY <1>2, NatMin
<1>4. m \in 0 .. Len(s) /\ \A i \in (m + 1) .. Len(s) : s[i] = 0
  BY <1>3
<1> HIDE DEF m
<1>5. u \in Seq(Digits) /\ Len(u) = m /\ \A i \in 1 .. m : u[i] = s[i]
  <2>1. \A i \in 1 .. m : s[i] \in Digits
    BY <1>1, <1>4
  <2>2. m \in Int /\ 1 \in Int
    BY <1>1, <1>4
  <2>3. /\ u \in Seq(Digits)
        /\ Len(u) = IF 1 <= m THEN m - 1 + 1 ELSE 0
        /\ \A i \in 1 .. (m - 1 + 1) : u[i] = s[1 + i - 1]
    BY <2>1, <2>2, SubSeqProperties
  <2> HIDE DEF u
  <2>4. m - 1 + 1 = m /\ \A i \in 1 .. m : 1 + i - 1 = i
    BY <1>1, <1>4
  <2> QED BY <1>1, <1>4, <2>3, <2>4
<1> HIDE DEF u
<1>6. Same(u, s)
  <2> SUFFICES ASSUME NEW i \in Nat \ {0} PROVE Digit(u, i) = Digit(s, i)
    BY DEF Same
  <2> QED BY <1>1, <1>4, <1>5 DEF Digit
<1>7. RStrip(s) = u
  BY DEF RStrip, Z, m, u
<1> QED BY <1>1, <1>4, <1>5, <1>6, <1>7

\* Padding yields digits.
LEMMA PadType ==
  ASSUME NEW f \in Seq(Digits), NEW w \in Nat
  PROVE  Pad(f, w) \in Seq(Digits) /\ Len(Pad(f, w)) = w
<1>1. Len(f) \in Nat /\ \A i \in 1 .. Len(f) : f[i] \in Digits
  BY ElementOfSeq, LenProperties
<1>2. 0 \in Digits
  BY DEF Digits
<1>3. \A i \in 1 .. w : i <= Len(f) => i \in 1 .. Len(f)
  BY <1>1
<1>4. Pad(f, w) \in [1 .. w -> Digits]
  BY <1>1, <1>2, <1>3 DEF Pad
<1> QED BY <1>4

\* A normal form and the decimal it is the form of.
LEMMA NormMeaning ==
  ASSUME NEW d, Unsigned(d)
  PROVE  LET x == NormDecimal(d) IN
         /\ x.whole \in Seq(Digits) /\ 1 <= Len(x.whole) /\ Len(x.whole) <= Len(d.whole)
         /\ Len(x.whole) > 1 => x.whole[1] # 0
         /\ \A n \in Nat : Len(d.whole) <= n => ZeroFill(x.whole, n) = ZeroFill(d.whole, n)
         /\ x.frac \in Seq(Digits) /\ Len(x.frac) <= Len(d.frac) /\ Same(x.frac, d.frac)
<1> DEFINE s == d.whole
           u == LStrip(s)
           v == IF u = <<>> THEN <<0>> ELSE u
<1>1. s \in Seq(Digits) /\ s # <<>> /\ d.frac \in Seq(Digits)
  BY DEF Unsigned
<1>2. Len(s) \in Nat \ {0}
  BY <1>1, EmptySeq
<1>3. /\ u \in Seq(Digits) /\ Len(u) <= Len(s)
      /\ u # <<>> => u[1] # 0
      /\ \A i \in 1 .. Len(s) :
           s[i] = IF i <= Len(s) - Len(u) THEN 0 ELSE u[i - (Len(s) - Len(u))]
  <2> HIDE DEF s
  <2> QED BY <1>1, LStripMeaning
<1>4. NormDecimal(d).whole = v /\ NormDecimal(d).frac = RStrip(d.frac)
  BY DEF NormDecimal
<1> HIDE DEF s, u
<1>5. Len(u) \in Nat /\ (u = <<>> <=> Len(u) = 0)
  BY <1>3, EmptySeq
<1>6. /\ v \in Seq(Digits) /\ 1 <= Len(v) /\ Len(v) <= Len(s)
      /\ Len(v) > 1 => v[1] # 0
  <2>1. CASE u = <<>>
    <3>1. 0 \in Digits
      BY DEF Digits
    <3>2. v = <<0>> /\ <<0>> \in Seq(Digits) /\ Len(<<0>>) = 1
      BY <2>1, <3>1
    <3> HIDE DEF v
    <3> QED BY <1>2, <3>2
  <2>2. CASE u # <<>>
    BY <1>3, <1>5, <2>2
  <2> QED BY <2>1, <2>2
<1>7. ASSUME NEW n \in Nat, Len(s) <= n PROVE ZeroFill(v, n) = ZeroFill(s, n)
  <2>1. /\ ZeroFill(v, n) \in Seq(Digits) /\ Len(ZeroFill(v, n)) = n
        /\ ZeroFill(s, n) \in Seq(Digits) /\ Len(ZeroFill(s, n)) = n
    <3>1. Len(v) \in Nat /\ Len(v) <= n
      BY <1>2, <1>6, <1>7, LenProperties
    <3> HIDE DEF v
    <3> QED BY <1>1, <1>6, <1>7, <3>1, ZeroFillType DEF s
  <2>2. ASSUME NEW i \in 1 .. n PROVE ZeroFill(v, n)[i] = ZeroFill(s, n)[i]
    <3>1. /\ ZeroFill(v, n)[i] = IF i <= n - Len(v) THEN 0 ELSE v[i - (n - Len(v))]
          /\ ZeroFill(s, n)[i] = IF i <= n - Len(s) THEN 0 ELSE s[i - (n - Len(s))]
      BY DEF ZeroFill
    <3>2. CASE i <= n - Len(s)
      <4>1. i <= n - Len(v)
        BY <1>2, <1>6, <1>7, <3>2, LenProperties
      <4> QED BY <3>1, <3>2, <4>1
    <3>3. CASE ~(i <= n - Len(s))
      <4> DEFINE k == i - (n - Len(s))
      <4>1. k \in 1 .. Len(s) /\ ZeroFill(s, n)[i] = s[k]
        BY <1>2, <1>7, <3>1, <3>3
      <4>2. s[k] = IF k <= Len(s) - Len(u) THEN 0 ELSE u[k - (Len(s) - Len(u))]
        BY <1>3, <4>1
      <4>3. CASE u # <<>>
        <5>1. v = u
          BY <4>3
        <5>2. /\ i <= n - Len(u) <=> k <= Len(s) - Len(u)
              /\ i - (n - Len(u)) = k - (Len(s) - Len(u))
          BY <1>2, <1>5
        <5> HIDE DEF k
        <5> QED BY <3>1, <4>1, <4>2, <5>1, <5>2
      <4>4. CASE u = <<>>
        <5>1. v = <<0>> /\ Len(v) = 1 /\ v[1] = 0 /\ Len(u) = 0
          BY <1>5, <4>4
        <5>2. s[k] = 0
          BY <1>2, <4>1, <4>2, <5>1
        <5>3. ~(i <= n - 1) => i - (n - 1) = 1
          OBVIOUS
        <5>4. ZeroFill(v, n)[i] = 0
          <6> HIDE DEF v
          <6> QED BY <3>1, <5>1, <5>3
        <5> QED BY <4>1, <5>2, <5>4
      <4> QED BY <4>3, <4>4
    <3> QED BY <3>2, <3>3
  <2> HIDE DEF v
  <2> QED BY <2>1, <2>2, SeqEqual
<1>8. RStrip(d.frac) \in Seq(Digits) /\ Len(RStrip(d.frac)) <= Len(d.frac)
      /\ Same(RStrip(d.frac), d.frac)
  BY <1>1, RStripMeaning
<1> HIDE DEF v
<1> QED BY <1>4, <1>6, <1>7, <1>8 DEF s

\* A normal form with n characters before and w after the point.
Spread(x, n, w) == ZeroFill(x.whole, n) \o Pad(x.frac, w)

LEMMA SpreadType ==
  ASSUME NEW x, x.whole \in Seq(Digits), x.frac \in Seq(Digits),
         NEW n \in Nat, NEW w \in Nat, Len(x.whole) <= n
  PROVE  /\ Spread(x, n, w) \in Seq(Digits) /\ Len(Spread(x, n, w)) = n + w
         /\ \A i \in 1 .. (n + w) : Spread(x, n, w)[i] =
              IF i <= n THEN ZeroFill(x.whole, n)[i] ELSE Pad(x.frac, w)[i - n]
<1>1. ZeroFill(x.whole, n) \in Seq(Digits) /\ Len(ZeroFill(x.whole, n)) = n
  BY ZeroFillType
<1>2. Pad(x.frac, w) \in Seq(Digits) /\ Len(Pad(x.frac, w)) = w
  BY PadType
<1> DEFINE z == ZeroFill(x.whole, n)
           p == Pad(x.frac, w)
<1>3. z \in Seq(Digits) /\ Len(z) = n /\ p \in Seq(Digits) /\ Len(p) = w
  BY <1>1, <1>2
<1> HIDE DEF z, p
<1>4. /\ z \o p \in Seq(Digits) /\ Len(z \o p) = Len(z) + Len(p)
      /\ \A i \in 1 .. (Len(z) + Len(p)) :
           (z \o p)[i] = IF i <= Len(z) THEN z[i] ELSE p[i - Len(z)]
  BY <1>3, ConcatProperties
<1>5. /\ z \o p \in Seq(Digits) /\ Len(z \o p) = n + w
      /\ \A i \in 1 .. (n + w) : (z \o p)[i] = IF i <= n THEN z[i] ELSE p[i - n]
  BY <1>3, <1>4
<1> QED BY <1>5 DEF Spread, z, p

\* A decimal has a sign or has none.
LEMMA UnsignedNotNegative == ASSUME NEW d, Unsigned(d) PROVE ~Negative(d)
<1>1. d.whole \in Seq(Digits) /\ 1 \in 1 .. Len(d.whole)
  BY EmptySeq, LenProperties DEF Unsigned
<1>2. d.whole[1] \in Digits
  BY <1>1, ElementOfSeq
<1> QED BY <1>2 DEF Negative, Minus, Digits

\* Spread out, a decimal is the number of its units.
LEMMA ValueOfSpread ==
  ASSUME NEW d, Unsigned(d), NEW n \in Nat, NEW w \in Nat,
         Len(d.whole) <= n, Len(d.frac) <= w
  PROVE  Units(d, w) = Number[Spread(NormDecimal(d), n, w)]
<1> DEFINE x == NormDecimal(d)
           v == d.whole \o Pad(d.frac, w)
<1>1. /\ d.whole \in Seq(Digits) /\ d.whole # <<>> /\ d.frac \in Seq(Digits)
      /\ Len(d.whole) \in Nat \ {0} /\ Len(d.frac) \in Nat
  BY EmptySeq, LenProperties DEF Unsigned
<1>2. /\ ZeroFill(x.whole, n) = ZeroFill(d.whole, n)
      /\ Same(x.frac, d.frac) /\ x.frac \in Seq(Digits) /\ Len(x.frac) <= Len(d.frac)
  BY NormMeaning
<1> HIDE DEF x
<1>3. Pad(x.frac, w) = Pad(d.frac, w)
  <2>1. Digits \subseteq Int
    BY DEF Digits
  <2>2. x.frac \in Seq(Int) /\ d.frac \in Seq(Int) /\ Len(x.frac) \in Nat
    BY <1>1, <1>2, <2>1, SeqMonotonic, LenProperties
  <2>3. Len(x.frac) <= w
    BY <1>1, <1>2, <2>2
  <2> QED BY <1>2, <2>2, <2>3, PaddedOrder
<1>4. Spread(x, n, w) = Spread(d, n, w)
  BY <1>2, <1>3 DEF Spread
<1>5. /\ v \in Seq(Digits) /\ Len(v) = Len(d.whole) + w
      /\ \A i \in 1 .. (Len(d.whole) + w) :
           v[i] = IF i <= Len(d.whole) THEN d.whole[i] ELSE Pad(d.frac, w)[i - Len(d.whole)]
  <2> DEFINE h == d.whole
             p == Pad(d.frac, w)
  <2>1. h \in Seq(Digits) /\ p \in Seq(Digits) /\ Len(p) = w
    BY <1>1, PadType
  <2> HIDE DEF h, p
  <2>2. /\ h \o p \in Seq(Digits) /\ Len(h \o p) = Len(h) + Len(p)
        /\ \A i \in 1 .. (Len(h) + Len(p)) :
             (h \o p)[i] = IF i <= Len(h) THEN h[i] ELSE p[i - Len(h)]
    BY <2>1, ConcatProperties
  <2>3. /\ h \o p \in Seq(Digits) /\ Len(h \o p) = Len(h) + w
        /\ \A i \in 1 .. (Len(h) + w) :
             (h \o p)[i] = IF i <= Len(h) THEN h[i] ELSE p[i - Len(h)]
    BY <2>1, <2>2
  <2> QED BY <2>3 DEF h, p
<1> HIDE DEF v
<1>6. ZeroFill(v, n + w) \in Seq(Digits) /\ Len(ZeroFill(v, n + w)) = n + w
  <2>1. n + w \in Nat /\ Len(v) <= n + w
    BY <1>1, <1>5
  <2> QED BY <1>5, <2>1, ZeroFillType
<1>7. ASSUME NEW i \in 1 .. (n + w) PROVE ZeroFill(v, n + w)[i] = Spread(d, n, w)[i]
  <2> DEFINE l == Len(d.whole)
  <2>0. l \in Nat /\ l <= n
    BY <1>1
  <2>1. ZeroFill(v, n + w)[i] =
          IF i <= n + w - Len(v) THEN 0 ELSE v[i - (n + w - Len(v))]
    BY DEF ZeroFill
  <2>2. Spread(d, n, w)[i] =
          IF i <= n THEN ZeroFill(d.whole, n)[i] ELSE Pad(d.frac, w)[i - n]
    <3>1. d.whole \in Seq(Digits) /\ d.frac \in Seq(Digits) /\ Len(d.whole) <= n
      BY <1>1
    <3> HIDE DEF l
    <3> QED BY <3>1, SpreadType
  <2>3. n + w - Len(v) = n - l
    BY <1>1, <1>5
  <2>4. i \in 1 .. n => ZeroFill(d.whole, n)[i] = IF i <= n - l THEN 0 ELSE d.whole[i - (n - l)]
    BY DEF ZeroFill
  <2> HIDE DEF l
  <2>5. CASE i <= n - l
    <3>1. i \in 1 .. n
      BY <2>0, <2>5
    <3> QED BY <2>1, <2>2, <2>3, <2>4, <2>5, <3>1
  <2>6. CASE ~(i <= n - l) /\ i <= n
    <3>1. i \in 1 .. n /\ i - (n - l) \in 1 .. (l + w) /\ i - (n - l) <= l
      BY <2>0, <2>6
    <3>2. v[i - (n - l)] = d.whole[i - (n - l)]
      BY <1>5, <3>1 DEF l
    <3> QED BY <2>1, <2>2, <2>3, <2>4, <2>6, <3>1, <3>2
  <2>7. CASE ~(i <= n)
    <3>1. /\ i - (n - l) \in 1 .. (l + w) /\ ~(i - (n - l) <= l)
          /\ i - (n - l) - l = i - n /\ ~(i <= n - l)
      BY <2>0, <2>7
    <3>2. v[i - (n - l)] = Pad(d.frac, w)[i - n]
      BY <1>5, <3>1 DEF l
    <3> QED BY <2>1, <2>2, <2>3, <2>7, <3>1, <3>2
  <2> QED BY <2>5, <2>6, <2>7
<1>8. Spread(d, n, w) = ZeroFill(v, n + w)
  <2>1. Spread(d, n, w) \in Seq(Digits) /\ Len(Spread(d, n, w)) = n + w
    BY <1>1, SpreadType
  <2> QED BY <1>6, <1>7, <2>1, SeqEqual
<1>9. Number[ZeroFill(v, n + w)] = Number[v]
  <2>1. n + w \in Nat /\ Len(v) <= n + w
    BY <1>1, <1>5
  <2> QED BY <1>5, <2>1, ZerosInFront
<1>10. Units(d, w) = Number[v]
  BY UnsignedNotNegative DEF Units, v
<1> QED BY <1>4, <1>8, <1>9, <1>10 DEF x

\* What a normal form looks like.
IsNormal(x) ==
  /\ x.whole \in Seq(Digits) /\ 1 <= Len(x.whole)
  /\ Len(x.whole) > 1 => x.whole[1] # 0
  /\ x.frac \in Seq(Digits)

\* x comes before y.
Lower(x, y) ==
  \/ Len(x.whole) < Len(y.whole)
  \/ Len(x.whole) = Len(y.whole) /\ Less(x.whole, y.whole)
  \/ x.whole = y.whole /\ Below(x.frac, y.frac)

\* Of two normal forms spread out alike, the lower one comes first.
LEMMA LowerIsLess ==
  ASSUME NEW x, NEW y, IsNormal(x), IsNormal(y), Lower(x, y),
         NEW n \in Nat, NEW w \in Nat, Len(x.whole) <= n, Len(y.whole) <= n,
         Len(x.frac) <= w, Len(y.frac) <= w
  PROVE  Less(Spread(x, n, w), Spread(y, n, w))
<1> DEFINE k == Len(x.whole)
           l == Len(y.whole)
           s == Spread(x, n, w)
           t == Spread(y, n, w)
<1>1. /\ x.whole \in Seq(Digits) /\ y.whole \in Seq(Digits)
      /\ x.frac \in Seq(Digits) /\ y.frac \in Seq(Digits)
      /\ k \in Nat \ {0} /\ l \in Nat \ {0} /\ k <= n /\ l <= n
  BY LenProperties DEF IsNormal
<1>0. k \in Nat \ {0} /\ l \in Nat \ {0} /\ k <= n /\ l <= n
  BY <1>1
<1>2. /\ Len(s) = n + w
      /\ \A i \in 1 .. (n + w) :
           s[i] = IF i <= n THEN ZeroFill(x.whole, n)[i] ELSE Pad(x.frac, w)[i - n]
  <2>1. x.whole \in Seq(Digits) /\ x.frac \in Seq(Digits) /\ Len(x.whole) <= n
    BY <1>1
  <2>2. /\ Len(Spread(x, n, w)) = n + w
        /\ \A i \in 1 .. (n + w) : Spread(x, n, w)[i] =
             IF i <= n THEN ZeroFill(x.whole, n)[i] ELSE Pad(x.frac, w)[i - n]
    <3> HIDE DEF k, l, s, t
    <3> QED BY <2>1, SpreadType
  <2> QED BY <2>2
<1>3. /\ Len(t) = n + w
      /\ \A i \in 1 .. (n + w) :
           t[i] = IF i <= n THEN ZeroFill(y.whole, n)[i] ELSE Pad(y.frac, w)[i - n]
  <2>1. y.whole \in Seq(Digits) /\ y.frac \in Seq(Digits) /\ Len(y.whole) <= n
    BY <1>1
  <2> HIDE DEF k, l
  <2> QED BY <2>1, SpreadType
<1>4. \A i \in 1 .. n :
        /\ ZeroFill(x.whole, n)[i] = IF i <= n - k THEN 0 ELSE x.whole[i - (n - k)]
        /\ ZeroFill(y.whole, n)[i] = IF i <= n - l THEN 0 ELSE y.whole[i - (n - l)]
  BY DEF ZeroFill
<1> HIDE DEF s, t
<1>5. \A i \in 1 .. n :
        /\ s[i] = IF i <= n - k THEN 0 ELSE x.whole[i - (n - k)]
        /\ t[i] = IF i <= n - l THEN 0 ELSE y.whole[i - (n - l)]
  <2>1. \A i \in 1 .. n : i \in 1 .. (n + w) /\ i <= n
    OBVIOUS
  <2> HIDE DEF k, l
  <2> QED BY <1>2, <1>3, <1>4, <2>1
<1>6. \A i \in 1 .. w : s[n + i] = Pad(x.frac, w)[i] /\ t[n + i] = Pad(y.frac, w)[i]
  <2>1. \A i \in 1 .. w : n + i \in 1 .. (n + w) /\ ~(n + i <= n) /\ n + i - n = i
    OBVIOUS
  <2> HIDE DEF k, l
  <2> QED BY <1>2, <1>3, <2>1
<1>7. CASE k < l
  <2> DEFINE m == n - l + 1
  <2>1. m \in 1 .. (n + w) /\ m \in 1 .. n /\ m <= n - k /\ ~(m <= n - l) /\ m - (n - l) = 1
    <3> HIDE DEF k, l
    <3> QED BY <1>0, <1>7
  <2>2. y.whole[1] \in Digits /\ y.whole[1] # 0
    <3>1. l > 1 /\ 1 \in 1 .. l
      BY <1>1, <1>7
    <3>2. y.whole[1] \in Digits
      BY <1>1, <3>1, ElementOfSeq
    <3> QED BY <3>1, <3>2 DEF IsNormal
  <2>3. \A j \in 1 .. (m - 1) : j \in 1 .. n /\ j <= n - k /\ j <= n - l
    <3> HIDE DEF k, l
    <3> QED BY <1>0, <1>7
  <2> HIDE DEF m, k, l
  <2>4. s[m] = 0 /\ t[m] = y.whole[1]
    BY <1>5, <2>1
  <2>5. s[m] < t[m]
    <3> DEFINE c == y.whole[1]
    <3>1. c \in Digits /\ c # 0 /\ s[m] = 0 /\ t[m] = c
      BY <2>2, <2>4
    <3> HIDE DEF c, s, t
    <3> QED BY <3>1 DEF Digits
  <2>6. \A j \in 1 .. (m - 1) : s[j] = t[j]
    BY <1>5, <2>3
  <2> QED BY <1>2, <2>1, <2>5, <2>6 DEF Less, s, t
<1>8. CASE k = l /\ Less(x.whole, y.whole)
  <2>1. PICK i \in 1 .. k :
          /\ x.whole[i] < y.whole[i]
          /\ \A j \in 1 .. (i - 1) : x.whole[j] = y.whole[j]
    BY <1>8 DEF Less
  <2> DEFINE m == n - k + i
  <2>2. m \in 1 .. (n + w) /\ m \in 1 .. n /\ ~(m <= n - k) /\ m - (n - k) = i
    <3> HIDE DEF k, l
    <3> QED BY <1>0
  <2>3. \A j \in 1 .. (m - 1) : j \in 1 .. n /\ (~(j <= n - k) => j - (n - k) \in 1 .. (i - 1))
    <3> HIDE DEF k, l
    <3> QED BY <1>0
  <2> HIDE DEF m, k, l
  <2>4. s[m] < t[m]
    BY <1>5, <1>8, <2>1, <2>2
  <2>5. \A j \in 1 .. (m - 1) : s[j] = t[j]
    BY <1>5, <1>8, <2>1, <2>3
  <2> QED BY <1>2, <2>2, <2>4, <2>5 DEF Less, s, t
<1>9. CASE x.whole = y.whole /\ Below(x.frac, y.frac)
  <2> DEFINE p == Pad(x.frac, w)
             q == Pad(y.frac, w)
  <2>1. Less(p, q) /\ Len(p) = w
    <3>1. Digits \subseteq Int
      BY DEF Digits
    <3>2. x.frac \in Seq(Int) /\ y.frac \in Seq(Int)
      BY <1>1, <3>1, SeqMonotonic
    <3>3. Less(p, q)
      BY <1>9, <3>2, PaddedOrder
    <3> QED BY <1>1, <3>3, PadType
  <2> HIDE DEF p, q
  <2>2. PICK i \in 1 .. w : p[i] < q[i] /\ \A j \in 1 .. (i - 1) : p[j] = q[j]
    BY <2>1 DEF Less
  <2> DEFINE m == n + i
  <2>3. m \in 1 .. (n + w) /\ m - n = i
    OBVIOUS
  <2>4. s[m] < t[m]
    BY <1>6, <2>2 DEF p, q
  <2>5. ASSUME NEW j \in 1 .. (m - 1) PROVE s[j] = t[j]
    <3>1. CASE j \in 1 .. n
      <4>1. k = l
        BY <1>9
      <4> HIDE DEF k, l
      <4> QED BY <1>5, <1>9, <3>1, <4>1
    <3>2. CASE j \notin 1 .. n
      <4> DEFINE r == j - n
      <4>1. r \in 1 .. (i - 1) /\ r \in 1 .. w /\ n + r = j
        BY <3>2
      <4> HIDE DEF r
      <4>2. s[n + r] = p[r] /\ t[n + r] = q[r]
        BY <1>6, <4>1 DEF p, q
      <4> QED BY <2>2, <4>1, <4>2
    <3> QED BY <3>1, <3>2
  <2> HIDE DEF m
  <2> QED BY <1>2, <2>3, <2>4, <2>5 DEF Less, s, t
<1> QED BY <1>7, <1>8, <1>9 DEF Lower, s, t

\* Strings of one length are the same, or one of them comes first.
LEMMA LessTotal ==
  ASSUME NEW s \in Seq(Int), NEW t \in Seq(Int), Len(s) = Len(t)
  PROVE  s = t \/ Less(s, t) \/ Less(t, s)
<1> SUFFICES ASSUME s # t PROVE Less(s, t) \/ Less(t, s)
  OBVIOUS
<1> DEFINE D == {i \in 1 .. Len(s) : s[i] # t[i]}
<1>1. Len(s) \in Nat /\ \A i \in 1 .. Len(s) : s[i] \in Int /\ t[i] \in Int
  BY ElementOfSeq, LenProperties
<1>2. D \in SUBSET Nat /\ D # {}
  <2>1. ~(\A i \in 1 .. Len(s) : s[i] = t[i])
    BY SeqEqual
  <2>2. D # {}
    BY <2>1
  <2>3. D \in SUBSET Nat
    BY <1>1
  <2> QED BY <2>2, <2>3
<1>3. PICK i \in D : \A j \in D : i <= j
  <2> HIDE DEF D
  <2> QED BY <1>2, NatLeast
<1>4. /\ i \in 1 .. Len(s) /\ s[i] # t[i]
      /\ \A j \in 1 .. (i - 1) : s[j] = t[j]
  BY <1>1, <1>3
<1>5. s[i] < t[i] \/ t[i] < s[i]
  BY <1>1, <1>4
<1> QED BY <1>4, <1>5 DEF Less

\* The three answers of the comparison.
LEMMA CmpCases ==
  ASSUME NEW a, NEW b, IsDecimal(a), IsDecimal(b)
  PROVE  LET x == NormDecimal(a)
             y == NormDecimal(b)
         IN \/ CmpDecimal(a, b) = -1 /\ Lower(x, y)
            \/ CmpDecimal(a, b) = 0 /\ x.whole = y.whole /\ Same(x.frac, y.frac)
            \/ CmpDecimal(a, b) = 1 /\ Lower(y, x)
<1> DEFINE x == NormDecimal(a)
           y == NormDecimal(b)
           w == Width(x.frac, y.frac)
           p == Pad(x.frac, w)
           q == Pad(y.frac, w)
<1>1. /\ x.whole \in Seq(Int) /\ y.whole \in Seq(Int)
      /\ x.frac \in Seq(Int) /\ y.frac \in Seq(Int)
  BY NormType
<1>2. CmpDecimal(a, b) =
        IF Len(x.whole) # Len(y.whole)
          THEN IF Len(x.whole) < Len(y.whole) THEN -1 ELSE 1
        ELSE IF x.whole # y.whole THEN Order(x.whole, y.whole)
        ELSE Order(p, q)
  BY DEF CmpDecimal
<1> HIDE DEF x, y
<1>3. w \in Nat /\ Len(x.frac) <= w /\ Len(y.frac) <= w
  BY <1>1 DEF Width
<1> HIDE DEF w
<1>4. /\ p = q <=> Same(x.frac, y.frac)
      /\ Less(p, q) <=> Below(x.frac, y.frac)
      /\ Less(q, p) <=> Below(y.frac, x.frac)
  BY <1>1, <1>3, PaddedOrder
<1>5. p = q \/ Less(p, q) \/ Less(q, p)
  <2>1. p \in Seq(Int) /\ q \in Seq(Int) /\ Len(p) = w /\ Len(q) = w
    BY <1>1, <1>3 DEF Pad
  <2> HIDE DEF p, q
  <2> QED BY <2>1, LessTotal
<1> HIDE DEF p, q
<1>6. CASE Len(x.whole) # Len(y.whole)
  <2>1. Len(x.whole) \in Nat /\ Len(y.whole) \in Nat
    BY <1>1, LenProperties
  <2> QED BY <1>2, <1>6, <2>1 DEF Lower, x, y
<1>7. CASE Len(x.whole) = Len(y.whole) /\ x.whole # y.whole
  <2>1. Less(x.whole, y.whole) \/ Less(y.whole, x.whole)
    BY <1>1, <1>7, LessTotal
  <2>2. CmpDecimal(a, b) = Order(x.whole, y.whole)
    BY <1>2, <1>7
  <2>3. \/ CmpDecimal(a, b) = -1 /\ Less(x.whole, y.whole)
        \/ CmpDecimal(a, b) = 1 /\ Less(y.whole, x.whole)
    BY <1>7, <2>1, <2>2 DEF Order
  <2> QED BY <1>7, <2>3 DEF Lower, x, y
<1>8. CASE x.whole = y.whole
  <2>1. CmpDecimal(a, b) = Order(p, q)
    BY <1>2, <1>8
  <2>2. \/ CmpDecimal(a, b) = -1 /\ Less(p, q)
        \/ CmpDecimal(a, b) = 0 /\ p = q
        \/ CmpDecimal(a, b) = 1 /\ Less(q, p)
    BY <1>5, <2>1 DEF Order
  <2> QED BY <1>4, <1>8, <2>2 DEF Lower, x, y
<1> QED BY <1>6, <1>7, <1>8

\* _cmp_decimal orders decimals without a sign as the numbers they stand for,
\* however many digits and places they have.
THEOREM NumericOrder ==
  ASSUME NEW a, NEW b, Unsigned(a), Unsigned(b)
  PROVE  CmpDecimal(a, b) = NumericCmp(a, b)
<1> DEFINE x == NormDecimal(a)
           y == NormDecimal(b)
           n == Width(a.whole, b.whole)
           w == Width(a.frac, b.frac)
           s == Spread(x, n, w)
           t == Spread(y, n, w)
<1>1. /\ n \in Nat /\ Len(a.whole) <= n /\ Len(b.whole) <= n
      /\ w \in Nat /\ Len(a.frac) <= w /\ Len(b.frac) <= w
  BY LenProperties DEF Unsigned, Width
<1> HIDE DEF n, w
<1>2. /\ IsNormal(x) /\ Len(x.whole) <= n /\ Len(x.frac) <= w
      /\ IsNormal(y) /\ Len(y.whole) <= n /\ Len(y.frac) <= w
  <2>1. /\ IsNormal(x) /\ Len(x.whole) <= Len(a.whole) /\ Len(x.frac) <= Len(a.frac)
        /\ IsNormal(y) /\ Len(y.whole) <= Len(b.whole) /\ Len(y.frac) <= Len(b.frac)
    BY NormMeaning DEF IsNormal
  <2>2. /\ Len(x.whole) \in Nat /\ Len(x.frac) \in Nat
        /\ Len(y.whole) \in Nat /\ Len(y.frac) \in Nat
        /\ Len(a.whole) \in Nat /\ Len(a.frac) \in Nat
        /\ Len(b.whole) \in Nat /\ Len(b.frac) \in Nat
    <3> HIDE DEF x, y
    <3> QED BY <2>1, LenProperties DEF Unsigned, IsNormal
  <2> HIDE DEF x, y, s, t
  <2>3. IsNormal(x) /\ IsNormal(y)
    BY <2>1
  <2>4. Len(x.whole) <= n /\ Len(y.whole) <= n
    <3> DEFINE i == Len(x.whole)
               j == Len(y.whole)
               k == Len(a.whole)
               l == Len(b.whole)
    <3>1. /\ i \in Nat /\ j \in Nat /\ k \in Nat /\ l \in Nat /\ n \in Nat
          /\ i <= k /\ j <= l /\ k <= n /\ l <= n
      BY <1>1, <2>1, <2>2
    <3> HIDE DEF i, j, k, l
    <3>2. i <= n /\ j <= n
      BY <3>1
    <3> QED BY <3>2 DEF i, j
  <2>5. Len(x.frac) <= w /\ Len(y.frac) <= w
    <3> DEFINE i == Len(x.frac)
               j == Len(y.frac)
               k == Len(a.frac)
               l == Len(b.frac)
    <3>1. /\ i \in Nat /\ j \in Nat /\ k \in Nat /\ l \in Nat /\ w \in Nat
          /\ i <= k /\ j <= l /\ k <= w /\ l <= w
      BY <1>1, <2>1, <2>2
    <3> HIDE DEF i, j, k, l
    <3>2. i <= w /\ j <= w
      BY <3>1
    <3> QED BY <3>2 DEF i, j
  <2> QED BY <2>3, <2>4, <2>5
<1>3. Units(a, w) = Number[s] /\ Units(b, w) = Number[t]
  BY <1>1, ValueOfSpread
<1>4. \/ CmpDecimal(a, b) = -1 /\ Lower(x, y)
      \/ CmpDecimal(a, b) = 0 /\ x.whole = y.whole /\ Same(x.frac, y.frac)
      \/ CmpDecimal(a, b) = 1 /\ Lower(y, x)
  BY CmpCases DEF IsDecimal
<1> HIDE DEF x, y
<1>5. /\ s \in Seq(Digits) /\ Len(s) = n + w
      /\ t \in Seq(Digits) /\ Len(t) = n + w
  <2>1. /\ x.whole \in Seq(Digits) /\ x.frac \in Seq(Digits)
        /\ y.whole \in Seq(Digits) /\ y.frac \in Seq(Digits)
    BY <1>2 DEF IsNormal
  <2>2. s \in Seq(Digits) /\ Len(s) = n + w
    BY <1>1, <1>2, <2>1, SpreadType
  <2>3. t \in Seq(Digits) /\ Len(t) = n + w
    BY <1>1, <1>2, <2>1, SpreadType
  <2> QED BY <2>2, <2>3
<1>6. Lower(x, y) => Number[s] < Number[t]
  <2>1. Lower(x, y) => Less(s, t)
    BY <1>1, <1>2, LowerIsLess
  <2> HIDE DEF s, t
  <2> QED BY <1>5, <2>1, LessIsSmaller
<1>7. Lower(y, x) => Number[t] < Number[s]
  <2>1. Lower(y, x) => Less(t, s)
    BY <1>1, <1>2, LowerIsLess
  <2> HIDE DEF s, t
  <2> QED BY <1>5, <2>1, LessIsSmaller
<1>8. ASSUME x.whole = y.whole, Same(x.frac, y.frac) PROVE s = t
  <2>1. Digits \subseteq Int
    BY DEF Digits
  <2>2. x.frac \in Seq(Int) /\ y.frac \in Seq(Int)
    BY <1>2, <2>1, SeqMonotonic DEF IsNormal
  <2>3. Pad(x.frac, w) = Pad(y.frac, w)
    BY <1>1, <1>2, <1>8, <2>2, PaddedOrder
  <2> QED BY <1>8, <2>3 DEF Spread
<1>9. Number[s] \in Nat /\ Number[t] \in Nat
  <2> HIDE DEF s, t
  <2> QED BY <1>5, NumberEquation
<1>10. NumericCmp(a, b) = Compare(Number[s], Number[t])
  BY <1>3 DEF NumericCmp, w
<1> HIDE DEF s, t
<1> QED BY <1>4, <1>6, <1>7, <1>8, <1>9, <1>10 DEF Compare
=============================================================================
